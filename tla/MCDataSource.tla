---------------------------- MODULE MCDataSource ----------------------------
(***************************************************************************)
(* An instance of DataSource for TLC: two endpoints, the first careless    *)
(* about the expected parent and never sure to work, the second live once  *)
(* the network has settled.                                                *)
(***************************************************************************)
EXTENDS DataSource

First == {1}
Second == {2}

\* Both branches hold block 0, so either may report it as final.
GenesisFinal == {0}
=============================================================================
