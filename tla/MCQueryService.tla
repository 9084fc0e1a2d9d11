--------------------------- MODULE MCQueryService ---------------------------
(***************************************************************************)
(* Instances of QueryService for TLC: two histories that part after block  *)
(* 0, the second of which skips number 1.                                  *)
(***************************************************************************)
EXTENDS QueryService, TLC

Hashes == {"g", "a0", "a1", "a2", "b2"}

ChainA == {Ref(0, "a0"), Ref(1, "a1"), Ref(2, "a2")}
ChainB == {Ref(0, "a0"), Ref(2, "b2")}
TwoChains == {ChainA, ChainB}
OneChain == {{Ref(0, "a0"), Ref(1, "a1")}}

Anywhere == BOOLEAN \X {<<0, None>>, <<0, "g">>, <<1, "a0">>, <<2, "a1">>}
AnyBegin == {<<p[1], p[2][1], p[2][2]>> : p \in Anywhere}
AtGenesis == {<<FALSE, 0, None>>}
Endless == {None}
WithEnd == {None, 1}
=============================================================================
