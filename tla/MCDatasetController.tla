------------------------ MODULE MCDatasetController ------------------------
(***************************************************************************)
(* Instances of DatasetController for TLC.                                 *)
(***************************************************************************)
EXTENDS DatasetController

FromBlock(n) == [kind |-> "FromBlock", number |-> n, parent_hash |-> None]
HeadWindow(n) == [kind |-> "Head", n |-> n]
Off == [kind |-> "None"]

Fixed(s) == [strategy |-> s, api |-> FALSE, max_blocks |-> None]
Api(cap) == [strategy |-> Off, api |-> TRUE, max_blocks |-> cap]

BranchHashes == Branch \X (-1 .. MaxBlock)

\* The inputs of the writer come from the ingest task and the controller.
Nobody == {}

AllConfigs == {Fixed(FromBlock(0)), Fixed(HeadWindow(1)), Api(None), Api(1)}
ShallowConfigs == {Fixed(FromBlock(1)), Api(2)}
PinnedAtTwo == {Fixed(FromBlock(2))}

Bounded(r, c, f) == [reorgs |-> r, changes |-> c, faults |-> f]
SafetyBudgets == {Bounded(2, 0, 1), Bounded(1, 2, 0), Bounded(1, 1, 1)}
ProgressBudget == {Bounded(1, 1, 1)}
ForkBudget == {Bounded(1, 0, 0)}

Floors == {FromBlock(0), FromBlock(1)}
Switches == Floors \cup {HeadWindow(1), Off}
=============================================================================
