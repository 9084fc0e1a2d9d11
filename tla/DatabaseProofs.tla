--------------------------- MODULE DatabaseProofs ---------------------------
(***************************************************************************)
(* The invariant of storage is kept by the steps of a job that build, hand *)
(* over or commit tables; the theorems about storage that follow.          *)
(***************************************************************************)
EXTENDS DatabaseAtomicity, DatabaseStepProofs

-----------------------------------------------------------------------------
(* Steps of a job that touch tables                                        *)

\* A new table is nobody's.
LEMMA FreshTable ==
    ASSUME DbInv, NEW t \in NewTableId
    PROVE  /\ t \in TableId /\ t # None /\ t \notin TablesOf(chunks)
           /\ t \notin dirty /\ t \notin deleted /\ t \notin pending
           /\ \A p \in Proc : t \notin Mine(p)
  BY DatabaseAssumption DEF NewTableId, InUse, Mine

\* A table of a job is marked, and in no chunk or scan.
LEMMA JobTables ==
    ASSUME DbInv, NEW p \in Proc, NEW t \in Mine(p)
    PROVE  /\ t \in TableId /\ t # None /\ t \in dirty /\ t \notin deleted
           /\ t \notin TablesOf(chunks) /\ t \notin pending
           /\ \A q \in Proc : q # p => t \notin Mine(q)
  <1>1. t \in TableId /\ t # None
    BY DatabaseAssumption DEF Mine, DbInv, TypeOK, ProcState
  <1>2. t \in dirty /\ t \notin deleted
    BY DEF Mine, DbInv, TableInv, BuildsUntouched
  <1>3. t \notin TablesOf(chunks)
    BY <1>2 DEF DbInv, TableInv, LiveReadable
  <1>4. t \notin pending
    <2>1. proc[p].pc # "Idle"
      BY DEF Mine, DbInv, JobInv, JobOK
    <2>2. boot.pc # "Orphans"
      BY <2>1 DEF DbInv, ServedInv, Up
    <2> QED BY <1>2, <2>2 DEF DbInv, TableInv, ScanInv
  <1>5. \A q \in Proc : q # p => t \notin Mine(q)
    BY DEF DbInv, TableInv, OwnedOnce, Proc
  <1> QED BY <1>1, <1>2, <1>3, <1>4, <1>5

\* A batch of a builder writes one table, a new one or the one it is at, with
\* its marker.
LEMMA BuildStep ==
    ASSUME DbInv, NEW p \in Proc, FlushTable(p) \/ FinishTable(p)
    PROVE  DbInv'
  <1>1. PICK t \in TableId, fill \in {"Part", "Full"} :
           /\ t \in NewTableId \/ (t = proc[p].cur /\ t # None)
           /\ data' = [data EXCEPT ![t] = fill] /\ dirty' = dirty \cup {t}
           /\ \/ fill = "Part" /\ proc[p].cur = None /\ proc' = [proc EXCEPT ![p].cur = t]
              \/ fill = "Full" /\ proc' = [proc EXCEPT ![p].built = @ \cup {t}, ![p].cur = None]
           /\ t \in NewTableId => proc[p].cur = None
    <2>1. CASE FlushTable(p)
      <3>1. PICK t \in NewTableId : /\ data' = [data EXCEPT ![t] = "Part"] /\ dirty' = dirty \cup {t}
                                    /\ proc' = [proc EXCEPT ![p].cur = t]
        BY <2>1, Zenon DEF FlushTable
      <3>2. proc[p].cur = None /\ t \in TableId
        BY <2>1, FreshTable DEF FlushTable
      <3> QED BY <3>1, <3>2, Zenon
    <2>2. CASE FinishTable(p)
      <3>1. PICK t \in IF proc[p].cur = None THEN NewTableId ELSE {proc[p].cur} :
               /\ data' = [data EXCEPT ![t] = "Full"] /\ dirty' = dirty \cup {t}
               /\ proc' = [proc EXCEPT ![p].built = @ \cup {t}, ![p].cur = None]
        BY <2>2, Zenon DEF FinishTable
      <3>2. (t \in NewTableId \/ (t = proc[p].cur /\ t # None)) /\ t \in TableId
        BY <3>1, FreshTable DEF DbInv, TypeOK, ProcState
      <3>3. t \in NewTableId => proc[p].cur = None
        <4>1. ASSUME t \in NewTableId, proc[p].cur # None PROVE FALSE
          <5>1. t \in Mine(p)
            BY <3>1, <4>1 DEF Mine
          <5> QED BY <4>1, <5>1, FreshTable
        <4> QED BY <4>1
      <3> QED BY <3>1, <3>2, <3>3, Zenon
    <2> QED BY <2>1, <2>2, Zenon
  <1>2. /\ label' = label /\ chunks' = chunks /\ deleted' = deleted /\ index' = index
        /\ pending' = pending /\ boot' = boot /\ lost' = lost /\ faults' = faults
        /\ proc[p].pc = "Build" /\ Cardinality(proc[p].built) < Cardinality(Names)
    BY DEF FlushTable, FinishTable, Building
  <1>3. /\ proc \in [Proc -> ProcState] /\ proc[p] \in ProcState /\ data \in [TableId -> {"None", "Part", "Full"}]
        /\ JobOK(proc[p], chunks) /\ KindOK(proc[p])
    BY DEF DbInv, TypeOK, JobInv, KindInv
  <1>4. /\ t \in TableId /\ t # None /\ t \notin TablesOf(chunks) /\ t \notin deleted /\ t \notin pending
        /\ \A q \in Proc : q # p => t \notin Mine(q)
    <2>1. CASE t \in NewTableId
      BY <2>1, FreshTable
    <2>2. CASE t = proc[p].cur /\ t # None
      <3>1. t \in Mine(p)
        BY <2>2 DEF Mine
      <3> QED BY <3>1, JobTables
    <2> QED BY <1>1, <2>1, <2>2
  <1>5. /\ proc' \in [Proc -> ProcState] /\ \A q \in Proc : q # p => proc'[q] = proc[q]
        /\ proc'[p].pc = "Build" /\ proc'[p].job = proc[p].job /\ proc'[p].attempt = proc[p].attempt
        /\ \/ proc'[p].built = proc[p].built /\ proc'[p].cur = t /\ fill = "Part" /\ proc[p].cur = None
           \/ proc'[p].built = proc[p].built \cup {t} /\ proc'[p].cur = None /\ fill = "Full"
    BY <1>1, <1>2, <1>3, <1>4 DEF ProcState
  <1>6. data'[t] = fill /\ \A u \in TableId : u # t => data'[u] = data[u]
    BY <1>1, <1>3, <1>4
  <1> USE <1>1, <1>2, <1>4, <1>5, <1>6
  <1>7. Mine(p)' = Mine(p) \cup {t}
    <2>1. CASE t \in NewTableId
      BY <2>1, Zenon DEF Mine
    <2>2. CASE t = proc[p].cur /\ t # None
      BY <2>2, Zenon DEF Mine
    <2> QED BY <2>1, <2>2
  <1>8. TypeOK'
    BY <1>3 DEF DbInv, TypeOK
  <1>9. ServedInv'
    BY Zenon DEF DbInv, ServedInv, Up
  <1>10. JobOK(proc'[p], chunks) /\ KindOK(proc'[p])
    BY <1>3, Zenon DEF JobOK, KindOK
  <1>11. JobInv' /\ KindInv'
    BY <1>10, Zenon DEF DbInv, JobInv, KindInv
  <1>12. ScanInv'
    BY DEF DbInv, TableInv, ScanInv
  <1>13. OwnedOnce'
    <2>1. \A q \in Proc : q # p => Mine(q)' = Mine(q)
      BY Zenon DEF Mine
    <2>2. (Mine("writer") \cap Mine("compaction") = {})'
      BY <1>7, <2>1 DEF DbInv, TableInv, OwnedOnce, Proc
    <2> QED BY <2>2, Zenon DEF DbInv, TableInv, OwnedOnce
  <1>14. LiveReadable'
    <2>1. TablesOf(chunks) \subseteq TableId
      BY DEF DbInv, TypeOK, TablesOf, StoredChunk
    <2> QED BY <2>1, Zenon DEF DbInv, TableInv, LiveReadable, TablesOf
  <1>15. BuildsUntouched'
    <2>1. ASSUME NEW q \in Proc, q # p
          PROVE  /\ \A u \in proc'[q].built : data'[u] = "Full" /\ u \in dirty' \ deleted'
                 /\ proc'[q].cur # None => data'[proc'[q].cur] = "Part" /\ proc'[q].cur \in dirty' \ deleted'
      <3>1. \A u \in Mine(q) : u # t /\ u \in TableId
        BY <2>1, JobTables
      <3> QED BY <2>1, <3>1 DEF DbInv, TableInv, BuildsUntouched, Mine
    <2>2. /\ \A u \in proc'[p].built : data'[u] = "Full" /\ u \in dirty' \ deleted'
          /\ proc'[p].cur # None => data'[proc'[p].cur] = "Part" /\ proc'[p].cur \in dirty' \ deleted'
      <3>1. \A u \in proc[p].built : u \in TableId /\ data[u] = "Full" /\ u \in dirty \ deleted
        BY <1>3 DEF DbInv, TableInv, BuildsUntouched, ProcState
      <3>2. fill = "Part" => t \notin proc[p].built
        BY FreshTable DEF Mine
      <3> QED BY <3>1, <3>2
    <2> QED BY <2>1, <2>2, Zenon DEF BuildsUntouched
  <1>16. TablesAccounted'
    <2>1. \A u \in TableId : data'[u] # "None" => u \in TablesOf(chunks) \cup dirty' \cup deleted'
      BY Zenon DEF DbInv, TableInv, TablesAccounted
    <2>2. ASSUME NEW u \in dirty' \ (deleted' \cup lost')
          PROVE  \E q \in Proc : u \in proc'[q].built \cup {proc'[q].cur}
      <3>1. CASE u = t
        BY <3>1
      <3>2. CASE u # t
        <4>1. PICK q \in Proc : u \in proc[q].built \cup {proc[q].cur}
          BY <2>2, <3>2, Zenon DEF DbInv, TableInv, TablesAccounted
        <4>2. CASE q # p
          BY <4>1, <4>2, Zenon
        <4>3. CASE q = p
          <5>1. u # None
            BY <2>2, <3>2, DatabaseAssumption DEF DbInv, TypeOK
          <5>2. u \in Mine(p)'
            BY <1>7, <4>1, <4>3, <5>1, Zenon DEF Mine
          <5> QED BY <5>2, Zenon DEF Mine
        <4> QED BY <4>2, <4>3, Zenon
      <3> QED BY <3>1, <3>2, Zenon
    <2> QED BY <2>1, <2>2, Zenon DEF TablesAccounted, TablesOf
  <1> QED BY <1>8, <1>9, <1>11, <1>12, <1>13, <1>14, <1>15, <1>16, SameChunks, SameIndex, Zenon DEF DbInv, TableInv

\* A job ends without a commit: its tables are lost or handed to the cleanup.
LEMMA EndStep ==
    ASSUME DbInv, NEW p \in Proc, BuildFails(p) \/ Abandon(p) \/ AbandonFails(p)
    PROVE  DbInv'
  <1>1. /\ label' = label /\ chunks' = chunks /\ data' = data /\ dirty' = dirty /\ index' = index
        /\ pending' = pending /\ boot' = boot /\ proc' = [proc EXCEPT ![p] = Idle]
        /\ \/ deleted' = deleted /\ lost' = lost \cup Mine(p)
           \/ proc[p].pc = "Abandon" /\ deleted' = deleted \cup proc[p].built /\ lost' = lost
           \/ proc[p].pc = "Abandon" /\ deleted' = deleted /\ lost' = lost \cup proc[p].built
    BY Zenon DEF BuildFails, Abandon, AbandonFails, Mine, markers
  <1>2. proc[p].pc = "Abandon" => Mine(p) = proc[p].built
    BY DEF DbInv, JobInv, JobOK, Mine
  <1>3. \/ deleted' = deleted /\ lost' = lost \cup Mine(p)
        \/ deleted' = deleted \cup Mine(p) /\ lost' = lost
    BY <1>1, <1>2
  <1>4. Mine(p) \subseteq TableId
    BY JobTables
  <1>5. Idle \in ProcState /\ Idle.pc = "Idle" /\ Idle.built = {} /\ Idle.cur = None
    BY IdleState
  <1>6. /\ proc' \in [Proc -> ProcState] /\ proc'[p] = Idle
        /\ \A q \in Proc : q # p => proc'[q] = proc[q]
    BY <1>1, <1>5, JobUpdate, Zenon DEF DbInv
  <1>7. /\ Mine(p)' = {}
        /\ \A q \in Proc : q # p => Mine(q)' = Mine(q)
    BY <1>5, <1>6 DEF Mine
  <1> USE <1>1, <1>3, <1>6
  <1>8. TypeOK'
    <2>1. faults' \in 0 .. MaxFaults
      BY DatabaseAssumption DEF DbInv, TypeOK, BuildFails, Abandon, AbandonFails
    <2> QED BY <1>4, <2>1 DEF DbInv, TypeOK
  <1>9. ServedInv'
    BY <1>5, Zenon DEF DbInv, ServedInv, Up
  <1>10. JobInv' /\ KindInv'
    <2>1. JobOK(Idle, chunks) /\ KindOK(Idle)
      BY <1>5, Zenon DEF JobOK, KindOK
    <2> QED BY <2>1, Zenon DEF DbInv, JobInv, KindInv
  <1>11. ScanInv'
    BY Zenon DEF DbInv, TableInv, ScanInv
  <1>12. OwnedOnce'
    BY <1>7, Zenon DEF DbInv, TableInv, OwnedOnce, Proc
  <1>13. LiveReadable'
    <2>1. \A t \in TablesOf(chunks) : t \notin deleted'
      BY JobTables, Zenon DEF DbInv, TableInv, LiveReadable
    <2> QED BY <2>1 DEF DbInv, TableInv, LiveReadable, TablesOf
  <1>14. BuildsUntouched'
    <2>1. ASSUME NEW q \in Proc, q # p, NEW t \in Mine(q)
          PROVE  t \in dirty' \ deleted'
      BY <2>1, JobTables, Zenon
    <2>2. ASSUME NEW q \in Proc, q # p
          PROVE  /\ \A t \in proc'[q].built : data'[t] = "Full" /\ t \in dirty' \ deleted'
                 /\ proc'[q].cur # None => data'[proc'[q].cur] = "Part" /\ proc'[q].cur \in dirty' \ deleted'
      BY <2>1, <2>2 DEF DbInv, TableInv, BuildsUntouched, Mine
    <2> QED BY <1>5, <2>2, Zenon DEF BuildsUntouched
  <1>15. TablesAccounted'
    <2>1. \A t \in TableId : data'[t] # "None" => t \in TablesOf(chunks) \cup dirty' \cup deleted'
      BY Zenon DEF DbInv, TableInv, TablesAccounted
    <2>2. ASSUME NEW t \in dirty' \ (deleted' \cup lost')
          PROVE  \E q \in Proc : t \in proc'[q].built \cup {proc'[q].cur}
      <3>1. PICK q \in Proc : t \in proc[q].built \cup {proc[q].cur}
        BY <2>2, Zenon DEF DbInv, TableInv, TablesAccounted
      <3>2. t # None
        BY <2>2, DatabaseAssumption, Zenon DEF DbInv, TypeOK
      <3>3. t \in Mine(q) /\ q # p
        BY <2>2, <3>1, <3>2, Zenon DEF Mine
      <3> QED BY <3>1, <3>3
    <2> QED BY <2>1, <2>2, Zenon DEF TablesAccounted, TablesOf
  <1> QED BY <1>8, <1>9, <1>10, <1>11, <1>12, <1>13, <1>14, <1>15, SameChunks, SameIndex, Zenon DEF DbInv, TableInv

\* A commit hands the tables of the job to its chunk and those of the chunks
\* it deletes to the cleanup; the other job, if it is in a transaction, has
\* lost its snapshot.
LEMMA CommitStep ==
    ASSUME DbInv, NEW p \in Proc, Commit(p)
    PROVE  DbInv'
  <1> DEFINE removed == Removed(proc[p].job, chunks)
             added == Added(p)
             built == proc[p].built
  <1>1. /\ label /\ removed \subseteq chunks /\ added \subseteq StoredChunk
        /\ chunks' = (chunks \ removed) \cup added
        /\ \A a \in added : a.tables = built
        /\ TablesOf(added) = built
        /\ deleted' = deleted \cup TablesOf(removed) /\ dirty' = dirty \ built
        /\ Sound(chunks') /\ index' = UNION {e.indexed : e \in chunks'}
    BY CommitEffect, Zenon
  <1>2. /\ label' = label /\ data' = data /\ pending' = pending /\ boot' = boot /\ lost' = lost /\ faults' = faults
        /\ proc[p].pc = "Commit" /\ proc' = Committed(p)
    BY DEF Commit
  <1> USE <1>1, <1>2
  <1>3. /\ proc \in [Proc -> ProcState] /\ chunks \in SUBSET StoredChunk
        /\ Idle \in ProcState /\ Idle.pc = "Idle" /\ Idle.built = {} /\ Idle.cur = None
    BY IdleState DEF DbInv, TypeOK
  <1>4. /\ proc' \in [Proc -> ProcState] /\ proc'[p] = Idle
        /\ \A q \in Proc : q # p =>
              /\ proc'[q].pc = proc[q].pc /\ proc'[q].job = proc[q].job /\ proc'[q].built = proc[q].built
              /\ proc'[q].cur = proc[q].cur /\ proc'[q].snap = proc[q].snap
              /\ proc'[q].attempt = proc[q].attempt
              /\ proc'[q].pc \in {"Callback", "Commit", "Cancel"} => proc'[q].stale
    <2>1. proc' = [q \in Proc |-> IF q = p THEN Idle ELSE [proc[q] EXCEPT !.stale = @ \/ Open(q)]]
      BY DEF Committed
    <2>2. ASSUME NEW q \in Proc, q # p
          PROVE  /\ proc'[q] \in ProcState
                 /\ proc'[q].pc = proc[q].pc /\ proc'[q].job = proc[q].job /\ proc'[q].built = proc[q].built
                 /\ proc'[q].cur = proc[q].cur /\ proc'[q].snap = proc[q].snap
                 /\ proc'[q].attempt = proc[q].attempt
                 /\ proc'[q].pc \in {"Callback", "Commit", "Cancel"} => proc'[q].stale
      <3>1. proc'[q] = [proc[q] EXCEPT !.stale = @ \/ Open(q)] /\ proc[q] \in ProcState
        BY <1>3, <2>1, <2>2, Zenon
      <3>2. (proc[q].stale \/ Open(q)) \in BOOLEAN
        BY <3>1 DEF Open, ProcState
      <3>3. proc[q].pc \in {"Callback", "Commit", "Cancel"} => Open(q)
        BY Zenon DEF Open
      <3> QED BY <3>1, <3>2, <3>3, Zenon DEF ProcState
    <2> QED BY <1>3, <2>1, <2>2, Zenon
  <1>5. Mine(p) = built /\ Mine(p)' = {} /\ \A q \in Proc : q # p => Mine(q)' = Mine(q)
    BY <1>3, <1>4, Zenon DEF Mine, DbInv, JobInv, JobOK
  <1>6. \A e \in chunks : e.tables \subseteq TablesOf(chunks) /\ e.tables \subseteq TableId
    BY <1>3 DEF TablesOf, StoredChunk
  <1>7. TablesOf(chunks) \subseteq TableId /\ TablesOf(removed) \subseteq TablesOf(chunks)
    BY <1>6 DEF TablesOf
  <1>8. TablesOf(chunks') = TablesOf(chunks \ removed) \cup built
    <2>1. TablesOf(chunks') = TablesOf(chunks \ removed) \cup TablesOf(added)
      BY DEF TablesOf
    <2> QED BY <2>1, Zenon
  <1>9. TablesOf(chunks) = TablesOf(chunks \ removed) \cup TablesOf(removed)
    BY DEF TablesOf
  <1>10. TablesOf(chunks \ removed) \cap TablesOf(removed) = {}
    BY DEF TablesOf, DbInv, TableInv, OwnedOnce
  <1> HIDE DEF removed, added
  <1>11. TypeOK'
    <2>1. chunks' \subseteq StoredChunk /\ deleted' \subseteq TableId /\ dirty' \subseteq TableId
      BY <1>3, <1>7, Zenon DEF DbInv, TypeOK
    <2>2. index' \subseteq BlockRef
      BY <2>1, EntryFields, Zenon
    <2> QED BY <1>4, <2>1, <2>2, Zenon DEF DbInv, TypeOK
  <1>12. ServedInv'
    BY <1>3, <1>4, Zenon DEF DbInv, ServedInv, Up
  <1>13. JobInv' /\ KindInv'
    <2>1. JobOK(Idle, chunks') /\ KindOK(Idle)
      BY <1>3, Zenon DEF JobOK, KindOK
    <2>2. ASSUME NEW q \in Proc, q # p PROVE JobOK(proc'[q], chunks') /\ KindOK(proc'[q])
      <3>1. JobOK(proc[q], chunks) /\ KindOK(proc[q])
        BY Zenon DEF DbInv, JobInv, KindInv
      <3> QED BY <1>4, <2>2, <3>1, Zenon DEF JobOK, KindOK
    <2> QED BY <1>4, <2>1, <2>2, Zenon DEF JobInv, KindInv
  <1>14. ScanInv'
    <2>1. boot.pc # "Orphans"
      BY Zenon DEF DbInv, ServedInv, Up
    <2> QED BY <2>1, Zenon DEF DbInv, TableInv, ScanInv
  <1>15. OwnedOnce'
    <2>1. (Mine("writer") \cap Mine("compaction") = {})'
      BY <1>5, Zenon DEF DbInv, TableInv, OwnedOnce, Proc
    <2>2. built \cap TablesOf(chunks) = {}
      BY <1>5, JobTables, Zenon
    <2>3. \A a, d \in added : a = d
      <3>1. proc[p].job \in Jobs
        BY Zenon DEF DbInv, JobInv, JobOK
      <3>2. proc[p].job.kind \in {"Insert", "Retain", "Merge"}
        BY <3>1, Zenon DEF Jobs
      <3> QED BY <3>2, Zenon DEF added, Added
    <2>4. \A e, d \in chunks' : e # d => e.tables \cap d.tables = {}
      BY <1>6, <2>2, <2>3, Zenon DEF DbInv, TableInv, OwnedOnce
    <2> QED BY <2>1, <2>4, Zenon DEF OwnedOnce
  <1>16. LiveReadable'
    <2>1. ASSUME NEW t \in built
          PROVE  data'[t] = "Full" /\ t \notin dirty' \cup deleted' \cup pending'
      <3>1. data[t] = "Full"
        BY DEF DbInv, TableInv, BuildsUntouched
      <3>2. t \notin deleted /\ t \notin pending /\ t \notin TablesOf(chunks)
        BY <1>5, JobTables, Zenon
      <3> QED BY <1>7, <3>1, <3>2, Zenon
    <2>2. ASSUME NEW t \in TablesOf(chunks \ removed)
          PROVE  data'[t] = "Full" /\ t \notin dirty' \cup deleted' \cup pending'
      BY <1>9, <1>10, Zenon DEF DbInv, TableInv, LiveReadable
    <2> QED BY <1>8, <2>1, <2>2, Zenon DEF LiveReadable, TablesOf
  <1>17. BuildsUntouched'
    <2>1. ASSUME NEW q \in Proc, q # p, NEW t \in Mine(q)
          PROVE  t \in dirty' \ deleted'
      <3>1. t \in dirty /\ t \notin deleted /\ t \notin TablesOf(chunks) /\ t \notin Mine(p)
        BY <2>1, JobTables
      <3> QED BY <1>5, <1>7, <3>1, Zenon
    <2> QED BY <1>3, <1>4, <2>1 DEF DbInv, TableInv, BuildsUntouched, Mine
  <1>18. TablesAccounted'
    <2>1. \A t \in TableId : data'[t] # "None" => t \in TablesOf(chunks') \cup dirty' \cup deleted'
      BY <1>8, <1>9, Zenon DEF DbInv, TableInv, TablesAccounted
    <2>2. ASSUME NEW t \in dirty' \ (deleted' \cup lost')
          PROVE  \E q \in Proc : t \in proc'[q].built \cup {proc'[q].cur}
      <3>1. PICK q \in Proc : t \in proc[q].built \cup {proc[q].cur}
        BY <2>2, Zenon DEF DbInv, TableInv, TablesAccounted
      <3>2. t # None
        BY <2>2, DatabaseAssumption, Zenon DEF DbInv, TypeOK
      <3>3. t \in Mine(q) /\ q # p
        BY <1>5, <2>2, <3>1, <3>2, Zenon DEF Mine
      <3> QED BY <1>4, <3>1, <3>3, Zenon
    <2> QED BY <2>1, <2>2, Zenon DEF TablesAccounted, TablesOf
  <1>19. ChunkInv' /\ IndexExact'
    BY Zenon DEF ChunkInv, Sound, Linked, Headers, IndexExact
  <1> QED BY <1>11, <1>12, <1>13, <1>14, <1>15, <1>16, <1>17, <1>18, <1>19 DEF DbInv, TableInv

-----------------------------------------------------------------------------
(* The theorems                                                            *)

LEMMA DbInvStep == DbInv /\ [Next]_vars => DbInv'
  <1> SUFFICES ASSUME DbInv, [Next]_vars PROVE DbInv'
    OBVIOUS
  <1>1. CASE NewJob
    BY <1>1, NewJobStep
  <1>2. ASSUME NEW p \in Proc, Transaction(p) PROVE DbInv'
    BY <1>2, BuildStep, EndStep, BeginStep, CallbackStep, FailStep, CommitStep, RetryStep DEF Transaction
  <1>3. CASE Cleanup \/ CleanupFails
    BY <1>3, ScanStep, PurgeStep DEF Cleanup
  <1>4. CASE Boot \/ StartFails
    BY <1>4, BootStep, ReclaimStep, DropStep, CreateStep DEF Boot
  <1>5. CASE Crash
    BY <1>5, CrashStep
  <1>6. CASE UNCHANGED vars
    <2>1. UNCHANGED <<label, chunks, data, markers, index, proc, boot, lost, pending, faults>>
      BY <1>6 DEF vars
    <2>2. dirty' = dirty /\ deleted' = deleted
      BY <2>1 DEF markers
    <2>3. TypeOK'
      BY <2>1, <2>2, Zenon DEF DbInv, TypeOK
    <2>4. ServedInv'
      BY <2>1, Zenon DEF DbInv, ServedInv, Up
    <2>5. ScanInv' /\ pending' \subseteq dirty \cup deleted
      BY <2>1, <2>2 DEF DbInv, TableInv, ScanInv
    <2> QED BY <2>1, <2>3, <2>4, <2>5, SameChunks, SameIndex, SameJobs, SameTables DEF DbInv, TableInv
  <1> QED BY <1>1, <1>2, <1>3, <1>4, <1>5, <1>6 DEF Next

LEMMA DatabaseInvariant == Spec => []DbInv
  BY InitInv, DbInvStep, PTL DEF Spec

\* Every variable keeps its type.
THEOREM DatabaseTypeCorrect == Spec => []TypeOK
  <1>1. DbInv => TypeOK
    BY DEF DbInv
  <1> QED BY <1>1, DatabaseInvariant, PTL

\* Committed data stays readable: whatever builds, transactions, cleanups,
\* reclamations, drops, crashes and starts do, in any order, the tables of a
\* stored chunk are complete and unmarked (write_chunk, purge_table,
\* reclaim_disk_space).
THEOREM ChunksStayReadable == Spec => []LiveReadable
  <1>1. DbInv => LiveReadable
    BY DEF DbInv, TableInv
  <1> QED BY <1>1, DatabaseInvariant, PTL

\* No sweep takes a table from a build in progress
\* (purge_orphan_dirty_tables, logical_cleanup).
THEOREM BuildsStayUntouched == Spec => []BuildsUntouched
  <1>1. DbInv => BuildsUntouched
    BY DEF DbInv, TableInv
  <1> QED BY <1>1, DatabaseInvariant, PTL

\* Table data always has an owner or a marker, and a dirty table a running
\* job unless the job has failed or died (TableStorage, delete_chunk).
THEOREM TablesStayAccounted == Spec => []TablesAccounted
  <1>1. DbInv => TablesAccounted
    BY DEF DbInv, TableInv
  <1> QED BY <1>1, DatabaseInvariant, PTL

\* The hash index of a dataset stays exact through forks, merges, changes of
\* the flag, drops and re-creations (index_hashes, unindex_hashes).
THEOREM IndexStaysExact == Spec => []IndexExact
  <1>1. DbInv => IndexExact
    BY DEF DbInv
  <1> QED BY <1>1, DatabaseInvariant, PTL

\* One step of storage is a step of the atomic store, or changes nothing the
\* store shows.
LEMMA AtomicStep ==
    DbInv /\ [Next]_vars => [Store!Next]_<<label, Headers(chunks)>>
  <1> SUFFICES ASSUME DbInv, [Next]_vars
               PROVE  Store!Next \/ (label' = label /\ Headers(chunks)' = Headers(chunks))
    OBVIOUS
  <1>1. UNCHANGED chunks => Headers(chunks)' = Headers(chunks)
    BY DEF Headers
  <1>2. ASSUME NEW p \in Proc, Commit(p) PROVE Store!Next
    <2> DEFINE job == proc[p].job
    <2>1. label /\ label' = label /\ WholeWrite(job)
      BY <1>2, CommitEffect, Zenon
    <2>2. Headers(chunks)' = Headers(chunks')
      BY DEF Headers
    <2> HIDE DEF job
    <2>3. CASE job.chunk \in SourceChunks /\ CanInsertFork(Headers(chunks), job.chunk)
               /\ Headers(chunks') = InsertFork(Headers(chunks), job.chunk)
      <3>1. Store!Insert(job.chunk)
        BY <2>1, <2>2, <2>3, Zenon DEF Store!Insert, Store!CanInsertFork, CanInsertFork, Store!InsertFork, InsertFork,
              Store!ForkSurvivors, ForkSurvivors, Store!LastChunk, LastChunk
      <3> QED BY <2>3, <3>1, Zenon DEF Store!Next
    <2>4. CASE job.from \in Position /\ Headers(chunks') = {c \in Headers(chunks) : job.from <= c.last_block}
      <3>1. Store!Retain(job.from)
        BY <2>1, <2>2, <2>4, Zenon DEF Store!Retain
      <3> QED BY <2>4, <3>1, Zenon DEF Store!Next, Store!Position, Position
    <2>5. ASSUME NEW lo \in Headers(chunks), NEW hi \in Headers(chunks), lo.last_block < hi.first_block,
                 Headers(chunks') = (Headers(chunks) \ MergeRun(Headers(chunks), lo, hi))
                                       \cup {MergedChunk(Headers(chunks), lo, hi)}
          PROVE  Store!Next
      <3>1. Store!Merge(lo, hi)
        BY <2>1, <2>2, <2>5, Zenon DEF Store!Merge, Store!MergeRun, MergeRun, Store!MergedChunk, MergedChunk, Store!Blocks, Blocks
      <3> QED BY <2>5, <3>1, Zenon DEF Store!Next
    <2> QED BY <2>1, <2>3, <2>4, <2>5, Zenon DEF WholeWrite
  <1>3. ASSUME NEW p \in Proc, Transaction(p), ~ Commit(p) PROVE UNCHANGED <<label, chunks>>
    BY <1>3, Zenon DEF Transaction, FlushTable, FinishTable, BuildFails, Begin, Callback, Refuse, Cancel, Retry,
                Exhausted, Abandon, AbandonFails
  <1>4. ASSUME NewJob \/ Cleanup \/ CleanupFails \/ StartFails \/ Crash PROVE UNCHANGED <<label, chunks>>
    BY <1>4, Zenon DEF NewJob, StartInsert, StartRetain, PlanMerge, Cleanup, ScanDeleted, PurgeTable, CleanupFails,
                StartFails, Crash
  <1>5. CASE DropDataset
    <2>1. label /\ label' = FALSE /\ Headers(chunks)' = {}
      BY <1>5 DEF DropDataset, Headers
    <2> QED BY <2>1, Zenon DEF Store!Next, Store!Drop
  <1>6. CASE Create
    <2>1. label' = TRUE /\ Headers(chunks)' = Headers(chunks) /\ label \in BOOLEAN
      BY <1>6 DEF Create, Headers, DbInv, TypeOK
    <2> QED BY <2>1, Zenon DEF Store!Next, Store!Create
  <1>7. ASSUME Boot, ~ DropDataset, ~ Create PROVE UNCHANGED <<label, chunks>>
    BY <1>7, Zenon DEF Boot, Start, Reclaim, ScanOrphans, OrphansPurged, NoDrop, PurgeIndex, DropCleanup, Dropped
  <1>8. CASE UNCHANGED vars
    BY <1>1, <1>8 DEF vars
  <1> QED BY <1>1, <1>2, <1>3, <1>4, <1>5, <1>6, <1>7, <1>8 DEF Next

\* Storage implements the atomic store: whatever the writer, the compaction,
\* the cleanup and the starts interleave, the chunks change by whole
\* transactions on the chunks the one before left (update_dataset,
\* DatasetCompaction::execute).
THEOREM DatabaseImplementsAtomicStore == Spec => ImplementsAtomicStore
  <1>1. Init => Store!Init
    BY Zenon DEF Init, Store!Init, Headers
  <1> QED BY <1>1, DatabaseInvariant, AtomicStep, PTL DEF Spec, ImplementsAtomicStore, Store!Spec, Store!vars
=============================================================================
