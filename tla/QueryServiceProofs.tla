------------------------- MODULE QueryServiceProofs -------------------------
(***************************************************************************)
(* The slots of the query service, for any number of clients and any       *)
(* limits.  A step of the service moves one request from one place of its  *)
(* life to another (Moves); what the counters do must match the places.    *)
(***************************************************************************)
EXTENDS QueryService, FiniteSetTheorems, TLAPS

\* Every client has a record with a place in it.
ReqShape == DOMAIN req = Client /\ \A c \in Client : "pc" \in DOMAIN req[c]

InPlaces(S) == {c \in Client : req[c].pc \in S}

\* The request of c goes from one place to another, those of the others stay.
Moves(c, from, to) ==
    /\ req[c].pc = from /\ req'[c].pc = to
    /\ DOMAIN req' = Client /\ "pc" \in DOMAIN req'[c]
    /\ \A d \in Client \ {c} : req'[d] = req[d]

SlotsInv == ReqShape /\ orphans \in Nat /\ SlotsBalanced

\* Block numbers are well ordered, whatever the largest one is (the form in
\* which ChunkStore's OrderAssumption states it).
LEMMA BlockNumbersOrdered ==
    \A T \in SUBSET BlockNumber : T # {} => \E m \in T : \A n \in T : m <= n
<1> DEFINE less == {ss \in Nat \X Nat : ss[1] < ss[2]}
<1>1. IsWellFoundedOn(less, Nat)
  BY NatLessThanWellFounded DEF OpToRel
<1>2. ASSUME NEW T \in SUBSET BlockNumber, T # {}
      PROVE  \E m \in T : \A n \in T : m <= n
  <2>1. T \in SUBSET Nat
    BY DEF BlockNumber
  <2>2. PICK m \in T : \A n \in T : <<n, m>> \notin less
    <3> HIDE DEF less
    <3> QED BY <1>1, <1>2, <2>1, WFMin, Zenon
  <2>3. ASSUME NEW n \in T PROVE m <= n
    <3>1. m \in Nat /\ n \in Nat /\ <<n, m>> \notin less
      BY <2>1, <2>2
    <3> QED BY <3>1
  <2> QED BY <2>3
<1> QED BY <1>2

-----------------------------------------------------------------------------
(* Moves and the sets the counters count                                   *)

\* Clients are finitely many, and so are those in any set of places.
LEMMA CountsAreNatural ==
    ASSUME NEW S
    PROVE  IsFiniteSet(InPlaces(S)) /\ Cardinality(InPlaces(S)) \in Nat
<1>1. InPlaces(S) \subseteq Client
  BY DEF InPlaces
<1> QED BY <1>1, ClientAssumption, FS_Subset, FS_CardinalityType

\* What a move adds to the number of requests in S.
Gain(S, from, to) == IF to \in S /\ from \notin S THEN 1
                     ELSE IF from \in S /\ to \notin S THEN -1 ELSE 0

\* How a move changes the number of requests in a set of places.
LEMMA MoveCounts ==
    ASSUME NEW S, NEW c \in Client, NEW from, NEW to, Moves(c, from, to)
    PROVE  Cardinality(InPlaces(S))' = Cardinality(InPlaces(S)) + Gain(S, from, to)
<1> DEFINE P == {d \in Client : req[d].pc \in S}
           Q == {d \in Client : req'[d].pc \in S}
<1>1. IsFiniteSet(P) /\ IsFiniteSet(Q)
  BY ClientAssumption, FS_Subset
<1>2. Cardinality(P) \in Nat /\ Cardinality(Q) \in Nat
  BY <1>1, FS_CardinalityType
<1>3. \A d \in Client \ {c} : d \in P <=> d \in Q
  BY DEF Moves
<1>4. (c \in P <=> from \in S) /\ (c \in Q <=> to \in S)
  BY DEF Moves
<1>5. CASE to \in S /\ from \notin S
  <2>1. Q = P \cup {c} /\ c \notin P
    BY <1>3, <1>4, <1>5
  <2>2. Cardinality(Q) = Cardinality(P) + 1
    BY <1>1, <2>1, FS_AddElement
  <2> QED BY <1>2, <1>5, <2>2 DEF InPlaces, Gain
<1>6. CASE from \in S /\ to \notin S
  <2>1. P = Q \cup {c} /\ c \notin Q
    BY <1>3, <1>4, <1>6
  <2>2. Cardinality(P) = Cardinality(Q) + 1
    BY <1>1, <2>1, FS_AddElement, Zenon
  <2> QED BY <1>2, <1>6, <2>2 DEF InPlaces, Gain
<1>7. CASE to \in S <=> from \in S
  <2>1. P = Q
    BY <1>3, <1>4, <1>7
  <2>2. Cardinality(P) = Cardinality(Q)
    BY <2>1, Zenon
  <2>3. Gain(S, from, to) = 0
    BY <1>7 DEF Gain
  <2> QED BY <1>2, <2>2, <2>3 DEF InPlaces
<1> QED BY <1>5, <1>6, <1>7

-----------------------------------------------------------------------------
(* What each action does to the place of its request                       *)

\* The ways in which actions write the record of a request.
LEMMA ToMoves ==
    ASSUME ReqShape, NEW c \in Client, NEW from, NEW to, req[c].pc = from, To(c, to)
    PROVE  Moves(c, from, to)
BY DEF ReqShape, To, Moves

\* The request is over.
LEMMA CloseMoves ==
    ASSUME ReqShape, NEW c \in Client, NEW from, req[c].pc = from, Close(c)
    PROVE  Moves(c, from, "idle")
BY DEF ReqShape, Close, Moves, Idle

\* A task ends with an outcome.
LEMMA FinishMoves ==
    ASSUME ReqShape, NEW c \in Client, req[c].pc = "task", NEW outcome, Finish(c, outcome)
    PROVE  Moves(c, "task", "finishing")
BY DEF ReqShape, Finish, Moves

\* A runner is replaced, the place stays.
LEMMA RunnerMoves ==
    ASSUME ReqShape, NEW c \in Client, NEW from, NEW runner, req[c].pc = from,
           req' = [req EXCEPT ![c].runner = runner]
    PROVE  Moves(c, from, from)
BY DEF ReqShape, Moves

\* A runner is replaced and the request goes on.
LEMMA RunnerPcMoves ==
    ASSUME ReqShape, NEW c \in Client, NEW from, NEW to, NEW runner, req[c].pc = from,
           req' = [req EXCEPT ![c].runner = runner, ![c].pc = to]
    PROVE  Moves(c, from, to)
BY DEF ReqShape, Moves

\* The places between which the requests of the waiters go.
LEMMA WaitMoves ==
    ASSUME ReqShape, NEW c \in Client
    PROVE  /\ Ask(c) => UNCHANGED req \/ \E to \in {"get_slot", "wait_slot"} : Moves(c, "idle", to)
           /\ GetWaitSlot(c) =>
                \/ waiters < MaxWaiters /\ Moves(c, "wait_slot", "waiting")
                \/ ~ (waiters < MaxWaiters) /\ Moves(c, "wait_slot", "wait_refused")
           /\ DropWaitSlot(c) => Moves(c, "wait_refused", "idle")
           /\ BlockArrived(c) => Moves(c, "waiting", "get_slot")
           /\ WaitTimesOut(c) => Moves(c, "waiting", "idle")
<1>1. ASSUME Ask(c)
      PROVE  UNCHANGED req \/ \E to \in {"get_slot", "wait_slot"} : Moves(c, "idle", to)
  BY <1>1 DEF Ask, ReqShape, Moves, Idle
<1>2. ASSUME GetWaitSlot(c)
      PROVE  \/ waiters < MaxWaiters /\ Moves(c, "wait_slot", "waiting")
             \/ ~ (waiters < MaxWaiters) /\ Moves(c, "wait_slot", "wait_refused")
  BY <1>2, ToMoves DEF GetWaitSlot
<1>3. DropWaitSlot(c) => Moves(c, "wait_refused", "idle")
  BY CloseMoves DEF DropWaitSlot
<1>4. BlockArrived(c) => Moves(c, "waiting", "get_slot")
  BY ToMoves DEF BlockArrived
<1>5. WaitTimesOut(c) => Moves(c, "waiting", "idle")
  BY CloseMoves DEF WaitTimesOut
<1> QED BY <1>1, <1>2, <1>3, <1>4, <1>5

\* And those of the holders of a slot.
LEMMA SlotMoves ==
    ASSUME ReqShape, NEW c \in Client
    PROVE  /\ GetSlot(c) =>
                \/ in_flight < MaxTasks /\ Moves(c, "get_slot", "task")
                \/ ~ (in_flight < MaxTasks) /\ Moves(c, "get_slot", "refused")
           /\ Busy(c) => Moves(c, "refused", "idle")
           /\ OpenRunner(c) \/ WriteNextChunk(c) \/ ExecutionFails(c) \/ WorkerPanics(c) =>
                \E to \in {"task", "finishing"} : Moves(c, "task", to)
           /\ DropSlot(c) => Moves(c, "finishing", "reply")
<1>1. ASSUME GetSlot(c)
      PROVE  \/ in_flight < MaxTasks /\ Moves(c, "get_slot", "task")
             \/ ~ (in_flight < MaxTasks) /\ Moves(c, "get_slot", "refused")
  BY <1>1, ToMoves DEF GetSlot
<1>2. Busy(c) => Moves(c, "refused", "idle")
  BY CloseMoves DEF Busy
<1>3. ASSUME OpenRunner(c)
      PROVE  \E to \in {"task", "finishing"} : Moves(c, "task", to)
  <2>1. req[c].pc = "task"
    BY <1>3 DEF OpenRunner
  <2>2. \/ \E runner : req' = [req EXCEPT ![c].runner = runner]
        \/ \E outcome : Finish(c, outcome)
    BY <1>3 DEF OpenRunner
  <2> QED BY <2>1, <2>2, RunnerMoves, FinishMoves
<1>4. ASSUME WriteNextChunk(c)
      PROVE  \E to \in {"task", "finishing"} : Moves(c, "task", to)
  <2>1. req[c].pc = "task"
    BY <1>4 DEF WriteNextChunk
  <2>2. \/ \E runner : \E pc \in {"task", "finishing"} :
             req' = [req EXCEPT ![c].runner = runner, ![c].pc = pc]
        \/ \E outcome : Finish(c, outcome)
    BY <1>4, Zenon DEF WriteNextChunk
  <2> QED BY <2>1, <2>2, RunnerPcMoves, FinishMoves, Zenon
<1>5. ExecutionFails(c) \/ WorkerPanics(c) => Moves(c, "task", "finishing")
  BY FinishMoves DEF ExecutionFails, WorkerPanics
<1>6. DropSlot(c) => Moves(c, "finishing", "reply")
  BY ToMoves DEF DropSlot
<1> QED BY <1>1, <1>2, <1>3, <1>4, <1>5, <1>6

\* A reply and a stream hold nothing.
LEMMA ReplyMoves ==
    ASSUME ReqShape, NEW c \in Client, FirstReply(c) \/ NextDataPack(c) \/ NextReply(c)
    PROVE  \E from \in {"reply", "stream"}, to \in {"idle", "stream", "get_slot"} :
              Moves(c, from, to)
<1>1. CASE FirstReply(c)
  <2>1. req[c].pc = "reply"
    BY <1>1 DEF FirstReply
  <2>2. Close(c) \/ req' = [req EXCEPT ![c].streaming = TRUE, ![c].pc = "stream"]
    BY <1>1, Zenon DEF FirstReply
  <2>3. CASE req' = [req EXCEPT ![c].streaming = TRUE, ![c].pc = "stream"]
    BY <2>1, <2>3 DEF ReqShape, Moves
  <2> QED BY <2>1, <2>2, <2>3, CloseMoves, Zenon
<1>2. CASE NextDataPack(c)
  <2>1. req[c].pc = "stream"
    BY <1>2 DEF NextDataPack
  <2>2. Close(c) \/ To(c, "get_slot") \/ req' = [req EXCEPT ![c].runner.buf = {}]
    BY <1>2 DEF NextDataPack
  <2>3. CASE req' = [req EXCEPT ![c].runner.buf = {}]
    BY <2>1, <2>3 DEF ReqShape, Moves
  <2> QED BY <2>1, <2>2, <2>3, CloseMoves, ToMoves
<1>3. CASE NextReply(c)
  <2>1. req[c].pc = "reply"
    BY <1>3 DEF NextReply
  <2>2. Close(c) \/ req' = [req EXCEPT ![c].runner.buf = {}, ![c].pc = "stream"]
    BY <1>3 DEF NextReply
  <2>3. CASE req' = [req EXCEPT ![c].runner.buf = {}, ![c].pc = "stream"]
    BY <2>1, <2>3 DEF ReqShape, Moves
  <2> QED BY <2>1, <2>2, <2>3, CloseMoves
<1> QED BY <1>1, <1>2, <1>3

\* A client may go away at any await.
LEMMA DisconnectMoves ==
    ASSUME ReqShape, NEW c \in Client, Disconnect(c)
    PROVE  \E from \in {"waiting", "task", "finishing", "reply", "stream"} :
              from = req[c].pc /\ Moves(c, from, "idle")
BY CloseMoves DEF Disconnect

-----------------------------------------------------------------------------
(* The counters follow the places                                          *)

\* The numbers that SlotsBalanced speaks of.
Counts ==
    /\ Cardinality(Holders) \in Nat
    /\ Cardinality(InPc("refused")) \in Nat
    /\ Cardinality(InPc("waiting")) \in Nat
    /\ Cardinality(InPc("wait_refused")) \in Nat

\* They are natural numbers.
LEMMA CountsType == Counts
<1>1. Holders = InPlaces({"task", "finishing"}) /\ \A x : InPc(x) = InPlaces({x})
  BY DEF Holders, InPc, InPlaces
<1> QED BY <1>1, CountsAreNatural, Zenon DEF Counts

\* And this is what a move does to them.
LEMMA MoveSlots ==
    ASSUME NEW c \in Client, NEW from, NEW to, Moves(c, from, to), ReqShape
    PROVE  /\ ReqShape'
           /\ Cardinality(Holders)' = Cardinality(Holders) + Gain({"task", "finishing"}, from, to)
           /\ Cardinality(InPc("refused"))' = Cardinality(InPc("refused")) + Gain({"refused"}, from, to)
           /\ Cardinality(InPc("waiting"))' = Cardinality(InPc("waiting")) + Gain({"waiting"}, from, to)
           /\ Cardinality(InPc("wait_refused"))' =
                Cardinality(InPc("wait_refused")) + Gain({"wait_refused"}, from, to)
<1>1. ReqShape'
  BY DEF ReqShape, Moves
<1>2. ASSUME NEW S
      PROVE  Cardinality(InPlaces(S))' = Cardinality(InPlaces(S)) + Gain(S, from, to)
  BY MoveCounts
<1>3. /\ Holders = InPlaces({"task", "finishing"})
      /\ Holders' = InPlaces({"task", "finishing"})'
  BY DEF Holders, InPlaces
<1>4. ASSUME NEW x
      PROVE  InPc(x) = InPlaces({x}) /\ InPc(x)' = InPlaces({x})'
  BY DEF InPc, InPlaces
<1> QED BY <1>1, <1>2, <1>3, <1>4

\* At the start nobody holds anything.
LEMMA SlotsInit == Init => SlotsInv
<1> SUFFICES ASSUME Init PROVE SlotsInv
  OBVIOUS
<1>1. ReqShape
  BY DEF Init, ReqShape, Idle
<1>2. Holders = {} /\ \A x \in {"refused", "waiting", "wait_refused"} : InPc(x) = {}
  BY DEF Init, Idle, Holders, InPc
<1> QED BY <1>1, <1>2, FS_EmptySet, LimitsAssumption DEF SlotsInv, SlotsBalanced, Init

\* A step of the slots, by what it does to its request and to the counters.
LEMMA SlotsStep == SlotsInv /\ [Next]_vars => SlotsInv'
<1> SUFFICES ASSUME SlotsInv, [Next]_vars PROVE SlotsInv'
  OBVIOUS
<1>0. ReqShape /\ orphans \in Nat /\ Counts /\ MaxTasks \in Nat /\ MaxWaiters \in Nat
  BY CountsType, LimitsAssumption DEF SlotsInv
<1>1. ASSUME UNCHANGED <<waiters, in_flight, orphans, req>> PROVE SlotsInv'
  BY <1>1 DEF SlotsInv, SlotsBalanced, ReqShape, Holders, InPc
<1>2. CASE Dataset \/ UNCHANGED vars
  BY <1>1, <1>2 DEF Dataset, vars
<1>3. CASE OrphanEnds
  <2>1. Holders' = Holders /\ \A x : InPc(x)' = InPc(x)
    BY <1>3 DEF OrphanEnds, Holders, InPc
  <2>2. ReqShape'
    BY <1>0, <1>3 DEF OrphanEnds, ReqShape
  <2> QED BY <1>0, <1>3, <2>1, <2>2 DEF OrphanEnds, SlotsInv, SlotsBalanced, Counts
<1>4. ASSUME NEW c \in Client, Ask(c) PROVE SlotsInv'
  <2>1. UNCHANGED <<waiters, in_flight, orphans>>
    BY <1>4 DEF Ask
  <2>2. CASE UNCHANGED req
    BY <1>1, <2>1, <2>2
  <2>3. ASSUME NEW to \in {"get_slot", "wait_slot"}, Moves(c, "idle", to) PROVE SlotsInv'
    BY <1>0, <2>1, <2>3, MoveSlots DEF SlotsInv, SlotsBalanced, Counts, Gain
  <2> QED BY <1>0, <1>4, <2>2, <2>3, WaitMoves
<1>5. ASSUME NEW c \in Client, GetWaitSlot(c) PROVE SlotsInv'
  <2>1. waiters' = waiters + 1 /\ UNCHANGED <<in_flight, orphans>>
    BY <1>5 DEF GetWaitSlot
  <2>2. CASE waiters < MaxWaiters /\ Moves(c, "wait_slot", "waiting")
    BY <1>0, <2>1, <2>2, MoveSlots DEF SlotsInv, SlotsBalanced, Counts, Gain
  <2>3. CASE Moves(c, "wait_slot", "wait_refused")
    BY <1>0, <2>1, <2>3, MoveSlots DEF SlotsInv, SlotsBalanced, Counts, Gain
  <2> QED BY <1>0, <1>5, <2>2, <2>3, WaitMoves
<1>6. ASSUME NEW c \in Client, DropWaitSlot(c) \/ BlockArrived(c) \/ WaitTimesOut(c) PROVE SlotsInv'
  <2>1. waiters' = waiters - 1 /\ UNCHANGED <<in_flight, orphans>>
    BY <1>6 DEF DropWaitSlot, BlockArrived, WaitTimesOut
  <2>2. \E from \in {"wait_refused", "waiting"}, to \in {"idle", "get_slot"} : Moves(c, from, to)
    BY <1>0, <1>6, WaitMoves
  <2> QED BY <1>0, <2>1, <2>2, MoveSlots DEF SlotsInv, SlotsBalanced, Counts, Gain
<1>7. ASSUME NEW c \in Client, GetSlot(c) PROVE SlotsInv'
  <2>1. in_flight' = in_flight + 1 /\ UNCHANGED <<waiters, orphans>>
    BY <1>7 DEF GetSlot
  <2>2. CASE in_flight < MaxTasks /\ Moves(c, "get_slot", "task")
    BY <1>0, <2>1, <2>2, MoveSlots DEF SlotsInv, SlotsBalanced, Counts, Gain
  <2>3. CASE Moves(c, "get_slot", "refused")
    BY <1>0, <2>1, <2>3, MoveSlots DEF SlotsInv, SlotsBalanced, Counts, Gain
  <2> QED BY <1>0, <1>7, <2>2, <2>3, SlotMoves
<1>8. ASSUME NEW c \in Client, Busy(c) \/ DropSlot(c) PROVE SlotsInv'
  <2>1. in_flight' = in_flight - 1 /\ UNCHANGED <<waiters, orphans>>
    BY <1>8 DEF Busy, DropSlot
  <2>2. Moves(c, "refused", "idle") \/ Moves(c, "finishing", "reply")
    BY <1>0, <1>8, SlotMoves
  <2> QED BY <1>0, <2>1, <2>2, MoveSlots DEF SlotsInv, SlotsBalanced, Counts, Gain
<1>9. ASSUME NEW c \in Client,
             OpenRunner(c) \/ WriteNextChunk(c) \/ ExecutionFails(c) \/ WorkerPanics(c)
      PROVE  SlotsInv'
  <2>1. UNCHANGED <<waiters, in_flight, orphans>>
    BY <1>9 DEF OpenRunner, WriteNextChunk, ExecutionFails, WorkerPanics
  <2>2. \E to \in {"task", "finishing"} : Moves(c, "task", to)
    BY <1>0, <1>9, SlotMoves
  <2> QED BY <1>0, <2>1, <2>2, MoveSlots DEF SlotsInv, SlotsBalanced, Counts, Gain
<1>10. ASSUME NEW c \in Client, FirstReply(c) \/ NextDataPack(c) \/ NextReply(c) PROVE SlotsInv'
  <2>1. UNCHANGED <<waiters, in_flight, orphans>>
    BY <1>10 DEF FirstReply, NextDataPack, NextReply
  <2>2. \E from \in {"reply", "stream"}, to \in {"idle", "stream", "get_slot"} : Moves(c, from, to)
    BY <1>0, <1>10, ReplyMoves
  <2> QED BY <1>0, <2>1, <2>2, MoveSlots DEF SlotsInv, SlotsBalanced, Counts, Gain
<1>11. ASSUME NEW c \in Client, Disconnect(c) PROVE SlotsInv'
  <2>1. PICK from \in {"waiting", "task", "finishing", "reply", "stream"} :
           from = req[c].pc /\ Moves(c, from, "idle")
    BY <1>0, <1>11, DisconnectMoves
  <2>2. /\ waiters' = IF from = "waiting" THEN waiters - 1 ELSE waiters
        /\ orphans' = IF from \in {"task", "finishing"} THEN orphans + 1 ELSE orphans
        /\ in_flight' = in_flight
    BY <1>11, <2>1 DEF Disconnect
  <2> QED BY <1>0, <2>1, <2>2, MoveSlots DEF SlotsInv, SlotsBalanced, Counts, Gain
<1> QED BY <1>2, <1>3, <1>4, <1>5, <1>6, <1>7, <1>8, <1>9, <1>10, <1>11 DEF Next, Serve

-----------------------------------------------------------------------------
(* Theorems                                                                *)

\* For any number of clients and any limits the two counters are exactly the
\* slots in use, and never more tasks run or requests wait than allowed: no
\* refusal, failure, panic or disconnect leaks a slot (WaitSlots, QuerySlot).
THEOREM SlotsAlwaysBalanced == Spec => []SlotsBalanced
<1>1. SlotsInv => SlotsBalanced
  BY DEF SlotsInv
<1> QED BY <1>1, SlotsInit, SlotsStep, PTL DEF Spec

\* Only a GetSlot takes a request to a refusal.
LEMMA RefusedByGetSlot ==
    ASSUME ReqShape, [Next]_vars, NEW c \in Client,
           req[c].pc = "get_slot", req'[c].pc = "refused"
    PROVE  GetSlot(c)
<1>1. ASSUME NEW d \in Client, NEW from, NEW to, Moves(d, from, to)
      PROVE  d = c /\ from = "get_slot" /\ to = "refused"
  BY <1>1 DEF Moves
<1>2. ~ UNCHANGED req
  OBVIOUS
<1>3. ~ (Dataset \/ OrphanEnds \/ UNCHANGED vars)
  BY <1>2 DEF Dataset, OrphanEnds, vars
<1>4. PICK d \in Client :
         Ask(d) \/ Serve(d) \/ ExecutionFails(d) \/ WorkerPanics(d) \/ Disconnect(d)
  BY <1>3 DEF Next
<1>5. ~ Ask(d) /\ ~ GetWaitSlot(d) /\ ~ DropWaitSlot(d) /\ ~ BlockArrived(d) /\ ~ WaitTimesOut(d)
  BY <1>1, <1>2, WaitMoves
<1>6. /\ ~ Busy(d) /\ ~ OpenRunner(d) /\ ~ WriteNextChunk(d) /\ ~ ExecutionFails(d)
      /\ ~ WorkerPanics(d) /\ ~ DropSlot(d)
  BY <1>1, SlotMoves
<1>7. ~ FirstReply(d) /\ ~ NextDataPack(d) /\ ~ NextReply(d)
  BY <1>1, ReplyMoves
<1>8. ~ Disconnect(d)
  BY <1>1, DisconnectMoves
<1>9. GetSlot(d)
  BY <1>4, <1>5, <1>6, <1>7, <1>8 DEF Serve
<1> QED BY <1>1, <1>9, SlotMoves

\* A request is refused only when the tasks and refusals of others fill the
\* executor: the task that just answered a client has given its slot back
\* before the client can ask for the next (QuerySlot::run).
THEOREM RefusedOnlyForOthers == Spec => RefusedForOthers
<1>1. SlotsInv /\ [Next]_vars =>
        [\A c \in Client : req[c].pc = "get_slot" /\ req'[c].pc = "refused" =>
            MaxTasks <= orphans + Cardinality(Holders \cup InPc("refused"))]_vars
  <2> SUFFICES ASSUME SlotsInv, [Next]_vars, NEW c \in Client,
                      req[c].pc = "get_slot", req'[c].pc = "refused"
               PROVE  MaxTasks <= orphans + Cardinality(Holders \cup InPc("refused"))
    BY Zenon
  <2>1. GetSlot(c)
    BY RefusedByGetSlot DEF SlotsInv
  <2>2. ~ (in_flight < MaxTasks)
    <3>1. CASE in_flight < MaxTasks
      <4>1. Moves(c, "get_slot", "task")
        BY <2>1, <3>1, SlotMoves DEF SlotsInv
      <4> QED BY <4>1 DEF Moves
    <3> QED BY <3>1
  <2>3. IsFiniteSet(Holders) /\ IsFiniteSet(InPc("refused"))
    BY ClientAssumption, FS_Subset DEF Holders, InPc
  <2>4. Holders \cap InPc("refused") = {}
    BY DEF Holders, InPc
  <2>5. Cardinality(Holders \cup InPc("refused"))
          = Cardinality(Holders) + Cardinality(InPc("refused")) - Cardinality(Holders \cap InPc("refused"))
    BY <2>3, FS_Union
  <2>6. Cardinality(Holders \cap InPc("refused")) = 0
    BY <2>4, FS_EmptySet
  <2> QED BY <2>2, <2>5, <2>6, CountsType, LimitsAssumption DEF SlotsInv, SlotsBalanced, Counts
<1> QED BY <1>1, SlotsInit, SlotsStep, PTL DEF Spec, RefusedForOthers
=============================================================================
