-------------------------- MODULE DataSourceProofs --------------------------
(***************************************************************************)
(* Proofs about DataSource, for any number of endpoints and any servers.   *)
(***************************************************************************)
EXTENDS DataSource, TLAPS

\* What the proofs need of the types.
SourceTypes ==
    /\ position \in BlockStreamRequest
    /\ finalized_head \in BlockRef \cup {None}
    /\ state \in [Endpoints -> EndpointState]
    /\ errors \in [Endpoints -> 0 .. Rungs] /\ rejects \in [Endpoints -> 0 .. Rungs]
    /\ committed \in [Endpoints -> Heights]
    /\ turn \in 0 .. N + 1

LogType == log \in Seq(Hash)

\* Requests, their answers and streams do not run ahead of the position.
NotAhead ==
    \A i \in Endpoints :
        /\ state[i].kind \in {"Req", "Fork"} => state[i].req.first_block <= position.first_block
        /\ state[i].kind = "Stream" => state[i].next <= position.first_block

\* The fork signals the poll has passed are about the position; the clock of
\* one that stands is running.
Signals ==
    \A i \in Endpoints : state[i].kind = "Fork" =>
        /\ state[i].hints # {}
        /\ i < turn => Standing(i)
        /\ Standing(i) => started

\* What was committed lies below the position.
CommittedBelow ==
    \A i \in Endpoints : committed[i] # None => committed[i] < position.first_block

SourceInv ==
    /\ SourceTypes /\ LogType /\ NotAhead /\ Signals /\ CommittedBelow
    /\ TimeoutScoped /\ OneChain /\ FinalizedBelowPosition /\ HeadSignalOwn

-----------------------------------------------------------------------------

\* The blocks of a branch have hashes.
LEMMA HashType ==
    ASSUME NEW b \in Branch, NEW h \in BlockNumber
    PROVE  HashOn(b, h) \in Hash /\ RefOn(b, h) \in BlockRef
  BY SourceAssumption DEF HashOn, RefOn, Hash, BlockRef, Branch, BlockNumber

\* What the consumer expects at a position it may resume at is a hash or None.
LEMMA LogParentType ==
    ASSUME log \in Seq(Hash), NEW n \in Start .. Start + Len(log)
    PROVE  LogParent(n) \in OptHash
  <1>1. Start \in Nat /\ Len(log) \in Nat
    BY SourceAssumption DEF BlockNumber
  <1>2. CASE n > Start
    <2>1. n - Start \in 1 .. Len(log)
      BY <1>1, <1>2
    <2> QED
      BY <1>2, <2>1 DEF LogParent, OptHash
  <1>3. CASE n = Start /\ Anchored
    <2>1. Start - 1 \in BlockNumber /\ 0 \in Branch
      BY <1>3, SourceAssumption DEF BlockNumber, Branch
    <2>2. HashOn(0, Start - 1) \in Hash
      BY <2>1, HashType
    <2> QED
      BY <1>1, <1>3, <2>2 DEF LogParent, OptHash
  <1>4. CASE n = Start /\ ~ Anchored
    BY <1>1, <1>4 DEF LogParent, OptHash
  <1> QED
    BY <1>1, <1>2, <1>3, <1>4

\* The states an endpoint may be put in.
LEMMA StateMakers ==
    /\ Ready \in EndpointState /\ Backoff \in EndpointState
    /\ \A req \in BlockStreamRequest : [kind |-> "Req", req |-> req, answered |-> FALSE] \in EndpointState
  BY DEF Ready, Backoff, EndpointState

\* The fields of an endpoint's state.
LEMMA StateFields ==
    ASSUME NEW s \in EndpointState
    PROVE  /\ s.kind \in {"Ready", "Backoff", "Req", "Stream", "Fork"}
           /\ s.kind = "Req" => /\ s.req \in BlockStreamRequest
                                /\ s \in [kind : {"Req"}, req : BlockStreamRequest, answered : BOOLEAN]
           /\ s.kind = "Fork" => s.req \in BlockStreamRequest /\ s.hints \subseteq BlockRef
           /\ s.kind = "Backoff" => s \in [kind : {"Backoff"}, due : BOOLEAN]
           /\ s.kind = "Stream" =>
                 /\ s.fin \in BlockNumber /\ s.branch \in Branch /\ s.last \in BlockNumber
                 /\ s.next \in 0 .. MaxBlock + 1
                 /\ s \in [kind : {"Stream"}, fin : BlockNumber, branch : Branch,
                           next : 0 .. MaxBlock + 1, last : BlockNumber]
  BY DEF EndpointState, Ready
-----------------------------------------------------------------------------
(* Types                                                                   *)

\* The steps of one endpoint that leave the position alone.
LocalStep(i) ==
    \/ Request(i) \/ Wait(i) \/ Fails(i) \/ StreamEnds(i) \/ BackToReady(i)
    \/ Answer(i) \/ PauseOver(i)
    \/ \E b \in Branch, tip \in BlockNumber :
          \/ \E fin \in Heights : OpenStream(i, b, tip, fin)
          \/ \E low \in BlockNumber : SignalFork(i, b, tip, low)
    \/ \E h \in BlockNumber : SkipBlock(i, h) \/ RejectBlock(i, h)

\* The steps that touch no endpoint.
GlobalStep == BeginPoll \/ NoConsensus \/ ConsensusTimeout \/ Settle \/ UNCHANGED vars

\* Every step is of one of five kinds.
LEMMA StepKinds ==
    ASSUME [Next]_vars
    PROVE  \/ GlobalStep
           \/ ForkConsensus
           \/ \E i \in Endpoints : LocalStep(i)
           \/ \E i \in Endpoints, h \in BlockNumber : AcceptBlock(i, h)
           \/ \E n \in Start .. MaxBlock + 1 : SetPosition(n)
  <1>1. Reports \subseteq Heights
    BY SourceAssumption DEF Heights, BlockNumber
  <1>2. CASE \E i \in Endpoints : PollEndpoint(i)
    <2>1. PICK i \in Endpoints : PollEndpoint(i)
      BY <1>2
    <2>2. LocalStep(i) \/ \E h \in BlockNumber : AcceptBlock(i, h)
      BY <1>1, <2>1 DEF PollEndpoint, Stream, LocalStep
    <2> QED
      BY <2>2
  <1> QED
    BY <1>2 DEF Next, Poll, Network, GlobalStep, LocalStep

\* A local step changes the state of its endpoint only, into a state of its
\* type.
LEMMA LocalState ==
    ASSUME SourceTypes, NEW i \in Endpoints, LocalStep(i)
    PROVE  \E s \in EndpointState : state' = [state EXCEPT ![i] = s]
  <1> USE DEF SourceTypes
  <1>1. state[i] \in EndpointState /\ state = [state EXCEPT ![i] = state[i]]
    OBVIOUS
  <1>2. CASE Request(i)
    BY <1>2, StateMakers, Zenon DEF Request
  <1>3. CASE Wait(i)
    BY <1>1, <1>3 DEF Wait
  <1>4. CASE Fails(i)
    BY <1>4, StateMakers, Zenon DEF Fails, OnError
  <1>5. CASE StreamEnds(i)
    BY <1>5, StateMakers, Zenon DEF StreamEnds
  <1>6. CASE BackToReady(i)
    BY <1>6, StateMakers, Zenon DEF BackToReady
  <1>7. CASE Answer(i)
    <2>1. [state[i] EXCEPT !.answered = TRUE] \in EndpointState
      BY <1>1, <1>7, StateFields, Zenon DEF Answer, EndpointState
    <2> QED
      BY <1>7, <2>1, Zenon DEF Answer
  <1>8. CASE PauseOver(i)
    <2>1. [state[i] EXCEPT !.due = TRUE] \in EndpointState
      BY <1>1, <1>8, StateFields, Zenon DEF PauseOver, EndpointState
    <2> QED
      BY <1>8, <2>1, Zenon DEF PauseOver
  <1>9. ASSUME NEW b \in Branch, NEW tip \in BlockNumber, NEW fin \in Heights,
               OpenStream(i, b, tip, fin)
        PROVE  \E s \in EndpointState : state' = [state EXCEPT ![i] = s]
    <2>1. state[i].req \in BlockStreamRequest
      BY <1>1, <1>9, StateFields DEF OpenStream, Answers, At
    <2>2. (IF fin = None THEN 0 ELSE fin) \in BlockNumber
      BY SourceAssumption DEF Heights, BlockNumber
    <2>3. [kind |-> "Stream", fin |-> IF fin = None THEN 0 ELSE fin, branch |-> b,
           next |-> state[i].req.first_block, last |-> tip] \in EndpointState
      BY <2>1, <2>2 DEF EndpointState, BlockStreamRequest
    <2> QED
      BY <1>9, <2>3, Zenon DEF OpenStream
  <1>10. ASSUME NEW b \in Branch, NEW tip \in BlockNumber, NEW low \in BlockNumber,
                SignalFork(i, b, tip, low)
         PROVE  \E s \in EndpointState : state' = [state EXCEPT ![i] = s]
    <2>1. state[i].req \in BlockStreamRequest
      BY <1>1, <1>10, StateFields DEF SignalFork, Answers, At
    <2>2. \A h \in low .. state[i].req.first_block - 1 : h \in BlockNumber
      <3>1. state[i].req.first_block \in 0 .. MaxBlock + 1 /\ MaxBlock \in Nat /\ low \in 0 .. MaxBlock
        BY <2>1, SourceAssumption DEF BlockStreamRequest, BlockNumber
      <3> QED
        BY <3>1 DEF BlockNumber
    <2>3. {RefOn(b, h) : h \in low .. state[i].req.first_block - 1} \subseteq BlockRef
      BY <2>2, HashType
    <2>4. [kind |-> "Fork", req |-> state[i].req,
           hints |-> {RefOn(b, h) : h \in low .. state[i].req.first_block - 1}] \in EndpointState
      BY <2>1, <2>3, Zenon DEF EndpointState
    <2> QED
      BY <1>10, <2>4, Zenon DEF SignalFork
  <1>11. ASSUME NEW h \in BlockNumber, SkipBlock(i, h)
         PROVE  \E s \in EndpointState : state' = [state EXCEPT ![i] = s]
    <2>1. h + 1 \in 0 .. MaxBlock + 1
      BY SourceAssumption DEF BlockNumber
    <2>2. state[i].kind = "Stream"
      BY <1>11 DEF SkipBlock, HasBlock, At
    <2>3. [state[i] EXCEPT !.next = h + 1]
             \in [kind : {"Stream"}, fin : BlockNumber, branch : Branch,
                  next : 0 .. MaxBlock + 1, last : BlockNumber]
      BY <1>1, <2>1, <2>2, StateFields
    <2>4. [state[i] EXCEPT !.next = h + 1] \in EndpointState
      BY <2>3 DEF EndpointState
    <2> QED
      BY <1>11, <2>4, Zenon DEF SkipBlock
  <1>12. ASSUME NEW h \in BlockNumber, RejectBlock(i, h)
         PROVE  \E s \in EndpointState : state' = [state EXCEPT ![i] = s]
    BY <1>12, StateMakers, Zenon DEF RejectBlock
  <1> QED
    BY <1>2, <1>3, <1>4, <1>5, <1>6, <1>7, <1>8, <1>9, <1>10, <1>11, <1>12 DEF LocalStep
\* What a local step leaves alone, and how it moves the poll.
LEMMA LocalFrame ==
    ASSUME SourceTypes, NEW i \in Endpoints, LocalStep(i)
    PROVE  /\ position' = position /\ committed' = committed
           /\ log' = log /\ owner' = owner /\ timer' = timer
           /\ started => started'
           /\ turn \in {0, i} /\ turn' \in {0, turn, i + 1}
           /\ turn' = i + 1 => turn = i /\ Wait(i)
           /\ errors' \in [Endpoints -> 0 .. Rungs] /\ rejects' \in [Endpoints -> 0 .. Rungs]
  <1> USE DEF SourceTypes, cursor, consensus, consumer, strikes
  <1>0. Rungs \in Nat /\ N \in Nat /\ i \in Nat /\ i # i + 1
        /\ \A c \in 0 .. Rungs : Strike(c) \in 0 .. Rungs
    BY SourceAssumption DEF Strike, Endpoints
  <1>1. CASE Request(i)
    BY <1>0, <1>1 DEF Request, At, Again
  <1>2. CASE Wait(i)
    BY <1>0, <1>2 DEF Wait, At, Pending
  <1>3. CASE Fails(i)
    BY <1>0, <1>3 DEF Fails, OnError, At, Again
  <1>4. CASE StreamEnds(i)
    <2>1. turn = i /\ turn' \in {0, i}
      BY <1>4 DEF StreamEnds, At, Again, Emit
    <2>2. errors' \in [Endpoints -> 0 .. Rungs]
      BY <1>0, <1>4 DEF StreamEnds
    <2>4. rejects' \in [Endpoints -> 0 .. Rungs]
      <3>1. rejects' = rejects
        BY <1>4 DEF StreamEnds
      <3> QED
        BY <3>1
    <2>3. position' = position /\ committed' = committed /\ log' = log /\ owner' = owner
          /\ timer' = timer /\ started' = started
      BY <1>4 DEF StreamEnds
    <2>5. turn' # i + 1 /\ turn' \in {0, turn, i + 1}
      BY <1>0, <2>1
    <2>6. started => started'
      BY <2>3
    <2> QED
      BY <2>1, <2>2, <2>3, <2>4, <2>5, <2>6
  <1>5. CASE BackToReady(i)
    BY <1>0, <1>5 DEF BackToReady, At, Again
  <1>6. CASE Answer(i)
    BY <1>0, <1>6 DEF Answer
  <1>7. CASE PauseOver(i)
    BY <1>0, <1>7 DEF PauseOver
  <1>8. CASE \E b \in Branch, tip \in BlockNumber, fin \in Heights : OpenStream(i, b, tip, fin)
    BY <1>0, <1>8 DEF OpenStream, Answers, OnNewFinalizedHead, At, Again, Emit
  <1>9. CASE \E b \in Branch, tip, low \in BlockNumber : SignalFork(i, b, tip, low)
    BY <1>0, <1>9 DEF SignalFork, Answers, At, Again
  <1>10. CASE \E h \in BlockNumber : SkipBlock(i, h)
    BY <1>0, <1>10 DEF SkipBlock, HasBlock, At, Again
  <1>11. CASE \E h \in BlockNumber : RejectBlock(i, h)
    <2>1. turn = i /\ turn' = i
      BY <1>11 DEF RejectBlock, HasBlock, At, Again
    <2>2. errors' \in [Endpoints -> 0 .. Rungs]
      BY <1>0, <1>11 DEF RejectBlock
    <2>3. rejects' \in [Endpoints -> 0 .. Rungs]
      BY <1>0, <1>11 DEF RejectBlock
    <2>4. position' = position /\ committed' = committed /\ log' = log /\ owner' = owner
          /\ timer' = timer /\ started' = started
      BY SMTT(30), <1>11 DEF RejectBlock
    <2> QED
      BY <1>0, <2>1, <2>2, <2>3, <2>4
  <1> QED
    BY <1>1, <1>2, <1>3, <1>4, <1>5, <1>6, <1>7, <1>8, <1>9, <1>10, <1>11, Zenon DEF LocalStep

\* Where a request or a stream of the endpoint stands after a local step.
LEMMA LocalNotAhead ==
    ASSUME SourceTypes, NotAhead, NEW i \in Endpoints, LocalStep(i)
    PROVE  /\ state'[i].kind \in {"Req", "Fork"} => state'[i].req.first_block <= position.first_block
           /\ state'[i].kind = "Stream" => state'[i].next <= position.first_block
  <1> USE DEF SourceTypes
  <1>0. /\ state[i] \in EndpointState
        /\ position.first_block \in Nat
        /\ state[i].kind \in {"Req", "Fork"} => state[i].req.first_block <= position.first_block
        /\ state[i].kind = "Stream" => state[i].next <= position.first_block
    BY SourceAssumption DEF NotAhead, BlockStreamRequest
  <1>1. CASE Request(i)
    BY SMTT(30), <1>0, <1>1 DEF Request
  <1>2. CASE Wait(i)
    BY <1>0, <1>2 DEF Wait
  <1>3. CASE Fails(i)
    BY <1>3 DEF Fails, OnError, Ready, Backoff
  <1>4. CASE StreamEnds(i) \/ BackToReady(i)
    BY <1>4 DEF StreamEnds, BackToReady, Ready
  <1>6. CASE Answer(i)
    <2>1. state'[i].kind = "Req" /\ state'[i].req = state[i].req
      BY <1>0, <1>6, StateFields DEF Answer
    <2> QED
      BY <1>0, <1>6, <2>1 DEF Answer
  <1>7. CASE PauseOver(i)
    <2>1. state'[i].kind = "Backoff"
      BY <1>0, <1>7, StateFields DEF PauseOver
    <2> QED
      BY <2>1
  <1>8. CASE \E b \in Branch, tip \in BlockNumber, fin \in Heights : OpenStream(i, b, tip, fin)
    BY <1>0, <1>8 DEF OpenStream, Answers, At
  <1>9. CASE \E b \in Branch, tip, low \in BlockNumber : SignalFork(i, b, tip, low)
    BY <1>0, <1>9 DEF SignalFork, Answers, At
  <1>10. CASE \E h \in BlockNumber : SkipBlock(i, h)
    <2>1. PICK h \in BlockNumber : SkipBlock(i, h)
      BY <1>10
    <2>2. state'[i].kind = "Stream" /\ state'[i].next = h + 1
      BY <1>0, <2>1, StateFields DEF SkipBlock, HasBlock, At
    <2> QED
      BY <1>0, <2>1, <2>2 DEF SkipBlock, BlockNumber
  <1>11. CASE \E h \in BlockNumber : RejectBlock(i, h)
    BY SMTT(30), <1>11 DEF RejectBlock, Ready, Backoff
  <1> QED
    BY <1>1, <1>2, <1>3, <1>4, <1>6, <1>7, <1>8, <1>9, <1>10, <1>11, Zenon DEF LocalStep

\* A fork signal after a local step: it was there, or it has just come.
LEMMA LocalFork ==
    ASSUME SourceTypes, NEW i \in Endpoints, LocalStep(i)
    PROVE  /\ state'[i].kind = "Fork" =>
                 \/ Wait(i) /\ state' = state
                 \/ state'[i].hints # {} /\ started' /\ turn' = i
           /\ Standing(i) => state' = state
  <1> USE DEF SourceTypes
  <1>0. state[i] \in EndpointState
    BY SMTT(30)
  <1>1. CASE Request(i)
    BY <1>1, Zenon DEF Request, At, Standing
  <1>2. CASE Wait(i)
    BY <1>2 DEF Wait
  <1>3. CASE Fails(i)
    BY <1>3 DEF Fails, OnError, Ready, Backoff, At, Standing
  <1>4. CASE StreamEnds(i) \/ BackToReady(i)
    BY <1>4 DEF StreamEnds, BackToReady, Ready, At, Standing
  <1>6. CASE Answer(i)
    <2>1. state'[i].kind = "Req"
      BY <1>0, <1>6, StateFields DEF Answer
    <2> QED
      BY <1>6, <2>1 DEF Answer, Standing
  <1>7. CASE PauseOver(i)
    <2>1. state'[i].kind = "Backoff"
      BY <1>0, <1>7, StateFields DEF PauseOver
    <2> QED
      BY <1>7, <2>1 DEF PauseOver, Standing
  <1>8. CASE \E b \in Branch, tip \in BlockNumber, fin \in Heights : OpenStream(i, b, tip, fin)
    BY <1>8 DEF OpenStream, Answers, At, Standing
  <1>9. CASE \E b \in Branch, tip, low \in BlockNumber : SignalFork(i, b, tip, low)
    <2>1. PICK b \in Branch, tip, low \in BlockNumber : SignalFork(i, b, tip, low)
      BY <1>9
    <2>2. state[i].kind = "Req" /\ turn = i /\ turn' = i /\ started'
      BY <2>1 DEF SignalFork, Answers, At, Again
    <2>3. state[i].req.first_block \in Int /\ low \in Int
      BY <1>0, <2>2, StateFields, SourceAssumption DEF BlockStreamRequest, BlockNumber
    <2>4. low \in low .. state[i].req.first_block - 1
      BY <2>1, <2>3 DEF SignalFork
    <2>5. state'[i].hints # {}
      BY <2>1, <2>4 DEF SignalFork
    <2> QED
      BY <2>2, <2>5 DEF Standing
  <1>10. CASE \E h \in BlockNumber : SkipBlock(i, h)
    <2>1. state[i].kind = "Stream" /\ state'[i].kind = "Stream"
      BY <1>0, <1>10, StateFields DEF SkipBlock, HasBlock, At
    <2> QED
      BY <2>1 DEF Standing
  <1>11. CASE \E h \in BlockNumber : RejectBlock(i, h)
    BY <1>11 DEF RejectBlock, HasBlock, At, Ready, Backoff, Standing
  <1> QED
    BY <1>1, <1>2, <1>3, <1>4, <1>6, <1>7, <1>8, <1>9, <1>10, <1>11, Zenon DEF LocalStep
\* What is remembered as final stays a block below the position.
LEMMA LocalFinalized ==
    ASSUME SourceTypes, FinalizedBelowPosition, NEW i \in Endpoints, LocalStep(i)
    PROVE  /\ finalized_head' \in BlockRef \cup {None}
           /\ finalized_head' # None => finalized_head'.number < position.first_block
  <1> USE DEF SourceTypes
  <1>1. CASE finalized_head' = finalized_head
    BY <1>1 DEF FinalizedBelowPosition
  <1>2. CASE \E b \in Branch, tip \in BlockNumber, fin \in Heights : OpenStream(i, b, tip, fin)
    <2>1. PICK b \in Branch, tip \in BlockNumber, fin \in Heights : OpenStream(i, b, tip, fin)
      BY <1>2
    <2>2. CASE fin = None \/ ~ NewlyFinal(RefOn(b, fin))
      BY <1>1, <2>1, <2>2, Zenon DEF OpenStream, OnNewFinalizedHead
    <2>3. CASE fin # None /\ NewlyFinal(RefOn(b, fin))
      <3>1. RefOn(b, fin) \in BlockRef
        BY <2>3, HashType DEF Heights
      <3>2. finalized_head' = Clamped(RefOn(b, fin))
        BY <2>1, <2>3, Zenon DEF OpenStream, OnNewFinalizedHead
      <3>3. /\ position.first_block \in 0 .. MaxBlock + 1 /\ position.first_block # 0
            /\ position.parent_block_hash \in Hash
        BY <2>3 DEF NewlyFinal, BlockStreamRequest, OptHash
      <3>4. position.first_block - 1 \in BlockNumber
        BY <3>3, SourceAssumption DEF BlockNumber
      <3>5. CASE RefOn(b, fin).number >= position.first_block
        <4>1. finalized_head' = [number |-> position.first_block - 1, hash |-> position.parent_block_hash]
          BY <3>2, <3>5 DEF Clamped
        <4> QED
          BY <3>3, <3>4, <4>1, SourceAssumption DEF BlockRef
      <3>6. CASE ~ (RefOn(b, fin).number >= position.first_block)
        <4>1. finalized_head' = RefOn(b, fin)
          BY <3>2, <3>6 DEF Clamped
        <4>2. RefOn(b, fin).number \in Int /\ position.first_block \in Int
          BY <3>1, <3>3, SourceAssumption DEF BlockRef, BlockNumber
        <4> QED
          BY <3>1, <3>6, <4>1, <4>2
      <3> QED
        BY <3>5, <3>6
    <2> QED
      BY <2>2, <2>3
  <1>3. CASE ~ \E b \in Branch, tip \in BlockNumber, fin \in Heights : OpenStream(i, b, tip, fin)
    <2>1. finalized_head' = finalized_head
      BY <1>3, Zenon DEF LocalStep, cursor, Request, Wait, Fails, StreamEnds, BackToReady, Answer, PauseOver,
                  SignalFork, SkipBlock, RejectBlock
    <2> QED
      BY <1>1, <2>1
  <1> QED
    BY <1>2, <1>3

\* A local step keeps the invariant.
LEMMA LocalInv ==
    ASSUME SourceInv, NEW i \in Endpoints, LocalStep(i)
    PROVE  SourceInv'
  <1>0. SourceTypes /\ NotAhead /\ Signals
    BY DEF SourceInv
  <1>1. PICK s \in EndpointState : state' = [state EXCEPT ![i] = s]
    BY <1>0, LocalState
  <1>2. \A j \in Endpoints : j # i => state'[j] = state[j]
    BY <1>0, <1>1 DEF SourceTypes
  <1>3. /\ position' = position /\ committed' = committed
        /\ log' = log /\ owner' = owner /\ timer' = timer
        /\ started => started'
        /\ turn \in {0, i} /\ turn' \in {0, turn, i + 1}
        /\ turn' = i + 1 => turn = i /\ Wait(i)
        /\ errors' \in [Endpoints -> 0 .. Rungs] /\ rejects' \in [Endpoints -> 0 .. Rungs]
    BY <1>0, LocalFrame
  <1>4. N \in Nat /\ Endpoints \subseteq Nat /\ i <= N
    BY SourceAssumption DEF Endpoints
  <1>5. SourceTypes'
    <2>1. turn' \in 0 .. N + 1
      BY <1>0, <1>3, <1>4 DEF SourceTypes
    <2>2. state' \in [Endpoints -> EndpointState]
      BY <1>0, <1>1 DEF SourceTypes
    <2>3. finalized_head' \in BlockRef \cup {None}
      BY <1>0, LocalFinalized DEF SourceInv
    <2> QED
      BY <1>0, <1>3, <2>1, <2>2, <2>3 DEF SourceTypes
  <1>6. NotAhead'
    BY <1>0, <1>2, <1>3, LocalNotAhead, Zenon DEF NotAhead
  <1>7. Signals'
    <2> SUFFICES ASSUME NEW j \in Endpoints, state'[j].kind = "Fork"
                 PROVE  /\ state'[j].hints # {}
                        /\ j < turn' => Standing(j)'
                        /\ Standing(j)' => started'
      BY DEF Signals
    <2>1. CASE j # i
      <3>1. state'[j] = state[j] /\ (j < turn' => j < turn)
        BY <1>2, <1>3, <1>4, <2>1
      <3> QED
        BY <1>0, <1>3, <3>1, Zenon DEF Signals, Standing
    <2>2. CASE j = i /\ Wait(i) /\ state' = state
      <3>1. Standing(i)
        BY <2>2 DEF Wait, At, Standing
      <3> QED
        BY <1>0, <1>3, <2>2, <3>1 DEF Signals, Standing
    <2>3. CASE j = i /\ state'[i].hints # {} /\ started' /\ turn' = i
      BY <1>4, <2>3
    <2> QED
      BY <1>0, <2>1, <2>2, <2>3, LocalFork, Zenon
  <1>8. TimeoutScoped'
    <2> SUFFICES ASSUME timer' # None
                 PROVE  \E j \in Endpoints : Standing(j)'
      BY DEF TimeoutScoped
    <2>1. PICK j \in Endpoints : Standing(j)
      BY <1>3 DEF SourceInv, TimeoutScoped
    <2>2. state'[j] = state[j]
      BY <1>0, <1>2, <2>1, LocalFork
    <2> QED
      BY <1>3, <2>1, <2>2 DEF Standing
  <1>9. CommittedBelow' /\ HeadSignalOwn'
    BY <1>3 DEF SourceInv, CommittedBelow, HeadSignalOwn
  <1>10. OneChain' /\ LogType'
    <2>1. position' = position /\ log' = log
      BY <1>3
    <2> QED
      BY <2>1, Zenon DEF SourceInv, OneChain, LogParent, LogType
  <1>11. FinalizedBelowPosition'
    BY <1>0, <1>3, LocalFinalized DEF SourceInv, FinalizedBelowPosition
  <1> QED
    BY <1>5, <1>6, <1>7, <1>8, <1>9, <1>10, <1>11 DEF SourceInv
-----------------------------------------------------------------------------
(* The other steps                                                         *)

\* A step that touches no endpoint keeps the invariant.
LEMMA GlobalInv ==
    ASSUME SourceInv, GlobalStep
    PROVE  SourceInv'
  <1> USE DEF SourceInv
  <1>1. /\ state' = state /\ position' = position /\ committed' = committed
        /\ log' = log /\ owner' = owner /\ finalized_head' = finalized_head
        /\ errors' = errors /\ rejects' = rejects
    BY Zenon DEF GlobalStep, BeginPoll, NoConsensus, ConsensusTimeout, Settle, vars,
           cursor, consensus, strikes, consumer
  <1>2. N \in Nat /\ Endpoints = 1 .. N
    BY SourceAssumption DEF Endpoints
  <1>3. turn' \in {0, 1} \/ turn' = turn
    BY Zenon DEF GlobalStep, BeginPoll, NoConsensus, ConsensusTimeout, Settle, vars
  <1>4. SourceTypes'
    BY <1>1, <1>2, <1>3 DEF SourceTypes
  <1>5. NotAhead' /\ CommittedBelow' /\ FinalizedBelowPosition' /\ HeadSignalOwn'
    BY <1>1, Zenon DEF NotAhead, CommittedBelow, FinalizedBelowPosition, HeadSignalOwn
  <1>6. OneChain' /\ LogType'
    BY <1>1, Zenon DEF OneChain, LogParent, LogType
  <1>7. started' = started \/ Forked = {}
    BY Zenon DEF GlobalStep, BeginPoll, NoConsensus, ConsensusTimeout, Settle, vars, consensus
  <1>8. Signals'
    <2> SUFFICES ASSUME NEW j \in Endpoints, state'[j].kind = "Fork"
                 PROVE  /\ state'[j].hints # {}
                        /\ j < turn' => Standing(j)'
                        /\ Standing(j)' => started'
      BY Zenon DEF Signals
    <2>1. j \in Forked
      BY <1>1 DEF Forked
    <2>2. j < turn' => j < turn
      BY <1>2, <1>3
    <2> QED
      BY <1>1, <1>7, <2>1, <2>2 DEF Signals, Standing
  <1>9. TimeoutScoped'
    <2>1. CASE Forked = {} /\ turn = N + 1 /\ timer' = None
      BY <2>1 DEF TimeoutScoped
    <2>2. CASE Forked # {} /\ turn = N + 1
      <3>1. PICK j \in Endpoints : state[j].kind = "Fork"
        BY <2>2 DEF Forked
      <3>2. Standing(j)
        BY <1>2, <2>2, <3>1 DEF Signals
      <3> QED
        BY <1>1, <3>2, Zenon DEF TimeoutScoped, Standing
    <2>3. CASE timer' = timer \/ timer = "Armed"
      <3>1. CASE timer = None /\ timer' = timer
        BY <3>1 DEF TimeoutScoped
      <3>2. CASE timer # None
        BY <1>1, <3>2 DEF TimeoutScoped, Standing
      <3> QED
        BY <2>3, <3>1, <3>2, NoneAssumption
    <2> QED
      BY <2>1, <2>2, <2>3, Zenon
         DEF GlobalStep, BeginPoll, NoConsensus, ConsensusTimeout, Settle, vars, consensus, ResetForkConsensus
  <1> QED
    BY <1>4, <1>5, <1>6, <1>8, <1>9

\* So does the consensus on a fork: every endpoint starts over.
LEMMA ForkConsensusInv ==
    ASSUME SourceInv, ForkConsensus
    PROVE  SourceInv'
  <1> USE DEF SourceInv
  <1>1. /\ position' = position /\ committed' = committed /\ log' = log /\ owner' = owner
        /\ finalized_head' = finalized_head /\ errors' = errors /\ rejects' = rejects
        /\ state' = [i \in Endpoints |-> Ready] /\ turn' = 0 /\ timer' = None
    BY DEF ForkConsensus, ResetForkConsensus, Emit, cursor, strikes, consumer
  <1>2. SourceTypes'
    BY SMTT(30), <1>1, StateMakers, SourceAssumption DEF SourceTypes
  <1>3. NotAhead' /\ Signals'
    BY <1>1, Zenon DEF NotAhead, Signals, Ready
  <1>4. CommittedBelow' /\ FinalizedBelowPosition' /\ HeadSignalOwn' /\ TimeoutScoped'
    BY <1>1, Zenon DEF CommittedBelow, FinalizedBelowPosition, HeadSignalOwn, TimeoutScoped
  <1>5. OneChain' /\ LogType'
    BY <1>1, Zenon DEF OneChain, LogParent, LogType
  <1> QED
    BY <1>2, <1>3, <1>4, <1>5

\* A block extends the log at the position.
LEMMA AcceptInv ==
    ASSUME SourceInv, NEW i \in Endpoints, NEW h \in BlockNumber, AcceptBlock(i, h)
    PROVE  SourceInv'
  <1> USE DEF SourceInv
  <1> DEFINE hash == HashOn(state[i].branch, h)
  <1>0. SourceTypes /\ NotAhead /\ MaxBlock \in Nat /\ Start \in Nat
    BY SourceAssumption
  <1>1. state[i] \in EndpointState /\ state[i].kind = "Stream" /\ state[i].next = h
    BY <1>0 DEF SourceTypes, AcceptBlock, HasBlock, At
  <1>2. state[i].branch \in Branch /\ state[i].fin \in BlockNumber
    BY <1>1, StateFields, Zenon
  <1>3. hash \in Hash
    BY <1>2, HashType
  <1>4. h = position.first_block /\ h \in Nat
    <2>1. h <= position.first_block
      BY <1>0, <1>1, Zenon DEF NotAhead
    <2>2. h >= position.first_block /\ position.first_block \in Int /\ h \in Nat
      BY <1>0 DEF AcceptBlock, SourceTypes, BlockStreamRequest, BlockNumber
    <2> QED
      BY <2>1, <2>2
  <1>5. /\ position' = [first_block |-> h + 1, parent_block_hash |-> hash]
        /\ finalized_head' = IF state[i].fin >= h THEN [number |-> h, hash |-> hash]
                                                  ELSE finalized_head
        /\ owner' = i /\ Links(hash)
    BY DEF AcceptBlock
  <1>6. /\ timer' = None /\ turn' = 0
        /\ errors' = [errors EXCEPT ![i] = 0] /\ rejects' = [ep \in Endpoints |-> 0]
        /\ committed' = [committed EXCEPT ![i] = h]
    BY DEF AcceptBlock, ResetForkConsensus, Emit
  <1>7. /\ state' = [ep \in Endpoints |->
                        IF ep = i THEN [state[i] EXCEPT !.next = h + 1] ELSE Woken(i, ep)]
        /\ \A ep \in Endpoints : Woken(i, ep) \in {state[ep], Ready}
    BY DEF AcceptBlock, Woken
  <1>8. /\ [state[i] EXCEPT !.next = h + 1] \in EndpointState
        /\ [state[i] EXCEPT !.next = h + 1].kind = "Stream"
        /\ [state[i] EXCEPT !.next = h + 1].next = h + 1
    <2>1. h + 1 \in 0 .. MaxBlock + 1
      BY <1>0 DEF BlockNumber
    <2>2. state[i] \in [kind : {"Stream"}, fin : BlockNumber, branch : Branch,
                        next : 0 .. MaxBlock + 1, last : BlockNumber]
      BY <1>1, StateFields, Zenon
    <2>3. [state[i] EXCEPT !.next = h + 1]
             \in [kind : {"Stream"}, fin : BlockNumber, branch : Branch,
                  next : 0 .. MaxBlock + 1, last : BlockNumber]
      BY <2>1, <2>2
    <2> QED
      BY <2>2, <2>3 DEF EndpointState
  <1>9. /\ \A ep \in Endpoints : state'[ep] \in EndpointState
        /\ \A ep \in Endpoints : ep # i => state'[ep] \in {state[ep], Ready}
        /\ state'[i].kind = "Stream" /\ state'[i].next = h + 1
    BY <1>0, <1>7, <1>8, StateMakers, Zenon DEF SourceTypes
  <1>10. SourceTypes'
    <2>1. position' \in BlockStreamRequest
      <3>1. h + 1 \in 0 .. MaxBlock + 1
        BY <1>0 DEF BlockNumber
      <3>2. hash \in OptHash
        BY <1>3 DEF OptHash
      <3>3. position' = [first_block |-> h + 1, parent_block_hash |-> hash]
        BY <1>5, Zenon
      <3> HIDE DEF hash
      <3> QED
        BY <3>1, <3>2, <3>3 DEF BlockStreamRequest
    <2>2. finalized_head' \in BlockRef \cup {None}
      BY <1>0, <1>3, <1>5, Zenon DEF SourceTypes, BlockRef
    <2>3. state' \in [Endpoints -> EndpointState]
      BY <1>7, <1>9
    <2>4. errors' \in [Endpoints -> 0 .. Rungs] /\ rejects' \in [Endpoints -> 0 .. Rungs]
      BY <1>0, <1>6, SourceAssumption DEF SourceTypes
    <2>5. committed' \in [Endpoints -> Heights]
      BY <1>0, <1>6 DEF SourceTypes, Heights
    <2>6. turn' \in 0 .. N + 1
      BY <1>6, SourceAssumption
    <2> QED
      BY <2>1, <2>2, <2>3, <2>4, <2>5, <2>6 DEF SourceTypes
  <1>11. NotAhead'
    <2> SUFFICES ASSUME NEW j \in Endpoints
                 PROVE  /\ state'[j].kind \in {"Req", "Fork"} => state'[j].req.first_block <= h + 1
                        /\ state'[j].kind = "Stream" => state'[j].next <= h + 1
      BY <1>5, Zenon DEF NotAhead
    <2>1. CASE j = i
      BY <1>4, <1>9, <2>1
    <2>2. CASE j # i /\ state'[j] = Ready
      BY <2>2 DEF Ready
    <2>3. CASE j # i /\ state'[j] = state[j]
      <3>1. state[j] \in EndpointState
        BY <1>0, Zenon DEF SourceTypes
      <3>2. state[j].kind \in {"Req", "Fork"} => state[j].req.first_block \in Int
        BY <1>0, <3>1, StateFields DEF BlockStreamRequest
      <3>3. state[j].kind = "Stream" => state[j].next \in Int
        BY <1>0, <3>1, StateFields
      <3> QED
        BY <1>0, <1>4, <2>3, <3>2, <3>3 DEF NotAhead
    <2> QED
      BY <1>9, <2>1, <2>2, <2>3, Zenon
  <1>12. Signals'
    <2> SUFFICES ASSUME NEW j \in Endpoints, state'[j].kind = "Fork"
                 PROVE  /\ state'[j].hints # {}
                        /\ j < turn' => Standing(j)'
                        /\ Standing(j)' => started'
      BY Zenon DEF Signals
    <2>1. state'[j] = state[j] /\ state[j].kind = "Fork"
      BY <1>9 DEF Ready
    <2>2. ~ (j < turn')
      BY <1>6, SourceAssumption DEF Endpoints
    <2>3. ~ Standing(j)'
      <3>1. state[j] \in EndpointState
        BY SMTT(30), <1>0 DEF SourceTypes
      <3>2. state[j].req.first_block \in Int /\ state[j].req.first_block <= h
        BY <1>0, <1>4, <2>1, <3>1, StateFields DEF NotAhead, BlockStreamRequest
      <3>3. position'.first_block = h + 1
        BY <1>5, Zenon
      <3> QED
        BY <1>4, <2>1, <3>2, <3>3 DEF Standing
    <2> QED
      BY <2>1, <2>2, <2>3, Zenon DEF Signals
  <1>13. CommittedBelow' /\ HeadSignalOwn'
    <2> SUFFICES ASSUME NEW j \in Endpoints, committed'[j] # None
                 PROVE  /\ committed'[j] < h + 1
                        /\ committed'[j] + 1 = h + 1 => j = i
      BY <1>5, Zenon DEF CommittedBelow, HeadSignalOwn
    <2>1. CASE j = i
      <3>1. committed \in [Endpoints -> Heights]
        BY <1>0, Zenon DEF SourceTypes
      <3>2. committed'[i] = h
        BY <1>6, <3>1, Zenon
      <3>3. h \in Int
        BY <1>0 DEF BlockNumber
      <3> QED
        BY <2>1, <3>2, <3>3
    <2>2. CASE j # i
      <3>1. committed'[j] = committed[j] /\ committed[j] \in Int
        BY <1>0, <1>6, <2>2 DEF SourceTypes, Heights, BlockNumber
      <3>2. committed[j] < h
        BY <1>4, <3>1 DEF CommittedBelow
      <3> QED
        BY <1>4, <3>1, <3>2
    <2> QED
      BY <2>1, <2>2
  <1>14. OneChain' /\ LogType'
    <2>0. log \in Seq(Hash) /\ log' = Append(log, hash)
      BY DEF LogType, AcceptBlock
    <2>1. log' \in Seq(Hash) /\ Len(log) \in Nat /\ Len(log') = Len(log) + 1
      BY <1>3, <2>0
    <2>2. h = Start + Len(log) /\ position.parent_block_hash = LogParent(Start + Len(log))
      BY <1>4, Zenon DEF OneChain
    <2>3. /\ log'[Len(log) + 1] = hash
          /\ \A k \in 1 .. Len(log) : log'[k] = log[k]
      BY SMTT(30), <1>3, <2>0
    <2>4. position' = [first_block |-> Start + Len(log'), parent_block_hash |-> LogParent(Start + Len(log))']
      <3>1. LogParent(Start + Len(log))' = hash
        BY <1>0, <2>1, <2>3 DEF LogParent
      <3>2. Start + Len(log') = h + 1
        BY <1>0, <2>1, <2>2
      <3> QED
        BY <1>5, <3>1, <3>2, Zenon
    <2>5. ASSUME NEW k \in 1 .. Len(log') - 1
          PROVE  ParentOf(log'[k + 1]) = log'[k]
      <3>1. CASE k < Len(log)
        <4>1. k \in 1 .. Len(log) - 1 /\ k + 1 \in 1 .. Len(log) /\ k \in 1 .. Len(log)
          BY <2>1, <3>1
        <4> QED
          BY <2>3, <4>1, Zenon DEF OneChain
      <3>2. CASE k = Len(log)
        <4>1. Len(log) >= 1 /\ LogParent(Start + Len(log)) = log[Len(log)]
          BY <1>0, <2>1, <3>2 DEF LogParent
        <4>2. log[Len(log)] \in Hash
          BY <2>0, <2>1, <4>1
        <4>3. position.parent_block_hash # None /\ position.parent_block_hash = log[Len(log)]
          BY SMTT(30), <2>2, <4>1, <4>2, NoneAssumption
        <4>4. ParentOf(hash) = log[Len(log)]
          BY <1>5, <4>3, Zenon DEF Links
        <4> QED
          BY <2>1, <2>3, <3>2, <4>1, <4>4
      <3> QED
        BY SMTT(30), <2>1, <3>1, <3>2
    <2> QED
      BY <2>1, <2>4, <2>5, Zenon DEF OneChain, LogType
  <1>15. FinalizedBelowPosition'
    <2>1. CASE finalized_head' = finalized_head
      <3>1. finalized_head # None => finalized_head.number \in Int
        BY SMTT(30), <1>0 DEF SourceTypes, BlockRef, BlockNumber
      <3> QED
        BY <1>4, <1>5, <2>1, <3>1 DEF FinalizedBelowPosition
    <2>2. CASE finalized_head' = [number |-> h, hash |-> hash]
      BY <1>4, <1>5, <2>2 DEF FinalizedBelowPosition
    <2> QED
      BY <1>5, <2>1, <2>2, Zenon
  <1>16. TimeoutScoped'
    BY <1>6 DEF TimeoutScoped
  <1> QED
    BY <1>10, <1>11, <1>12, <1>13, <1>14, <1>15, <1>16

\* A new position starts from nothing above the part of the log it keeps.
LEMMA SetPositionInv ==
    ASSUME SourceInv, NEW n \in Start .. MaxBlock + 1, SetPosition(n)
    PROVE  SourceInv'
  <1> USE DEF SourceInv
  <1>1. /\ position' = [first_block |-> n, parent_block_hash |-> LogParent(n)]
        /\ finalized_head' = None /\ timer' = None /\ turn' = 0 /\ errors' = errors
        /\ state' = [i \in Endpoints |-> Ready] /\ rejects' = [i \in Endpoints |-> 0]
        /\ committed' = [i \in Endpoints |-> None]
        /\ n \in Start .. position.first_block
    BY Zenon DEF SetPosition, ResetForkConsensus, ResetEndpoints
  <1>2. Start \in Nat /\ MaxBlock \in Nat /\ N \in Nat /\ Rungs \in Nat /\ n \in Nat
    BY SourceAssumption
  <1>3. log \in Seq(Hash) /\ Len(log) \in Nat /\ log' = SubSeq(log, 1, n - Start)
    BY DEF LogType, SetPosition
  <1>4. position.first_block = Start + Len(log)
    BY DEF OneChain
  <1>5. n - Start \in 0 .. Len(log)
    BY <1>1, <1>2, <1>3, <1>4
  <1>6. /\ log' \in Seq(Hash) /\ Len(log') = n - Start
        /\ \A k \in 1 .. n - Start : log'[k] = log[k]
    BY <1>3, <1>5
  <1>7. SourceTypes'
    <2>1. LogParent(n) \in OptHash
      BY <1>1, <1>3, <1>4, LogParentType, Zenon
    <2>2. position' \in BlockStreamRequest
      BY <1>1, <1>2, <2>1 DEF BlockStreamRequest
    <2>3. /\ state' \in [Endpoints -> EndpointState] /\ committed' \in [Endpoints -> Heights]
          /\ rejects' \in [Endpoints -> 0 .. Rungs]
      BY <1>1, <1>2, StateMakers DEF Heights
    <2> QED
      BY <1>1, <1>2, <2>2, <2>3 DEF SourceTypes
  <1>8. NotAhead' /\ Signals'
    BY <1>1, Zenon DEF NotAhead, Signals, Ready
  <1>9. CommittedBelow' /\ FinalizedBelowPosition' /\ HeadSignalOwn' /\ TimeoutScoped'
    BY <1>1, Zenon DEF CommittedBelow, FinalizedBelowPosition, HeadSignalOwn, TimeoutScoped
  <1>10. OneChain' /\ LogType'
    <2>1. LogParent(n)' = LogParent(n)
      BY SMTT(30), <1>2, <1>5, <1>6 DEF LogParent
    <2>2. n = Start + Len(log')
      BY <1>2, <1>6
    <2>3. \A k \in 1 .. Len(log') - 1 : ParentOf(log'[k + 1]) = log'[k]
      <3> SUFFICES ASSUME NEW k \in 1 .. Len(log') - 1
                   PROVE  ParentOf(log'[k + 1]) = log'[k]
        OBVIOUS
      <3>1. k \in 1 .. Len(log) - 1 /\ k \in 1 .. n - Start /\ k + 1 \in 1 .. n - Start
        BY <1>3, <1>5, <1>6
      <3> QED
        BY <1>6, <3>1, Zenon DEF OneChain
    <2> QED
      BY <1>1, <1>6, <2>1, <2>2, <2>3, Zenon DEF OneChain, LogType
  <1> QED
    BY <1>7, <1>8, <1>9, <1>10

\* The initial state.
LEMMA SourceInit == Init => SourceInv
  <1> SUFFICES ASSUME Init PROVE SourceInv
    OBVIOUS
  <1> USE DEF Init
  <1>1. Start \in Nat /\ MaxBlock \in Nat /\ N \in Nat /\ Rungs \in Nat /\ Start <= MaxBlock
    BY SourceAssumption
  <1>2. log \in Seq(Hash) /\ Len(log) = 0
    OBVIOUS
  <1>3. LogParent(Start) = position.parent_block_hash /\ position.first_block = Start
    BY <1>1 DEF LogParent
  <1>4. LogParent(Start) \in OptHash
    BY <1>1, <1>2, LogParentType
  <1>5. position \in BlockStreamRequest
    BY <1>1, <1>3, <1>4 DEF BlockStreamRequest
  <1>6. SourceTypes
    BY SMTT(30), <1>1, <1>5, StateMakers DEF SourceTypes, Heights
  <1>7. NotAhead /\ Signals /\ CommittedBelow /\ TimeoutScoped
    BY Zenon DEF NotAhead, Signals, CommittedBelow, TimeoutScoped, Ready
  <1>8. FinalizedBelowPosition /\ HeadSignalOwn
    BY Zenon DEF FinalizedBelowPosition, HeadSignalOwn
  <1>9. OneChain /\ LogType
    BY <1>1, <1>2, <1>3 DEF OneChain, LogType
  <1> QED
    BY <1>6, <1>7, <1>8, <1>9 DEF SourceInv

\* Every step keeps the invariant.
LEMMA SourceStep == SourceInv /\ [Next]_vars => SourceInv'
  BY StepKinds, GlobalInv, ForkConsensusInv, LocalInv, AcceptInv, SetPositionInv, Zenon

\* The invariant of the source, whatever the servers answer and whenever.
THEOREM SourceInvariant == Spec => []SourceInv
  BY SourceInit, SourceStep, PTL DEF Spec

\* A fork consensus is decided on signals about the current position, with a
\* running clock and hints to hand over: the expects of poll_next_event and
\* extract_fork never fail.
THEOREM ConsensusIsGrounded == Spec => []ConsensusGrounded
  <1>1. SourceInv => ConsensusGrounded
    <2>1. N \in Nat /\ \A i \in Endpoints : i < N + 1
      BY SourceAssumption DEF Endpoints
    <2> QED
      BY <2>1 DEF SourceInv, Signals, ConsensusGrounded, Forked
  <1> QED
    BY <1>1, SourceInvariant, PTL

\* The consensus timeout never outlives the fork it was set for.
THEOREM TimeoutIsScoped == Spec => []TimeoutScoped
  <1>1. SourceInv => TimeoutScoped
    BY DEF SourceInv
  <1> QED
    BY <1>1, SourceInvariant, PTL

\* A fork is decided on signals and on time about the current position, for
\* any number of endpoints.
THEOREM ConsensusIsScoped == Spec => []ConsensusScoped
  BY ConsensusIsGrounded, TimeoutIsScoped, PTL DEF ConsensusScoped

\* The blocks given to the consumer form one chain, which the position
\* follows, for any number of endpoints and any mixture of their forks.
THEOREM SourceGivesOneChain == Spec => []OneChain
  <1>1. SourceInv => OneChain
    BY DEF SourceInv
  <1> QED
    BY <1>1, SourceInvariant, PTL

\* The finalized head remembered by set_head and accept_new_block lies below
\* the position.
THEOREM FinalizedIsBelowPosition == Spec => []FinalizedBelowPosition
  <1>1. SourceInv => FinalizedBelowPosition
    BY DEF SourceInv
  <1> QED
    BY <1>1, SourceInvariant, PTL

\* Only the endpoint whose block came last may report that it is on head.
THEOREM HeadSignalIsOwn == Spec => []HeadSignalOwn
  <1>1. SourceInv => HeadSignalOwn
    BY DEF SourceInv
  <1> QED
    BY <1>1, SourceInvariant, PTL
-----------------------------------------------------------------------------
(* Strikes                                                                 *)

\* A pause has a strike that explains it.
PausesExplained ==
    \A i \in Endpoints : state[i].kind = "Backoff" => errors[i] > 0 \/ rejects[i] > 0

\* A local step keeps the counters of the other endpoints; its own endpoint
\* pauses only with a strike, and stays paused with the strikes it had.
LEMMA LocalPause ==
    ASSUME SourceTypes, NEW i \in Endpoints, LocalStep(i)
    PROVE  /\ \A j \in Endpoints : j # i => /\ state'[j] = state[j]
                                            /\ errors'[j] = errors[j] /\ rejects'[j] = rejects[j]
           /\ \/ state'[i].kind # "Backoff"
              \/ errors'[i] > 0 \/ rejects'[i] > 0
              \/ state[i].kind = "Backoff" /\ errors' = errors /\ rejects' = rejects
  <1> USE DEF SourceTypes, strikes
  <1>0. /\ state \in [Endpoints -> EndpointState] /\ errors[i] \in 0 .. Rungs /\ rejects[i] \in 0 .. Rungs
        /\ Ready.kind = "Ready"
    BY DEF Ready
  <1>1. \A c \in 0 .. Rungs : c # 0 => Strike(c) > 0
    BY SourceAssumption DEF Strike
  <1>2. CASE Request(i)
    BY <1>0, <1>2, Zenon DEF Request
  <1>3. CASE Wait(i)
    BY <1>0, <1>3, Zenon DEF Wait
  <1>4. CASE Fails(i)
    BY <1>0, <1>1, <1>4, Zenon DEF Fails, OnError
  <1>5. CASE StreamEnds(i)
    BY <1>0, <1>5, Zenon DEF StreamEnds
  <1>6. CASE BackToReady(i)
    BY <1>0, <1>6, Zenon DEF BackToReady
  <1>7. CASE Answer(i)
    <2>1. state'[i].kind = "Req"
      <3>1. state[i] \in [kind : {"Req"}, req : BlockStreamRequest, answered : BOOLEAN]
        BY <1>0, <1>7, StateFields DEF Answer
      <3> QED
        BY <1>7, <3>1 DEF Answer
    <2> QED
      BY <1>7, <2>1 DEF Answer
  <1>8. CASE PauseOver(i)
    BY SMTT(30), <1>0, <1>8 DEF PauseOver
  <1>9. CASE \E b \in Branch, tip \in BlockNumber, fin \in Heights : OpenStream(i, b, tip, fin)
    <2>1. PICK b \in Branch, tip \in BlockNumber, fin \in Heights : OpenStream(i, b, tip, fin)
      BY <1>9
    <2>2. /\ state' = [state EXCEPT ![i] = [kind |-> "Stream", fin |-> IF fin = None THEN 0 ELSE fin,
                           branch |-> b, next |-> state[i].req.first_block, last |-> tip]]
          /\ errors' = [errors EXCEPT ![i] = 0] /\ rejects' = rejects
      BY <2>1, Zenon DEF OpenStream
    <2> HIDE DEF SourceTypes
    <2>3. state'[i].kind = "Stream"
      BY <1>0, <2>2, Zenon
    <2> QED
      BY <1>0, <2>2, <2>3, Zenon DEF SourceTypes
  <1>10. CASE \E b \in Branch, tip, low \in BlockNumber : SignalFork(i, b, tip, low)
    <2>1. PICK b \in Branch, tip \in BlockNumber, low \in BlockNumber : SignalFork(i, b, tip, low)
      BY <1>10
    <2>2. /\ state' = [state EXCEPT ![i] = [kind |-> "Fork", req |-> state[i].req,
                           hints |-> {RefOn(b, h) : h \in low .. state[i].req.first_block - 1}]]
          /\ errors' = [errors EXCEPT ![i] = 0] /\ rejects' = rejects
      BY <2>1, Zenon DEF SignalFork
    <2> HIDE DEF SourceTypes
    <2>3. state'[i].kind = "Fork"
      BY <1>0, <2>2, Zenon
    <2> QED
      BY <1>0, <2>2, <2>3, Zenon DEF SourceTypes
  <1>11. CASE \E h \in BlockNumber : SkipBlock(i, h)
    <2>1. PICK h \in BlockNumber : SkipBlock(i, h)
      BY <1>11, Zenon
    <2>2. state'[i].kind = "Stream"
      <3>1. state[i] \in [kind : {"Stream"}, fin : BlockNumber, branch : Branch,
                          next : 0 .. MaxBlock + 1, last : BlockNumber]
        BY <1>0, <2>1, StateFields DEF SkipBlock, HasBlock, At
      <3> QED
        BY <2>1, <3>1 DEF SkipBlock
    <2> QED
      BY <2>1, <2>2 DEF SkipBlock
  <1>12. CASE \E h \in BlockNumber : RejectBlock(i, h)
    BY <1>0, <1>1, <1>12, Zenon DEF RejectBlock
  <1> QED
    BY <1>2, <1>3, <1>4, <1>5, <1>6, <1>7, <1>8, <1>9, <1>10, <1>11, <1>12, Zenon DEF LocalStep

\* After a block, no endpoint has a reject left and only errors explain a
\* pause.
LEMMA AcceptPause ==
    ASSUME SourceTypes, PausesExplained, NEW i \in Endpoints, NEW h \in BlockNumber, AcceptBlock(i, h)
    PROVE  \A j \in Endpoints : rejects'[j] = 0 /\ (state'[j].kind = "Backoff" => errors'[j] > 0)
  <1> SUFFICES ASSUME NEW j \in Endpoints, state'[j].kind = "Backoff"
               PROVE  errors'[j] > 0
    BY DEF AcceptBlock
  <1>1. j # i
    <2> SUFFICES ASSUME j = i PROVE FALSE
      OBVIOUS
    <2>1. state[i] \in [kind : {"Stream"}, fin : BlockNumber, branch : Branch,
                        next : 0 .. MaxBlock + 1, last : BlockNumber]
      BY StateFields DEF SourceTypes, AcceptBlock, HasBlock, At
    <2>2. state'[i] = [state[i] EXCEPT !.next = h + 1]
      BY DEF AcceptBlock
    <2> QED
      BY <2>1, <2>2
  <1>2. state'[j] = Woken(i, j) /\ errors'[j] = errors[j]
    BY <1>1 DEF AcceptBlock, SourceTypes
  <1>3. /\ state[j].kind = "Backoff"
        /\ ~ (rejects[j] > 0 /\ errors[j] = 0)
    BY <1>1, <1>2 DEF Woken, Ready
  <1>4. errors[j] \in 0 .. Rungs
    BY Zenon DEF SourceTypes
  <1> QED
    <2>1. errors[j] > 0 \/ rejects[j] > 0
      BY <1>3, Zenon DEF PausesExplained
    <2>2. rejects[j] > 0 => errors[j] # 0
      BY <1>3, Zenon
    <2>3. errors[j] # 0 => errors[j] > 0
      BY <1>4, SourceAssumption
    <2>4. errors[j] > 0
      BY <2>1, <2>2, <2>3, Zenon
    <2> QED
      BY <1>2, <2>4, Zenon

\* Every step keeps the pauses explained, and when it moves the position no
\* reject survives it.
LEMMA PauseStep ==
    ASSUME SourceTypes, PausesExplained, [Next]_vars
    PROVE  /\ PausesExplained'
           /\ position' # position =>
                \A i \in Endpoints : rejects'[i] = 0 /\ (state'[i].kind = "Backoff" => errors'[i] > 0)
  <1>1. CASE GlobalStep
    <2>1. state' = state /\ errors' = errors /\ rejects' = rejects /\ position' = position
      BY <1>1, Zenon DEF GlobalStep, BeginPoll, NoConsensus, ConsensusTimeout, Settle, vars, cursor, strikes
    <2> QED
      BY <2>1 DEF PausesExplained
  <1>2. CASE ForkConsensus
    <2>1. state' = [i \in Endpoints |-> Ready] /\ position' = position
      BY SMTT(30), <1>2 DEF ForkConsensus, cursor
    <2> QED
      BY <2>1, Zenon DEF PausesExplained, Ready
  <1>3. CASE \E i \in Endpoints : LocalStep(i)
    <2>1. PICK i \in Endpoints : LocalStep(i)
      BY <1>3
    <2>2. position' = position
      BY <2>1, LocalFrame, Zenon
    <2> QED
      BY <2>1, <2>2, LocalPause, Zenon DEF PausesExplained
  <1>4. CASE \E i \in Endpoints, h \in BlockNumber : AcceptBlock(i, h)
    BY <1>4, AcceptPause, Zenon DEF PausesExplained
  <1>5. CASE \E n \in Start .. MaxBlock + 1 : SetPosition(n)
    <2>1. state' = [i \in Endpoints |-> Ready] /\ rejects' = [i \in Endpoints |-> 0]
      BY <1>5, Zenon DEF SetPosition, ResetEndpoints
    <2>2. \A i \in Endpoints : state'[i].kind # "Backoff" /\ rejects'[i] = 0
      BY <2>1 DEF Ready
    <2> QED
      BY <2>2, Zenon DEF PausesExplained
  <1> QED
    BY <1>1, <1>2, <1>3, <1>4, <1>5, StepKinds, Zenon

\* A strike for a block that did not link, and the pause it caused, do not
\* outlive the position they were about (accept_new_block, set_position).
THEOREM StrikesAreScoped == Spec => StrikesScoped
  <1>1. Init => PausesExplained
    BY DEF Init, PausesExplained, Ready
  <1>2. SourceInv /\ PausesExplained /\ [Next]_vars => PausesExplained'
    BY PauseStep, Zenon DEF SourceInv
  <1>3. SourceInv /\ PausesExplained /\ [Next]_vars
           => [position' # position =>
                  \A i \in Endpoints : /\ rejects'[i] = 0
                                       /\ state'[i].kind = "Backoff" => errors'[i] > 0]_vars
    BY PauseStep DEF SourceInv
  <1> QED
    BY <1>1, <1>2, <1>3, SourceInvariant, PTL DEF Spec, StrikesScoped
=============================================================================
