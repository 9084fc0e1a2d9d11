------------------------------ MODULE DataSource ------------------------------
(***************************************************************************)
(* StandardDataSource (crates/data-source/src/standard.rs): several        *)
(* endpoints polled by one task and reconciled into one stream of events,  *)
(* with the consumer that answers a fork by a new position.                *)
(*                                                                         *)
(* A poll visits the endpoints in order, each until it has an event or     *)
(* nothing to do, and ends with the fork consensus; "turn" is the endpoint *)
(* being visited.  What a future resolves to is decided when it is polled. *)
(* Answers to requests and timers come between polls (turn 0): a request   *)
(* or a sleep begun in a poll is not over within it.  A stream has its     *)
(* next item or not.                                                       *)
(*                                                                         *)
(* The servers are external.  Each answers from a chain of its own, which  *)
(* may lag and may differ from answer to answer: branches 0 and 1 part at  *)
(* height ForkAt, and what is final is final on the branch Canon only.     *)
(***************************************************************************)
EXTENDS Integers, Sequences, FiniteSets

CONSTANTS
    N,          \* the number of endpoints
    MaxBlock,   \* bound: the highest block of a chain
    Start,      \* the position the source is created for
    Anchored,   \* BOOLEAN: that position comes with a parent hash
    ForkAt,     \* the first height at which the branches differ
    Canon,      \* the branch that becomes final
    Careless,   \* the endpoints that may ignore the expected parent hash
    Reports,    \* bound: the heights the servers report as final, or None
    Live,       \* the endpoints that work once the network settles; if none, it never does
    Rungs,      \* strikes counted; the backoff is longest from there on
    None        \* the Rust Option::None

Endpoints == 1 .. N

Branch == {0, 1}

ASSUME SourceAssumption ==
    /\ N \in Nat \ {0} /\ MaxBlock \in Nat /\ Rungs \in Nat \ {0}
    /\ Start \in 0 .. MaxBlock /\ ForkAt \in Nat \ {0}
    /\ Anchored \in BOOLEAN /\ (Anchored => Start > 0)
    /\ Canon \in Branch /\ Live \subseteq 1 .. N /\ Careless \subseteq 1 .. N
    /\ Reports \subseteq (0 .. MaxBlock) \cup {None}

BlockNumber == 0 .. MaxBlock

\* The block at height h of branch b; it names its ancestry.
HashOn(b, h) == <<IF h < ForkAt THEN 0 ELSE b, h>>

Hash == Branch \X BlockNumber

ParentOf(hash) == HashOn(hash[1], hash[2] - 1)

BlockRef == [number : BlockNumber, hash : Hash]

RefOn(b, h) == [number |-> h, hash |-> HashOn(b, h)]

ASSUME NoneAssumption ==
    None \notin Hash /\ None \notin BlockRef /\ None \notin Int /\ None \notin {"Armed", "Due"}

VARIABLES
    position,        \* BlockStreamRequest: first_block, parent_block_hash
    canonical,       \* position_is_canonical
    finalized_head,  \* the finalized head told so far, at most the position
    max_seen,        \* max_seen_finalized_block
    started,         \* fork_consensus_started_at is set
    timer,           \* fork_consensus_timeout: None, "Armed" or "Due"
    state,           \* EndpointState by endpoint
    errors,          \* error_counter by endpoint
    rejects,         \* reject_counter by endpoint
    committed,       \* last_committed_block by endpoint
    turn,            \* the endpoint the poll has come to; 0: no poll, N + 1: consensus
    event,           \* the last event returned
    log,             \* the consumer: the hashes it was given, from Start on
    owner,           \* the consumer: whose block came last since set_position
    settled          \* the servers agree from here on

consensus == <<started, timer>>
cursor == <<position, canonical, finalized_head, max_seen>>
strikes == <<errors, rejects>>
consumer == <<log, owner>>
vars == <<cursor, consensus, state, strikes, committed, turn, event, consumer, settled>>

Ready == [kind |-> "Ready"]
Backoff == [kind |-> "Backoff", due |-> FALSE]
Quiet == [kind |-> "Quiet"]

\* The parent the consumer expects at position n of what it was given.
LogParent(n) ==
    IF n > Start THEN log[n - Start]
    ELSE IF Anchored THEN HashOn(0, Start - 1) ELSE None

Init ==
    /\ position = [first_block |-> Start,
                   parent_block_hash |-> IF Anchored THEN HashOn(0, Start - 1) ELSE None]
    /\ canonical = FALSE /\ finalized_head = None /\ max_seen = 0
    /\ started = FALSE /\ timer = None
    /\ state = [i \in Endpoints |-> Ready]
    /\ errors = [i \in Endpoints |-> 0] /\ rejects = [i \in Endpoints |-> 0]
    /\ committed = [i \in Endpoints |-> None]
    /\ turn = 0 /\ event = Quiet /\ log = <<>> /\ owner = None /\ settled = FALSE

-----------------------------------------------------------------------------
(* Polling one endpoint                                                    *)

\* The poll is at endpoint i, in the given state.
At(i, kind) == turn = i /\ state[i].kind = kind

Pending == turn' = turn + 1 /\ event' = Quiet

\* The poll goes on with the same endpoint.
Again == turn' = turn /\ event' = Quiet

\* The poll returns an event; the next one starts over.
Emit(e) == turn' = 0 /\ event' = e

\* The consumer has handled the last event and polls again.
BeginPoll ==
    /\ turn = 0 /\ event.kind # "Fork"
    /\ turn' = 1 /\ event' = Quiet
    /\ UNCHANGED <<cursor, consensus, state, strikes, committed, consumer, settled>>

\* backoff_ms: the strikes that count.
Strike(c) == IF c < Rungs THEN c + 1 ELSE c

\* on_error: no pause the first time.
OnError(i) ==
    /\ state' = [state EXCEPT ![i] = IF errors[i] = 0 THEN Ready ELSE Backoff]
    /\ errors' = [errors EXCEPT ![i] = Strike(@)]
    /\ Again

Request(i) ==
    /\ At(i, "Ready")
    /\ state' = [state EXCEPT ![i] = [kind |-> "Req", req |-> position, answered |-> FALSE]]
    /\ Again
    /\ UNCHANGED <<cursor, consensus, strikes, committed, consumer, settled>>

\* A future or a stream that has nothing yet, a fork signal that stands, a
\* sleep that is not over.
Wait(i) ==
    /\ \/ At(i, "Req") /\ ~ state[i].answered
       \/ At(i, "Stream")
       \/ At(i, "Fork") /\ state[i].req = position
       \/ At(i, "Backoff") /\ ~ state[i].due
    /\ Pending
    /\ UNCHANGED <<cursor, consensus, state, strikes, committed, consumer, settled>>

\* on_new_finalized_head: news, and of the chain the position is on as far as
\* the source can tell.
NewlyFinal(ref) ==
    /\ position.first_block # 0 /\ position.parent_block_hash # None
    /\ finalized_head # None => finalized_head.number < ref.number
    /\ ref.number >= position.first_block => canonical

\* What is remembered of a report above the position.
Clamped(ref) ==
    IF ref.number >= position.first_block
    THEN [number |-> position.first_block - 1, hash |-> position.parent_block_hash]
    ELSE ref

OnNewFinalizedHead(fin, ref) ==
    IF fin = None
    THEN Again /\ UNCHANGED <<max_seen, finalized_head>>
    ELSE /\ max_seen' = IF fin > max_seen THEN fin ELSE max_seen
         /\ IF NewlyFinal(ref)
            THEN finalized_head' = Clamped(ref) /\ Emit([kind |-> "FinalizedHead", ref |-> ref])
            ELSE UNCHANGED finalized_head /\ Again

\* External: the chain (branch b up to tip) an endpoint answers from, and the
\* height it knows to be final.
Answers(i, b, tip, fin) ==
    /\ At(i, "Req") /\ state[i].answered
    /\ fin # None => fin <= tip /\ (fin >= ForkAt => b = Canon)
    /\ settled => b = Canon /\ (i \in Live => tip = MaxBlock)

\* External: the requested position does not follow on the chain of the
\* endpoint; nothing is said about positions beyond its tip.
Conflict(req, b, tip) ==
    /\ req.parent_block_hash # None
    /\ req.first_block <= tip + 1
    /\ req.parent_block_hash # HashOn(b, req.first_block - 1)

OpenStream(i, b, tip, fin) ==
    /\ Answers(i, b, tip, fin)
    /\ Conflict(state[i].req, b, tip) => i \in Careless
    /\ OnNewFinalizedHead(fin, RefOn(b, fin))
    /\ errors' = [errors EXCEPT ![i] = 0]
    /\ state' = [state EXCEPT ![i] =
                    [kind |-> "Stream", fin |-> IF fin = None THEN 0 ELSE fin, branch |-> b,
                     next |-> state[i].req.first_block, last |-> tip]]
    /\ UNCHANGED <<position, canonical, consensus, rejects, committed, consumer, settled>>

SignalFork(i, b, tip, low) ==
    /\ Answers(i, b, tip, None)
    /\ Conflict(state[i].req, b, tip)
    /\ low < state[i].req.first_block
    /\ started' = TRUE
    /\ errors' = [errors EXCEPT ![i] = 0]
    /\ state' = [state EXCEPT ![i] =
                    [kind |-> "Fork", req |-> state[i].req,
                     hints |-> {RefOn(b, h) : h \in low .. state[i].req.first_block - 1}]]
    /\ Again
    /\ UNCHANGED <<cursor, timer, rejects, committed, consumer, settled>>

\* A request or a stream fails, or a block cannot be parsed.
Fails(i) ==
    /\ settled => i \notin Live
    /\ (At(i, "Req") /\ state[i].answered) \/ At(i, "Stream")
    /\ OnError(i)
    /\ UNCHANGED <<cursor, consensus, rejects, committed, consumer, settled>>

StreamEnds(i) ==
    /\ At(i, "Stream") /\ state[i].next > state[i].last
    /\ errors' = [errors EXCEPT ![i] = 0]
    /\ state' = [state EXCEPT ![i] = Ready]
    /\ LET prev == IF position.first_block = 0 THEN 0 ELSE position.first_block - 1
       IN  IF prev >= max_seen /\ committed[i] = prev
           THEN Emit([kind |-> "MaybeOnHead", by |-> i])
           ELSE Again
    /\ UNCHANGED <<cursor, consensus, rejects, committed, consumer, settled>>

\* The stream of endpoint i has block h.
HasBlock(i, h) == At(i, "Stream") /\ state[i].next = h /\ h <= state[i].last

SkipBlock(i, h) ==
    /\ HasBlock(i, h) /\ h < position.first_block
    /\ errors' = [errors EXCEPT ![i] = 0]
    /\ state' = [state EXCEPT ![i].next = h + 1]
    /\ Again
    /\ UNCHANGED <<cursor, consensus, rejects, committed, consumer, settled>>

\* Defect: the parent hash is not compared.
LinksAlways(hash) == TRUE

Links(hash) ==
    position.parent_block_hash # None => position.parent_block_hash = ParentOf(hash)

\* Defect: a committed block wakes nobody.
WokenNever(i, ep) == state[ep]

\* A committed block moves the position: strikes of the others are void, and
\* a sleep that only a reject explains is over.
Woken(i, ep) ==
    IF ep # i /\ state[ep].kind = "Backoff" /\ rejects[ep] > 0 /\ errors[ep] = 0
    THEN Ready ELSE state[ep]

\* Defect: the timeout goes on.
ResetStartOnly == started' = FALSE /\ UNCHANGED timer

ResetForkConsensus == started' = FALSE /\ timer' = None

\* accept_new_block, and what poll_next_event does on a block.
AcceptBlock(i, h) ==
    /\ HasBlock(i, h) /\ h >= position.first_block
    /\ LET hash == HashOn(state[i].branch, h)
       IN  /\ Links(hash)
           /\ position' = [first_block |-> h + 1, parent_block_hash |-> hash]
           /\ finalized_head' = IF state[i].fin >= h THEN [number |-> h, hash |-> hash]
                                                     ELSE finalized_head
           /\ log' = Append(log, hash)
    /\ canonical' = TRUE
    /\ ResetForkConsensus
    /\ errors' = [errors EXCEPT ![i] = 0]
    /\ rejects' = [ep \in Endpoints |-> 0]
    /\ committed' = [committed EXCEPT ![i] = h]
    /\ state' = [ep \in Endpoints |->
                    IF ep = i THEN [state[i] EXCEPT !.next = h + 1] ELSE Woken(i, ep)]
    /\ owner' = i
    /\ Emit([kind |-> "Block"])
    /\ UNCHANGED <<max_seen, settled>>

\* on_reject: no pause the first time.
RejectBlock(i, h) ==
    /\ HasBlock(i, h) /\ h >= position.first_block
    /\ ~ Links(HashOn(state[i].branch, h))
    /\ errors' = [errors EXCEPT ![i] = 0]
    /\ state' = [state EXCEPT ![i] = IF rejects[i] = 0 THEN Ready ELSE Backoff]
    /\ rejects' = [rejects EXCEPT ![i] = Strike(@)]
    /\ Again
    /\ UNCHANGED <<cursor, consensus, committed, consumer, settled>>

\* A fork signal for a position that was left, or the end of a pause.
BackToReady(i) ==
    /\ \/ At(i, "Fork") /\ state[i].req # position
       \/ At(i, "Backoff") /\ state[i].due
    /\ state' = [state EXCEPT ![i] = Ready]
    /\ Again
    /\ UNCHANGED <<cursor, consensus, strikes, committed, consumer, settled>>

-----------------------------------------------------------------------------
(* The end of a poll                                                       *)

Forked == {i \in Endpoints : state[i].kind = "Fork"}

Active == {i \in Endpoints : state[i].kind # "Backoff"}

\* Defect: a minority of active endpoints never prevails.
CorroboratedByCount == 2 * Cardinality(Forked) > N \/ Forked = Active

Corroborated ==
    \/ 2 * Cardinality(Forked) > N
    \/ Forked = Active
    \/ timer = "Due"

\* extract_fork: the longest list, the first of them in the order of endpoints.
LongestHints ==
    LET longer(i, j) == \/ Cardinality(state[i].hints) > Cardinality(state[j].hints)
                        \/ Cardinality(state[i].hints) = Cardinality(state[j].hints) /\ i <= j
    IN  state[CHOOSE i \in Forked : \A j \in Forked : longer(i, j)].hints

NoConsensus ==
    /\ turn = N + 1 /\ ~ (Forked # {} /\ Corroborated)
    /\ IF Forked = {} THEN ResetForkConsensus
       ELSE timer' = (IF timer = None THEN "Armed" ELSE timer) /\ UNCHANGED started
    /\ turn' = 0 /\ event' = Quiet
    /\ UNCHANGED <<cursor, state, strikes, committed, consumer, settled>>

ForkConsensus ==
    /\ turn = N + 1 /\ Forked # {} /\ Corroborated
    /\ ResetForkConsensus
    /\ state' = [i \in Endpoints |-> Ready]
    /\ Emit([kind |-> "Fork", hints |-> LongestHints])
    /\ UNCHANGED <<cursor, strikes, committed, consumer, settled>>

-----------------------------------------------------------------------------
(* The consumer and the network                                            *)

\* Where the ingest task may resume: not above the highest block the hints
\* confirm, or the lowest hint.
Resumable(n) ==
    \/ n = Start
    \/ \E ref \in event.hints : n <= ref.number + 1 /\ ref.number >= Start
                                /\ ref.hash = LogParent(ref.number + 1)
    \/ \A ref \in event.hints : n <= ref.number

\* Defect: an endpoint keeps what it committed before.
ResetEndpointsPartly ==
    /\ state' = [i \in Endpoints |-> Ready]
    /\ rejects' = [i \in Endpoints |-> 0]
    /\ UNCHANGED committed

ResetEndpoints ==
    /\ state' = [i \in Endpoints |-> Ready]
    /\ rejects' = [i \in Endpoints |-> 0]
    /\ committed' = [i \in Endpoints |-> None]

\* set_position, called by handle_fork of the ingest task.
SetPosition(n) ==
    /\ event.kind = "Fork"
    /\ n \in Start .. position.first_block /\ Resumable(n)
    /\ position' = [first_block |-> n, parent_block_hash |-> LogParent(n)]
    /\ canonical' = FALSE /\ finalized_head' = None
    /\ ResetForkConsensus
    /\ ResetEndpoints
    /\ log' = SubSeq(log, 1, n - Start) /\ owner' = None
    /\ turn' = 0 /\ event' = Quiet
    /\ UNCHANGED <<max_seen, errors, settled>>

\* External: a request is answered, or fails.
Answer(i) ==
    /\ turn = 0 /\ state[i].kind = "Req" /\ ~ state[i].answered
    /\ state' = [state EXCEPT ![i].answered = TRUE]
    /\ UNCHANGED <<cursor, consensus, strikes, committed, turn, event, consumer, settled>>

\* Timers.
PauseOver(i) ==
    /\ turn = 0 /\ state[i].kind = "Backoff" /\ ~ state[i].due
    /\ state' = [state EXCEPT ![i].due = TRUE]
    /\ UNCHANGED <<cursor, consensus, strikes, committed, turn, event, consumer, settled>>

ConsensusTimeout ==
    /\ turn = 0 /\ timer = "Armed"
    /\ timer' = "Due"
    /\ UNCHANGED <<cursor, started, state, strikes, committed, turn, event, consumer, settled>>

\* External: from now on the servers agree and those in Live work.
Settle ==
    /\ ~ settled /\ Live # {}
    /\ settled' = TRUE
    /\ UNCHANGED <<cursor, consensus, state, strikes, committed, turn, event, consumer>>

-----------------------------------------------------------------------------
Heights == BlockNumber \cup {None}

Stream(i) == \E h \in BlockNumber : SkipBlock(i, h) \/ AcceptBlock(i, h) \/ RejectBlock(i, h)

PollEndpoint(i) ==
    \/ Request(i)
    \/ Wait(i)
    \/ \E b \in Branch, tip \in BlockNumber :
          \/ \E fin \in Reports : OpenStream(i, b, tip, fin)
          \/ \E low \in BlockNumber : SignalFork(i, b, tip, low)
    \/ Fails(i)
    \/ Stream(i)
    \/ StreamEnds(i)
    \/ BackToReady(i)

Poll ==
    \/ BeginPoll
    \/ \E i \in Endpoints : PollEndpoint(i)
    \/ NoConsensus
    \/ ForkConsensus
    \/ \E n \in Start .. MaxBlock + 1 : SetPosition(n)

Network ==
    \/ \E i \in Endpoints : Answer(i) \/ PauseOver(i)
    \/ ConsensusTimeout
    \/ Settle

Next == Poll \/ Network

Spec == Init /\ [][Next]_vars

\* The task is polled, timers fire, the network settles, and then the
\* endpoints in Live answer and their streams go on.
LiveSpec ==
    /\ Spec
    /\ WF_vars(Poll) /\ WF_vars(Settle)
    /\ SF_vars(ConsensusTimeout)
    /\ \A i \in Live : SF_vars(Answer(i)) /\ SF_vars(PauseOver(i)) /\ SF_vars(Stream(i))
                       /\ SF_vars(StreamEnds(i))

-----------------------------------------------------------------------------
(* Properties                                                              *)

OptHash == Hash \cup {None}

BlockStreamRequest == [first_block : 0 .. MaxBlock + 1, parent_block_hash : OptHash]

EndpointState ==
    {Ready} \cup [kind : {"Backoff"}, due : BOOLEAN]
        \cup [kind : {"Req"}, req : BlockStreamRequest, answered : BOOLEAN]
        \cup [kind : {"Stream"}, fin : BlockNumber, branch : Branch,
              next : 0 .. MaxBlock + 1, last : BlockNumber]
        \cup [kind : {"Fork"}, req : BlockStreamRequest, hints : SUBSET BlockRef]

Event ==
    {Quiet, [kind |-> "Block"]} \cup [kind : {"FinalizedHead"}, ref : BlockRef]
        \cup [kind : {"MaybeOnHead"}, by : Endpoints] \cup [kind : {"Fork"}, hints : SUBSET BlockRef]

\* The type of every variable.
TypeOK ==
    /\ position \in BlockStreamRequest /\ canonical \in BOOLEAN
    /\ finalized_head \in BlockRef \cup {None} /\ max_seen \in BlockNumber
    /\ started \in BOOLEAN /\ timer \in {None, "Armed", "Due"}
    /\ state \in [Endpoints -> EndpointState]
    /\ errors \in [Endpoints -> 0 .. Rungs] /\ rejects \in [Endpoints -> 0 .. Rungs]
    /\ committed \in [Endpoints -> Heights]
    /\ turn \in 0 .. N + 1 /\ event \in Event
    /\ log \in Seq(Hash) /\ owner \in Endpoints \cup {None} /\ settled \in BOOLEAN

\* Endpoint i has signalled a fork at the current position.
Standing(i) == state[i].kind = "Fork" /\ state[i].req = position

\* The expectations of poll_next_event and extract_fork: when the consensus is
\* decided every fork signal is about the current position, its clock has
\* been started, and there are hints to hand over.
ConsensusGrounded ==
    turn = N + 1 => \A i \in Forked : Standing(i) /\ started /\ state[i].hints # {}

\* The consensus timeout runs only while a signal at the current position
\* stands, so that no fork is acted upon on time that an earlier one waited
\* (accept_new_block and set_position reset it).
TimeoutScoped == timer # None => \E i \in Endpoints : Standing(i)

\* A fork is decided on signals and on time that belong to the current
\* position.
ConsensusScoped == ConsensusGrounded /\ TimeoutScoped

\* What the consumer is given is one chain, whichever endpoints it came from
\* and however their answers were delayed (WP-4 of spec/03-write-path.md); the
\* position follows it.
OneChain ==
    /\ \A k \in 1 .. Len(log) - 1 : ParentOf(log[k + 1]) = log[k]
    /\ position = [first_block |-> Start + Len(log), parent_block_hash |-> LogParent(Start + Len(log))]

\* The finalized head that later reports are compared with lies below the
\* position, so that one on_new_finalized_head dismisses as known is known.
FinalizedBelowPosition == finalized_head # None => finalized_head.number < position.first_block

\* An endpoint may say "maybe on head" (poll_endpoint) only if its own block
\* was the last one since the position was set.
HeadSignalOwn ==
    \A i \in Endpoints :
        committed[i] # None /\ committed[i] + 1 = position.first_block => owner = i

\* When the position moves no endpoint keeps a strike for a block that did not
\* link at the old one, and none sleeps because of it (reject_counter).
StrikesScoped ==
    [][position' # position =>
          \A i \in Endpoints : /\ rejects'[i] = 0
                               /\ state'[i].kind = "Backoff" => errors'[i] > 0]_vars

AtTip == position = [first_block |-> MaxBlock + 1, parent_block_hash |-> HashOn(Canon, MaxBlock)]

\* Once the servers agree the source delivers their whole chain, also when
\* only some of them answer, and whatever forks it had been following.
ReachesTip == <>[]AtTip
=============================================================================
