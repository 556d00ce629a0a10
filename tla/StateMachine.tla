----------------------------- MODULE StateMachine ----------------------------
(***************************************************************************)
(* The local state machine (tm/tmengine/internal/tmstate): the lifecycle   *)
(* of one round after the other, the consensus manager that calls the      *)
(* application's consensus strategy in a goroutine of its own, and the     *)
(* timers.                                                                 *)
(*                                                                         *)
(* The kernel of the state machine is one goroutine; its state is one      *)
(* record s and its handlers are operators from s to the next s.  It       *)
(* blocks in three places, which are the values of s.pc at which other     *)
(* goroutines go on: waiting for the mirror's answer to a round entrance   *)
(* ("enter"), for the consensus manager to take a request ("send") and     *)
(* for the strategy to enter a round ("wait").  "save" is the point between*)
(* two store calls at which a crash matters.  At "run" it selects the next *)
(* event; at "quit" its goroutine has returned, at "panic" it has panicked.*)
(***************************************************************************)
EXTENDS MirrorState, Sequences

CONSTANT
    Matching  \* the block hashes that match the expected app hash and
              \* validator sets

ASSUME MatchingAssumption == Matching \subseteq Blocks

\* A channel with room for one hash: nil, empty or holding the hash.
ChNil   == -2
ChEmpty == -1

NoRequest == [op |-> "none", choices |-> {}, timed |-> FALSE]
NoFinalize == [h |-> 0, r |-> 0, hash |-> Nil]
\* The consensus manager: the request it works on; whether that belongs to a
\* round that was left, and if so whether the abandoned channel has room.
IdleManager == [op |-> "idle", choices |-> {}, stale |-> FALSE, room |-> TRUE]

\* What the state machine reads of a VersionedRoundView.
Seen(v) == [h |-> v.h, r |-> v.r, version |-> v.version, phs |-> v.phs,
            votes |-> v.sum, prev |-> v.prev]
NoView == Seen(ZeroView)

\* The state before the kernel goroutine starts.  genesis says whether this
\* process initialized the chain.
NewStateMachine(genesis) ==
    [pc |-> "start", genesis |-> genesis, init |-> TRUE, lenient |-> FALSE,
     catchup |-> FALSE,
     h |-> 0, r |-> 0, step |-> "invalid", timer |-> "none", hc |-> FALSE,
     vrv |-> NoView, entered |-> NoView, jump |-> NoView,
     proposalCh |-> FALSE, prevoteCh |-> ChNil, precommitCh |-> ChNil,
     finalizeCh |-> FALSE, finalizing |-> NoFinalize, finalized |-> FALSE,
     req |-> NoRequest, cm |-> IdleManager, acts |-> <<>>]

SMPanic(s) == [s EXCEPT !.pc = "panic"]
Quit(s)    == [s EXCEPT !.pc = "quit"]

-----------------------------------------------------------------------------
(* tsi/roundlifecycle.go, tsi/step.go *)

\* A result that the consensus manager still owes goes to a channel nobody
\* will read, which holds one.
Abandon(s) ==
    LET ch == IF s.cm.op = "decide" THEN s.precommitCh ELSE s.prevoteCh
    IN IF s.cm.op = "idle" THEN s.cm
       ELSE [s.cm EXCEPT !.stale = TRUE, !.room = ch \in {ChNil, ChEmpty}]

Reset(s, h, r) ==
    [s EXCEPT !.h = h, !.r = r, !.timer = "none", !.hc = TRUE,
              !.proposalCh = TRUE, !.prevoteCh = ChEmpty, !.precommitCh = ChEmpty,
              !.finalizeCh = TRUE, !.finalizing = NoFinalize, !.cm = Abandon(s)]

MarkCatchingUp(s) ==
    [s EXCEPT !.proposalCh = FALSE, !.prevoteCh = ChNil, !.precommitCh = ChNil]

Prevotes(v)   == v.votes["prevote"]
Precommits(v) == v.votes["precommit"]
HasMajority(proofs) == TotalPower(proofs) >= Majority
Agrees(proofs) == BlockPower(proofs, MostVotedHash(proofs)) >= Majority

GetStepFromVoteSummary(v) ==
    CASE HasMajority(Precommits(v))
           -> IF Agrees(Precommits(v)) THEN "commitWait" ELSE "precommitDelay"
      [] ~HasMajority(Precommits(v)) /\ TotalPower(Precommits(v)) >= Minority
           -> "awaitingPrecommits"
      [] TotalPower(Precommits(v)) < Minority /\ HasMajority(Prevotes(v))
           -> IF Agrees(Prevotes(v)) THEN "awaitingPrecommits" ELSE "prevoteDelay"
      [] OTHER -> "awaitingProposal"

rejectMismatchedProposedHeaders(phs) == {p \in phs : p.hash \in Matching}

-----------------------------------------------------------------------------
(* Requests to the consensus manager.  A strategy chooses among the headers  *)
(* it is shown and nil, and precommits what has a majority of prevotes, or   *)
(* nil.                                                                      *)

Request(s, op, choices, timed) ==
    [s EXCEPT !.pc = "send",
              !.req = [op |-> op, choices |-> choices, timed |-> timed]]

Headers(phs) == {Nil} \cup {p.hash : p \in rejectMismatchedProposedHeaders(phs)}

Decide(s, v) ==
    Request(s, "decide",
            {Nil} \cup {b \in Blocks : BlockPower(Prevotes(v), b) >= Majority}, FALSE)

-----------------------------------------------------------------------------
(* Moving to another round or height. *)

advanceRound(s) == [Reset(s, s.h, s.r + 1) EXCEPT !.pc = "save", !.init = FALSE]

advanceHeight(s) ==
    [Reset(s, s.h + 1, 0) EXCEPT !.pc = "save", !.init = FALSE, !.finalized = FALSE]

FinalizeRequest(s, v) ==
    [s EXCEPT !.finalizing =
        [h |-> v.h, r |-> v.r, hash |-> MostVotedHash(Precommits(v))]]

HasCommitted(v) == \E p \in v.phs : p.hash = MostVotedHash(Precommits(v))

beginCommit(s, v) ==
    LET s1 == [s EXCEPT !.step = "commitWait", !.timer = "commitWait"]
    IN IF HasCommitted(v) THEN FinalizeRequest(s1, v) ELSE s1

handleJumpAhead(s, v) ==
    IF v.h # s.h \/ v.r <= s.r THEN SMPanic(s)
    ELSE [advanceRound(s) EXCEPT !.lenient = TRUE]

\* Back to the main loop, with what handleViewUpdate has left to do.  Without
\* a view (IsReplaying) that is handleCatchupEvent, whose loop has no way out.
Run(s) ==
    IF s.jump.h = 0
    THEN [s EXCEPT !.pc = "run", !.catchup = @ \/ s.vrv.h = 0]
    ELSE handleJumpAhead([s EXCEPT !.pc = "run", !.jump = NoView], s.jump)

\* The view in s.entered becomes the round's first.  A caller that handles a
\* view update ignores that this fails (s.lenient); any other returns.
beginRoundLive(s) ==
    LET v    == s.entered
        step == GetStepFromVoteSummary(v)
        s1   == [s EXCEPT !.step = step, !.vrv = v]
        s2   == beginCommit(s, v)
    IN CASE step = "awaitingProposal" /\ rejectMismatchedProposedHeaders(v.phs) # {}
              -> Request([s1 EXCEPT !.timer = "proposal"], "consider", Headers(v.phs), FALSE)
         [] step = "awaitingProposal" /\ rejectMismatchedProposedHeaders(v.phs) = {}
              -> Run([s1 EXCEPT !.timer = "proposal"])
         [] step = "awaitingPrecommits" -> Decide(s1, v)
         [] step = "commitWait" /\ MostVotedHash(Precommits(v)) = Nil -> advanceRound(s)
         [] step = "commitWait" /\ MostVotedHash(Precommits(v)) # Nil
              -> IF HasCommitted(v) THEN Run([s2 EXCEPT !.vrv = v])
                 ELSE IF s.lenient THEN Run(s2) ELSE Quit(s2)
         [] step \in {"prevoteDelay", "precommitDelay"} -> SMPanic(s)

-----------------------------------------------------------------------------
(* View updates. *)

\* Precommits for one hash reached the majority.
FinishRound(s, v) ==
    IF MostVotedHash(Precommits(v)) = Nil
    THEN [advanceRound(s) EXCEPT !.lenient = TRUE]
    ELSE beginCommit(s, v)

handleProposalViewUpdate(s, v) ==
    LET old == rejectMismatchedProposedHeaders(s.vrv.phs)
        new == rejectMismatchedProposedHeaders(v.phs)
        s1  == [s EXCEPT !.timer = "none"]
    IN CASE HasMajority(Precommits(v)) /\ Agrees(Precommits(v)) -> FinishRound(s1, v)
         [] HasMajority(Precommits(v)) /\ ~Agrees(Precommits(v))
              -> Decide([s EXCEPT !.step = "precommitDelay", !.timer = "precommitDelay"], v)
         [] ~HasMajority(Precommits(v)) /\ TotalPower(Precommits(v)) >= Minority
              -> Decide([s1 EXCEPT !.step = "awaitingPrecommits"], v)
         [] TotalPower(Precommits(v)) < Minority /\ HasMajority(Prevotes(v))
              -> IF Agrees(Prevotes(v))
                 THEN Request([s1 EXCEPT !.step = "awaitingPrecommits"],
                              "choose", Headers(v.phs), TRUE)
                 ELSE LET s2 == [s EXCEPT !.step = "prevoteDelay", !.timer = "prevoteDelay"]
                      IN IF new = {} THEN s2
                         ELSE Request(s2, "consider", Headers(v.phs), TRUE)
         [] OTHER
              -> IF Cardinality(new) > Cardinality(old)
                 THEN Request(s, "consider", Headers(v.phs), TRUE) ELSE s

handlePrevoteViewUpdate(s, v) ==
    LET s1 == [s EXCEPT !.timer = "none"]
    IN CASE HasMajority(Precommits(v)) /\ Agrees(Precommits(v)) -> FinishRound(s1, v)
         [] HasMajority(Precommits(v)) /\ ~Agrees(Precommits(v))
              -> Decide([s EXCEPT !.step = "precommitDelay", !.timer = "precommitDelay"], v)
         [] ~HasMajority(Precommits(v)) /\ HasMajority(Prevotes(v))
              -> IF Agrees(Prevotes(v))
                 THEN Decide([s1 EXCEPT !.step = "awaitingPrecommits"], v)
                 ELSE [s EXCEPT !.step = "prevoteDelay", !.timer = "prevoteDelay"]
         [] OTHER -> s

\* Takes a majority of precommits for different hashes for a decision.
handlePrecommitViewUpdateUnagreed(s, v) ==
    IF HasMajority(Precommits(v)) THEN FinishRound([s EXCEPT !.timer = "none"], v)
    ELSE s

handlePrecommitViewUpdate(s, v) ==
    CASE HasMajority(Precommits(v)) /\ Agrees(Precommits(v))
           -> FinishRound([s EXCEPT !.timer = "none"], v)
      [] HasMajority(Precommits(v)) /\ ~Agrees(Precommits(v))
           -> IF TotalPower(Precommits(v)) = AvailablePower
              THEN [advanceRound(s) EXCEPT !.lenient = TRUE]
              ELSE [s EXCEPT !.step = "precommitDelay", !.timer = "precommitDelay"]
      [] OTHER -> s

handleCommitWaitViewUpdate(s, v) ==
    IF s.finalizeCh /\ ~HasCommitted(s.vrv) /\ HasCommitted(v)
    THEN FinalizeRequest(s, v) ELSE s

\* A view whose version does not increase makes the watchdog end the process.
handleViewUpdate(s, v, jump) ==
    LET s1 == CASE s.step = "awaitingProposal" -> handleProposalViewUpdate(s, v)
                [] s.step \in {"awaitingPrevotes", "prevoteDelay"}
                     -> handlePrevoteViewUpdate(s, v)
                [] s.step \in {"awaitingPrecommits", "precommitDelay"}
                     -> handlePrecommitViewUpdate(s, v)
                [] s.step \in {"commitWait", "awaitingFinalization"}
                     -> handleCommitWaitViewUpdate(s, v)
        s2 == [s1 EXCEPT !.jump = jump,
                         !.vrv = IF v.h = @.h /\ v.r = @.r THEN v ELSE @]
    IN IF v.h = 0 THEN handleJumpAhead(s, jump)
       ELSE IF v.h # s.h \/ v.r # s.r THEN s
       ELSE IF v.version <= s.vrv.version THEN SMPanic(s)
       ELSE IF s2.pc = "run" THEN Run(s2) ELSE s2

-----------------------------------------------------------------------------
(* The other events of the main loop. *)

\* Own proposal, prevote and precommit, once they are in the action store.
recordProposedHeader(s, ph) ==
    [s EXCEPT !.proposalCh = FALSE,
              !.acts = Append(@, [kind |-> "ph", ph |-> ph])]

SendVote(s, kind, hash) ==
    [s EXCEPT !.acts = Append(@, [kind |-> kind, hash |-> hash])]

recordPrevote(s) ==
    LET s1 == [SendVote(s, "prevote", s.prevoteCh) EXCEPT !.prevoteCh = ChNil]
    IN IF s.step = "awaitingProposal"
       THEN [s1 EXCEPT !.step = "awaitingPrevotes", !.timer = "none"] ELSE s1

recordPrecommit(s) ==
    [SendVote(s, "precommit", s.precommitCh) EXCEPT !.precommitCh = ChNil]

\* Once the finalization is in its store.
handleFinalization(s) ==
    LET s1 == [s EXCEPT !.finalized = TRUE, !.finalizeCh = FALSE,
                        !.finalizing = NoFinalize, !.lenient = FALSE]
    IN IF s.step = "awaitingFinalization" THEN advanceHeight(s1) ELSE s1

\* Does not wait for the driver.
EndCommitWaitUnfinalized(s) == advanceHeight(s)

\* The commit wait is over.
EndCommitWait(s) ==
    IF s.finalized THEN advanceHeight(s) ELSE [s EXCEPT !.step = "awaitingFinalization"]

\* Gives up the round when the proposal is late.
handleTimerElapsedGivesUp(s) ==
    LET s1 == [s EXCEPT !.timer = "none", !.lenient = FALSE]
    IN IF s.step = "commitWait" THEN EndCommitWait(s1) ELSE advanceRound(s1)

handleTimerElapsed(s) ==
    LET s1 == [s EXCEPT !.timer = "none", !.lenient = FALSE]
    IN CASE s.step = "awaitingProposal"
              -> Request([s1 EXCEPT !.step = "awaitingPrevotes"],
                         "choose", Headers(s.vrv.phs), FALSE)
         [] s.step = "prevoteDelay"
              -> Decide([s1 EXCEPT !.step = "awaitingPrecommits"], s.vrv)
         [] s.step = "precommitDelay" -> advanceRound(s1)
         [] s.step = "commitWait" -> EndCommitWait(s1)
         [] OTHER -> SMPanic(s)

handleHeightCommitted(s) ==
    LET s1 == [s EXCEPT !.hc = FALSE, !.timer = "none", !.lenient = FALSE]
    IN CASE s.step = "awaitingFinalization" -> s1
         [] s.step = "commitWait" -> EndCommitWait(s1)
         [] OTHER -> SMPanic(s)

\* Also after the prevote.
handleBlockDataArrivalLate(s, b) ==
    IF \E p \in rejectMismatchedProposedHeaders(s.vrv.phs) : p.hash = b
    THEN Request(s, "consider", Headers(s.vrv.phs), FALSE) ELSE s

handleBlockDataArrival(s, b) ==
    IF /\ s.prevoteCh # ChNil
       /\ \E p \in rejectMismatchedProposedHeaders(s.vrv.phs) : p.hash = b
    THEN Request(s, "consider", Headers(s.vrv.phs), FALSE) ELSE s

-----------------------------------------------------------------------------
(* tsi/consensusmanager.go *)

\* The consensus manager takes the request from its unbuffered channel.
TakeRequest(s) ==
    LET s1 == [s EXCEPT !.req = NoRequest,
                        !.cm = [IdleManager EXCEPT !.op = s.req.op,
                                                   !.choices = s.req.choices]]
    IN IF s.req.op = "enter" THEN [s1 EXCEPT !.pc = "wait"] ELSE Run(s1)

\* The strategy's answer goes to the channel of the round that asked for it.
ResultRoom(s) ==
    IF s.cm.stale THEN s.cm.room
    ELSE IF s.cm.op = "decide" THEN s.precommitCh \in {ChNil, ChEmpty}
    ELSE s.prevoteCh \in {ChNil, ChEmpty}

SendResult(s, hash) ==
    LET s1 == [s EXCEPT !.cm = IdleManager]
    IN IF s.cm.stale THEN s1
       ELSE IF s.cm.op = "decide"
       THEN [s1 EXCEPT !.precommitCh = IF @ = ChNil THEN @ ELSE hash]
       ELSE [s1 EXCEPT !.prevoteCh = IF @ = ChNil THEN @ ELSE hash]
=============================================================================
