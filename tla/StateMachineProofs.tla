-------------------------- MODULE StateMachineProofs --------------------------
(***************************************************************************)
(* The operators of the state machine keep its round lifecycle in order:   *)
(* the timer is the one of the step, a request to the consensus manager    *)
(* has a channel for its answer, and a height is left only when it is      *)
(* finalized.                                                              *)
(*                                                                         *)
(* Which step allows which timer, channel and outstanding request depends  *)
(* on how the round was entered, so the invariant Ordered has one part per *)
(* program counter; it is an invariant of the record of the state machine  *)
(* alone.  Module EngineProofs uses it in the engine.                      *)
(***************************************************************************)
EXTENDS Engine, MirrorProofs

-----------------------------------------------------------------------------
(* Types. *)

PCs    == {"start", "save", "enter", "send", "wait", "run", "quit", "panic", "down"}
Steps  == {"invalid", "awaitingProposal", "awaitingPrevotes", "prevoteDelay",
           "awaitingPrecommits", "precommitDelay", "commitWait", "awaitingFinalization"}
Timers == {"none", "proposal", "prevoteDelay", "precommitDelay", "commitWait"}
Answer == Hashes \cup {ChEmpty, ChNil}
Asked  == {"consider", "choose", "decide"}

SeenView == [h : Nat, r : Nat, version : Nat, phs : SUBSET HeldPH,
             votes : [Kinds -> Proofs], prev : [r : Nat, proofs : Proofs]]
Action == [kind : {"ph"}, ph : Proposal] \cup [kind : Kinds, hash : Hashes]

\* The state machine's record.
Life ==
    [pc : PCs, genesis : BOOLEAN, init : BOOLEAN, lenient : BOOLEAN, catchup : BOOLEAN,
     h : Nat, r : Nat, step : Steps, timer : Timers, hc : BOOLEAN,
     vrv : SeenView, entered : SeenView, jump : SeenView,
     proposalCh : BOOLEAN, prevoteCh : Answer, precommitCh : Answer,
     finalizeCh : BOOLEAN, finalizing : [h : Nat, r : Nat, hash : Hashes],
     finalized : BOOLEAN,
     req : [op : Asked \cup {"none", "enter"}, choices : SUBSET Hashes, timed : BOOLEAN],
     cm : [op : Asked \cup {"idle", "enter"}, choices : SUBSET Hashes,
           stale : BOOLEAN, room : BOOLEAN],
     acts : Seq(Action)]

-----------------------------------------------------------------------------
(* The invariant. *)

\* Places: v is before s, not after it, at it.
Before(v, s)   == v.h < s.h \/ (v.h = s.h /\ v.r < s.r)
NotAfter(v, s) == v.h < s.h \/ (v.h = s.h /\ v.r <= s.r)
At(v, s)       == v.h = s.h /\ v.r = s.r

\* The consensus manager owes the current round nothing.
Unanswered(s) == s.cm.op \in {"idle", "enter"} \/ s.cm.stale

\* A round that has been reset and not yet begun.
Fresh(s) ==
    /\ s.prevoteCh = ChEmpty /\ s.precommitCh = ChEmpty
    /\ s.timer = "none"
    /\ Unanswered(s)

\* The steps in which a precommit may have been asked for.
Late == {"awaitingPrecommits", "precommitDelay", "commitWait", "awaitingFinalization"}

\* A round whose step, timer and channels fit.
InStep(s) ==
    /\ s.step # "invalid"
    /\ s.step = "awaitingProposal" => s.timer = "proposal" /\ s.prevoteCh # ChNil
    /\ s.step \in {"prevoteDelay", "precommitDelay"} => s.timer = s.step
    /\ s.step \in {"awaitingPrevotes", "awaitingPrecommits", "awaitingFinalization"}
         => s.timer = "none"
    /\ s.step \notin Late => /\ s.precommitCh = ChEmpty
                             /\ Unanswered(s) \/ s.cm.op # "decide"
                             /\ s.req.op # "decide"

\* A round that the mirror has answered with a committed header: the step is
\* still that of an earlier round.
Replaying(s) ==
    /\ s.prevoteCh = ChNil /\ s.precommitCh = ChNil
    /\ s.timer = "none" /\ Before(s.vrv, s)

\* A request that expects a hash has a channel for it.
Requested(s) ==
    /\ s.req.op \in {"consider", "choose"} => s.prevoteCh # ChNil
    /\ s.req.op = "decide" => s.precommitCh # ChNil

\* What is to be finalized is a block.
Committable(s) == s.finalizing.h # 0 => s.finalizing.hash # Nil

Ordered(s) ==
    /\ Requested(s) /\ Committable(s) /\ NotAfter(s.vrv, s)
    /\ s.pc \in {"save", "enter"} =>
         Fresh(s) /\ Before(s.vrv, s) /\ s.req.op = "none" /\ (s.init => s.vrv.h = 0)
    /\ s.pc = "wait" => Fresh(s) /\ At(s.entered, s) /\ s.req.op = "none"
    /\ s.pc = "send" => \/ s.req.op = "enter" /\ Fresh(s) /\ At(s.entered, s)
                        \/ s.req.op \in Asked /\ InStep(s)
    /\ s.pc = "run" => s.req.op = "none" /\ (s.catchup \/ InStep(s) \/ Replaying(s))
    /\ s.pc = "save" => ~s.init
    /\ s.pc = "start" => s = NewStateMachine(s.genesis)

\* s is in a round and at work on it, perhaps between two steps.
Working(s) == s \in Life /\ s.req.op = "none" /\ Committable(s) /\ NotAfter(s.vrv, s)

\* x is s in the same round, in order, or one that has just left it: for the
\* next round, or for the next height if this one is finalized.
Moved(s, x) ==
    /\ x \in Life /\ Ordered(x)
    /\ \/ /\ x.h = s.h /\ x.r = s.r /\ (x.finalized <=> s.finalized)
          /\ x.pc \in {"run", "send", "quit", "panic"}
       \/ /\ x.h = s.h /\ x.r = s.r + 1 /\ (x.finalized <=> s.finalized)
          /\ x.pc = "save"
       \/ /\ x.h = s.h + 1 /\ x.r = 0 /\ s.finalized /\ ~x.finalized
          /\ x.pc = "save"

\* So moved, and not in the round of a committed header.
Settled(s, x) == Moved(s, x) /\ (x.pc = "run" => x.catchup \/ InStep(x))

-----------------------------------------------------------------------------
(* Leaving a round. *)

\* The model's numbers for a nil and an empty channel are no hashes.
LEMMA ChannelStates ==
    /\ ChNil \notin Hashes /\ ChEmpty \notin Hashes /\ ChNil # ChEmpty
    /\ ChNil \in Answer /\ ChEmpty \in Answer
  BY BlocksAssumption DEF ChNil, ChEmpty, Hashes, Blocks, Nil, Answer

\* What the state machine reads of a view is a view to it.
LEMMA SeenType ==
    ASSUME NEW v \in View
    PROVE  Seen(v) \in SeenView /\ Seen(v).h = v.h /\ Seen(v).r = v.r
  BY DEF Seen, View, SeenView

\* No view is a view, before every height.
LEMMA NoViewType == NoView \in SeenView /\ NoView.h = 0 /\ NoView.r = 0
  BY ZeroViewType, SeenType DEF NoView, ZeroView

\* An abandoned request is answered to nobody.
LEMMA AbandonType ==
    ASSUME NEW s \in Life
    PROVE  /\ Abandon(s) \in [op : Asked \cup {"idle", "enter"}, choices : SUBSET Hashes,
                              stale : BOOLEAN, room : BOOLEAN]
           /\ Abandon(s).op = "idle" \/ Abandon(s).stale
  <1> DEFINE b == (IF s.cm.op = "decide" THEN s.precommitCh ELSE s.prevoteCh)
                    \in {ChNil, ChEmpty}
  <1>1. b \in BOOLEAN
    OBVIOUS
  <1>2. Abandon(s) = IF s.cm.op = "idle" THEN s.cm
                     ELSE [s.cm EXCEPT !.stale = TRUE, !.room = b]
    BY DEF Abandon
  <1> HIDE DEF b
  <1> QED BY <1>1, <1>2 DEF Life

\* Reset prepares a fresh round.
LEMMA ResetFresh ==
    ASSUME NEW s \in Life, NEW h \in Nat, NEW r \in Nat,
           NEW y, y = Reset(s, h, r)
    PROVE  /\ y \in Life /\ Fresh(y) /\ y.h = h /\ y.r = r /\ Committable(y)
           /\ y.pc = s.pc /\ y.init = s.init /\ y.lenient = s.lenient
           /\ y.vrv = s.vrv /\ y.req = s.req /\ y.finalized = s.finalized
           /\ y.catchup = s.catchup
  <1> DEFINE cm == Abandon(s)
             x == [s EXCEPT !.h = h, !.r = r, !.timer = "none", !.hc = TRUE,
                     !.proposalCh = TRUE, !.prevoteCh = ChEmpty, !.precommitCh = ChEmpty,
                     !.finalizeCh = TRUE, !.finalizing = NoFinalize, !.cm = cm]
  <1>1. /\ cm \in [op : Asked \cup {"idle", "enter"}, choices : SUBSET Hashes,
                   stale : BOOLEAN, room : BOOLEAN]
        /\ cm.op = "idle" \/ cm.stale
    BY AbandonType
  <1>2. x = y
    BY DEF Reset
  <1> HIDE DEF cm
  <1>3. NoFinalize \in [h : Nat, r : Nat, hash : Hashes] /\ NoFinalize.h = 0
    BY NilIsHash DEF NoFinalize
  <1>4. /\ x.h = h /\ x.r = r /\ x.prevoteCh = ChEmpty /\ x.precommitCh = ChEmpty
        /\ x.timer = "none" /\ x.cm = cm /\ x.finalizing = NoFinalize
        /\ x.pc = s.pc /\ x.init = s.init /\ x.lenient = s.lenient
        /\ x.vrv = s.vrv /\ x.req = s.req /\ x.finalized = s.finalized
        /\ x.catchup = s.catchup
    BY DEF Life
  <1>5. x \in Life
    BY <1>1, <1>3, ChannelStates DEF Life, Timers
  <1> HIDE DEF x
  <1> QED BY <1>1, <1>2, <1>3, <1>4, <1>5 DEF Fresh, Unanswered, Committable

\* advanceRound leaves for the next round.
LEMMA advanceRoundSettled ==
    ASSUME NEW s \in Life, NotAfter(s.vrv, s), s.req.op = "none"
    PROVE  /\ Settled(s, advanceRound(s))
           /\ Settled(s, [advanceRound(s) EXCEPT !.lenient = TRUE])
  <1> DEFINE h == s.h
             r == s.r + 1
             y == Reset(s, h, r)
  <1>y. y = Reset(s, h, r)
    OBVIOUS
  <1>1. s.h \in Nat /\ s.r \in Nat /\ s.r + 1 \in Nat /\ s.vrv.h \in Nat /\ s.vrv.r \in Nat
    BY DEF Life, SeenView
  <1>2. /\ y \in Life /\ Fresh(y) /\ y.h = s.h /\ y.r = s.r + 1 /\ Committable(y)
        /\ y.vrv = s.vrv /\ y.req = s.req /\ y.finalized = s.finalized
    <2>1. h \in Nat /\ r \in Nat
      BY <1>1
    <2> HIDE DEF y, h, r
    <2>2. /\ y \in Life /\ Fresh(y) /\ y.h = h /\ y.r = r /\ Committable(y)
          /\ y.vrv = s.vrv /\ y.req = s.req /\ y.finalized = s.finalized
      BY <2>1, <1>y, ResetFresh
    <2> QED BY <2>2 DEF h, r
  <1>3. advanceRound(s) = [y EXCEPT !.pc = "save", !.init = FALSE]
    BY DEF advanceRound
  <1> HIDE DEF y
  <1>4. ASSUME NEW l \in BOOLEAN,
               NEW x, x = [y EXCEPT !.pc = "save", !.init = FALSE, !.lenient = l]
        PROVE  Settled(s, x)
    <2>a. /\ x.pc = "save" /\ ~x.init /\ x.h = y.h /\ x.r = y.r
          /\ x.vrv = y.vrv /\ x.req = y.req /\ x.finalized = y.finalized
          /\ x.prevoteCh = y.prevoteCh /\ x.precommitCh = y.precommitCh
          /\ x.timer = y.timer /\ x.cm = y.cm /\ x.finalizing = y.finalizing
      BY <1>2, <1>4 DEF Life
    <2>b. x \in Life
      BY <1>2, <1>4 DEF Life, PCs
    <2>1. /\ x \in Life /\ x.pc = "save" /\ ~x.init /\ x.h = s.h /\ x.r = s.r + 1
          /\ x.vrv = s.vrv /\ x.req = s.req /\ (x.finalized <=> s.finalized)
      BY <2>a, <2>b, <1>2
    <2>2. Fresh(x) /\ Committable(x)
      BY <1>2, <2>a DEF Fresh, Unanswered, Committable
    <2>3. Before(x.vrv, x) /\ NotAfter(x.vrv, x)
      BY <1>1, <2>1 DEF Before, NotAfter
    <2> QED BY <2>1, <2>2, <2>3 DEF Settled, Moved, Ordered, Requested
  <1>5. /\ [y EXCEPT !.pc = "save", !.init = FALSE]
             = [y EXCEPT !.pc = "save", !.init = FALSE, !.lenient = y.lenient]
        /\ y.lenient \in BOOLEAN
    BY <1>2 DEF Life
  <1>6. [[y EXCEPT !.pc = "save", !.init = FALSE] EXCEPT !.lenient = TRUE]
           = [y EXCEPT !.pc = "save", !.init = FALSE, !.lenient = TRUE]
    BY <1>2 DEF Life
  <1> QED BY <1>3, <1>4, <1>5, <1>6

\* advanceHeight leaves for the next height; it is called when this one is
\* finalized.
LEMMA advanceHeightSettled ==
    ASSUME NEW s \in Life, NotAfter(s.vrv, s), s.req.op = "none", s.finalized
    PROVE  Settled(s, advanceHeight(s))
  <1> DEFINE h == s.h + 1
             r == 0
             y == Reset(s, h, r)
             x == [y EXCEPT !.pc = "save", !.init = FALSE, !.finalized = FALSE]
  <1>y. y = Reset(s, h, r)
    OBVIOUS
  <1>1. s.h \in Nat /\ s.r \in Nat /\ s.h + 1 \in Nat /\ s.vrv.h \in Nat /\ s.vrv.r \in Nat
    BY DEF Life, SeenView
  <1>2. /\ y \in Life /\ Fresh(y) /\ y.h = s.h + 1 /\ y.r = 0 /\ Committable(y)
        /\ y.vrv = s.vrv /\ y.req = s.req
    <2>1. h \in Nat /\ r \in Nat
      BY <1>1
    <2> HIDE DEF y, h, r
    <2>2. /\ y \in Life /\ Fresh(y) /\ y.h = h /\ y.r = r /\ Committable(y)
          /\ y.vrv = s.vrv /\ y.req = s.req
      BY <2>1, <1>y, ResetFresh
    <2> QED BY <2>2 DEF h, r
  <1>3. advanceHeight(s) = x
    BY DEF advanceHeight
  <1> HIDE DEF y
  <1>a. /\ x.pc = "save" /\ ~x.init /\ x.h = y.h /\ x.r = y.r
        /\ x.vrv = y.vrv /\ x.req = y.req /\ ~x.finalized
        /\ x.prevoteCh = y.prevoteCh /\ x.precommitCh = y.precommitCh
        /\ x.timer = y.timer /\ x.cm = y.cm /\ x.finalizing = y.finalizing
    BY <1>2 DEF Life
  <1>4. x \in Life
    BY <1>2 DEF Life, PCs
  <1> HIDE DEF x
  <1>5. Fresh(x) /\ Committable(x)
    BY <1>2, <1>a DEF Fresh, Unanswered, Committable
  <1>6. Before(x.vrv, x) /\ NotAfter(x.vrv, x)
    BY <1>1, <1>2, <1>a DEF Before, NotAfter
  <1>7. Settled(s, x)
    BY <1>2, <1>a, <1>4, <1>5, <1>6 DEF Settled, Moved, Ordered, Requested
  <1> QED BY <1>3, <1>7

\* A panic leaves the round as it is.
LEMMA SMPanicSettled ==
    ASSUME NEW s \in Life, Requested(s), Committable(s), NotAfter(s.vrv, s)
    PROVE  Settled(s, SMPanic(s)) /\ Settled(s, Quit(s))
  <1>1. ASSUME NEW pc \in {"panic", "quit"}, NEW x, x = [s EXCEPT !.pc = pc]
        PROVE  Settled(s, x)
    <2>1. /\ x.pc = pc /\ x.h = s.h /\ x.r = s.r /\ x.finalized = s.finalized
          /\ x.req = s.req /\ x.prevoteCh = s.prevoteCh /\ x.precommitCh = s.precommitCh
          /\ x.finalizing = s.finalizing /\ x.vrv = s.vrv
      BY <1>1 DEF Life
    <2>2. x \in Life
      BY <1>1 DEF Life, PCs
    <2> QED
      BY <2>1, <2>2
         DEF Settled, Moved, Ordered, Requested, Committable, NotAfter
  <1> QED BY <1>1 DEF SMPanic, Quit

-----------------------------------------------------------------------------
(* Requests to the consensus manager. *)

\* A request that has its channel leaves the round in order.
LEMMA RequestSettled ==
    ASSUME NEW s, Working(s), InStep(s), NEW op \in Asked,
           NEW choices \in SUBSET Hashes, NEW timed \in BOOLEAN,
           op = "decide" => s.step \in Late /\ s.precommitCh # ChNil,
           op # "decide" => s.prevoteCh # ChNil,
           NEW x, x = Request(s, op, choices, timed)
    PROVE  Settled(s, x)
  <1> DEFINE q == [op |-> op, choices |-> choices, timed |-> timed]
  <1>0. s \in Life
    BY DEF Working
  <1>1. x = [s EXCEPT !.pc = "send", !.req = q]
    BY DEF Request
  <1>2. /\ q \in [op : Asked \cup {"none", "enter"}, choices : SUBSET Hashes, timed : BOOLEAN]
        /\ q.op = op
    OBVIOUS
  <1> HIDE DEF q
  <1>3. /\ x.pc = "send" /\ x.req = q /\ x.h = s.h /\ x.r = s.r
        /\ x.finalized = s.finalized /\ x.prevoteCh = s.prevoteCh
        /\ x.precommitCh = s.precommitCh /\ x.finalizing = s.finalizing
        /\ x.vrv = s.vrv /\ x.step = s.step /\ x.timer = s.timer /\ x.cm = s.cm
    BY <1>0, <1>1 DEF Life
  <1>4. x \in Life
    BY <1>0, <1>1, <1>2 DEF Life, PCs
  <1>5. InStep(x)
    BY <1>2, <1>3 DEF InStep, Unanswered
  <1>6. Requested(x) /\ Committable(x) /\ NotAfter(x.vrv, x)
    BY <1>2, <1>3 DEF Requested, Working, Committable, NotAfter, Asked
  <1> QED BY <1>2, <1>3, <1>4, <1>5, <1>6 DEF Settled, Moved, Ordered

\* The headers that the strategy is shown have hashes.
LEMMA HeadersType ==
    ASSUME NEW v \in SeenView PROVE Headers(v.phs) \in SUBSET Hashes
  BY NilIsHash, BlocksAreHashes DEF Headers, rejectMismatchedProposedHeaders, SeenView, HeldPH

\* Asking for a precommit in a step that expects one leaves the round in order.
LEMMA DecideSettled ==
    ASSUME NEW s, Working(s), InStep(s), s.step \in Late, s.precommitCh # ChNil,
           NEW v, NEW x, x = Decide(s, v)
    PROVE  Settled(s, x)
  <1> DEFINE choices == {Nil} \cup {b \in Blocks : BlockPower(Prevotes(v), b) >= Majority}
  <1>1. choices \in SUBSET Hashes
    BY NilIsHash, BlocksAreHashes
  <1>2. x = Request(s, "decide", choices, FALSE)
    BY DEF Decide
  <1> HIDE DEF choices
  <1> QED BY <1>1, <1>2, RequestSettled DEF Asked

-----------------------------------------------------------------------------
(* Back to the main loop. *)

\* Working states that differ in what the invariant does not read settle alike.
LEMMA SettledSame ==
    ASSUME NEW s, NEW y, NEW x, Settled(y, x),
           y.h = s.h, y.r = s.r, y.finalized = s.finalized
    PROVE  Settled(s, x)
  BY DEF Settled, Moved

\* handleJumpAhead panics or leaves for the next round.
LEMMA handleJumpAheadSettled ==
    ASSUME NEW s, Working(s), NEW v
    PROVE  /\ Settled(s, handleJumpAhead(s, v))
           /\ handleJumpAhead(s, v).pc \in {"panic", "save"}
  <1>1. s \in Life /\ s.req.op = "none" /\ Requested(s) /\ Committable(s) /\ NotAfter(s.vrv, s)
    BY DEF Working, Requested
  <1>2. Settled(s, SMPanic(s)) /\ Settled(s, [advanceRound(s) EXCEPT !.lenient = TRUE])
    BY <1>1, SMPanicSettled, advanceRoundSettled
  <1>3. SMPanic(s).pc = "panic"
    BY <1>1 DEF SMPanic, Life
  <1>4. [advanceRound(s) EXCEPT !.lenient = TRUE].pc = "save"
    BY DEF advanceRound, Reset
  <1> QED BY <1>2, <1>3, <1>4 DEF handleJumpAhead

\* Back in the main loop the round is in order.
LEMMA RunSettled ==
    ASSUME NEW s, Working(s), s.catchup \/ InStep(s), NEW x, x = Run(s)
    PROVE  Settled(s, x)
  <1>0. s \in Life /\ s.req.op = "none" /\ Committable(s) /\ NotAfter(s.vrv, s)
    BY DEF Working
  <1>1. CASE s.jump.h = 0
    <2> DEFINE c == s.catchup \/ s.vrv.h = 0
    <2>1. x = [s EXCEPT !.pc = "run", !.catchup = c]
      BY <1>0, <1>1 DEF Run, Life
    <2>2. c \in BOOLEAN /\ (s.catchup => c)
      BY <1>0 DEF Life
    <2> HIDE DEF c
    <2>3. /\ x.pc = "run" /\ x.catchup = c /\ x.req = s.req /\ x.h = s.h /\ x.r = s.r
          /\ x.finalized = s.finalized /\ x.prevoteCh = s.prevoteCh
          /\ x.precommitCh = s.precommitCh /\ x.finalizing = s.finalizing
          /\ x.vrv = s.vrv /\ x.step = s.step /\ x.timer = s.timer /\ x.cm = s.cm
      BY <1>0, <2>1 DEF Life
    <2>4. x \in Life
      BY <1>0, <2>1, <2>2 DEF Life, PCs
    <2>5. x.catchup \/ InStep(x)
      <3>1. CASE s.catchup
        BY <3>1, <2>2, <2>3
      <3>2. CASE InStep(s)
        BY <3>2, <2>3 DEF InStep, Unanswered
      <3> QED BY <3>1, <3>2
    <2>6. Requested(x) /\ Committable(x) /\ NotAfter(x.vrv, x) /\ x.req.op = "none"
      BY <1>0, <2>3 DEF Requested, Committable, NotAfter
    <2> QED BY <2>3, <2>4, <2>5, <2>6 DEF Settled, Moved, Ordered
  <1>2. CASE s.jump.h # 0
    <2> DEFINE y == [s EXCEPT !.pc = "run", !.jump = NoView]
    <2>1. x = handleJumpAhead(y, s.jump)
      BY <1>2 DEF Run
    <2>2. /\ y.h = s.h /\ y.r = s.r /\ y.finalized = s.finalized /\ y.req = s.req
          /\ y.finalizing = s.finalizing /\ y.vrv = s.vrv
      BY <1>0 DEF Life
    <2>3. y \in Life
      BY <1>0, NoViewType DEF Life, PCs
    <2> HIDE DEF y
    <2>4. Working(y)
      BY <1>0, <2>2, <2>3 DEF Working, Committable, NotAfter
    <2>5. Settled(y, x)
      BY <2>1, <2>4, handleJumpAheadSettled
    <2> QED BY <2>2, <2>5, SettledSame
  <1> QED BY <1>1, <1>2

\* A finalize request is for a block: FinalizeRequest is called with a view
\* that holds the header of the most voted hash.
LEMMA FinalizeRequestWorking ==
    ASSUME NEW s, Working(s), NEW v \in SeenView, HasCommitted(v),
           NEW x, x = FinalizeRequest(s, v)
    PROVE  /\ Working(x) /\ x.finalizing \in [h : Nat, r : Nat, hash : Hashes]
           /\ x = [s EXCEPT !.finalizing = x.finalizing]
           /\ Committable(x)
  <1> DEFINE f == [h |-> v.h, r |-> v.r, hash |-> MostVotedHash(Precommits(v))]
  <1>0. s \in Life /\ s.req.op = "none" /\ NotAfter(s.vrv, s)
    BY DEF Working
  <1>1. f.hash \in Blocks
    BY DEF HasCommitted, SeenView, HeldPH
  <1>2. f \in [h : Nat, r : Nat, hash : Hashes] /\ f.hash # Nil
    <2>1. f.hash \in Hashes /\ f.hash # Nil
      BY <1>1, BlocksAreHashes, BlocksAssumption DEF Blocks, Nil
    <2>2. v.h \in Nat /\ v.r \in Nat
      BY DEF SeenView
    <2> QED BY <2>1, <2>2
  <1>3. x = [s EXCEPT !.finalizing = f]
    BY DEF FinalizeRequest
  <1> HIDE DEF f
  <1>4. /\ x.finalizing = f /\ x.req = s.req /\ x.vrv = s.vrv /\ x.h = s.h /\ x.r = s.r
    BY <1>0, <1>3 DEF Life
  <1>5. x \in Life
    BY <1>0, <1>2, <1>3 DEF Life
  <1> QED BY <1>0, <1>2, <1>3, <1>4, <1>5 DEF Working, Committable, NotAfter

\* In the commit wait a round is in order whatever it held before.
LEMMA CommitWaitInStep ==
    ASSUME NEW s, s.step = "commitWait" PROVE InStep(s)
  BY DEF InStep, Late

\* beginCommit starts the commit wait.
LEMMA beginCommitWorking ==
    ASSUME NEW s, Working(s), NEW v \in SeenView, NEW x, x = beginCommit(s, v)
    PROVE  /\ Working(x) /\ InStep(x) /\ x.step = "commitWait"
           /\ x.pc = s.pc /\ x.h = s.h /\ x.r = s.r /\ x.finalized = s.finalized
           /\ x.vrv = s.vrv /\ x.catchup = s.catchup
  <1> DEFINE y == [s EXCEPT !.step = "commitWait", !.timer = "commitWait"]
  <1>0. s \in Life /\ s.req.op = "none" /\ Committable(s) /\ NotAfter(s.vrv, s)
    BY DEF Working
  <1>1. x = IF HasCommitted(v) THEN FinalizeRequest(y, v) ELSE y
    BY DEF beginCommit
  <1>2. /\ y.step = "commitWait" /\ y.pc = s.pc /\ y.h = s.h /\ y.r = s.r
        /\ y.finalized = s.finalized /\ y.vrv = s.vrv /\ y.req = s.req
        /\ y.catchup = s.catchup /\ y.finalizing = s.finalizing
    BY <1>0 DEF Life
  <1>3. y \in Life
    BY <1>0 DEF Life, Steps, Timers
  <1> HIDE DEF y
  <1>4. Working(y)
    BY <1>0, <1>2, <1>3 DEF Working, Committable, NotAfter
  <1>5. CASE HasCommitted(v)
    <2>1. Working(x) /\ x = [y EXCEPT !.finalizing = x.finalizing]
      BY <1>1, <1>4, <1>5, FinalizeRequestWorking
    <2>2. /\ x.step = y.step /\ x.pc = y.pc /\ x.h = y.h /\ x.r = y.r
          /\ x.finalized = y.finalized /\ x.vrv = y.vrv /\ x.catchup = y.catchup
      BY <2>1, <1>3 DEF Life
    <2> QED BY <2>1, <2>2, <1>2, CommitWaitInStep
  <1>6. CASE ~HasCommitted(v)
    BY <1>1, <1>2, <1>4, <1>6, CommitWaitInStep
  <1> QED BY <1>5, <1>6

\* x is s with another step, timer and view.
Restepped(s, x, step, timer, v) ==
    /\ x \in Life /\ x.step = step /\ x.timer = timer /\ x.vrv = v
    /\ x.h = s.h /\ x.r = s.r /\ x.finalized = s.finalized
    /\ x.req = s.req /\ x.cm = s.cm /\ x.finalizing = s.finalizing
    /\ x.prevoteCh = s.prevoteCh /\ x.precommitCh = s.precommitCh
    /\ x.pc = s.pc /\ x.catchup = s.catchup

\* A step that starts a round the mirror answered with a view: the step, the
\* timer and the view are set, the channels are those of a fresh round.
LEMMA FreshInStep ==
    ASSUME NEW s, Working(s), Fresh(s), NEW v \in SeenView, At(v, s),
           NEW step \in {"awaitingProposal", "awaitingPrecommits"},
           NEW timer, timer = IF step = "awaitingProposal" THEN "proposal" ELSE "none",
           NEW x, Restepped(s, x, step, timer, v)
    PROVE  /\ Working(x) /\ InStep(x) /\ x.step = step
           /\ x.prevoteCh = ChEmpty /\ x.precommitCh = ChEmpty
           /\ x.h = s.h /\ x.r = s.r /\ x.finalized = s.finalized
  <1>0. s \in Life /\ s.req.op = "none" /\ Committable(s)
    BY DEF Working
  <1>3. NotAfter(x.vrv, x)
    <2>1. v.h \in Nat /\ v.r \in Nat
      BY DEF SeenView
    <2> QED BY <2>1 DEF At, NotAfter, Restepped
  <1>4. Working(x)
    BY <1>0, <1>3 DEF Working, Committable, Restepped
  <1>5. InStep(x)
    BY <1>0, ChannelStates DEF InStep, Fresh, Unanswered, Restepped
  <1> QED BY <1>4, <1>5 DEF Fresh, Restepped

\* The step that a view calls for.
LEMMA StepType ==
    ASSUME NEW v
    PROVE  GetStepFromVoteSummary(v)
             \in {"awaitingProposal", "awaitingPrecommits", "commitWait",
                  "prevoteDelay", "precommitDelay"}
  BY DEF GetStepFromVoteSummary

\* beginRoundLive leaves the round in order, or leaves it.
LEMMA beginRoundLiveSettled ==
    ASSUME NEW s, Working(s), Fresh(s), At(s.entered, s), NEW x, x = beginRoundLive(s)
    PROVE  Settled(s, x)
  <1> DEFINE v    == s.entered
             step == GetStepFromVoteSummary(v)
             s1   == [s EXCEPT !.step = step, !.vrv = v]
             p1   == [s1 EXCEPT !.timer = "proposal"]
             s2   == beginCommit(s, v)
             c2   == [s2 EXCEPT !.vrv = v]
             hash == MostVotedHash(Precommits(v))
             some == rejectMismatchedProposedHeaders(v.phs) # {}
  <1>0. /\ s \in Life /\ s.req.op = "none" /\ Committable(s) /\ NotAfter(s.vrv, s)
        /\ v \in SeenView /\ v.h \in Nat /\ v.r \in Nat /\ At(v, s)
        /\ Requested(s) /\ s.timer = "none"
    BY DEF Working, Life, SeenView, Requested, Fresh
  <1>1. step \in {"awaitingProposal", "awaitingPrecommits", "commitWait",
                  "prevoteDelay", "precommitDelay"}
    BY StepType
  <1>2. x = CASE step = "awaitingProposal" /\ some
                   -> Request(p1, "consider", Headers(v.phs), FALSE)
              [] step = "awaitingProposal" /\ ~some -> Run(p1)
              [] step = "awaitingPrecommits" -> Decide(s1, v)
              [] step = "commitWait" /\ hash = Nil -> advanceRound(s)
              [] step = "commitWait" /\ hash # Nil
                   -> IF HasCommitted(v) THEN Run(c2)
                      ELSE IF s.lenient THEN Run(s2) ELSE Quit(s2)
              [] step \in {"prevoteDelay", "precommitDelay"} -> SMPanic(s)
    BY DEF beginRoundLive
  <1>3. step = "awaitingProposal"
          => Restepped(s, p1, "awaitingProposal", "proposal", v)
    BY <1>0 DEF Life, Steps, Timers, Restepped
  <1>4. step = "awaitingPrecommits"
          => Restepped(s, s1, "awaitingPrecommits", "none", v)
    BY <1>0 DEF Life, Steps, Timers, Restepped
  <1>c. s2 = beginCommit(s, v)
    OBVIOUS
  <1> HIDE DEF v, step, s1, p1, s2, hash, some
  <1>5. CASE step = "awaitingProposal"
    <2>1. /\ Working(p1) /\ InStep(p1) /\ p1.prevoteCh = ChEmpty
          /\ p1.h = s.h /\ p1.r = s.r /\ p1.finalized = s.finalized
      BY <1>0, <1>3, <1>5, FreshInStep
    <2>2. p1.prevoteCh # ChNil /\ Headers(v.phs) \in SUBSET Hashes
      BY <2>1, <1>0, ChannelStates, HeadersType
    <2>3. Settled(p1, Request(p1, "consider", Headers(v.phs), FALSE))
      BY <2>1, <2>2, RequestSettled DEF Asked
    <2>4. Settled(p1, Run(p1))
      BY <2>1, RunSettled
    <2>5. x = Request(p1, "consider", Headers(v.phs), FALSE) \/ x = Run(p1)
      BY <1>2, <1>5
    <2> QED BY <2>1, <2>3, <2>4, <2>5, SettledSame
  <1>6. CASE step = "awaitingPrecommits"
    <2>1. /\ Working(s1) /\ InStep(s1) /\ s1.precommitCh = ChEmpty
          /\ s1.step = "awaitingPrecommits"
          /\ s1.h = s.h /\ s1.r = s.r /\ s1.finalized = s.finalized
      BY <1>0, <1>4, <1>6, FreshInStep
    <2>2. s1.precommitCh # ChNil /\ s1.step \in Late
      BY <2>1, ChannelStates DEF Late
    <2>3. Settled(s1, Decide(s1, v))
      BY <2>1, <2>2, DecideSettled
    <2>4. x = Decide(s1, v)
      BY <1>2, <1>6
    <2> QED BY <2>1, <2>3, <2>4, SettledSame
  <1>7. CASE step = "commitWait"
    <2>1. /\ Working(s2) /\ InStep(s2) /\ s2.step = "commitWait"
          /\ s2.h = s.h /\ s2.r = s.r /\ s2.finalized = s.finalized
          /\ s2.vrv = s.vrv
      BY <1>0, <1>c, beginCommitWorking
    <2>2. /\ s2 \in Life /\ Requested(s2) /\ Committable(s2) /\ NotAfter(s2.vrv, s2)
          /\ s2.req.op = "none"
      BY <2>1 DEF Working, Requested
    <2>3. /\ c2.h = s2.h /\ c2.r = s2.r /\ c2.finalized = s2.finalized
          /\ c2.req = s2.req /\ c2.finalizing = s2.finalizing /\ c2.vrv = v
          /\ c2.step = s2.step
      BY <2>2 DEF Life
    <2>4. c2 \in Life
      BY <2>2, <1>0 DEF Life
    <2> HIDE DEF c2
    <2>5. Working(c2)
      BY <1>0, <2>1, <2>2, <2>3, <2>4 DEF Working, Committable, NotAfter, At
    <2>6. InStep(c2)
      BY <2>1, <2>3, CommitWaitInStep
    <2>7. Settled(c2, Run(c2))
      BY <2>5, <2>6, RunSettled
    <2>8. Settled(s2, Run(s2))
      BY <2>1, RunSettled
    <2>9. Settled(s2, Quit(s2))
      BY <2>2, SMPanicSettled
    <2>10. Settled(s, advanceRound(s))
      BY <1>0, advanceRoundSettled
    <2>11. x \in {advanceRound(s), Run(c2), Run(s2), Quit(s2)}
      BY <1>2, <1>7
    <2>12. c2.h = s.h /\ c2.r = s.r /\ c2.finalized = s.finalized
      BY <2>1, <2>3
    <2> QED BY <2>1, <2>7, <2>8, <2>9, <2>10, <2>11, <2>12, SettledSame
  <1>8. CASE step \in {"prevoteDelay", "precommitDelay"}
    <2>1. x = SMPanic(s)
      BY <1>2, <1>8
    <2> QED BY <2>1, <1>0, SMPanicSettled
  <1> QED BY <1>1, <1>5, <1>6, <1>7, <1>8

-----------------------------------------------------------------------------
(* View updates. *)

\* A round in order that stays in the main loop is settled.
LEMMA WorkingSettled ==
    ASSUME NEW s, NEW x, Working(x), InStep(x), x.pc = "run",
           x.h = s.h, x.r = s.r, x.finalized = s.finalized
    PROVE  Settled(s, x)
  BY DEF Working, Settled, Moved, Ordered, Requested

\* Another step with its timer leaves the round in order, as long as a late
\* step is not left for an early one.
LEMMA ResteppedInStep ==
    ASSUME NEW s, Working(s), InStep(s),
           NEW step \in {"awaitingPrevotes", "prevoteDelay",
                         "awaitingPrecommits", "precommitDelay"},
           step \in Late \/ s.step \notin Late,
           NEW timer,
           timer = IF step \in {"prevoteDelay", "precommitDelay"} THEN step ELSE "none",
           NEW x, Restepped(s, x, step, timer, s.vrv)
    PROVE  Working(x) /\ InStep(x)
  <1>1. Working(x)
    BY DEF Working, Committable, NotAfter, Restepped
  <1>2. InStep(x)
    BY DEF InStep, Restepped, Unanswered, Late
  <1> QED BY <1>1, <1>2

\* A working state without its timer works.
LEMMA TimerCancelled ==
    ASSUME NEW s, Working(s), NEW x, x = [s EXCEPT !.timer = "none"]
    PROVE  Working(x) /\ Restepped(s, x, s.step, "none", s.vrv)
  <1>0. s \in Life
    BY DEF Working
  <1>1. Restepped(s, x, s.step, "none", s.vrv)
    BY <1>0 DEF Life, Timers, Restepped
  <1> QED BY <1>1 DEF Working, Committable, NotAfter, Restepped

\* A majority of precommits for nil ends the round, one for a block starts its
\* commit wait.
LEMMA FinishRoundSettled ==
    ASSUME NEW s, Working(s), s.pc = "run", NEW v \in SeenView
    PROVE  Settled(s, FinishRound(s, v))
  <1>1. s \in Life /\ NotAfter(s.vrv, s) /\ s.req.op = "none"
    BY DEF Working
  <1>2. Settled(s, [advanceRound(s) EXCEPT !.lenient = TRUE])
    BY <1>1, advanceRoundSettled
  <1>3. Settled(s, beginCommit(s, v))
    <2> DEFINE x == beginCommit(s, v)
    <2>1. x = beginCommit(s, v)
      OBVIOUS
    <2> HIDE DEF x
    <2>2. /\ Working(x) /\ InStep(x) /\ x.pc = "run"
          /\ x.h = s.h /\ x.r = s.r /\ x.finalized = s.finalized
      BY <2>1, beginCommitWorking
    <2> QED BY <2>1, <2>2, WorkingSettled
  <1> QED BY <1>2, <1>3 DEF FinishRound

\* The same once the timer is cancelled.
LEMMA FinishTimedRoundSettled ==
    ASSUME NEW s, Working(s), s.pc = "run", NEW v \in SeenView
    PROVE  Settled(s, FinishRound([s EXCEPT !.timer = "none"], v))
  <1> DEFINE y == [s EXCEPT !.timer = "none"]
  <1>1. y = [s EXCEPT !.timer = "none"]
    OBVIOUS
  <1> HIDE DEF y
  <1>2. /\ Working(y) /\ y.pc = "run" /\ y.h = s.h /\ y.r = s.r
        /\ y.finalized = s.finalized
    BY <1>1, TimerCancelled DEF Restepped
  <1>3. Settled(y, FinishRound(y, v))
    BY <1>2, FinishRoundSettled
  <1> QED BY <1>1, <1>2, <1>3, SettledSame

\* handleProposalViewUpdate leaves the round in order.
LEMMA handleProposalViewUpdateSettled ==
    ASSUME NEW s, Working(s), InStep(s), s.pc = "run", s.step = "awaitingProposal",
           NEW v \in SeenView, NEW x, x = handleProposalViewUpdate(s, v)
    PROVE  Settled(s, x)
  <1> DEFINE new == rejectMismatchedProposedHeaders(v.phs)
             s1  == [s EXCEPT !.timer = "none"]
             a   == [s EXCEPT !.step = "precommitDelay", !.timer = "precommitDelay"]
             b   == [s1 EXCEPT !.step = "awaitingPrecommits"]
             c   == [s EXCEPT !.step = "prevoteDelay", !.timer = "prevoteDelay"]
             hs0 == Headers(v.phs)
  <1>0. /\ s \in Life /\ s.prevoteCh # ChNil /\ s.precommitCh = ChEmpty
        /\ s.precommitCh # ChNil /\ s.step \notin Late /\ hs0 \in SUBSET Hashes
    BY ChannelStates, HeadersType DEF Working, InStep, Late
  <1>1. x \in {FinishRound(s1, v), Decide(a, v), Decide(b, v),
               Request(b, "choose", hs0, TRUE), c, Request(c, "consider", hs0, TRUE),
               Request(s, "consider", hs0, TRUE), s}
    BY DEF handleProposalViewUpdate
  <1>2. Restepped(s, a, "precommitDelay", "precommitDelay", s.vrv)
    BY <1>0 DEF Life, Steps, Timers, Restepped
  <1>3. Restepped(s, b, "awaitingPrecommits", "none", s.vrv)
    BY <1>0 DEF Life, Steps, Timers, Restepped
  <1>4. Restepped(s, c, "prevoteDelay", "prevoteDelay", s.vrv)
    BY <1>0 DEF Life, Steps, Timers, Restepped
  <1>5. Settled(s, FinishRound(s1, v))
    BY FinishTimedRoundSettled
  <1> HIDE DEF s1, a, b, c, hs0
  <1>6. Working(a) /\ InStep(a) /\ Working(b) /\ InStep(b) /\ Working(c) /\ InStep(c)
    BY <1>0, <1>2, <1>3, <1>4, ResteppedInStep DEF Late
  <1>7. Settled(a, Decide(a, v)) /\ Settled(b, Decide(b, v))
    BY <1>0, <1>2, <1>3, <1>6, DecideSettled DEF Restepped, Late
  <1>8. Settled(b, Request(b, "choose", hs0, TRUE))
    BY <1>0, <1>3, <1>6, RequestSettled DEF Restepped, Asked
  <1>9. Settled(c, Request(c, "consider", hs0, TRUE))
    BY <1>0, <1>4, <1>6, RequestSettled DEF Restepped, Asked
  <1>10. Settled(s, Request(s, "consider", hs0, TRUE))
    BY <1>0, RequestSettled DEF Asked
  <1>11. Settled(s, c) /\ Settled(s, s)
    BY <1>4, <1>6, WorkingSettled DEF Restepped
  <1>12. /\ a.h = s.h /\ a.r = s.r /\ a.finalized = s.finalized
         /\ b.h = s.h /\ b.r = s.r /\ b.finalized = s.finalized
         /\ c.h = s.h /\ c.r = s.r /\ c.finalized = s.finalized
    BY <1>2, <1>3, <1>4 DEF Restepped
  <1>13. /\ Settled(s, Decide(a, v)) /\ Settled(s, Decide(b, v))
         /\ Settled(s, Request(b, "choose", hs0, TRUE))
         /\ Settled(s, Request(c, "consider", hs0, TRUE))
    BY <1>7, <1>8, <1>9, <1>12, SettledSame
  <1> QED BY <1>1, <1>5, <1>10, <1>11, <1>13

\* handlePrevoteViewUpdate leaves the round in order.
LEMMA handlePrevoteViewUpdateSettled ==
    ASSUME NEW s, Working(s), InStep(s), s.pc = "run",
           s.step \in {"awaitingPrevotes", "prevoteDelay"},
           NEW v \in SeenView, NEW x, x = handlePrevoteViewUpdate(s, v)
    PROVE  Settled(s, x)
  <1> DEFINE s1  == [s EXCEPT !.timer = "none"]
             a   == [s EXCEPT !.step = "precommitDelay", !.timer = "precommitDelay"]
             b   == [s1 EXCEPT !.step = "awaitingPrecommits"]
             c   == [s EXCEPT !.step = "prevoteDelay", !.timer = "prevoteDelay"]
  <1>0. /\ s \in Life /\ s.precommitCh # ChNil /\ s.step \notin Late
    BY ChannelStates DEF Working, InStep, Late
  <1>1. x \in {FinishRound(s1, v), Decide(a, v), Decide(b, v), c, s}
    BY DEF handlePrevoteViewUpdate
  <1>2. Restepped(s, a, "precommitDelay", "precommitDelay", s.vrv)
    BY <1>0 DEF Life, Steps, Timers, Restepped
  <1>3. Restepped(s, b, "awaitingPrecommits", "none", s.vrv)
    BY <1>0 DEF Life, Steps, Timers, Restepped
  <1>4. Restepped(s, c, "prevoteDelay", "prevoteDelay", s.vrv)
    BY <1>0 DEF Life, Steps, Timers, Restepped
  <1>5. Settled(s, FinishRound(s1, v))
    BY FinishTimedRoundSettled
  <1> HIDE DEF s1, a, b, c
  <1>6. Working(a) /\ InStep(a) /\ Working(b) /\ InStep(b) /\ Working(c) /\ InStep(c)
    BY <1>0, <1>2, <1>3, <1>4, ResteppedInStep DEF Late
  <1>7. Settled(a, Decide(a, v)) /\ Settled(b, Decide(b, v))
    BY <1>0, <1>2, <1>3, <1>6, DecideSettled DEF Restepped, Late
  <1>8. Settled(s, c) /\ Settled(s, s)
    BY <1>4, <1>6, WorkingSettled DEF Restepped
  <1>9. /\ a.h = s.h /\ a.r = s.r /\ a.finalized = s.finalized
        /\ b.h = s.h /\ b.r = s.r /\ b.finalized = s.finalized
    BY <1>2, <1>3 DEF Restepped
  <1>10. Settled(s, Decide(a, v)) /\ Settled(s, Decide(b, v))
    BY <1>7, <1>9, SettledSame
  <1> QED BY <1>1, <1>5, <1>8, <1>10

\* handlePrecommitViewUpdate leaves the round in order, or leaves it.
LEMMA handlePrecommitViewUpdateSettled ==
    ASSUME NEW s, Working(s), InStep(s), s.pc = "run",
           NEW v \in SeenView, NEW x, x = handlePrecommitViewUpdate(s, v)
    PROVE  Settled(s, x)
  <1> DEFINE s1 == [s EXCEPT !.timer = "none"]
             a  == [s EXCEPT !.step = "precommitDelay", !.timer = "precommitDelay"]
  <1>0. s \in Life /\ NotAfter(s.vrv, s) /\ s.req.op = "none"
    BY DEF Working
  <1>1. x \in {FinishRound(s1, v), [advanceRound(s) EXCEPT !.lenient = TRUE], a, s}
    BY DEF handlePrecommitViewUpdate
  <1>2. Restepped(s, a, "precommitDelay", "precommitDelay", s.vrv)
    BY <1>0 DEF Life, Steps, Timers, Restepped
  <1>3. Settled(s, FinishRound(s1, v))
    BY FinishTimedRoundSettled
  <1> HIDE DEF s1, a
  <1>4. Working(a) /\ InStep(a)
    BY <1>0, <1>2, ResteppedInStep DEF Late
  <1>5. Settled(s, a) /\ Settled(s, s)
    BY <1>2, <1>4, WorkingSettled DEF Restepped
  <1>6. Settled(s, [advanceRound(s) EXCEPT !.lenient = TRUE])
    BY <1>0, advanceRoundSettled
  <1> QED BY <1>1, <1>3, <1>5, <1>6

\* handleCommitWaitViewUpdate asks at most for a finalization.
LEMMA handleCommitWaitViewUpdateSettled ==
    ASSUME NEW s, Working(s), InStep(s), s.pc = "run",
           NEW v \in SeenView, NEW x, x = handleCommitWaitViewUpdate(s, v)
    PROVE  Settled(s, x)
  <1>0. s \in Life
    BY DEF Working
  <1>1. CASE x = s
    BY <1>1, WorkingSettled
  <1>2. CASE HasCommitted(v) /\ x = FinalizeRequest(s, v)
    <2>1. Working(x) /\ x = [s EXCEPT !.finalizing = x.finalizing]
      BY <1>2, FinalizeRequestWorking
    <2>2. /\ x.step = s.step /\ x.pc = s.pc /\ x.h = s.h /\ x.r = s.r
          /\ x.finalized = s.finalized /\ x.timer = s.timer /\ x.cm = s.cm
          /\ x.prevoteCh = s.prevoteCh /\ x.precommitCh = s.precommitCh /\ x.req = s.req
      BY <2>1, <1>0 DEF Life
    <2>3. InStep(x)
      BY <2>2 DEF InStep, Unanswered
    <2> QED BY <2>1, <2>2, <2>3, WorkingSettled
  <1> QED BY <1>1, <1>2 DEF handleCommitWaitViewUpdate

\* A settled state is settled with the next view and the jump that came with it.
LEMMA ViewTaken ==
    ASSUME NEW s, NEW y, Settled(s, y), NEW v \in SeenView, NEW jump \in SeenView,
           NEW x, x = [y EXCEPT !.jump = jump,
                                !.vrv = IF v.h = @.h /\ v.r = @.r THEN v ELSE @]
    PROVE  Settled(s, x) /\ x.pc = y.pc
  <1> DEFINE vrv == IF v.h = y.vrv.h /\ v.r = y.vrv.r THEN v ELSE y.vrv
  <1>0. y \in Life /\ Ordered(y) /\ y.pc # "start"
    BY DEF Settled, Moved
  <1>1. vrv \in SeenView /\ vrv.h = y.vrv.h /\ vrv.r = y.vrv.r
    BY <1>0 DEF Life
  <1>2. x = [y EXCEPT !.jump = jump, !.vrv = vrv]
    BY <1>0 DEF Life
  <1> HIDE DEF vrv
  <1>3. /\ x.pc = y.pc /\ x.h = y.h /\ x.r = y.r /\ x.step = y.step /\ x.timer = y.timer
        /\ x.prevoteCh = y.prevoteCh /\ x.precommitCh = y.precommitCh
        /\ x.req = y.req /\ x.cm = y.cm /\ x.finalizing = y.finalizing
        /\ x.finalized = y.finalized /\ x.catchup = y.catchup /\ x.init = y.init
        /\ x.entered = y.entered /\ x.vrv = vrv
    BY <1>0, <1>2 DEF Life
  <1>4. x \in Life
    BY <1>0, <1>1, <1>2 DEF Life
  <1>5. /\ Fresh(y) => Fresh(x)
        /\ InStep(y) => InStep(x)
        /\ Replaying(y) => Replaying(x)
    BY <1>1, <1>3 DEF Fresh, InStep, Unanswered, Replaying, Before
  <1>6. /\ Before(y.vrv, y) => Before(x.vrv, x)
        /\ NotAfter(y.vrv, y) => NotAfter(x.vrv, x)
        /\ At(y.entered, y) => At(x.entered, x)
        /\ y.vrv.h = 0 => x.vrv.h = 0
        /\ Requested(y) => Requested(x)
        /\ Committable(y) => Committable(x)
    BY <1>1, <1>3 DEF Before, NotAfter, At, Requested, Committable
  <1>7. Ordered(x)
    BY <1>0, <1>3, <1>5, <1>6 DEF Ordered
  <1> QED BY <1>3, <1>4, <1>5, <1>7 DEF Settled, Moved

\* handleViewUpdate leaves a round in order that is in order, or leaves it.
LEMMA handleViewUpdateSettled ==
    ASSUME NEW s, Working(s), InStep(s), s.pc = "run",
           NEW v \in SeenView, NEW jump \in SeenView,
           NEW x, x = handleViewUpdate(s, v, jump)
    PROVE  Settled(s, x)
  <1> DEFINE s1 == CASE s.step = "awaitingProposal" -> handleProposalViewUpdate(s, v)
                     [] s.step \in {"awaitingPrevotes", "prevoteDelay"}
                          -> handlePrevoteViewUpdate(s, v)
                     [] s.step \in {"awaitingPrecommits", "precommitDelay"}
                          -> handlePrecommitViewUpdate(s, v)
                     [] s.step \in {"commitWait", "awaitingFinalization"}
                          -> handleCommitWaitViewUpdate(s, v)
             s2 == [s1 EXCEPT !.jump = jump,
                              !.vrv = IF v.h = @.h /\ v.r = @.r THEN v ELSE @]
  <1>0. s \in Life /\ Requested(s) /\ Committable(s) /\ NotAfter(s.vrv, s)
    BY DEF Working, Requested
  <1>1. x \in {handleJumpAhead(s, jump), s, SMPanic(s), s2}
          \/ (x = Run(s2) /\ s2.pc = "run")
    BY DEF handleViewUpdate
  <1>2. Settled(s, s1)
    <2>1. s.step \in {"awaitingProposal", "awaitingPrevotes", "prevoteDelay",
                      "awaitingPrecommits", "precommitDelay", "commitWait",
                      "awaitingFinalization"}
      BY <1>0 DEF InStep, Life, Steps
    <2>2. CASE s.step = "awaitingProposal"
      BY <2>2, handleProposalViewUpdateSettled
    <2>3. CASE s.step \in {"awaitingPrevotes", "prevoteDelay"}
      BY <2>3, handlePrevoteViewUpdateSettled
    <2>4. CASE s.step \in {"awaitingPrecommits", "precommitDelay"}
      BY <2>4, handlePrecommitViewUpdateSettled
    <2>5. CASE s.step \in {"commitWait", "awaitingFinalization"}
      BY <2>5, handleCommitWaitViewUpdateSettled
    <2> QED BY <2>1, <2>2, <2>3, <2>4, <2>5
  <1> HIDE DEF s1
  <1>3. Settled(s, s2)
    BY <1>2, ViewTaken
  <1> HIDE DEF s2
  <1>4. CASE s2.pc = "run"
    <2>1. /\ Working(s2) /\ (s2.catchup \/ InStep(s2))
          /\ s2.h = s.h /\ s2.r = s.r /\ (s2.finalized <=> s.finalized)
      BY <1>3, <1>4 DEF Settled, Moved, Ordered, Working
    <2>2. Settled(s2, Run(s2))
      BY <2>1, RunSettled
    <2>3. Settled(s, Run(s2))
      BY <2>1, <2>2 DEF Settled, Moved
    <2>4. Settled(s, handleJumpAhead(s, jump)) /\ Settled(s, SMPanic(s)) /\ Settled(s, s)
      BY <1>0, handleJumpAheadSettled, SMPanicSettled, WorkingSettled
    <2> QED BY <1>1, <1>3, <2>3, <2>4
  <1>5. CASE s2.pc # "run"
    <2>1. Settled(s, handleJumpAhead(s, jump)) /\ Settled(s, SMPanic(s)) /\ Settled(s, s)
      BY <1>0, handleJumpAheadSettled, SMPanicSettled, WorkingSettled
    <2> QED BY <1>1, <1>3, <1>5, <2>1
  <1> QED BY <1>4, <1>5

\* A view update for another round, or one without a view, changes nothing
\* unless it makes the state machine leave the round.
LEMMA handleViewUpdateElsewhere ==
    ASSUME NEW s, Working(s), NEW v, NEW jump, v.h = 0 \/ ~At(v, s),
           NEW x, x = handleViewUpdate(s, v, jump)
    PROVE  x = s \/ (Settled(s, x) /\ x.pc \in {"panic", "save"})
  <1>1. x = s \/ x = handleJumpAhead(s, jump)
    BY DEF handleViewUpdate, At
  <1> QED BY <1>1, handleJumpAheadSettled

-----------------------------------------------------------------------------
(* The other events of the main loop. *)

\* s moves to x, and x is in the round of a committed header only if s is.
Stepped(s, x) ==
    /\ Moved(s, x)
    /\ x.pc = "run" /\ ~x.catchup /\ ~InStep(x) => ~s.catchup /\ ~InStep(s)

\* A settled state is one that was stepped to.
LEMMA SettledStepped == ASSUME NEW s, NEW x, Settled(s, x) PROVE Stepped(s, x)
  BY DEF Settled, Stepped

\* A state machine in its main loop works on its round.
LEMMA RunWorking ==
    ASSUME NEW s \in Life, Ordered(s), s.pc = "run" PROVE Working(s) /\ Requested(s)
  BY DEF Ordered, Working

\* x is s but for fields that no step looks at to decide whether it fits.
SameLife(s, x) ==
    /\ x \in Life
    /\ x.pc = s.pc /\ x.h = s.h /\ x.r = s.r /\ x.step = s.step /\ x.timer = s.timer
    /\ x.prevoteCh = s.prevoteCh /\ x.precommitCh = s.precommitCh
    /\ x.req = s.req /\ x.cm = s.cm /\ x.finalizing = s.finalizing
    /\ x.finalized = s.finalized /\ x.catchup = s.catchup /\ x.init = s.init
    /\ x.entered = s.entered /\ x.vrv = s.vrv

\* A state machine like one in order is in order.
LEMMA SameLifeOrdered ==
    ASSUME NEW s, Ordered(s), s.pc # "start", NEW x, SameLife(s, x)
    PROVE  Ordered(x) /\ (InStep(s) <=> InStep(x))
  <1>1. /\ Fresh(s) => Fresh(x)
        /\ InStep(s) <=> InStep(x)
        /\ Replaying(s) => Replaying(x)
    BY DEF SameLife, Fresh, InStep, Unanswered, Replaying, Before
  <1>2. /\ Before(s.vrv, s) => Before(x.vrv, x)
        /\ NotAfter(s.vrv, s) => NotAfter(x.vrv, x)
        /\ At(s.entered, s) => At(x.entered, x)
        /\ Requested(s) => Requested(x)
        /\ Committable(s) => Committable(x)
    BY DEF SameLife, Before, NotAfter, At, Requested, Committable
  <1> QED BY <1>1, <1>2 DEF SameLife, Ordered

\* Recording a proposal leaves the lifecycle alone.
LEMMA recordProposedHeaderStepped ==
    ASSUME NEW s \in Life, Ordered(s), s.pc = "run", NEW ph \in Proposal
    PROVE  Stepped(s, recordProposedHeader(s, ph))
  <1> DEFINE acts == Append(s.acts, [kind |-> "ph", ph |-> ph])
             x == [s EXCEPT !.proposalCh = FALSE, !.acts = acts]
  <1>1. recordProposedHeader(s, ph) = x
    BY DEF recordProposedHeader, Life
  <1>2. acts \in Seq(Action)
    <2>1. [kind |-> "ph", ph |-> ph] \in Action
      BY DEF Action
    <2>2. s.acts \in Seq(Action)
      BY DEF Life
    <2> QED BY <2>1, <2>2
  <1> HIDE DEF acts
  <1>3. SameLife(s, x)
    <2>1. x \in Life
      BY <1>2 DEF Life
    <2> QED BY <2>1 DEF SameLife, Life
  <1> HIDE DEF x
  <1>4. Ordered(x) /\ (InStep(s) <=> InStep(x))
    BY <1>3, SameLifeOrdered
  <1> QED BY <1>1, <1>3, <1>4 DEF Stepped, Moved, SameLife

\* A vote that is sent is an action.
LEMMA SendVoteType ==
    ASSUME NEW s \in Life, NEW kind \in Kinds, NEW hash \in Hashes
    PROVE  Append(s.acts, [kind |-> kind, hash |-> hash]) \in Seq(Action)
  <1>1. [kind |-> kind, hash |-> hash] \in Action
    BY DEF Action
  <1>2. s.acts \in Seq(Action)
    BY DEF Life
  <1> QED BY <1>1, <1>2

\* Recording the prevote ends the wait for a proposal, with its timer.
LEMMA recordPrevoteSettled ==
    ASSUME NEW s \in Life, Ordered(s), s.pc = "run", ~s.catchup, s.prevoteCh \in Hashes
    PROVE  Settled(s, recordPrevote(s))
  <1> DEFINE acts == Append(s.acts, [kind |-> "prevote", hash |-> s.prevoteCh])
             step == IF s.step = "awaitingProposal" THEN "awaitingPrevotes" ELSE s.step
             timer == IF s.step = "awaitingProposal" THEN "none" ELSE s.timer
             x == [s EXCEPT !.acts = acts, !.prevoteCh = ChNil, !.step = step, !.timer = timer]
  <1>1. recordPrevote(s) = x
    BY DEF recordPrevote, SendVote, Life
  <1>2. acts \in Seq(Action)
    BY SendVoteType DEF Kinds
  <1>3. step \in Steps /\ timer \in Timers
    BY DEF Life, Steps, Timers
  <1>4. InStep(s) /\ Working(s)
    BY RunWorking, ChannelStates DEF Ordered, Replaying
  <1>5. /\ step # "invalid" /\ step # "awaitingProposal"
        /\ step \in {"prevoteDelay", "precommitDelay"} => timer = step
        /\ step \in {"awaitingPrevotes", "awaitingPrecommits", "awaitingFinalization"}
             => timer = "none"
        /\ step \notin Late => s.step \notin Late
    BY <1>4 DEF InStep, Late
  <1> HIDE DEF acts, step, timer
  <1>6. /\ x.pc = "run" /\ x.h = s.h /\ x.r = s.r /\ x.step = step /\ x.timer = timer
        /\ x.precommitCh = s.precommitCh /\ x.req = s.req /\ x.cm = s.cm
        /\ x.finalizing = s.finalizing /\ x.finalized = s.finalized /\ x.vrv = s.vrv
    BY DEF Life
  <1>7. x \in Life
    BY <1>2, <1>3, ChannelStates DEF Life
  <1> HIDE DEF x
  <1>8. InStep(x)
    BY <1>4, <1>5, <1>6 DEF InStep, Unanswered
  <1>9. Working(x)
    BY <1>4, <1>6, <1>7 DEF Working, Committable, NotAfter
  <1> QED BY <1>1, <1>6, <1>8, <1>9, WorkingSettled

\* Recording the precommit leaves the round in order.
LEMMA recordPrecommitSettled ==
    ASSUME NEW s \in Life, Ordered(s), s.pc = "run", ~s.catchup, s.precommitCh \in Hashes
    PROVE  Settled(s, recordPrecommit(s))
  <1> DEFINE acts == Append(s.acts, [kind |-> "precommit", hash |-> s.precommitCh])
             x == [s EXCEPT !.acts = acts, !.precommitCh = ChNil]
  <1>1. recordPrecommit(s) = x
    BY DEF recordPrecommit, SendVote, Life
  <1>2. acts \in Seq(Action)
    BY SendVoteType DEF Kinds
  <1>4. InStep(s) /\ Working(s) /\ s.step \in Late
    BY RunWorking, ChannelStates DEF Ordered, Replaying, InStep
  <1> HIDE DEF acts
  <1>6. /\ x.pc = "run" /\ x.h = s.h /\ x.r = s.r /\ x.step = s.step /\ x.timer = s.timer
        /\ x.prevoteCh = s.prevoteCh /\ x.req = s.req /\ x.cm = s.cm
        /\ x.finalizing = s.finalizing /\ x.finalized = s.finalized /\ x.vrv = s.vrv
    BY DEF Life
  <1>7. x \in Life
    BY <1>2, ChannelStates DEF Life
  <1> HIDE DEF x
  <1>8. InStep(x)
    BY <1>4, <1>6 DEF InStep, Unanswered
  <1>9. Working(x)
    BY <1>4, <1>6, <1>7 DEF Working, Committable, NotAfter
  <1> QED BY <1>1, <1>6, <1>8, <1>9, WorkingSettled

\* A finalization that arrives is recorded; a state machine that waited for it
\* leaves the height.
LEMMA handleFinalizationStepped ==
    ASSUME NEW s, Working(s), s.pc = "run",
           s.step = "awaitingFinalization" \/ InStep(s) \/ Replaying(s),
           NEW t, t = [s EXCEPT !.finalized = TRUE]
    PROVE  Stepped(t, handleFinalization(s))
  <1> DEFINE s1 == [s EXCEPT !.finalized = TRUE, !.finalizeCh = FALSE,
                             !.finalizing = NoFinalize, !.lenient = FALSE]
  <1>0. s \in Life /\ s.req.op = "none" /\ NotAfter(s.vrv, s)
    BY DEF Working
  <1>1. handleFinalization(s) = IF s.step = "awaitingFinalization"
                                THEN advanceHeight(s1) ELSE s1
    BY DEF handleFinalization
  <1>2. NoFinalize \in [h : Nat, r : Nat, hash : Hashes] /\ NoFinalize.h = 0
    BY NilIsHash DEF NoFinalize
  <1>3. s1 \in Life
    BY <1>0, <1>2 DEF Life
  <1>4. /\ s1.finalized /\ s1.finalizing = NoFinalize
        /\ s1.pc = s.pc /\ s1.h = s.h /\ s1.r = s.r /\ s1.step = s.step /\ s1.timer = s.timer
        /\ s1.prevoteCh = s.prevoteCh /\ s1.precommitCh = s.precommitCh
        /\ s1.req = s.req /\ s1.cm = s.cm /\ s1.catchup = s.catchup /\ s1.vrv = s.vrv
    BY <1>0 DEF Life
  <1>5. /\ t.finalized /\ t.h = s.h /\ t.r = s.r /\ t.step = s.step /\ t.timer = s.timer
        /\ t.prevoteCh = s.prevoteCh /\ t.precommitCh = s.precommitCh
        /\ t.req = s.req /\ t.cm = s.cm /\ t.catchup = s.catchup
    BY <1>0 DEF Life
  <1> HIDE DEF s1
  <1>6. Committable(s1) /\ NotAfter(s1.vrv, s1) /\ s1.req.op = "none" /\ Requested(s1)
    BY <1>0, <1>2, <1>4 DEF Committable, NotAfter, Requested
  <1>7. CASE s.step = "awaitingFinalization"
    <2>1. Settled(s1, advanceHeight(s1))
      BY <1>3, <1>4, <1>6, advanceHeightSettled
    <2>2. Settled(t, advanceHeight(s1))
      BY <2>1, <1>4, <1>5 DEF Settled, Moved
    <2> QED BY <1>1, <1>7, <2>2, SettledStepped
  <1>8. CASE s.step # "awaitingFinalization"
    <2>1. InStep(s1) \/ Replaying(s1)
      BY <1>4, <1>8 DEF InStep, Unanswered, Replaying, Before
    <2>2. InStep(t) => InStep(s1)
      BY <1>4, <1>5 DEF InStep, Unanswered
    <2>3. Ordered(s1)
      BY <1>4, <1>6, <2>1 DEF Ordered
    <2> QED BY <1>1, <1>3, <1>4, <1>5, <1>8, <2>2, <2>3 DEF Stepped, Moved
  <1> QED BY <1>7, <1>8

\* The end of the commit wait leaves a height that is finalized; another waits
\* for its finalization.
LEMMA EndCommitWaitSettled ==
    ASSUME NEW s, Working(s), s.pc = "run", s.timer = "none"
    PROVE  Settled(s, EndCommitWait(s))
  <1> DEFINE x == [s EXCEPT !.step = "awaitingFinalization"]
  <1>0. s \in Life /\ s.req.op = "none" /\ NotAfter(s.vrv, s) /\ Committable(s)
    BY DEF Working
  <1>1. s.finalized => Settled(s, advanceHeight(s))
    BY <1>0, advanceHeightSettled
  <1>2. /\ x.step = "awaitingFinalization" /\ x.pc = "run" /\ x.timer = "none"
        /\ x.h = s.h /\ x.r = s.r /\ x.finalized = s.finalized /\ x.req = s.req
        /\ x.vrv = s.vrv /\ x.finalizing = s.finalizing
    BY <1>0 DEF Life
  <1>3. x \in Life
    BY <1>0 DEF Life, Steps
  <1>4. EndCommitWait(s) = IF s.finalized THEN advanceHeight(s) ELSE x
    BY DEF EndCommitWait
  <1> HIDE DEF x
  <1>5. InStep(x)
    BY <1>2 DEF InStep, Late
  <1>6. Working(x)
    BY <1>0, <1>2, <1>3 DEF Working, Committable, NotAfter
  <1>7. Settled(s, x)
    BY <1>2, <1>5, <1>6, WorkingSettled
  <1> QED BY <1>1, <1>4, <1>7

\* A timer that elapses is the one of the step.
LEMMA handleTimerElapsedSettled ==
    ASSUME NEW s \in Life, Ordered(s), s.pc = "run", ~s.catchup, s.timer # "none"
    PROVE  Settled(s, handleTimerElapsed(s))
  <1> DEFINE s1 == [s EXCEPT !.timer = "none", !.lenient = FALSE]
             a == [s1 EXCEPT !.step = "awaitingPrevotes"]
             b == [s1 EXCEPT !.step = "awaitingPrecommits"]
             hs0 == Headers(s.vrv.phs)
  <1>0. InStep(s) /\ Working(s) /\ Requested(s)
    BY RunWorking, ChannelStates DEF Ordered, Replaying
  <1>1. handleTimerElapsed(s) =
          CASE s.step = "awaitingProposal" -> Request(a, "choose", hs0, FALSE)
            [] s.step = "prevoteDelay" -> Decide(b, s.vrv)
            [] s.step = "precommitDelay" -> advanceRound(s1)
            [] s.step = "commitWait" -> EndCommitWait(s1)
            [] OTHER -> SMPanic(s)
    BY DEF handleTimerElapsed
  <1>2. Restepped(s, s1, s.step, "none", s.vrv)
    BY DEF Life, Timers, Restepped
  <1>3. Restepped(s, a, "awaitingPrevotes", "none", s.vrv)
    BY DEF Life, Timers, Steps, Restepped
  <1>4. Restepped(s, b, "awaitingPrecommits", "none", s.vrv)
    BY DEF Life, Timers, Steps, Restepped
  <1>5. hs0 \in SUBSET Hashes
    BY HeadersType DEF Life
  <1> HIDE DEF s1, a, b, hs0
  <1>6. Working(s1) /\ s1.pc = "run" /\ s1.timer = "none"
    BY <1>0, <1>2 DEF Working, Committable, NotAfter, Restepped
  <1>7. CASE s.step = "awaitingProposal"
    <2>1. Working(a) /\ InStep(a) /\ a.prevoteCh # ChNil
      BY <1>0, <1>3, <1>7, ResteppedInStep DEF Late, Restepped, InStep
    <2>2. Settled(a, Request(a, "choose", hs0, FALSE))
      BY <2>1, <1>5, RequestSettled DEF Asked
    <2>3. a.h = s.h /\ a.r = s.r /\ a.finalized = s.finalized
      BY <1>3 DEF Restepped
    <2> QED BY <1>1, <1>7, <2>2, <2>3, SettledSame
  <1>8. CASE s.step = "prevoteDelay"
    <2>1. Working(b) /\ InStep(b) /\ b.precommitCh # ChNil /\ b.step \in Late
      BY <1>0, <1>4, <1>8, ResteppedInStep, ChannelStates DEF Late, Restepped, InStep
    <2>2. Settled(b, Decide(b, s.vrv))
      BY <2>1, DecideSettled
    <2>3. b.h = s.h /\ b.r = s.r /\ b.finalized = s.finalized
      BY <1>4 DEF Restepped
    <2> QED BY <1>1, <1>8, <2>2, <2>3, SettledSame
  <1>9. Settled(s, advanceRound(s1)) /\ Settled(s, EndCommitWait(s1))
    <2>1. s1 \in Life /\ NotAfter(s1.vrv, s1) /\ s1.req.op = "none"
      BY <1>6 DEF Working
    <2>2. Settled(s1, advanceRound(s1)) /\ Settled(s1, EndCommitWait(s1))
      BY <1>6, <2>1, advanceRoundSettled, EndCommitWaitSettled
    <2>3. s1.h = s.h /\ s1.r = s.r /\ s1.finalized = s.finalized
      BY <1>2 DEF Restepped
    <2> QED BY <2>2, <2>3, SettledSame
  <1>10. Settled(s, SMPanic(s))
    BY <1>0, SMPanicSettled DEF Working
  <1> QED BY <1>1, <1>7, <1>8, <1>9, <1>10

\* The mirror's notice that the height is committed ends the commit wait.
LEMMA handleHeightCommittedStepped ==
    ASSUME NEW s \in Life, Ordered(s), s.pc = "run", ~s.catchup
    PROVE  Stepped(s, handleHeightCommitted(s))
  <1> DEFINE s1 == [s EXCEPT !.hc = FALSE, !.timer = "none", !.lenient = FALSE]
  <1>0. (InStep(s) \/ Replaying(s)) /\ Working(s) /\ Requested(s)
    BY RunWorking DEF Ordered
  <1>1. handleHeightCommitted(s) =
          CASE s.step = "awaitingFinalization" -> s1
            [] s.step = "commitWait" -> EndCommitWait(s1)
            [] OTHER -> SMPanic(s)
    BY DEF handleHeightCommitted
  <1>2. Restepped(s, s1, s.step, "none", s.vrv)
    BY DEF Life, Timers, Restepped
  <1> HIDE DEF s1
  <1>3. Working(s1) /\ s1.pc = "run" /\ s1.timer = "none"
    BY <1>0, <1>2 DEF Working, Committable, NotAfter, Restepped
  <1>4. s1.h = s.h /\ s1.r = s.r /\ s1.finalized = s.finalized /\ s1.step = s.step
    BY <1>2 DEF Restepped
  <1>5. CASE s.step = "awaitingFinalization"
    <2>1. InStep(s1)
      BY <1>3, <1>4, <1>5 DEF InStep, Late
    <2>2. Settled(s, s1)
      BY <2>1, <1>3, <1>4, WorkingSettled
    <2> QED BY <2>2, <1>1, <1>5, SettledStepped
  <1>6. CASE s.step = "commitWait"
    <2>1. Settled(s1, EndCommitWait(s1))
      BY <1>3, EndCommitWaitSettled
    <2>2. Settled(s, EndCommitWait(s1))
      BY <2>1, <1>4, SettledSame
    <2> QED BY <2>2, <1>1, <1>6, SettledStepped
  <1>7. CASE s.step \notin {"awaitingFinalization", "commitWait"}
    <2>1. Settled(s, SMPanic(s))
      BY <1>0, SMPanicSettled DEF Working
    <2> QED BY <2>1, <1>1, <1>7, SettledStepped
  <1> QED BY <1>5, <1>6, <1>7

\* Block data that arrives makes the strategy consider the headers again only
\* while it may still prevote.
LEMMA handleBlockDataArrivalStepped ==
    ASSUME NEW s \in Life, Ordered(s), s.pc = "run", ~s.catchup, NEW b
    PROVE  Stepped(s, handleBlockDataArrival(s, b))
  <1> DEFINE hs0 == Headers(s.vrv.phs)
  <1>0. (InStep(s) \/ Replaying(s)) /\ Working(s)
    BY RunWorking DEF Ordered
  <1>1. \/ handleBlockDataArrival(s, b) = s
        \/ s.prevoteCh # ChNil /\ handleBlockDataArrival(s, b) = Request(s, "consider", hs0, FALSE)
    BY DEF handleBlockDataArrival
  <1>2. hs0 \in SUBSET Hashes
    BY HeadersType DEF Life
  <1> HIDE DEF hs0
  <1>3. CASE handleBlockDataArrival(s, b) = s
    BY <1>3 DEF Stepped, Moved
  <1>4. CASE s.prevoteCh # ChNil
    <2>1. InStep(s)
      BY <1>0, <1>4 DEF Replaying
    <2>2. Settled(s, Request(s, "consider", hs0, FALSE))
      BY <1>0, <1>2, <1>4, <2>1, RequestSettled DEF Asked
    <2> QED BY <1>1, <1>3, <2>2, SettledStepped
  <1> QED BY <1>1, <1>3, <1>4

-----------------------------------------------------------------------------
(* The consensus manager. *)

\* A request is taken when the consensus manager is idle: a round entrance, in
\* the same place, or a request of a round in order.
LEMMA TakeRequestStepped ==
    ASSUME NEW s \in Life, Ordered(s), s.pc = "send", NEW x, x = TakeRequest(s)
    PROVE  \/ /\ x \in Life /\ Ordered(x) /\ x.pc = "wait"
              /\ x.h = s.h /\ x.r = s.r /\ x.finalized = s.finalized
           \/ Settled(s, x)
  <1> DEFINE cm == [IdleManager EXCEPT !.op = s.req.op, !.choices = s.req.choices]
             s1 == [s EXCEPT !.req = NoRequest, !.cm = cm]
             w  == [s1 EXCEPT !.pc = "wait"]
  <1>0. /\ Requested(s) /\ Committable(s) /\ NotAfter(s.vrv, s)
        /\ \/ s.req.op = "enter" /\ Fresh(s) /\ At(s.entered, s)
           \/ s.req.op \in Asked /\ InStep(s)
    BY DEF Ordered
  <1>1. x = IF s.req.op = "enter" THEN w ELSE Run(s1)
    BY DEF TakeRequest
  <1>2. cm \in [op : Asked \cup {"idle", "enter"}, choices : SUBSET Hashes,
                stale : BOOLEAN, room : BOOLEAN] /\ cm.op = s.req.op
    BY <1>0 DEF Life, IdleManager
  <1>3. /\ NoRequest \in [op : Asked \cup {"none", "enter"}, choices : SUBSET Hashes,
                          timed : BOOLEAN]
        /\ NoRequest.op = "none"
    BY DEF NoRequest
  <1> HIDE DEF cm
  <1>4. s1 \in Life
    BY <1>2, <1>3 DEF Life
  <1>5. /\ s1.req = NoRequest /\ s1.cm = cm
        /\ s1.pc = s.pc /\ s1.h = s.h /\ s1.r = s.r /\ s1.step = s.step /\ s1.timer = s.timer
        /\ s1.prevoteCh = s.prevoteCh /\ s1.precommitCh = s.precommitCh
        /\ s1.finalizing = s.finalizing /\ s1.finalized = s.finalized
        /\ s1.catchup = s.catchup /\ s1.entered = s.entered /\ s1.vrv = s.vrv
    BY DEF Life
  <1>6. CASE s.req.op = "enter"
    <2> DEFINE v == [s EXCEPT !.req = NoRequest, !.cm = cm, !.pc = "wait"]
    <2>1. x = v
      BY <1>1, <1>6 DEF Life
    <2>2. v \in Life
      BY <1>2, <1>3 DEF Life, PCs
    <2>3. /\ v.req = NoRequest /\ v.cm = cm /\ v.pc = "wait" /\ v.h = s.h /\ v.r = s.r
          /\ v.timer = s.timer /\ v.prevoteCh = s.prevoteCh
          /\ v.precommitCh = s.precommitCh /\ v.finalizing = s.finalizing
          /\ v.finalized = s.finalized /\ v.entered = s.entered /\ v.vrv = s.vrv
      BY DEF Life
    <2> HIDE DEF v
    <2>4. Fresh(s) /\ At(s.entered, s)
      BY <1>0, <1>6 DEF Asked
    <2>5. Fresh(v) /\ At(v.entered, v)
      BY <1>2, <1>6, <2>3, <2>4 DEF Fresh, At, Unanswered
    <2>6. Requested(v) /\ Committable(v) /\ NotAfter(v.vrv, v) /\ v.req.op = "none"
      BY <1>0, <1>3, <2>3 DEF Requested, Committable, NotAfter
    <2>7. Ordered(v)
      BY <2>3, <2>5, <2>6 DEF Ordered
    <2> QED BY <2>1, <2>2, <2>3, <2>7
  <1>7. CASE s.req.op # "enter"
    <2> HIDE DEF s1
    <2>1. InStep(s) /\ s.req.op \in Asked
      BY <1>0, <1>7
    <2>2. InStep(s1)
      BY <1>2, <1>3, <1>5, <2>1 DEF InStep, Unanswered
    <2>3. Working(s1)
      BY <1>0, <1>3, <1>4, <1>5 DEF Working, Committable, NotAfter
    <2>4. Settled(s1, Run(s1))
      BY <2>2, <2>3, RunSettled
    <2>5. Settled(s, Run(s1))
      BY <1>5, <2>4, SettledSame
    <2> QED BY <1>1, <1>7, <2>5
  <1> QED BY <1>6, <1>7

\* x is s after the strategy has answered.
Answered(s, x) ==
    /\ x \in Life /\ Ordered(x) /\ x.pc = s.pc /\ x.h = s.h /\ x.r = s.r
    /\ x.finalized = s.finalized /\ x.catchup = s.catchup
    /\ InStep(s) => InStep(x)

\* An answer to the current round goes to its channel, unless that is nil; one
\* to a round that was left goes nowhere.
LEMMA ResultAnswered ==
    ASSUME NEW s \in Life, Ordered(s), s.cm.op \in Asked,
           NEW pv \in Answer, NEW pc \in Answer,
           pv # s.prevoteCh => s.cm.op # "decide" /\ ~s.cm.stale /\ s.prevoteCh # ChNil,
           pc # s.precommitCh => s.cm.op = "decide" /\ ~s.cm.stale /\ s.precommitCh # ChNil,
           pv = ChNil => s.prevoteCh = ChNil, pc = ChNil => s.precommitCh = ChNil,
           NEW x, x = [s EXCEPT !.cm = IdleManager, !.prevoteCh = pv, !.precommitCh = pc]
    PROVE  Answered(s, x)
  <1>1. /\ IdleManager \in [op : Asked \cup {"idle", "enter"}, choices : SUBSET Hashes,
                            stale : BOOLEAN, room : BOOLEAN]
        /\ IdleManager.op = "idle"
    BY DEF IdleManager
  <1>2. x \in Life
    BY <1>1 DEF Life
  <1>3. /\ x.cm = IdleManager /\ x.prevoteCh = pv /\ x.precommitCh = pc
        /\ x.pc = s.pc /\ x.h = s.h /\ x.r = s.r /\ x.step = s.step /\ x.timer = s.timer
        /\ x.req = s.req /\ x.finalizing = s.finalizing
        /\ x.finalized = s.finalized /\ x.catchup = s.catchup /\ x.init = s.init
        /\ x.entered = s.entered /\ x.vrv = s.vrv
    BY DEF Life
  <1>4. s.pc # "start"
    BY DEF Ordered, NewStateMachine, IdleManager, Asked
  <1>5. Fresh(s) => Fresh(x)
    BY <1>1, <1>3 DEF Fresh, Unanswered, Asked
  <1>6. InStep(s) => InStep(x)
    BY <1>1, <1>3 DEF InStep, Unanswered
  <1>7. Replaying(s) => Replaying(x)
    BY <1>1, <1>3 DEF Replaying, Before
  <1>8. /\ Before(s.vrv, s) => Before(x.vrv, x)
        /\ NotAfter(s.vrv, s) => NotAfter(x.vrv, x)
        /\ At(s.entered, s) => At(x.entered, x)
        /\ Requested(s) => Requested(x)
        /\ Committable(s) => Committable(x)
    BY <1>3 DEF Before, NotAfter, At, Requested, Committable
  <1>9. Ordered(x)
    BY <1>3, <1>4, <1>5, <1>6, <1>7, <1>8 DEF Ordered
  <1> QED BY <1>2, <1>3, <1>6, <1>9 DEF Answered

\* The answer of the strategy, and its excuse that it is not ready.
LEMMA SendResultAnswered ==
    ASSUME NEW s \in Life, Ordered(s), s.cm.op \in Asked, NEW hash \in Hashes
    PROVE  Answered(s, SendResult(s, hash)) /\ Answered(s, [s EXCEPT !.cm = IdleManager])
  <1> DEFINE s1 == [s EXCEPT !.cm = IdleManager]
             pc == IF s.precommitCh = ChNil THEN ChNil ELSE hash
             pv == IF s.prevoteCh = ChNil THEN ChNil ELSE hash
  <1>1. /\ hash \in Answer /\ hash # ChNil /\ pc \in Answer /\ pv \in Answer
        /\ s.prevoteCh \in Answer /\ s.precommitCh \in Answer
        /\ pc = ChNil => s.precommitCh = ChNil
        /\ pv = ChNil => s.prevoteCh = ChNil
    BY ChannelStates DEF Answer, Life
  <1>2. /\ pc # s.precommitCh => s.precommitCh # ChNil
        /\ pv # s.prevoteCh => s.prevoteCh # ChNil
    OBVIOUS
  <1>3. s1 = [s EXCEPT !.cm = IdleManager, !.prevoteCh = s.prevoteCh,
                       !.precommitCh = s.precommitCh]
    BY DEF Life
  <1>4. SendResult(s, hash) =
          IF s.cm.stale THEN s1
          ELSE IF s.cm.op = "decide"
          THEN [s EXCEPT !.cm = IdleManager, !.prevoteCh = s.prevoteCh, !.precommitCh = pc]
          ELSE [s EXCEPT !.cm = IdleManager, !.prevoteCh = pv, !.precommitCh = s.precommitCh]
    BY DEF SendResult, Life
  <1> HIDE DEF pc, pv, s1
  <1>5. Answered(s, s1)
    BY <1>1, <1>3, ResultAnswered
  <1>6. ASSUME ~s.cm.stale, s.cm.op = "decide"
        PROVE  Answered(s, [s EXCEPT !.cm = IdleManager, !.prevoteCh = s.prevoteCh,
                                     !.precommitCh = pc])
    BY <1>1, <1>2, <1>6, ResultAnswered
  <1>7. ASSUME ~s.cm.stale, s.cm.op # "decide"
        PROVE  Answered(s, [s EXCEPT !.cm = IdleManager, !.prevoteCh = pv,
                                     !.precommitCh = s.precommitCh])
    BY <1>1, <1>2, <1>7, ResultAnswered
  <1>8. Answered(s, SendResult(s, hash))
    BY <1>4, <1>5, <1>6, <1>7
  <1> QED BY <1>5, <1>8 DEF s1

-----------------------------------------------------------------------------
(* Entering a round. *)

\* x is s in the same place, with program counter pc.
Stays(s, x, pc) ==
    /\ x \in Life /\ Ordered(x) /\ x.pc = pc /\ x.h = s.h /\ x.r = s.r
    /\ x.finalized = s.finalized

\* SetStateMachineHeightRound comes before the round entrance.
LEMMA SaveStays ==
    ASSUME NEW s \in Life, Ordered(s), s.pc = "save"
    PROVE  Stays(s, [s EXCEPT !.pc = "enter"], "enter")
  <1> DEFINE x == [s EXCEPT !.pc = "enter"]
  <1>1. x \in Life
    BY DEF Life, PCs
  <1>2. /\ x.pc = "enter" /\ x.h = s.h /\ x.r = s.r /\ x.timer = s.timer
        /\ x.prevoteCh = s.prevoteCh /\ x.precommitCh = s.precommitCh
        /\ x.req = s.req /\ x.cm = s.cm /\ x.finalizing = s.finalizing
        /\ x.finalized = s.finalized /\ x.init = s.init /\ x.vrv = s.vrv
    BY DEF Life
  <1> HIDE DEF x
  <1>3. Fresh(x) /\ Before(x.vrv, x) /\ NotAfter(x.vrv, x) /\ Requested(x) /\ Committable(x)
    BY <1>2 DEF Ordered, Fresh, Unanswered, Before, NotAfter, Requested, Committable
  <1>4. Ordered(x)
    BY <1>2, <1>3 DEF Ordered
  <1> QED BY <1>1, <1>2, <1>4 DEF Stays, x

\* s as sendInitialActionSet prepares it for the round r of height h.
Started(s, h, r) == [Reset(s, h, r) EXCEPT !.pc = "enter"]

\* A state machine that starts enters a round of its store.
LEMMA StartStays ==
    ASSUME NEW s \in Life, Ordered(s), s.pc = "start", NEW h \in Nat \ {0}, NEW r \in Nat,
           NEW x, x = Started(s, h, r)
    PROVE  /\ x \in Life /\ Ordered(x) /\ x.pc = "enter" /\ x.h = h /\ x.r = r
           /\ ~x.finalized
  <1> DEFINE y == Reset(s, h, r)
  <1>0. y = Reset(s, h, r)
    OBVIOUS
  <1>1. /\ s.vrv = NoView /\ s.req = NoRequest /\ ~s.finalized
    BY DEF Ordered, NewStateMachine
  <1> HIDE DEF y
  <1>2. /\ y \in Life /\ Fresh(y) /\ y.h = h /\ y.r = r /\ Committable(y)
        /\ y.vrv = s.vrv /\ y.req = s.req /\ y.finalized = s.finalized
    BY <1>0, ResetFresh
  <1>3. x = [y EXCEPT !.pc = "enter"]
    BY <1>0 DEF Started
  <1>4. x \in Life
    BY <1>2, <1>3 DEF Life, PCs
  <1>5. /\ x.pc = "enter" /\ x.h = y.h /\ x.r = y.r /\ x.timer = y.timer
        /\ x.prevoteCh = y.prevoteCh /\ x.precommitCh = y.precommitCh
        /\ x.req = y.req /\ x.cm = y.cm /\ x.finalizing = y.finalizing
        /\ x.finalized = y.finalized /\ x.vrv = y.vrv
    BY <1>2, <1>3 DEF Life
  <1>6. Fresh(x) /\ Committable(x)
    BY <1>2, <1>5 DEF Fresh, Unanswered, Committable
  <1>7. x.vrv.h = 0 /\ x.req.op = "none"
    BY <1>1, <1>2, <1>5, NoViewType DEF NoRequest
  <1>8. Before(x.vrv, x) /\ NotAfter(x.vrv, x) /\ Requested(x)
    BY <1>2, <1>5, <1>7 DEF Before, NotAfter, Requested
  <1>9. Ordered(x)
    BY <1>5, <1>6, <1>7, <1>8 DEF Ordered
  <1> QED BY <1>1, <1>2, <1>4, <1>5, <1>9

\* x is s with the request to enter the round with the view e.
Entering(s, x, vrv, e) ==
    /\ x \in Life /\ x.pc = "send" /\ x.req.op = "enter"
    /\ x.vrv = vrv /\ x.entered = e
    /\ x.h = s.h /\ x.r = s.r /\ x.timer = s.timer /\ x.cm = s.cm
    /\ x.prevoteCh = s.prevoteCh /\ x.precommitCh = s.precommitCh
    /\ x.finalizing = s.finalizing /\ x.finalized = s.finalized

\* The request to enter a round, with what initializeRLC sets before it.
LEMMA RequestEntering ==
    ASSUME NEW s \in Life, NEW vrv \in SeenView, NEW e \in SeenView,
           NEW p \in BOOLEAN, NEW acts \in Seq(Action)
    PROVE  Entering(s, Request([s EXCEPT !.vrv = vrv, !.proposalCh = p, !.acts = acts,
                                         !.entered = e], "enter", {}, FALSE), vrv, e)
  <1> DEFINE q == [op |-> "enter", choices |-> {}, timed |-> FALSE]
             z == [s EXCEPT !.vrv = vrv, !.proposalCh = p, !.acts = acts, !.entered = e,
                            !.pc = "send", !.req = q]
  <1>1. q \in [op : Asked \cup {"none", "enter"}, choices : SUBSET Hashes, timed : BOOLEAN]
        /\ q.op = "enter"
    OBVIOUS
  <1>2. z = Request([s EXCEPT !.vrv = vrv, !.proposalCh = p, !.acts = acts,
                              !.entered = e], "enter", {}, FALSE)
    BY DEF Request, Life
  <1> HIDE DEF q
  <1>3. z \in Life
    BY <1>1 DEF Life, PCs
  <1>4. Entering(s, z, vrv, e)
    BY <1>1, <1>3 DEF Life, Entering
  <1> QED BY <1>2, <1>4

\* The same in a later round of the process.
LEMMA RequestAgain ==
    ASSUME NEW s \in Life, NEW e \in SeenView
    PROVE  Entering(s, Request([s EXCEPT !.acts = <<>>, !.entered = e], "enter", {}, FALSE),
                    s.vrv, e)
  <1> DEFINE q == [op |-> "enter", choices |-> {}, timed |-> FALSE]
             z == [s EXCEPT !.acts = <<>>, !.entered = e, !.pc = "send", !.req = q]
  <1>1. q \in [op : Asked \cup {"none", "enter"}, choices : SUBSET Hashes, timed : BOOLEAN]
        /\ q.op = "enter"
    OBVIOUS
  <1>2. z = Request([s EXCEPT !.acts = <<>>, !.entered = e], "enter", {}, FALSE)
    BY DEF Request, Life
  <1> HIDE DEF q
  <1>3. z \in Life
    <2>1. <<>> \in Seq(Action)
      OBVIOUS
    <2> QED BY <1>1, <2>1 DEF Life, PCs
  <1>4. Entering(s, z, s.vrv, e)
    BY <1>1, <1>3 DEF Life, Entering
  <1> QED BY <1>2, <1>4

\* The round entrance is requested of the consensus manager in the same place.
LEMMA EnterRequestStays ==
    ASSUME NEW s \in Life, Ordered(s), s.pc = "enter",
           NEW vrv \in SeenView, vrv = s.vrv \/ At(vrv, s),
           NEW e \in SeenView, At(e, s),
           NEW x, Entering(s, x, vrv, e)
    PROVE  Stays(s, x, "send")
  <1>1. Fresh(x) /\ Committable(x) /\ At(x.entered, x) /\ Requested(x)
    BY DEF Entering, Ordered, Fresh, Unanswered, Committable, At, Requested
  <1>2. NotAfter(x.vrv, x)
    <2>1. vrv.h \in Nat /\ vrv.r \in Nat
      BY DEF SeenView
    <2>2. NotAfter(s.vrv, s)
      BY DEF Ordered
    <2> QED BY <2>1, <2>2 DEF NotAfter, At, Entering
  <1>3. Ordered(x)
    BY <1>1, <1>2 DEF Ordered, Entering
  <1> QED BY <1>3 DEF Stays, Entering

\* s after it has asked the driver for the finalization f.
Replayed(s, f) ==
    LET s1 == [s EXCEPT !.acts = <<>>, !.finalizing = f]
    IN Run(IF s.init THEN s1 ELSE MarkCatchingUp(s1))

\* A round that the mirror answers with a committed header: the driver is to
\* finalize it, and no vote is asked for.
LEMMA ReplayMoved ==
    ASSUME NEW s \in Life, Ordered(s), s.pc = "enter",
           NEW f \in [h : Nat, r : Nat, hash : Hashes], f.hash # Nil,
           NEW x, x = Replayed(s, f)
    PROVE  Moved(s, x)
  <1> DEFINE p  == IF s.init THEN s.proposalCh ELSE FALSE
             pv == IF s.init THEN s.prevoteCh ELSE ChNil
             pc == IF s.init THEN s.precommitCh ELSE ChNil
             y  == [s EXCEPT !.acts = <<>>, !.finalizing = f, !.proposalCh = p,
                             !.prevoteCh = pv, !.precommitCh = pc]
  <1>1. x = Run(y)
    <2> DEFINE s1 == [s EXCEPT !.acts = <<>>, !.finalizing = f]
    <2>1. y = IF s.init THEN s1 ELSE MarkCatchingUp(s1)
      BY DEF MarkCatchingUp, Life
    <2> QED BY <2>1 DEF Replayed
  <1>2. /\ p \in BOOLEAN /\ pv \in Answer /\ pc \in Answer
        /\ ~s.init => pv = ChNil /\ pc = ChNil
    BY ChannelStates DEF Life
  <1>3. /\ Before(s.vrv, s) /\ NotAfter(s.vrv, s) /\ s.req.op = "none" /\ s.timer = "none"
        /\ s.init => s.vrv.h = 0
    BY DEF Ordered, Fresh
  <1> HIDE DEF p, pv, pc
  <1>4. y \in Life
    <2>1. <<>> \in Seq(Action)
      OBVIOUS
    <2> QED BY <1>2, <2>1 DEF Life
  <1>5. /\ y.pc = s.pc /\ y.h = s.h /\ y.r = s.r /\ y.timer = s.timer /\ y.vrv = s.vrv
        /\ y.prevoteCh = pv /\ y.precommitCh = pc /\ y.req = s.req
        /\ y.finalizing = f /\ y.finalized = s.finalized /\ y.jump = s.jump
        /\ y.catchup = s.catchup
    BY DEF Life
  <1> HIDE DEF y
  <1>7. Working(y)
    BY <1>3, <1>4, <1>5 DEF Working, Committable, NotAfter
  <1>8. CASE y.jump.h # 0
    <2> DEFINE z == [y EXCEPT !.pc = "run", !.jump = NoView]
    <2>1. x = handleJumpAhead(z, y.jump)
      BY <1>1, <1>8 DEF Run
    <2>2. /\ z.h = y.h /\ z.r = y.r /\ z.finalized = y.finalized /\ z.req = y.req
          /\ z.finalizing = y.finalizing /\ z.vrv = y.vrv
      BY <1>4 DEF Life
    <2>3. z \in Life
      BY <1>4, NoViewType DEF Life, PCs
    <2> HIDE DEF z
    <2>4. Working(z)
      BY <1>7, <2>2, <2>3 DEF Working, Committable, NotAfter
    <2>5. Settled(z, x)
      BY <2>1, <2>4, handleJumpAheadSettled
    <2>6. z.h = s.h /\ z.r = s.r /\ z.finalized = s.finalized
      BY <1>5, <2>2
    <2> QED BY <2>5, <2>6 DEF Settled, Moved
  <1>9. CASE y.jump.h = 0
    <2> DEFINE c == y.catchup \/ y.vrv.h = 0
    <2>1. x = [y EXCEPT !.pc = "run", !.catchup = c]
      BY <1>4, <1>1, <1>9 DEF Run, Life
    <2>2. c \in BOOLEAN /\ (y.vrv.h = 0 => c)
      BY <1>4 DEF Life
    <2> HIDE DEF c
    <2>3. /\ x.pc = "run" /\ x.catchup = c /\ x.req = y.req /\ x.h = y.h /\ x.r = y.r
          /\ x.finalized = y.finalized /\ x.prevoteCh = y.prevoteCh
          /\ x.precommitCh = y.precommitCh /\ x.finalizing = y.finalizing
          /\ x.vrv = y.vrv /\ x.timer = y.timer
      BY <1>4, <2>1 DEF Life
    <2>4. x \in Life
      BY <1>4, <2>1, <2>2 DEF Life, PCs
    <2>5. x.catchup \/ Replaying(x)
      <3>1. CASE s.init
        BY <3>1, <1>3, <1>5, <2>2, <2>3
      <3>2. CASE ~s.init
        BY <3>2, <1>2, <1>3, <1>5, <2>3 DEF Replaying, Before
      <3> QED BY <3>1, <3>2
    <2>6. Requested(x) /\ Committable(x) /\ NotAfter(x.vrv, x) /\ x.req.op = "none"
      BY <1>7, <2>3 DEF Working, Requested, Committable, NotAfter
    <2>7. Ordered(x)
      BY <2>3, <2>5, <2>6 DEF Ordered
    <2>8. x.h = s.h /\ x.r = s.r /\ x.finalized = s.finalized
      BY <1>5, <2>3
    <2> QED BY <2>3, <2>4, <2>7, <2>8 DEF Moved
  <1> QED BY <1>8, <1>9

\* A new state machine is in order, and so is what is left of one that died.
LEMMA NewStateMachineOrdered ==
    ASSUME NEW genesis \in BOOLEAN
    PROVE  /\ NewStateMachine(genesis) \in Life /\ Ordered(NewStateMachine(genesis))
           /\ Down \in Life /\ Ordered(Down) /\ Down.pc = "down"
           /\ ~NewStateMachine(genesis).finalized /\ NewStateMachine(genesis).h = 0
           /\ ~Down.finalized /\ Down.h = 0
  <1>1. /\ NoView \in SeenView /\ NoView.h = 0 /\ NoView.r = 0
        /\ NoRequest \in [op : Asked \cup {"none", "enter"}, choices : SUBSET Hashes,
                          timed : BOOLEAN]
        /\ NoRequest.op = "none"
        /\ IdleManager \in [op : Asked \cup {"idle", "enter"}, choices : SUBSET Hashes,
                            stale : BOOLEAN, room : BOOLEAN]
        /\ NoFinalize \in [h : Nat, r : Nat, hash : Hashes] /\ NoFinalize.h = 0
        /\ ChNil \in Answer
    BY NoViewType, NilIsHash, ChannelStates DEF NoRequest, IdleManager, NoFinalize
  <1>2. ASSUME NEW g \in BOOLEAN, NEW pc \in {"start", "down"},
               NEW x, \/ pc = "start" /\ x = NewStateMachine(g)
                      \/ pc = "down" /\ x = [NewStateMachine(g) EXCEPT !.pc = "down"]
        PROVE  /\ x \in Life /\ x.pc = pc /\ ~x.finalized /\ x.h = 0
               /\ Requested(x) /\ Committable(x) /\ NotAfter(x.vrv, x)
               /\ x.genesis = g
    <2> HIDE DEF NoView, NoRequest, IdleManager, NoFinalize
    <2>1. x = [pc |-> pc, genesis |-> g, init |-> TRUE, lenient |-> FALSE,
               catchup |-> FALSE,
               h |-> 0, r |-> 0, step |-> "invalid", timer |-> "none", hc |-> FALSE,
               vrv |-> NoView, entered |-> NoView, jump |-> NoView,
               proposalCh |-> FALSE, prevoteCh |-> ChNil, precommitCh |-> ChNil,
               finalizeCh |-> FALSE, finalizing |-> NoFinalize, finalized |-> FALSE,
               req |-> NoRequest, cm |-> IdleManager, acts |-> <<>>]
      BY <1>2 DEF NewStateMachine
    <2>2. <<>> \in Seq(Action)
      OBVIOUS
    <2>3. x \in Life
      BY <1>1, <2>1, <2>2 DEF Life, PCs, Steps, Timers
    <2>4. /\ x.pc = pc /\ ~x.finalized /\ x.h = 0 /\ x.r = 0 /\ x.vrv = NoView
          /\ x.req = NoRequest /\ x.finalizing = NoFinalize /\ x.genesis = g
      BY <2>1
    <2> QED
      BY <1>1, <2>3, <2>4 DEF Requested, Committable, NotAfter
  <1>4. /\ NewStateMachine(genesis) \in Life /\ NewStateMachine(genesis).pc = "start"
        /\ ~NewStateMachine(genesis).finalized /\ NewStateMachine(genesis).h = 0
        /\ Ordered(NewStateMachine(genesis))
    <2> DEFINE x == NewStateMachine(genesis)
    <2>1. x = NewStateMachine(genesis)
      OBVIOUS
    <2> HIDE DEF x
    <2>2. /\ x \in Life /\ x.pc = "start" /\ ~x.finalized /\ x.h = 0
          /\ Requested(x) /\ Committable(x) /\ NotAfter(x.vrv, x)
          /\ x.genesis = genesis
      BY <1>2, <2>1
    <2> QED BY <2>1, <2>2 DEF Ordered, x
  <1>5. /\ Down \in Life /\ Ordered(Down) /\ Down.pc = "down"
        /\ ~Down.finalized /\ Down.h = 0
    <2>1. Down = [NewStateMachine(FALSE) EXCEPT !.pc = "down"]
      BY DEF Down
    <2>2. /\ Down \in Life /\ Down.pc = "down" /\ ~Down.finalized /\ Down.h = 0
          /\ Requested(Down) /\ Committable(Down) /\ NotAfter(Down.vrv, Down)
      BY <1>2, <2>1
    <2> QED BY <2>2 DEF Ordered
  <1> QED BY <1>4, <1>5

-----------------------------------------------------------------------------
(* What the handlers leave alone: the actions on their way to the mirror, the *)
(* view the round was entered with, and the last view, unless it is replaced  *)
(* by a newer one of its height.                                              *)

Fields == {"pc", "lenient", "catchup", "h", "vrv", "entered", "acts"}

Shaped(s) == Fields \subseteq DOMAIN s

\* The last view of s is the one a proposal is made from: in the main loop and
\* on the way there, or in a round that is entered on behalf of a view update.
Sees(s) == s.lenient \/ s.pc = "run" \/ (s.pc = "send" /\ s.req.op # "enter")

\* x has these of s, and is at its height.
Still(s, x) ==
    /\ Shaped(x) /\ x.h = s.h /\ x.vrv = s.vrv
    /\ x.acts = s.acts /\ x.entered = s.entered
    /\ s.catchup => x.catchup

\* x has these of s or v for the last view, or is on its way to another height.
Calm(s, x, v) ==
    /\ Shaped(x) /\ x.acts = s.acts /\ x.entered = s.entered
    /\ s.catchup => x.catchup
    /\ \/ x.h = s.h /\ (x.vrv.h = s.vrv.h \/ x.vrv.h = s.h)
       \/ x.pc = "save" /\ ~x.lenient
    /\ x.vrv = s.vrv \/ x.vrv = v

\* The state machine's record has the fields.
LEMMA LifeShaped == ASSUME NEW s \in Life PROVE Shaped(s)
  BY DEF Life, Shaped, Fields

\* A handler that does nothing.
LEMMA StillItself == ASSUME NEW s, Shaped(s) PROVE Still(s, s)
  BY DEF Still

\* One operation after the other.
LEMMA StillBoth ==
    ASSUME NEW s, NEW y, NEW x, Still(s, y), Still(y, x) PROVE Still(s, x)
  BY DEF Still

\* An operation and then one that may leave the height.
LEMMA StillCalm ==
    ASSUME NEW s, NEW y, NEW x, NEW v, Still(s, y), Calm(y, x, v) PROVE Calm(s, x, v)
  BY DEF Still, Calm

\* Staying at the height.
LEMMA StillIsCalm == ASSUME NEW s, NEW x, NEW v, Still(s, x) PROVE Calm(s, x, v)
  BY DEF Still, Calm

\* What only touches the round lifecycle.
LEMMA FieldsStill ==
    ASSUME NEW s, Shaped(s)
    PROVE  /\ \A t : Still(s, [s EXCEPT !.timer = t])
           /\ \A t : Still(s, [s EXCEPT !.step = t])
           /\ \A a, t : Still(s, [s EXCEPT !.step = a, !.timer = t])
           /\ \A c : Still(s, [s EXCEPT !.cm = c])
           /\ \A f : Still(s, [s EXCEPT !.finalizing = f])
           /\ \A l : Still(s, [s EXCEPT !.lenient = l])
           /\ Still(s, SMPanic(s)) /\ Still(s, Quit(s))
           /\ \A op, choices, timed : Still(s, Request(s, op, choices, timed))
           /\ \A v : Still(s, Decide(s, v))
           /\ \A v : Still(s, FinalizeRequest(s, v))
  BY DEF Shaped, Fields, Still, SMPanic, Quit, Request, Decide, FinalizeRequest

\* Leaving a round.
LEMMA advanceRoundStill ==
    ASSUME NEW s, Shaped(s)
    PROVE  /\ Still(s, advanceRound(s)) /\ advanceRound(s).lenient = s.lenient
           /\ Still(s, [advanceRound(s) EXCEPT !.lenient = TRUE])
  BY DEF advanceRound, Reset, Shaped, Fields, Still

\* Leaving a height.
LEMMA advanceHeightCalm ==
    ASSUME NEW s, Shaped(s), ~s.lenient, NEW v PROVE Calm(s, advanceHeight(s), v)
  BY DEF advanceHeight, Reset, Shaped, Fields, Calm

\* Jumping ahead, and going back to the main loop.
LEMMA RunStill ==
    ASSUME NEW s, Shaped(s) PROVE (\A v : Still(s, handleJumpAhead(s, v))) /\ Still(s, Run(s))
  <1>1. ASSUME NEW y, Shaped(y), NEW v PROVE Still(y, handleJumpAhead(y, v))
    BY <1>1, FieldsStill, advanceRoundStill DEF handleJumpAhead
  <1>2. ASSUME s.jump.h = 0 PROVE Still(s, Run(s))
    BY <1>2 DEF Run, Shaped, Fields, Still
  <1>3. ASSUME s.jump.h # 0 PROVE Still(s, Run(s))
    <2> DEFINE y == [s EXCEPT !.pc = "run", !.jump = NoView]
    <2>1. Still(s, y)
      BY DEF Shaped, Fields, Still
    <2>2. Run(s) = handleJumpAhead(y, s.jump)
      BY <1>3 DEF Run
    <2> HIDE DEF y
    <2>3. Still(y, handleJumpAhead(y, s.jump))
      BY <1>1, <2>1 DEF Still
    <2> QED BY <2>1, <2>2, <2>3, StillBoth
  <1> QED BY <1>1, <1>2, <1>3

\* The commit wait.
LEMMA beginCommitStill ==
    ASSUME NEW s, Shaped(s), NEW v
    PROVE  Still(s, beginCommit(s, v)) /\ beginCommit(s, v).lenient = s.lenient
  BY DEF beginCommit, FinalizeRequest, Shaped, Fields, Still

\* The end of a round.
LEMMA FinishRoundStill ==
    ASSUME NEW s, Shaped(s), NEW v
    PROVE  Still(s, FinishRound(s, v)) /\ Still(s, FinishRound([s EXCEPT !.timer = "none"], v))
  <1>1. ASSUME NEW y, Shaped(y) PROVE Still(y, FinishRound(y, v))
    BY <1>1, advanceRoundStill, beginCommitStill DEF FinishRound
  <1> DEFINE y == [s EXCEPT !.timer = "none"]
  <1>2. Still(s, y)
    BY FieldsStill
  <1> HIDE DEF y
  <1>3. Still(s, FinishRound(y, v))
    BY <1>1, <1>2, StillBoth DEF Still
  <1> QED BY <1>1, <1>3 DEF y

\* Requests and other steps after a change of step and timer.
LEMMA ResteppedStill ==
    ASSUME NEW s, Shaped(s), NEW y,
           \/ \E a, t : y = [s EXCEPT !.step = a, !.timer = t]
           \/ \E a, t : y = [[s EXCEPT !.timer = t] EXCEPT !.step = a]
    PROVE  /\ Still(s, y)
           /\ \A v : Still(s, Decide(y, v))
           /\ \A op, choices, timed : Still(s, Request(y, op, choices, timed))
  <1>1. Still(s, y)
    BY DEF Shaped, Fields, Still
  <1>2. Shaped(y)
    BY <1>1 DEF Still
  <1> QED BY <1>1, <1>2, FieldsStill, StillBoth

\* The handlers of view updates, one for each step.
LEMMA ViewUpdatesStill ==
    ASSUME NEW s, Shaped(s), NEW v
    PROVE  /\ Still(s, handleProposalViewUpdate(s, v))
           /\ Still(s, handlePrevoteViewUpdate(s, v))
           /\ Still(s, handlePrecommitViewUpdate(s, v))
           /\ Still(s, handleCommitWaitViewUpdate(s, v))
  <1> DEFINE a == [s EXCEPT !.step = "precommitDelay", !.timer = "precommitDelay"]
             b == [[s EXCEPT !.timer = "none"] EXCEPT !.step = "awaitingPrecommits"]
             c == [s EXCEPT !.step = "prevoteDelay", !.timer = "prevoteDelay"]
  <1>1. /\ Still(s, a) /\ Still(s, Decide(a, v)) /\ Still(s, Decide(b, v)) /\ Still(s, c)
        /\ \A op, choices, timed : /\ Still(s, Request(b, op, choices, timed))
                                   /\ Still(s, Request(c, op, choices, timed))
                                   /\ Still(s, Request(s, op, choices, timed))
    BY ResteppedStill, FieldsStill
  <1>2. Still(s, FinishRound([s EXCEPT !.timer = "none"], v)) /\ Still(s, s)
        /\ Still(s, [advanceRound(s) EXCEPT !.lenient = TRUE])
    BY FinishRoundStill, StillItself, advanceRoundStill
  <1>3. handleProposalViewUpdate(s, v)
          \in {FinishRound([s EXCEPT !.timer = "none"], v), Decide(a, v), Decide(b, v), c, s,
               Request(b, "choose", Headers(v.phs), TRUE),
               Request(c, "consider", Headers(v.phs), TRUE),
               Request(s, "consider", Headers(v.phs), TRUE)}
    BY DEF handleProposalViewUpdate
  <1>4. handlePrevoteViewUpdate(s, v)
          \in {FinishRound([s EXCEPT !.timer = "none"], v), Decide(a, v), Decide(b, v), c, s}
    BY DEF handlePrevoteViewUpdate
  <1>5. handlePrecommitViewUpdate(s, v)
          \in {FinishRound([s EXCEPT !.timer = "none"], v), a, s,
               [advanceRound(s) EXCEPT !.lenient = TRUE]}
    BY DEF handlePrecommitViewUpdate
  <1>6. Still(s, handleCommitWaitViewUpdate(s, v))
    BY <1>2, FieldsStill DEF handleCommitWaitViewUpdate
  <1> HIDE DEF a, b, c
  <1>7. Still(s, handleProposalViewUpdate(s, v))
    BY <1>1, <1>2, <1>3
  <1>8. Still(s, handlePrevoteViewUpdate(s, v)) /\ Still(s, handlePrecommitViewUpdate(s, v))
    BY <1>1, <1>2, <1>4, <1>5
  <1> QED BY <1>6, <1>7, <1>8

\* A view update leaves the last view, or puts one of its place there.
LEMMA handleViewUpdateCalm ==
    ASSUME NEW s, Shaped(s), NEW v, NEW jump,
           v.h = 0 \/ (s.step \in Steps /\ s.step # "invalid")
    PROVE  Calm(s, handleViewUpdate(s, v, jump), v)
  <1> DEFINE s1 == CASE s.step = "awaitingProposal" -> handleProposalViewUpdate(s, v)
                     [] s.step \in {"awaitingPrevotes", "prevoteDelay"}
                          -> handlePrevoteViewUpdate(s, v)
                     [] s.step \in {"awaitingPrecommits", "precommitDelay"}
                          -> handlePrecommitViewUpdate(s, v)
                     [] s.step \in {"commitWait", "awaitingFinalization"}
                          -> handleCommitWaitViewUpdate(s, v)
             s2 == [s1 EXCEPT !.jump = jump,
                              !.vrv = IF v.h = @.h /\ v.r = @.r THEN v ELSE @]
  <1>1. v.h # 0 => Still(s, s1)
    BY ViewUpdatesStill DEF Steps
  <1> HIDE DEF s1
  <1>2. v.h # 0 =>
          /\ Shaped(s2) /\ s2.h = s.h /\ s2.acts = s.acts /\ s2.entered = s.entered
          /\ s.catchup => s2.catchup
          /\ s2.vrv.h = s.vrv.h /\ (s2.vrv = s.vrv \/ s2.vrv = v)
    BY <1>1 DEF Still, Shaped, Fields
  <1>3. \/ handleViewUpdate(s, v, jump) \in {handleJumpAhead(s, jump), s, SMPanic(s)}
        \/ v.h # 0 /\ handleViewUpdate(s, v, jump) \in {Run(s2), s2}
    BY DEF handleViewUpdate, s1
  <1> HIDE DEF s2
  <1>4. v.h # 0 => Calm(s, s2, v) /\ Calm(s, Run(s2), v)
    <2>1. v.h # 0 => Still(s2, Run(s2))
      BY <1>2, RunStill
    <2> QED BY <1>2, <2>1 DEF Calm, Still
  <1>5. Calm(s, s, v) /\ Calm(s, SMPanic(s), v) /\ Calm(s, handleJumpAhead(s, jump), v)
    BY StillItself, FieldsStill, RunStill, StillIsCalm
  <1> QED BY <1>3, <1>4, <1>5

\* The view that a round was entered with becomes the last one, unless the
\* round is left, or begins without it on behalf of a view update.
LEMMA beginRoundLiveCalm ==
    ASSUME NEW s \in Life, At(s.entered, s), NEW x, x = beginRoundLive(s)
    PROVE  Calm(s, x, s.entered) /\ (x.vrv = s.entered \/ (Sees(x) => s.lenient))
  <1> DEFINE v    == s.entered
             step == GetStepFromVoteSummary(v)
             s1   == [s EXCEPT !.step = step, !.vrv = v]
             p1   == [s1 EXCEPT !.timer = "proposal"]
             s2   == beginCommit(s, v)
             s3   == [s2 EXCEPT !.vrv = v]
             Took(y) == /\ Shaped(y) /\ y.h = s.h /\ y.vrv = v /\ y.acts = s.acts
                        /\ y.entered = s.entered /\ (s.catchup => y.catchup)
  <1>0. Shaped(s)
    BY LifeShaped
  <1>1. Took(s1) /\ Took(p1)
    BY <1>0 DEF Shaped, Fields
  <1>2. Still(s, s2) /\ s2.lenient = s.lenient
    BY <1>0, beginCommitStill
  <1>3. Took(s3)
    <2> HIDE DEF s2
    <2> QED BY <1>2 DEF Still, Shaped, Fields
  <1>4. \/ x \in {Request(p1, "consider", Headers(v.phs), FALSE), Run(p1), Decide(s1, v), Run(s3)}
        \/ x \in {advanceRound(s), Quit(s2), SMPanic(s)} \/ (x = Run(s2) /\ s.lenient)
    BY StepType DEF beginRoundLive
  <1> HIDE DEF s1, p1, s2, s3
  <1>5. ASSUME NEW y, Took(y), Still(y, x) PROVE Took(x)
    BY <1>5 DEF Still
  <1>6. CASE x \in {Request(p1, "consider", Headers(v.phs), FALSE), Run(p1), Decide(s1, v), Run(s3)}
    <2>0. /\ Still(p1, Request(p1, "consider", Headers(v.phs), FALSE)) /\ Still(p1, Run(p1))
          /\ Still(s1, Decide(s1, v)) /\ Still(s3, Run(s3))
      BY <1>1, <1>3, FieldsStill, RunStill
    <2>1. Still(p1, x) \/ Still(s1, x) \/ Still(s3, x)
      BY <1>6, <2>0
    <2>2. Took(x)
      BY <1>1, <1>3, <1>5, <2>1
    <2> QED BY <2>2 DEF Calm, At
  <1>7. CASE x \in {advanceRound(s), Quit(s2), SMPanic(s)} \/ (x = Run(s2) /\ s.lenient)
    <2>0. /\ Still(s, advanceRound(s)) /\ Still(s, SMPanic(s))
          /\ Still(s2, Quit(s2)) /\ Still(s2, Run(s2))
      <3>1. Shaped(s2)
        BY <1>2 DEF Still
      <3> QED BY <1>0, <3>1, advanceRoundStill, FieldsStill, RunStill
    <2>1. Still(s, x)
      BY <1>2, <1>7, <2>0, StillBoth
    <2>2. Sees(x) => s.lenient
      <3>1. advanceRound(s).lenient = s.lenient /\ advanceRound(s).pc = "save"
        BY <1>0, advanceRoundStill DEF advanceRound, Reset, Shaped, Fields
      <3>2. Quit(s2).lenient = s.lenient /\ Quit(s2).pc = "quit"
        BY <1>2 DEF Quit, Still, Shaped, Fields
      <3>3. SMPanic(s).lenient = s.lenient /\ SMPanic(s).pc = "panic"
        BY <1>0 DEF SMPanic, Shaped, Fields
      <3> QED BY <1>7, <3>1, <3>2, <3>3 DEF Sees
    <2> QED BY <2>1, <2>2, StillIsCalm
  <1> QED BY <1>4, <1>6, <1>7

\* The other events of the main loop.
LEMMA EventsCalm ==
    ASSUME NEW s \in Life, NEW v
    PROVE  /\ Calm(s, handleFinalization(s), v)
           /\ Calm(s, handleTimerElapsed(s), v)
           /\ Calm(s, handleHeightCommitted(s), v)
           /\ \A b : Calm(s, handleBlockDataArrival(s, b), v)
  <1>0. Shaped(s)
    BY LifeShaped
  <1>1. ASSUME NEW y, Still(s, y), ~y.lenient
        PROVE  Calm(s, EndCommitWait(y), v) /\ Calm(s, advanceHeight(y), v) /\ Calm(s, y, v)
    <2>1. Shaped(y) /\ Calm(s, y, v)
      BY <1>1, StillIsCalm DEF Still
    <2>2. Calm(y, advanceHeight(y), v) /\ Still(y, [y EXCEPT !.step = "awaitingFinalization"])
      BY <1>1, <2>1, advanceHeightCalm, FieldsStill
    <2> QED BY <1>1, <2>1, <2>2, StillCalm, StillIsCalm DEF EndCommitWait
  <1>2. Calm(s, handleFinalization(s), v)
    <2> DEFINE y == [s EXCEPT !.finalized = TRUE, !.finalizeCh = FALSE,
                              !.finalizing = NoFinalize, !.lenient = FALSE]
    <2>1. Still(s, y) /\ ~y.lenient
      BY <1>0 DEF Still, Shaped, Fields
    <2>2. handleFinalization(s) \in {advanceHeight(y), y}
      BY DEF handleFinalization
    <2> HIDE DEF y
    <2> QED BY <1>1, <2>1, <2>2
  <1>3. Calm(s, handleTimerElapsed(s), v)
    <2> DEFINE y == [s EXCEPT !.timer = "none", !.lenient = FALSE]
               a == [y EXCEPT !.step = "awaitingPrevotes"]
               b == [y EXCEPT !.step = "awaitingPrecommits"]
    <2>1. Still(s, y) /\ ~y.lenient /\ Still(s, a) /\ Still(s, b)
      BY <1>0 DEF Still, Shaped, Fields
    <2>2. handleTimerElapsed(s) \in {Request(a, "choose", Headers(s.vrv.phs), FALSE),
                                     Decide(b, s.vrv), advanceRound(y), EndCommitWait(y),
                                     SMPanic(s)}
      BY DEF handleTimerElapsed
    <2> HIDE DEF y, a, b
    <2>3. Shaped(y) /\ Shaped(a) /\ Shaped(b)
      BY <2>1 DEF Still
    <2>4. /\ Still(s, Request(a, "choose", Headers(s.vrv.phs), FALSE))
          /\ Still(s, Decide(b, s.vrv)) /\ Still(s, advanceRound(y)) /\ Still(s, SMPanic(s))
      BY <1>0, <2>1, <2>3, FieldsStill, advanceRoundStill, StillBoth
    <2> QED BY <1>1, <2>1, <2>2, <2>4, StillIsCalm
  <1>4. Calm(s, handleHeightCommitted(s), v)
    <2> DEFINE y == [s EXCEPT !.hc = FALSE, !.timer = "none", !.lenient = FALSE]
    <2>1. Still(s, y) /\ ~y.lenient
      BY <1>0 DEF Still, Shaped, Fields
    <2>2. handleHeightCommitted(s) \in {y, EndCommitWait(y), SMPanic(s)}
      BY DEF handleHeightCommitted
    <2> HIDE DEF y
    <2>3. Calm(s, SMPanic(s), v)
      BY <1>0, FieldsStill, StillIsCalm
    <2> QED BY <1>1, <2>1, <2>2, <2>3
  <1>5. ASSUME NEW b PROVE Calm(s, handleBlockDataArrival(s, b), v)
    BY <1>0, FieldsStill, StillItself, StillIsCalm DEF handleBlockDataArrival
  <1> QED BY <1>2, <1>3, <1>4, <1>5

\* The consensus manager.
LEMMA ManagerStill ==
    ASSUME NEW s \in Life
    PROVE  /\ Still(s, TakeRequest(s)) /\ (s.req.op = "enter" =>
                TakeRequest(s).pc = "wait" /\ TakeRequest(s).lenient = s.lenient)
           /\ \A hash : Still(s, SendResult(s, hash)) /\ (Sees(SendResult(s, hash)) => Sees(s))
           /\ Still(s, [s EXCEPT !.cm = IdleManager])
           /\ Sees([s EXCEPT !.cm = IdleManager]) => Sees(s)
  <1>0. Shaped(s)
    BY LifeShaped
  <1>1. Still(s, TakeRequest(s)) /\ (s.req.op = "enter" =>
          TakeRequest(s).pc = "wait" /\ TakeRequest(s).lenient = s.lenient)
    <2> DEFINE c == [IdleManager EXCEPT !.op = s.req.op, !.choices = s.req.choices]
               y == [s EXCEPT !.req = NoRequest, !.cm = c]
    <2>1. TakeRequest(s) = IF s.req.op = "enter" THEN [y EXCEPT !.pc = "wait"] ELSE Run(y)
      BY DEF TakeRequest
    <2> HIDE DEF c
    <2>2. Still(s, y) /\ y.lenient = s.lenient
      BY <1>0 DEF Still, Shaped, Fields
    <2> HIDE DEF y
    <2>3. /\ Still(y, [y EXCEPT !.pc = "wait"]) /\ [y EXCEPT !.pc = "wait"].pc = "wait"
          /\ [y EXCEPT !.pc = "wait"].lenient = y.lenient
      BY <2>2 DEF Still, Shaped, Fields
    <2>4. Still(y, Run(y))
      BY <2>2, RunStill DEF Still
    <2> QED BY <2>1, <2>2, <2>3, <2>4, StillBoth
  <1>2. ASSUME NEW hash
        PROVE  Still(s, SendResult(s, hash)) /\ (Sees(SendResult(s, hash)) => Sees(s))
    BY <1>0 DEF SendResult, Still, Shaped, Fields, Sees, Life
  <1>3. Still(s, [s EXCEPT !.cm = IdleManager])
        /\ (Sees([s EXCEPT !.cm = IdleManager]) => Sees(s))
    BY <1>0 DEF Still, Shaped, Fields, Sees, Life
  <1> QED BY <1>1, <1>2, <1>3
=============================================================================
