-------------------------------- MODULE Engine -------------------------------
(***************************************************************************)
(* The engine (tm/tmengine): the mirror of module Mirror and the state     *)
(* machine of module StateMachine in one process, joined by three channels *)
(* (round entrances, the actions of the current round, round views) and    *)
(* one that the mirror closes when a height is committed.  Around them:    *)
(* the consensus strategy, the driver that finalizes blocks, timers, which *)
(* may elapse at any time, and the state machine's three stores, which     *)
(* survive a crash.  The signer is one of the validators.                  *)
(*                                                                         *)
(* Module Mirror has a looser idea of what a state machine may do; that it *)
(* covers this one is the property ImplementsMirror.                       *)
(***************************************************************************)
EXTENDS Mirror, StateMachine

CONSTANTS
    ResumeAt,     \* the height at which the process is first seen: the initial
                  \* one, or a later one after a restart
    SlowStrategy  \* whether a strategy call may take longer than 100 ms

ASSUME EngineAssumption ==
    /\ InitialHeight = 1
    /\ ResumeAt \in Heights
    /\ SlowStrategy \in BOOLEAN

VARIABLES
    sm,    \* the state machine with its consensus manager
    store  \* state machine store, finalization store and action store

engineVars == <<kernel, hs, phQueue, crashes, sm, store>>
mirrorVars == <<kernel, hs, phQueue, crashes>>

NoVote == -1
NoActions == [ph |-> NoProposal, prevote |-> NoVote, precommit |-> NoVote]

\* Heights before ResumeAt: the signer's proposal was committed in round 0 with
\* the precommits of all validators, and finalized.
Past == InitialHeight..(ResumeAt - 1)
PastRounds == Past \X {0}
PastProofs == [b \in Hashes |-> IF b = 1 THEN Val ELSE {}]
PastActions(h) ==
    [ph |-> [h |-> h, r |-> 0, hash |-> 1, by |-> OwnKey, prevR |-> 0,
             prev |-> IF h - 1 \in Past THEN PastProofs ELSE NoProofs],
     prevote |-> NoVote, precommit |-> 1]
PastDisk ==
    [EmptyDisk EXCEPT
       !.nhr = [vh |-> ResumeAt, vr |-> 0, ch |-> ResumeAt - 1, cr |-> 0],
       !.phs = [x \in HR |-> IF x \in PastRounds
                             THEN {[hash |-> 1, by |-> OwnKey]} ELSE {}],
       !.votes["precommit"] = [x \in HR |-> IF x \in PastRounds
                                            THEN PastProofs ELSE NoProofs],
       !.headers = [h \in Heights |-> IF h \in Past
                      THEN [hash |-> 1, r |-> 0, proofs |-> PastProofs] ELSE @[h]]]
PastStore ==
    [hr   |-> IF Past = {} THEN <<0, 0>> ELSE <<ResumeAt, 0>>,
     fin  |-> [h \in Heights |-> IF h \in Past THEN 1 ELSE Nil],
     acts |-> [x \in HR |-> IF x \in PastRounds THEN PastActions(x[1]) ELSE NoActions]]

EngineInit ==
    /\ kernel = IF Past = {} THEN NewKernel(EmptyDisk, Nil) ELSE NewKernel(PastDisk, 1)
    /\ hs = [c \in Handlers |-> Idle]
    /\ phQueue = <<>>
    /\ crashes = 0
    /\ sm = NewStateMachine(Past = {})
    /\ store = PastStore

\* maybeInitializeChain stored a finalization for the height before the first.
HasFinalization(h) == h = InitialHeight - 1 \/ (h \in Heights /\ store.fin[h] # Nil)

\* A panic of either goroutine ends the process; after one of the state machine
\* nothing happens but its death (EngineCrash).
Down == [NewStateMachine(FALSE) EXCEPT !.pc = "down"]
Alive == kernel.up /\ sm.pc # "panic"
Survives(s) == sm' = IF kernel'.up THEN s ELSE Down

-----------------------------------------------------------------------------
(* Steps of the mirror that the state machine takes no part in. *)

\* Only the state machine makes votes and proposals with its own key, and it
\* records them before anybody else can see them.
Cast(kind, h, r, proofs) ==
    \A b \in Hashes : OwnKey \in proofs[b] =>
      <<h, r>> \in HR /\ store.acts[<<h, r>>][kind] = b

Made(p) ==
    /\ p.by = OwnKey => store.acts[<<p.h, p.r>>].ph = p
    /\ Cast("precommit", p.h - 1, p.prevR, p.prev)

\* What handler c goes on with.
Brings(c) ==
    LET g == hs'[c]
    IN Made(g.ph) /\ Cast(g.msg.kind, g.msg.h, g.msg.r, g.msg.proofs)

MirrorAlone ==
    /\ Alive
    /\ \/ \E c \in Handlers : HandlerNext(c) /\ Brings(c)
       \/ AddQueuedPH
       \/ \E p \in Proposals : Made(p) /\ AddFetchedPH(p)
       \/ \E c \in ReplayedHeaders, room \in FetchRooms :
            Cast("precommit", c.h, c.r, c.proofs) /\ Replay(c, room)
       \/ SendToGossip
       \/ SendLagState
    /\ Survives(sm)
    /\ UNCHANGED store

EngineCrash ==
    /\ Crash
    /\ sm' = Down
    /\ UNCHANGED store

\* The chain is initialized by now: the new process gets a zero genesis.
EngineRestart ==
    /\ Restart
    /\ sm' = NewStateMachine(FALSE)
    /\ UNCHANGED store

-----------------------------------------------------------------------------
(* Entering a round. *)

GenesisHeight == IF sm.genesis THEN InitialHeight ELSE 0

StartPlace ==
    LET x == IF store.hr[1] = 0 THEN <<GenesisHeight, 0>> ELSE store.hr
    IN IF HasFinalization(x[1]) THEN <<x[1] + 1, 0>> ELSE x

\* Asks for the previous height's finalization instead of the one before.
LoadsValidatorsOffByOne(h) ==
    /\ HasFinalization(h - 2)
    /\ h - 4 \in 0..GenesisHeight \/ HasFinalization(h - 4)

\* The validator sets for a height past the genesis.  h - 2 and h - 3 are
\* uint64: below zero they wrap around to heights without a finalization.
LoadsValidators(h) ==
    /\ HasFinalization(h - 2)
    /\ h - 3 \in 0..GenesisHeight \/ HasFinalization(h - 3)

SMOnly(s) ==
    /\ sm' = s
    /\ UNCHANGED <<kernel, hs, phQueue, crashes, store>>

\* sendInitialActionSet, up to the round entrance.
SMStart ==
    LET x == StartPlace
    IN /\ Alive
       /\ sm.pc = "start"
       /\ SMOnly(IF x = <<GenesisHeight, 0>> \/ LoadsValidators(x[1])
                 THEN [Reset(sm, x[1], x[2]) EXCEPT !.pc = "enter"] ELSE Quit(sm))

\* SetStateMachineHeightRound, in advanceHeight and advanceRound.
SMSave ==
    /\ Alive
    /\ sm.pc = "save"
    /\ sm' = [sm EXCEPT !.pc = "enter"]
    /\ store' = [store EXCEPT !.hr = <<sm.h, sm.r>>]
    /\ UNCHANGED mirrorVars

AtGenesis == sm.genesis /\ <<sm.h, sm.r>> = <<InitialHeight, 0>>

\* Does not send a recorded proposal again.
InitialLiveForgets(v) ==
    LET phs == rejectMismatchedProposedHeaders(v.phs)
        s1 == [sm EXCEPT
                 !.vrv = IF AtGenesis THEN @ ELSE v,
                 !.proposalCh = ~\E p \in phs : p.by = OwnKey,
                 !.acts = <<>>, !.entered = [v EXCEPT !.phs = phs]]
    IN IF AtGenesis \/ HasFinalization(sm.h - 1)
       THEN Request(s1, "enter", {}, FALSE) ELSE Quit(sm)

\* The first round of a process.  A proposal that is recorded but did not reach
\* the mirror is sent again.
InitialLive(v) ==
    LET own      == store.acts[<<sm.h, sm.r>>].ph
        phs      == rejectMismatchedProposedHeaders(v.phs)
        proposed == \E p \in phs : p.by = OwnKey
        resend   == ~proposed /\ own # NoProposal
        s1 == [sm EXCEPT
                 !.vrv = IF AtGenesis THEN @ ELSE v,
                 !.proposalCh = ~proposed /\ ~resend,
                 !.acts = IF resend THEN <<[kind |-> "ph", ph |-> own]>> ELSE <<>>,
                 !.entered = [v EXCEPT !.phs = phs \cup
                    IF resend THEN {[hash |-> own.hash, by |-> OwnKey]} ELSE {}]]
    IN IF AtGenesis \/ HasFinalization(sm.h - 1)
       THEN Request(s1, "enter", {}, FALSE) ELSE Quit(sm)

EnterLive(v) ==
    IF sm.init THEN InitialLive(v)
    ELSE Request([sm EXCEPT !.acts = <<>>, !.entered = v], "enter", {}, FALSE)

\* The mirror answers with a committed header, which the driver is to finalize.
EnterReplay(c) ==
    LET s1 == [sm EXCEPT !.acts = <<>>,
                         !.finalizing = [h |-> sm.h, r |-> c.r, hash |-> c.hash]]
    IN Run(IF sm.init THEN s1 ELSE MarkCatchingUp(s1))

SMEnter ==
    LET id == FindView(kernel, sm.h, sm.r)
    IN /\ Alive
       /\ sm.pc = "enter"
       /\ <<sm.h, sm.r>> \in SMRounds
       /\ KernelStep(handleStateMachineRoundEntrance(kernel, sm.h, sm.r), hs, phQueue)
       /\ Survives(IF id \in FoundIDs THEN EnterLive(Seen(GetView(kernel, id)))
                   ELSE EnterReplay(kernel.disk.headers[sm.h]))
       /\ UNCHANGED store

-----------------------------------------------------------------------------
(* The consensus manager and the strategy it calls. *)

CMTakeRequest ==
    /\ Alive
    /\ sm.pc = "send"
    /\ sm.cm.op = "idle"
    /\ SMOnly(TakeRequest(sm))

\* "TODO: handle blocked send to ConsiderProposedBlocksRequests"
SendTimeout ==
    /\ Alive
    /\ SlowStrategy
    /\ sm.pc = "send"
    /\ sm.req.timed
    /\ sm.cm.op # "idle"
    /\ SMOnly(SMPanic(sm))

EnterRoundReturns ==
    /\ Alive
    /\ sm.pc = "wait"
    /\ SMOnly(beginRoundLive([sm EXCEPT !.cm = IdleManager]))

\* ErrProposedBlockChoiceNotReady
NotReady ==
    /\ Alive
    /\ sm.cm.op = "consider"
    /\ SMOnly([sm EXCEPT !.cm = IdleManager])

StrategyChooses(hash) ==
    /\ Alive
    /\ sm.cm.op \in {"consider", "choose", "decide"}
    /\ hash \in sm.cm.choices
    /\ ResultRoom(sm)
    /\ SMOnly(SendResult(sm, hash))

-----------------------------------------------------------------------------
(* The main loop of the state machine. *)

Live == Alive /\ sm.pc = "run" /\ ~sm.catchup

ViewUpdate ==
    LET o == StateMachineOutput(kernel.sm)
    IN /\ Live
       /\ SendToStateMachine
       /\ sm' = handleViewUpdate(sm, Seen(o.vrv), Seen(o.jump))
       /\ UNCHANGED store

\* Replaces what is recorded.
ActUnchecked(field, value, none, s) ==
    /\ UNCHANGED mirrorVars
    /\ sm' = s
    /\ store' = [store EXCEPT !.acts[<<sm.h, sm.r>>][field] = value]

\* An action is recorded in the action store, which refuses a second one of its
\* kind for the same round, and then sent to the mirror.
Act(field, value, none, s) ==
    /\ UNCHANGED mirrorVars
    /\ IF store.acts[<<sm.h, sm.r>>][field] = none
       THEN sm' = s /\ store' = [store EXCEPT !.acts[<<sm.h, sm.r>>][field] = value]
       ELSE sm' = Quit(sm) /\ UNCHANGED store

Propose(p) ==
    /\ Live
    /\ sm.proposalCh
    /\ p.by = OwnKey /\ p.h = sm.h /\ p.r = sm.r
    /\ p.prevR = sm.vrv.prev.r /\ p.prev = sm.vrv.prev.proofs
    /\ Act("ph", p, NoProposal, recordProposedHeader(sm, p))

Prevote ==
    /\ Live
    /\ sm.prevoteCh \in Hashes
    /\ Act("prevote", sm.prevoteCh, NoVote, recordPrevote(sm))

Precommit ==
    /\ Live
    /\ sm.precommitCh \in Hashes
    /\ Act("precommit", sm.precommitCh, NoVote, recordPrecommit(sm))

\* The driver has finalized the block it was asked to.  handleCatchupEvent
\* fakes the step.
Finalization ==
    LET f  == sm.finalizing
        s1 == IF sm.catchup THEN [sm EXCEPT !.step = "awaitingFinalization"] ELSE sm
    IN /\ Alive
       /\ sm.pc = "run"
       /\ sm.finalizeCh /\ f.h # 0
       /\ UNCHANGED mirrorVars
       /\ IF f.h # sm.h \/ f.r # sm.r
          THEN sm' = SMPanic(sm) /\ UNCHANGED store
          ELSE IF HasFinalization(f.h)
          THEN sm' = Quit(sm) /\ UNCHANGED store
          ELSE sm' = handleFinalization(s1) /\ store' = [store EXCEPT !.fin[f.h] = f.hash]

TimerElapsed ==
    /\ Live
    /\ sm.timer # "none"
    /\ SMOnly(handleTimerElapsed(sm))

HeightCommitted ==
    /\ Live
    /\ sm.hc
    /\ kernel.sm.closed
    /\ SMOnly(handleHeightCommitted(sm))

BlockDataArrival(b) ==
    /\ Live
    /\ SMOnly(handleBlockDataArrival(sm, b))

\* The kernel reads the actions channel of the round the state machine is in.
MirrorTakesAction(room) ==
    LET a == Head(sm.acts)
    IN /\ Alive
       /\ sm.acts # <<>>
       /\ KernelStep(IF a.kind = "ph" THEN addProposedHeader(kernel, a.ph)
                     ELSE handleStateMachineVote(WithRoom(kernel, room), a.kind, a.hash, OwnKey),
                     hs, phQueue)
       /\ Survives([sm EXCEPT !.acts = Tail(@)])
       /\ UNCHANGED store

-----------------------------------------------------------------------------
StateMachineStep ==
    \/ SMStart
    \/ SMSave
    \/ SMEnter
    \/ CMTakeRequest
    \/ SendTimeout
    \/ EnterRoundReturns
    \/ NotReady
    \/ \E hash \in Hashes : StrategyChooses(hash)
    \/ ViewUpdate
    \/ \E p \in Proposals : Propose(p)
    \/ Prevote
    \/ Precommit
    \/ Finalization
    \/ TimerElapsed
    \/ HeightCommitted
    \/ \E b \in Blocks : BlockDataArrival(b)
    \/ \E room \in FetchRooms : MirrorTakesAction(room)

EngineNext ==
    \/ MirrorAlone
    \/ EngineCrash
    \/ EngineRestart
    \/ StateMachineStep

EngineSpec == EngineInit /\ [][EngineNext]_engineVars

-----------------------------------------------------------------------------
(* Properties. *)

\* What the state machine does to the mirror is what module Mirror lets its
\* state machine do: every step of the engine is a step of Mirror's Next or
\* leaves the mirror alone, so that what is proved of Mirror holds here.
ImplementsMirror == Spec

\* The signer never signs two votes of one kind or two headers in one round,
\* whatever the process died in the middle of: what its key signed and the
\* mirror has stored is what the action store has for that round
\* (recordPrevote, recordPrecommit, recordProposedHeader).
NoDoubleSign ==
    \A x \in HR :
      /\ \A k \in Kinds, b \in Hashes :
           OwnKey \in kernel.disk.votes[k][x][b] => store.acts[x][k] = b
      /\ \A p \in kernel.disk.phs[x] : p.by = OwnKey => store.acts[x].ph.hash = p.hash

\* A block is finalized only once the mirror has committed it, and no other
\* block of that height ever is (beginCommit, handleFinalization).
FinalizedIsCommitted ==
    \A h \in Heights : store.fin[h] # Nil => kernel.disk.headers[h].hash = store.fin[h]

\* Every height is finalized, in order: advanceHeight leaves a height only
\* after its finalization is stored, also while catching up; and what it
\* finalized is the block the mirror committed.
FinalizedInOrder ==
    /\ FinalizedIsCommitted
    /\ \A h \in Heights : store.fin[h] # Nil => HasFinalization(h - 1)

\* The state machine is in a round the mirror can answer for, at the latest the
\* one after the voting round: handleStateMachineRoundEntrance panics on others.
NeverAheadOfMirror ==
    \A x \in {store.hr} \cup IF kernel.up THEN {<<sm.h, sm.r>>} ELSE {} :
      LET n == kernel.disk.nhr
      IN x[1] < n.vh \/ (x[1] = n.vh /\ x[2] <= n.vr + 1)

\* In a step that some handler leaves by calling rlc.CancelTimer, which is nil
\* unless a timer runs, a timer runs, and it is the one of that step.
TimerMatchesStep ==
    (Live /\ sm.vrv.h = sm.h /\ sm.vrv.r = sm.r) =>
      CASE sm.step = "awaitingProposal" -> sm.timer = "proposal"
        [] sm.step \in {"prevoteDelay", "precommitDelay"} -> sm.timer = sm.step
        [] sm.step \in {"awaitingPrevotes", "awaitingPrecommits", "awaitingFinalization"}
             -> sm.timer = "none"
        [] OTHER -> TRUE

\* "Is it ever possible this channel is nil?": a request that the consensus
\* manager answers with a hash carries a channel for it, for a send to a nil
\* channel would block the consensus manager for ever.
RequestHasChannel ==
    /\ sm.req.op \in {"consider", "choose"} => sm.prevoteCh # ChNil
    /\ sm.req.op = "decide" => sm.precommitCh # ChNil

\* Whatever order views, timers and answers come in, the timer and the result
\* channels of the round lifecycle are those that its step and its request need.
LifecycleConsistent == TimerMatchesStep /\ RequestHasChannel

\* A proposal that the signer recorded for its current round is in the mirror or
\* on its way to it, also after a crash between the two (initializeRLC).
ProposalReachesMirror ==
    LET x  == <<sm.h, sm.r>>
        id == FindView(kernel, sm.h, sm.r)
    IN (Live /\ x \in HR /\ id \in {"voting", "nextRound"}) =>
         LET ph == store.acts[x].ph
         IN ph # NoProposal =>
              \/ [hash |-> ph.hash, by |-> OwnKey] \in GetView(kernel, id).phs
              \/ \E i \in 1..Len(sm.acts) : sm.acts[i].kind = "ph"

\* "The assigned genesis may be a zero value if the chain was already initialized,
\* but the state machine should be able to handle that": a starting state
\* machine finds the finalizations it loads its validator sets and its round
\* from, up to the request to enter the round (sendInitialActionSet,
\* initializeRLC).  True of processes that start at height 3 or later.  It is
\* false at the first two heights, where the heights to load from wrap around.
StartSucceeds ==
    [][sm.pc \in {"start", "enter"} => sm'.pc # "quit"]_engineVars
=============================================================================
