--------------------------- MODULE SupervisionProofs --------------------------
(***************************************************************************)
(* Proofs about module Supervision, for every set of main loops.           *)
(*                                                                         *)
(* Two inductive invariants, one per component.  TimerInv places the end   *)
(* of a time.Timer: in timer.C, noticed by the goroutine, or in the closed *)
(* Elapsed channel, and says who holds the timer while the goroutine waits *)
(* for its end.  WatchInv says, as long as the context lives, what a       *)
(* passed deadline found the main loop doing.                              *)
(***************************************************************************)
EXTENDS Supervision, TLAPS

\* The end of a timer, wherever it is, is the end of the timer asked for last,
\* and the goroutine waits for the end only of a timer that somebody holds.
TimerInv ==
    /\ TimerTypeOK
    /\ StoppedBetweenTimers
    /\ rt.closed => rt.over
    /\ rt.value => rt.over /\ ~rt.armed
    /\ rt.pc = "elapsed" => rt.over /\ ~rt.armed /\ ~rt.value
    /\ rt.pc = "waiting" => have /\ ~rt.value
    /\ rt.pc = "entering" /\ ~rt.cancel => have
    /\ have => want = "none"
    /\ want = "receiving" => rt.pc = "answering"

\* What a passed deadline found the loop of s doing.  A loop that has the
\* signal is not waiting for anything else to do before it closes Alive, so
\* "idle" is left to a state machine that catches up.
LateInv(s) ==
    /\ mon[s].pc \in {"none", "sleeping", "done"} => mon[s].late = "no"
    /\ mon[s].pc = "offering" => ~mon[s].alive
    /\ mon[s].pc = "awaiting" /\ ~mon[s].alive => sub[s] = "signalled"
    /\ sub[s] = "signalled" => mon[s].pc = "awaiting" /\ ~mon[s].alive
    /\ mon[s].late = "idle" => sub[s] = "catchup"
    /\ mon[s].late = "answered" => mon[s].alive

WatchInv ==
    /\ WatchdogTypeOK
    /\ ~Cancelled => \A s \in Subsystems : LateInv(s)

-----------------------------------------------------------------------------
(* The round timer *)

\* The state machine's side: cancelling a timer, asking for one and giving up
\* keep TimerInv.
LEMMA RequestSteps ==
    ASSUME TimerInv, CancelTimer \/ getTimer \/ getTimerCancelled
    PROVE  TimerInv'
<1> USE DEF StoppedBetweenTimers
<1>1. CASE CancelTimer
  <2>1. CASE rt.pc = "idle"
    BY <1>1, <2>1 DEF CancelTimer, cancel, TimerInv, TimerTypeOK
  <2>2. CASE rt.pc = "waiting"
    BY <1>1, <2>2 DEF CancelTimer, cancel, TimerInv, TimerTypeOK
  <2>3. CASE rt.pc \notin {"idle", "waiting"}
    BY <1>1, <2>3 DEF CancelTimer, cancel, TimerInv, TimerTypeOK
  <2> QED  BY <2>1, <2>2, <2>3
<1>2. CASE getTimer
  BY <1>2 DEF getTimer, TimerInv, TimerTypeOK
<1>3. CASE getTimerCancelled
  BY <1>3 DEF getTimerCancelled, TimerInv, TimerTypeOK
<1> QED  BY <1>1, <1>2, <1>3

\* The goroutine of the round timer and the clock keep TimerInv.
LEMMA BackgroundSteps ==
    ASSUME TimerInv, background \/ RunOut \/ TimerStops
    PROVE  TimerInv'
<1> USE DEF StoppedBetweenTimers
<1>1. CASE StartTimer
  BY <1>1 DEF StartTimer, TimerInv, TimerTypeOK, NoTimer
<1>2. CASE Answer
  BY <1>2 DEF Answer, TimerInv, TimerTypeOK
<1>3. CASE EnterSelect
  BY <1>3 DEF EnterSelect, TimerInv, TimerTypeOK
<1>4. CASE CloseElapsed
  BY <1>4 DEF CloseElapsed, TimerInv, TimerTypeOK
<1>5. CASE StopTimer
  BY <1>5 DEF StopTimer, TimerInv, TimerTypeOK, NoTimer
<1>6. CASE RunOut
  <2>1. CASE rt.pc = "waiting"
    BY <1>6, <2>1 DEF RunOut, TimerInv, TimerTypeOK
  <2>2. CASE rt.pc # "waiting"
    BY <1>6, <2>2 DEF RunOut, TimerInv, TimerTypeOK
  <2> QED  BY <2>1, <2>2
<1>7. CASE TimerStops
  BY <1>7 DEF TimerStops, TimerInv, TimerTypeOK, NoTimer
<1> QED  BY <1>1, <1>2, <1>3, <1>4, <1>5, <1>6, <1>7 DEF background
-----------------------------------------------------------------------------
(* The watchdog *)

\* A step of the monitor of s keeps WatchInv.
LEMMA MonitorSteps ==
    ASSUME WatchInv, NEW s \in Subsystems,
           StartMonitor(s) \/ checkSubsys(s) \/ MonitorStops(s)
    PROVE  WatchInv'
<1> USE NoneAssumption DEF WatchInv, WatchdogTypeOK, LateInv, Cancelled, Cause,
                           Sleeping, NoMonitor, Termination, RootEnded
<1>1. CASE StartMonitor(s)
  BY <1>1 DEF StartMonitor
<1>2. CASE BeginCheck(s)
  BY <1>2 DEF BeginCheck
<1>3. CASE Deadline(s)
  BY <1>3 DEF Deadline, InSelect
<1>4. CASE OfferTimeout(s)
  BY <1>4 DEF OfferTimeout
<1>5. CASE SeeAlive(s)
  BY <1>5 DEF SeeAlive
<1>6. CASE AwaitTimeout(s)
  BY <1>6 DEF AwaitTimeout
<1>7. CASE MonitorStops(s)
  BY <1>7 DEF MonitorStops
<1> QED  BY <1>1, <1>2, <1>3, <1>4, <1>5, <1>6, <1>7 DEF checkSubsys

\* A step of the main loop of s keeps WatchInv.
LEMMA LoopSteps ==
    ASSUME WatchInv, NEW s \in Subsystems,
           \/ Begin(s) \/ TakeSignal(s) \/ CloseAlive(s) \/ HandleEvent(s) \/ LoopStops(s)
           \/ HandlerReturns(s) \/ HandlerHangs(s) \/ Terminate(s)
    PROVE  WatchInv'
<1> USE NoneAssumption DEF WatchInv, WatchdogTypeOK, LateInv, Cancelled, Cause,
                           Termination, RootEnded
<1>1. CASE Begin(s)
  BY <1>1 DEF Begin
<1>2. CASE TakeSignal(s)
  BY <1>2 DEF TakeSignal
<1>3. CASE CloseAlive(s)
  BY <1>3 DEF CloseAlive
<1>4. CASE HandleEvent(s)
  BY <1>4 DEF HandleEvent
<1>5. CASE LoopStops(s)
  BY <1>5 DEF LoopStops
<1>6. CASE HandlerReturns(s)
  BY <1>6 DEF HandlerReturns
<1>7. CASE HandlerHangs(s)
  BY <1>7 DEF HandlerHangs
<1>8. CASE Terminate(s)
  BY <1>8 DEF Terminate
<1> QED  BY <1>1, <1>2, <1>3, <1>4, <1>5, <1>6, <1>7, <1>8

-----------------------------------------------------------------------------
(* The whole *)

\* The two invariants hold of the first state.
LEMMA InitInv == Init => TimerInv /\ WatchInv
<1>1. TimerInit => TimerInv
  <2> SUFFICES ASSUME TimerInit PROVE TimerInv
    OBVIOUS
  <2>1. rt = NoTimer /\ want = "none" /\ have = FALSE /\ dead = FALSE
    BY DEF TimerInit
  <2>2. rt.pc = "idle" /\ rt.closed = FALSE /\ rt.value = FALSE /\ rt.armed = FALSE
    BY <2>1 DEF NoTimer
  <2>3. rt \in [pc : {"idle", "answering", "entering", "waiting",
                     "elapsed", "cancelled", "done"},
              armed : BOOLEAN, value : BOOLEAN, closed : BOOLEAN,
              cancel : BOOLEAN, over : BOOLEAN]
    BY <2>1 DEF NoTimer
  <2> QED  BY <2>1, <2>2, <2>3 DEF TimerInv, TimerTypeOK, StoppedBetweenTimers
<1>2. WatchdogInit => WatchInv
  BY NoneAssumption
     DEF WatchdogInit, WatchInv, WatchdogTypeOK, LateInv, Cancelled, NoMonitor
<1> QED  BY <1>1, <1>2 DEF Init

\* Each component's steps leave the other one's variables alone; a state machine
\* that begins to catch up has not yet been signalled.
LEMMA NextInv ==
    ASSUME TimerInv, WatchInv, [Next]_vars
    PROVE  TimerInv' /\ WatchInv'
<1>1. ASSUME UNCHANGED timerVars  PROVE TimerInv'
  BY <1>1 DEF timerVars, TimerInv, TimerTypeOK, StoppedBetweenTimers
<1>2. ASSUME UNCHANGED watchdogVars  PROVE WatchInv'
  BY <1>2 DEF watchdogVars, WatchInv, WatchdogTypeOK, LateInv, Cancelled
<1>3. CASE UseTimer
  BY <1>2, <1>3, RequestSteps DEF UseTimer
<1>4. CASE Timer
  BY <1>2, <1>4, BackgroundSteps DEF Timer
<1>5. CASE Supervise
  <2>1. CASE EndRoot
    BY <1>1, <1>5, <2>1, NoneAssumption
       DEF Supervise, EndRoot, WatchInv, WatchdogTypeOK, Cancelled
  <2>2. CASE \E s \in Subsystems : StartMonitor(s) \/ checkSubsys(s) \/ MonitorStops(s)
    BY <1>1, <1>5, <2>2, MonitorSteps DEF Supervise
  <2> QED  BY <1>5, <2>1, <2>2 DEF Supervise
<1>6. CASE BeginCatchUp
  <2>1. TimerInv'
    BY <1>1, <1>6 DEF BeginCatchUp
  <2>2. WatchInv'
    BY <1>6, SupervisionAssumption
       DEF BeginCatchUp, WatchInv, WatchdogTypeOK, LateInv, Cancelled
  <2> QED  BY <2>1, <2>2
<1>7. ASSUME NEW s \in Subsystems, Loop(s)  PROVE TimerInv' /\ WatchInv'
  BY <1>1, <1>7, LoopSteps DEF Loop
<1>8. CASE UNCHANGED vars
  BY <1>1, <1>2, <1>8 DEF vars
<1> QED  BY <1>3, <1>4, <1>5, <1>6, <1>7, <1>8 DEF Next

\* The round timer's goroutine (roundtimer.go) closes the Elapsed channel of a
\* timer only when that timer's time is over and waits for requests only with
\* the timer stopped; a request that meets a running timer, which makes it panic,
\* comes after a cancel and before the goroutine has reached its second select.
\* In whatever order requests, cancels, the clock and the end of the context come.
THEOREM TimersOnTimeAlways == Spec => []TimersOnTime
<1>1. TimerInv /\ WatchInv => TimersOnTime
  BY DEF TimersOnTime, TypeOK, TimerInv, WatchInv, ElapsesOnTime, RequestFollowsCancel,
         TimerTypeOK
<1> QED  BY <1>1, InitInv, NextInv, PTL DEF Spec

\* Only a monitor ends the context with a change of its own state.
LEMMA BlameStep ==
    ASSUME WatchInv, [Next]_vars, NEW s \in Subsystems, Blames(s)
    PROVE  OfferTimeout(s) \/ (AwaitTimeout(s) /\ ~mon[s].alive)
<1> USE NoneAssumption DEF Blames, Cancelled, WatchInv, WatchdogTypeOK
<1>1. cause = None /\ cause' = Termination /\ cause' # cause /\ mon'[s] # mon[s]
  OBVIOUS
<1>2. ~UNCHANGED watchdogVars
  BY <1>1 DEF watchdogVars
<1>3. ~EndRoot /\ ~BeginCatchUp
  BY <1>1 DEF EndRoot, BeginCatchUp, Termination, RootEnded
<1>4. ASSUME NEW q \in Subsystems
      PROVE  ~Loop(q)
  BY <1>1 DEF Loop, Begin, TakeSignal, CloseAlive, HandleEvent, LoopStops,
              HandlerReturns, HandlerHangs, Terminate
<1>5. ASSUME NEW q \in Subsystems, StartMonitor(q) \/ checkSubsys(q) \/ MonitorStops(q)
      PROVE  OfferTimeout(q) \/ (AwaitTimeout(q) /\ ~mon[q].alive)
  BY <1>1, <1>5 DEF StartMonitor, checkSubsys, MonitorStops, BeginCheck, Deadline,
                    SeeAlive, AwaitTimeout
<1>6. ASSUME NEW q \in Subsystems, OfferTimeout(q) \/ AwaitTimeout(q)
      PROVE  q = s
  BY <1>1, <1>6 DEF OfferTimeout, AwaitTimeout
<1> QED  BY <1>2, <1>3, <1>4, <1>5, <1>6 DEF Next, UseTimer, Timer, Supervise, vars

\* The watchdog (gwatchdog) never ends the process for a main loop that closed
\* Alive, or that waited for something to do, except a state machine in
\* handleCatchupEvent.
THEOREM BlamesOnlyBusyAlways == Spec => BlamesOnlyBusy
<1>1. ASSUME WatchInv, [Next]_vars, NEW s \in Subsystems, Blames(s)
      PROVE  mon[s].late = "busy" \/ sub[s] = "catchup"
  <2>1. LateInv(s) /\ mon[s] \in [pc : {"none", "sleeping", "offering", "awaiting", "done"},
                  alive : BOOLEAN, late : {"no", "answered", "idle", "busy"}]
    BY <1>1 DEF WatchInv, Blames, WatchdogTypeOK
  <2>2. mon[s].late # "no" /\ ~mon[s].alive
    BY <1>1, <2>1, BlameStep DEF OfferTimeout, AwaitTimeout, LateInv
  <2> QED  BY <2>1, <2>2 DEF LateInv
<1>2. ASSUME WatchInv, [Next]_vars
      PROVE  [\A s \in Subsystems :
                Blames(s) => mon[s].late = "busy" \/ sub[s] = "catchup"]_vars
  BY <1>1, <1>2
<1> QED  BY <1>2, InitInv, NextInv, PTL DEF Spec, BlamesOnlyBusy
=============================================================================
