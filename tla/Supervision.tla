----------------------------- MODULE Supervision -----------------------------
(***************************************************************************)
(* The engine's main loops under the watchdog, with the round timer that   *)
(* the state machine uses from its handlers.  All of them run on the       *)
(* watchdog's context, and stop when it ends.                              *)
(***************************************************************************)
EXTENDS RoundTimer, Watchdog

CONSTANT StateMachine   \* the subsystem that uses the round timer

ASSUME SupervisionAssumption == StateMachine \in Subsystems

vars == <<timerVars, watchdogVars>>

\* Type invariant.
TypeOK == TimerTypeOK /\ WatchdogTypeOK

Init == TimerInit /\ WatchdogInit

\* A state machine that starts behind the mirror enters handleCatchupEvent,
\* whose select has no case for the signal channel.
BeginCatchUp ==
    /\ sub[StateMachine] = "asked"
    /\ sub' = [sub EXCEPT ![StateMachine] = "catchup"]
    /\ UNCHANGED <<cause, mon, timerVars>>

\* The handlers of the state machine.  They cancel and ask for timers, and are
\* not done while getTimer waits.
UseTimer ==
    /\ sub[StateMachine] = "working"
    /\ CancelTimer \/ getTimer \/ (Cancelled /\ getTimerCancelled)
    /\ UNCHANGED watchdogVars

\* The goroutine of the round timer and the clock.
Timer ==
    /\ background \/ RunOut \/ (Cancelled /\ TimerStops)
    /\ UNCHANGED watchdogVars

Loop(s) ==
    /\ \/ Begin(s) \/ TakeSignal(s) \/ CloseAlive(s) \/ HandleEvent(s) \/ LoopStops(s)
       \/ /\ s = StateMachine => want = "none"
          /\ HandlerReturns(s) \/ HandlerHangs(s) \/ (s = StateMachine /\ Terminate(s))
    /\ UNCHANGED timerVars

Supervise ==
    /\ \/ EndRoot
       \/ \E s \in Subsystems : StartMonitor(s) \/ checkSubsys(s) \/ MonitorStops(s)
    /\ UNCHANGED timerVars

\* A panic ends the process.
Next ==
    /\ ~dead
    /\ UseTimer \/ Timer \/ Supervise \/ BeginCatchUp \/ \E s \in Subsystems : Loop(s)

Returns(s) == HandlerReturns(s) /\ (s = StateMachine => want = "none")

Run(A)   == ~dead /\ A /\ UNCHANGED watchdogVars
Watch(A) == ~dead /\ A /\ UNCHANGED timerVars

\* Goroutines and clocks go on, and a select takes a case that stays ready in
\* spite of other events at last; a handler asks for finitely many timers (at
\* most one) and returns, unless it hangs.  Nothing promises that the root
\* context ends, that events arrive, or that a handler hangs.
Fairness ==
    /\ WF_vars(Run(background \/ RunOut))
    /\ WF_vars(Run(Cancelled /\ getTimerCancelled))
    /\ WF_vars(Run(Cancelled /\ TimerStops))
    /\ \A s \in Subsystems :
         /\ WF_vars(Watch(checkSubsys(s))) /\ WF_vars(Watch(MonitorStops(s)))
         /\ WF_vars(Watch(StartMonitor(s) \/ Begin(s) \/ CloseAlive(s)))
         /\ SF_vars(Watch(Returns(s))) /\ SF_vars(Watch(LoopStops(s)))

Spec == Init /\ [][Next]_vars /\ Fairness
-----------------------------------------------------------------------------
(* Properties *)

\* The state machine hears of the end of a timer only when the time it asked
\* for is over; the timer is stopped whenever a request is waited for; and a
\* request that meets a timer still running meets one that was cancelled before,
\* in the moment in which the goroutine has not yet looked (background, getTimer).
TimersOnTime ==
    TypeOK /\ StoppedBetweenTimers /\ ElapsesOnTime /\ RequestFollowsCancel

\* The monitor of s ends the context.
Blames(s) == ~Cancelled /\ cause' = Termination /\ mon'[s] # mon[s]

\* The watchdog blames a subsystem only if a handler kept it busy when the
\* response timeout passed: not if it had answered, however the monitor's
\* select chose, and not if it was waiting for something to do.  The exception
\* is a state machine that catches up: the select of handleCatchupEvent does
\* not receive the signals that the documentation of Monitor asks for.
BlamesOnlyBusy ==
    [][\A s \in Subsystems :
         Blames(s) => mon[s].late = "busy" \/ sub[s] = "catchup"]_vars

\* A main loop that hangs in a handler, once it is monitored, brings the
\* process down, whatever the other loops do.
HangTerminates ==
    (\E s \in Subsystems : sub[s] = "stuck" /\ mon[s].pc # "none") ~> (Cancelled \/ dead)

\* When the context ends, every main loop that is not hung and every monitor
\* stops: also a state machine in getTimer whose round timer stopped before it.
\* So does the round timer's goroutine, unless it was about to answer a request:
\* it stays in the send that "should be safe" if the caller has given up.
ShutdownCompletes ==
    Cancelled ~>
      (dead \/ /\ rt.pc \in {"done", "answering"}
               /\ \A s \in Subsystems :
                    sub[s] \in {"stopped", "stuck"} /\ mon[s].pc \in {"none", "done"})

\* A timer that the state machine keeps elapses, unless the engine stops.
TimerElapses == have ~> (~have \/ rt.closed \/ Cancelled \/ dead)
=============================================================================
