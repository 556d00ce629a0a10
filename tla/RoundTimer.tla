----------------------------- MODULE RoundTimer ------------------------------
(***************************************************************************)
(* StandardRoundTimer (tmstate/roundtimer.go): a goroutine that owns one   *)
(* time.Timer and serves the state machine, which asks for a timer, gets a *)
(* channel that closes when the time is over, and cancels it.  Requests    *)
(* and answers go through unbuffered channels; a goroutine that is parked  *)
(* in a select is woken by the first case that becomes ready, and one that *)
(* arrives at a select with several ready cases takes any of them.         *)
(***************************************************************************)
VARIABLES
    rt,     \* the goroutine, its time.Timer and the channels it made last
    want,   \* the state machine's getTimer: "none", "sending", "receiving"
    have,   \* rlc.StepTimer and rlc.CancelTimer are set
    dead    \* the process has panicked

timerVars == <<rt, want, have, dead>>

\* Type invariant of the round timer.
TimerTypeOK ==
    /\ rt \in [pc : {"idle", "answering", "entering", "waiting",
                     "elapsed", "cancelled", "done"},
              armed : BOOLEAN, value : BOOLEAN, closed : BOOLEAN,
              cancel : BOOLEAN, over : BOOLEAN]
    /\ want \in {"none", "sending", "receiving"}
    /\ have \in BOOLEAN
    /\ dead \in BOOLEAN

\* What the goroutine keeps of a timer that nobody holds any more.
NoTimer ==
    [pc |-> "idle",
     armed |-> FALSE,    \* the time.Timer is running
     value |-> FALSE,    \* its end is in timer.C
     closed |-> FALSE,   \* the Elapsed channel is closed
     cancel |-> FALSE,   \* the Cancel function was called
     over |-> FALSE]     \* the time of the last timer is over

TimerInit ==
    /\ rt = NoTimer
    /\ want = "none"
    /\ have = FALSE
    /\ dead = FALSE
-----------------------------------------------------------------------------
(* The state machine's side *)

\* Cancelling wakes the goroutine if it is parked in its second select.  The
\* state machine forgets the channel of a timer that has elapsed.
cancel ==
    rt' = CASE rt.pc = "idle" -> [rt EXCEPT !.closed = FALSE, !.over = FALSE,
                                            !.cancel = FALSE]
            [] rt.pc = "waiting" -> [rt EXCEPT !.cancel = TRUE, !.pc = "cancelled"]
            [] OTHER -> [rt EXCEPT !.cancel = TRUE]

\* A step ends, because its timer elapsed or for any other reason.
CancelTimer ==
    /\ want = "none" /\ have
    /\ cancel
    /\ have' = FALSE
    /\ UNCHANGED <<want, dead>>

\* ProposalTimer, PrevoteDelayTimer, PrecommitDelayTimer, CommitWaitTimer.
getTimer ==
    /\ want = "none" /\ ~have
    /\ want' = "sending"
    /\ UNCHANGED <<rt, have, dead>>

\* getTimer without a way out of its first select.
getTimerCancelledLate ==
    /\ want = "receiving"
    /\ want' = "none" /\ have' = FALSE
    /\ UNCHANGED <<rt, dead>>

\* The context ends while getTimer waits: it returns a nil channel.
getTimerCancelled ==
    /\ want # "none"
    /\ want' = "none" /\ have' = FALSE
    /\ UNCHANGED <<rt, dead>>
-----------------------------------------------------------------------------
(* background *)

\* The first select: a request resets the timer.  Whether timer.Reset drops an
\* end that is still in timer.C is up to the Go version: any may happen.
StartTimer ==
    /\ rt.pc = "idle" /\ want = "sending"
    /\ \E stale \in {FALSE, rt.value} :
         rt' = [NoTimer EXCEPT !.pc = "answering", !.armed = TRUE, !.value = stale]
    /\ want' = "receiving"
    /\ UNCHANGED <<have, dead>>

\* The blocking send on req.Resp.
Answer ==
    /\ rt.pc = "answering" /\ want = "receiving"
    /\ rt' = [rt EXCEPT !.pc = "entering"]
    /\ want' = "none"
    /\ have' = TRUE
    /\ UNCHANGED dead

\* The goroutine arrives at the second select.
EnterSelect ==
    /\ rt.pc = "entering"
    /\ \/ /\ rt.value
          /\ rt' = [rt EXCEPT !.pc = "elapsed", !.value = FALSE]
          /\ UNCHANGED <<want, have, dead>>
       \/ /\ rt.cancel
          /\ rt' = [rt EXCEPT !.pc = "cancelled"]
          /\ UNCHANGED <<want, have, dead>>
       \/ /\ want = "sending"
          /\ dead' = TRUE
          /\ UNCHANGED <<rt, want, have>>
       \/ /\ ~rt.value /\ ~rt.cancel /\ want # "sending"
          /\ rt' = [rt EXCEPT !.pc = "waiting"]
          /\ UNCHANGED <<want, have, dead>>

\* An end that nobody waits for at that moment is lost.
RunOutUnseen ==
    /\ rt.armed
    /\ rt' = [rt EXCEPT !.armed = FALSE, !.over = TRUE,
                        !.pc = IF @ = "waiting" THEN "elapsed" ELSE @]
    /\ UNCHANGED <<want, have, dead>>

\* The duration is over; a goroutine parked in the second select is woken.
RunOut ==
    /\ rt.armed
    /\ rt' = [rt EXCEPT !.armed = FALSE, !.over = TRUE,
                        !.value = rt.pc # "waiting",
                        !.pc = IF @ = "waiting" THEN "elapsed" ELSE @]
    /\ UNCHANGED <<want, have, dead>>

CloseElapsed ==
    /\ rt.pc = "elapsed"
    /\ rt' = [rt EXCEPT !.pc = "idle", !.closed = TRUE]
    /\ UNCHANGED <<want, have, dead>>

\* Goes back to the first select without stopping the timer.
StopTimerLeftRunning ==
    /\ rt.pc = "cancelled"
    /\ rt' = [rt EXCEPT !.pc = "idle"]
    /\ UNCHANGED <<want, have, dead>>

\* timer.Stop, which also drains timer.C.
StopTimer ==
    /\ rt.pc = "cancelled"
    /\ rt' = NoTimer
    /\ UNCHANGED <<want, have, dead>>

\* The context ends while the goroutine is in one of its selects.
TimerStops ==
    /\ rt.pc \in {"idle", "entering", "waiting"}
    /\ rt' = [NoTimer EXCEPT !.pc = "done"]
    /\ UNCHANGED <<want, have, dead>>

background == StartTimer \/ Answer \/ EnterSelect \/ CloseElapsed \/ StopTimer
-----------------------------------------------------------------------------
(* Properties *)

\* "We assume the timer is always stopped by the time we receive a valid start
\* timer request": the goroutine waits for requests with a timer that does not
\* run and whose end is not left in timer.C.
StoppedBetweenTimers == rt.pc = "idle" => ~rt.armed /\ ~rt.value

\* The Elapsed channel of a timer closes only when the time of that timer is
\* over: neither a cancel nor the end of an earlier timer reaches a later step.
ElapsesOnTime == rt.closed => rt.over

\* A request that arrives while the goroutine has a timer running finds that
\* timer cancelled, and the goroutine on its way from the answer to its second
\* select: never parked there, for the cancel has woken it.
RequestFollowsCancel ==
    (want = "sending" /\ rt.pc \in {"entering", "waiting"}) =>
      rt.pc = "entering" /\ rt.cancel
=============================================================================
