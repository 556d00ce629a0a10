------------------------------ MODULE Watchdog -------------------------------
(***************************************************************************)
(* gwatchdog: every main loop of the engine asks for a monitor, a goroutine *)
(* that signals it at intervals and ends the context of the whole process  *)
(* when the signal is not answered in time.  Time is abstract: a deadline  *)
(* may pass at any moment while its timer runs.                            *)
(***************************************************************************)
CONSTANTS
    Subsystems,   \* main loops that ask for a monitor
    None

VARIABLES
    cause,   \* context.Cause of the watchdog context, None while it lives
    mon,     \* per subsystem, its monitor goroutine and Alive channel
    sub      \* per subsystem, where its goroutine is

watchdogVars == <<cause, mon, sub>>

\* Causes: FailureToRespondError and ForcedTerminationError, which IsTermination
\* treats alike, and the end of the root context.
Termination == "termination"
RootEnded   == "root"

ASSUME NoneAssumption == None \notin {Termination, RootEnded}

Cancelled == cause # None

\* The first cause wins.
Cause(c) == IF Cancelled THEN cause ELSE c

\* The goroutine waits in the select of its main loop for anything to do.
InSelect(s) == sub[s] \in {"looping", "catchup"}

\* late: what the subsystem was doing when the deadline passed.
NoMonitor == [pc |-> "none", alive |-> FALSE, late |-> "no"]

Sleeping  == [NoMonitor EXCEPT !.pc = "sleeping"]

\* Type invariant of the watchdog.
WatchdogTypeOK ==
    /\ cause \in {None, Termination, RootEnded}
    /\ mon \in [Subsystems ->
                 [pc : {"none", "sleeping", "offering", "awaiting", "done"},
                  alive : BOOLEAN, late : {"no", "answered", "idle", "busy"}]]
    /\ sub \in [Subsystems ->
                 {"starting", "asked", "looping", "catchup", "signalled",
                  "working", "stuck", "stopped"}]

WatchdogInit ==
    /\ cause = None
    /\ mon = [s \in Subsystems |-> NoMonitor]
    /\ sub = [s \in Subsystems |-> "starting"]
-----------------------------------------------------------------------------
(* The watchdog *)

\* kernel: starts a monitor and answers into a channel with room for one.  The
\* kernel itself runs until the root context ends.
StartMonitor(s) ==
    /\ cause # RootEnded /\ sub[s] = "starting"
    /\ mon' = [mon EXCEPT ![s] = Sleeping]
    /\ sub' = [sub EXCEPT ![s] = "asked"]
    /\ UNCHANGED cause

\* monitor: the interval is over; checkSubsys makes a new Alive channel.
BeginCheck(s) ==
    /\ mon[s].pc = "sleeping"
    /\ mon' = [mon EXCEPT ![s] = [pc |-> "offering", alive |-> FALSE, late |-> "no"]]
    /\ UNCHANGED <<cause, sub>>

\* The response timeout of the check passes.  A signal offered to a loop that
\* selects on it is taken before that: both sides are ready.
Deadline(s) ==
    /\ mon[s].pc \in {"offering", "awaiting"} /\ mon[s].late = "no"
    /\ ~(mon[s].pc = "offering" /\ sub[s] = "looping")
    /\ mon' = [mon EXCEPT ![s].late = CASE mon[s].alive -> "answered"
                                         [] ~mon[s].alive /\ InSelect(s) -> "idle"
                                         [] OTHER -> "busy"]
    /\ UNCHANGED <<cause, sub>>

\* The deadline for taking the signal passes without a consequence.
OfferTimeoutIgnored(s) ==
    /\ mon[s].pc = "offering" /\ mon[s].late # "no"
    /\ mon' = [mon EXCEPT ![s] = Sleeping]
    /\ UNCHANGED <<cause, sub>>

OfferTimeout(s) ==
    /\ mon[s].pc = "offering" /\ mon[s].late # "no"
    /\ cause' = Cause(Termination)
    /\ mon' = [mon EXCEPT ![s] = Sleeping]
    /\ UNCHANGED sub

SeeAlive(s) ==
    /\ mon[s].pc = "awaiting" /\ mon[s].alive
    /\ mon' = [mon EXCEPT ![s] = Sleeping]
    /\ UNCHANGED <<cause, sub>>

\* The select takes the timer and does not look at the Alive channel again.
AwaitTimeoutUnchecked(s) ==
    /\ mon[s].pc = "awaiting" /\ mon[s].late # "no"
    /\ cause' = Cause(Termination)
    /\ mon' = [mon EXCEPT ![s] = Sleeping]
    /\ UNCHANGED sub

\* The select takes the timer; one last look at the Alive channel.
AwaitTimeout(s) ==
    /\ mon[s].pc = "awaiting" /\ mon[s].late # "no"
    /\ cause' = IF mon[s].alive THEN cause ELSE Cause(Termination)
    /\ mon' = [mon EXCEPT ![s] = Sleeping]
    /\ UNCHANGED sub

MonitorStops(s) ==
    /\ Cancelled /\ mon[s].pc \in {"sleeping", "offering", "awaiting"}
    /\ mon' = [mon EXCEPT ![s] = [NoMonitor EXCEPT !.pc = "done"]]
    /\ UNCHANGED <<cause, sub>>

checkSubsys(s) ==
    BeginCheck(s) \/ Deadline(s) \/ OfferTimeout(s) \/ SeeAlive(s) \/ AwaitTimeout(s)

\* The context passed to NewWatchdog ends.
EndRoot ==
    /\ ~Cancelled
    /\ cause' = RootEnded
    /\ UNCHANGED <<mon, sub>>
-----------------------------------------------------------------------------
(* The monitored main loops *)

\* Monitor returns the signal channel, or nil because the context ended.
Begin(s) ==
    /\ sub[s] = "asked" \/ (sub[s] = "starting" /\ Cancelled)
    /\ sub' = [sub EXCEPT ![s] = "looping"]
    /\ UNCHANGED <<cause, mon>>

\* The main loop takes the signal ...
TakeSignal(s) ==
    /\ sub[s] = "looping" /\ mon[s].pc = "offering"
    /\ sub' = [sub EXCEPT ![s] = "signalled"]
    /\ mon' = [mon EXCEPT ![s].pc = "awaiting"]
    /\ UNCHANGED cause

\* ... and closes sig.Alive.
CloseAlive(s) ==
    /\ sub[s] = "signalled"
    /\ sub' = [sub EXCEPT ![s] = "looping"]
    /\ mon' = [mon EXCEPT ![s].alive = TRUE]
    /\ UNCHANGED cause

\* Another event: its handler returns, or never does.
HandleEvent(s) ==
    /\ sub[s] = "looping"
    /\ sub' = [sub EXCEPT ![s] = "working"]
    /\ UNCHANGED <<cause, mon>>

HandlerReturns(s) ==
    /\ sub[s] = "working"
    /\ sub' = [sub EXCEPT ![s] = "looping"]
    /\ UNCHANGED <<cause, mon>>

HandlerHangs(s) ==
    /\ sub[s] = "working"
    /\ sub' = [sub EXCEPT ![s] = "stuck"]
    /\ UNCHANGED <<cause, mon>>

\* A handler finds a state it cannot go on from and calls Terminate.
Terminate(s) ==
    /\ sub[s] = "working"
    /\ cause' = Cause(Termination)
    /\ sub' = [sub EXCEPT ![s] = "looping"]
    /\ UNCHANGED mon

LoopStops(s) ==
    /\ Cancelled /\ sub[s] \in {"looping", "catchup"}
    /\ sub' = [sub EXCEPT ![s] = "stopped"]
    /\ UNCHANGED <<cause, mon>>
=============================================================================
