CONSTANTS
    Subsystems = {mirror, stateMachine}
    StateMachine = stateMachine
    None = None
SPECIFICATION Spec
INVARIANT TimersOnTime
PROPERTY BlamesOnlyBusy HangTerminates ShutdownCompletes TimerElapses
CHECK_DEADLOCK FALSE
