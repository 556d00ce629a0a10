------------------------------- MODULE TxPool --------------------------------
(***************************************************************************)
(* What a transaction buffer promises to the driver that proposes blocks:  *)
(* a base state, the pending transactions in the order they were accepted, *)
(* and calls that take effect at one moment between their start and their  *)
(* end.  Nothing is cached: the state a new transaction is judged in is    *)
(* always the base with the pending transactions executed on it.           *)
(***************************************************************************)
EXTENDS Naturals, SequencesExt

CONSTANTS
    Clients,      \* goroutines that call the buffer
    Tx,           \* transactions
    State,        \* chain states
    Genesis,      \* the state passed to Initialize
    NoState,
    Valid(_, _),  \* Valid(s, t): the application accepts t in state s
    Apply(_, _),  \* the state after t
    Blocks        \* what Rebase is called with: [base, applied]

VARIABLES
    phase,   \* "new", "open" after Initialize, "closed" after the shutdown
    base,
    txs,
    broken,  \* a Rebase met an error that is not a TxInvalidError
    calls    \* per client: where its call is, its operation and its result

poolVars == <<phase, base, txs, broken, calls>>

Ops == [kind : {"add"}, tx : Tx] \cup [kind : {"buffered"}] \cup
       [kind : {"rebase"}, to : Blocks]
NoOp == [kind |-> "none"]
IdleCall == [pc |-> "idle", op |-> NoOp, res |-> "none"]

\* Executes a transaction unless the application rejects it.
Step(s, t) == IF Valid(s, t) THEN Apply(s, t) ELSE s
Execute(s, q) == FoldLeft(Step, s, q)

\* The transactions of q that execute, in order, and those that do not.
Executable(s, q) ==
    SelectSeq([i \in DOMAIN q |-> <<i, q[i]>>],
              LAMBDA p : Valid(Execute(s, SubSeq(q, 1, p[1] - 1)), p[2]))
Kept(s, q)    == [i \in DOMAIN Executable(s, q) |-> Executable(s, q)[i][2]]
Dropped(s, q) == SelectSeq(q, LAMBDA t : t \notin ToSet(Kept(s, q)))
Without(q, S) == SelectSeq(q, LAMBDA t : t \notin S)

Init ==
    /\ phase = "new"
    /\ base = NoState
    /\ txs = <<>>
    /\ broken = FALSE
    /\ calls = [c \in Clients |-> IdleCall]

Initialize ==
    /\ phase = "new"
    /\ phase' = "open"
    /\ base' = Genesis
    /\ UNCHANGED <<txs, broken, calls>>

Invoke(c) ==
    /\ calls[c].pc = "idle"
    /\ \E op \in Ops : calls' = [calls EXCEPT ![c] = [IdleCall EXCEPT !.pc = "called", !.op = op]]
    /\ UNCHANGED <<phase, base, txs, broken>>

Answer(c, res) == calls' = [calls EXCEPT ![c].pc = "served", ![c].res = res]

Add(c) ==
    LET t  == calls[c].op.tx
        ok == Valid(Execute(base, txs), t)
    IN /\ UNCHANGED <<phase, base, broken>>
       /\ \/ ok /\ txs' = Append(txs, t) /\ Answer(c, "ok")
          \/ ~ok /\ UNCHANGED txs /\ Answer(c, "rejected")
          \/ UNCHANGED txs /\ Answer(c, "fatal")

Buffered(c) ==
    /\ Answer(c, txs)
    /\ UNCHANGED <<phase, base, txs, broken>>

Rebase(c) ==
    LET to   == calls[c].op.to
        left == Without(txs, to.applied)
    IN /\ base' = to.base
       /\ UNCHANGED phase
       /\ \/ /\ txs' = Kept(to.base, left)
             /\ UNCHANGED broken
             /\ Answer(c, Dropped(to.base, left))
          \/ /\ txs' = left
             /\ broken' = TRUE
             /\ Answer(c, "fatal")

Serve(c) ==
    /\ phase = "open" /\ calls[c].pc = "called" /\ ~broken
    /\ \/ calls[c].op.kind = "add" /\ Add(c)
       \/ calls[c].op.kind = "buffered" /\ Buffered(c)
       \/ calls[c].op.kind = "rebase" /\ Rebase(c)

\* After an error that is fatal to the buffer only the form of a call is
\* promised: the base, the transactions and the answer may be anything.
ServeBroken(c) ==
    /\ phase = "open" /\ calls[c].pc = "called" /\ broken
    /\ Answer(c, calls'[c].res)
    /\ base' \in State /\ txs' \in Seq(Tx)
    /\ UNCHANGED <<phase, broken>>

\* The call ends: with its result, or because the caller's context ended.
Return(c) ==
    /\ calls[c].pc # "idle"
    /\ calls' = [calls EXCEPT ![c] = IdleCall]
    /\ UNCHANGED <<phase, base, txs, broken>>

Close ==
    /\ phase # "closed"
    /\ phase' = "closed"
    /\ UNCHANGED <<base, txs, broken, calls>>

Next ==
    \/ Initialize
    \/ Close
    \/ \E c \in Clients : Invoke(c) \/ Serve(c) \/ ServeBroken(c) \/ Return(c)

Spec == Init /\ [][Next]_poolVars
=============================================================================
