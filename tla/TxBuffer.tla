------------------------------ MODULE TxBuffer -------------------------------
(***************************************************************************)
(* The transaction buffer of the driver (gdriver/gtxbuf): a goroutine that *)
(* owns a workingState and serves AddTx, Buffered and Rebase one at a      *)
(* time.  A call is a gchan.ReqResp: an unbuffered send of the request and *)
(* a receive from a response channel of its own, each of which gives up    *)
(* when the caller's context ends.  The kernel gives up neither: it sends  *)
(* the response whether or not anybody waits for it, and looks at nothing  *)
(* else until that is done.                                                *)
(*                                                                         *)
(* workingState keeps curState, the base with the pending transactions     *)
(* executed on it, so that AddTx does not execute them again.              *)
(***************************************************************************)
EXTENDS Naturals, SequencesExt

CONSTANTS
    Clients, Tx, State, Genesis, NoState,
    Valid(_, _), Apply(_, _),   \* addTxFunc; a rejection is a TxInvalidError
    Blocks,
    MaxTxs,      \* bound on the pending transactions
    MaxRebases   \* bound on the calls of Rebase

ASSUME BufferAssumption == MaxTxs \in Nat /\ MaxRebases \in Nat

VARIABLES
    kernel,   \* "new", "open", "closed"
    w,        \* workingState
    out,      \* the response that the kernel is sending; empty at its select
    failed,   \* a Rebase returned an error that is fatal to the buffer
    calls,
    rebases   \* calls of Rebase so far

vars == <<kernel, w, out, failed, calls, rebases>>

Ops == [kind : {"add"}, tx : Tx] \cup [kind : {"buffered"}] \cup
       [kind : {"rebase"}, to : Blocks]
IdleCall == [pc |-> "idle", op |-> [kind |-> "none"], res |-> "none"]

\* Type invariant: what the workingState and the calls can hold.
TypeOK ==
    /\ kernel \in {"new", "open", "closed"}
    /\ w \in [base : State \cup {NoState}, cur : State \cup {NoState},
              isUpdated : BOOLEAN, txs : Seq(Tx)]
    /\ kernel = "open" => w.base # NoState
    /\ w.isUpdated => w.cur # NoState
    /\ Len(w.txs) <= MaxTxs
    /\ failed \in BOOLEAN
    /\ \A c \in Clients : calls[c].pc \in {"idle", "called", "taken", "served"}
    /\ Len(out) <= 1
    /\ \A c \in Clients : calls[c].pc = "taken" => out # <<>> /\ ~out[1].abandoned
    /\ rebases \in 0..MaxRebases

Init ==
    /\ kernel = "new"
    /\ w = [base |-> NoState, cur |-> NoState, isUpdated |-> FALSE, txs |-> <<>>]
    /\ out = <<>>
    /\ failed = FALSE
    /\ calls = [c \in Clients |-> IdleCall]
    /\ rebases = 0
-----------------------------------------------------------------------------
(* workingState *)

CurrentState == IF w.isUpdated THEN w.cur ELSE w.base

\* Forgets to mark the state as updated.
AcceptedUnmarked(t) ==
    [w EXCEPT !.cur = Apply(CurrentState, t), !.txs = Append(@, t)]

Accepted(t) ==
    [w EXCEPT !.cur = Apply(CurrentState, t), !.isUpdated = TRUE,
              !.txs = Append(@, t)]

\* txDeleter: the application deletes by value.
Delete(q, S) == SelectSeq(q, LAMBDA t : t \notin S)

\* One iteration of Rebase's loop over the remaining transactions.
Replay(acc, t) ==
    IF Valid(acc.cur, t)
    THEN [acc EXCEPT !.cur = Apply(@, t), !.isUpdated = TRUE]
    ELSE [acc EXCEPT !.invalidated = Append(@, t)]

Remaining(to) ==
    IF to.applied = {} THEN w.txs ELSE Delete(w.txs, to.applied)

Replayed(to, q) ==
    FoldLeft(Replay, [cur |-> to.base, isUpdated |-> FALSE, invalidated |-> <<>>], q)

\* Keeps the transactions that the new base invalidates.
RebasedUnpruned(to) ==
    LET acc == Replayed(to, Remaining(to))
    IN [base |-> to.base, cur |-> acc.cur, isUpdated |-> acc.isUpdated,
        txs |-> Remaining(to)]

\* Every transaction was executed or invalidated; the invalid ones go.
Rebased(to) ==
    LET left == Remaining(to)
        acc  == Replayed(to, left)
    IN [base |-> to.base, cur |-> acc.cur, isUpdated |-> acc.isUpdated,
        txs |-> Delete(left, ToSet(acc.invalidated))]

\* The application fails on the k-th remaining transaction.
RebaseFailed(to, k) ==
    LET left == Remaining(to)
        acc  == Replayed(to, SubSeq(left, 1, k - 1))
    IN [base |-> to.base, cur |-> acc.cur, isUpdated |-> acc.isUpdated,
        txs |-> left]
-----------------------------------------------------------------------------
(* The kernel goroutine and the calls *)

Initialize ==
    /\ kernel = "new"
    /\ kernel' = "open"
    /\ w' = [w EXCEPT !.base = Genesis]
    /\ UNCHANGED <<out, failed, calls, rebases>>

Call(c) ==
    /\ calls[c].pc = "idle"
    /\ \E op \in Ops :
         /\ op.kind = "rebase" => rebases < MaxRebases
         /\ rebases' = IF op.kind = "rebase" THEN rebases + 1 ELSE rebases
         /\ calls' = [calls EXCEPT ![c] = [IdleCall EXCEPT !.pc = "called", !.op = op]]
    /\ UNCHANGED <<kernel, w, out, failed>>

\* The kernel takes the request from its channel, carries it out and is about
\* to send the response.
Receive(c, kind) ==
    /\ kernel = "open" /\ out = <<>>
    /\ calls[c].pc = "called" /\ calls[c].op.kind = kind

Respond(c, res) ==
    /\ calls' = [calls EXCEPT ![c].pc = "taken"]
    /\ out' = <<[abandoned |-> FALSE, res |-> res]>>

handleAddTx(c) ==
    LET t == calls[c].op.tx
    IN /\ Receive(c, "add")
       /\ \/ /\ Valid(CurrentState, t)
             /\ Len(w.txs) < MaxTxs
             /\ w' = Accepted(t)
             /\ Respond(c, "ok")
          \/ /\ ~Valid(CurrentState, t)
             /\ UNCHANGED w
             /\ Respond(c, "rejected")
          \/ UNCHANGED w /\ Respond(c, "fatal")
       /\ UNCHANGED <<kernel, failed, rebases>>

handleBuffered(c) ==
    /\ Receive(c, "buffered")
    /\ Respond(c, w.txs)
    /\ UNCHANGED <<kernel, w, failed, rebases>>

\* handleRebase, with the invalidated transactions lost on the way back.
handleRebaseSilent(c) ==
    /\ Receive(c, "rebase")
    /\ w' = Rebased(calls[c].op.to)
    /\ Respond(c, <<>>)
    /\ UNCHANGED <<kernel, failed, rebases>>

handleRebase(c) ==
    LET to == calls[c].op.to
    IN /\ Receive(c, "rebase")
       /\ \/ /\ w' = Rebased(to)
             /\ UNCHANGED failed
             /\ Respond(c, Replayed(to, Remaining(to)).invalidated)
          \/ \E k \in 1..Len(Remaining(to)) :
               /\ w' = RebaseFailed(to, k)
               /\ failed' = TRUE
               /\ Respond(c, "fatal")
       /\ UNCHANGED <<kernel, rebases>>

\* A response channel without room: make(chan error).
RespRoomNone == 0

\* make(chan error, 1), make(chan []T, 1), make(chan rebaseResponse[T], 1): the
\* room in the response channel of a call, to which one response is sent.
RespRoom == 1

\* req.Resp <- ...: goes on when the channel has room or the caller receives.
SendResponse ==
    /\ out # <<>>
    /\ RespRoom > 0 \/ ~out[1].abandoned
    /\ calls' = [c \in Clients |->
                   IF calls[c].pc = "taken"
                   THEN [calls[c] EXCEPT !.pc = "served", !.res = out[1].res] ELSE calls[c]]
    /\ out' = <<>>
    /\ UNCHANGED <<kernel, w, failed, rebases>>

Return(c) ==
    /\ calls[c].pc = "served"
    /\ calls' = [calls EXCEPT ![c] = IdleCall]
    /\ UNCHANGED <<kernel, w, out, failed, rebases>>

\* The caller's context ends.  A request the kernel already took is still
\* carried out, and its response goes to a channel that nobody will read.
GiveUp(c) ==
    /\ calls[c].pc # "idle"
    /\ calls' = [calls EXCEPT ![c] = IdleCall]
    /\ out' = IF calls[c].pc = "taken" THEN [out EXCEPT ![1].abandoned = TRUE] ELSE out
    /\ UNCHANGED <<kernel, w, failed, rebases>>

\* The kernel's context ends, which it sees at its select.
Shutdown ==
    /\ kernel # "closed"
    /\ out = <<>>
    /\ kernel' = "closed"
    /\ UNCHANGED <<w, out, failed, calls, rebases>>

\* Every branch of the kernel's select.
Serve(c) == handleAddTx(c) \/ handleBuffered(c) \/ handleRebase(c)

Next ==
    \/ Initialize \/ Shutdown \/ SendResponse
    \/ \E c \in Clients : Call(c) \/ Serve(c) \/ Return(c) \/ GiveUp(c)

\* The select picks among ready channels at random and a channel serves its
\* senders in order, so a waiting request is not passed over each time the
\* kernel comes back to its select.
Fairness ==
    /\ WF_vars(Initialize)
    /\ WF_vars(SendResponse)
    /\ \A c \in Clients : SF_vars(Serve(c)) /\ WF_vars(Return(c))

Spec == Init /\ [][Next]_vars /\ Fairness
-----------------------------------------------------------------------------
(* Properties *)

\* A call takes effect when the kernel takes its request.
PoolCalls ==
    [c \in Clients |->
       IF calls[c].pc = "taken" THEN [calls[c] EXCEPT !.pc = "served", !.res = out[1].res]
       ELSE calls[c]]

Pool == INSTANCE TxPool WITH
    phase <- kernel, base <- w.base, txs <- w.txs, broken <- failed,
    calls <- PoolCalls

\* The buffer with its cached curState (workingstate.go) answers every call
\* as the pool that executes all pending transactions anew would, at one
\* moment between the call and its return, whatever calls run concurrently
\* and whoever gives up, until an error that is fatal to the buffer.
ImplementsPool == Pool!Spec

\* Until a Rebase fails, the pending transactions execute in order
\* on the base state, so that a block proposed from Buffered is valid, and
\* curState is the state they lead to.
PendingExecutes ==
    (kernel # "new" /\ ~failed) =>
      /\ \A i \in DOMAIN w.txs :
           Valid(Pool!Execute(w.base, SubSeq(w.txs, 1, i - 1)), w.txs[i])
      /\ CurrentState = Pool!Execute(w.base, w.txs)

\* The workingState is well formed and its caches fit its transactions.
BufferConsistent == TypeOK /\ PendingExecutes

\* A transaction accepted by AddTx leaves the buffer only because a Rebase was
\* told it is in a block, or because that Rebase reports it as invalidated.
NoSilentDrop ==
    [][\A t \in ToSet(w.txs) \ ToSet(w.txs)' :
         \E c \in Clients :
           /\ calls[c].pc = "called" /\ calls'[c].pc = "taken"
           /\ calls[c].op.kind = "rebase"
           /\ t \in calls[c].op.to.applied \/ t \in ToSet(out'[1].res)]_vars

\* "Response channel is one-buffered, so don't select here": a call made to a
\* running buffer ends, also when the caller before it went away after its
\* request was taken, for the kernel does not wait for anybody to read.
CallsReturn ==
    \A c \in Clients :
      calls[c].pc # "idle" ~> (calls[c].pc = "idle" \/ kernel = "closed")
=============================================================================
