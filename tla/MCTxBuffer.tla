----------------------------- MODULE MCTxBuffer ------------------------------
(* An application with three transactions: each executes once, t1 and t2    *)
(* exclude each other, and t3 needs t1.  A state is the set executed so far. *)
EXTENDS TxBuffer

CONSTANTS t1, t2, t3

MCState == SUBSET {t1, t2, t3}
MCValid(s, t) ==
    /\ t \notin s
    /\ t = t1 => t2 \notin s
    /\ t = t2 => t1 \notin s
    /\ t = t3 => t1 \in s
MCApply(s, t) == s \cup {t}

\* Blocks with a transaction of the buffer, with a competing one, and a chain
\* state without any of them.
MCBlocks ==
    {[base |-> {}, applied |-> {}], [base |-> {t1}, applied |-> {t1}],
     [base |-> {t2}, applied |-> {t2}], [base |-> {t2}, applied |-> {}],
     [base |-> {t1, t3}, applied |-> {t3}]}
=============================================================================
