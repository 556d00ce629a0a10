----------------------------- MODULE VoteSummary -----------------------------
(***************************************************************************)
(* VoteSummary.SetPrecommitPowers and its twin SetPrevotePowers            *)
(* (tmconsensus/votesummary.go): one pass over a Go map of proofs, whose   *)
(* iteration order is unspecified and differs from run to run.  Each step  *)
(* of the model is one iteration of the outer loop; the inner loop over    *)
(* the bits of a proof is the sum PowerOf.                                 *)
(***************************************************************************)
EXTENDS Votes

VARIABLES
    votes,       \* the proof map being summarized
    todo,        \* keys of the map not visited yet
    blockPower,  \* PrecommitBlockPower, built so far
    total,       \* TotalPrecommitPower
    maxHash,     \* the running winner
    maxPow

vars == <<votes, todo, blockPower, total, maxHash, maxPow>>

\* Type invariant: the running sums and the running winner of
\* SetPrecommitPowers stay powers and vote targets in every iteration.
TypeOK ==
    /\ votes \in Proofs
    /\ todo \subseteq Hashes
    /\ blockPower \in [Hashes -> Nat]
    /\ total \in Nat
    /\ maxHash \in Hashes
    /\ maxPow \in Nat

\* Keys of the Go map: only hashes that somebody voted for have an entry.
Keys(p) == {h \in Hashes : p[h] # {}}

Init ==
    /\ votes \in Proofs
    /\ todo = Keys(votes)
    /\ blockPower = [h \in Hashes |-> 0]
    /\ total = 0
    /\ maxHash = Nil
    /\ maxPow = 0

\* Keeps the first hash visited among equals: depends on the iteration order.
NewMaxHashFirstSeen(h, pow) == IF pow > maxPow THEN h ELSE maxHash

NewMaxHash(h, pow) ==
    IF pow = maxPow
    THEN (IF h < maxHash THEN h ELSE maxHash)
    ELSE IF pow > maxPow THEN h ELSE maxHash

\* Overwrites the running total instead of adding to it.
VisitDropsTotal(h) ==
    LET pow == BlockPower(votes, h)
    IN /\ todo' = todo \ {h}
       /\ total' = pow
       /\ blockPower' = [blockPower EXCEPT ![h] = pow]
       /\ maxHash' = NewMaxHash(h, pow)
       /\ maxPow' = IF pow > maxPow THEN pow ELSE maxPow
       /\ UNCHANGED votes

Visit(h) ==
    LET pow == BlockPower(votes, h)
    IN /\ todo' = todo \ {h}
       /\ total' = total + pow
       /\ blockPower' = [blockPower EXCEPT ![h] = pow]
       /\ maxHash' = NewMaxHash(h, pow)
       /\ maxPow' = IF pow > maxPow THEN pow ELSE maxPow
       /\ UNCHANGED votes

Next == \E h \in todo : Visit(h)

Spec == Init /\ [][Next]_vars

Done == todo = {}

-----------------------------------------------------------------------------
\* Whatever order the runtime iterates the map in, the winner is the hash with
\* the most power, the lexicographically earliest one on a tie, and nil when
\* nothing has votes (the contract on MostVotedPrecommitHash, lines 25-29).
WinnerIndependentOfOrder == Done => maxHash = MostVotedHash(votes)

\* The sums do not depend on the order either, and the winner's power is the
\* value a later map read PrecommitBlockPower[MostVotedPrecommitHash] returns.
PowersIndependentOfOrder ==
    /\ TypeOK
    /\ Done => /\ total = TotalPower(votes)
               /\ \A h \in Hashes : blockPower[h] = BlockPower(votes, h)
               /\ blockPower[maxHash] = maxPow

\* No two different hashes can both reach the majority threshold unless the
\* validators that signed for both hold more than a third of the power: the
\* reason a mirror may act on the single most voted hash.
OneMajorityUnlessEquivocation ==
    Done => \A g, h \in Hashes :
        /\ g # h
        /\ blockPower[g] >= Majority
        /\ blockPower[h] >= Majority
        => 3 * PowerOf[votes[g] \cap votes[h]] > AvailablePower
=============================================================================
