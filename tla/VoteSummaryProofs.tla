-------------------------- MODULE VoteSummaryProofs --------------------------
(***************************************************************************)
(* The vote summary does not depend on the iteration order of the proof    *)
(* map, for every number of hashes and every distribution of power.        *)
(***************************************************************************)
EXTENDS VoteSummary, VotesProofs

\* h is ahead of g in the powers summed so far.
Ahead(h, g) ==
    \/ blockPower[h] > blockPower[g]
    \/ blockPower[h] = blockPower[g] /\ h <= g

\* The loop invariant: a visited key has its power, any other hash has none,
\* and the running winner is ahead of every hash, visited or not.
LoopInv ==
    /\ TypeOK
    /\ \A h \in Hashes : blockPower[h] = IF h \in todo THEN 0 ELSE BlockPower(votes, h)
    /\ maxPow = blockPower[maxHash]
    /\ \A g \in Hashes : Ahead(maxHash, g)

\* The power of every target is a natural number.
LEMMA BlockPowerIsNat ==
    ASSUME NEW p \in Proofs, NEW h \in Hashes PROVE BlockPower(p, h) \in Nat
  BY PowerIsNat DEF Proofs, BlockPower

\* A proof without signatures has no power.
LEMMA EmptyHasNoPower == PowerOf[{}] = 0
  <1>1. {} \in SUBSET Val /\ {} \cap {} = {} /\ {} \cup {} = {}
    OBVIOUS
  <1>2. PowerOf[{}] = PowerOf[{}] + PowerOf[{}]
    BY <1>1, PowerAssumption
  <1> QED BY <1>1, <1>2, PowerIsNat

\* Nil is the vote target that sorts first.
LEMMA NilIsAHash == Nil \in Hashes /\ \A h \in Hashes : h \in Nat /\ Nil <= h
  BY BlocksAssumption DEF Nil, Hashes

\* The loop invariant holds before the first iteration.
LEMMA InitLoopInv == Init => LoopInv
  <1> SUFFICES ASSUME Init PROVE LoopInv
    OBVIOUS
  <1>1. TypeOK
    BY NilIsAHash DEF Init, TypeOK, Keys
  <1>2. ASSUME NEW h \in Hashes
        PROVE  blockPower[h] = IF h \in todo THEN 0 ELSE BlockPower(votes, h)
    BY EmptyHasNoPower DEF Init, Keys, BlockPower
  <1>3. maxPow = blockPower[maxHash]
    BY NilIsAHash DEF Init
  <1>4. \A g \in Hashes : Ahead(maxHash, g)
    BY NilIsAHash DEF Init, Ahead
  <1> QED BY <1>1, <1>2, <1>3, <1>4 DEF LoopInv

\* One iteration of the loop, on any key not visited yet.
LEMMA VisitLoopInv ==
    ASSUME LoopInv, NEW h \in todo, Visit(h) PROVE LoopInv'
  <1> DEFINE pow == BlockPower(votes, h)
  <1>1. TypeOK /\ h \in Hashes /\ pow \in Nat /\ votes' = votes
    BY BlockPowerIsNat DEF LoopInv, TypeOK, Visit
  <1>2. TypeOK'
    BY <1>1 DEF TypeOK, Visit, NewMaxHash
  <1>3. \A g \in Hashes : blockPower'[g] = IF g = h THEN pow ELSE blockPower[g]
    BY <1>1 DEF Visit, TypeOK
  <1>4. blockPower[h] = 0
    BY <1>1 DEF LoopInv
  <1>5. ASSUME NEW g \in Hashes
        PROVE  blockPower'[g] = IF g \in todo' THEN 0 ELSE BlockPower(votes', g)
    BY <1>1, <1>3 DEF LoopInv, Visit
  <1>6. /\ maxHash \in Nat /\ h \in Nat /\ maxPow \in Nat
        /\ \A g \in Hashes : g \in Nat /\ blockPower[g] \in Nat
    BY <1>1, NilIsAHash DEF TypeOK
  <1>7. /\ maxHash' = NewMaxHash(h, pow)
        /\ maxPow' = IF pow > maxPow THEN pow ELSE maxPow
        /\ maxHash \in Hashes
    BY <1>1 DEF Visit, TypeOK
  <1>8. maxPow' = blockPower'[maxHash']
    BY <1>1, <1>3, <1>4, <1>6, <1>7 DEF NewMaxHash, LoopInv, Ahead
  <1>9. ASSUME NEW g \in Hashes PROVE Ahead(maxHash, g)'
    <2>1. Ahead(maxHash, g) /\ Ahead(maxHash, h) /\ maxPow = blockPower[maxHash]
      BY <1>1 DEF LoopInv
    <2>2. CASE maxHash = h
      BY <2>1, <2>2, <1>1, <1>3, <1>4, <1>6, <1>7 DEF NewMaxHash, Ahead
    <2>3. CASE maxHash # h
      BY <2>1, <2>3, <1>1, <1>3, <1>4, <1>6, <1>7 DEF NewMaxHash, Ahead
    <2> QED BY <2>2, <2>3
  <1> QED BY <1>2, <1>5, <1>8, <1>9 DEF LoopInv

\* The loop invariant holds throughout.
THEOREM LoopInvariant == Spec => []LoopInv
  <1>1. LoopInv /\ [Next]_vars => LoopInv'
    <2> SUFFICES ASSUME LoopInv, [Next]_vars PROVE LoopInv'
      OBVIOUS
    <2>1. CASE Next
      BY <2>1, VisitLoopInv DEF Next
    <2>2. CASE UNCHANGED vars
      BY <2>2 DEF vars, LoopInv, TypeOK, Ahead
    <2> QED BY <2>1, <2>2
  <1> QED BY <1>1, InitLoopInv, PTL DEF Spec

\* The type invariant of the summary's loop.
THEOREM SummaryTypeOK == Spec => []TypeOK
  <1>1. LoopInv => TypeOK
    BY DEF LoopInv
  <1> QED BY <1>1, LoopInvariant, PTL

\* At most one hash is ahead of all the others.
LEMMA MostVotedIsUnique ==
    ASSUME NEW p \in Proofs, NEW m \in Hashes, \A g \in Hashes : Outvotes(p, m, g)
    PROVE  MostVotedHash(p) = m
  <1>1. ASSUME NEW k \in Hashes, \A g \in Hashes : Outvotes(p, k, g) PROVE k = m
    <2>1. Outvotes(p, k, m) /\ Outvotes(p, m, k)
      BY <1>1
    <2>2. /\ BlockPower(p, k) \in Nat /\ BlockPower(p, m) \in Nat
          /\ k \in Nat /\ m \in Nat
      BY BlockPowerIsNat, NilIsAHash
    <2> QED BY <2>1, <2>2 DEF Outvotes
  <1> QED BY <1>1 DEF MostVotedHash

\* Whatever the order of iteration, SetPrevotePowers and SetPrecommitPowers
\* elect the hash with the most power, the earliest one on a tie.
THEOREM WinnerTheorem == Spec => []WinnerIndependentOfOrder
  <1>1. LoopInv => WinnerIndependentOfOrder
    <2> SUFFICES ASSUME LoopInv, Done PROVE maxHash = MostVotedHash(votes)
      BY DEF WinnerIndependentOfOrder
    <2>1. votes \in Proofs /\ maxHash \in Hashes
      BY DEF LoopInv, TypeOK
    <2>2. \A g \in Hashes : blockPower[g] = BlockPower(votes, g)
      BY DEF LoopInv, Done
    <2>3. \A g \in Hashes : Outvotes(votes, maxHash, g)
      BY <2>1, <2>2 DEF LoopInv, Ahead, Outvotes
    <2> QED BY <2>1, <2>3, MostVotedIsUnique
  <1> QED BY <1>1, LoopInvariant, PTL

\* Two hashes with a majority each need more than a third of the power to have
\* signed for both, for every validator set.
THEOREM EquivocationTheorem == Spec => []OneMajorityUnlessEquivocation
  <1>1. LoopInv => OneMajorityUnlessEquivocation
    <2> SUFFICES ASSUME LoopInv, Done, NEW g \in Hashes, NEW h \in Hashes, g # h,
                        blockPower[g] >= Majority, blockPower[h] >= Majority
                 PROVE  3 * PowerOf[votes[g] \cap votes[h]] > AvailablePower
      BY DEF OneMajorityUnlessEquivocation
    <2>1. votes[g] \in SUBSET Val /\ votes[h] \in SUBSET Val
      BY DEF LoopInv, TypeOK, Proofs
    <2>2. PowerOf[votes[g]] >= Majority /\ PowerOf[votes[h]] >= Majority
      BY DEF LoopInv, Done, BlockPower
    <2> QED BY <2>1, <2>2, QuorumIntersection
  <1> QED BY <1>1, LoopInvariant, PTL
=============================================================================
