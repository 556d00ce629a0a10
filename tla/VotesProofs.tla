----------------------------- MODULE VotesProofs -----------------------------
(***************************************************************************)
(* The thresholds of tmconsensus/math.go and the quorum arguments that rest*)
(* on them, for every validator set and every distribution of power.       *)
(***************************************************************************)
EXTENDS Votes, TLAPS

\* Division by three, as the code's % and / compute it.
LEMMA DivMod ==
    \A n \in Nat : /\ n = 3 * (n \div 3) + (n % 3)
                   /\ n % 3 \in 0..2
                   /\ n \div 3 \in Nat
  OBVIOUS

\* ByzantineMajority returns the least power that exceeds two thirds of n, as
\* its comment promises: no smaller value would be a Byzantine quorum.
THEOREM MajorityIsLeastAboveTwoThirds ==
    \A n \in Nat : /\ ByzantineMajority(n) \in Nat
                   /\ 3 * ByzantineMajority(n) > 2 * n
                   /\ 3 * (ByzantineMajority(n) - 1) <= 2 * n
  BY DivMod DEF ByzantineMajority

\* ByzantineMinority returns the least power that is at least a third of n.
THEOREM MinorityIsLeastThird ==
    \A n \in Nat : /\ ByzantineMinority(n) \in Nat
                   /\ 3 * ByzantineMinority(n) >= n
                   /\ 3 * (ByzantineMinority(n) - 1) < n
  BY DivMod DEF ByzantineMinority

\* ByzantineMinority against ByzantineMajority: removing a minority leaves no
\* majority, and two majorities share a minority.
THEOREM MinorityBlocksMajority ==
    \A n \in Nat : /\ n - ByzantineMinority(n) < ByzantineMajority(n)
                   /\ 2 * ByzantineMajority(n) >= n + ByzantineMinority(n)
  BY DivMod DEF ByzantineMajority, ByzantineMinority

-----------------------------------------------------------------------------
(* Power is a measure: what follows from PowerAssumption alone. *)

\* The power of a set of validators is a natural number.
LEMMA PowerIsNat == \A S \in SUBSET Val : PowerOf[S] \in Nat
  BY PowerAssumption

\* The power of two sets is that of their union and of their intersection.
LEMMA PowerOfUnion ==
    ASSUME NEW S \in SUBSET Val, NEW T \in SUBSET Val
    PROVE  PowerOf[S \cup T] + PowerOf[S \cap T] = PowerOf[S] + PowerOf[T]
  <1>1. PowerOf[S \cup T] = PowerOf[S] + PowerOf[T \ S]
    <2>1. S \cap (T \ S) = {} /\ S \cup (T \ S) = S \cup T
      OBVIOUS
    <2> QED BY <2>1, PowerAssumption
  <1>2. PowerOf[T] = PowerOf[T \ S] + PowerOf[S \cap T]
    <2>1. (T \ S) \cap (S \cap T) = {} /\ (T \ S) \cup (S \cap T) = T
      OBVIOUS
    <2>2. T \ S \in SUBSET Val /\ S \cap T \in SUBSET Val
      OBVIOUS
    <2> QED BY <2>1, <2>2, PowerAssumption
  <1>3. /\ PowerOf[S] \in Nat /\ PowerOf[T] \in Nat /\ PowerOf[S \cup T] \in Nat
        /\ PowerOf[S \cap T] \in Nat /\ PowerOf[T \ S] \in Nat
    <2>1. /\ S \cup T \in SUBSET Val /\ S \cap T \in SUBSET Val
          /\ T \ S \in SUBSET Val
      OBVIOUS
    <2> QED BY <2>1, PowerIsNat
  <1> QED BY <1>1, <1>2, <1>3

\* More validators have no less power.
LEMMA PowerMonotone ==
    ASSUME NEW S \in SUBSET Val, NEW T \in SUBSET Val, S \subseteq T
    PROVE  PowerOf[S] <= PowerOf[T]
  <1>1. S \cap (T \ S) = {} /\ S \cup (T \ S) = T /\ T \ S \in SUBSET Val
    OBVIOUS
  <1>2. PowerOf[T] = PowerOf[S] + PowerOf[T \ S]
    BY <1>1, PowerAssumption
  <1> QED BY <1>1, <1>2, PowerIsNat

\* Two sets of validators that both hold a majority of the power share more
\* than a third of it, and so a minority as ByzantineMinority counts it.
THEOREM QuorumIntersection ==
    ASSUME NEW S \in SUBSET Val, NEW T \in SUBSET Val,
           PowerOf[S] >= Majority, PowerOf[T] >= Majority
    PROVE  /\ 3 * PowerOf[S \cap T] > AvailablePower
           /\ PowerOf[S \cap T] >= Minority
  <1> DEFINE n == PowerOf[Val]
  <1>1. n \in Nat
    BY PowerAssumption
  <1>2. S \cup T \in SUBSET Val /\ S \cap T \in SUBSET Val
    OBVIOUS
  <1>3. PowerOf[S \cup T] <= n
    BY <1>2, PowerMonotone
  <1>4. /\ PowerOf[S] \in Nat /\ PowerOf[T] \in Nat
        /\ PowerOf[S \cup T] \in Nat /\ PowerOf[S \cap T] \in Nat
    BY <1>2, PowerIsNat
  <1>5. /\ 2 * ByzantineMajority(n) >= n + ByzantineMinority(n)
        /\ ByzantineMajority(n) \in Nat /\ ByzantineMinority(n) \in Nat
        /\ 3 * ByzantineMajority(n) > 2 * n
    BY <1>1, MinorityBlocksMajority, MajorityIsLeastAboveTwoThirds, MinorityIsLeastThird
  <1>6. PowerOf[S] >= ByzantineMajority(n) /\ PowerOf[T] >= ByzantineMajority(n)
    BY DEF Majority, AvailablePower
  <1>7. PowerOf[S \cup T] + PowerOf[S \cap T] = PowerOf[S] + PowerOf[T]
    BY PowerOfUnion
  <1> HIDE DEF n
  <1>8. PowerOf[S \cap T] >= ByzantineMinority(n)
    BY <1>1, <1>3, <1>4, <1>5, <1>6, <1>7
  <1>9. 3 * PowerOf[S \cap T] > n
    BY <1>1, <1>3, <1>4, <1>5, <1>6, <1>7
  <1> QED BY <1>8, <1>9 DEF n, Minority, AvailablePower

\* Safety of a commit decision: while the validators that sign two different
\* targets hold at most a third of the power, no two targets of a round both
\* reach a majority of precommits.
THEOREM OneMajorityPerRound ==
    ASSUME NEW proofs \in Proofs, NEW g \in Hashes, NEW h \in Hashes, g # h,
           NEW Faulty \in SUBSET Val, 3 * PowerOf[Faulty] <= AvailablePower,
           proofs[g] \cap proofs[h] \subseteq Faulty,
           BlockPower(proofs, g) >= Majority
    PROVE  ~(BlockPower(proofs, h) >= Majority)
  <1>1. proofs[g] \in SUBSET Val /\ proofs[h] \in SUBSET Val
    BY DEF Proofs
  <1>2. SUFFICES ASSUME BlockPower(proofs, h) >= Majority PROVE FALSE
    OBVIOUS
  <1>3. 3 * PowerOf[proofs[g] \cap proofs[h]] > AvailablePower
    BY <1>1, <1>2, QuorumIntersection DEF BlockPower
  <1>4. PowerOf[proofs[g] \cap proofs[h]] <= PowerOf[Faulty]
    <2>1. proofs[g] \cap proofs[h] \in SUBSET Val
      BY <1>1
    <2> QED BY <2>1, PowerMonotone
  <1>5. /\ PowerOf[proofs[g] \cap proofs[h]] \in Nat /\ PowerOf[Faulty] \in Nat
        /\ AvailablePower \in Nat
    <2>1. proofs[g] \cap proofs[h] \in SUBSET Val
      BY <1>1
    <2>2. PowerOf[Val] \in Nat
      BY PowerAssumption
    <2> QED BY <2>1, <2>2, PowerIsNat DEF AvailablePower
  <1> QED BY <1>3, <1>4, <1>5
=============================================================================
