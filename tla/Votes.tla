-------------------------------- MODULE Votes --------------------------------
(***************************************************************************)
(* Validators, block hashes, vote proofs and the arithmetic of voting      *)
(* power that every component of the engine shares.                        *)
(*                                                                         *)
(* Abstractions.                                                           *)
(*  - A block hash is its rank in the lexicographic order of Go strings.   *)
(*    The nil vote targets the empty string, which sorts first: rank 0.    *)
(*  - A gcrypto.CommonMessageSignatureProof is the set of validators whose *)
(*    signature it holds; a key that is absent from a proof map and a proof*)
(*    without signatures are both the empty set (no code path stores a     *)
(*    proof without signatures).                                           *)
(*  - Voting power is an additive measure on sets of validators.  It stays *)
(*    far below 2^64, so the uint64 sums of the code do not wrap.          *)
(***************************************************************************)
EXTENDS Integers, FiniteSetsExt

CONSTANTS
    Val,        \* the validators of the (unchanging) validator set
    PowerOf,    \* PowerOf[S]: the summed voting power of the validators in S
    NumBlocks   \* how many distinct headers exist at one height

ASSUME PowerAssumption ==
    /\ PowerOf \in [SUBSET Val -> Nat]
    /\ \A S, T \in SUBSET Val :
          S \cap T = {} => PowerOf[S \cup T] = PowerOf[S] + PowerOf[T]
    /\ PowerOf[Val] > 0

ASSUME BlocksAssumption == NumBlocks \in Nat \ {0}

Nil    == 0
Blocks == 1..NumBlocks
Hashes == 0..NumBlocks

Proofs   == [Hashes -> SUBSET Val]
NoProofs == [h \in Hashes |-> {}]

-----------------------------------------------------------------------------
(* tmconsensus/math.go *)

\* A wrong rounding of the threshold: at least two thirds instead of more than.
ByzantineMajorityRoundedDown(n) == 2 * (n \div 3) + (n % 3)

ByzantineMajority(n) ==
    IF n % 3 < 2 THEN 2 * (n \div 3) + 1 ELSE 2 * (n \div 3) + 2

ByzantineMinority(n) ==
    IF n % 3 = 0 THEN n \div 3 ELSE n \div 3 + 1

-----------------------------------------------------------------------------
(* tmconsensus.VoteSummary, as functions of the proof map it was set from. *)

AvailablePower == PowerOf[Val]
Majority == ByzantineMajority(AvailablePower)
Minority == ByzantineMinority(AvailablePower)

BlockPower(proofs, h) == PowerOf[proofs[h]]

\* The total is summed block by block: a validator that signed for two
\* different hashes is counted once for each of them.
TotalPower(proofs) == MapThenSumSet(LAMBDA h : BlockPower(proofs, h), Hashes)

\* h has more power than g, or as much power and sorts no later.
Outvotes(proofs, h, g) ==
    \/ BlockPower(proofs, h) > BlockPower(proofs, g)
    \/ BlockPower(proofs, h) = BlockPower(proofs, g) /\ h <= g

MostVotedHash(proofs) ==
    CHOOSE h \in Hashes : \A g \in Hashes : Outvotes(proofs, h, g)
=============================================================================
