---------------------------- MODULE MCVoteSummary ----------------------------
(* Four validators of power 1, 1, 2 and 2, nil and two blocks: every proof   *)
(* map, every iteration order.                                               *)
EXTENDS VoteSummary

CONSTANTS v1, v2, v3, v4

MCVal == {v1, v2, v3, v4}
MCWeight == [v \in MCVal |-> IF v \in {v1, v2} THEN 1 ELSE 2]
MCPowerOf == [S \in SUBSET MCVal |-> MapThenSumSet(LAMBDA v : MCWeight[v], S)]
=============================================================================
