------------------------------ MODULE MCGossip -------------------------------
(* Three nodes; the first two are validators, the third one follows. *)
EXTENDS Gossip

CONSTANTS va, vb

MCPowerOf == [S \in SUBSET {va, vb} |-> Cardinality(S)]
MCMapperOf == <<"AcceptAllValid", "DropDuplicate", "AcceptAllValid">>
MCOutCap == [chain |-> 16, libp2p |-> 1]
MCSignerOf == <<va, vb, NoProposer>>

Vote(n, kind, h, r, b) == [n |-> n, kind |-> kind, h |-> h, r |-> r, hash |-> b]
Precommit(n, h, r, b) == Vote(n, "precommit", h, r, b)
Propose(n) == [n |-> n, kind |-> "ph", h |-> 1, r |-> 0, hash |-> 1]

\* A round is given up and the next one begins; a block is committed and the
\* next height begins; a node leaves or comes late while there are votes.
NilRound == {Precommit(1, 1, 0, 0), Precommit(2, 1, 0, 0)}
MCScenarios(x) ==
    IF x = "chain"
    THEN {[start |-> "view", casts |-> NilRound \cup {Precommit(1, 1, 1, 0)},
           late |-> {}, leave |-> {2}],
          [start |-> "header", late |-> {}, leave |-> {},
           casts |-> {Precommit(1, 1, 0, 1), Precommit(2, 1, 0, 1), Precommit(1, 2, 0, 0)}],
          [start |-> "nothing", casts |-> {Propose(1), Vote(2, "prevote", 1, 0, 1)},
           late |-> {2}, leave |-> {}]}
    ELSE {[start |-> "view", casts |-> NilRound, late |-> {3}, leave |-> {1}]}
=============================================================================
