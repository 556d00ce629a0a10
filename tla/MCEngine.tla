------------------------------- MODULE MCEngine ------------------------------
(* Instances of Engine: validators with powers 2, 1 and 1, of which the last *)
(* is the state machine's signer.                                            *)
EXTENDS Engine

CONSTANTS va, vb, vc

Weight == [v \in {va, vb, vc} |-> IF v = va THEN 2 ELSE 1]
MCPowerOf == [S \in SUBSET {va, vb, vc} |-> MapThenSumSet(LAMBDA v : Weight[v], S)]

Only(b, S) == [x \in Hashes |-> IF x = b THEN S ELSE {}]
Vote(kind, h, r, b, S) == [kind |-> kind, h |-> h, r |-> r, proofs |-> Only(b, S)]
PH(h, r, b, v, prev) ==
    [h |-> h, r |-> r, hash |-> b, by |-> v, prevR |-> 0, prev |-> prev]

NoRooms == {{}}
AllRoom == {Blocks}
AnyVote == Kinds \X Hashes

\* One height: va votes for the block, which vc may propose, vb for nil.
VotesFirst ==
    {Vote("prevote", 1, 0, 1, {va}),
     Vote("precommit", 1, 0, 1, {va}), Vote("prevote", 1, 0, 0, {vb}),
     Vote("prevote", 1, 1, 1, {va})}
PHsFirst == {PH(1, 0, 1, vc, NoProofs)}
RoundsFirst == {<<1, 0>>, <<1, 1>>, <<2, 0>>}

\* The driver replays two heights while the state machine starts or is in the
\* first one, so that it has to catch up.
VotesCatchUp == {Vote("precommit", 1, 0, 1, {va, vb})}
PHsCatchUp == {PH(1, 0, 1, va, NoProofs)}
ReplaysCatchUp ==
    {[h |-> h, hash |-> 1, r |-> 0, proofs |-> Only(1, {va, vb})] : h \in 1..2}
RoundsCatchUp == (1..2) \X {0}

\* The process is restarted in the middle of height 3.  Once vc has cast it,
\* its precommit also comes back from the network.
VotesThird ==
    {Vote("prevote", 3, 0, 1, {va}),
     Vote("precommit", 3, 0, 1, {va}),
     Vote("precommit", 3, 0, 1, {va, vc})}
PHsThird == {PH(3, 0, 1, vc, PastProofs)}
RoundsThird == {<<3, 0>>, <<3, 1>>}
=============================================================================
