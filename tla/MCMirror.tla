------------------------------- MODULE MCMirror ------------------------------
(* Instances of Mirror: three validators with powers 2, 1 and 1. *)
EXTENDS Mirror

CONSTANTS va, vb, vc

Weight == [v \in {va, vb, vc} |-> IF v = va THEN 2 ELSE 1]
MCPowerOf == [S \in SUBSET {va, vb, vc} |-> MapThenSumSet(LAMBDA v : Weight[v], S)]

Only(b, S) == [x \in Hashes |-> IF x = b THEN S ELSE {}]
Vote(kind, h, r, b, S) == [kind |-> kind, h |-> h, r |-> r, proofs |-> Only(b, S)]

NoRooms == {{}}

\* Votes of one height that reach the mirror through concurrent handlers.  In
\* round 0 the block may get its majority, or everybody has precommitted and
\* nothing has one; in round 1 nil has one.  vb signs two precommits.
VotesConcurrent ==
    {Vote("precommit", 1, 0, 1, {va}), Vote("precommit", 1, 0, 1, {vb}),
     Vote("precommit", 1, 0, 0, {vb}), Vote("precommit", 1, 0, 0, {vc}),
     Vote("prevote", 1, 1, 1, {va}), Vote("precommit", 1, 1, 0, {va, vc})}
PHsConcurrent ==
    {[h |-> 1, r |-> 0, hash |-> 1, by |-> va, prevR |-> 0, prev |-> NoProofs]}

PH(h, r, b, v, prev) ==
    [h |-> h, r |-> r, hash |-> b, by |-> v, prevR |-> 0, prev |-> prev]

\* Two heights; the first may commit in round 0 or 1.
VotesTwoHeights ==
    {Vote("precommit", 1, 0, 1, {va}), Vote("precommit", 1, 0, 1, {vb}),
     Vote("prevote", 1, 1, 1, {va}), Vote("precommit", 1, 1, 1, {va, vb}),
     Vote("precommit", 2, 0, 1, {va, vb})}
PHsTwoHeights ==
    {PH(1, 0, 1, va, NoProofs), PH(1, 1, 1, vb, NoProofs),
     PH(2, 0, 1, va, Only(1, {va, vc}))}

\* The local state machine, whose key is vc.
SMRoundsTwo == {<<1, 0>>, <<2, 0>>}
SMPrecommit == {<<"precommit", 1>>}

\* Headers the driver replays, for the round after the voting round.
Replays ==
    {[h |-> 1, hash |-> 1, r |-> 1, proofs |-> Only(1, {va, vc})],
     [h |-> 2, hash |-> 1, r |-> 1, proofs |-> Only(1, {va, vb})]}

\* A header that is missing while its precommits arrive, and two headers of the
\* next height: one carries a majority of precommits for it, the other does not.
VotesMissingHeader == {Vote("precommit", 1, 0, 1, {va})}
PHsMissingHeader ==
    {PH(1, 0, 1, vc, NoProofs), PH(2, 0, 1, va, Only(1, {va, vc})),
     PH(2, 0, 1, vb, Only(1, {vc}))}
AllRoom == {Blocks}
=============================================================================
