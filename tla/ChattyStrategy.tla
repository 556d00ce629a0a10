--------------------------- MODULE ChattyStrategy ----------------------------
(***************************************************************************)
(* tmgossip.ChattyStrategy: a goroutine at each node that reads the view   *)
(* updates of the mirror from an unbuffered channel and puts proposed      *)
(* headers and sparse proofs on the outgoing channels of the connection.   *)
(*                                                                         *)
(* Of the previous views it looks at the round, the number of headers and  *)
(* the number of signers only.                                             *)
(***************************************************************************)
EXTENDS ConsensusHandler, SequencesExt

CONSTANT OutCap   \* capacity of an outgoing channel, for each kind of network

VARIABLES
    net,      \* the kind of network: "chain" or "libp2p"
    strat,    \* the kernel goroutine of the strategy of each node
    out       \* the outgoing channels of its connection, by kind of message

Nets == {"chain", "libp2p"}

ASSUME OutCapAssumption == OutCap \in [Nets -> Nat \ {0}]

Digest(v) ==
    [h |-> v.h, r |-> v.r, phs |-> Cardinality(v.phs),
     signers |-> [k \in Kinds |-> Cardinality(UNION {v.proofs[k][b] : b \in Hashes})]]

NewStrategy ==
    [started |-> FALSE, todo |-> <<>>, committing |-> Digest(ZeroView),
     voting |-> Digest(ZeroView), nextRound |-> Digest(ZeroView)]

broadcastProposedBlocks(v) ==
    LET phs == SetToSeq(v.phs)
    IN [i \in DOMAIN phs |-> [kind |-> "ph", h |-> v.h, r |-> v.r, hash |-> phs[i].hash,
                              by |-> phs[i].by, proofs |-> NoProofs]]

\* broadcastPrevotes, broadcastPrecommits.
broadcastVotes(v, k) ==
    IF v.proofs[k] = NoProofs THEN <<>>
    ELSE <<[kind |-> k, h |-> v.h, r |-> v.r, hash |-> Nil, by |-> NoProposer,
            proofs |-> v.proofs[k]]>>

broadcastAll(v) ==
    broadcastProposedBlocks(v) \o broadcastVotes(v, "prevote") \o broadcastVotes(v, "precommit")

broadcastUpdatesOnly(prev, v) ==
    LET d == Digest(v)
        Changed(k) == IF d.signers[k] # prev.signers[k] THEN broadcastVotes(v, k) ELSE <<>>
    IN (IF d.phs # prev.phs THEN broadcastProposedBlocks(v) ELSE <<>>)
         \o Changed("prevote") \o Changed("precommit")

\* Does not notice that the view is of another round.
broadcastViewDiffSameRound(prev, v) == broadcastUpdatesOnly(prev, v)

broadcastViewDiff(prev, v) ==
    IF v.h = prev.h /\ v.r = prev.r THEN broadcastUpdatesOnly(prev, v) ELSE broadcastAll(v)

\* tmelink.NetworkViewUpdate: a view that has been sent is nil (ZeroView).
NetworkViewUpdate(g) ==
    LET Unsent(o) == IF HasBeenSent(o) THEN ZeroView ELSE o.view
    IN [committing |-> Unsent(g.committing), voting |-> Unsent(g.voting),
        nextRound |-> Unsent(g.nextRound), nilVoted |-> g.nilVoted]

\* What an update makes the strategy send, in this order.
FirstUpdate(u) ==
    LET All(v) == IF v = ZeroView THEN <<>> ELSE broadcastAll(v)
    IN All(u.voting) \o All(u.committing) \o All(u.nextRound)

\* Leaves out the round that was given up.
LaterUpdateNoNilVoted(s, u) ==
    LET Diff(prev, v) == IF v = ZeroView THEN <<>> ELSE broadcastViewDiff(prev, v)
    IN Diff(s.committing, u.committing) \o Diff(s.voting, u.voting)
         \o Diff(s.nextRound, u.nextRound)

LaterUpdate(s, u) ==
    LET Diff(prev, v) == IF v = ZeroView THEN <<>> ELSE broadcastViewDiff(prev, v)
    IN Diff(s.committing, u.committing)
         \o broadcastVotes(u.nilVoted, "precommit")
         \o Diff(s.voting, u.voting) \o Diff(s.nextRound, u.nextRound)

\* Remembers the previous views.
Seen(s, u) ==
    LET Or(v, prev) == IF v = ZeroView THEN prev ELSE Digest(v)
    IN [s EXCEPT !.started = TRUE,
                 !.committing = Or(u.committing, @), !.voting = Or(u.voting, @),
                 !.nextRound = Or(u.nextRound, @)]

\* gchan.SendC for each message in turn, until a channel is full.
SendInTurn(o, msgs) ==
    FoldLeft(LAMBDA a, m :
               IF a.rest = <<>> /\ Len(a.out[m.kind]) < OutCap[net]
               THEN [a EXCEPT !.out[m.kind] = Append(@, m)]
               ELSE [a EXCEPT !.rest = Append(@, m)],
             [out |-> o, rest |-> <<>>], msgs)

SendAll(n, s, msgs) ==
    LET x == SendInTurn(out[n], msgs)
    IN /\ out' = [out EXCEPT ![n] = x.out]
       /\ strat' = [strat EXCEPT ![n] = [s EXCEPT !.todo = x.rest]]

\* The mirror kernel and the strategy meet at the channel between them.
TakeUpdate(n) ==
    LET s == strat[n]
        u == NetworkViewUpdate(kernel[n].gossip)
    IN /\ s.todo = <<>>
       /\ ~kernel[n].panic
       /\ GossipOutput(kernel[n].gossip)
       /\ kernel' = [kernel EXCEPT ![n].gossip = GossipMarkSent(@),
                                   ![n].panic = ~s.started /\ u.voting = ZeroView]
       /\ SendAll(n, Seen(s, u), IF s.started THEN LaterUpdate(s, u) ELSE FirstUpdate(u))
       /\ UNCHANGED <<handler, off, missed, net>>

\* The strategy was waiting for room in a channel.
Resume(n) ==
    LET s == strat[n]
    IN /\ s.todo # <<>>
       /\ Len(out[n][Head(s.todo).kind]) < OutCap[net]
       /\ SendAll(n, s, s.todo)
       /\ UNCHANGED <<kernel, handler, off, missed, net>>
=============================================================================
