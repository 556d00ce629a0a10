----------------------------- MODULE DaisyChain ------------------------------
(***************************************************************************)
(* tmp2ptest.DaisyChainNetwork: connections 1 -- 2 -- ... -- NumNodes, each*)
(* a goroutine that passes messages on from one neighbour to the other.    *)
(* While it waits for room in the channel to a neighbour it reads nothing. *)
(***************************************************************************)
EXTENDS ChattyStrategy

CONSTANT ChainCap   \* dcMessageBufSize

ASSUME ChainCapAssumption == ChainCap \in Nat \ {0}

VARIABLES
    chan,   \* chan[<<a, b>>]: the channel from a to its neighbour b
    hold    \* the message that each connection is propagating, and to whom

Links == {x \in Node \X Node : x[1] = x[2] + 1 \/ x[2] = x[1] + 1}
Neighbors(n) == {t \in Node : <<n, t>> \in Links}

Nothing == [kind |-> "ph", h |-> 0, r |-> 0, hash |-> Nil, by |-> NoProposer, proofs |-> NoProofs]
Free == [msg |-> Nothing, to |-> {}]

\* Sends m to the neighbours to, given the channels c: now where there is room.
Propagate(n, m, to, c) ==
    LET now == {t \in to : Len(c[<<n, t>>]) < ChainCap}
    IN /\ chan' = [x \in Links |-> IF x[1] = n /\ x[2] \in now THEN Append(c[x], m) ELSE c[x]]
       /\ hold' = [hold EXCEPT ![n] = IF to = now THEN Free ELSE [msg |-> m, to |-> to \ now]]

\* The background loop ends with Disconnect.
SelectingConnected(n) == net = "chain" /\ hold[n].to = {} /\ ~kernel[n].panic /\ n \notin off

\* The background loop is at its select.
Selecting(n) == net = "chain" /\ hold[n].to = {} /\ ~kernel[n].panic

\* outgoingPHs, outgoingPrevotes, outgoingPrecommits.
SendOutgoing(n, k) ==
    /\ Selecting(n)
    /\ out[n][k] # <<>>
    /\ out' = [out EXCEPT ![n][k] = Tail(@)]
    /\ Propagate(n, Head(out[n][k]), Neighbors(n), chan)
    /\ UNCHANGED <<kernel, handler, off, missed, net, strat>>

\* fromLeft, fromRight: without a handler the message passes through, with one
\* it does if it is accepted.
FromNeighbor(n, s) ==
    LET m == Head(chan[<<s, n>>])
    IN /\ Selecting(n)
       /\ chan[<<s, n>>] # <<>>
       /\ HandlerCalled(n, m)
       /\ Propagate(n, m,
                    IF handler[n] # "set" \/ Handle(n, m).accepted
                    THEN Neighbors(n) \ {s} ELSE {},
                    [chan EXCEPT ![<<s, n>>] = Tail(@)])
       /\ UNCHANGED <<handler, off, net, strat, out>>

\* A neighbour has made room.
Release(n) ==
    /\ net = "chain"
    /\ \E t \in hold[n].to : Len(chan[<<n, t>>]) < ChainCap
    /\ Propagate(n, hold[n].msg, hold[n].to, chan)
    /\ UNCHANGED <<kernel, handler, off, missed, net, strat, out>>

ChainSetHandler(n) ==
    /\ Selecting(n)
    /\ handler[n] = "nil" /\ n \notin off
    /\ handler' = [handler EXCEPT ![n] = "set"]
    /\ UNCHANGED <<kernel, off, missed, net, strat, out, chan, hold>>

ChainDisconnect(n) ==
    /\ Selecting(n)
    /\ n \notin off
    /\ off' = off \cup {n}
    /\ handler' = [handler EXCEPT ![n] = "nil"]
    /\ UNCHANGED <<kernel, missed, net, strat, out, chan, hold>>

ChainStep(n) ==
    \/ \E k \in MessageKinds : SendOutgoing(n, k)
    \/ \E s \in Neighbors(n) : FromNeighbor(n, s)
    \/ Release(n)
=============================================================================
