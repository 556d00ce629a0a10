-------------------------- MODULE Libp2pConnection ---------------------------
(***************************************************************************)
(* tmlibp2p.Connection over libp2p's pubsub, which is external: a message  *)
(* that is published reaches every other host of the topic once, in any    *)
(* order, and the topic validator of the host decides what happens to it.  *)
(***************************************************************************)
EXTENDS ChattyStrategy

VARIABLES
    topic,      \* the messages on their way to each node
    swapping    \* the nodes whose background loop is replacing its validator

\* The background loop is at its select.
Listening(n) == net = "libp2p" /\ n \notin swapping /\ ~kernel[n].panic

\* One of the three outgoing channels; publishing fails once the topic is closed.
Publish(n, k) ==
    /\ Listening(n)
    /\ out[n][k] # <<>>
    /\ out' = [out EXCEPT ![n][k] = Tail(@)]
    /\ topic' = IF n \in off THEN topic
                ELSE [x \in Node |-> IF x = n THEN topic[x]
                                     ELSE topic[x] \cup {Head(out[n][k])}]
    /\ UNCHANGED <<kernel, handler, off, missed, net, strat, swapping>>

\* The validator runs in a goroutine of pubsub.
Validate(n, m) ==
    /\ net = "libp2p"
    /\ m \in topic[n]
    /\ n \notin off /\ ~kernel[n].panic
    /\ topic' = [topic EXCEPT ![n] = @ \ {m}]
    /\ HandlerCalled(n, m)
    /\ UNCHANGED <<handler, off, net, strat, out, swapping>>

\* SetConsensusHandler: the old validator goes first, then the new one comes.
UnregisterValidator(n) ==
    /\ Listening(n)
    /\ handler[n] = "nil" /\ n \notin off
    /\ handler' = [handler EXCEPT ![n] = "gap"]
    /\ swapping' = swapping \cup {n}
    /\ UNCHANGED <<kernel, off, missed, net, strat, out, topic>>

RegisterValidator(n) ==
    /\ n \in swapping
    /\ handler' = [handler EXCEPT ![n] = "set"]
    /\ swapping' = swapping \ {n}
    /\ UNCHANGED <<kernel, off, missed, net, strat, out, topic>>

\* Disconnect runs in the goroutine of its caller.
Libp2pDisconnect(n) ==
    /\ net = "libp2p"
    /\ n \notin off
    /\ off' = off \cup {n}
    /\ handler' = [handler EXCEPT ![n] = "gap"]
    /\ UNCHANGED <<kernel, missed, net, strat, out, topic, swapping>>

Libp2pStep(n) ==
    \/ \E k \in MessageKinds : Publish(n, k)
    \/ \E m \in topic[n] : Validate(n, m)
    \/ RegisterValidator(n)
=============================================================================
