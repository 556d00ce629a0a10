------------------------------- MODULE Gossip --------------------------------
(***************************************************************************)
(* A network of nodes: at each one a mirror kernel, a ChattyStrategy and a *)
(* connection, which is of a daisy chain or of a libp2p network.           *)
(*                                                                         *)
(* A scenario says what the validators may send once their mirror has      *)
(* reached the round, which nodes set their handler late and which ones    *)
(* may disconnect.  A vote reaches the mirror of its own node as the state *)
(* machine would send it.                                                  *)
(***************************************************************************)
EXTENDS DaisyChain, Libp2pConnection

CONSTANTS
    Scenarios(_),   \* the scenarios for each kind of network
    SignerOf        \* SignerOf[n]: the key of node n

\* What node n sends: a vote or a proposed header.
Cast == [n : Node, kind : MessageKinds, h : Heights, r : Rounds, hash : Hashes]

\* start: what the strategies have read when the scenario begins.  Nothing, the
\* empty first view, or the first view with a proposed header that all nodes have.
Starts == {"nothing", "view", "header"}
Scenario == [start : Starts, casts : SUBSET Cast, late : SUBSET Node, leave : SUBSET Node]

\* Bounds: proposed headers are for the initial height; no round is given up
\* before the strategies have read the first view, since FirstUpdate leaves the
\* round that was given up out and the others would not hear of it.
ASSUME ScenariosAssumption ==
    \A x \in Nets : \A s \in Scenarios(x) :
      /\ s \in Scenario
      /\ \A c \in s.casts : c.kind = "ph" => c.h = InitialHeight
      /\ s.start = "nothing" => \A c \in s.casts : c.kind # "precommit"

VARIABLE plan   \* what of the scenario may still happen

gvars == <<kernel, handler, off, missed, net, strat, out, chan, hold, topic, swapping, plan>>

Header(c) ==
    [h |-> c.h, r |-> c.r, hash |-> c.hash, by |-> SignerOf[c.n], prevR |-> 0, prev |-> NoProofs]

\* A kernel at its start, or once it has the first header.
StartKernel(start) ==
    LET w == NewKernel(EmptyDisk, Nil)
    IN IF start = "header"
       THEN addProposedHeader(w, Header([n |-> 1, h |-> InitialHeight, r |-> 0, hash |-> 1]))
       ELSE w

Init ==
    /\ net \in Nets
    /\ \E s \in Scenarios(net) :
         LET w == StartKernel(s.start)
             read == s.start # "nothing"
         IN /\ plan = [casts |-> s.casts, leave |-> s.leave]
            /\ handler = [n \in Node |-> IF n \in s.late THEN "nil" ELSE "set"]
            /\ kernel = [n \in Node |->
                 Quiet(IF read THEN [w EXCEPT !.gossip = GossipMarkSent(@)] ELSE w)]
            /\ strat = [n \in Node |->
                 IF read THEN Seen(NewStrategy, NetworkViewUpdate(w.gossip)) ELSE NewStrategy]
    /\ off = {} /\ missed = {} /\ swapping = {}
    /\ out = [n \in Node |-> [k \in MessageKinds |-> <<>>]]
    /\ chan = [x \in Links |-> <<>>]
    /\ hold = [n \in Node |-> Free]
    /\ topic = [n \in Node |-> {}]

\* The state machine of node c.n votes or proposes in the mirror's voting round.
CastNow(c) ==
    LET w == kernel[c.n]
        v == w.voting
        u == [dom |-> {c.hash}, ver |-> v.ver[c.kind],
              proofs |-> [v.proofs[c.kind] EXCEPT ![c.hash] = @ \cup {SignerOf[c.n]}]]
    IN /\ ~w.panic
       /\ v.h = c.h /\ v.r = c.r
       /\ kernel' = [kernel EXCEPT ![c.n] =
            Quiet(IF c.kind = "ph" THEN addProposedHeader(w, Header(c))
                  ELSE addVote(w, c.kind, c.h, c.r, u))]
       /\ plan' = [plan EXCEPT !.casts = @ \ {c}]
       /\ UNCHANGED <<handler, off, missed, net, strat, out, chan, hold, topic, swapping>>

StrategyStep(n) ==
    /\ TakeUpdate(n) \/ Resume(n)
    /\ UNCHANGED <<chan, hold, topic, swapping, plan>>

ConnectionStep(n) ==
    \/ ChainStep(n) /\ UNCHANGED <<topic, swapping, plan>>
    \/ Libp2pStep(n) /\ UNCHANGED <<chan, hold, plan>>

SetConsensusHandler(n) ==
    \/ ChainSetHandler(n) /\ UNCHANGED <<topic, swapping, plan>>
    \/ UnregisterValidator(n) /\ UNCHANGED <<chan, hold, plan>>

Disconnect(n) ==
    /\ \/ ChainDisconnect(n) /\ UNCHANGED <<topic, swapping>>
       \/ Libp2pDisconnect(n) /\ UNCHANGED <<chan, hold>>
    /\ plan' = [plan EXCEPT !.leave = @ \ {n}]

Next ==
    \/ \E c \in plan.casts : CastNow(c)
    \/ \E n \in Node : StrategyStep(n) \/ ConnectionStep(n) \/ SetConsensusHandler(n)
    \/ \E n \in plan.leave : Disconnect(n)

\* When a strategy or a connection has something to do (StrategyStep and
\* ConnectionStep are enabled).
StrategyWaits(n) ==
    \/ strat[n].todo = <<>> /\ ~kernel[n].panic /\ GossipOutput(kernel[n].gossip)
    \/ strat[n].todo # <<>> /\ Len(out[n][Head(strat[n].todo).kind]) < OutCap[net]

ConnectionWaits(n) ==
    \/ /\ Selecting(n)
       /\ \/ \E k \in MessageKinds : out[n][k] # <<>>
          \/ \E s \in Neighbors(n) : chan[<<s, n>>] # <<>>
    \/ \E t \in hold[n].to : Len(chan[<<n, t>>]) < ChainCap
    \/ Listening(n) /\ \E k \in MessageKinds : out[n][k] # <<>>
    \/ topic[n] # {} /\ n \notin off /\ ~kernel[n].panic
    \/ n \in swapping

\* The network does not stop while a goroutine of a strategy or a connection can
\* go on or a message is under way.  Nobody has to vote, to set a handler or to
\* disconnect.  This is weaker than weak fairness of every single goroutine.
Fairness ==
    \/ []<>(\A n \in Node : ~StrategyWaits(n) /\ ~ConnectionWaits(n))
    \/ []<><<gvars' # gvars>>_gvars

Spec == Init /\ [][Next]_gvars /\ Fairness
-----------------------------------------------------------------------------
(* Properties *)

\* Type invariant.
TypeOK ==
    /\ net \in Nets
    /\ plan.casts \subseteq Cast /\ plan.leave \subseteq Node
    /\ \A n \in Node : strat[n].todo \in Seq(Message)
    /\ handler \in [Node -> {"nil", "set", "gap"}]
    /\ off \subseteq Node /\ missed \subseteq Node /\ swapping \subseteq Node
    /\ \A n \in Node, k \in MessageKinds :
         out[n][k] \in Seq(Message) /\ Len(out[n][k]) <= OutCap[net]
    /\ \A x \in Links : chan[x] \in Seq(Message) /\ Len(chan[x]) <= ChainCap
    /\ \A n \in Node : hold[n].to \subseteq Neighbors(n) /\ topic[n] \subseteq Message

\* The nodes that were connected, with a handler, for every message so far.
Attentive == Node \ (missed \cup off)

Place(n) == <<kernel[n].voting.h, kernel[n].voting.r>>

\* Two neighbours of a daisy chain that wait for each other: both channels between
\* them are full, and each one holds a message for the other and reads nothing.
\* Nothing ends that; with finite channels and any traffic the code may get there.
FaceToFace == \E x \in Links : x[2] \in hold[x[1]].to /\ x[1] \in hold[x[2]].to

\* Mirrors that hear everything end up in the same round of the same height:
\* who commits or gives a round up gets the others there, through relays that
\* ignore what they know, in whatever order the goroutines run and however full
\* the channels are, unless two neighbours get stuck on each other.
PlacesConverge == <>[](FaceToFace \/ \A a, b \in Attentive : Place(a) = Place(b))

\* In a daisy chain no precommit of the current round is lost, although a node
\* drops the votes for a height that it has not reached yet: they come again,
\* unless two neighbours get stuck on each other.
PrecommitsConverge ==
    net = "chain" =>
      <>[](\/ FaceToFace
           \/ \A a, b \in Attentive :
                kernel[a].voting.proofs["precommit"] = kernel[b].voting.proofs["precommit"])

\* No channel is filled beyond its capacity, and broadcasts are completed: a
\* strategy waits forever for its connection, or a connection for a neighbour,
\* only if two neighbours wait for each other.  A node without a handler, with
\* one that refuses everything or that has disconnected never blocks the others.
BroadcastsComplete ==
    /\ []TypeOK
    /\ \A n \in Node : []<>(\/ FaceToFace
                            \/ /\ strat[n].todo = <<>> /\ hold[n] = Free
                               /\ \A k \in MessageKinds : out[n][k] = <<>>)
=============================================================================
