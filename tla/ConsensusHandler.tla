-------------------------- MODULE ConsensusHandler ---------------------------
(***************************************************************************)
(* A node as its p2p connection sees it: a mirror (module MirrorKernel)    *)
(* behind a feedback mapper, which a connection may or may not know as its *)
(* consensus handler.                                                      *)
(*                                                                         *)
(* A connection hands a message to the mirror and waits for the result, so *)
(* that one call is one step here; module Mirror has the interleavings of  *)
(* several calls.                                                          *)
(***************************************************************************)
EXTENDS MirrorKernel

CONSTANTS
    NumNodes,   \* the nodes are 1..NumNodes
    MapperOf    \* the feedback mapper of each node

Node == 1..NumNodes
Mappers == {"AcceptAllValid", "DropDuplicate"}

ASSUME NodesAssumption == NumNodes \in Nat \ {0} /\ MapperOf \in [Node -> Mappers]

VARIABLES
    kernel,    \* the mirror kernel of each node
    handler,   \* what its connection calls: "nil", "set", or "gap" (no validator)
    off,       \* the nodes that have disconnected
    missed     \* the nodes that a message has passed unseen

\* A consensus message: a proposed header, or a sparse proof of one kind.
MessageKinds == {"ph"} \cup Kinds
Message == [kind : MessageKinds, h : Heights, r : Rounds, hash : Hashes,
            by : Val \cup {NoProposer}, proofs : Proofs]

\* HandlePrevoteProofs, HandlePrecommitProofs.
HandleVotes(w, m) ==
    LET id == FindView(w, m.h, m.r)
        u  == MergedUpdate(GetView(w, id), m)
    IN IF id = "panic" THEN [w |-> Panic(w), result |-> "InternalError"]
       ELSE IF id \notin FoundIDs THEN [w |-> w, result |-> "RoundTooOld"]
       ELSE IF u.dom = {} THEN [w |-> w, result |-> "NoNewSignatures"]
       ELSE [w |-> addVote(w, m.kind, m.h, m.r, u), result |-> "Accepted"]

\* HandleProposedHeader, for a header of the initial height.
HandleHeader(w, m) ==
    LET p  == [h |-> m.h, r |-> m.r, hash |-> m.hash, by |-> m.by,
               prevR |-> 0, prev |-> NoProofs]
        id == FindView(w, m.h, m.r)
        c  == PHCheck(w, p)
    IN CASE c = "panic" -> [w |-> Panic(w), result |-> "InternalError"]
         [] c = "acceptable" -> [w |-> addProposedHeader(w, p), result |-> "Accepted"]
         [] c = "drop" -> [w |-> w, result |-> IF id \in FoundIDs THEN "AlreadyStored"
                                               ELSE "RoundTooOld"]

Feedback(mapper, result) ==
    CASE result = "Accepted" -> "accept"
      [] result \in {"AlreadyStored", "NoNewSignatures"} ->
           IF mapper = "AcceptAllValid" THEN "accept" ELSE "ignore"
      [] result \in {"RoundTooOld", "InternalError"} -> "ignore"

\* Between two calls only the gossip manager looks at the versions of views, and
\* only for a difference; disk, state machine and lag manager are not read here.
Quiet(w) ==
    LET Plain(v) == [v EXCEPT !.ver = ZeroView.ver, !.version = 0]
        Mark(o)  == [view |-> Plain(o.view),
                     sent |-> IF HasBeenSent(o) THEN Stamp(Plain(o.view)) ELSE <<0, 0, 1>>]
    IN [w EXCEPT !.torn = {}, !.room = {}, !.disk = EmptyDisk, !.sm = NoSM,
                 !.voting = Plain(@), !.committing = Plain(@), !.nextRound = Plain(@),
                 !.gossip = [committing |-> Mark(@.committing), voting |-> Mark(@.voting),
                             nextRound |-> Mark(@.nextRound), nilVoted |-> Plain(@.nilVoted)]]

\* The handler of node n takes message m: its kernel afterwards, and whether the
\* message is to be passed on.
Handle(n, m) ==
    LET x == IF m.kind = "ph" THEN HandleHeader(kernel[n], m) ELSE HandleVotes(kernel[n], m)
    IN [kernel |-> Quiet(x.w),
        accepted |-> Feedback(MapperOf[n], x.result) = "accept"]

\* The message reaches the handler, or passes the node unseen.
HandlerCalled(n, m) ==
    IF handler[n] = "set"
    THEN kernel' = [kernel EXCEPT ![n] = Handle(n, m).kernel] /\ UNCHANGED missed
    ELSE missed' = missed \cup {n} /\ UNCHANGED kernel
=============================================================================
