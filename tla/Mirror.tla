-------------------------------- MODULE Mirror -------------------------------
(***************************************************************************)
(* The mirror: the kernel goroutine (module MirrorKernel), the goroutines  *)
(* that call Mirror.HandleProposedHeader, HandlePrevoteProofs and          *)
(* HandlePrecommitProofs concurrently, the local state machine, the header *)
(* fetcher and the driver's replayed headers.                              *)
(*                                                                         *)
(* A handler goroutine looks a view up in the kernel, merges signatures    *)
(* into its copy, and asks the kernel to take the merged proofs: between   *)
(* the two requests any other step may happen.  Messages may be lost,      *)
(* duplicated and reordered: every message of the input sets may arrive at *)
(* any time and any number of times.  The process may die between two      *)
(* steps and between two store calls of one step; a panic kills it too.    *)
(***************************************************************************)
EXTENDS MirrorKernel, Sequences

CONSTANTS
    Handlers,         \* goroutines that deliver network messages
    VoteMessages,     \* the vote messages of the network
    Proposals,        \* the proposed headers of the network
    ReplayedHeaders,  \* the committed headers the driver may replay
    SMRounds,         \* the rounds the local state machine may enter
    SMVotes,          \* the votes <<kind, hash>> it may cast in a round
    OwnKey,           \* its key
    Readers,          \* the consumers that read what the kernel offers them
    FetchRooms,       \* sets of hashes for which the fetcher has room
    PHQueueCap,       \* capacity of the addPHRequests channel
    MaxCrashes        \* bound: how often the process dies spontaneously

VoteMessage == [kind : Kinds, h : Heights, r : Rounds, proofs : Proofs]
Proposal == [h : Heights, r : Rounds, hash : Blocks, by : Val,
             prevR : Rounds, prev : Proofs]
ReplayedHeader == [h : Heights, hash : Blocks, r : Rounds, proofs : Proofs]

ASSUME InputAssumption ==
    /\ VoteMessages \subseteq VoteMessage
    /\ Proposals \subseteq Proposal
    /\ ReplayedHeaders \subseteq ReplayedHeader
    /\ \A c \in ReplayedHeaders : c.proofs[c.hash] # {}
    /\ SMRounds \subseteq HR
    /\ SMVotes \subseteq Kinds \X Hashes
    /\ OwnKey \in Val
    /\ Readers \subseteq {"stateMachine", "gossip", "lag"}
    /\ FetchRooms \subseteq SUBSET Blocks
    /\ PHQueueCap \in Nat \ {0}
    /\ MaxCrashes \in Nat

VARIABLES
    kernel,   \* the kernel's state record
    hs,       \* the state of each handler goroutine
    phQueue,  \* the addPHRequests channel
    crashes   \* how many times the process died spontaneously

vars == <<kernel, hs, phQueue, crashes>>

-----------------------------------------------------------------------------
(* Handler goroutines.  pc is what the goroutine does next: "lookup" and     *)
(* "check" are requests it is about to make, "add" an update it is about to  *)
(* send, "send" a header it is about to put on the addPHRequests channel.    *)

NoMessage == [kind |-> "prevote", h |-> 0, r |-> 0, proofs |-> NoProofs]
NoUpdate  == [dom |-> {}, ver |-> NoVersions, proofs |-> NoProofs]
NoProposal == [h |-> 0, r |-> 0, hash |-> Nil, by |-> NoProposer,
               prevR |-> 0, prev |-> NoProofs]

Idle == [pc |-> "idle", msg |-> NoMessage, u |-> NoUpdate, ph |-> NoProposal]

\* handlePrecommitProofs returns to its caller, which may be the backfill of
\* HandleProposedHeader (goto RESTART).
Return(g) == IF g.ph = NoProposal THEN Idle
             ELSE [Idle EXCEPT !.pc = "check", !.ph = g.ph]

Init ==
    /\ kernel = NewKernel(EmptyDisk, Nil)
    /\ hs = [c \in Handlers |-> Idle]
    /\ phQueue = <<>>
    /\ crashes = 0

\* The process dies and leaves disk image d behind.
Dies(d) ==
    /\ kernel' = BlankKernel(d)
    /\ hs' = [c \in Handlers |-> Idle]
    /\ phQueue' = <<>>

\* The kernel handles one request: w is its state after it, g and q the
\* handlers and the queue.  The process may die between two store calls.
KernelStep(w, g, q) ==
    \/ /\ ~w.panic
       /\ kernel' = [w EXCEPT !.torn = {}, !.room = {}]
       /\ hs' = g
       /\ phQueue' = q
       /\ UNCHANGED crashes
    \/ /\ w.panic
       /\ Dies(w.disk)
       /\ UNCHANGED crashes
    \/ /\ crashes < MaxCrashes
       /\ \E d \in w.torn : Dies(d)
       /\ crashes' = crashes + 1

WithRoom(w, room) == [w EXCEPT !.room = room]

-----------------------------------------------------------------------------
(* HandlePrevoteProofs, handlePrecommitProofs. *)

\* The view lookup, and the work on its answer.
Lookup(c, g) ==
    LET id == FindView(kernel, g.msg.h, g.msg.r)
        u  == MergedUpdate(GetView(kernel, id), g.msg)
        next == IF id \in FoundIDs
                THEN IF u.dom # {} THEN [g EXCEPT !.pc = "add", !.u = u]
                     ELSE Return(g)
                ELSE Return(g)
    IN KernelStep(IF id = "panic" THEN Panic(kernel) ELSE kernel,
                  [hs EXCEPT ![c] = next], phQueue)

HandleVoteProofs(c, m) ==
    /\ kernel.up
    /\ hs[c].pc = "idle"
    /\ Lookup(c, [Idle EXCEPT !.msg = m])

RetryLookup(c) ==
    /\ kernel.up
    /\ hs[c].pc = "lookup"
    /\ Lookup(c, hs[c])

AddVotes(c, room) ==
    LET g   == hs[c]
        m   == g.msg
        res == AddVoteResult(kernel, m.kind, m.h, m.r, g.u)
        next == IF res = "conflict"
                THEN [g EXCEPT !.pc = "lookup", !.u = NoUpdate] ELSE Return(g)
    IN /\ kernel.up
       /\ g.pc = "add"
       /\ KernelStep(addVote(WithRoom(kernel, room), m.kind, m.h, m.r, g.u),
                     [hs EXCEPT ![c] = next], phQueue)

-----------------------------------------------------------------------------
(* HandleProposedHeader. *)

\* An answer about the next height makes the handler deliver the precommits
\* that the header carries, and then start over.
AfterCheck(status, p) ==
    CASE status = "acceptable" -> [Idle EXCEPT !.pc = "send", !.ph = p]
      [] status = "nextHeight" /\ p.prev # NoProofs
           -> [Idle EXCEPT !.pc = "lookup", !.ph = p,
                 !.msg = [kind |-> "precommit", h |-> p.h - 1, r |-> p.prevR,
                          proofs |-> p.prev]]
      [] status = "nextHeight" /\ p.prev = NoProofs
           -> [Idle EXCEPT !.pc = "check", !.ph = p]
      [] OTHER -> Idle

CheckPH(c, p) ==
    LET status == PHCheck(kernel, p)
    IN KernelStep(IF status = "panic" THEN Panic(kernel) ELSE kernel,
                  [hs EXCEPT ![c] = AfterCheck(status, p)], phQueue)

HandleProposedHeader(c, p) ==
    /\ kernel.up
    /\ hs[c].pc = "idle"
    /\ CheckPH(c, p)

RestartCheck(c) ==
    /\ kernel.up
    /\ hs[c].pc = "check"
    /\ CheckPH(c, hs[c].ph)

SendPH(c) ==
    /\ kernel.up
    /\ hs[c].pc = "send"
    /\ Len(phQueue) < PHQueueCap
    /\ phQueue' = Append(phQueue, hs[c].ph)
    /\ hs' = [hs EXCEPT ![c] = Idle]
    /\ UNCHANGED <<kernel, crashes>>

AddQueuedPH ==
    /\ kernel.up
    /\ phQueue # <<>>
    /\ KernelStep(addProposedHeader(kernel, Head(phQueue)), hs, Tail(phQueue))

\* The fetcher delivers a header that the kernel asked for.
AddFetchedPH(p) ==
    /\ kernel.up
    /\ <<p.h, p.hash>> \in kernel.inFlight
    /\ KernelStep(addProposedHeader(kernel, p), hs, phQueue)

-----------------------------------------------------------------------------
(* The local state machine, the driver, and what leaves the kernel. *)

\* The state machine starts at a round of its own store, no later than the
\* mirror.  It leaves a round for the next one, never past the mirror's next
\* round, and a height when the mirror has committed it.
MayEnter(h, r) ==
    LET sm == kernel.sm
    IN \/ ~sm.live /\ (h < kernel.voting.h \/ (h = kernel.voting.h /\ r <= kernel.voting.r))
       \/ sm.live /\ h = sm.h /\ r = sm.r + 1
                  /\ (h < kernel.voting.h \/ r <= kernel.voting.r + 1)
       \/ sm.live /\ h = sm.h + 1 /\ r = 0 /\ h <= kernel.voting.h

SMRoundEntrance(h, r) ==
    /\ kernel.up
    /\ MayEnter(h, r)
    /\ KernelStep(handleStateMachineRoundEntrance(kernel, h, r), hs, phQueue)

\* The state machine votes once in a round.
SMVote(kind, hash, room) ==
    LET id == FindView(kernel, kernel.sm.h, kernel.sm.r)
    IN /\ kernel.up
       /\ kernel.sm.live
       /\ id \in FoundIDs =>
            \A b \in Hashes : OwnKey \notin GetView(kernel, id).proofs[kind][b]
       /\ KernelStep(handleStateMachineVote(WithRoom(kernel, room), kind, hash, OwnKey),
                     hs, phQueue)

SMPropose(p) ==
    /\ kernel.up
    /\ kernel.sm.live
    /\ p.h = kernel.sm.h /\ p.r = kernel.sm.r /\ p.by = OwnKey
    /\ KernelStep(addProposedHeader(kernel, p), hs, phQueue)

Replay(c, room) ==
    /\ kernel.up
    /\ KernelStep(handleReplayedHeader(WithRoom(kernel, room), c), hs, phQueue)

SendToStateMachine ==
    LET o == StateMachineOutput(kernel.sm)
    IN /\ kernel.up
       /\ "stateMachine" \in Readers
       /\ o.send
       /\ kernel' = [kernel EXCEPT !.sm.jump = ZeroView, !.sm.sent = o.version]
       /\ UNCHANGED <<hs, phQueue, crashes>>

SendToGossip ==
    /\ kernel.up
    /\ "gossip" \in Readers
    /\ GossipOutput(kernel.gossip)
    /\ kernel' = [kernel EXCEPT !.gossip = GossipMarkSent(@)]
    /\ UNCHANGED <<hs, phQueue, crashes>>

SendLagState ==
    /\ kernel.up
    /\ "lag" \in Readers
    /\ ~kernel.lag.sent
    /\ kernel' = [kernel EXCEPT !.lag.sent = TRUE]
    /\ UNCHANGED <<hs, phQueue, crashes>>

Crash ==
    /\ kernel.up
    /\ crashes < MaxCrashes
    /\ Dies(kernel.disk)
    /\ crashes' = crashes + 1

Restart ==
    /\ ~kernel.up
    /\ Loadable(kernel.disk)
    /\ \E hash \in StartHashes(kernel.disk) : kernel' = NewKernel(kernel.disk, hash)
    /\ UNCHANGED <<hs, phQueue, crashes>>

-----------------------------------------------------------------------------
HandlerNext(c) ==
    \/ \E m \in VoteMessages : HandleVoteProofs(c, m)
    \/ RetryLookup(c)
    \/ \E room \in FetchRooms : AddVotes(c, room)
    \/ \E p \in Proposals : HandleProposedHeader(c, p)
    \/ RestartCheck(c)
    \/ SendPH(c)

StateMachineNext ==
    \/ \E x \in SMRounds : SMRoundEntrance(x[1], x[2])
    \/ \E v \in SMVotes, room \in FetchRooms : SMVote(v[1], v[2], room)
    \/ \E p \in Proposals : SMPropose(p)
    \/ SendToStateMachine

Next ==
    \/ \E c \in Handlers : HandlerNext(c)
    \/ AddQueuedPH
    \/ \E p \in Proposals : AddFetchedPH(p)
    \/ StateMachineNext
    \/ \E c \in ReplayedHeaders, room \in FetchRooms : Replay(c, room)
    \/ SendToGossip
    \/ SendLagState
    \/ Crash
    \/ Restart

Spec == Init /\ [][Next]_vars

\* A pending request is eventually served, for the kernel's select chooses
\* uniformly among the channels that are ready; consumers keep reading, the
\* fetcher finds the headers it is asked for, a dead process is restarted.
\* Nothing obliges the network or the state machine to send anything.
\* Weak fairness is spelled out with the condition under which each action is
\* enabled and changes something.
HandlerStep(c) ==
    \/ RetryLookup(c)
    \/ \E room \in FetchRooms : AddVotes(c, room)
    \/ RestartCheck(c)
    \/ SendPH(c)

HandlerWaits(c) ==
    /\ kernel.up
    /\ \/ hs[c].pc \in {"lookup", "add"}
       \/ hs[c].pc = "check" /\ AfterCheck(PHCheck(kernel, hs[c].ph), hs[c].ph) # hs[c]
       \/ hs[c].pc = "send" /\ Len(phQueue) < PHQueueCap

StateMachineWaits ==
    kernel.up /\ "stateMachine" \in Readers /\ StateMachineOutput(kernel.sm).send
GossipWaits ==
    /\ kernel.up /\ "gossip" \in Readers
    /\ GossipOutput(kernel.gossip) /\ GossipMarkSent(kernel.gossip) # kernel.gossip
FetchWaits ==
    kernel.up /\ \E p \in Proposals : <<p.h, p.hash>> \in kernel.inFlight

Fairness ==
    /\ \A c \in Handlers : []<>(~HandlerWaits(c)) \/ []<><<HandlerStep(c)>>_vars
    /\ []<>(kernel.up => phQueue = <<>>) \/ []<><<AddQueuedPH>>_vars
    /\ []<>(~FetchWaits) \/ []<><<\E p \in Proposals : AddFetchedPH(p)>>_vars
    /\ []<>(~StateMachineWaits) \/ []<><<SendToStateMachine>>_vars
    /\ []<>(~GossipWaits) \/ []<><<SendToGossip>>_vars
    /\ []<>(kernel.up \/ ~Loadable(kernel.disk)) \/ []<><<Restart>>_vars

LiveSpec == Spec /\ Fairness
-----------------------------------------------------------------------------
(* Properties. *)

\* A handler that is about to check or to send a header has one.
Handler ==
    {g \in [pc : {"idle", "lookup", "add", "check", "send"},
            msg : [kind : Kinds, h : Nat, r : Rounds, proofs : Proofs],
            u : Update,
            ph : Proposal \cup {NoProposal}] :
       g.pc \in {"check", "send"} => g.ph # NoProposal}

\* Type invariant: the kernel's state, that of the goroutines that call the
\* Mirror's handlers and the addPHRequests channel keep their types; in
\* particular no nil hash is ever requested from the fetcher and nothing but
\* proposed headers is queued (kState, Mirror).
TypeOK ==
    /\ kernel \in Kernel
    /\ hs \in [Handlers -> Handler]
    /\ phQueue \in Seq(Proposal)
    /\ crashes \in 0..MaxCrashes

\* The three views of a running kernel are at consecutive places: NextRound is
\* the round after Voting, Committing the height before it (or absent at the
\* first height), and the mirror store names the same places, so that a
\* restart resumes where the kernel was (kState, updateObservers).
ViewsAligned ==
    kernel.up =>
      LET w == kernel
      IN /\ w.nextRound.h = w.voting.h /\ w.nextRound.r = w.voting.r + 1
         /\ \/ w.committing.h = w.voting.h - 1 /\ w.committing.h >= InitialHeight
            \/ w.committing.h = 0 /\ w.committing.r = 0 /\ w.voting.h = InitialHeight
         /\ w.disk.nhr = [vh |-> w.voting.h, vr |-> w.voting.r,
                          ch |-> w.committing.h, cr |-> w.committing.r]

\* The validators whose signature over a vote is anywhere in the inputs.
Signed(kind, h, r, b) ==
    UNION ({m.proofs[b] : m \in {m \in VoteMessages : m.kind = kind /\ m.h = h /\ m.r = r}}
      \cup {p.prev[b] : p \in {p \in Proposals : /\ kind = "precommit"
                                                 /\ p.h = h + 1 /\ p.prevR = r}}
      \cup {c.proofs[b] : c \in {c \in ReplayedHeaders : /\ kind = "precommit"
                                                         /\ c.h = h /\ c.r = r}}
      \cup {IF <<h, r>> \in SMRounds /\ <<kind, b>> \in SMVotes THEN {OwnKey} ELSE {}})

\* A header is stored as committed only if validators with more than two
\* thirds of the power signed precommits for it, at that height and in the
\* round the commit proof names (checkVotingPrecommitViewShift,
\* saveCurrentCommittingHeader).
CommitJustified ==
    \A h \in Heights :
      LET c == kernel.disk.headers[h]
      IN c.hash # Nil => /\ PowerOf[Signed("precommit", h, c.r, c.hash)] >= Majority
                         /\ BlockPower(c.proofs, c.hash) >= Majority

\* Whatever a running kernel holds has been stored: a crash between two
\* handlers loses no vote and no proposed header of the three views (addPrevote,
\* addPrecommit, addProposedHeader write before they shift views).
ViewsMatchDisk ==
    kernel.up =>
      \A id \in FoundIDs :
        LET v == GetView(kernel, id)
        IN <<v.h, v.r>> \in HR =>
             /\ \A k \in Kinds : kernel.disk.votes[k][<<v.h, v.r>>] = v.proofs[k]
             /\ {p \in v.phs : p.by # NoProposer} = kernel.disk.phs[<<v.h, v.r>>]

\* Every disk image a crash can leave behind lets NewKernel start again: the
\* committing round has its precommits and the header they commit
\* (loadInitialCommittingView panics or fails otherwise).
RestartPossible == Loadable(kernel.disk)

\* What the gossip strategy will be sent next is what the kernel holds.
GossipCurrent ==
    kernel.up =>
      \A id \in FoundIDs :
        LET v == GetView(kernel, id)
            o == kernel.gossip[id].view
        IN v.h # 0 => /\ Stamp(o) = Stamp(v)
                      /\ o.phs = v.phs /\ o.proofs = v.proofs

\* A crash anywhere leaves stores from which the kernel can start, and a running
\* kernel, restarted or not, holds in its views what it has stored and offers
\* for gossip, no less and no more.
CrashSafe == RestartPossible /\ ViewsMatchDisk /\ GossipCurrent

\* While a round stays in view, no step removes a vote from it: requests that
\* were computed from an outdated copy of the proofs must be refused
\* (AddVoteConflict).
VotesNeverLost ==
    [][kernel.up /\ kernel'.up =>
         \A id, id2 \in FoundIDs :
           LET v == GetView(kernel, id)
               v2 == GetView(kernel', id2)
           IN (v.h = v2.h /\ v.r = v2.r) =>
                \A k \in Kinds, b \in Hashes : v.proofs[k][b] \subseteq v2.proofs[k][b]]_vars

\* A committed header is never replaced by a different one, and the stored
\* voting height and round never go back, crashes included.
StoredProgress ==
    [][LET n == kernel.disk.nhr
           m == kernel'.disk.nhr
       IN /\ \A h \in Heights : kernel.disk.headers[h].hash # Nil =>
                kernel'.disk.headers[h].hash = kernel.disk.headers[h].hash
          /\ m.vh > n.vh \/ (m.vh = n.vh /\ m.vr >= n.vr)]_vars

\* The vote summary that view shifts are decided on is that of the votes held.
SummariesCurrent ==
    kernel.up => /\ kernel.voting.sum = kernel.voting.proofs
                 /\ kernel.nextRound.sum = kernel.nextRound.proofs

\* Once precommits for a header the kernel holds reach a majority in the Voting
\* view, and every handler has returned, the header is committed: no state is
\* left waiting for another vote (addPrecommit, addProposedHeader).  Nor does
\* a shift wait for a summary that is not the one of the votes held.
NoMissedCommit ==
    /\ SummariesCurrent
    /\ (kernel.up /\ \A c \in Handlers : hs[c].pc = "idle") =>
         \A b \in Blocks :
           BlockPower(kernel.voting.proofs["precommit"], b) >= Majority =>
             \A p \in kernel.voting.phs : p.hash # b

\* Headers are committed exactly when they should be: none without a majority,
\* and none that has one is left waiting.
CommitsExact == CommitJustified /\ NoMissedCommit

\* Every height that the mirror store names as committing or earlier has its
\* header in the committed header store, whatever the process died in the
\* middle of (saveCurrentCommittingHeader runs before updateObservers).
HeadersComplete ==
    \A h \in Heights : h <= kernel.disk.nhr.ch => kernel.disk.headers[h].hash # Nil

\* A round is given up by advanceVotingRound only when it is certain that it
\* commits nothing: no block could reach a majority even with all validators
\* whose precommit has not been seen ("Certain due to 100% precommits present",
\* "Certain because full nil precommit", checkVotingPrecommitViewShift).  A
\* validator that signs two precommits is counted twice.  In the run one does and
\* the property holds; it is false where the power that was counted twice makes up
\* for a validator that has not been heard and no hash has a majority.
AdvanceOnlyWhenCertain ==
    [][LET v    == kernel'.gossip.nilVoted
           cast == v.proofs["precommit"]
           rest == Val \ UNION {cast[b] : b \in Hashes}
       IN (v.h # 0 /\ v # kernel.gossip.nilVoted) =>
            \A b \in Blocks : PowerOf[cast[b] \cup rest] < Majority]_vars

\* A state machine in the Voting or the Committing round has been sent the
\* latest version of that view, or it is waiting to be sent
\* (MarkVotingViewUpdated, MarkCommittingViewUpdated, stateMachineOutput).
StateMachineInformed ==
    (kernel.up /\ kernel.sm.live) =>
      \A id \in {"voting", "committing"} :
        LET v == GetView(kernel, id)
            o == StateMachineOutput(kernel.sm)
        IN (v.h = kernel.sm.h /\ v.r = kernel.sm.r) =>
             \/ kernel.sm.sent = v.version
             \/ o.send /\ Stamp(o.vrv) = Stamp(v) /\ o.vrv.proofs = v.proofs

\* A handler returns again and again, however often its updates conflict with
\* those of other handlers and of the state machine.  The one call that may
\* go on for ever is HandleProposedHeader with a header of the next height,
\* which starts over (goto RESTART) until the voting height is committed:
\* a handler that never returns is in one, and the height never commits.
HandlersReturn ==
    \A c \in Handlers :
      []<>(hs[c].pc = "idle") \/ <>[](hs[c].ph.h > kernel.voting.h)

\* A majority of precommits in the Voting view leads to a committed header,
\* also when the header has to be fetched first.
MajorityCommits ==
    \A h \in Heights, b \in Blocks :
      (kernel.up /\ kernel.voting.h = h
         /\ BlockPower(kernel.voting.proofs["precommit"], b) >= Majority)
      ~> kernel.disk.headers[h].hash = b

\* The gossip strategy catches up again and again: what is marked sent
\* (gossipStrategyOutput.MarkSent) is not offered a second time.
GossipCatchesUp == []<>(~GossipOutput(kernel.gossip))

\* A state machine in the Voting round is, again and again, in possession of
\* the latest version of it (stateMachineOutput.MarkSent).
StateMachineCatchesUp ==
    []<>(kernel.sm.live /\ kernel.sm.h = kernel.voting.h /\ kernel.sm.r = kernel.voting.r
           => kernel.sm.sent = kernel.voting.version)
=============================================================================
