----------------------------- MODULE MirrorState -----------------------------
(***************************************************************************)
(* The mutable state of the mirror kernel (tmi/kstate.go), the managers    *)
(* that decide what leaves the kernel (gossip, state machine, lag) and the *)
(* stores it writes.                                                       *)
(*                                                                         *)
(* The kernel is one goroutine, so its whole state is one record w and     *)
(* each method is an operator from w to the next w.  Two fields of w are   *)
(* scratch space of the handler that is running: w.torn collects the disk  *)
(* images that a crash in the middle of the handler could leave behind,    *)
(* w.panic records that the handler panicked, w.room which header fetch    *)
(* requests find room in the channel to the fetcher.                       *)
(***************************************************************************)
EXTENDS Votes

CONSTANTS
    InitialHeight,  \* height of the first block of the chain
    MaxHeight,      \* bound: no message is about a later height
    MaxRound,       \* bound: no message is about a later round
    NoProposer      \* proposer of a header that was replayed, not proposed

ASSUME BoundsAssumption ==
    /\ InitialHeight \in Nat \ {0}
    /\ MaxHeight \in Nat /\ MaxHeight >= InitialHeight
    /\ MaxRound \in Nat
    /\ NoProposer \notin Val

Heights == InitialHeight..MaxHeight
Rounds  == 0..MaxRound
HR      == Heights \X Rounds
Kinds   == {"prevote", "precommit"}

\* A proposed header held in a view: its hash and who signed the proposal.
HeldPH == [hash : Blocks, by : Val \cup {NoProposer}]

NoVersions == [h \in Hashes |-> 0]
NoCommit   == [r |-> 0, proofs |-> NoProofs]

\* The zero tmconsensus.VersionedRoundView, also used for a nil pointer to one
\* (its height 0 is no height of the chain).  sum holds the proof maps that
\* the VoteSummary was last computed from.
ZeroView ==
    [h |-> 0, r |-> 0, phs |-> {},
     proofs |-> [k \in Kinds |-> NoProofs],
     sum    |-> [k \in Kinds |-> NoProofs],
     ver    |-> [k \in Kinds |-> NoVersions],
     prev |-> NoCommit, version |-> 0]

View ==
    [h : Nat, r : Nat, phs : SUBSET HeldPH,
     proofs : [Kinds -> Proofs], sum : [Kinds -> Proofs],
     ver : [Kinds -> [Hashes -> Nat]],
     prev : [r : Nat, proofs : Proofs], version : Nat]

-----------------------------------------------------------------------------
(* Stores: mirror store, round store and committed header store. *)

EmptyDisk ==
    [nhr |-> [vh |-> InitialHeight, vr |-> 0, ch |-> 0, cr |-> 0],
     phs |-> [x \in HR |-> {}],
     replayed |-> [h \in Heights |-> {}],
     votes |-> [k \in Kinds |-> [x \in HR |-> NoProofs]],
     headers |-> [h \in Heights |-> [hash |-> Nil, r |-> 0, proofs |-> NoProofs]]]

Disk ==
    [nhr : [vh : Nat, vr : Nat, ch : Nat, cr : Nat],
     phs : [HR -> SUBSET HeldPH],
     replayed : [Heights -> SUBSET Blocks],
     votes : [Kinds -> [HR -> Proofs]],
     headers : [Heights -> [hash : Hashes, r : Nat, proofs : Proofs]]]

\* A view on its way out of the kernel, and the last one that was sent.
Outgoing == [view : View, sent : Nat \X Nat \X Nat]

\* The kernel's state.
Kernel ==
    [up : BOOLEAN, voting : View, committing : View, nextRound : View,
     committingHeader : Hashes, inFlight : SUBSET (Nat \X Blocks),
     gossip : [committing : Outgoing, voting : Outgoing, nextRound : Outgoing,
               nilVoted : View],
     sm : [h : Nat, r : Nat, live : BOOLEAN, closed : BOOLEAN, sent : Nat,
           jump : View, out : View],
     lag : [status : {"initializing", "upToDate"}, ch : Nat, sent : BOOLEAN],
     shared : BOOLEAN, disk : Disk, torn : SUBSET Disk, panic : BOOLEAN,
     room : SUBSET Blocks]

\* One store call: the image before it is what a crash would leave.
Write(w, d) == [w EXCEPT !.torn = @ \cup {w.disk}, !.disk = d]

SaveRoundProposedHeader(w, h, r, ph) ==
    Write(w, [w.disk EXCEPT !.phs[<<h, r>>] = @ \cup {ph}])

SaveRoundReplayedHeader(w, h, hash) ==
    Write(w, [w.disk EXCEPT !.replayed[h] = @ \cup {hash}])

OverwriteRoundProofs(w, kind, h, r, proofs) ==
    Write(w, [w.disk EXCEPT !.votes[kind][<<h, r>>] = proofs])

SaveCommittedHeader(w, h, hash, commit) ==
    Write(w, [w.disk EXCEPT !.headers[h] =
        [hash |-> hash, r |-> commit.r, proofs |-> commit.proofs]])

updateObservers(w) ==
    Write(w, [w.disk EXCEPT !.nhr =
        [vh |-> w.voting.h, vr |-> w.voting.r,
         ch |-> w.committing.h, cr |-> w.committing.r]])

\* LoadRoundState: a replayed header belongs to the rounds that precommitted it.
LoadedPHs(d, h, r) ==
    d.phs[<<h, r>>] \cup
    {[hash |-> b, by |-> NoProposer] :
        b \in {b \in d.replayed[h] : d.votes["precommit"][<<h, r>>][b] # {}}}

-----------------------------------------------------------------------------
(* kState.FindView.  The result is the ID of a view or the lookup status; *)
(* "panic" is the unhandled case at the end of the method.                *)

FoundIDs == {"voting", "nextRound", "committing"}

FindView(w, h, r) ==
    IF h = w.voting.h
    THEN IF r = w.voting.r THEN "voting"
         ELSE IF r = w.voting.r + 1 THEN "nextRound"
         ELSE IF r < w.voting.r THEN "orphaned" ELSE "laterRound"
    ELSE IF h = w.committing.h /\ r = w.committing.r THEN "committing"
    ELSE IF h < w.committing.h \/ (h = w.committing.h /\ r < w.committing.r)
    THEN "beforeCommitting"
    ELSE IF h > w.voting.h THEN "future" ELSE "panic"

GetView(w, id) ==
    CASE id = "voting" -> w.voting
      [] id = "nextRound" -> w.nextRound
      [] id = "committing" -> w.committing

PutView(w, id, v) ==
    CASE id = "voting" -> [w EXCEPT !.voting = v]
      [] id = "nextRound" -> [w EXCEPT !.nextRound = v]
      [] id = "committing" -> [w EXCEPT !.committing = v]

Panic(w) == [w EXCEPT !.panic = TRUE]

-----------------------------------------------------------------------------
(* MarkViewUpdated: bump the version, hand copies to the view managers. *)

Bump(v) == [v EXCEPT !.version = @ + 1]

\* Sends a state machine in the committing round nothing more.
MarkCommittingViewUpdatedUnsent(w) ==
    LET v == Bump(w.committing)
        sm == IF w.sm.h < v.h \/ (w.sm.h = v.h /\ w.sm.r < v.r)
              THEN [w.sm EXCEPT !.jump = v] ELSE w.sm
    IN [w EXCEPT !.committing = v, !.gossip.committing.view = v, !.sm = sm]

MarkCommittingViewUpdated(w) ==
    LET v == Bump(w.committing)
        sm == CASE w.sm.h = v.h /\ w.sm.r = v.r -> [w.sm EXCEPT !.out = v]
                [] w.sm.h < v.h \/ (w.sm.h = v.h /\ w.sm.r < v.r)
                     -> [w.sm EXCEPT !.jump = v]
                [] OTHER -> w.sm
    IN [w EXCEPT !.committing = v, !.gossip.committing.view = v, !.sm = sm]

\* Hands the state machine the view as it was before its version was bumped.
MarkVotingViewUpdatedStale(w) ==
    LET v == Bump(w.voting)
        sm == IF w.sm.h = v.h /\ w.sm.r = v.r
              THEN [w.sm EXCEPT !.out = w.voting] ELSE w.sm
    IN [w EXCEPT !.voting = v, !.gossip.voting.view = v, !.sm = sm]

MarkVotingViewUpdated(w) ==
    LET v == Bump(w.voting)
        sm == IF w.sm.h = v.h /\ w.sm.r = v.r
              THEN [w.sm EXCEPT !.out = v] ELSE w.sm
    IN [w EXCEPT !.voting = v, !.gossip.voting.view = v, !.sm = sm]

MarkNextRoundViewUpdated(w) ==
    LET v == Bump(w.nextRound)
    IN [w EXCEPT !.nextRound = v, !.gossip.nextRound.view = v]

MarkViewUpdated(w, id) ==
    CASE id = "voting" -> MarkVotingViewUpdated(w)
      [] id = "nextRound" -> MarkNextRoundViewUpdated(w)
      [] id = "committing" -> MarkCommittingViewUpdated(w)

-----------------------------------------------------------------------------
(* View shifts. *)

\* RoundView.ResetForSameHeight and resetVersions: height and previous commit
\* proof survive.
ResetForSameHeight(v, r) ==
    [ZeroView EXCEPT !.h = v.h, !.r = r, !.prev = v.prev]

\* The recycled view keeps the round that has just become the voting round.
incrementVotingRoundSameRound(w) ==
    LET w1 == MarkVotingViewUpdated([w EXCEPT !.voting = w.nextRound])
    IN MarkNextRoundViewUpdated(
         [w1 EXCEPT !.nextRound = ResetForSameHeight(w.voting, w.nextRound.r)])

incrementVotingRound(w) ==
    LET w1 == MarkVotingViewUpdated([w EXCEPT !.voting = w.nextRound])
    IN MarkNextRoundViewUpdated(
         [w1 EXCEPT !.nextRound = ResetForSameHeight(w.voting, w.nextRound.r + 1)])

AdvanceVotingRound(w) ==
    incrementVotingRound([w EXCEPT !.gossip.nilVoted = w.voting])

JumpVotingRound(w) ==
    LET w1 == incrementVotingRound(w)
    IN IF w1.sm.h = w1.voting.h /\ w1.sm.r = w1.voting.r - 1
       THEN [w1 EXCEPT !.sm.jump = w1.voting] ELSE w1

\* After a restart Voting and NextRound share the map of previous commit
\* proofs (w.shared), and NextRound.Reset clears it under the view that has
\* just become Committing.
ShiftVotingToCommitting(w, hash) ==
    LET close == w.sm.live /\ w.sm.h = w.committing.h
        w1 == MarkCommittingViewUpdated([w EXCEPT !.committing = w.voting])
        fresh == [ZeroView EXCEPT
                    !.h = w.voting.h + 1,
                    !.prev = [r |-> w.voting.r,
                              proofs |-> w.voting.proofs["precommit"]]]
        w2 == MarkVotingViewUpdated([w1 EXCEPT !.voting = fresh])
        w3 == MarkNextRoundViewUpdated(
                [w2 EXCEPT !.nextRound = [fresh EXCEPT !.r = 1]])
        w4 == IF w.shared
              THEN [w3 EXCEPT !.committing.prev.proofs = NoProofs] ELSE w3
    IN [w4 EXCEPT !.committingHeader = hash, !.shared = FALSE,
                  !.sm.closed = @ \/ close]

-----------------------------------------------------------------------------
(* What leaves the kernel. *)

\* stateMachineViewManager.Output, for a forceSend that nothing ever sets.
StateMachineOutput(sm) ==
    LET matches == sm.out.h = sm.h /\ sm.out.r = sm.r
        newer   == matches /\ sm.out.version > sm.sent
        sentVersion == IF newer THEN sm.out.version
                       ELSE IF matches /\ sm.jump.h # 0 THEN sm.sent ELSE 0
        jumps == sm.jump.h = sm.h /\ sm.jump.h # 0 /\ sm.jump.r > sm.r
    IN IF sentVersion > 0
       THEN [send |-> TRUE, version |-> sentVersion, jump |-> sm.jump,
             vrv |-> IF newer THEN sm.out ELSE ZeroView]
       ELSE [send |-> jumps, version |-> sm.sent,
             jump |-> sm.jump, vrv |-> ZeroView]

Stamp(v) == <<v.h, v.r, v.version>>

HasBeenSent(o) == o.sent = Stamp(o.view)

GossipOutput(g) ==
    \/ ~HasBeenSent(g.committing)
    \/ ~HasBeenSent(g.voting)
    \/ ~HasBeenSent(g.nextRound)
    \/ g.nilVoted.h # 0

\* Does not remember that the next round was sent.
GossipMarkSentPartly(g) ==
    [committing |-> [g.committing EXCEPT !.sent = Stamp(g.committing.view)],
     voting     |-> [g.voting EXCEPT !.sent = Stamp(g.voting.view)],
     nextRound  |-> g.nextRound,
     nilVoted   |-> ZeroView]

GossipMarkSent(g) ==
    [committing |-> [g.committing EXCEPT !.sent = Stamp(g.committing.view)],
     voting     |-> [g.voting EXCEPT !.sent = Stamp(g.voting.view)],
     nextRound  |-> [g.nextRound EXCEPT !.sent = Stamp(g.nextRound.view)],
     nilVoted   |-> ZeroView]

\* lagManager.SetState: only a change of status is sent again.
SetLagUpToDate(w) ==
    [w EXCEPT !.lag = [status |-> "upToDate", ch |-> w.committing.h,
                       sent |-> IF w.lag.status = "upToDate"
                                THEN w.lag.sent ELSE FALSE]]
=============================================================================
