---------------------------- MODULE MirrorProofs -----------------------------
(***************************************************************************)
(* Type correctness of the mirror, for all constants: one lemma for each   *)
(* operator of MirrorState and MirrorKernel says that it takes a kernel    *)
(* state to a kernel state; the theorem has one step per action.           *)
(***************************************************************************)
EXTENDS Mirror, VotesProofs

-----------------------------------------------------------------------------
(* Views. *)

\* The nil target is one of the vote targets.
LEMMA NilIsHash == Nil \in Hashes
  BY BlocksAssumption DEF Nil, Hashes

\* Every block hash is a vote target.
LEMMA BlocksAreHashes == Blocks \subseteq Hashes
  BY BlocksAssumption DEF Blocks, Hashes

\* The empty proof map is a proof map.
LEMMA NoProofsType == NoProofs \in Proofs
  BY DEF NoProofs, Proofs

\* The zero CommitProof is a commit proof.
LEMMA NoCommitType == NoCommit \in [r : Nat, proofs : Proofs]
  BY NoProofsType DEF NoCommit

\* The zero VersionedRoundView is a view.
LEMMA ZeroViewType == ZeroView \in View
  <1>1. [k \in Kinds |-> NoProofs] \in [Kinds -> Proofs]
    BY NoProofsType
  <1>2. [k \in Kinds |-> NoVersions] \in [Kinds -> [Hashes -> Nat]]
    BY DEF NoVersions
  <1> QED BY <1>1, <1>2, NoCommitType DEF ZeroView, View

\* The views of a kernel state (Voting, NextRound, Committing) are views.
LEMMA GetViewType ==
    ASSUME NEW w \in Kernel, NEW id \in FoundIDs PROVE GetView(w, id) \in View
  BY DEF FoundIDs, GetView, Kernel

\* Replacing one of the three views by a view gives a kernel state.
LEMMA PutViewType ==
    ASSUME NEW w \in Kernel, NEW id \in FoundIDs, NEW v \in View
    PROVE  PutView(w, id, v) \in Kernel
  BY DEF FoundIDs, PutView, Kernel

\* A panicking handler leaves a kernel state.
LEMMA PanicType ==
    ASSUME NEW w \in Kernel PROVE Panic(w) \in Kernel
  BY DEF Panic, Kernel

-----------------------------------------------------------------------------
(* Stores. *)

\* A store call keeps the type of the kernel state and of its torn images.
LEMMA WriteType ==
    ASSUME NEW w \in Kernel, NEW d \in Disk PROVE Write(w, d) \in Kernel
  BY DEF Write, Kernel

\* What the kernel has stored is a disk image.
LEMMA KernelDisk == ASSUME NEW w \in Kernel PROVE w.disk \in Disk
  BY DEF Kernel

\* RoundStore.SaveRoundProposedHeader keeps the types.
LEMMA SaveRoundProposedHeaderType ==
    ASSUME NEW w \in Kernel, NEW h, NEW r, NEW ph \in HeldPH
    PROVE  SaveRoundProposedHeader(w, h, r, ph) \in Kernel
  <1> DEFINE x == <<h, r>>
  <1> HIDE DEF x
  <1>1. ASSUME NEW d \in Disk PROVE [d EXCEPT !.phs[x] = @ \cup {ph}] \in Disk
    BY DEF Disk
  <1> QED BY <1>1, KernelDisk, WriteType DEF SaveRoundProposedHeader, x

\* RoundStore.SaveRoundReplayedHeader keeps the types.
LEMMA SaveRoundReplayedHeaderType ==
    ASSUME NEW w \in Kernel, NEW h, NEW b \in Blocks
    PROVE  SaveRoundReplayedHeader(w, h, b) \in Kernel
  <1>1. ASSUME NEW d \in Disk PROVE [d EXCEPT !.replayed[h] = @ \cup {b}] \in Disk
    BY DEF Disk
  <1> QED BY <1>1, KernelDisk, WriteType DEF SaveRoundReplayedHeader

\* RoundStore.OverwriteRoundPrevoteProofs and its twin keep the types.
LEMMA OverwriteRoundProofsType ==
    ASSUME NEW w \in Kernel, NEW kind \in Kinds, NEW h, NEW r, NEW proofs \in Proofs
    PROVE  OverwriteRoundProofs(w, kind, h, r, proofs) \in Kernel
  <1> DEFINE x == <<h, r>>
  <1> HIDE DEF x
  <1>1. ASSUME NEW d \in Disk PROVE [d EXCEPT !.votes[kind][x] = proofs] \in Disk
    BY DEF Disk
  <1> QED BY <1>1, KernelDisk, WriteType DEF OverwriteRoundProofs, x

\* CommittedHeaderStore.SaveCommittedHeader keeps the types.
LEMMA SaveCommittedHeaderType ==
    ASSUME NEW w \in Kernel, NEW h, NEW hash \in Hashes,
           NEW c \in [r : Nat, proofs : Proofs]
    PROVE  SaveCommittedHeader(w, h, hash, c) \in Kernel
  <1>1. ASSUME NEW d \in Disk
        PROVE  [d EXCEPT !.headers[h] =
                  [hash |-> hash, r |-> c.r, proofs |-> c.proofs]] \in Disk
    BY DEF Disk
  <1> QED BY <1>1, KernelDisk, WriteType DEF SaveCommittedHeader

\* updateObservers keeps the types.
LEMMA updateObserversType ==
    ASSUME NEW w \in Kernel PROVE updateObservers(w) \in Kernel
  <1>1. /\ w.voting.h \in Nat /\ w.voting.r \in Nat
        /\ w.committing.h \in Nat /\ w.committing.r \in Nat
    BY DEF Kernel, View
  <1>2. ASSUME NEW d \in Disk, NEW a \in Nat, NEW b \in Nat, NEW e \in Nat, NEW f \in Nat
        PROVE  [d EXCEPT !.nhr = [vh |-> a, vr |-> b, ch |-> e, cr |-> f]] \in Disk
    BY DEF Disk
  <1> QED BY <1>1, <1>2, KernelDisk, WriteType DEF updateObservers

-----------------------------------------------------------------------------
(* Marking views and shifting them. *)

\* Projections of a kernel state that the lemmas below need.
LEMMA KernelViews ==
    ASSUME NEW w \in Kernel
    PROVE  w.voting \in View /\ w.nextRound \in View /\ w.committing \in View
  BY DEF Kernel

\* A view whose version is incremented is a view.
LEMMA BumpType == ASSUME NEW v \in View PROVE Bump(v) \in View
  BY DEF Bump, View

\* MarkVotingViewUpdated keeps the types.
LEMMA MarkVotingType ==
    ASSUME NEW w \in Kernel PROVE MarkVotingViewUpdated(w) \in Kernel
  <1> DEFINE v == Bump(w.voting)
  <1>1. v \in View
    BY KernelViews, BumpType
  <1> HIDE DEF v
  <1> DEFINE sm == IF w.sm.h = v.h /\ w.sm.r = v.r
                   THEN [w.sm EXCEPT !.out = v] ELSE w.sm
  <1>2. sm \in [h : Nat, r : Nat, live : BOOLEAN, closed : BOOLEAN, sent : Nat,
                jump : View, out : View]
    BY <1>1 DEF Kernel
  <1> HIDE DEF sm
  <1>3. [w EXCEPT !.voting = v, !.gossip.voting.view = v, !.sm = sm] \in Kernel
    BY <1>1, <1>2 DEF Kernel, Outgoing
  <1> QED BY <1>3 DEF MarkVotingViewUpdated, v, sm

\* MarkCommittingViewUpdated keeps the types.
LEMMA MarkCommittingType ==
    ASSUME NEW w \in Kernel PROVE MarkCommittingViewUpdated(w) \in Kernel
  <1> DEFINE v == Bump(w.committing)
  <1>1. v \in View
    BY KernelViews, BumpType
  <1> HIDE DEF v
  <1> DEFINE sm == CASE w.sm.h = v.h /\ w.sm.r = v.r -> [w.sm EXCEPT !.out = v]
                     [] w.sm.h < v.h \/ (w.sm.h = v.h /\ w.sm.r < v.r)
                          -> [w.sm EXCEPT !.jump = v]
                     [] OTHER -> w.sm
  <1>2. sm \in [h : Nat, r : Nat, live : BOOLEAN, closed : BOOLEAN, sent : Nat,
                jump : View, out : View]
    BY <1>1 DEF Kernel
  <1> HIDE DEF sm
  <1>3. [w EXCEPT !.committing = v, !.gossip.committing.view = v, !.sm = sm] \in Kernel
    BY <1>1, <1>2 DEF Kernel, Outgoing
  <1> QED BY <1>3 DEF MarkCommittingViewUpdated, v, sm

\* MarkNextRoundViewUpdated keeps the types.
LEMMA MarkNextRoundType ==
    ASSUME NEW w \in Kernel PROVE MarkNextRoundViewUpdated(w) \in Kernel
  <1> DEFINE v == Bump(w.nextRound)
  <1>1. v \in View
    BY KernelViews, BumpType
  <1> HIDE DEF v
  <1>2. [w EXCEPT !.nextRound = v, !.gossip.nextRound.view = v] \in Kernel
    BY <1>1 DEF Kernel, Outgoing
  <1> QED BY <1>2 DEF MarkNextRoundViewUpdated, v

\* MarkViewUpdated keeps the types, whichever view it is called for.
LEMMA MarkViewUpdatedType ==
    ASSUME NEW w \in Kernel, NEW id \in FoundIDs PROVE MarkViewUpdated(w, id) \in Kernel
  BY MarkVotingType, MarkCommittingType, MarkNextRoundType
     DEF MarkViewUpdated, FoundIDs

\* RoundView.ResetForSameHeight returns a view.
LEMMA ResetForSameHeightType ==
    ASSUME NEW v \in View, NEW r \in Nat PROVE ResetForSameHeight(v, r) \in View
  BY ZeroViewType DEF ResetForSameHeight, View

\* incrementVotingRound keeps the types.
LEMMA incrementVotingRoundType ==
    ASSUME NEW w \in Kernel PROVE incrementVotingRound(w) \in Kernel
  <1> DEFINE w0 == [w EXCEPT !.voting = w.nextRound]
             w1 == MarkVotingViewUpdated(w0)
             v  == ResetForSameHeight(w.voting, w.nextRound.r + 1)
  <1>1. w0 \in Kernel
    BY DEF Kernel
  <1>2. w1 \in Kernel
    BY <1>1, MarkVotingType
  <1>3. v \in View
    <2>1. w.voting \in View /\ w.nextRound.r + 1 \in Nat
      BY KernelViews DEF View
    <2> QED BY <2>1, ResetForSameHeightType
  <1> HIDE DEF w1, v
  <1>4. [w1 EXCEPT !.nextRound = v] \in Kernel
    BY <1>2, <1>3 DEF Kernel
  <1> QED BY <1>4, MarkNextRoundType DEF incrementVotingRound, w1, v

\* kState.AdvanceVotingRound keeps the types.
LEMMA AdvanceVotingRoundType ==
    ASSUME NEW w \in Kernel PROVE AdvanceVotingRound(w) \in Kernel
  <1>1. [w EXCEPT !.gossip.nilVoted = w.voting] \in Kernel
    BY DEF Kernel
  <1> QED BY <1>1, incrementVotingRoundType DEF AdvanceVotingRound

\* kState.JumpVotingRound keeps the types.
LEMMA JumpVotingRoundType ==
    ASSUME NEW w \in Kernel PROVE JumpVotingRound(w) \in Kernel
  <1>1. ASSUME NEW k \in Kernel PROVE [k EXCEPT !.sm.jump = k.voting] \in Kernel
    BY DEF Kernel
  <1> QED BY <1>1, incrementVotingRoundType DEF JumpVotingRound

\* ShiftVotingToCommitting keeps the types.
LEMMA ShiftVotingToCommittingType ==
    ASSUME NEW w \in Kernel, NEW hash \in Hashes
    PROVE  ShiftVotingToCommitting(w, hash) \in Kernel
  <1> DEFINE close == w.sm.live /\ w.sm.h = w.committing.h
             w1 == MarkCommittingViewUpdated([w EXCEPT !.committing = w.voting])
             fresh == [ZeroView EXCEPT
                         !.h = w.voting.h + 1,
                         !.prev = [r |-> w.voting.r,
                                   proofs |-> w.voting.proofs["precommit"]]]
             w2 == MarkVotingViewUpdated([w1 EXCEPT !.voting = fresh])
             w3 == MarkNextRoundViewUpdated(
                     [w2 EXCEPT !.nextRound = [fresh EXCEPT !.r = 1]])
             w4 == IF w.shared
                   THEN [w3 EXCEPT !.committing.prev.proofs = NoProofs] ELSE w3
  <1>1. w1 \in Kernel
    <2>1. [w EXCEPT !.committing = w.voting] \in Kernel
      BY DEF Kernel
    <2> QED BY <2>1, MarkCommittingType
  <1>2. fresh \in View
    <2>1. /\ w.voting.h + 1 \in Nat /\ w.voting.r \in Nat
          /\ w.voting.proofs["precommit"] \in Proofs
      BY DEF Kernel, View, Kinds
    <2> QED BY <2>1, ZeroViewType DEF View
  <1> HIDE DEF w1, fresh
  <1>3. w2 \in Kernel
    <2>1. [w1 EXCEPT !.voting = fresh] \in Kernel
      BY <1>1, <1>2 DEF Kernel
    <2> QED BY <2>1, MarkVotingType
  <1> HIDE DEF w2
  <1>4. w3 \in Kernel
    <2>1. [fresh EXCEPT !.r = 1] \in View
      BY <1>2 DEF View
    <2>2. [w2 EXCEPT !.nextRound = [fresh EXCEPT !.r = 1]] \in Kernel
      BY <1>3, <2>1 DEF Kernel
    <2> QED BY <2>2, MarkNextRoundType
  <1> HIDE DEF w3
  <1>5. w4 \in Kernel
    <2>1. ASSUME NEW v \in View PROVE [v EXCEPT !.prev.proofs = NoProofs] \in View
      BY NoProofsType DEF View
    <2>2. [w3.committing EXCEPT !.prev.proofs = NoProofs] \in View
      BY <1>4, <2>1, KernelViews
    <2>3. ASSUME NEW v \in View PROVE [w3 EXCEPT !.committing = v] \in Kernel
      BY <1>4 DEF Kernel
    <2>4. [w3 EXCEPT !.committing.prev.proofs = NoProofs]
            = [w3 EXCEPT !.committing = [w3.committing EXCEPT !.prev.proofs = NoProofs]]
      BY <1>4 DEF Kernel
    <2> QED BY <1>4, <2>2, <2>3, <2>4
  <1> HIDE DEF w4
  <1>6. close \in BOOLEAN
    OBVIOUS
  <1> HIDE DEF close
  <1>7. [w4 EXCEPT !.committingHeader = hash, !.shared = FALSE,
                   !.sm.closed = @ \/ close] \in Kernel
    BY <1>5, <1>6 DEF Kernel
  <1> QED BY <1>7 DEF ShiftVotingToCommitting, w1, w2, w3, w4, fresh, close
-----------------------------------------------------------------------------
(* The handlers of the kernel. *)

\* checkMissingPHs keeps the types: it requests block hashes only.
LEMMA checkMissingPHsType ==
    ASSUME NEW w \in Kernel, NEW h \in Nat, NEW proofs
    PROVE  checkMissingPHs(w, h, proofs) \in Kernel
  <1> DEFINE have == IF h = w.voting.h THEN {p.hash : p \in w.voting.phs} ELSE {}
             want == {b \in Blocks \ have : /\ proofs[b] # {}
                                            /\ <<h, b>> \notin w.inFlight
                                            /\ BlockPower(proofs, b) >= Minority}
             new  == {<<h, b>> : b \in want \cap w.room}
  <1>0. want \subseteq Blocks
    OBVIOUS
  <1> HIDE DEF want
  <1>1. new \subseteq Nat \X Blocks
    BY <1>0
  <1> HIDE DEF new
  <1>2. [w EXCEPT !.inFlight = @ \cup new] \in Kernel
    BY <1>1 DEF Kernel
  <1> QED BY <1>2 DEF checkMissingPHs, new, want

\* Committing a block hash keeps the types.
LEMMA commitVotedHeaderType ==
    ASSUME NEW w \in Kernel, NEW hash \in Hashes PROVE commitVotedHeader(w, hash) \in Kernel
  <1> DEFINE w1 == ShiftVotingToCommitting(w, hash)
  <1>1. w1 \in Kernel
    BY ShiftVotingToCommittingType
  <1> HIDE DEF w1
  <1>2. w1.voting.prev \in [r : Nat, proofs : Proofs]
    BY <1>1, KernelViews DEF View
  <1> QED BY <1>1, <1>2, SaveCommittedHeaderType, updateObserversType
          DEF commitVotedHeader, w1

\* The hash of a header held in a view is a hash.
LEMMA HeldHashType ==
    ASSUME NEW v \in View, NEW p \in v.phs PROVE p.hash \in Hashes
  BY BlocksAreHashes DEF View, HeldPH

\* checkVotingPrecommitViewShift keeps the types.
LEMMA checkVotingPrecommitViewShiftType ==
    ASSUME NEW w \in Kernel PROVE checkVotingPrecommitViewShift(w) \in Kernel
  <1>1. advanceVotingRound(w) \in Kernel
    BY AdvanceVotingRoundType, updateObserversType DEF advanceVotingRound
  <1>2. ASSUME NEW b, \E p \in w.voting.phs : p.hash = b
        PROVE  commitVotedHeader(w, b) \in Kernel
    BY <1>2, KernelViews, HeldHashType, commitVotedHeaderType
  <1> QED BY <1>1, <1>2 DEF checkVotingPrecommitViewShift

\* Kernel.jumpVotingRound keeps the types.
LEMMA jumpVotingRoundType ==
    ASSUME NEW w \in Kernel
    PROVE  jumpVotingRound(w) \in Kernel /\ jumpVotingRound(w).voting.h \in Nat
  <1>1. jumpVotingRound(w) \in Kernel
    BY JumpVotingRoundType, updateObserversType DEF jumpVotingRound
  <1> QED BY <1>1, KernelViews DEF View

\* checkNextRoundPrecommitViewShift keeps the types.
LEMMA checkNextRoundPrecommitViewShiftType ==
    ASSUME NEW w \in Kernel PROVE checkNextRoundPrecommitViewShift(w) \in Kernel
  BY jumpVotingRoundType, checkMissingPHsType, PanicType
     DEF checkNextRoundPrecommitViewShift

\* checkPrevoteViewShift keeps the types.
LEMMA checkPrevoteViewShiftType ==
    ASSUME NEW w \in Kernel PROVE checkPrevoteViewShift(w) \in Kernel
  BY jumpVotingRoundType, checkMissingPHsType DEF checkPrevoteViewShift

\* Merging an update into a view gives a view.
LEMMA ApplyUpdateType ==
    ASSUME NEW v \in View, NEW kind \in Kinds, NEW u \in Update
    PROVE  /\ ApplyUpdate(v, kind, u) \in View
           /\ ApplyUpdate(v, kind, u).proofs[kind] \in Proofs
  <1> DEFINE now == Current(v, kind, u)
             proofs == [h \in Hashes |-> IF h \in now THEN u.proofs[h]
                                         ELSE v.proofs[kind][h]]
             ver == [h \in Hashes |-> IF h \in now THEN v.ver[kind][h] + 1
                                      ELSE v.ver[kind][h]]
  <1>1. proofs \in Proofs
    BY DEF View, Update, Proofs
  <1>2. ver \in [Hashes -> Nat]
    BY DEF View
  <1> HIDE DEF proofs, ver
  <1>3. [v EXCEPT !.proofs[kind] = proofs, !.sum[kind] = proofs, !.ver[kind] = ver] \in View
    BY <1>1, <1>2 DEF View
  <1>4. [v EXCEPT !.proofs[kind] = proofs, !.sum[kind] = proofs, !.ver[kind] = ver]
          = ApplyUpdate(v, kind, u)
    BY DEF ApplyUpdate, proofs, ver, View
  <1> QED BY <1>3, <1>4 DEF View

\* The shift checks that follow an accepted vote keep the types.
LEMMA ShiftAfterVoteType ==
    ASSUME NEW w \in Kernel, NEW kind, NEW id PROVE ShiftAfterVote(w, kind, id) \in Kernel
  BY checkVotingPrecommitViewShiftType, checkNextRoundPrecommitViewShiftType,
     checkPrevoteViewShiftType DEF ShiftAfterVote

\* addPrevote and addPrecommit keep the types.
LEMMA addVoteType ==
    ASSUME NEW w \in Kernel, NEW kind \in Kinds, NEW h \in Nat, NEW r \in Nat,
           NEW u \in Update
    PROVE  addVote(w, kind, h, r, u) \in Kernel
  <1> DEFINE id == FindView(w, h, r)
             v  == GetView(w, id)
             v1 == ApplyUpdate(v, kind, u)
             w1 == IF Current(v, kind, u) = {} THEN w
                   ELSE OverwriteRoundProofs(
                          MarkViewUpdated(PutView(w, id, v1), id),
                          kind, h, r, v1.proofs[kind])
             w2 == checkMissingPHs(w1, h, v1.proofs[kind])
  <1>1. CASE id \in FoundIDs
    <2>1. v \in View /\ v1 \in View /\ v1.proofs[kind] \in Proofs
      BY <1>1, GetViewType, ApplyUpdateType
    <2>2. MarkViewUpdated(PutView(w, id, v1), id) \in Kernel
      BY <1>1, <2>1, PutViewType, MarkViewUpdatedType
    <2>3. w1 \in Kernel
      BY <2>1, <2>2, OverwriteRoundProofsType
    <2>4. w2 \in Kernel
      BY <2>3, checkMissingPHsType
    <2>5. ShiftAfterVote(w2, kind, id) \in Kernel
      BY <2>4, ShiftAfterVoteType
    <2> HIDE DEF id, v, v1, w1, w2
    <2> QED BY <2>4, <2>5, PanicType DEF addVote, id, v, v1, w1, w2
  <1>2. CASE id \notin FoundIDs
    BY <1>2, PanicType DEF addVote
  <1> QED BY <1>1, <1>2

-----------------------------------------------------------------------------
(* Proposed headers, the state machine and replayed headers. *)

\* Merging signatures of validators into a proof map gives a proof map.
LEMMA UnionOfProofs ==
    ASSUME NEW a \in Proofs, NEW b \in Proofs
    PROVE  [h \in Hashes |-> a[h] \cup b[h]] \in Proofs
  BY DEF Proofs

\* Replacing the precommits of the Committing view keeps the types.
LEMMA CommittingProofsType ==
    ASSUME NEW w \in Kernel, NEW both \in Proofs
    PROVE  [w EXCEPT !.committing.proofs["precommit"] = both] \in Kernel
  <1>1. ASSUME NEW v \in View PROVE [v EXCEPT !.proofs["precommit"] = both] \in View
    BY DEF View, Kinds
  <1>2. ASSUME NEW v \in View PROVE [w EXCEPT !.committing = v] \in Kernel
    BY DEF Kernel
  <1>3. [w EXCEPT !.committing.proofs["precommit"] = both]
          = [w EXCEPT !.committing = [w.committing EXCEPT !.proofs["precommit"] = both]]
    BY DEF Kernel
  <1> QED BY <1>1, <1>2, <1>3, KernelViews

\* The backfill of precommits that a header carries keeps the types.
LEMMA BackfillCommittingType ==
    ASSUME NEW w \in Kernel, NEW p \in Proposal PROVE BackfillCommitting(w, p) \in Kernel
  <1> DEFINE have  == w.committing.proofs["precommit"]
             extra == IF p.prevR = w.committing.r THEN p.prev ELSE NoProofs
             both  == [h \in Hashes |-> have[h] \cup extra[h]]
             w1 == [w EXCEPT !.committing.proofs["precommit"] = both]
             w2 == OverwriteRoundProofs(w1, "precommit", p.h - 1, p.prevR, both)
  <1>1. have \in Proofs
    BY KernelViews DEF View, Kinds
  <1>2. extra \in Proofs
    BY NoProofsType DEF Proposal
  <1> HIDE DEF have, extra
  <1>3. both \in Proofs
    BY <1>1, <1>2, UnionOfProofs
  <1> HIDE DEF both
  <1>4. w1 \in Kernel
    BY <1>3, CommittingProofsType
  <1> HIDE DEF w1
  <1>5. w2 \in Kernel
    BY <1>3, <1>4, OverwriteRoundProofsType DEF Kinds
  <1> HIDE DEF w2
  <1>6. MarkCommittingViewUpdated(w2) \in Kernel
    BY <1>5, MarkCommittingType
  <1> QED BY <1>6, PanicType DEF BackfillCommitting, have, extra, both, w1, w2

\* lagManager.SetState keeps the types.
LEMMA SetLagUpToDateType ==
    ASSUME NEW w \in Kernel PROVE SetLagUpToDate(w) \in Kernel
  <1>1. w.committing.h \in Nat
    BY KernelViews DEF View
  <1> QED BY <1>1 DEF SetLagUpToDate, Kernel

\* addProposedHeader keeps the types.
LEMMA addProposedHeaderType ==
    ASSUME NEW w \in Kernel, NEW p \in Proposal PROVE addProposedHeader(w, p) \in Kernel
  <1> DEFINE w1 == [w EXCEPT !.inFlight = @ \ {<<p.h, p.hash>>}]
             id == FindView(w1, p.h, p.r)
             v  == GetView(w1, id)
             ph == [hash |-> p.hash, by |-> p.by]
             w2 == MarkViewUpdated(
                     SaveRoundProposedHeader(
                       PutView(w1, id, [v EXCEPT !.phs = @ \cup {ph}]),
                       p.h, p.r, ph), id)
             w3 == BackfillCommitting(SetLagUpToDate(w2), p)
  <1>1. w1 \in Kernel
    BY DEF Kernel
  <1>2. ph \in HeldPH
    BY DEF Proposal, HeldPH
  <1> HIDE DEF w1, ph
  <1>3. CASE id \in FoundIDs
    <2>1. v \in View
      BY <1>1, <1>3, GetViewType
    <2>2. [v EXCEPT !.phs = @ \cup {ph}] \in View
      BY <2>1, <1>2 DEF View
    <2> HIDE DEF id, v
    <2>3. PutView(w1, id, [v EXCEPT !.phs = @ \cup {ph}]) \in Kernel
      BY <1>1, <1>3, <2>2, PutViewType
    <2>4. w2 \in Kernel
      BY <1>2, <1>3, <2>3, SaveRoundProposedHeaderType, MarkViewUpdatedType
    <2> HIDE DEF w2
    <2>5. w3 \in Kernel
      BY <2>4, SetLagUpToDateType, BackfillCommittingType
    <2> HIDE DEF w3
    <2>6. checkVotingPrecommitViewShift(w3) \in Kernel
      BY <2>5, checkVotingPrecommitViewShiftType
    <2> QED BY <1>1, <2>4, <2>5, <2>6, PanicType
            DEF addProposedHeader, w1, id, v, ph, w2, w3
  <1>4. CASE id \notin FoundIDs
    BY <1>1, <1>4, PanicType DEF addProposedHeader, w1
  <1> QED BY <1>3, <1>4

\* handleStateMachineRoundEntrance keeps the types.
LEMMA handleStateMachineRoundEntranceType ==
    ASSUME NEW w \in Kernel, NEW h \in Nat, NEW r \in Nat
    PROVE  handleStateMachineRoundEntrance(w, h, r) \in Kernel
  <1> DEFINE w1 == [w EXCEPT !.sm = [@ EXCEPT !.h = h, !.r = r, !.live = TRUE,
                                              !.closed = FALSE, !.sent = 0,
                                              !.jump = ZeroView]]
             id == FindView(w1, h, r)
  <1>1. w1 \in Kernel
    BY ZeroViewType DEF Kernel
  <1> HIDE DEF w1
  <1>2. ASSUME NEW n \in Nat PROVE [w1 EXCEPT !.sm.sent = n] \in Kernel
    BY <1>1 DEF Kernel
  <1>3. ASSUME id \in FoundIDs PROVE GetView(w1, id).version \in Nat
    BY <1>1, <1>3, GetViewType DEF View
  <1> HIDE DEF id
  <1> QED BY <1>1, <1>2, <1>3, PanicType DEF handleStateMachineRoundEntrance, w1, id

\* handleStateMachineAction keeps the types, for a vote of the own key.
LEMMA handleStateMachineVoteType ==
    ASSUME NEW w \in Kernel, NEW kind \in Kinds, NEW hash \in Hashes, NEW own \in Val
    PROVE  handleStateMachineVote(w, kind, hash, own) \in Kernel
  <1> DEFINE id == FindView(w, w.sm.h, w.sm.r)
             v  == GetView(w, id)
             u  == [dom |-> {hash}, ver |-> v.ver[kind],
                    proofs |-> [v.proofs[kind] EXCEPT ![hash] = @ \cup {own}]]
  <1>1. w.sm.h \in Nat /\ w.sm.r \in Nat
    BY DEF Kernel
  <1>2. CASE id \in {"voting", "committing"}
    <2>1. v \in View
      BY <1>2, GetViewType DEF FoundIDs
    <2> HIDE DEF v
    <2>2. u \in Update
      BY <2>1 DEF View, Update, Proofs
    <2> HIDE DEF u
    <2> QED BY <1>1, <1>2, <2>2, addVoteType, PanicType
            DEF handleStateMachineVote, u, v
  <1>3. CASE id \notin {"voting", "committing"}
    BY <1>3, PanicType DEF handleStateMachineVote
  <1> QED BY <1>2, <1>3

\* handleReplayedHeader keeps the types.
LEMMA handleReplayedHeaderType ==
    ASSUME NEW w \in Kernel, NEW c \in ReplayedHeader
    PROVE  handleReplayedHeader(w, c) \in Kernel
  <1> DEFINE w1 == ReachReplayedRound(w, c)
             known == \E p \in w1.voting.phs : p.hash = c.hash
             ph == [hash |-> c.hash, by |-> NoProposer]
             w2 == IF known THEN w1
                   ELSE [SaveRoundReplayedHeader(w1, c.h, c.hash) EXCEPT
                           !.voting.phs = @ \cup {ph}]
             both == [h \in Hashes |-> w2.voting.proofs["precommit"][h] \cup c.proofs[h]]
             w3 == OverwriteRoundProofs(
                     [w2 EXCEPT !.voting = [@ EXCEPT !.proofs["precommit"] = both,
                                                     !.sum["precommit"] = both]],
                     "precommit", c.h, c.r, both)
  <1>1. w1 \in Kernel
    BY jumpVotingRoundType DEF ReachReplayedRound
  <1> HIDE DEF w1
  <1>2. w2 \in Kernel
    <2>1. SaveRoundReplayedHeader(w1, c.h, c.hash) \in Kernel
      BY <1>1, SaveRoundReplayedHeaderType DEF ReplayedHeader
    <2>2. ph \in HeldPH
      BY DEF ReplayedHeader, HeldPH
    <2> HIDE DEF ph
    <2>3. ASSUME NEW k \in Kernel PROVE [k EXCEPT !.voting.phs = @ \cup {ph}] \in Kernel
      <3>1. [k.voting EXCEPT !.phs = @ \cup {ph}] \in View
        BY <2>2, KernelViews DEF View
      <3>2. ASSUME NEW v \in View PROVE [k EXCEPT !.voting = v] \in Kernel
        BY DEF Kernel
      <3>3. [k EXCEPT !.voting.phs = @ \cup {ph}]
              = [k EXCEPT !.voting = [k.voting EXCEPT !.phs = @ \cup {ph}]]
        BY DEF Kernel
      <3> QED BY <3>1, <3>2, <3>3
    <2> QED BY <1>1, <2>1, <2>3
  <1> HIDE DEF w2
  <1>3. both \in Proofs
    <2>1. w2.voting.proofs["precommit"] \in Proofs
      BY <1>2, KernelViews DEF View, Kinds
    <2>2. c.proofs \in Proofs
      BY DEF ReplayedHeader
    <2> QED BY <2>1, <2>2, UnionOfProofs
  <1> HIDE DEF both
  <1>4. w3 \in Kernel
    <2> DEFINE v == [w2.voting EXCEPT !.proofs["precommit"] = both,
                                      !.sum["precommit"] = both]
               w4 == [w2 EXCEPT !.voting = v]
    <2>1. v \in View
      BY <1>2, <1>3, KernelViews DEF View, Kinds
    <2> HIDE DEF v
    <2>3. w4 \in Kernel
      BY <1>2, <2>1 DEF Kernel
    <2> HIDE DEF w4
    <2>4. OverwriteRoundProofs(w4, "precommit", c.h, c.r, both) \in Kernel
      BY <1>3, <2>3, OverwriteRoundProofsType DEF Kinds
    <2> QED BY <2>4 DEF w4, v
  <1> HIDE DEF w3
  <1>5. checkVotingPrecommitViewShift(w3) \in Kernel
    BY <1>4, checkVotingPrecommitViewShiftType
  <1>6. Panic(w) \in Kernel /\ Panic(w1) \in Kernel
    BY <1>1, PanicType
  <1> QED BY <1>1, <1>2, <1>5, <1>6
          DEF handleReplayedHeader, w1, known, ph, w2, both, w3

-----------------------------------------------------------------------------
(* Starting and stopping. *)

\* A round of HR is a pair of natural numbers whose height is a height.
LEMMA HRType ==
    /\ Heights \subseteq Nat /\ Rounds \subseteq Nat
    /\ \A h, r : <<h, r>> \in HR => h \in Heights /\ r \in Rounds
  BY BoundsAssumption DEF Heights, Rounds, HR

\* The stores of a new chain are a disk image.
LEMMA EmptyDiskType == EmptyDisk \in Disk
  <1>1. [vh |-> InitialHeight, vr |-> 0, ch |-> 0, cr |-> 0]
          \in [vh : Nat, vr : Nat, ch : Nat, cr : Nat]
    BY BoundsAssumption
  <1>2. [x \in HR |-> {}] \in [HR -> SUBSET HeldPH]
    OBVIOUS
  <1>3. [h \in Heights |-> {}] \in [Heights -> SUBSET Blocks]
    OBVIOUS
  <1>4. [k \in Kinds |-> [x \in HR |-> NoProofs]] \in [Kinds -> [HR -> Proofs]]
    BY NoProofsType
  <1>5. [h \in Heights |-> [hash |-> Nil, r |-> 0, proofs |-> NoProofs]]
          \in [Heights -> [hash : Hashes, r : Nat, proofs : Proofs]]
    BY NoProofsType, NilIsHash
  <1> QED BY <1>1, <1>2, <1>3, <1>4, <1>5 DEF EmptyDisk, Disk

\* The kernel state before loading is a kernel state.
LEMMA BlankKernelType ==
    ASSUME NEW d \in Disk PROVE BlankKernel(d) \in Kernel
  <1>1. NothingSent \in Outgoing
    BY ZeroViewType DEF NothingSent, Outgoing
  <1>2. NoSM \in [h : Nat, r : Nat, live : BOOLEAN, closed : BOOLEAN, sent : Nat,
                  jump : View, out : View]
    BY ZeroViewType DEF NoSM
  <1> QED BY <1>1, <1>2, ZeroViewType, NilIsHash DEF BlankKernel, Kernel

\* RoundStore.LoadRoundState returns proposed headers.
LEMMA LoadedPHsType ==
    ASSUME NEW d \in Disk, NEW h, NEW r, <<h, r>> \in HR
    PROVE  LoadedPHs(d, h, r) \in SUBSET HeldPH
  <1>1. d.phs[<<h, r>>] \in SUBSET HeldPH
    BY DEF Disk
  <1>2. d.replayed[h] \in SUBSET Blocks
    BY HRType DEF Disk
  <1>3. ASSUME NEW b \in Blocks PROVE [hash |-> b, by |-> NoProposer] \in HeldPH
    BY DEF HeldPH
  <1> QED BY <1>1, <1>2, <1>3 DEF LoadedPHs

\* loadInitialView returns a view.
LEMMA loadInitialViewType ==
    ASSUME NEW d \in Disk, NEW h \in Nat, NEW r \in Nat
    PROVE  loadInitialView(d, h, r) \in View
  <1>1. CASE <<h, r>> \in HR
    <2> DEFINE proofs == [k \in Kinds |-> d.votes[k][<<h, r>>]]
               phs == LoadedPHs(d, h, r)
    <2>1. proofs \in [Kinds -> Proofs]
      BY <1>1 DEF Disk
    <2>2. phs \in SUBSET HeldPH
      BY <1>1, LoadedPHsType
    <2> HIDE DEF proofs, phs
    <2>3. [ZeroView EXCEPT !.h = h, !.r = r, !.phs = phs,
                           !.proofs = proofs, !.sum = proofs] \in View
      BY <2>1, <2>2, ZeroViewType DEF View
    <2> QED BY <1>1, <2>3 DEF loadInitialView, proofs, phs
  <1>2. CASE <<h, r>> \notin HR
    <2>1. [ZeroView EXCEPT !.h = h, !.r = r] \in View
      BY ZeroViewType DEF View
    <2> QED BY <1>2, <2>1 DEF loadInitialView
  <1> QED BY <1>1, <1>2

\* Replacing the previous commit proof of the Committing view keeps the types.
LEMMA SetCommittingPrevType ==
    ASSUME NEW w \in Kernel, NEW prev \in [r : Nat, proofs : Proofs], NEW hash \in Hashes
    PROVE  [w EXCEPT !.committingHeader = hash, !.committing.prev = prev] \in Kernel
  <1> DEFINE v == [w.committing EXCEPT !.prev = prev]
             w1 == [w EXCEPT !.committingHeader = hash]
  <1>1. v \in View
    BY KernelViews DEF View
  <1>2. [w EXCEPT !.committingHeader = hash, !.committing.prev = prev]
          = [w1 EXCEPT !.committing = v]
    BY DEF Kernel
  <1> HIDE DEF v
  <1> QED BY <1>1, <1>2 DEF Kernel, w1

\* A disk image that NewKernel can load names a committing round of HR.
LEMMA LoadableRound ==
    ASSUME NEW d \in Disk, Loadable(d), HasCommitting(d)
    PROVE  <<d.nhr.ch, d.nhr.cr>> \in HR
  <1> SUFFICES ASSUME <<d.nhr.ch, d.nhr.cr>> \notin HR PROVE FALSE
    OBVIOUS
  <1> DEFINE v == loadInitialView(d, d.nhr.ch, d.nhr.cr)
  <1>1. v = [ZeroView EXCEPT !.h = d.nhr.ch, !.r = d.nhr.cr]
    BY DEF loadInitialView
  <1>2. v.proofs = ZeroView.proofs
    BY <1>1 DEF ZeroView
  <1>3. v.proofs["precommit"] = NoProofs
    BY <1>2 DEF ZeroView, Kinds
  <1>4. CommittingHashes(v.proofs["precommit"]) # {}
    BY DEF Loadable
  <1> QED BY <1>3, <1>4 DEF CommittingHashes, NoProofs

\* loadInitialCommittingView keeps the types.
LEMMA loadInitialCommittingViewType ==
    ASSUME NEW w \in Kernel, NEW hash \in Hashes,
           <<w.disk.nhr.ch, w.disk.nhr.cr>> \in HR
    PROVE  loadInitialCommittingView(w, hash) \in Kernel
  <1> DEFINE d  == w.disk
             v  == loadInitialView(d, d.nhr.ch, d.nhr.cr)
             w1 == MarkCommittingViewUpdated([w EXCEPT !.committing = v])
             prev == IF v.h > InitialHeight
                     THEN [r |-> d.headers[v.h - 1].r,
                           proofs |-> d.headers[v.h - 1].proofs]
                     ELSE NoCommit
  <1>1. d \in Disk
    BY KernelDisk
  <1>2. d.nhr.ch \in Heights /\ d.nhr.ch \in Nat /\ d.nhr.cr \in Nat
    BY <1>1, HRType DEF Disk
  <1>3. v \in View
    BY <1>1, <1>2, loadInitialViewType
  <1>4. v.h = d.nhr.ch
    BY DEF loadInitialView, ZeroView
  <1> HIDE DEF v
  <1>5. w1 \in Kernel
    <2>1. [w EXCEPT !.committing = v] \in Kernel
      BY <1>3 DEF Kernel
    <2> QED BY <2>1, MarkCommittingType
  <1> HIDE DEF w1
  <1>6. prev \in [r : Nat, proofs : Proofs]
    <2>1. CASE v.h > InitialHeight
      <3>1. v.h - 1 \in Heights
        BY <1>2, <1>4, <2>1, BoundsAssumption DEF Heights
      <3>2. d.headers[v.h - 1] \in [hash : Hashes, r : Nat, proofs : Proofs]
        BY <1>1, <3>1 DEF Disk
      <3> QED BY <2>1, <3>2
    <2>2. CASE ~(v.h > InitialHeight)
      BY <2>2, NoCommitType
    <2> QED BY <2>1, <2>2
  <1> HIDE DEF prev
  <1>7. [w1 EXCEPT !.committingHeader = hash, !.committing.prev = prev] \in Kernel
    BY <1>5, <1>6, SetCommittingPrevType
  <1> QED BY <1>7 DEF loadInitialCommittingView, d, v, w1, prev

\* loadInitialVotingView keeps the types.
LEMMA loadInitialVotingViewType ==
    ASSUME NEW w \in Kernel PROVE loadInitialVotingView(w) \in Kernel
  <1> DEFINE n == w.disk.nhr
             v == loadInitialView(w.disk, n.vh, n.vr)
             w1 == MarkVotingViewUpdated([w EXCEPT !.voting = v])
             x == loadInitialView(w.disk, n.vh, n.vr + 1)
  <1>1. w.disk \in Disk /\ n.vh \in Nat /\ n.vr \in Nat /\ n.vr + 1 \in Nat
    BY KernelDisk DEF Disk
  <1>2. v \in View /\ x \in View
    BY <1>1, loadInitialViewType
  <1> HIDE DEF v, x
  <1>3. w1 \in Kernel
    <2>1. [w EXCEPT !.voting = v] \in Kernel
      BY <1>2 DEF Kernel
    <2> QED BY <2>1, MarkVotingType
  <1> HIDE DEF w1
  <1>4. [w1 EXCEPT !.nextRound = x] \in Kernel
    BY <1>2, <1>3 DEF Kernel
  <1> QED BY <1>4, MarkNextRoundType DEF loadInitialVotingView, w1, v, x, n

\* Setting the previous commit proof of Voting and NextRound keeps the types.
LEMMA SetPrevCommitProofType ==
    ASSUME NEW w \in Kernel PROVE SetPrevCommitProof(w) \in Kernel
  <1> DEFINE n == w.disk.nhr
             prev == IF n.ch \in Heights
                     THEN [r |-> n.cr,
                           proofs |-> loadInitialView(w.disk, n.ch, n.cr).proofs["precommit"]]
                     ELSE NoCommit
             v == [w.voting EXCEPT !.prev = prev]
             x == [w.nextRound EXCEPT !.prev = prev]
  <1>1. w.disk \in Disk /\ n.ch \in Nat /\ n.cr \in Nat
    BY KernelDisk DEF Disk
  <1>2. loadInitialView(w.disk, n.ch, n.cr).proofs["precommit"] \in Proofs
    <2>1. loadInitialView(w.disk, n.ch, n.cr) \in View
      BY <1>1, loadInitialViewType
    <2> QED BY <2>1 DEF View, Kinds
  <1>3. prev \in [r : Nat, proofs : Proofs]
    BY <1>1, <1>2, NoCommitType
  <1> HIDE DEF prev
  <1>4. v \in View /\ x \in View
    BY <1>3, KernelViews DEF View
  <1>5. [w EXCEPT !.voting.prev = prev, !.nextRound.prev = prev, !.shared = TRUE]
          = [w EXCEPT !.voting = v, !.nextRound = x, !.shared = TRUE]
    BY DEF Kernel
  <1> HIDE DEF v, x
  <1>6. [w EXCEPT !.voting = v, !.nextRound = x, !.shared = TRUE] \in Kernel
    BY <1>4 DEF Kernel
  <1> QED BY <1>5, <1>6 DEF SetPrevCommitProof, prev, n

\* NewKernel turns a disk image into a kernel state.
LEMMA NewKernelType ==
    ASSUME NEW d \in Disk, NEW hash \in Hashes,
           HasCommitting(d) => <<d.nhr.ch, d.nhr.cr>> \in HR
    PROVE  NewKernel(d, hash) \in Kernel
  <1> DEFINE w1 == BlankKernel(d)
             w2 == IF HasCommitting(d) THEN loadInitialCommittingView(w1, hash) ELSE w1
             w3 == updateObservers(SetPrevCommitProof(loadInitialVotingView(w2)))
  <1>1. w1 \in Kernel /\ w1.disk = d
    BY BlankKernelType DEF BlankKernel
  <1> HIDE DEF w1
  <1>2. w2 \in Kernel
    BY <1>1, loadInitialCommittingViewType
  <1> HIDE DEF w2
  <1>3. w3 \in Kernel
    BY <1>2, loadInitialVotingViewType, SetPrevCommitProofType, updateObserversType
  <1> HIDE DEF w3
  <1>4. [w3 EXCEPT !.up = TRUE, !.torn = {}] \in Kernel
    BY <1>3 DEF Kernel
  <1> QED BY <1>4 DEF NewKernel, w1, w2, w3

-----------------------------------------------------------------------------
(* Handler goroutines. *)

\* The initial block versions are versions.
LEMMA HashesVersions == NoVersions \in [Hashes -> Nat]
  BY DEF NoVersions

\* The empty vote update is an update.
LEMMA NoUpdateType == NoUpdate \in Update
  BY NoProofsType, HashesVersions DEF NoUpdate, Update

\* An idle goroutine is a handler state.
LEMMA IdleType == Idle \in Handler
  <1>1. 0 \in Rounds
    BY BoundsAssumption DEF Rounds
  <1> QED BY <1>1, NoProofsType, NoUpdateType DEF Idle, Handler, NoMessage, Kinds

\* A proposal that a handler checks or sends is one of the network's.
LEMMA HeldProposal ==
    ASSUME NEW g \in Handler, g.pc \in {"check", "send"} PROVE g.ph \in Proposal
  BY DEF Handler

\* Returning from a vote handler gives a handler state.
LEMMA ReturnType == ASSUME NEW g \in Handler PROVE Return(g) \in Handler
  BY IdleType DEF Return, Handler, Idle

\* The update that getSignaturesToAdd and the merge build is an update.
LEMMA MergedUpdateType ==
    ASSUME NEW v \in View, NEW g \in Handler PROVE MergedUpdate(v, g.msg) \in Update
  <1> DEFINE m == g.msg
             old == v.proofs[m.kind]
             ver == v.ver[m.kind]
             dom == {x \in Hashes : ~(m.proofs[x] \subseteq old[x])}
  <1>1. m.kind \in Kinds /\ m.proofs \in Proofs
    BY DEF Handler
  <1>2. old \in Proofs /\ ver \in [Hashes -> Nat]
    BY <1>1 DEF View
  <1> HIDE DEF m, old, ver
  <1>3. dom \in SUBSET Hashes
    OBVIOUS
  <1> HIDE DEF dom
  <1>4. [x \in Hashes |-> IF x \in dom THEN ver[x] ELSE 0] \in [Hashes -> Nat]
    BY <1>2
  <1>5. [x \in Hashes |-> IF x \in dom THEN old[x] \cup m.proofs[x] ELSE {}] \in Proofs
    BY <1>1, <1>2 DEF Proofs
  <1> QED BY <1>3, <1>4, <1>5 DEF MergedUpdate, Update, dom, old, ver, m

\* What a handler does after a proposed header check is a handler state.
LEMMA AfterCheckType ==
    ASSUME NEW p \in Proposal, NEW status PROVE AfterCheck(status, p) \in Handler
  <1>1. p # NoProposal
    BY BoundsAssumption DEF Proposal, NoProposal, Heights
  <1>2. [Idle EXCEPT !.pc = "send", !.ph = p] \in Handler
    BY <1>1, IdleType DEF Handler
  <1>3. [Idle EXCEPT !.pc = "check", !.ph = p] \in Handler
    BY <1>1, IdleType DEF Handler
  <1>4. [Idle EXCEPT !.pc = "lookup", !.ph = p,
           !.msg = [kind |-> "precommit", h |-> p.h - 1, r |-> p.prevR,
                    proofs |-> p.prev]] \in Handler
    <2>1. p.h - 1 \in Nat /\ p.prevR \in Rounds /\ p.prev \in Proofs
      BY BoundsAssumption DEF Proposal, Heights, Rounds
    <2> QED BY <1>1, <2>1, IdleType DEF Handler, Kinds
  <1> QED BY <1>2, <1>3, <1>4, IdleType DEF AfterCheck

-----------------------------------------------------------------------------
(* Steps. *)

\* A panicked or killed process leaves a disk image behind and nothing else.
LEMMA DiesType ==
    ASSUME NEW d \in Disk, Dies(d)
    PROVE  /\ kernel' \in Kernel
           /\ hs' \in [Handlers -> Handler]
           /\ phQueue' \in Seq(Proposal)
  BY BlankKernelType, IdleType DEF Dies

\* A step of the kernel keeps the type invariant if its results have their types.
LEMMA KernelStepType ==
    ASSUME TypeOK, NEW w \in Kernel, NEW g \in [Handlers -> Handler],
           NEW q \in Seq(Proposal), KernelStep(w, g, q)
    PROVE  TypeOK'
  <1>1. CASE /\ kernel' = [w EXCEPT !.torn = {}, !.room = {}]
             /\ hs' = g /\ phQueue' = q /\ UNCHANGED crashes
    <2>1. [w EXCEPT !.torn = {}, !.room = {}] \in Kernel
      BY DEF Kernel
    <2> QED BY <1>1, <2>1 DEF TypeOK
  <1>2. CASE Dies(w.disk) /\ UNCHANGED crashes
    BY <1>2, KernelDisk, DiesType DEF TypeOK
  <1>3. CASE /\ crashes < MaxCrashes
             /\ \E d \in w.torn : Dies(d)
             /\ crashes' = crashes + 1
    <2>1. w.torn \subseteq Disk
      BY DEF Kernel
    <2>2. crashes' \in 0..MaxCrashes
      BY <1>3, InputAssumption DEF TypeOK
    <2> QED BY <1>3, <2>1, <2>2, DiesType DEF TypeOK
  <1> QED BY <1>1, <1>2, <1>3 DEF KernelStep

\* Choosing the room of the fetch channel keeps the types.
LEMMA WithRoomType ==
    ASSUME NEW w \in Kernel, NEW room \in FetchRooms PROVE WithRoom(w, room) \in Kernel
  BY InputAssumption DEF WithRoom, Kernel

\* A view lookup keeps the type invariant.
LEMMA LookupType ==
    ASSUME TypeOK, NEW c \in Handlers, NEW g \in Handler, Lookup(c, g)
    PROVE  TypeOK'
  <1> DEFINE id == FindView(kernel, g.msg.h, g.msg.r)
             u  == MergedUpdate(GetView(kernel, id), g.msg)
             next == IF id \in FoundIDs
                     THEN IF u.dom # {} THEN [g EXCEPT !.pc = "add", !.u = u]
                          ELSE Return(g)
                     ELSE Return(g)
             w == IF id = "panic" THEN Panic(kernel) ELSE kernel
  <1>1. kernel \in Kernel /\ hs \in [Handlers -> Handler] /\ phQueue \in Seq(Proposal)
    BY DEF TypeOK
  <1>2. w \in Kernel
    BY <1>1, PanicType
  <1>3. next \in Handler
    <2>1. ASSUME id \in FoundIDs PROVE u \in Update
      BY <1>1, <2>1, GetViewType, MergedUpdateType
    <2> HIDE DEF id, u
    <2>2. ASSUME u \in Update PROVE [g EXCEPT !.pc = "add", !.u = u] \in Handler
      BY <2>2 DEF Handler
    <2> QED BY <2>1, <2>2, ReturnType
  <1>4. KernelStep(w, [hs EXCEPT ![c] = next], phQueue)
    BY DEF Lookup
  <1> HIDE DEF w, next
  <1>5. [hs EXCEPT ![c] = next] \in [Handlers -> Handler]
    BY <1>1, <1>3
  <1> QED BY <1>1, <1>2, <1>4, <1>5, KernelStepType

\* A proposed header check keeps the type invariant.
LEMMA CheckPHType ==
    ASSUME TypeOK, NEW c \in Handlers, NEW p \in Proposal, CheckPH(c, p)
    PROVE  TypeOK'
  <1> DEFINE status == PHCheck(kernel, p)
             next == AfterCheck(status, p)
             w == IF status = "panic" THEN Panic(kernel) ELSE kernel
  <1>1. kernel \in Kernel /\ hs \in [Handlers -> Handler] /\ phQueue \in Seq(Proposal)
    BY DEF TypeOK
  <1>2. w \in Kernel
    BY <1>1, PanicType
  <1>3. next \in Handler
    BY AfterCheckType
  <1>4. KernelStep(w, [hs EXCEPT ![c] = next], phQueue)
    BY DEF CheckPH
  <1> HIDE DEF w, next
  <1>5. [hs EXCEPT ![c] = next] \in [Handlers -> Handler]
    BY <1>1, <1>3
  <1> QED BY <1>1, <1>2, <1>4, <1>5, KernelStepType

\* The version to record after sending to the state machine is a number.
LEMMA StateMachineOutputType ==
    ASSUME NEW w \in Kernel PROVE StateMachineOutput(w.sm).version \in Nat
  <1>1. w.sm.sent \in Nat /\ w.sm.out.version \in Nat
    BY DEF Kernel, View
  <1> QED BY <1>1 DEF StateMachineOutput

\* gossipStrategyOutput.MarkSent keeps the types.
LEMMA GossipMarkSentType ==
    ASSUME NEW w \in Kernel
    PROVE  [w EXCEPT !.gossip = GossipMarkSent(@)] \in Kernel
  <1>1. ASSUME NEW o \in Outgoing PROVE [o EXCEPT !.sent = Stamp(o.view)] \in Outgoing
    BY DEF Outgoing, Stamp, View
  <1>2. /\ w.gossip.committing \in Outgoing /\ w.gossip.voting \in Outgoing
        /\ w.gossip.nextRound \in Outgoing
    BY DEF Kernel
  <1>3. GossipMarkSent(w.gossip)
          \in [committing : Outgoing, voting : Outgoing, nextRound : Outgoing,
               nilVoted : View]
    BY <1>1, <1>2, ZeroViewType DEF GossipMarkSent
  <1> QED BY <1>3 DEF Kernel
-----------------------------------------------------------------------------
(* Each action keeps the types. *)

\* Every step of a handler goroutine keeps the type invariant.
LEMMA HandlerStepType ==
    ASSUME TypeOK, NEW c \in Handlers, HandlerNext(c) PROVE TypeOK'
  <1>1. kernel \in Kernel /\ hs \in [Handlers -> Handler] /\ hs[c] \in Handler
        /\ phQueue \in Seq(Proposal)
    BY DEF TypeOK
  <1>2. ASSUME NEW m \in VoteMessages, HandleVoteProofs(c, m) PROVE TypeOK'
    <2>1. m \in VoteMessage
      BY InputAssumption
    <2>2. m \in [kind : Kinds, h : Nat, r : Rounds, proofs : Proofs]
      BY <2>1, HRType DEF VoteMessage
    <2>3. [Idle EXCEPT !.msg = m] \in Handler
      BY <2>2, IdleType DEF Handler
    <2> QED BY <1>2, <2>3, LookupType DEF HandleVoteProofs
  <1>3. ASSUME RetryLookup(c) PROVE TypeOK'
    BY <1>1, <1>3, LookupType DEF RetryLookup
  <1>4. ASSUME NEW room \in FetchRooms, AddVotes(c, room) PROVE TypeOK'
    <2> DEFINE g == hs[c]
               m == g.msg
               res == AddVoteResult(kernel, m.kind, m.h, m.r, g.u)
               next == IF res = "conflict"
                       THEN [g EXCEPT !.pc = "lookup", !.u = NoUpdate] ELSE Return(g)
               w == addVote(WithRoom(kernel, room), m.kind, m.h, m.r, g.u)
    <2>1. m.kind \in Kinds /\ m.h \in Nat /\ m.r \in Nat /\ g.u \in Update
      BY <1>1, HRType DEF Handler
    <2>2. w \in Kernel
      BY <1>1, <2>1, WithRoomType, addVoteType
    <2>3. next \in Handler
      <3>1. [g EXCEPT !.pc = "lookup", !.u = NoUpdate] \in Handler
        BY <1>1, NoUpdateType DEF Handler
      <3> QED BY <1>1, <3>1, ReturnType
    <2>4. KernelStep(w, [hs EXCEPT ![c] = next], phQueue)
      BY <1>4 DEF AddVotes
    <2> HIDE DEF w, next
    <2>5. [hs EXCEPT ![c] = next] \in [Handlers -> Handler]
      BY <1>1, <2>3
    <2> QED BY <1>1, <2>2, <2>4, <2>5, KernelStepType
  <1>5. ASSUME NEW p \in Proposals, HandleProposedHeader(c, p) PROVE TypeOK'
    <2>1. p \in Proposal
      BY InputAssumption
    <2> QED BY <1>5, <2>1, CheckPHType DEF HandleProposedHeader
  <1>6. ASSUME RestartCheck(c) PROVE TypeOK'
    <2>1. hs[c].ph \in Proposal
      BY <1>1, <1>6, HeldProposal DEF RestartCheck
    <2> QED BY <1>6, <2>1, CheckPHType DEF RestartCheck
  <1>7. ASSUME SendPH(c) PROVE TypeOK'
    <2>1. hs[c].ph \in Proposal
      BY <1>1, <1>7, HeldProposal DEF SendPH
    <2>2. Append(phQueue, hs[c].ph) \in Seq(Proposal)
      BY <1>1, <2>1
    <2>3. [hs EXCEPT ![c] = Idle] \in [Handlers -> Handler]
      BY <1>1, IdleType
    <2> QED BY <1>7, <2>2, <2>3 DEF SendPH, TypeOK
  <1> QED BY <1>2, <1>3, <1>4, <1>5, <1>6, <1>7 DEF HandlerNext

\* Every step of the state machine keeps the type invariant.
LEMMA StateMachineStepType ==
    ASSUME TypeOK, StateMachineNext PROVE TypeOK'
  <1>1. kernel \in Kernel /\ hs \in [Handlers -> Handler] /\ phQueue \in Seq(Proposal)
    BY DEF TypeOK
  <1>2. ASSUME NEW x \in SMRounds, SMRoundEntrance(x[1], x[2]) PROVE TypeOK'
    <2>1. x[1] \in Nat /\ x[2] \in Nat
      BY InputAssumption, HRType DEF HR
    <2>2. handleStateMachineRoundEntrance(kernel, x[1], x[2]) \in Kernel
      BY <1>1, <2>1, handleStateMachineRoundEntranceType
    <2> QED BY <1>1, <1>2, <2>2, KernelStepType DEF SMRoundEntrance
  <1>3. ASSUME NEW v \in SMVotes, NEW room \in FetchRooms, SMVote(v[1], v[2], room)
        PROVE  TypeOK'
    <2>1. v[1] \in Kinds /\ v[2] \in Hashes /\ OwnKey \in Val
      BY InputAssumption
    <2>2. handleStateMachineVote(WithRoom(kernel, room), v[1], v[2], OwnKey) \in Kernel
      BY <1>1, <2>1, WithRoomType, handleStateMachineVoteType
    <2> QED BY <1>1, <1>3, <2>2, KernelStepType DEF SMVote
  <1>4. ASSUME NEW p \in Proposals, SMPropose(p) PROVE TypeOK'
    <2>1. addProposedHeader(kernel, p) \in Kernel
      BY <1>1, InputAssumption, addProposedHeaderType
    <2> QED BY <1>1, <1>4, <2>1, KernelStepType DEF SMPropose
  <1>5. ASSUME SendToStateMachine PROVE TypeOK'
    <2>1. ASSUME NEW n \in Nat
          PROVE  [kernel EXCEPT !.sm.jump = ZeroView, !.sm.sent = n] \in Kernel
      BY <1>1, ZeroViewType DEF Kernel
    <2> QED BY <1>1, <1>5, <2>1, StateMachineOutputType DEF SendToStateMachine, TypeOK
  <1> QED BY <1>2, <1>3, <1>4, <1>5 DEF StateMachineNext

\* Every step of the mirror keeps the type invariant.
LEMMA NextType == ASSUME TypeOK, [Next]_vars PROVE TypeOK'
  <1>1. kernel \in Kernel /\ hs \in [Handlers -> Handler] /\ phQueue \in Seq(Proposal)
    BY DEF TypeOK
  <1>2. CASE \E c \in Handlers : HandlerNext(c)
    BY <1>2, HandlerStepType
  <1>3. CASE AddQueuedPH
    <2>1. Head(phQueue) \in Proposal /\ Tail(phQueue) \in Seq(Proposal)
      BY <1>1, <1>3 DEF AddQueuedPH
    <2>2. addProposedHeader(kernel, Head(phQueue)) \in Kernel
      BY <1>1, <2>1, addProposedHeaderType
    <2> QED BY <1>1, <1>3, <2>1, <2>2, KernelStepType DEF AddQueuedPH
  <1>4. ASSUME NEW p \in Proposals, AddFetchedPH(p) PROVE TypeOK'
    <2>1. addProposedHeader(kernel, p) \in Kernel
      BY <1>1, InputAssumption, addProposedHeaderType
    <2> QED BY <1>1, <1>4, <2>1, KernelStepType DEF AddFetchedPH
  <1>5. CASE StateMachineNext
    BY <1>5, StateMachineStepType
  <1>6. ASSUME NEW c \in ReplayedHeaders, NEW room \in FetchRooms, Replay(c, room)
        PROVE  TypeOK'
    <2>1. handleReplayedHeader(WithRoom(kernel, room), c) \in Kernel
      BY <1>1, InputAssumption, WithRoomType, handleReplayedHeaderType
    <2> QED BY <1>1, <1>6, <2>1, KernelStepType DEF Replay
  <1>7. CASE SendToGossip
    BY <1>1, <1>7, GossipMarkSentType DEF SendToGossip, TypeOK
  <1>8. CASE SendLagState
    <2>1. [kernel EXCEPT !.lag.sent = TRUE] \in Kernel
      BY <1>1 DEF Kernel
    <2> QED BY <1>8, <2>1 DEF SendLagState, TypeOK
  <1>9. CASE Crash
    <2>1. crashes' \in 0..MaxCrashes
      BY <1>9, InputAssumption DEF Crash, TypeOK
    <2> QED BY <1>1, <1>9, <2>1, KernelDisk, DiesType DEF Crash, TypeOK
  <1>10. CASE Restart
    <2>1. kernel.disk \in Disk
      BY <1>1, KernelDisk
    <2>2. StartHashes(kernel.disk) \subseteq Hashes
      BY NilIsHash DEF StartHashes, CommittingHashes
    <2>3. HasCommitting(kernel.disk)
            => <<kernel.disk.nhr.ch, kernel.disk.nhr.cr>> \in HR
      BY <1>10, <2>1, LoadableRound DEF Restart
    <2>4. kernel' \in Kernel
      BY <1>10, <2>1, <2>2, <2>3, NewKernelType DEF Restart
    <2> QED BY <1>10, <2>4 DEF Restart, TypeOK
  <1>11. CASE UNCHANGED vars
    BY <1>11 DEF vars, TypeOK
  <1> QED BY <1>2, <1>3, <1>4, <1>5, <1>6, <1>7, <1>8, <1>9, <1>10, <1>11 DEF Next

\* A running or a dead kernel, the handlers and the queue keep their types in
\* every behaviour of the mirror, for any validators, powers, messages, bounds
\* and crashes: what TLC checks as TypeOK on small instances.
THEOREM TypeCorrect == Spec => []TypeOK
<1>1. Init => TypeOK
  <2> SUFFICES ASSUME Init PROVE TypeOK
    OBVIOUS
  <2>1. NewKernel(EmptyDisk, Nil) \in Kernel
    <3>1. ~HasCommitting(EmptyDisk)
      BY BoundsAssumption DEF HasCommitting, EmptyDisk
    <3> QED BY <3>1, EmptyDiskType, NilIsHash, NewKernelType
  <2>2. hs \in [Handlers -> Handler]
    BY IdleType DEF Init
  <2>3. 0 \in 0..MaxCrashes
    BY InputAssumption
  <2> QED BY <2>1, <2>2, <2>3 DEF Init, TypeOK
<1>2. TypeOK /\ [Next]_vars => TypeOK'
  BY NextType
<1> QED BY <1>1, <1>2, PTL DEF Spec
=============================================================================
