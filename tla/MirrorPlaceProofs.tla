-------------------------- MODULE MirrorPlaceProofs --------------------------
(***************************************************************************)
(* Where the mirror is: the three views are at consecutive places, the     *)
(* mirror store names them, and every committed height has its header, in  *)
(* every disk image that a crash can leave, for all constants.             *)
(*                                                                         *)
(* ViewsAligned and HeadersComplete are not inductive: a restart rebuilds  *)
(* the views from the mirror store, so the store itself has to name        *)
(* consecutive places, in the image a crash leaves between any two store   *)
(* calls.  Sound is the inductive strengthening, a predicate on the        *)
(* kernel's state record.  Most operators change neither the places nor    *)
(* the two stores in question (Keeps); the three that do are               *)
(* incrementVotingRound, ShiftVotingToCommitting and updateObservers.      *)
(***************************************************************************)
EXTENDS MirrorProofs

Consecutive(vh, ch, cr) ==
    \/ ch = vh - 1 /\ ch >= InitialHeight
    \/ ch = 0 /\ cr = 0 /\ vh = InitialHeight

Complete(d) ==
    /\ Consecutive(d.nhr.vh, d.nhr.ch, d.nhr.cr)
    /\ \A h \in Heights : h <= d.nhr.ch => d.headers[h].hash # Nil

Aligned(w) ==
    /\ w.nextRound.h = w.voting.h
    /\ w.nextRound.r = w.voting.r + 1
    /\ Consecutive(w.voting.h, w.committing.h, w.committing.r)

Recorded(w) ==
    w.disk.nhr = [vh |-> w.voting.h, vr |-> w.voting.r,
                  ch |-> w.committing.h, cr |-> w.committing.r]

Durable(w) == Complete(w.disk) /\ \A d \in w.torn : Complete(d)

Sound(w) == Aligned(w) /\ Recorded(w) /\ Durable(w)

SamePlaces(w, x) ==
    /\ x.voting.h = w.voting.h /\ x.voting.r = w.voting.r
    /\ x.nextRound.h = w.nextRound.h /\ x.nextRound.r = w.nextRound.r
    /\ x.committing.h = w.committing.h /\ x.committing.r = w.committing.r

SameRecords(d, e) ==
    /\ e.nhr = d.nhr /\ e.headers = d.headers
    /\ \A x \in HR : d.phs[x] \subseteq e.phs[x]

Keeps(w, x) ==
    /\ SamePlaces(w, x)
    /\ SameRecords(w.disk, x.disk)
    /\ \A d \in x.torn : d \in w.torn \/ SameRecords(w.disk, d)

Placed == Complete(kernel.disk) /\ (kernel.up => Sound(kernel))

-----------------------------------------------------------------------------
(* Keeping the places and the records. *)

\* A kernel state keeps its own places and records.
LEMMA KeepsItself == ASSUME NEW w PROVE Keeps(w, w)
  BY DEF Keeps, SamePlaces, SameRecords

\* Two operations that keep places and records keep them one after the other.
LEMMA KeepsBoth ==
    ASSUME NEW w, NEW x, NEW y, Keeps(w, x), Keeps(x, y) PROVE Keeps(w, y)
  BY DEF Keeps, SamePlaces, SameRecords

\* What keeps places and records keeps a sound kernel sound.
LEMMA KeepsSound ==
    ASSUME NEW w, NEW x, Sound(w), Keeps(w, x) PROVE Sound(x)
  <1>1. Aligned(x)
    BY DEF Sound, Aligned, Keeps, SamePlaces
  <1>2. Recorded(x)
    BY DEF Sound, Recorded, Keeps, SamePlaces, SameRecords
  <1>3. Durable(x)
    <2>1. ASSUME NEW d, NEW e, Complete(d), SameRecords(d, e) PROVE Complete(e)
      BY <2>1 DEF Complete, SameRecords
    <2> QED BY <2>1 DEF Sound, Durable, Keeps
  <1> QED BY <1>1, <1>2, <1>3 DEF Sound

\* A store call that writes neither the network height and round nor a
\* committed header.
LEMMA WriteKeeps ==
    ASSUME NEW w \in Kernel, NEW d, SameRecords(w.disk, d) PROVE Keeps(w, Write(w, d))
  <1>1. /\ Write(w, d).voting = w.voting /\ Write(w, d).nextRound = w.nextRound
        /\ Write(w, d).committing = w.committing
        /\ Write(w, d).disk = d /\ Write(w, d).torn = w.torn \cup {w.disk}
    BY DEF Write, Kernel
  <1> QED BY <1>1 DEF Keeps, SamePlaces, SameRecords

\* Storing a proposed header keeps places and records.
LEMMA SaveRoundProposedHeaderKeeps ==
    ASSUME NEW w \in Kernel, NEW h, NEW r, NEW ph
    PROVE  Keeps(w, SaveRoundProposedHeader(w, h, r, ph))
  <1>1. ASSUME NEW d \in Disk, NEW x PROVE SameRecords(d, [d EXCEPT !.phs[x] = @ \cup {ph}])
    BY DEF Disk, SameRecords
  <1> QED BY <1>1, KernelDisk, WriteKeeps DEF SaveRoundProposedHeader

\* Storing a replayed header keeps places and records.
LEMMA SaveRoundReplayedHeaderKeeps ==
    ASSUME NEW w \in Kernel, NEW h, NEW b
    PROVE  Keeps(w, SaveRoundReplayedHeader(w, h, b))
  <1>1. ASSUME NEW d \in Disk PROVE SameRecords(d, [d EXCEPT !.replayed[h] = @ \cup {b}])
    BY DEF Disk, SameRecords
  <1> QED BY <1>1, KernelDisk, WriteKeeps DEF SaveRoundReplayedHeader

\* Storing votes keeps places and records.
LEMMA OverwriteRoundProofsKeeps ==
    ASSUME NEW w \in Kernel, NEW kind, NEW h, NEW r, NEW proofs
    PROVE  Keeps(w, OverwriteRoundProofs(w, kind, h, r, proofs))
  <1>1. ASSUME NEW d \in Disk, NEW x PROVE SameRecords(d, [d EXCEPT !.votes[kind][x] = proofs])
    BY DEF Disk, SameRecords
  <1> QED BY <1>1, KernelDisk, WriteKeeps DEF OverwriteRoundProofs

\* Replacing a view by one of the same height and round keeps the places.
LEMMA PutViewKeeps ==
    ASSUME NEW w \in Kernel, NEW id \in FoundIDs, NEW v \in View,
           v.h = GetView(w, id).h, v.r = GetView(w, id).r
    PROVE  Keeps(w, PutView(w, id, v))
  BY DEF FoundIDs, GetView, PutView, Kernel, Keeps, SamePlaces, SameRecords

\* What marking the Voting view as updated changes, as far as places go.
LEMMA MarkVotingPlaces ==
    ASSUME NEW w \in Kernel
    PROVE  LET x == MarkVotingViewUpdated(w)
           IN /\ x.voting.h = w.voting.h /\ x.voting.r = w.voting.r
              /\ x.nextRound = w.nextRound /\ x.committing = w.committing
              /\ x.disk = w.disk /\ x.torn = w.torn
  <1> DEFINE v == Bump(w.voting)
  <1>1. v.h = w.voting.h /\ v.r = w.voting.r
    BY KernelViews DEF Bump, View
  <1> HIDE DEF v
  <1> DEFINE sm == IF w.sm.h = v.h /\ w.sm.r = v.r
                   THEN [w.sm EXCEPT !.out = v] ELSE w.sm
  <1> HIDE DEF sm
  <1> DEFINE x == [w EXCEPT !.voting = v, !.gossip.voting.view = v, !.sm = sm]
  <1>2. /\ x.voting = v /\ x.nextRound = w.nextRound /\ x.committing = w.committing
        /\ x.disk = w.disk /\ x.torn = w.torn
    BY DEF Kernel
  <1>3. x = MarkVotingViewUpdated(w)
    BY DEF MarkVotingViewUpdated, v, sm
  <1> QED BY <1>1, <1>2, <1>3

\* What marking the NextRound view as updated changes, as far as places go.
LEMMA MarkNextRoundPlaces ==
    ASSUME NEW w \in Kernel
    PROVE  LET x == MarkNextRoundViewUpdated(w)
           IN /\ x.nextRound.h = w.nextRound.h /\ x.nextRound.r = w.nextRound.r
              /\ x.voting = w.voting /\ x.committing = w.committing
              /\ x.disk = w.disk /\ x.torn = w.torn
  <1> DEFINE v == Bump(w.nextRound)
  <1>1. v.h = w.nextRound.h /\ v.r = w.nextRound.r
    BY KernelViews DEF Bump, View
  <1> HIDE DEF v
  <1> DEFINE x == [w EXCEPT !.nextRound = v, !.gossip.nextRound.view = v]
  <1>2. /\ x.voting = w.voting /\ x.nextRound = v /\ x.committing = w.committing
        /\ x.disk = w.disk /\ x.torn = w.torn
    BY DEF Kernel
  <1>3. x = MarkNextRoundViewUpdated(w)
    BY DEF MarkNextRoundViewUpdated, v
  <1> QED BY <1>1, <1>2, <1>3

\* What marking the Committing view as updated changes, as far as places go.
LEMMA MarkCommittingPlaces ==
    ASSUME NEW w \in Kernel
    PROVE  LET x == MarkCommittingViewUpdated(w)
           IN /\ x.committing.h = w.committing.h /\ x.committing.r = w.committing.r
              /\ x.voting = w.voting /\ x.nextRound = w.nextRound
              /\ x.disk = w.disk /\ x.torn = w.torn
  <1> DEFINE v == Bump(w.committing)
  <1>1. v.h = w.committing.h /\ v.r = w.committing.r
    BY KernelViews DEF Bump, View
  <1> HIDE DEF v
  <1> DEFINE sm == CASE w.sm.h = v.h /\ w.sm.r = v.r -> [w.sm EXCEPT !.out = v]
                     [] w.sm.h < v.h \/ (w.sm.h = v.h /\ w.sm.r < v.r)
                          -> [w.sm EXCEPT !.jump = v]
                     [] OTHER -> w.sm
  <1> HIDE DEF sm
  <1> DEFINE x == [w EXCEPT !.committing = v, !.gossip.committing.view = v, !.sm = sm]
  <1>2. /\ x.committing = v /\ x.nextRound = w.nextRound /\ x.voting = w.voting
        /\ x.disk = w.disk /\ x.torn = w.torn
    BY DEF Kernel
  <1>3. x = MarkCommittingViewUpdated(w)
    BY DEF MarkCommittingViewUpdated, v, sm
  <1> QED BY <1>1, <1>2, <1>3

\* MarkViewUpdated keeps places and records.
LEMMA MarkViewUpdatedKeeps ==
    ASSUME NEW w \in Kernel, NEW id \in FoundIDs PROVE Keeps(w, MarkViewUpdated(w, id))
  BY MarkVotingPlaces, MarkNextRoundPlaces, MarkCommittingPlaces
     DEF MarkViewUpdated, FoundIDs, Keeps, SamePlaces, SameRecords

\* A panic keeps places and records.
LEMMA PanicKeeps == ASSUME NEW w \in Kernel PROVE Keeps(w, Panic(w))
  BY DEF Panic, Kernel, Keeps, SamePlaces, SameRecords

\* Requesting headers keeps places and records.
LEMMA checkMissingPHsKeeps ==
    ASSUME NEW w \in Kernel, NEW h, NEW proofs
    PROVE  Keeps(w, checkMissingPHs(w, h, proofs))
  <1>1. ASSUME NEW s PROVE Keeps(w, [w EXCEPT !.inFlight = s])
    BY DEF Kernel, Keeps, SamePlaces, SameRecords
  <1> QED BY <1>1 DEF checkMissingPHs

\* Setting the lag state keeps places and records.
LEMMA SetLagUpToDateKeeps == ASSUME NEW w \in Kernel PROVE Keeps(w, SetLagUpToDate(w))
  <1>1. ASSUME NEW s PROVE Keeps(w, [w EXCEPT !.lag = s])
    BY DEF Kernel, Keeps, SamePlaces, SameRecords
  <1> QED BY <1>1 DEF SetLagUpToDate

\* Backfilling the precommits of the Committing view keeps places and records.
LEMMA BackfillCommittingKeeps ==
    ASSUME NEW w \in Kernel, NEW p \in Proposal PROVE Keeps(w, BackfillCommitting(w, p))
  <1> DEFINE have  == w.committing.proofs["precommit"]
             extra == IF p.prevR = w.committing.r THEN p.prev ELSE NoProofs
             both  == [h \in Hashes |-> have[h] \cup extra[h]]
             w1 == [w EXCEPT !.committing.proofs["precommit"] = both]
             w2 == OverwriteRoundProofs(w1, "precommit", p.h - 1, p.prevR, both)
  <1>1. both \in Proofs
    <2>1. have \in Proofs
      BY KernelViews DEF View, Kinds
    <2>2. extra \in Proofs
      BY NoProofsType DEF Proposal
    <2> QED BY <2>1, <2>2, UnionOfProofs
  <1> HIDE DEF both
  <1>2. w1 \in Kernel
    BY <1>1, CommittingProofsType
  <1>3. Keeps(w, w1)
    <2>1. ASSUME NEW v \in View
          PROVE  LET y == [v EXCEPT !.proofs["precommit"] = both] IN y.h = v.h /\ y.r = v.r
      BY DEF View
    <2> DEFINE v == [w.committing EXCEPT !.proofs["precommit"] = both]
    <2>2. v.h = w.committing.h /\ v.r = w.committing.r
      BY <2>1, KernelViews
    <2>3. w1 = [w EXCEPT !.committing = v]
      BY DEF Kernel
    <2> HIDE DEF v, w1
    <2>4. /\ w1.committing = v /\ w1.voting = w.voting /\ w1.nextRound = w.nextRound
          /\ w1.disk = w.disk /\ w1.torn = w.torn
      BY <2>3 DEF Kernel
    <2> QED BY <2>2, <2>4 DEF Keeps, SamePlaces, SameRecords
  <1> HIDE DEF w1
  <1>4. w2 \in Kernel /\ Keeps(w1, w2)
    BY <1>1, <1>2, OverwriteRoundProofsType, OverwriteRoundProofsKeeps DEF Kinds
  <1> HIDE DEF w2
  <1>5. Keeps(w2, MarkCommittingViewUpdated(w2))
    BY <1>4, MarkViewUpdatedKeeps DEF MarkViewUpdated, FoundIDs
  <1>6. Keeps(w, MarkCommittingViewUpdated(w2))
    BY <1>3, <1>4, <1>5, KeepsBoth
  <1> QED BY <1>6, PanicKeeps, KeepsItself
          DEF BackfillCommitting, have, extra, both, w1, w2

-----------------------------------------------------------------------------
(* Moving on to another round or height. *)

\* updateObservers makes a kernel whose views are aligned sound, provided that
\* the headers up to the Committing view are stored.
LEMMA updateObserversSound ==
    ASSUME NEW w \in Kernel, Aligned(w), Durable(w),
           \A h \in Heights : h <= w.committing.h => w.disk.headers[h].hash # Nil
    PROVE  Sound(updateObservers(w))
  <1> DEFINE n == [vh |-> w.voting.h, vr |-> w.voting.r,
                   ch |-> w.committing.h, cr |-> w.committing.r]
             d == [w.disk EXCEPT !.nhr = n]
             x == Write(w, d)
  <1>1. d.nhr = n /\ d.headers = w.disk.headers
    BY KernelDisk DEF Disk
  <1>2. Complete(d)
    BY <1>1 DEF Complete, Aligned
  <1> HIDE DEF d
  <1>3. /\ x.voting = w.voting /\ x.nextRound = w.nextRound
        /\ x.committing = w.committing
        /\ x.disk = d /\ x.torn = w.torn \cup {w.disk}
    BY DEF Write, Kernel
  <1> HIDE DEF x
  <1>4. Aligned(x)
    BY <1>3 DEF Aligned
  <1>5. Recorded(x)
    BY <1>1, <1>3 DEF Recorded
  <1>6. Durable(x)
    BY <1>2, <1>3 DEF Durable
  <1> QED BY <1>4, <1>5, <1>6 DEF Sound, updateObservers, x, d

\* The headers up to the Committing view of a sound kernel are stored.
LEMMA SoundHeaders ==
    ASSUME NEW w \in Kernel, Sound(w)
    PROVE  \A h \in Heights : h <= w.committing.h => w.disk.headers[h].hash # Nil
  <1>1. w.disk.nhr.ch = w.committing.h
    BY DEF Sound, Recorded
  <1> QED BY <1>1 DEF Sound, Durable, Complete

\* incrementVotingRound moves Voting and NextRound on by one round.
LEMMA incrementVotingRoundPlaces ==
    ASSUME NEW w \in Kernel, Aligned(w)
    PROVE  LET x == incrementVotingRound(w)
           IN /\ x.voting.h = w.voting.h /\ x.voting.r = w.voting.r + 1
              /\ x.committing = w.committing
              /\ Aligned(x)
              /\ x.disk = w.disk /\ x.torn = w.torn
  <1> DEFINE w0 == [w EXCEPT !.voting = w.nextRound]
             w1 == MarkVotingViewUpdated(w0)
             v  == ResetForSameHeight(w.voting, w.nextRound.r + 1)
             w2 == [w1 EXCEPT !.nextRound = v]
             x  == MarkNextRoundViewUpdated(w2)
  <1>1. /\ w0 \in Kernel /\ w0.voting = w.nextRound /\ w0.committing = w.committing
        /\ w0.disk = w.disk /\ w0.torn = w.torn
    BY DEF Kernel
  <1> HIDE DEF w0
  <1>2. /\ w1 \in Kernel
        /\ w1.voting.h = w.nextRound.h /\ w1.voting.r = w.nextRound.r
        /\ w1.committing = w.committing /\ w1.disk = w.disk /\ w1.torn = w.torn
    BY <1>1, MarkVotingType, MarkVotingPlaces
  <1> HIDE DEF w1
  <1>3. v \in View /\ v.h = w.voting.h /\ v.r = w.nextRound.r + 1
    <2>1. w.voting \in View /\ w.nextRound.r + 1 \in Nat
      BY KernelViews DEF View
    <2>2. v \in View
      BY <2>1, ResetForSameHeightType
    <2> QED BY <2>2 DEF ResetForSameHeight, ZeroView
  <1> HIDE DEF v
  <1>4. /\ w2 \in Kernel /\ w2.voting = w1.voting /\ w2.nextRound = v
        /\ w2.committing = w.committing /\ w2.disk = w.disk /\ w2.torn = w.torn
    BY <1>2, <1>3 DEF Kernel
  <1> HIDE DEF w2
  <1>5. /\ x.voting = w1.voting /\ x.nextRound.h = v.h /\ x.nextRound.r = v.r
        /\ x.committing = w.committing /\ x.disk = w.disk /\ x.torn = w.torn
    BY <1>4, MarkNextRoundPlaces
  <1>6. x = incrementVotingRound(w)
    BY DEF incrementVotingRound, w0, w1, v, w2
  <1> HIDE DEF x
  <1>7. w.nextRound.h = w.voting.h /\ w.nextRound.r = w.voting.r + 1
        /\ Consecutive(w.voting.h, w.committing.h, w.committing.r)
    BY DEF Aligned
  <1>8. Aligned(x)
    BY <1>2, <1>3, <1>5, <1>7 DEF Aligned
  <1> QED BY <1>2, <1>5, <1>6, <1>7, <1>8

\* Giving a round up keeps a sound kernel sound.
LEMMA advanceVotingRoundSound ==
    ASSUME NEW w \in Kernel, Sound(w) PROVE Sound(advanceVotingRound(w))
  <1> DEFINE w0 == [w EXCEPT !.gossip.nilVoted = w.voting]
             x  == incrementVotingRound(w0)
  <1>1. /\ w0 \in Kernel /\ w0.voting = w.voting /\ w0.nextRound = w.nextRound
        /\ w0.committing = w.committing /\ w0.disk = w.disk /\ w0.torn = w.torn
    BY DEF Kernel
  <1> HIDE DEF w0
  <1>2. Keeps(w, w0)
    BY <1>1 DEF Keeps, SamePlaces, SameRecords
  <1>3. Sound(w0)
    BY <1>2, KeepsSound
  <1>4. /\ x \in Kernel /\ Aligned(x) /\ x.disk = w0.disk /\ x.torn = w0.torn
        /\ x.committing = w0.committing
    BY <1>1, <1>3, incrementVotingRoundType, incrementVotingRoundPlaces DEF Sound
  <1> HIDE DEF x
  <1>5. Durable(x)
    BY <1>3, <1>4 DEF Sound, Durable
  <1>6. Sound(updateObservers(x))
    BY <1>1, <1>3, <1>4, <1>5, SoundHeaders, updateObserversSound
  <1> QED BY <1>6 DEF advanceVotingRound, AdvanceVotingRound, x, w0

\* Jumping to the next round keeps a sound kernel sound.
LEMMA jumpVotingRoundSound ==
    ASSUME NEW w \in Kernel, Sound(w) PROVE Sound(jumpVotingRound(w))
  <1> DEFINE x == incrementVotingRound(w)
             y == IF x.sm.h = x.voting.h /\ x.sm.r = x.voting.r - 1
                  THEN [x EXCEPT !.sm.jump = x.voting] ELSE x
  <1>1. /\ x \in Kernel /\ Aligned(x) /\ x.disk = w.disk /\ x.torn = w.torn
        /\ x.committing = w.committing
    BY incrementVotingRoundType, incrementVotingRoundPlaces DEF Sound
  <1>2. y = JumpVotingRound(w)
    BY DEF JumpVotingRound
  <1>3. y \in Kernel
    BY <1>2, JumpVotingRoundType
  <1> HIDE DEF x
  <1>4. /\ y.voting = x.voting /\ y.nextRound = x.nextRound
        /\ y.committing = w.committing /\ y.disk = w.disk /\ y.torn = w.torn
    BY <1>1 DEF Kernel
  <1> HIDE DEF y
  <1>5. Aligned(y) /\ Durable(y)
    BY <1>1, <1>4 DEF Aligned, Durable, Sound
  <1>6. Sound(updateObservers(y))
    BY <1>3, <1>4, <1>5, SoundHeaders, updateObserversSound
  <1> QED BY <1>2, <1>6 DEF jumpVotingRound

\* ShiftVotingToCommitting makes the Voting view the Committing one and starts
\* the next height at its first round.
LEMMA ShiftVotingToCommittingPlaces ==
    ASSUME NEW w \in Kernel, NEW hash \in Hashes, Aligned(w)
    PROVE  LET x == ShiftVotingToCommitting(w, hash)
           IN /\ Aligned(x) /\ x.committing.h = w.voting.h
              /\ x.disk = w.disk /\ x.torn = w.torn
  <1> DEFINE close == w.sm.live /\ w.sm.h = w.committing.h
             w0 == [w EXCEPT !.committing = w.voting]
             w1 == MarkCommittingViewUpdated(w0)
             fresh == [ZeroView EXCEPT
                         !.h = w.voting.h + 1,
                         !.prev = [r |-> w.voting.r,
                                   proofs |-> w.voting.proofs["precommit"]]]
             w2 == MarkVotingViewUpdated([w1 EXCEPT !.voting = fresh])
             w3 == MarkNextRoundViewUpdated(
                     [w2 EXCEPT !.nextRound = [fresh EXCEPT !.r = 1]])
             w4 == IF w.shared
                   THEN [w3 EXCEPT !.committing.prev.proofs = NoProofs] ELSE w3
             w5 == [w4 EXCEPT !.committingHeader = hash, !.shared = FALSE,
                              !.sm.closed = @ \/ close]
  <1>0. w.voting.h \in Nat /\ w.voting.r \in Nat
    BY KernelViews DEF View
  <1>1. /\ w1 \in Kernel /\ w1.committing.h = w.voting.h /\ w1.disk = w.disk
        /\ w1.torn = w.torn
    <2>1. /\ w0 \in Kernel /\ w0.committing = w.voting /\ w0.disk = w.disk
          /\ w0.torn = w.torn
      BY DEF Kernel
    <2> HIDE DEF w0
    <2> QED BY <2>1, MarkCommittingType, MarkCommittingPlaces
  <1>2. fresh \in View /\ fresh.h = w.voting.h + 1 /\ fresh.r = 0
    <2>1. /\ w.voting.h + 1 \in Nat /\ w.voting.r \in Nat
          /\ w.voting.proofs["precommit"] \in Proofs
      BY <1>0, KernelViews DEF View, Kinds
    <2>2. fresh \in View
      BY <2>1, ZeroViewType DEF View
    <2> QED BY <2>2 DEF ZeroView
  <1> HIDE DEF w1, fresh
  <1>3. /\ w2 \in Kernel /\ w2.voting.h = w.voting.h + 1 /\ w2.voting.r = 0
        /\ w2.committing = w1.committing /\ w2.disk = w.disk /\ w2.torn = w.torn
    <2> DEFINE y == [w1 EXCEPT !.voting = fresh]
    <2>1. /\ y \in Kernel /\ y.voting = fresh /\ y.committing = w1.committing
          /\ y.disk = w.disk /\ y.torn = w.torn
      BY <1>1, <1>2 DEF Kernel
    <2> HIDE DEF y
    <2>2. /\ MarkVotingViewUpdated(y) \in Kernel
          /\ MarkVotingViewUpdated(y).voting.h = w.voting.h + 1
          /\ MarkVotingViewUpdated(y).voting.r = 0
          /\ MarkVotingViewUpdated(y).committing = w1.committing
          /\ MarkVotingViewUpdated(y).disk = w.disk
          /\ MarkVotingViewUpdated(y).torn = w.torn
      BY <1>2, <2>1, MarkVotingType, MarkVotingPlaces
    <2> QED BY <2>2 DEF y
  <1> HIDE DEF w2
  <1>4. /\ w3 \in Kernel /\ w3.voting = w2.voting
        /\ w3.nextRound.h = w.voting.h + 1 /\ w3.nextRound.r = 1
        /\ w3.committing = w1.committing /\ w3.disk = w.disk /\ w3.torn = w.torn
    <2> DEFINE v == [fresh EXCEPT !.r = 1]
               y == [w2 EXCEPT !.nextRound = v]
    <2>1. v \in View /\ v.h = w.voting.h + 1 /\ v.r = 1
      BY <1>2 DEF View
    <2> HIDE DEF v
    <2>2. /\ y \in Kernel /\ y.nextRound = v /\ y.voting = w2.voting
          /\ y.committing = w1.committing /\ y.disk = w.disk /\ y.torn = w.torn
      BY <1>3, <2>1 DEF Kernel
    <2> HIDE DEF y
    <2>3. /\ MarkNextRoundViewUpdated(y) \in Kernel
          /\ MarkNextRoundViewUpdated(y).voting = w2.voting
          /\ MarkNextRoundViewUpdated(y).nextRound.h = w.voting.h + 1
          /\ MarkNextRoundViewUpdated(y).nextRound.r = 1
          /\ MarkNextRoundViewUpdated(y).committing = w1.committing
          /\ MarkNextRoundViewUpdated(y).disk = w.disk
          /\ MarkNextRoundViewUpdated(y).torn = w.torn
      BY <2>1, <2>2, MarkNextRoundType, MarkNextRoundPlaces
    <2> QED BY <2>3 DEF y, v
  <1> HIDE DEF w3
  <1>5. /\ w4.voting = w2.voting /\ w4.nextRound = w3.nextRound
        /\ w4.committing.h = w.voting.h /\ w4.disk = w.disk /\ w4.torn = w.torn
    <2> DEFINE v == [w3.committing EXCEPT !.prev.proofs = NoProofs]
               y == [w3 EXCEPT !.committing = v]
    <2>1. v.h = w3.committing.h
      BY <1>4, KernelViews DEF View
    <2>2. [w3 EXCEPT !.committing.prev.proofs = NoProofs] = y
      BY <1>4 DEF Kernel
    <2> HIDE DEF v
    <2>3. /\ y.voting = w2.voting /\ y.nextRound = w3.nextRound
          /\ y.committing = v /\ y.disk = w.disk /\ y.torn = w.torn
      BY <1>4 DEF Kernel
    <2> HIDE DEF y
    <2> QED BY <1>1, <1>4, <2>1, <2>2, <2>3
  <1>6. w4 \in Kernel
    <2>1. ASSUME NEW v \in View PROVE [v EXCEPT !.prev.proofs = NoProofs] \in View
      BY NoProofsType DEF View
    <2>2. [w3.committing EXCEPT !.prev.proofs = NoProofs] \in View
      BY <1>4, <2>1, KernelViews
    <2>3. ASSUME NEW v \in View PROVE [w3 EXCEPT !.committing = v] \in Kernel
      BY <1>4 DEF Kernel
    <2>4. [w3 EXCEPT !.committing.prev.proofs = NoProofs]
            = [w3 EXCEPT !.committing = [w3.committing EXCEPT !.prev.proofs = NoProofs]]
      BY <1>4 DEF Kernel
    <2> QED BY <1>4, <2>2, <2>3, <2>4
  <1> HIDE DEF w4, close
  <1>7. /\ w5.voting = w4.voting /\ w5.nextRound = w4.nextRound
        /\ w5.committing = w4.committing /\ w5.disk = w4.disk /\ w5.torn = w4.torn
    BY <1>6 DEF Kernel
  <1>8. w5 = ShiftVotingToCommitting(w, hash)
    BY DEF ShiftVotingToCommitting, w0, w1, w2, w3, w4, fresh, close
  <1> HIDE DEF w5
  <1>9. w.voting.h >= InitialHeight
    BY <1>0, BoundsAssumption, KernelViews DEF Aligned, Consecutive, View
  <1>10. Aligned(w5)
    BY <1>0, <1>3, <1>4, <1>5, <1>7, <1>9 DEF Aligned, Consecutive
  <1> QED BY <1>5, <1>7, <1>8, <1>10

\* Committing a header keeps a sound kernel sound: the header is stored before
\* the mirror store names its height.
LEMMA commitVotedHeaderSound ==
    ASSUME NEW w \in Kernel, Sound(w), NEW hash \in Hashes, hash # Nil
    PROVE  Sound(commitVotedHeader(w, hash))
  <1> DEFINE x == ShiftVotingToCommitting(w, hash)
             c == x.voting.prev
             e == [hash |-> hash, r |-> c.r, proofs |-> c.proofs]
             hh == x.committing.h
             d == [x.disk EXCEPT !.headers[hh] = e]
             y == Write(x, d)
  <1>1. /\ x \in Kernel /\ Aligned(x) /\ x.committing.h = w.voting.h
        /\ x.disk = w.disk /\ x.torn = w.torn
    BY ShiftVotingToCommittingType, ShiftVotingToCommittingPlaces DEF Sound
  <1>2. y = SaveCommittedHeader(x, x.committing.h, hash, x.voting.prev)
    BY DEF SaveCommittedHeader
  <1>3. y \in Kernel
    <2>1. c \in [r : Nat, proofs : Proofs]
      BY <1>1, KernelViews DEF View
    <2> QED BY <1>1, <1>2, <2>1, SaveCommittedHeaderType
  <1> HIDE DEF x
  <1>4. e.hash # Nil
    OBVIOUS
  <1> HIDE DEF e, hh, c
  <1>5. /\ d.nhr = w.disk.nhr
        /\ \A h \in Heights : d.headers[h] = IF h = hh THEN e ELSE w.disk.headers[h]
    BY <1>1, KernelDisk DEF Disk
  <1> HIDE DEF d
  <1>6. /\ y.voting = x.voting /\ y.nextRound = x.nextRound
        /\ y.committing = x.committing
        /\ y.disk = d /\ y.torn = w.torn \cup {w.disk}
    BY <1>1 DEF Write, Kernel
  <1> HIDE DEF y
  <1>7. Aligned(y)
    BY <1>1, <1>6 DEF Aligned
  <1>8. Complete(d)
    BY <1>4, <1>5 DEF Complete, Sound, Durable
  <1>9. Durable(y)
    BY <1>6, <1>8 DEF Durable, Sound
  <1>10. \A h \in Heights : h <= y.committing.h => y.disk.headers[h].hash # Nil
    <2> SUFFICES ASSUME NEW h \in Heights, h <= y.committing.h
                 PROVE  y.disk.headers[h].hash # Nil
      OBVIOUS
    <2>1. CASE h = hh
      BY <1>4, <1>5, <1>6, <2>1
    <2>2. CASE h # hh
      <3>1. /\ w.voting.h \in Nat /\ w.committing.h \in Nat
            /\ h \in Nat /\ h >= InitialHeight /\ InitialHeight \in Nat
        BY KernelViews, BoundsAssumption DEF View, Heights
      <3>2. h < w.voting.h
        BY <1>1, <1>6, <2>2, <3>1 DEF hh
      <3>3. h <= w.committing.h
        BY <3>1, <3>2 DEF Sound, Aligned, Consecutive
      <3>4. w.disk.headers[h].hash # Nil
        BY <3>3, SoundHeaders
      <3> QED BY <1>5, <1>6, <2>2, <3>4
    <2> QED BY <2>1, <2>2
  <1>11. Sound(updateObservers(y))
    BY <1>3, <1>7, <1>9, <1>10, updateObserversSound
  <1> QED BY <1>2, <1>11 DEF commitVotedHeader, x

-----------------------------------------------------------------------------
(* The handlers of the kernel. *)

\* The shift check on the precommits of the Voting view keeps a kernel sound.
LEMMA checkVotingPrecommitViewShiftSound ==
    ASSUME NEW w \in Kernel, Sound(w) PROVE Sound(checkVotingPrecommitViewShift(w))
  <1>1. ASSUME NEW b, \E p \in w.voting.phs : p.hash = b PROVE b \in Hashes
    BY <1>1, KernelViews, HeldHashType
  <1>2. Sound(advanceVotingRound(w))
    BY advanceVotingRoundSound
  <1>3. ASSUME NEW b, b # Nil, \E p \in w.voting.phs : p.hash = b
        PROVE  Sound(commitVotedHeader(w, b))
    BY <1>1, <1>3, commitVotedHeaderSound
  <1> QED BY <1>2, <1>3 DEF checkVotingPrecommitViewShift

\* The shift checks on the NextRound view keep a kernel sound.
LEMMA checkNextRoundSound ==
    ASSUME NEW w \in Kernel, Sound(w)
    PROVE  /\ Sound(checkNextRoundPrecommitViewShift(w))
           /\ Sound(checkPrevoteViewShift(w))
  <1> DEFINE x == jumpVotingRound(w)
  <1>1. x \in Kernel /\ Sound(x)
    BY jumpVotingRoundType, jumpVotingRoundSound
  <1> HIDE DEF x
  <1>2. ASSUME NEW h, NEW proofs PROVE Sound(checkMissingPHs(x, h, proofs))
    BY <1>1, checkMissingPHsKeeps, KeepsSound
  <1>3. Sound(Panic(x))
    BY <1>1, PanicKeeps, KeepsSound
  <1> QED BY <1>1, <1>2, <1>3
          DEF checkNextRoundPrecommitViewShift, checkPrevoteViewShift, x

\* The shift checks that follow an accepted vote keep a kernel sound.
LEMMA ShiftAfterVoteSound ==
    ASSUME NEW w \in Kernel, Sound(w), NEW kind, NEW id
    PROVE  Sound(ShiftAfterVote(w, kind, id))
  BY checkVotingPrecommitViewShiftSound, checkNextRoundSound DEF ShiftAfterVote

\* addPrevote and addPrecommit keep a kernel sound.
LEMMA addVoteSound ==
    ASSUME NEW w \in Kernel, Sound(w), NEW kind \in Kinds, NEW h \in Nat, NEW r \in Nat,
           NEW u \in Update
    PROVE  Sound(addVote(w, kind, h, r, u))
  <1> DEFINE id == FindView(w, h, r)
             v  == GetView(w, id)
             v1 == ApplyUpdate(v, kind, u)
             x  == MarkViewUpdated(PutView(w, id, v1), id)
             y  == OverwriteRoundProofs(x, kind, h, r, v1.proofs[kind])
             w1 == IF Current(v, kind, u) = {} THEN w ELSE y
             w2 == checkMissingPHs(w1, h, v1.proofs[kind])
  <1>1. CASE id \in FoundIDs
    <2>1. v \in View /\ v1 \in View /\ v1.proofs[kind] \in Proofs
      BY <1>1, GetViewType, ApplyUpdateType
    <2>2. v1.h = v.h /\ v1.r = v.r
      BY <2>1 DEF ApplyUpdate, View
    <2> HIDE DEF id, v1
    <2>3. PutView(w, id, v1) \in Kernel /\ Keeps(w, PutView(w, id, v1))
      BY <1>1, <2>1, <2>2, PutViewType, PutViewKeeps
    <2>4. x \in Kernel /\ Keeps(w, x)
      BY <1>1, <2>3, MarkViewUpdatedType, MarkViewUpdatedKeeps, KeepsBoth
    <2> HIDE DEF x
    <2>5. y \in Kernel /\ Keeps(w, y)
      BY <2>1, <2>4, OverwriteRoundProofsType, OverwriteRoundProofsKeeps, KeepsBoth
    <2> HIDE DEF y
    <2>6. w1 \in Kernel /\ Keeps(w, w1)
      BY <2>5, KeepsItself
    <2> HIDE DEF w1
    <2>7. w2 \in Kernel /\ Keeps(w, w2)
      BY <2>6, checkMissingPHsType, checkMissingPHsKeeps, KeepsBoth
    <2> HIDE DEF w2
    <2>8. Sound(w2)
      BY <2>7, KeepsSound
    <2>9. Sound(ShiftAfterVote(w2, kind, id))
      BY <2>7, <2>8, ShiftAfterVoteSound
    <2>10. Sound(Panic(w))
      BY PanicKeeps, KeepsSound
    <2> HIDE DEF v
    <2> QED BY <2>8, <2>9, <2>10 DEF addVote, id, v, v1, x, y, w1, w2
  <1>2. CASE id \notin FoundIDs
    BY <1>2, PanicKeeps, KeepsSound DEF addVote
  <1> QED BY <1>1, <1>2

\* addProposedHeader keeps a kernel sound.
LEMMA addProposedHeaderSound ==
    ASSUME NEW w \in Kernel, Sound(w), NEW p \in Proposal
    PROVE  Sound(addProposedHeader(w, p))
  <1> DEFINE w1 == [w EXCEPT !.inFlight = @ \ {<<p.h, p.hash>>}]
             id == FindView(w1, p.h, p.r)
             v  == GetView(w1, id)
             ph == [hash |-> p.hash, by |-> p.by]
             v1 == [v EXCEPT !.phs = @ \cup {ph}]
             x  == SaveRoundProposedHeader(PutView(w1, id, v1), p.h, p.r, ph)
             w2 == MarkViewUpdated(x, id)
             w3 == BackfillCommitting(SetLagUpToDate(w2), p)
  <1>1. w1 \in Kernel /\ Keeps(w, w1)
    BY DEF Kernel, Keeps, SamePlaces, SameRecords
  <1>2. ph \in HeldPH
    BY DEF Proposal, HeldPH
  <1> HIDE DEF w1, ph
  <1>3. Sound(w1) /\ Sound(Panic(w1))
    BY <1>1, PanicKeeps, KeepsSound
  <1>4. CASE id \in FoundIDs
    <2>1. v \in View
      BY <1>1, <1>4, GetViewType
    <2>2. v1 \in View /\ v1.h = v.h /\ v1.r = v.r
      BY <2>1, <1>2 DEF View
    <2> HIDE DEF id, v1
    <2>3. PutView(w1, id, v1) \in Kernel /\ Keeps(w1, PutView(w1, id, v1))
      BY <1>1, <1>4, <2>2, PutViewType, PutViewKeeps
    <2>4. x \in Kernel /\ Keeps(w1, x)
      BY <1>2, <2>3, SaveRoundProposedHeaderType, SaveRoundProposedHeaderKeeps, KeepsBoth
    <2> HIDE DEF x
    <2>5. w2 \in Kernel /\ Keeps(w1, w2)
      BY <1>4, <2>4, MarkViewUpdatedType, MarkViewUpdatedKeeps, KeepsBoth
    <2> HIDE DEF w2
    <2>6. SetLagUpToDate(w2) \in Kernel /\ Keeps(w1, SetLagUpToDate(w2))
      BY <2>5, SetLagUpToDateType, SetLagUpToDateKeeps, KeepsBoth
    <2>7. w3 \in Kernel /\ Keeps(w1, w3)
      BY <2>6, BackfillCommittingType, BackfillCommittingKeeps, KeepsBoth
    <2> HIDE DEF w3
    <2>8. Sound(w2) /\ Sound(w3)
      BY <1>3, <2>5, <2>7, KeepsSound
    <2>9. Sound(checkVotingPrecommitViewShift(w3))
      BY <2>7, <2>8, checkVotingPrecommitViewShiftSound
    <2> HIDE DEF v
    <2> QED BY <1>3, <2>8, <2>9 DEF addProposedHeader, w1, id, v, ph, v1, x, w2, w3
  <1>5. CASE id \notin FoundIDs
    BY <1>3, <1>5 DEF addProposedHeader, w1
  <1> QED BY <1>4, <1>5

\* A round entrance of the state machine keeps a kernel sound.
LEMMA handleStateMachineRoundEntranceSound ==
    ASSUME NEW w \in Kernel, Sound(w), NEW h \in Nat, NEW r \in Nat
    PROVE  Sound(handleStateMachineRoundEntrance(w, h, r))
  <1> DEFINE s == [w.sm EXCEPT !.h = h, !.r = r, !.live = TRUE, !.closed = FALSE,
                               !.sent = 0, !.jump = ZeroView]
             w1 == [w EXCEPT !.sm = s]
  <1>1. w1 \in Kernel
    BY ZeroViewType DEF Kernel
  <1> HIDE DEF s
  <1>2. Keeps(w, w1)
    BY DEF Kernel, Keeps, SamePlaces, SameRecords
  <1>3. w1 = [w EXCEPT !.sm = [@ EXCEPT !.h = h, !.r = r, !.live = TRUE,
                                        !.closed = FALSE, !.sent = 0,
                                        !.jump = ZeroView]]
    BY DEF s, Kernel
  <1> HIDE DEF w1
  <1>4. ASSUME NEW n PROVE Keeps(w1, [w1 EXCEPT !.sm.sent = n])
    BY <1>1 DEF Kernel, Keeps, SamePlaces, SameRecords
  <1>5. Sound(w1) /\ Sound(Panic(w1))
    BY <1>1, <1>2, PanicKeeps, KeepsSound
  <1>6. ASSUME NEW n PROVE Sound([w1 EXCEPT !.sm.sent = n])
    BY <1>4, <1>5, KeepsSound
  <1> QED BY <1>3, <1>5, <1>6 DEF handleStateMachineRoundEntrance

\* A vote of the state machine keeps a kernel sound.
LEMMA handleStateMachineVoteSound ==
    ASSUME NEW w \in Kernel, Sound(w), NEW kind \in Kinds, NEW hash \in Hashes, NEW own \in Val
    PROVE  Sound(handleStateMachineVote(w, kind, hash, own))
  <1> DEFINE id == FindView(w, w.sm.h, w.sm.r)
             v  == GetView(w, id)
             u  == [dom |-> {hash}, ver |-> v.ver[kind],
                    proofs |-> [v.proofs[kind] EXCEPT ![hash] = @ \cup {own}]]
  <1>1. w.sm.h \in Nat /\ w.sm.r \in Nat
    BY DEF Kernel
  <1>2. Sound(Panic(w))
    BY PanicKeeps, KeepsSound
  <1>3. CASE id \in {"voting", "committing"}
    <2>1. v \in View
      BY <1>3, GetViewType DEF FoundIDs
    <2> HIDE DEF v
    <2>2. u \in Update
      BY <2>1 DEF View, Update, Proofs
    <2> HIDE DEF u
    <2> QED BY <1>1, <1>2, <1>3, <2>2, addVoteSound DEF handleStateMachineVote, u, v
  <1>4. CASE id \notin {"voting", "committing"}
    BY <1>2, <1>4 DEF handleStateMachineVote
  <1> QED BY <1>3, <1>4

\* Replacing the Voting view by one at the same place keeps places and records.
LEMMA SetVotingKeeps ==
    ASSUME NEW w \in Kernel, NEW v, v.h = w.voting.h, v.r = w.voting.r
    PROVE  Keeps(w, [w EXCEPT !.voting = v])
  <1> DEFINE x == [w EXCEPT !.voting = v]
  <1>1. /\ x.voting = v /\ x.nextRound = w.nextRound /\ x.committing = w.committing
        /\ x.disk = w.disk /\ x.torn = w.torn
    BY DEF Kernel
  <1> HIDE DEF x
  <1>2. Keeps(w, x)
    BY <1>1 DEF Keeps, SamePlaces, SameRecords
  <1> QED BY <1>2 DEF x

\* Holding one more header in the Voting view keeps places, records and types.
LEMMA HoldHeaderKeeps ==
    ASSUME NEW w \in Kernel, NEW ph \in HeldPH
    PROVE  LET x == [w EXCEPT !.voting.phs = @ \cup {ph}]
           IN x \in Kernel /\ Keeps(w, x)
  <1> DEFINE v == [w.voting EXCEPT !.phs = @ \cup {ph}]
  <1>1. v \in View /\ v.h = w.voting.h /\ v.r = w.voting.r
    BY KernelViews DEF View
  <1>2. [w EXCEPT !.voting.phs = @ \cup {ph}] = [w EXCEPT !.voting = v]
    BY DEF Kernel
  <1> HIDE DEF v
  <1>3. [w EXCEPT !.voting = v] \in Kernel
    BY <1>1 DEF Kernel
  <1> QED BY <1>1, <1>2, <1>3, SetVotingKeeps

\* A replayed header keeps a kernel sound, however far ahead its round is.
LEMMA handleReplayedHeaderSound ==
    ASSUME NEW w \in Kernel, Sound(w), NEW c \in ReplayedHeader
    PROVE  Sound(handleReplayedHeader(w, c))
  <1> DEFINE w1 == ReachReplayedRound(w, c)
             known == \E p \in w1.voting.phs : p.hash = c.hash
             ph == [hash |-> c.hash, by |-> NoProposer]
             y  == SaveRoundReplayedHeader(w1, c.h, c.hash)
             w2 == IF known THEN w1 ELSE [y EXCEPT !.voting.phs = @ \cup {ph}]
             both == [h \in Hashes |-> w2.voting.proofs["precommit"][h] \cup c.proofs[h]]
             v == [w2.voting EXCEPT !.proofs["precommit"] = both,
                                    !.sum["precommit"] = both]
             x == [w2 EXCEPT !.voting = v]
             w3 == OverwriteRoundProofs(x, "precommit", c.h, c.r, both)
  <1>1. w1 \in Kernel /\ Sound(w1)
    BY jumpVotingRoundType, jumpVotingRoundSound DEF ReachReplayedRound
  <1> HIDE DEF w1
  <1>2. w2 \in Kernel /\ Keeps(w1, w2)
    <2>1. y \in Kernel /\ Keeps(w1, y)
      BY <1>1, SaveRoundReplayedHeaderType, SaveRoundReplayedHeaderKeeps DEF ReplayedHeader
    <2>2. ph \in HeldPH
      BY DEF ReplayedHeader, HeldPH
    <2> HIDE DEF ph, y
    <2>3. LET z == [y EXCEPT !.voting.phs = @ \cup {ph}] IN z \in Kernel /\ Keeps(y, z)
      BY <2>1, <2>2, HoldHeaderKeeps
    <2> QED BY <1>1, <2>1, <2>3, KeepsBoth, KeepsItself
  <1> HIDE DEF w2
  <1>3. both \in Proofs
    <2>1. w2.voting.proofs["precommit"] \in Proofs
      BY <1>2, KernelViews DEF View, Kinds
    <2>2. c.proofs \in Proofs
      BY DEF ReplayedHeader
    <2> QED BY <2>1, <2>2, UnionOfProofs
  <1> HIDE DEF both
  <1>4. x \in Kernel /\ Keeps(w2, x)
    <2>1. v \in View /\ v.h = w2.voting.h /\ v.r = w2.voting.r
      BY <1>2, <1>3, KernelViews DEF View, Kinds
    <2> HIDE DEF v
    <2>2. x \in Kernel
      BY <1>2, <2>1 DEF Kernel
    <2> QED BY <1>2, <2>1, <2>2, SetVotingKeeps
  <1> HIDE DEF x
  <1>5. w3 \in Kernel /\ Keeps(x, w3)
    BY <1>3, <1>4, OverwriteRoundProofsType, OverwriteRoundProofsKeeps DEF Kinds
  <1> HIDE DEF w3
  <1>6. Sound(w2) /\ Sound(w3)
    BY <1>1, <1>2, <1>4, <1>5, KeepsSound
  <1>7. Sound(checkVotingPrecommitViewShift(w3))
    BY <1>5, <1>6, checkVotingPrecommitViewShiftSound
  <1>8. Sound(Panic(w)) /\ Sound(Panic(w1))
    BY <1>1, PanicKeeps, KeepsSound
  <1> QED BY <1>1, <1>6, <1>7, <1>8
          DEF handleReplayedHeader, w1, known, ph, y, w2, both, v, x, w3

-----------------------------------------------------------------------------
(* Starting. *)

\* A loaded view is at the place it was loaded for.
LEMMA loadInitialViewPlace ==
    ASSUME NEW d \in Disk, NEW h \in Nat, NEW r \in Nat
    PROVE  loadInitialView(d, h, r).h = h /\ loadInitialView(d, h, r).r = r
  BY DEF loadInitialView, ZeroView

\* loadInitialCommittingView puts the Committing view where the mirror store
\* says, and touches neither stores nor the other views.
LEMMA loadInitialCommittingViewPlaces ==
    ASSUME NEW w \in Kernel, NEW hash \in Hashes,
           <<w.disk.nhr.ch, w.disk.nhr.cr>> \in HR
    PROVE  LET x == loadInitialCommittingView(w, hash)
           IN /\ x.committing.h = w.disk.nhr.ch /\ x.committing.r = w.disk.nhr.cr
              /\ x.disk = w.disk /\ x.torn = w.torn
  <1> DEFINE d  == w.disk
             v  == loadInitialView(d, d.nhr.ch, d.nhr.cr)
             w0 == [w EXCEPT !.committing = v]
             w1 == MarkCommittingViewUpdated(w0)
             prev == IF v.h > InitialHeight
                     THEN [r |-> d.headers[v.h - 1].r,
                           proofs |-> d.headers[v.h - 1].proofs]
                     ELSE NoCommit
  <1>1. d \in Disk /\ d.nhr.ch \in Nat /\ d.nhr.cr \in Nat
    BY KernelDisk DEF Disk
  <1>2. v \in View /\ v.h = d.nhr.ch /\ v.r = d.nhr.cr
    BY <1>1, loadInitialViewType, loadInitialViewPlace
  <1> HIDE DEF v
  <1>3. w0 \in Kernel /\ w0.committing = v /\ w0.disk = d /\ w0.torn = w.torn
    BY <1>2 DEF Kernel
  <1> HIDE DEF w0
  <1>4. /\ w1 \in Kernel /\ w1.committing.h = v.h /\ w1.committing.r = v.r
        /\ w1.disk = d /\ w1.torn = w.torn
    BY <1>3, MarkCommittingType, MarkCommittingPlaces
  <1> HIDE DEF w1, prev
  <1> DEFINE a == [w1.committing EXCEPT !.prev = prev]
             b == [w1 EXCEPT !.committingHeader = hash]
             x == [b EXCEPT !.committing = a]
  <1>5. a.h = v.h /\ a.r = v.r
    BY <1>4, KernelViews DEF View
  <1>6. [w1 EXCEPT !.committingHeader = hash, !.committing.prev = prev] = x
    BY <1>4 DEF Kernel
  <1> HIDE DEF a
  <1>7. x.committing = a /\ x.disk = d /\ x.torn = w.torn
    BY <1>4 DEF Kernel
  <1> HIDE DEF x
  <1>8. x = loadInitialCommittingView(w, hash)
    BY <1>6 DEF loadInitialCommittingView, d, v, w0, w1, prev
  <1> QED BY <1>2, <1>5, <1>7, <1>8 DEF d

\* loadInitialVotingView puts Voting where the mirror store says and NextRound
\* one round later.
LEMMA loadInitialVotingViewPlaces ==
    ASSUME NEW w \in Kernel
    PROVE  LET x == loadInitialVotingView(w)
           IN /\ x.voting.h = w.disk.nhr.vh /\ x.voting.r = w.disk.nhr.vr
              /\ x.nextRound.h = w.disk.nhr.vh /\ x.nextRound.r = w.disk.nhr.vr + 1
              /\ x.committing = w.committing /\ x.disk = w.disk /\ x.torn = w.torn
  <1> DEFINE n == w.disk.nhr
             v == loadInitialView(w.disk, n.vh, n.vr)
             u == loadInitialView(w.disk, n.vh, n.vr + 1)
             w0 == [w EXCEPT !.voting = v]
             w1 == MarkVotingViewUpdated(w0)
             w2 == [w1 EXCEPT !.nextRound = u]
             x  == MarkNextRoundViewUpdated(w2)
  <1>1. w.disk \in Disk /\ n.vh \in Nat /\ n.vr \in Nat /\ n.vr + 1 \in Nat
    BY KernelDisk DEF Disk
  <1>2. /\ v \in View /\ v.h = n.vh /\ v.r = n.vr
        /\ u \in View /\ u.h = n.vh /\ u.r = n.vr + 1
    BY <1>1, loadInitialViewType, loadInitialViewPlace
  <1> HIDE DEF v, u
  <1>3. /\ w0 \in Kernel /\ w0.voting = v /\ w0.committing = w.committing
        /\ w0.disk = w.disk /\ w0.torn = w.torn
    BY <1>2 DEF Kernel
  <1> HIDE DEF w0
  <1>4. /\ w1 \in Kernel /\ w1.voting.h = v.h /\ w1.voting.r = v.r
        /\ w1.committing = w.committing /\ w1.disk = w.disk /\ w1.torn = w.torn
    BY <1>3, MarkVotingType, MarkVotingPlaces
  <1> HIDE DEF w1
  <1>5. /\ w2 \in Kernel /\ w2.voting = w1.voting /\ w2.nextRound = u
        /\ w2.committing = w.committing /\ w2.disk = w.disk /\ w2.torn = w.torn
    BY <1>2, <1>4 DEF Kernel
  <1> HIDE DEF w2
  <1>6. /\ x.voting = w1.voting /\ x.nextRound.h = u.h /\ x.nextRound.r = u.r
        /\ x.committing = w.committing /\ x.disk = w.disk /\ x.torn = w.torn
    BY <1>5, MarkNextRoundPlaces
  <1>7. x = loadInitialVotingView(w)
    BY DEF loadInitialVotingView, n, v, u, w0, w1, w2
  <1> HIDE DEF x
  <1> QED BY <1>2, <1>4, <1>6, <1>7 DEF n

\* Setting the previous commit proofs keeps places and records.
LEMMA SetPrevCommitProofKeeps ==
    ASSUME NEW w \in Kernel
    PROVE  Keeps(w, SetPrevCommitProof(w))
  <1>1. ASSUME NEW prev
        PROVE  Keeps(w, [w EXCEPT !.voting.prev = prev, !.nextRound.prev = prev,
                                  !.shared = TRUE])
    <2> DEFINE v == [w.voting EXCEPT !.prev = prev]
               u == [w.nextRound EXCEPT !.prev = prev]
               x == [w EXCEPT !.voting = v, !.nextRound = u, !.shared = TRUE]
    <2>1. /\ v.h = w.voting.h /\ v.r = w.voting.r
          /\ u.h = w.nextRound.h /\ u.r = w.nextRound.r
      BY KernelViews DEF View
    <2>2. [w EXCEPT !.voting.prev = prev, !.nextRound.prev = prev, !.shared = TRUE] = x
      BY DEF Kernel
    <2> HIDE DEF v, u
    <2>3. /\ x.voting = v /\ x.nextRound = u /\ x.committing = w.committing
          /\ x.disk = w.disk /\ x.torn = w.torn
      BY DEF Kernel
    <2> HIDE DEF x
    <2> QED BY <2>1, <2>2, <2>3 DEF Keeps, SamePlaces, SameRecords
  <1> QED BY <1>1 DEF SetPrevCommitProof

\* A kernel started from a complete disk image is sound.
LEMMA NewKernelSound ==
    ASSUME NEW d \in Disk, NEW hash \in Hashes, Complete(d),
           HasCommitting(d) => <<d.nhr.ch, d.nhr.cr>> \in HR
    PROVE  Sound(NewKernel(d, hash)) /\ Complete(NewKernel(d, hash).disk)
  <1> DEFINE w1 == BlankKernel(d)
             w2 == IF HasCommitting(d) THEN loadInitialCommittingView(w1, hash) ELSE w1
             x  == loadInitialVotingView(w2)
             y  == SetPrevCommitProof(x)
             w3 == updateObservers(y)
             w4 == [w3 EXCEPT !.up = TRUE, !.torn = {}]
  <1>1. /\ w1 \in Kernel /\ w1.disk = d /\ w1.torn = {}
        /\ w1.committing.h = 0 /\ w1.committing.r = 0
    BY BlankKernelType DEF BlankKernel, ZeroView
  <1> HIDE DEF w1
  <1>2. /\ w2 \in Kernel /\ w2.disk = d /\ w2.torn = {}
        /\ w2.committing.h = d.nhr.ch /\ w2.committing.r = d.nhr.cr
    <2>1. CASE HasCommitting(d)
      BY <1>1, <2>1, loadInitialCommittingViewType, loadInitialCommittingViewPlaces
    <2>2. CASE ~HasCommitting(d)
      <3>1. d.nhr.ch = 0 /\ d.nhr.cr = 0
        BY <2>2, BoundsAssumption DEF Complete, Consecutive, HasCommitting, Disk
      <3> QED BY <1>1, <2>2, <3>1
    <2> QED BY <2>1, <2>2
  <1> HIDE DEF w2
  <1>3. /\ x \in Kernel /\ x.disk = d /\ x.torn = {}
        /\ x.committing.h = d.nhr.ch /\ x.committing.r = d.nhr.cr
        /\ x.voting.h = d.nhr.vh /\ x.voting.r = d.nhr.vr
        /\ x.nextRound.h = d.nhr.vh /\ x.nextRound.r = d.nhr.vr + 1
    BY <1>2, loadInitialVotingViewType, loadInitialVotingViewPlaces
  <1> HIDE DEF x
  <1>4. Sound(x)
    <2>1. Aligned(x)
      BY <1>3 DEF Aligned, Complete
    <2>2. Recorded(x)
      BY <1>3 DEF Recorded, Disk
    <2>3. Durable(x)
      BY <1>3 DEF Durable
    <2> QED BY <2>1, <2>2, <2>3 DEF Sound
  <1>5. y \in Kernel /\ Sound(y)
    BY <1>3, <1>4, SetPrevCommitProofType, SetPrevCommitProofKeeps, KeepsSound
  <1> HIDE DEF y
  <1>6. w3 \in Kernel /\ Sound(w3)
    BY <1>5, updateObserversType, updateObserversSound, SoundHeaders DEF Sound
  <1> HIDE DEF w3
  <1>7. /\ w4.voting = w3.voting /\ w4.nextRound = w3.nextRound
        /\ w4.committing = w3.committing /\ w4.disk = w3.disk /\ w4.torn = {}
    BY <1>6 DEF Kernel
  <1>8. w4 = NewKernel(d, hash)
    BY DEF NewKernel, w1, w2, x, y, w3
  <1> HIDE DEF w4
  <1>9. Keeps(w3, w4)
    BY <1>7 DEF Keeps, SamePlaces, SameRecords
  <1> QED BY <1>6, <1>8, <1>9, KeepsSound DEF Sound, Durable

\* The stores of a new chain are complete.
LEMMA EmptyDiskComplete == Complete(EmptyDisk) /\ ~HasCommitting(EmptyDisk)
  BY BoundsAssumption DEF EmptyDisk, Complete, Consecutive, HasCommitting, Heights

-----------------------------------------------------------------------------
(* The steps. *)

\* A process that dies leaves a complete disk image if it left one.
LEMMA DiesPlaced ==
    ASSUME NEW d, Complete(d), Dies(d) PROVE Placed'
  <1>1. kernel'.disk = d /\ kernel'.up = FALSE
    BY DEF Dies, BlankKernel
  <1> QED BY <1>1 DEF Placed

\* A handler of the kernel that ends in a sound state keeps Placed, also when
\* the process dies in the middle of it.
LEMMA KernelStepPlaced ==
    ASSUME NEW w \in Kernel, Sound(w), NEW g, NEW q, KernelStep(w, g, q) PROVE Placed'
  <1>1. CASE kernel' = [w EXCEPT !.torn = {}, !.room = {}]
    <2> DEFINE x == [w EXCEPT !.torn = {}, !.room = {}]
    <2>1. Keeps(w, x)
      BY DEF Keeps, SamePlaces, SameRecords, Kernel
    <2>2. Sound(x)
      BY <2>1, KeepsSound
    <2>3. kernel' = x
      BY <1>1
    <2> HIDE DEF x
    <2> QED BY <2>2, <2>3 DEF Placed, Sound, Durable
  <1>2. CASE Dies(w.disk)
    BY <1>2, DiesPlaced DEF Sound, Durable
  <1>3. CASE \E d \in w.torn : Dies(d)
    BY <1>3, DiesPlaced DEF Sound, Durable
  <1> QED BY <1>1, <1>2, <1>3 DEF KernelStep

\* The room of the fetch queue is no part of the places.
LEMMA WithRoomSound ==
    ASSUME NEW w \in Kernel, Sound(w), NEW room PROVE Sound(WithRoom(w, room))
  <1>1. Keeps(w, WithRoom(w, room))
    BY DEF WithRoom, Keeps, SamePlaces, SameRecords, Kernel
  <1> QED BY <1>1, KeepsSound

\* A request that only reads, or panics, keeps Placed.
LEMMA ReadPlaced ==
    ASSUME TypeOK, Placed, kernel.up, NEW dies \in BOOLEAN, NEW g, NEW q,
           KernelStep(IF dies THEN Panic(kernel) ELSE kernel, g, q)
    PROVE  Placed'
  <1>1. kernel \in Kernel /\ Sound(kernel)
    BY DEF TypeOK, Placed
  <1>2. Panic(kernel) \in Kernel /\ Sound(Panic(kernel))
    BY <1>1, PanicType, PanicKeeps, KeepsSound
  <1> QED BY <1>1, <1>2, KernelStepPlaced

\* Every step of a handler keeps Placed.
LEMMA HandlerStepPlaced ==
    ASSUME TypeOK, Placed, NEW c \in Handlers, HandlerNext(c) PROVE Placed'
  <1>1. kernel \in Kernel /\ hs[c] \in Handler /\ (kernel.up => Sound(kernel))
    BY DEF TypeOK, Placed
  <1>2. ASSUME NEW g, kernel.up, Lookup(c, g) PROVE Placed'
    BY <1>2, ReadPlaced DEF Lookup
  <1>3. ASSUME NEW room \in FetchRooms, AddVotes(c, room) PROVE Placed'
    <2> DEFINE g == hs[c]
               m == g.msg
               w == addVote(WithRoom(kernel, room), m.kind, m.h, m.r, g.u)
    <2>1. m.kind \in Kinds /\ m.h \in Nat /\ m.r \in Nat /\ g.u \in Update
      BY <1>1, HRType DEF Handler
    <2>2. WithRoom(kernel, room) \in Kernel /\ Sound(WithRoom(kernel, room))
      BY <1>1, <1>3, WithRoomType, WithRoomSound DEF AddVotes
    <2>3. w \in Kernel /\ Sound(w)
      BY <2>1, <2>2, addVoteType, addVoteSound
    <2>4. \E h : KernelStep(w, h, phQueue)
      BY <1>3 DEF AddVotes
    <2> HIDE DEF w
    <2> QED BY <2>3, <2>4, KernelStepPlaced
  <1>4. ASSUME NEW p, kernel.up, CheckPH(c, p) PROVE Placed'
    BY <1>4, ReadPlaced DEF CheckPH
  <1>5. ASSUME SendPH(c) PROVE Placed'
    BY <1>5 DEF SendPH, Placed
  <1> QED BY <1>2, <1>3, <1>4, <1>5
          DEF HandlerNext, HandleVoteProofs, RetryLookup, HandleProposedHeader, RestartCheck

\* Adding a header that arrived from anywhere keeps Placed.
LEMMA AddPHPlaced ==
    ASSUME TypeOK, Placed, kernel.up, NEW p \in Proposal, NEW g, NEW q,
           KernelStep(addProposedHeader(kernel, p), g, q)
    PROVE  Placed'
  <1>1. kernel \in Kernel /\ Sound(kernel)
    BY DEF TypeOK, Placed
  <1> QED BY <1>1, addProposedHeaderType, addProposedHeaderSound, KernelStepPlaced

\* A consumer that reads its channel changes neither places nor stores.
LEMMA SentPlaced ==
    ASSUME Placed, kernel.up, NEW x, kernel' = x, Keeps(kernel, x) PROVE Placed'
  <1>1. Sound(x)
    BY KeepsSound DEF Placed
  <1> QED BY <1>1 DEF Placed, Sound, Durable

\* Every step of the state machine keeps Placed.
LEMMA StateMachineStepPlaced ==
    ASSUME TypeOK, Placed, StateMachineNext PROVE Placed'
  <1>1. kernel \in Kernel /\ (kernel.up => Sound(kernel))
    BY DEF TypeOK, Placed
  <1>2. ASSUME NEW x \in SMRounds, SMRoundEntrance(x[1], x[2]) PROVE Placed'
    <2>1. x[1] \in Nat /\ x[2] \in Nat
      BY InputAssumption, HRType DEF HR
    <2>2. /\ handleStateMachineRoundEntrance(kernel, x[1], x[2]) \in Kernel
          /\ Sound(handleStateMachineRoundEntrance(kernel, x[1], x[2]))
      BY <1>1, <1>2, <2>1, handleStateMachineRoundEntranceType,
         handleStateMachineRoundEntranceSound DEF SMRoundEntrance
    <2> QED BY <1>2, <2>2, KernelStepPlaced DEF SMRoundEntrance
  <1>3. ASSUME NEW v \in SMVotes, NEW room \in FetchRooms, SMVote(v[1], v[2], room)
        PROVE  Placed'
    <2>1. v[1] \in Kinds /\ v[2] \in Hashes /\ OwnKey \in Val
      BY InputAssumption
    <2>2. WithRoom(kernel, room) \in Kernel /\ Sound(WithRoom(kernel, room))
      BY <1>1, <1>3, WithRoomType, WithRoomSound DEF SMVote
    <2>3. /\ handleStateMachineVote(WithRoom(kernel, room), v[1], v[2], OwnKey) \in Kernel
          /\ Sound(handleStateMachineVote(WithRoom(kernel, room), v[1], v[2], OwnKey))
      BY <2>1, <2>2, handleStateMachineVoteType, handleStateMachineVoteSound
    <2> QED BY <1>3, <2>3, KernelStepPlaced DEF SMVote
  <1>4. ASSUME NEW p \in Proposals, SMPropose(p) PROVE Placed'
    BY <1>4, InputAssumption, AddPHPlaced DEF SMPropose
  <1>5. ASSUME SendToStateMachine PROVE Placed'
    <2>1. ASSUME NEW n
          PROVE  Keeps(kernel, [kernel EXCEPT !.sm.jump = ZeroView, !.sm.sent = n])
      BY <1>1 DEF Keeps, SamePlaces, SameRecords, Kernel
    <2> QED BY <1>5, <2>1, SentPlaced DEF SendToStateMachine
  <1> QED BY <1>2, <1>3, <1>4, <1>5 DEF StateMachineNext

\* A replayed header, a restart or a reader keeps Placed, like every other step.
LEMMA NextPlaced == ASSUME TypeOK, Placed, [Next]_vars PROVE Placed'
  <1>1. kernel \in Kernel /\ phQueue \in Seq(Proposal) /\ (kernel.up => Sound(kernel))
    BY DEF TypeOK, Placed
  <1>2. CASE \E c \in Handlers : HandlerNext(c)
    BY <1>2, HandlerStepPlaced
  <1>3. CASE AddQueuedPH
    <2>1. Head(phQueue) \in Proposal
      BY <1>1, <1>3 DEF AddQueuedPH
    <2> QED BY <1>3, <2>1, AddPHPlaced DEF AddQueuedPH
  <1>4. ASSUME NEW p \in Proposals, AddFetchedPH(p) PROVE Placed'
    BY <1>4, InputAssumption, AddPHPlaced DEF AddFetchedPH
  <1>5. CASE StateMachineNext
    BY <1>5, StateMachineStepPlaced
  <1>6. ASSUME NEW c \in ReplayedHeaders, NEW room \in FetchRooms, Replay(c, room)
        PROVE  Placed'
    <2>1. WithRoom(kernel, room) \in Kernel /\ Sound(WithRoom(kernel, room))
      BY <1>1, <1>6, WithRoomType, WithRoomSound DEF Replay
    <2>2. /\ handleReplayedHeader(WithRoom(kernel, room), c) \in Kernel
          /\ Sound(handleReplayedHeader(WithRoom(kernel, room), c))
      BY <2>1, InputAssumption, handleReplayedHeaderType, handleReplayedHeaderSound
    <2> QED BY <1>6, <2>2, KernelStepPlaced DEF Replay
  <1>7. CASE SendToGossip
    <2>1. Keeps(kernel, [kernel EXCEPT !.gossip = GossipMarkSent(@)])
      BY <1>1 DEF Keeps, SamePlaces, SameRecords, Kernel
    <2> QED BY <1>7, <2>1, SentPlaced DEF SendToGossip
  <1>8. CASE SendLagState
    <2>1. Keeps(kernel, [kernel EXCEPT !.lag.sent = TRUE])
      BY <1>1 DEF Keeps, SamePlaces, SameRecords, Kernel
    <2> QED BY <1>8, <2>1, SentPlaced DEF SendLagState
  <1>9. CASE Crash
    BY <1>9, DiesPlaced DEF Crash, Placed
  <1>10. CASE Restart
    <2>1. kernel.disk \in Disk
      BY <1>1, KernelDisk
    <2>2. StartHashes(kernel.disk) \subseteq Hashes
      BY NilIsHash DEF StartHashes, CommittingHashes
    <2>3. HasCommitting(kernel.disk)
            => <<kernel.disk.nhr.ch, kernel.disk.nhr.cr>> \in HR
      BY <1>10, <2>1, LoadableRound DEF Restart
    <2>4. Sound(kernel') /\ Complete(kernel'.disk)
      BY <1>10, <2>1, <2>2, <2>3, NewKernelSound DEF Restart, Placed
    <2> QED BY <2>4 DEF Placed
  <1>11. CASE UNCHANGED vars
    BY <1>11 DEF vars, Placed
  <1> QED BY <1>2, <1>3, <1>4, <1>5, <1>6, <1>7, <1>8, <1>9, <1>10, <1>11 DEF Next

-----------------------------------------------------------------------------
\* In every behaviour the stored places are consecutive and complete, and a
\* running kernel is sound: the inductive invariant of the two theorems below
\* (kState, updateObservers, saveCurrentCommittingHeader).
THEOREM PlacedAlways == Spec => []Placed
<1>1. Init => Placed
  <2> SUFFICES ASSUME Init PROVE Placed
    OBVIOUS
  <2>1. Sound(NewKernel(EmptyDisk, Nil)) /\ Complete(NewKernel(EmptyDisk, Nil).disk)
    BY EmptyDiskType, EmptyDiskComplete, NilIsHash, NewKernelSound
  <2> QED BY <2>1 DEF Init, Placed
<1>2. TypeOK /\ Placed /\ [Next]_vars => Placed'
  BY NextPlaced
<1> QED BY <1>1, <1>2, TypeCorrect, PTL DEF Spec

\* A running kernel's three views are at consecutive places and the mirror
\* store names them, whatever is received, replayed or fetched and wherever
\* the process dies (incrementVotingRound, shiftVotingToCommitting,
\* updateObservers, loadInitialView): what TLC checks as ViewsAligned.
THEOREM ViewsAlignedAlways == Spec => []ViewsAligned
<1>1. Placed => ViewsAligned
  BY DEF Placed, Sound, Aligned, Consecutive, Recorded, ViewsAligned
<1> QED BY <1>1, PlacedAlways, PTL

\* The header of every height at or below the stored committing height is in
\* the committed header store, in every disk image that a crash leaves between
\* two store calls (commitVotedHeader): what TLC checks as HeadersComplete.
THEOREM HeadersCompleteAlways == Spec => []HeadersComplete
<1>1. Placed => HeadersComplete
  BY DEF Placed, Complete, HeadersComplete
<1> QED BY <1>1, PlacedAlways, PTL
=============================================================================
