----------------------------- MODULE EngineProofs ----------------------------
(***************************************************************************)
(* The engine keeps the state machine's round lifecycle in order and       *)
(* finalizes heights one after the other, and its mirror keeps its types,  *)
(* places and records, for all constants: crashes and restarts included.   *)
(*                                                                         *)
(* LifecycleConsistent is not inductive.  That the record of the state     *)
(* machine is Ordered (module StateMachineProofs) needs, where the mirror  *)
(* has answered a round entrance with a committed header, that no view of  *)
(* that round arrives: the mirror's Committing view is past it and never   *)
(* goes back (Onward), and the mirror knows which round the state machine  *)
(* is in (Linked).                                                         *)
(*                                                                         *)
(* Then what the validator signs.  The stores are shown to hold only votes *)
(* and headers that were signed (module MirrorStoreProofs), for a set of   *)
(* signatures that is left open; here it is that of the others together    *)
(* with what the action store has of the validator (Signatures).  So what  *)
(* the mirror holds of the validator is what it recorded (SigningInv), and *)
(* what it recorded for the round it is in gets to the mirror (HandedInv). *)
(***************************************************************************)
EXTENDS StateMachineProofs, MirrorStoreProofs

-----------------------------------------------------------------------------
(* What the kernel's operators do to its idea of the state machine.  From w *)
(* to x the state machine stays where it is, the Committing view does not   *)
(* go back, and a view is put out for the state machine only if it is in    *)
(* its round and that round is not before the Committing one.               *)

Onward(w, x) ==
    /\ At(x.sm, w.sm) /\ (x.sm.live <=> w.sm.live)
    /\ NotAfter(w.committing, x.committing)
    /\ x.sm.out = w.sm.out \/ (At(x.sm.out, w.sm) /\ NotAfter(w.committing, w.sm))

\* Heights and rounds are natural numbers.
LEMMA KernelPlaces ==
    ASSUME NEW w \in Kernel
    PROVE  /\ w.voting.h \in Nat /\ w.voting.r \in Nat
           /\ w.nextRound.h \in Nat /\ w.nextRound.r \in Nat
           /\ w.committing.h \in Nat /\ w.committing.r \in Nat
           /\ w.sm.h \in Nat /\ w.sm.r \in Nat
           /\ w.sm.out.h \in Nat /\ w.sm.out.r \in Nat /\ w.sm.live \in BOOLEAN
  <1>1. /\ w.voting \in View /\ w.nextRound \in View /\ w.committing \in View
        /\ w.sm.out \in View /\ w.sm.h \in Nat /\ w.sm.r \in Nat /\ w.sm.live \in BOOLEAN
    BY DEF Kernel
  <1> QED BY <1>1 DEF View

\* What touches neither the state machine nor the place of the Committing view.
LEMMA SameOnward ==
    ASSUME NEW w \in Kernel, NEW x, x.sm = w.sm,
           x.committing.h = w.committing.h, x.committing.r = w.committing.r
    PROVE  Onward(w, x)
  BY KernelPlaces DEF Onward, At, NotAfter

\* One operation after the other.
LEMMA OnwardBoth ==
    ASSUME NEW w \in Kernel, NEW x \in Kernel, NEW y \in Kernel, Onward(w, x), Onward(x, y)
    PROVE  Onward(w, y)
  <1>1. NotAfter(w.committing, y.committing)
    BY KernelPlaces DEF Onward, NotAfter
  <1>2. At(y.sm, w.sm) /\ (y.sm.live <=> w.sm.live)
    BY DEF Onward, At
  <1>3. CASE y.sm.out = x.sm.out
    BY <1>1, <1>2, <1>3 DEF Onward
  <1>4. CASE At(y.sm.out, x.sm) /\ NotAfter(x.committing, x.sm)
    <2>1. At(y.sm.out, w.sm)
      BY <1>4 DEF Onward, At
    <2>2. NotAfter(x.committing, w.sm) /\ NotAfter(w.committing, x.committing)
      BY <1>4 DEF Onward, At, NotAfter
    <2>3. NotAfter(w.committing, w.sm)
      BY <2>2, KernelPlaces DEF NotAfter
    <2> QED BY <1>1, <1>2, <2>1, <2>3 DEF Onward
  <1> QED BY <1>3, <1>4 DEF Onward

\* The Committing view of aligned views is before the other two.
LEMMA AlignedAhead ==
    ASSUME NEW w \in Kernel, Aligned(w)
    PROVE  NotAfter(w.committing, w.voting) /\ NotAfter(w.committing, w.nextRound)
  BY KernelPlaces, BoundsAssumption DEF Aligned, Consecutive, NotAfter

\* Marking the Voting view.
LEMMA MarkVotingOnward ==
    ASSUME NEW w \in Kernel, NotAfter(w.committing, w.voting)
    PROVE  Onward(w, MarkVotingViewUpdated(w))
  <1> DEFINE v == Bump(w.voting)
  <1>1. v.h = w.voting.h /\ v.r = w.voting.r
    BY KernelViews DEF Bump, View
  <1> HIDE DEF v
  <1> DEFINE m == IF w.sm.h = v.h /\ w.sm.r = v.r
                  THEN [w.sm EXCEPT !.out = v] ELSE w.sm
             x == [w EXCEPT !.voting = v, !.gossip.voting.view = v, !.sm = m]
  <1>2. /\ m.h = w.sm.h /\ m.r = w.sm.r /\ m.live = w.sm.live
        /\ m.out = w.sm.out \/ (m.out = v /\ w.sm.h = v.h /\ w.sm.r = v.r)
    BY DEF Kernel
  <1> HIDE DEF m
  <1>3. x.sm = m /\ x.committing = w.committing
    BY DEF Kernel
  <1>4. x = MarkVotingViewUpdated(w)
    BY DEF MarkVotingViewUpdated, v, m
  <1> HIDE DEF x
  <1>5. m.out = v /\ w.sm.h = v.h /\ w.sm.r = v.r
          => At(m.out, w.sm) /\ NotAfter(w.committing, w.sm)
    BY <1>1 DEF At, NotAfter
  <1>6. Onward(w, x)
    BY <1>2, <1>3, <1>5, KernelPlaces DEF Onward, At, NotAfter
  <1> QED BY <1>4, <1>6

\* Marking the NextRound view.
LEMMA MarkNextRoundOnward ==
    ASSUME NEW w \in Kernel PROVE Onward(w, MarkNextRoundViewUpdated(w))
  <1> DEFINE v == Bump(w.nextRound)
  <1> HIDE DEF v
  <1> DEFINE x == [w EXCEPT !.nextRound = v, !.gossip.nextRound.view = v]
  <1>1. x.sm = w.sm /\ x.committing = w.committing
    BY DEF Kernel
  <1>2. x = MarkNextRoundViewUpdated(w)
    BY DEF MarkNextRoundViewUpdated, v
  <1> HIDE DEF x
  <1> QED BY <1>1, <1>2, SameOnward

\* Marking the Committing view.
LEMMA MarkCommittingOnward ==
    ASSUME NEW w \in Kernel PROVE Onward(w, MarkCommittingViewUpdated(w))
  <1> DEFINE v == Bump(w.committing)
  <1>1. v.h = w.committing.h /\ v.r = w.committing.r
    BY KernelViews DEF Bump, View
  <1> HIDE DEF v
  <1> DEFINE m == CASE w.sm.h = v.h /\ w.sm.r = v.r -> [w.sm EXCEPT !.out = v]
                    [] w.sm.h < v.h \/ (w.sm.h = v.h /\ w.sm.r < v.r)
                         -> [w.sm EXCEPT !.jump = v]
                    [] OTHER -> w.sm
             x == [w EXCEPT !.committing = v, !.gossip.committing.view = v, !.sm = m]
  <1>2. /\ m.h = w.sm.h /\ m.r = w.sm.r /\ m.live = w.sm.live
        /\ m.out = w.sm.out \/ (m.out = v /\ w.sm.h = v.h /\ w.sm.r = v.r)
    BY DEF Kernel
  <1> HIDE DEF m
  <1>3. x.sm = m /\ x.committing = v
    BY DEF Kernel
  <1>4. x = MarkCommittingViewUpdated(w)
    BY DEF MarkCommittingViewUpdated, v, m
  <1> HIDE DEF x
  <1>5. m.out = v /\ w.sm.h = v.h /\ w.sm.r = v.r
          => At(m.out, w.sm) /\ NotAfter(w.committing, w.sm)
    BY <1>1, KernelPlaces DEF At, NotAfter
  <1>6. Onward(w, x)
    BY <1>1, <1>2, <1>3, <1>5, KernelPlaces DEF Onward, At, NotAfter
  <1> QED BY <1>4, <1>6

\* Marking any view of a sound kernel.
LEMMA MarkViewUpdatedOnward ==
    ASSUME NEW w \in Kernel, Sound(w), NEW id \in FoundIDs
    PROVE  Onward(w, MarkViewUpdated(w, id))
  BY MarkVotingOnward, MarkNextRoundOnward, MarkCommittingOnward, AlignedAhead
     DEF MarkViewUpdated, FoundIDs, Sound

\* The store calls, a panic, requests for headers and the lag state leave the
\* state machine alone.
LEMMA QuietOnward ==
    ASSUME NEW w \in Kernel
    PROVE  /\ \A d : Onward(w, Write(w, d))
           /\ Onward(w, updateObservers(w))
           /\ \A h, r, ph : Onward(w, SaveRoundProposedHeader(w, h, r, ph))
           /\ \A h, b : Onward(w, SaveRoundReplayedHeader(w, h, b))
           /\ \A kind, h, r, ps : Onward(w, OverwriteRoundProofs(w, kind, h, r, ps))
           /\ \A h, b, c : Onward(w, SaveCommittedHeader(w, h, b, c))
           /\ Onward(w, Panic(w))
           /\ \A room : Onward(w, WithRoom(w, room))
           /\ \A s : Onward(w, [w EXCEPT !.inFlight = s])
           /\ \A h, ps : Onward(w, checkMissingPHs(w, h, ps))
           /\ Onward(w, SetLagUpToDate(w))
  <1>1. ASSUME NEW d PROVE Onward(w, Write(w, d))
    <2>1. Write(w, d).sm = w.sm /\ Write(w, d).committing = w.committing
      BY DEF Write, Kernel
    <2> QED BY <2>1, SameOnward
  <1>2. Onward(w, Panic(w))
    <2>1. Panic(w).sm = w.sm /\ Panic(w).committing = w.committing
      BY DEF Panic, Kernel
    <2> QED BY <2>1, SameOnward
  <1>3. ASSUME NEW s PROVE Onward(w, [w EXCEPT !.inFlight = s])
    <2> DEFINE x == [w EXCEPT !.inFlight = s]
    <2>1. x.sm = w.sm /\ x.committing = w.committing
      BY DEF Kernel
    <2> HIDE DEF x
    <2>2. Onward(w, x)
      BY <2>1, SameOnward
    <2> QED BY <2>2 DEF x
  <1>4. ASSUME NEW s PROVE Onward(w, [w EXCEPT !.lag = s])
    <2> DEFINE x == [w EXCEPT !.lag = s]
    <2>1. x.sm = w.sm /\ x.committing = w.committing
      BY DEF Kernel
    <2> HIDE DEF x
    <2>2. Onward(w, x)
      BY <2>1, SameOnward
    <2> QED BY <2>2 DEF x
  <1>5. ASSUME NEW room PROVE Onward(w, WithRoom(w, room))
    <2>1. WithRoom(w, room).sm = w.sm /\ WithRoom(w, room).committing = w.committing
      BY DEF WithRoom, Kernel
    <2> QED BY <2>1, SameOnward
  <1> QED BY <1>1, <1>2, <1>3, <1>4, <1>5
          DEF updateObservers, SaveRoundProposedHeader, SaveRoundReplayedHeader,
              OverwriteRoundProofs, SaveCommittedHeader, checkMissingPHs, SetLagUpToDate

\* Replacing a view by one of the same place.
LEMMA PutViewOnward ==
    ASSUME NEW w \in Kernel, NEW id \in FoundIDs, NEW v \in View,
           v.h = GetView(w, id).h, v.r = GetView(w, id).r
    PROVE  Onward(w, PutView(w, id, v))
  <1>1. /\ PutView(w, id, v).sm = w.sm
        /\ PutView(w, id, v).committing.h = w.committing.h
        /\ PutView(w, id, v).committing.r = w.committing.r
    BY DEF FoundIDs, GetView, PutView, Kernel
  <1> QED BY <1>1, SameOnward

-----------------------------------------------------------------------------
(* Moving on to another round or height. *)

\* incrementVotingRound.
LEMMA incrementVotingRoundOnward ==
    ASSUME NEW w \in Kernel, Aligned(w) PROVE Onward(w, incrementVotingRound(w))
  <1> DEFINE w0 == [w EXCEPT !.voting = w.nextRound]
             w1 == MarkVotingViewUpdated(w0)
             v  == ResetForSameHeight(w.voting, w.nextRound.r + 1)
             w2 == [w1 EXCEPT !.nextRound = v]
  <1>1. /\ w0 \in Kernel /\ w0.voting = w.nextRound /\ w0.committing = w.committing
        /\ w0.sm = w.sm
    BY DEF Kernel
  <1> HIDE DEF w0
  <1>2. w1 \in Kernel /\ Onward(w0, w1)
    <2>1. NotAfter(w0.committing, w0.voting)
      BY <1>1, AlignedAhead
    <2> QED BY <1>1, <2>1, MarkVotingType, MarkVotingOnward
  <1> HIDE DEF w1
  <1>3. v \in View
    <2>1. w.voting \in View /\ w.nextRound.r + 1 \in Nat
      BY KernelViews DEF View
    <2> QED BY <2>1, ResetForSameHeightType
  <1> HIDE DEF v
  <1>4. w2 \in Kernel /\ w2.sm = w1.sm /\ w2.committing = w1.committing
    BY <1>2, <1>3 DEF Kernel
  <1>5. incrementVotingRound(w) = MarkNextRoundViewUpdated(w2)
    BY DEF incrementVotingRound, w0, w1, v
  <1> HIDE DEF w2
  <1>6. Onward(w, w0) /\ Onward(w1, w2) /\ Onward(w2, MarkNextRoundViewUpdated(w2))
    BY <1>1, <1>2, <1>4, SameOnward, MarkNextRoundOnward
  <1>7. MarkNextRoundViewUpdated(w2) \in Kernel
    BY <1>4, MarkNextRoundType
  <1>8. Onward(w, w1)
    BY <1>1, <1>2, <1>6, OnwardBoth
  <1>9. Onward(w, w2)
    BY <1>2, <1>4, <1>6, <1>8, OnwardBoth
  <1> QED BY <1>4, <1>5, <1>6, <1>7, <1>9, OnwardBoth

\* Giving a round up.
LEMMA advanceVotingRoundOnward ==
    ASSUME NEW w \in Kernel, Sound(w) PROVE Onward(w, advanceVotingRound(w))
  <1> DEFINE w0 == [w EXCEPT !.gossip.nilVoted = w.voting]
             x  == incrementVotingRound(w0)
  <1>1. /\ w0 \in Kernel /\ w0.voting = w.voting /\ w0.nextRound = w.nextRound
        /\ w0.committing = w.committing /\ w0.sm = w.sm
    BY DEF Kernel
  <1> HIDE DEF w0
  <1>2. Aligned(w0) /\ Onward(w, w0)
    BY <1>1, SameOnward DEF Sound, Aligned
  <1>3. x \in Kernel /\ Onward(w, x)
    BY <1>1, <1>2, incrementVotingRoundType, incrementVotingRoundOnward, OnwardBoth
  <1> HIDE DEF x
  <1>4. Onward(w, updateObservers(x))
    BY <1>3, updateObserversType, QuietOnward, OnwardBoth
  <1> QED BY <1>4 DEF advanceVotingRound, AdvanceVotingRound, x, w0

\* Jumping to the next round.
LEMMA jumpVotingRoundOnward ==
    ASSUME NEW w \in Kernel, Sound(w) PROVE Onward(w, jumpVotingRound(w))
  <1> DEFINE x == incrementVotingRound(w)
             s == [x.sm EXCEPT !.jump = x.voting]
             z == [x EXCEPT !.sm = s]
             y == IF x.sm.h = x.voting.h /\ x.sm.r = x.voting.r - 1 THEN z ELSE x
  <1>1. x \in Kernel /\ Onward(w, x)
    BY incrementVotingRoundType, incrementVotingRoundOnward DEF Sound
  <1>2. y = JumpVotingRound(w)
    <2> HIDE DEF x
    <2>1. z = [x EXCEPT !.sm.jump = x.voting]
      BY <1>1 DEF Kernel
    <2> QED BY <2>1 DEF JumpVotingRound, x
  <1>3. y \in Kernel
    BY <1>2, JumpVotingRoundType
  <1> HIDE DEF x
  <1>4. s.h = x.sm.h /\ s.r = x.sm.r /\ s.live = x.sm.live /\ s.out = x.sm.out
    BY <1>1 DEF Kernel
  <1> HIDE DEF s
  <1>5. z.sm = s /\ z.committing = x.committing
    BY <1>1 DEF Kernel
  <1> HIDE DEF z
  <1>6. Onward(x, z)
    BY <1>1, <1>4, <1>5, KernelPlaces DEF Onward, At, NotAfter
  <1>7. Onward(x, x)
    BY <1>1, SameOnward
  <1>8. Onward(x, y)
    BY <1>6, <1>7
  <1> HIDE DEF y
  <1>9. Onward(w, y)
    BY <1>1, <1>3, <1>8, OnwardBoth
  <1>10. Onward(w, updateObservers(y))
    BY <1>3, <1>9, updateObserversType, QuietOnward, OnwardBoth
  <1> QED BY <1>2, <1>10 DEF jumpVotingRound

\* ShiftVotingToCommitting: the Committing view moves on to the Voting one.
LEMMA ShiftVotingToCommittingOnward ==
    ASSUME NEW w \in Kernel, NEW hash \in Hashes, Aligned(w)
    PROVE  Onward(w, ShiftVotingToCommitting(w, hash))
  <1> DEFINE close == w.sm.live /\ w.sm.h = w.committing.h
             w0 == [w EXCEPT !.committing = w.voting]
             w1 == MarkCommittingViewUpdated(w0)
             fresh == [ZeroView EXCEPT
                         !.h = w.voting.h + 1,
                         !.prev = [r |-> w.voting.r,
                                   proofs |-> w.voting.proofs["precommit"]]]
             y1 == [w1 EXCEPT !.voting = fresh]
             w2 == MarkVotingViewUpdated(y1)
             late == [fresh EXCEPT !.r = 1]
             y2 == [w2 EXCEPT !.nextRound = late]
             w3 == MarkNextRoundViewUpdated(y2)
             w4 == IF w.shared
                   THEN [w3 EXCEPT !.committing.prev.proofs = NoProofs] ELSE w3
             w5 == [w4 EXCEPT !.committingHeader = hash, !.shared = FALSE,
                              !.sm.closed = @ \/ close]
  <1>0. w.voting.h \in Nat /\ w.voting.r \in Nat
    BY KernelViews DEF View
  <1>1. w0 \in Kernel /\ Onward(w, w0) /\ w0.committing = w.voting
    <2>1. w0 \in Kernel /\ w0.committing = w.voting /\ w0.sm = w.sm
      BY DEF Kernel
    <2> HIDE DEF w0
    <2> QED BY <2>1, AlignedAhead, KernelPlaces DEF Onward, At
  <1> HIDE DEF w0
  <1>2. w1 \in Kernel /\ Onward(w, w1) /\ w1.committing.h = w.voting.h
    BY <1>1, MarkCommittingType, MarkCommittingOnward, MarkCommittingPlaces, OnwardBoth
  <1> HIDE DEF w1
  <1>3. fresh \in View /\ fresh.h = w.voting.h + 1 /\ late \in View
    <2>1. /\ w.voting.h + 1 \in Nat /\ w.voting.r \in Nat
          /\ w.voting.proofs["precommit"] \in Proofs
      BY <1>0, KernelViews DEF View, Kinds
    <2>2. fresh \in View
      BY <2>1, ZeroViewType DEF View
    <2>3. fresh.h = w.voting.h + 1
      BY DEF ZeroView
    <2> HIDE DEF fresh
    <2>4. late \in View
      BY <2>2 DEF View
    <2> QED BY <2>2, <2>3, <2>4
  <1> HIDE DEF fresh, late
  <1>4. /\ y1 \in Kernel /\ y1.voting = fresh /\ y1.committing = w1.committing
        /\ y1.sm = w1.sm
    BY <1>2, <1>3 DEF Kernel
  <1> HIDE DEF y1
  <1>5. w2 \in Kernel /\ Onward(w, w2)
    <2>1. NotAfter(y1.committing, y1.voting)
      BY <1>0, <1>2, <1>3, <1>4 DEF NotAfter
    <2>2. Onward(w1, y1) /\ Onward(y1, w2) /\ w2 \in Kernel
      BY <1>2, <1>4, <2>1, SameOnward, MarkVotingType, MarkVotingOnward
    <2>3. Onward(w, y1)
      BY <1>2, <1>4, <2>2, OnwardBoth
    <2> QED BY <1>4, <2>2, <2>3, OnwardBoth
  <1> HIDE DEF w2
  <1>6. y2 \in Kernel /\ y2.committing = w2.committing /\ y2.sm = w2.sm
    BY <1>3, <1>5 DEF Kernel
  <1> HIDE DEF y2
  <1>7. w3 \in Kernel /\ Onward(w, w3)
    <2>1. Onward(w2, y2) /\ Onward(y2, w3) /\ w3 \in Kernel
      BY <1>5, <1>6, SameOnward, MarkNextRoundType, MarkNextRoundOnward
    <2>2. Onward(w, y2)
      BY <1>5, <1>6, <2>1, OnwardBoth
    <2> QED BY <1>6, <2>1, <2>2, OnwardBoth
  <1> HIDE DEF w3
  <1>8. w4 \in Kernel /\ Onward(w, w4)
    <2> DEFINE v == [w3.committing EXCEPT !.prev.proofs = NoProofs]
               y == [w3 EXCEPT !.committing = v]
    <2>1. v.h = w3.committing.h /\ v.r = w3.committing.r /\ v \in View
      BY <1>7, KernelViews, NoProofsType DEF View
    <2>2. [w3 EXCEPT !.committing.prev.proofs = NoProofs] = y
      BY <1>7 DEF Kernel
    <2> HIDE DEF v
    <2>3. y \in Kernel /\ y.committing = v /\ y.sm = w3.sm
      BY <1>7, <2>1 DEF Kernel
    <2> HIDE DEF y
    <2>4. Onward(w, y)
      BY <1>7, <2>1, <2>3, SameOnward, OnwardBoth
    <2> QED BY <1>7, <2>2, <2>3, <2>4
  <1> HIDE DEF w4
  <1>9. w5 = ShiftVotingToCommitting(w, hash)
    BY DEF ShiftVotingToCommitting, w0, w1, w2, w3, w4, y1, y2, fresh, late, close
  <1>10. Onward(w4, w5)
    <2> DEFINE s == [w4.sm EXCEPT !.closed = @ \/ close]
    <2>1. w5 = [w4 EXCEPT !.committingHeader = hash, !.shared = FALSE, !.sm = s]
      BY <1>8 DEF Kernel
    <2>2. s.h = w4.sm.h /\ s.r = w4.sm.r /\ s.live = w4.sm.live /\ s.out = w4.sm.out
      BY <1>8 DEF Kernel
    <2> HIDE DEF s, w5
    <2>3. w5.sm = s /\ w5.committing = w4.committing
      BY <1>8, <2>1 DEF Kernel
    <2> QED BY <1>8, <2>2, <2>3, KernelPlaces DEF Onward, At, NotAfter
  <1>11. w5 \in Kernel
    BY <1>9, ShiftVotingToCommittingType
  <1> HIDE DEF w5
  <1> QED BY <1>8, <1>9, <1>10, <1>11, OnwardBoth

\* Committing a header.
LEMMA commitVotedHeaderOnward ==
    ASSUME NEW w \in Kernel, Sound(w), NEW hash \in Hashes
    PROVE  Onward(w, commitVotedHeader(w, hash))
  <1> DEFINE x == ShiftVotingToCommitting(w, hash)
             y == SaveCommittedHeader(x, x.committing.h, hash, x.voting.prev)
  <1>1. x \in Kernel /\ Onward(w, x)
    BY ShiftVotingToCommittingType, ShiftVotingToCommittingOnward DEF Sound
  <1> HIDE DEF x
  <1>2. y \in Kernel
    <2>1. x.voting.prev \in [r : Nat, proofs : Proofs]
      BY <1>1, KernelViews DEF View
    <2> QED BY <1>1, <2>1, SaveCommittedHeaderType
  <1>3. Onward(w, y)
    BY <1>1, <1>2, QuietOnward, OnwardBoth
  <1> HIDE DEF y
  <1>4. Onward(w, updateObservers(y))
    BY <1>2, <1>3, updateObserversType, QuietOnward, OnwardBoth
  <1> QED BY <1>4 DEF commitVotedHeader, x, y

-----------------------------------------------------------------------------
(* The handlers of the kernel. *)

\* The shift check on the precommits of the Voting view.
LEMMA checkVotingPrecommitViewShiftOnward ==
    ASSUME NEW w \in Kernel, Sound(w) PROVE Onward(w, checkVotingPrecommitViewShift(w))
  <1>1. ASSUME NEW b, \E p \in w.voting.phs : p.hash = b PROVE b \in Hashes
    BY <1>1, KernelViews, HeldHashType
  <1>2. Onward(w, advanceVotingRound(w)) /\ Onward(w, w)
    BY advanceVotingRoundOnward, SameOnward
  <1>3. ASSUME NEW b, \E p \in w.voting.phs : p.hash = b
        PROVE  Onward(w, commitVotedHeader(w, b))
    BY <1>1, <1>3, commitVotedHeaderOnward
  <1> QED BY <1>2, <1>3 DEF checkVotingPrecommitViewShift

\* The shift checks on the NextRound view.
LEMMA checkNextRoundOnward ==
    ASSUME NEW w \in Kernel, Sound(w)
    PROVE  /\ Onward(w, checkNextRoundPrecommitViewShift(w))
           /\ Onward(w, checkPrevoteViewShift(w))
  <1> DEFINE x == jumpVotingRound(w)
  <1>1. x \in Kernel /\ Onward(w, x) /\ Onward(w, w)
    BY jumpVotingRoundType, jumpVotingRoundOnward, SameOnward
  <1> HIDE DEF x
  <1>2. ASSUME NEW h \in Nat, NEW proofs PROVE Onward(w, checkMissingPHs(x, h, proofs))
    BY <1>1, QuietOnward, checkMissingPHsType, OnwardBoth
  <1>3. Onward(w, Panic(x))
    BY <1>1, PanicType, QuietOnward, OnwardBoth
  <1>4. x.voting.h \in Nat
    BY <1>1, KernelPlaces
  <1> QED BY <1>1, <1>2, <1>3, <1>4
          DEF checkNextRoundPrecommitViewShift, checkPrevoteViewShift, x

\* The shift checks that follow an accepted vote.
LEMMA ShiftAfterVoteOnward ==
    ASSUME NEW w \in Kernel, Sound(w), NEW kind, NEW id
    PROVE  Onward(w, ShiftAfterVote(w, kind, id))
  <1>1. Onward(w, w)
    BY SameOnward
  <1> QED BY <1>1, checkVotingPrecommitViewShiftOnward, checkNextRoundOnward
          DEF ShiftAfterVote

\* addPrevote and addPrecommit.
LEMMA addVoteOnward ==
    ASSUME NEW w \in Kernel, Sound(w), NEW kind \in Kinds, NEW h \in Nat, NEW r \in Nat,
           NEW u \in Update
    PROVE  Onward(w, addVote(w, kind, h, r, u))
  <1> DEFINE id == FindView(w, h, r)
             v  == GetView(w, id)
             v1 == ApplyUpdate(v, kind, u)
             z  == PutView(w, id, v1)
             x  == MarkViewUpdated(z, id)
             y  == OverwriteRoundProofs(x, kind, h, r, v1.proofs[kind])
             w1 == IF Current(v, kind, u) = {} THEN w ELSE y
             w2 == checkMissingPHs(w1, h, v1.proofs[kind])
  <1>0. Onward(w, w) /\ Onward(w, Panic(w))
    BY SameOnward, QuietOnward
  <1>1. CASE id \in FoundIDs
    <2>1. v \in View /\ v1 \in View /\ v1.proofs[kind] \in Proofs
      BY <1>1, GetViewType, ApplyUpdateType
    <2>2. v1.h = v.h /\ v1.r = v.r
      BY <2>1 DEF ApplyUpdate, View
    <2> HIDE DEF id, v1
    <2>3. z \in Kernel /\ Keeps(w, z) /\ Onward(w, z)
      BY <1>1, <2>1, <2>2, PutViewType, PutViewKeeps, PutViewOnward
    <2> HIDE DEF z
    <2>4. x \in Kernel /\ Keeps(w, x) /\ Onward(w, x)
      <3>1. Sound(z)
        BY <2>3, KeepsSound
      <3>2. x \in Kernel /\ Keeps(w, x) /\ Onward(z, x)
        BY <1>1, <2>3, <3>1, MarkViewUpdatedType, MarkViewUpdatedKeeps, KeepsBoth,
           MarkViewUpdatedOnward
      <3> HIDE DEF x
      <3> QED BY <2>3, <3>2, OnwardBoth
    <2> HIDE DEF x
    <2>5. y \in Kernel /\ Keeps(w, y) /\ Onward(x, y)
      BY <2>1, <2>4, OverwriteRoundProofsType, OverwriteRoundProofsKeeps, KeepsBoth,
         QuietOnward
    <2> HIDE DEF y
    <2>6. w1 \in Kernel /\ Keeps(w, w1) /\ Onward(w, w1)
      BY <1>0, <2>4, <2>5, KeepsItself, OnwardBoth
    <2> HIDE DEF w1
    <2>7. w2 \in Kernel /\ Keeps(w, w2) /\ Onward(w1, w2)
      BY <2>6, checkMissingPHsType, checkMissingPHsKeeps, KeepsBoth, QuietOnward
    <2> HIDE DEF w2
    <2>8. Sound(w2) /\ Onward(w, w2)
      BY <2>6, <2>7, KeepsSound, OnwardBoth
    <2>9. Onward(w, ShiftAfterVote(w2, kind, id))
      BY <1>1, <2>7, <2>8, ShiftAfterVoteType, ShiftAfterVoteOnward, OnwardBoth
    <2> HIDE DEF v
    <2> QED BY <1>0, <2>8, <2>9 DEF addVote, id, v, v1, z, x, y, w1, w2
  <1>2. CASE id \notin FoundIDs
    BY <1>0, <1>2 DEF addVote
  <1> QED BY <1>1, <1>2

\* Backfilling the precommits of the Committing view.
LEMMA BackfillCommittingOnward ==
    ASSUME NEW w \in Kernel, NEW p \in Proposal PROVE Onward(w, BackfillCommitting(w, p))
  <1> DEFINE have  == w.committing.proofs["precommit"]
             extra == IF p.prevR = w.committing.r THEN p.prev ELSE NoProofs
             both  == [h \in Hashes |-> have[h] \cup extra[h]]
             w1 == [w EXCEPT !.committing.proofs["precommit"] = both]
             w2 == OverwriteRoundProofs(w1, "precommit", p.h - 1, p.prevR, both)
  <1>0. Onward(w, w) /\ Onward(w, Panic(w))
    BY SameOnward, QuietOnward
  <1>1. both \in Proofs
    <2>1. have \in Proofs
      BY KernelViews DEF View, Kinds
    <2>2. extra \in Proofs
      BY NoProofsType DEF Proposal
    <2> QED BY <2>1, <2>2, UnionOfProofs
  <1> HIDE DEF both
  <1>2. w1 \in Kernel
    BY <1>1, CommittingProofsType
  <1>3. Onward(w, w1)
    <2>1. ASSUME NEW v \in View
          PROVE  LET y == [v EXCEPT !.proofs["precommit"] = both] IN y.h = v.h /\ y.r = v.r
      BY DEF View
    <2> DEFINE v == [w.committing EXCEPT !.proofs["precommit"] = both]
    <2>2. v.h = w.committing.h /\ v.r = w.committing.r
      BY <2>1, KernelViews
    <2>3. w1 = [w EXCEPT !.committing = v]
      BY DEF Kernel
    <2> HIDE DEF v, w1
    <2>4. w1.committing = v /\ w1.sm = w.sm
      BY <2>3 DEF Kernel
    <2> QED BY <2>2, <2>4, SameOnward
  <1> HIDE DEF w1
  <1>4. w2 \in Kernel /\ Onward(w1, w2)
    BY <1>1, <1>2, OverwriteRoundProofsType, QuietOnward DEF Kinds
  <1> HIDE DEF w2
  <1>5. Onward(w, w2)
    BY <1>2, <1>3, <1>4, OnwardBoth
  <1>6. Onward(w, MarkCommittingViewUpdated(w2))
    BY <1>4, <1>5, MarkCommittingType, MarkCommittingOnward, OnwardBoth
  <1> QED BY <1>0, <1>6 DEF BackfillCommitting, have, extra, both, w1, w2

\* addProposedHeader.
LEMMA addProposedHeaderOnward ==
    ASSUME NEW w \in Kernel, Sound(w), NEW p \in Proposal
    PROVE  Onward(w, addProposedHeader(w, p))
  <1> DEFINE w1 == [w EXCEPT !.inFlight = @ \ {<<p.h, p.hash>>}]
             id == FindView(w1, p.h, p.r)
             v  == GetView(w1, id)
             ph == [hash |-> p.hash, by |-> p.by]
             v1 == [v EXCEPT !.phs = @ \cup {ph}]
             y  == PutView(w1, id, v1)
             x  == SaveRoundProposedHeader(y, p.h, p.r, ph)
             w2 == MarkViewUpdated(x, id)
             z  == SetLagUpToDate(w2)
             w3 == BackfillCommitting(z, p)
  <1>1. w1 \in Kernel /\ Keeps(w, w1) /\ Onward(w, w1)
    <2>1. w1 \in Kernel /\ Keeps(w, w1) /\ w1.sm = w.sm /\ w1.committing = w.committing
      BY DEF Kernel, Keeps, SamePlaces, SameRecords
    <2> HIDE DEF w1
    <2> QED BY <2>1, SameOnward
  <1>2. ph \in HeldPH
    BY DEF Proposal, HeldPH
  <1> HIDE DEF w1, ph
  <1>3. Sound(w1) /\ Panic(w1) \in Kernel /\ Onward(w1, Panic(w1))
    BY <1>1, PanicType, QuietOnward, KeepsSound
  <1>p. Onward(w, Panic(w1))
    BY <1>1, <1>3, OnwardBoth
  <1>4. CASE id \in FoundIDs
    <2>1. v \in View
      BY <1>1, <1>4, GetViewType
    <2>2. v1 \in View /\ v1.h = v.h /\ v1.r = v.r
      BY <2>1, <1>2 DEF View
    <2> HIDE DEF id, v1
    <2>3. y \in Kernel /\ Keeps(w1, y) /\ Onward(w1, y)
      BY <1>1, <1>4, <2>2, PutViewType, PutViewKeeps, PutViewOnward
    <2> HIDE DEF y
    <2>4. x \in Kernel /\ Keeps(w1, x) /\ Onward(y, x)
      BY <1>2, <2>3, SaveRoundProposedHeaderType, SaveRoundProposedHeaderKeeps, KeepsBoth,
         QuietOnward
    <2> HIDE DEF x
    <2>5. w2 \in Kernel /\ Keeps(w1, w2) /\ Onward(x, w2)
      <3>1. Sound(x)
        BY <1>3, <2>4, KeepsSound
      <3> QED BY <1>4, <2>4, <3>1, MarkViewUpdatedType, MarkViewUpdatedKeeps, KeepsBoth,
                 MarkViewUpdatedOnward
    <2> HIDE DEF w2
    <2>6. z \in Kernel /\ Keeps(w1, z) /\ Onward(w2, z)
      BY <2>5, SetLagUpToDateType, SetLagUpToDateKeeps, KeepsBoth, QuietOnward
    <2> HIDE DEF z
    <2>7. w3 \in Kernel /\ Keeps(w1, w3) /\ Onward(z, w3)
      BY <2>6, BackfillCommittingType, BackfillCommittingKeeps, KeepsBoth,
         BackfillCommittingOnward
    <2> HIDE DEF w3
    <2>a. Onward(w, y)
      BY <1>1, <2>3, OnwardBoth
    <2>b. Onward(w, x)
      BY <2>a, <2>3, <2>4, OnwardBoth
    <2>c. Onward(w, w2)
      BY <2>b, <2>4, <2>5, OnwardBoth
    <2>d. Onward(w, z)
      BY <2>c, <2>5, <2>6, OnwardBoth
    <2>e. Onward(w, w3)
      BY <2>d, <2>6, <2>7, OnwardBoth
    <2>8. Sound(w3)
      BY <1>3, <2>7, KeepsSound
    <2>9. Onward(w, checkVotingPrecommitViewShift(w3))
      BY <2>7, <2>8, <2>e, checkVotingPrecommitViewShiftType,
         checkVotingPrecommitViewShiftOnward, OnwardBoth
    <2> HIDE DEF v
    <2> QED BY <1>1, <1>p, <2>c, <2>e, <2>9
            DEF addProposedHeader, w1, id, v, ph, v1, x, y, z, w2, w3
  <1>5. CASE id \notin FoundIDs
    BY <1>1, <1>p, <1>5 DEF addProposedHeader, w1
  <1> QED BY <1>4, <1>5

\* A vote of the state machine.
LEMMA handleStateMachineVoteOnward ==
    ASSUME NEW w \in Kernel, Sound(w), NEW kind \in Kinds, NEW hash \in Hashes, NEW own \in Val
    PROVE  Onward(w, handleStateMachineVote(w, kind, hash, own))
  <1> DEFINE id == FindView(w, w.sm.h, w.sm.r)
             v  == GetView(w, id)
             u  == [dom |-> {hash}, ver |-> v.ver[kind],
                    proofs |-> [v.proofs[kind] EXCEPT ![hash] = @ \cup {own}]]
  <1>1. w.sm.h \in Nat /\ w.sm.r \in Nat
    BY DEF Kernel
  <1>2. Onward(w, w) /\ Onward(w, Panic(w))
    BY SameOnward, QuietOnward
  <1>3. CASE id \in {"voting", "committing"}
    <2>1. v \in View
      BY <1>3, GetViewType DEF FoundIDs
    <2> HIDE DEF v
    <2>2. u \in Update
      BY <2>1 DEF View, Update, Proofs
    <2> HIDE DEF u
    <2> QED BY <1>1, <1>2, <1>3, <2>2, addVoteOnward DEF handleStateMachineVote, u, v
  <1>4. CASE id \notin {"voting", "committing"}
    BY <1>2, <1>4 DEF handleStateMachineVote
  <1> QED BY <1>3, <1>4

\* Replacing the Voting view.
LEMMA SetVotingOnward ==
    ASSUME NEW w \in Kernel, NEW v PROVE Onward(w, [w EXCEPT !.voting = v])
  <1> DEFINE x == [w EXCEPT !.voting = v]
  <1>1. x.sm = w.sm /\ x.committing = w.committing
    BY DEF Kernel
  <1> HIDE DEF x
  <1>2. Onward(w, x)
    BY <1>1, SameOnward
  <1> QED BY <1>2 DEF x

\* A replayed header.
LEMMA handleReplayedHeaderOnward ==
    ASSUME NEW w \in Kernel, Sound(w), NEW c \in ReplayedHeader
    PROVE  Onward(w, handleReplayedHeader(w, c))
  <1> DEFINE w1 == ReachReplayedRound(w, c)
             known == \E p \in w1.voting.phs : p.hash = c.hash
             ph == [hash |-> c.hash, by |-> NoProposer]
             y  == SaveRoundReplayedHeader(w1, c.h, c.hash)
             z  == [y EXCEPT !.voting.phs = @ \cup {ph}]
             w2 == IF known THEN w1 ELSE z
             both == [h \in Hashes |-> w2.voting.proofs["precommit"][h] \cup c.proofs[h]]
             v == [w2.voting EXCEPT !.proofs["precommit"] = both,
                                    !.sum["precommit"] = both]
             x == [w2 EXCEPT !.voting = v]
             w3 == OverwriteRoundProofs(x, "precommit", c.h, c.r, both)
  <1>0. Onward(w, w) /\ Onward(w, Panic(w))
    BY SameOnward, QuietOnward
  <1>1. w1 \in Kernel /\ Sound(w1) /\ Onward(w, w1)
    BY <1>0, jumpVotingRoundType, jumpVotingRoundSound, jumpVotingRoundOnward
       DEF ReachReplayedRound
  <1> HIDE DEF w1
  <1>2. w2 \in Kernel /\ Keeps(w1, w2) /\ Onward(w1, w2)
    <2>1. y \in Kernel /\ Keeps(w1, y) /\ Onward(w1, y)
      BY <1>1, SaveRoundReplayedHeaderType, SaveRoundReplayedHeaderKeeps, QuietOnward
         DEF ReplayedHeader
    <2>2. ph \in HeldPH
      BY DEF ReplayedHeader, HeldPH
    <2> HIDE DEF ph, y
    <2>3. z \in Kernel /\ Keeps(y, z)
      BY <2>1, <2>2, HoldHeaderKeeps
    <2>4. Onward(y, z)
      <3> DEFINE g == [y.voting EXCEPT !.phs = @ \cup {ph}]
      <3>1. z = [y EXCEPT !.voting = g]
        BY <2>1 DEF Kernel
      <3> HIDE DEF g
      <3> QED BY <2>1, <3>1, SetVotingOnward
    <2> HIDE DEF z
    <2>5. Keeps(w1, z) /\ Onward(w1, z)
      BY <1>1, <2>1, <2>3, <2>4, KeepsBoth, OnwardBoth
    <2>6. Keeps(w1, w1) /\ Onward(w1, w1)
      BY <1>1, KeepsItself, SameOnward
    <2> QED BY <1>1, <2>3, <2>5, <2>6
  <1> HIDE DEF w2
  <1>3. both \in Proofs
    <2>1. w2.voting.proofs["precommit"] \in Proofs
      BY <1>2, KernelViews DEF View, Kinds
    <2>2. c.proofs \in Proofs
      BY DEF ReplayedHeader
    <2> QED BY <2>1, <2>2, UnionOfProofs
  <1> HIDE DEF both
  <1>4. x \in Kernel /\ Keeps(w2, x) /\ Onward(w2, x)
    <2>1. v \in View /\ v.h = w2.voting.h /\ v.r = w2.voting.r
      BY <1>2, <1>3, KernelViews DEF View, Kinds
    <2> HIDE DEF v
    <2>2. x \in Kernel
      BY <1>2, <2>1 DEF Kernel
    <2> QED BY <1>2, <2>1, <2>2, SetVotingKeeps, SetVotingOnward
  <1> HIDE DEF x
  <1>5. w3 \in Kernel /\ Keeps(x, w3) /\ Onward(x, w3)
    BY <1>3, <1>4, OverwriteRoundProofsType, OverwriteRoundProofsKeeps, QuietOnward DEF Kinds
  <1> HIDE DEF w3
  <1>6. Sound(w3)
    BY <1>1, <1>2, <1>4, <1>5, KeepsSound
  <1>7. Onward(w3, checkVotingPrecommitViewShift(w3))
    BY <1>5, <1>6, checkVotingPrecommitViewShiftOnward
  <1>8. Panic(w1) \in Kernel /\ Onward(w1, Panic(w1))
    BY <1>1, PanicType, QuietOnward
  <1>9. Onward(w, w2)
    BY <1>1, <1>2, OnwardBoth
  <1>10. Onward(w, x)
    BY <1>2, <1>4, <1>9, OnwardBoth
  <1>11. Onward(w, w3)
    BY <1>4, <1>5, <1>10, OnwardBoth
  <1>12. Onward(w, checkVotingPrecommitViewShift(w3))
    BY <1>5, <1>7, <1>11, checkVotingPrecommitViewShiftType, OnwardBoth
  <1>13. Onward(w, Panic(w1))
    BY <1>1, <1>8, OnwardBoth
  <1> QED BY <1>0, <1>1, <1>9, <1>12, <1>13
          DEF handleReplayedHeader, w1, known, ph, y, z, w2, both, v, x, w3

-----------------------------------------------------------------------------
(* Starting, and the steps of the mirror. *)

\* loadInitialCommittingView, in a kernel that has no Committing view.
LEMMA loadInitialCommittingViewOnward ==
    ASSUME NEW w \in Kernel, NEW hash \in Hashes,
           <<w.disk.nhr.ch, w.disk.nhr.cr>> \in HR,
           w.committing.h = 0, w.committing.r = 0
    PROVE  Onward(w, loadInitialCommittingView(w, hash))
  <1> DEFINE d  == w.disk
             v  == loadInitialView(d, d.nhr.ch, d.nhr.cr)
             w0 == [w EXCEPT !.committing = v]
             w1 == MarkCommittingViewUpdated(w0)
             prev == IF v.h > InitialHeight
                     THEN [r |-> d.headers[v.h - 1].r,
                           proofs |-> d.headers[v.h - 1].proofs]
                     ELSE NoCommit
  <1>1. d \in Disk /\ d.nhr.ch \in Nat /\ d.nhr.cr \in Nat
    BY KernelDisk DEF Disk
  <1>2. v \in View /\ v.h \in Nat /\ v.r \in Nat
    BY <1>1, loadInitialViewType, loadInitialViewPlace
  <1> HIDE DEF v
  <1>3. w0 \in Kernel /\ w0.committing = v /\ w0.sm = w.sm
    BY <1>2 DEF Kernel
  <1> HIDE DEF w0
  <1>4. Onward(w, w0)
    BY <1>2, <1>3, KernelPlaces DEF Onward, At, NotAfter
  <1>5. w1 \in Kernel /\ Onward(w, w1)
    BY <1>3, <1>4, MarkCommittingType, MarkCommittingOnward, OnwardBoth
  <1> HIDE DEF w1, prev
  <1> DEFINE a == [w1.committing EXCEPT !.prev = prev]
             b == [w1 EXCEPT !.committingHeader = hash]
             x == [b EXCEPT !.committing = a]
  <1>6. a.h = w1.committing.h /\ a.r = w1.committing.r
    BY <1>5, KernelViews DEF View
  <1>7. [w1 EXCEPT !.committingHeader = hash, !.committing.prev = prev] = x
    BY <1>5 DEF Kernel
  <1> HIDE DEF a
  <1>8. x.committing = a /\ x.sm = w1.sm
    BY <1>5 DEF Kernel
  <1> HIDE DEF x
  <1>9. x = loadInitialCommittingView(w, hash)
    BY <1>7 DEF loadInitialCommittingView, d, v, w0, w1, prev
  <1>10. x \in Kernel
    BY <1>9, loadInitialCommittingViewType
  <1> QED BY <1>5, <1>6, <1>8, <1>9, <1>10, SameOnward, OnwardBoth

\* loadInitialVotingView, once the Committing view is loaded.
LEMMA loadInitialVotingViewOnward ==
    ASSUME NEW w \in Kernel,
           w.committing.h < w.disk.nhr.vh
    PROVE  Onward(w, loadInitialVotingView(w))
  <1> DEFINE n == w.disk.nhr
             v == loadInitialView(w.disk, n.vh, n.vr)
             u == loadInitialView(w.disk, n.vh, n.vr + 1)
             w0 == [w EXCEPT !.voting = v]
             w1 == MarkVotingViewUpdated(w0)
             w2 == [w1 EXCEPT !.nextRound = u]
             x  == MarkNextRoundViewUpdated(w2)
  <1>1. w.disk \in Disk /\ n.vh \in Nat /\ n.vr \in Nat /\ n.vr + 1 \in Nat
    BY KernelDisk DEF Disk
  <1>2. v \in View /\ v.h = n.vh /\ v.r = n.vr /\ u \in View
    BY <1>1, loadInitialViewType, loadInitialViewPlace
  <1> HIDE DEF v, u
  <1>3. w0 \in Kernel /\ w0.voting = v /\ w0.committing = w.committing /\ w0.sm = w.sm
    BY <1>2 DEF Kernel
  <1> HIDE DEF w0
  <1>4. NotAfter(w0.committing, w0.voting)
    BY <1>2, <1>3 DEF NotAfter
  <1>5. w1 \in Kernel /\ Onward(w, w1)
    BY <1>3, <1>4, SameOnward, MarkVotingType, MarkVotingOnward, OnwardBoth
  <1> HIDE DEF w1
  <1>6. w2 \in Kernel /\ w2.committing = w1.committing /\ w2.sm = w1.sm
    BY <1>2, <1>5 DEF Kernel
  <1> HIDE DEF w2
  <1>7. Onward(w, w2)
    BY <1>5, <1>6, SameOnward, OnwardBoth
  <1>8. Onward(w, x)
    BY <1>6, <1>7, MarkNextRoundType, MarkNextRoundOnward, OnwardBoth
  <1>9. x = loadInitialVotingView(w)
    BY DEF loadInitialVotingView, n, v, u, w0, w1, w2
  <1> HIDE DEF x
  <1> QED BY <1>8, <1>9

\* Setting the previous commit proofs.
LEMMA SetPrevCommitProofOnward ==
    ASSUME NEW w \in Kernel PROVE Onward(w, SetPrevCommitProof(w))
  <1>1. ASSUME NEW prev
        PROVE  Onward(w, [w EXCEPT !.voting.prev = prev, !.nextRound.prev = prev,
                                   !.shared = TRUE])
    <2> DEFINE v == [w.voting EXCEPT !.prev = prev]
               u == [w.nextRound EXCEPT !.prev = prev]
               x == [w EXCEPT !.voting = v, !.nextRound = u, !.shared = TRUE]
    <2>2. [w EXCEPT !.voting.prev = prev, !.nextRound.prev = prev, !.shared = TRUE] = x
      BY DEF Kernel
    <2> HIDE DEF v, u
    <2>3. x.committing = w.committing /\ x.sm = w.sm
      BY DEF Kernel
    <2> HIDE DEF x
    <2> QED BY <2>2, <2>3, SameOnward
  <1> QED BY <1>1 DEF SetPrevCommitProof

\* A new kernel knows of no state machine.
LEMMA NewKernelNoSM ==
    ASSUME NEW d \in Disk, NEW hash \in Hashes, Complete(d),
           HasCommitting(d) => <<d.nhr.ch, d.nhr.cr>> \in HR,
           NEW k, k = NewKernel(d, hash)
    PROVE  ~k.sm.live /\ k.sm.h = 0 /\ k.sm.r = 0 /\ NotAfter(k.sm.out, k.sm)
  <1> DEFINE w1 == BlankKernel(d)
             w2 == IF HasCommitting(d) THEN loadInitialCommittingView(w1, hash) ELSE w1
             x  == loadInitialVotingView(w2)
             y  == SetPrevCommitProof(x)
             w3 == updateObservers(y)
             w4 == [w3 EXCEPT !.up = TRUE, !.torn = {}]
  <1>1. /\ w1 \in Kernel /\ w1.disk = d /\ w1.sm = NoSM
        /\ w1.committing.h = 0 /\ w1.committing.r = 0
    BY BlankKernelType DEF BlankKernel, ZeroView
  <1> HIDE DEF w1
  <1>2. /\ w2 \in Kernel /\ w2.disk = d /\ Onward(w1, w2) /\ w2.committing.h = d.nhr.ch
    <2>1. CASE HasCommitting(d)
      BY <1>1, <2>1, loadInitialCommittingViewType, loadInitialCommittingViewPlaces,
         loadInitialCommittingViewOnward
    <2>2. CASE ~HasCommitting(d)
      <3>1. d.nhr.ch = 0
        BY <2>2, BoundsAssumption DEF Complete, Consecutive, HasCommitting, Disk
      <3> QED BY <1>1, <2>2, <3>1, SameOnward
    <2> QED BY <2>1, <2>2
  <1> HIDE DEF w2
  <1>3. w2.committing.h < w2.disk.nhr.vh
    <2>1. d.nhr.vh \in Nat /\ d.nhr.ch \in Nat
      BY DEF Disk
    <2> QED BY <1>2, <2>1, BoundsAssumption DEF Complete, Consecutive
  <1>4. x \in Kernel /\ Onward(w1, x)
    BY <1>1, <1>2, <1>3, loadInitialVotingViewType, loadInitialVotingViewOnward, OnwardBoth
  <1> HIDE DEF x
  <1>5. y \in Kernel /\ Onward(w1, y)
    BY <1>1, <1>4, SetPrevCommitProofType, SetPrevCommitProofOnward, OnwardBoth
  <1> HIDE DEF y
  <1>6. w3 \in Kernel /\ Onward(w1, w3)
    BY <1>1, <1>5, updateObserversType, QuietOnward, OnwardBoth
  <1> HIDE DEF w3
  <1>7. w4.sm = w3.sm
    BY <1>6 DEF Kernel
  <1>8. w4 = k
    BY DEF NewKernel, w1, w2, x, y, w3
  <1>9. NoSM.h = 0 /\ NoSM.r = 0 /\ ~NoSM.live /\ NoSM.out.h = 0 /\ NoSM.out.r = 0
    BY DEF NoSM, ZeroView
  <1> HIDE DEF w4
  <1> QED BY <1>1, <1>6, <1>7, <1>8, <1>9 DEF Onward, At, NotAfter

\* A handler of the kernel that ends moves on, or the process is dead.
LEMMA KernelStepOnward ==
    ASSUME kernel \in Kernel, NEW w \in Kernel, Onward(kernel, w), NEW g, NEW q,
           KernelStep(w, g, q), kernel'.up
    PROVE  Onward(kernel, kernel') /\ ~w.panic /\ kernel'.sm = w.sm
             /\ kernel'.committing = w.committing
  <1>1. ASSUME NEW d, Dies(d) PROVE FALSE
    BY <1>1 DEF Dies, BlankKernel
  <1>2. ~w.panic /\ kernel' = [w EXCEPT !.torn = {}, !.room = {}]
    BY <1>1 DEF KernelStep
  <1>3. kernel'.sm = w.sm /\ kernel'.committing = w.committing
    BY <1>2 DEF Kernel
  <1> QED BY <1>2, <1>3 DEF Onward

\* The mirror's own steps move on, or the process is dead.
LEMMA MirrorOnward ==
    ASSUME TypeOK, Placed, kernel.up, kernel'.up,
           \/ \E c \in Handlers : HandlerNext(c)
           \/ AddQueuedPH
           \/ \E p \in Proposals : AddFetchedPH(p)
           \/ \E c \in ReplayedHeaders, room \in FetchRooms : Replay(c, room)
           \/ SendToGossip
           \/ SendLagState
           \/ SendToStateMachine
    PROVE  Onward(kernel, kernel')
  <1>1. kernel \in Kernel /\ Sound(kernel) /\ phQueue \in Seq(Proposal)
    BY DEF TypeOK, Placed
  <1>2. Onward(kernel, kernel) /\ Onward(kernel, Panic(kernel)) /\ Panic(kernel) \in Kernel
    BY <1>1, SameOnward, QuietOnward, PanicType
  <1>3. ASSUME NEW dies \in BOOLEAN, NEW g, NEW q,
               KernelStep(IF dies THEN Panic(kernel) ELSE kernel, g, q)
        PROVE  Onward(kernel, kernel')
    BY <1>1, <1>2, <1>3, KernelStepOnward
  <1>4. ASSUME NEW room \in FetchRooms
        PROVE  /\ WithRoom(kernel, room) \in Kernel /\ Sound(WithRoom(kernel, room))
               /\ Onward(kernel, WithRoom(kernel, room))
    BY <1>1, WithRoomType, WithRoomSound, QuietOnward
  <1>5. ASSUME NEW c \in Handlers, HandlerNext(c) PROVE Onward(kernel, kernel')
    <2>1. hs[c] \in Handler
      BY DEF TypeOK
    <2>2. ASSUME NEW g, Lookup(c, g) PROVE Onward(kernel, kernel')
      BY <1>3, <2>2 DEF Lookup
    <2>3. ASSUME NEW p, CheckPH(c, p) PROVE Onward(kernel, kernel')
      BY <1>3, <2>3 DEF CheckPH
    <2>4. ASSUME SendPH(c) PROVE Onward(kernel, kernel')
      BY <1>2, <2>4 DEF SendPH
    <2>5. ASSUME NEW room \in FetchRooms, AddVotes(c, room) PROVE Onward(kernel, kernel')
      <3> DEFINE g == hs[c]
                 m == g.msg
                 k == WithRoom(kernel, room)
                 w == addVote(k, m.kind, m.h, m.r, g.u)
      <3>1. m.kind \in Kinds /\ m.h \in Nat /\ m.r \in Nat /\ g.u \in Update
        BY <2>1, HRType DEF Handler
      <3>2. k \in Kernel /\ Sound(k) /\ Onward(kernel, k)
        BY <1>4
      <3>3. \E h : KernelStep(w, h, phQueue)
        BY <2>5 DEF AddVotes
      <3> HIDE DEF k
      <3>4. w \in Kernel /\ Onward(k, w)
        BY <3>1, <3>2, addVoteType, addVoteOnward
      <3> HIDE DEF w
      <3>5. Onward(kernel, w)
        BY <1>1, <3>2, <3>4, OnwardBoth
      <3> QED BY <1>1, <3>3, <3>4, <3>5, KernelStepOnward
    <2> QED BY <1>5, <2>2, <2>3, <2>4, <2>5
            DEF HandlerNext, HandleVoteProofs, RetryLookup, HandleProposedHeader, RestartCheck
  <1>6. ASSUME NEW p \in Proposal, NEW g, NEW q, KernelStep(addProposedHeader(kernel, p), g, q)
        PROVE  Onward(kernel, kernel')
    BY <1>1, <1>6, addProposedHeaderType, addProposedHeaderOnward, KernelStepOnward
  <1>7. ASSUME AddQueuedPH PROVE Onward(kernel, kernel')
    <2>1. Head(phQueue) \in Proposal
      BY <1>1, <1>7 DEF AddQueuedPH
    <2> QED BY <1>6, <1>7, <2>1 DEF AddQueuedPH
  <1>8. ASSUME NEW p \in Proposals, AddFetchedPH(p) PROVE Onward(kernel, kernel')
    BY <1>6, <1>8, InputAssumption DEF AddFetchedPH
  <1>9. ASSUME NEW c \in ReplayedHeaders, NEW room \in FetchRooms, Replay(c, room)
        PROVE  Onward(kernel, kernel')
    <2> DEFINE k == WithRoom(kernel, room)
               w == handleReplayedHeader(k, c)
    <2>1. k \in Kernel /\ Sound(k) /\ Onward(kernel, k)
      BY <1>4
    <2>2. KernelStep(w, hs, phQueue)
      BY <1>9 DEF Replay
    <2> HIDE DEF k
    <2>3. w \in Kernel /\ Onward(k, w)
      BY <2>1, InputAssumption, handleReplayedHeaderType, handleReplayedHeaderOnward
    <2> HIDE DEF w
    <2>4. Onward(kernel, w)
      BY <1>1, <2>1, <2>3, OnwardBoth
    <2> QED BY <1>1, <2>2, <2>3, <2>4, KernelStepOnward
  <1>10. ASSUME SendToGossip PROVE Onward(kernel, kernel')
    <2>1. ASSUME NEW x, NEW y, y = [kernel EXCEPT !.gossip = x] PROVE Onward(kernel, y)
      <3>1. y.sm = kernel.sm /\ y.committing = kernel.committing
        BY <1>1, <2>1 DEF Kernel
      <3> QED BY <1>1, <3>1, SameOnward
    <2> QED BY <1>10, <2>1 DEF SendToGossip
  <1>11. ASSUME SendLagState PROVE Onward(kernel, kernel')
    <2>1. kernel'.sm = kernel.sm /\ kernel'.committing = kernel.committing
      BY <1>1, <1>11 DEF SendLagState, Kernel
    <2> QED BY <1>1, <2>1, SameOnward
  <1>12. ASSUME SendToStateMachine PROVE Onward(kernel, kernel')
    <2>1. ASSUME NEW n, NEW x, x = [kernel EXCEPT !.sm.jump = ZeroView, !.sm.sent = n]
          PROVE  Onward(kernel, x)
      <3> DEFINE s == [kernel.sm EXCEPT !.jump = ZeroView, !.sent = n]
      <3>1. x = [kernel EXCEPT !.sm = s]
        BY <1>1, <2>1 DEF Kernel
      <3>2. /\ s.h = kernel.sm.h /\ s.r = kernel.sm.r /\ s.live = kernel.sm.live
            /\ s.out = kernel.sm.out
        BY <1>1 DEF Kernel
      <3> HIDE DEF s
      <3>3. x.sm = s /\ x.committing = kernel.committing
        BY <1>1, <3>1 DEF Kernel
      <3> QED BY <1>1, <3>2, <3>3, KernelPlaces DEF Onward, At, NotAfter
    <2> QED BY <1>12, <2>1 DEF SendToStateMachine
  <1> QED BY <1>5, <1>7, <1>8, <1>9, <1>10, <1>11, <1>12

-----------------------------------------------------------------------------
(* The invariant. *)

\* The mirror takes the state machine to be where it is.
InRound(k, s) == k.sm.live /\ At(k.sm, s) /\ <<s.h, s.r>> \in SMRounds

\* The mirror is past the round, and has no view of it to send.
Outrun(k, s) == Before(s, k.committing) /\ Before(k.sm.out, s)

\* The kernel k and the state machine s agree where s is.
Link(k, s) ==
    /\ NotAfter(k.sm.out, k.sm)
    /\ ~k.sm.live => k.sm.h = 0 /\ k.sm.r = 0
    /\ s.pc = "start" => ~k.sm.live
    /\ s.pc \in {"save", "enter"} /\ k.sm.live => Before(k.sm, s)
    /\ s.pc \in {"run", "send", "wait"} => InRound(k, s)
    /\ s.pc = "run" /\ ~s.catchup /\ ~InStep(s) => Outrun(k, s)

\* A height is finalized in the stores st.
Final(st, h) == h = InitialHeight - 1 \/ (h \in Heights /\ st.fin[h] # Nil)

\* Finalized heights have no gap, and neither the stored place of the state
\* machine nor the one it is in is past the first height without one.
NoGap(st, s) ==
    /\ \A h \in Heights : st.fin[h] # Nil => Final(st, h - 1)
    /\ st.hr[1] # 0 => Final(st, st.hr[1] - 1)
    /\ s.h # 0 => Final(st, s.h - 1)
    /\ s.finalized => Final(st, s.h)

Stores == [hr : Nat \X Nat, fin : [Heights -> Hashes],
           acts : [HR -> [ph : Proposal \cup {NoProposal},
                          prevote : Hashes \cup {NoVote},
                          precommit : Hashes \cup {NoVote}]]]

MirrorInv == TypeOK /\ Placed
InOrder   == sm \in Life /\ Ordered(sm)
Linked    == kernel.up => Link(kernel, sm)
Finished  == store \in Stores /\ NoGap(store, sm)

EngineInv == MirrorInv /\ InOrder /\ Linked /\ Finished

\* What the mirror does does not break the agreement.
LEMMA OnwardLink ==
    ASSUME NEW k \in Kernel, NEW x \in Kernel, NEW s \in Life, Link(k, s), Onward(k, x)
    PROVE  Link(x, s)
  <1>0. s.h \in Nat /\ s.r \in Nat
    BY DEF Life
  <1>1. NotAfter(x.sm.out, x.sm)
    BY KernelPlaces DEF Link, Onward, At, NotAfter
  <1>2. /\ ~x.sm.live => x.sm.h = 0 /\ x.sm.r = 0
        /\ s.pc = "start" => ~x.sm.live
        /\ s.pc \in {"save", "enter"} /\ x.sm.live => Before(x.sm, s)
    BY DEF Link, Onward, At, Before
  <1>3. s.pc \in {"run", "send", "wait"} => InRound(x, s)
    BY DEF Link, Onward, At, InRound
  <1>4. ASSUME s.pc = "run", Outrun(k, s) PROVE Outrun(x, s)
    <2>1. Before(s, x.committing)
      BY <1>0, <1>4, KernelPlaces DEF Outrun, Onward, Before, NotAfter
    <2>2. ~NotAfter(k.committing, k.sm)
      BY <1>0, <1>4, KernelPlaces DEF Outrun, Link, InRound, At, Before, NotAfter
    <2>3. x.sm.out = k.sm.out
      BY <2>2 DEF Onward
    <2> QED BY <1>4, <2>1, <2>3 DEF Outrun
  <1> QED BY <1>1, <1>2, <1>3, <1>4 DEF Link

\* The state machine moves on from a round that the mirror knows it is in.
LEMMA MovedLink ==
    ASSUME NEW k \in Kernel, NEW s \in Life, NEW y, Moved(s, y),
           NotAfter(k.sm.out, k.sm), InRound(k, s),
           y.pc = "run" /\ ~y.catchup /\ ~InStep(y) => Outrun(k, s)
    PROVE  Link(k, y)
  <1>0. s.h \in Nat /\ s.r \in Nat
    BY DEF Life
  <1>1. y.pc = "save" => Before(k.sm, y)
    BY <1>0, KernelPlaces DEF Moved, InRound, At, Before
  <1>2. y.pc # "save" => y.h = s.h /\ y.r = s.r
    BY DEF Moved
  <1>3. y.pc \in {"run", "send", "quit", "panic", "save"}
    BY DEF Moved
  <1>4. y.pc \in {"run", "send", "wait"} => InRound(k, y)
    BY <1>2 DEF InRound, At
  <1>5. y.pc = "run" /\ ~y.catchup /\ ~InStep(y) => Outrun(k, y)
    BY <1>2 DEF Outrun, Before
  <1>6. k.sm.live
    BY DEF InRound
  <1> QED BY <1>1, <1>3, <1>4, <1>5, <1>6 DEF Link

\* So does one that takes a step of its main loop.
LEMMA SteppedLink ==
    ASSUME NEW k \in Kernel, NEW s \in Life, NEW y, Stepped(s, y), Link(k, s), s.pc = "run"
    PROVE  Link(k, y)
  BY MovedLink DEF Link, Stepped

\* The state machine that stays where it is.
LEMMA SameLink ==
    ASSUME NEW k, NEW s, NEW y, Link(k, s), y.pc = s.pc, y.h = s.h, y.r = s.r,
           y.catchup = s.catchup, InStep(s) => InStep(y)
    PROVE  Link(k, y)
  BY DEF Link, InRound, At, Before, Outrun

\* A state machine whose goroutine has ended.
LEMMA EndedLink ==
    ASSUME NEW k, NEW s, NEW y, Link(k, s), y.pc \in {"quit", "panic"}
    PROVE  Link(k, y)
  BY DEF Link

\* A state machine that moves on leaves no height without a finalization.
LEMMA MovedNoGap ==
    ASSUME NEW st, NEW s \in Life, NEW y, Moved(s, y), NoGap(st, s) PROVE NoGap(st, y)
  <1>0. s.h \in Nat
    BY DEF Life
  <1>1. CASE y.h = s.h /\ (y.finalized <=> s.finalized)
    BY <1>1 DEF NoGap
  <1>2. CASE y.h = s.h + 1 /\ s.finalized /\ ~y.finalized
    <2>1. y.h - 1 = s.h
      BY <1>0, <1>2
    <2> QED BY <1>2, <2>1 DEF NoGap
  <1> QED BY <1>1, <1>2 DEF Moved

\* Nor does one that stays where it is.
LEMMA SameNoGap ==
    ASSUME NEW st, NEW s, NEW y, y.h = s.h, y.finalized = s.finalized, NoGap(st, s)
    PROVE  NoGap(st, y)
  BY DEF NoGap

\* A place of the state machine is one of the engine's heights and rounds.
LEMMA RoundPlace ==
    ASSUME NEW x, x \in SMRounds
    PROVE  x \in HR /\ x[1] \in Heights /\ x[1] \in Nat \ {0} /\ x[2] \in Nat
  <1>1. x \in HR
    BY InputAssumption
  <1>2. x[1] \in Heights /\ x[2] \in Rounds
    BY <1>1 DEF HR
  <1> QED BY <1>1, <1>2, BoundsAssumption DEF Heights, Rounds

-----------------------------------------------------------------------------
(* Steps of the state machine alone. *)

\* A step that leaves the mirror alone keeps the invariant if its results are
\* in order.
LEMMA AloneInv ==
    ASSUME EngineInv, NEW s \in Life, NEW st \in Stores, Ordered(s), NoGap(st, s),
           kernel.up => Link(kernel, s),
           UNCHANGED mirrorVars, sm' = s, store' = st
    PROVE  EngineInv'
  <1>1. MirrorInv'
    BY DEF EngineInv, MirrorInv, mirrorVars, TypeOK, Placed
  <1>2. InOrder'
    BY DEF InOrder
  <1>3. Linked'
    BY DEF Linked, mirrorVars
  <1>4. Finished'
    BY DEF Finished
  <1> QED BY <1>1, <1>2, <1>3, <1>4 DEF EngineInv

\* The same for a step that writes no store.
LEMMA SMOnlyInv ==
    ASSUME EngineInv, NEW s \in Life, Ordered(s), NoGap(store, s),
           kernel.up => Link(kernel, s), SMOnly(s)
    PROVE  EngineInv'
  <1>1. UNCHANGED mirrorVars /\ sm' = s /\ store' = store
    BY DEF SMOnly, mirrorVars
  <1> QED BY <1>1, AloneInv DEF EngineInv, Finished

\* What the invariant says of a live process.
LEMMA AliveFacts ==
    ASSUME EngineInv, Alive
    PROVE  /\ kernel \in Kernel /\ Sound(kernel) /\ sm \in Life /\ Ordered(sm)
           /\ Link(kernel, sm) /\ store \in Stores /\ NoGap(store, sm) /\ kernel.up
           /\ TypeOK /\ Placed
  BY DEF EngineInv, MirrorInv, InOrder, Linked, Finished, TypeOK, Placed, Alive

\* A goroutine that ends or panics leaves everything in order.
LEMMA EndedInv ==
    ASSUME EngineInv, Alive, NEW s \in {SMPanic(sm), Quit(sm)}
    PROVE  s \in Life /\ Ordered(s) /\ NoGap(store, s) /\ Link(kernel, s)
  <1>1. sm \in Life /\ Ordered(sm) /\ Link(kernel, sm) /\ NoGap(store, sm)
    BY AliveFacts
  <1>2. Settled(sm, s)
    BY <1>1, SMPanicSettled DEF Ordered
  <1>3. s.pc \in {"quit", "panic"}
    BY <1>1 DEF SMPanic, Quit, Life
  <1> QED BY <1>1, <1>2, <1>3, EndedLink, MovedNoGap DEF Settled, Moved

\* A step of the main loop that writes no store.
LEMMA SteppedInv ==
    ASSUME EngineInv, Alive, sm.pc = "run", NEW s, Stepped(sm, s), SMOnly(s)
    PROVE  EngineInv'
  <1>1. /\ kernel \in Kernel /\ sm \in Life /\ Link(kernel, sm) /\ NoGap(store, sm)
    BY AliveFacts
  <1>2. s \in Life /\ Ordered(s) /\ Moved(sm, s)
    BY DEF Stepped, Moved
  <1>3. NoGap(store, s) /\ Link(kernel, s)
    BY <1>1, <1>2, MovedNoGap, SteppedLink
  <1> QED BY <1>2, <1>3, SMOnlyInv

\* The finalizations that the model's definition and the invariant speak of
\* are the same.
LEMMA FinalIsStored == ASSUME NEW h PROVE HasFinalization(h) <=> Final(store, h)
  BY DEF HasFinalization, Final

\* The place at which the state machine starts is at the first height that is
\* not finalized, or before it.
LEMMA StartPlaceFinal ==
    ASSUME EngineInv, Alive, NEW x, x = StartPlace
    PROVE  /\ x[1] \in Nat \ {0} /\ x[2] \in Nat
           /\ Final(store, x[1] - 1)
  <1>1. store \in Stores /\ NoGap(store, sm) /\ sm.genesis \in BOOLEAN
    BY AliveFacts DEF Life
  <1> DEFINE y == IF store.hr[1] = 0 THEN <<GenesisHeight, 0>> ELSE store.hr
  <1>2. store.hr[1] \in Nat /\ store.hr[2] \in Nat
    BY <1>1 DEF Stores
  <1>3. GenesisHeight \in {0, 1}
    BY EngineAssumption DEF GenesisHeight
  <1>4. y[1] \in Nat /\ y[2] \in Nat
    BY <1>2, <1>3
  <1>5. y[1] # 0 => Final(store, y[1] - 1)
    <2>1. CASE store.hr[1] = 0
      <3>1. y[1] = GenesisHeight
        BY <2>1
      <3>2. Final(store, 1 - 1)
        BY EngineAssumption DEF Final
      <3> QED BY <1>3, <3>1, <3>2
    <2>2. CASE store.hr[1] # 0
      BY <1>1, <2>2 DEF NoGap
    <2> QED BY <2>1, <2>2
  <1>6. x = IF HasFinalization(y[1]) THEN <<y[1] + 1, 0>> ELSE y
    BY DEF StartPlace
  <1>7. Final(store, 0)
    BY EngineAssumption DEF Final
  <1> HIDE DEF y
  <1>8. CASE HasFinalization(y[1])
    <2>1. x[1] = y[1] + 1 /\ x[2] = 0
      BY <1>6, <1>8
    <2>2. x[1] - 1 = y[1]
      BY <1>4, <2>1
    <2>3. Final(store, x[1] - 1)
      BY <1>8, <2>2, FinalIsStored
    <2> QED BY <1>4, <2>1, <2>3
  <1>9. CASE ~HasFinalization(y[1])
    <2>1. x = y /\ y[1] # 0
      BY <1>6, <1>7, <1>9, FinalIsStored
    <2> QED BY <1>4, <1>5, <2>1
  <1> QED BY <1>8, <1>9

\* The state machine of a new process enters its first round.
LEMMA StartedInv ==
    ASSUME EngineInv, Alive, sm.pc = "start", NEW h \in Nat \ {0}, NEW r \in Nat,
           NEW k, k = h - 1, Final(store, k),
           NEW s, s = Started(sm, h, r), SMOnly(s)
    PROVE  EngineInv'
  <1>1. sm \in Life /\ Ordered(sm) /\ Link(kernel, sm) /\ NoGap(store, sm)
    BY AliveFacts
  <1>2. s \in Life /\ Ordered(s) /\ s.pc = "enter" /\ s.h = h /\ s.r = r /\ ~s.finalized
    BY <1>1, StartStays
  <1>3. Link(kernel, s)
    BY <1>1, <1>2 DEF Link
  <1>4. NoGap(store, s)
    BY <1>1, <1>2 DEF NoGap
  <1> QED BY <1>2, <1>3, <1>4, SMOnlyInv

\* sendInitialActionSet.
LEMMA SMStartInv == ASSUME EngineInv, SMStart PROVE EngineInv'
  <1> DEFINE x == StartPlace
             h == x[1]
             r == x[2]
             k == h - 1
             s == Started(sm, h, r)
  <1>1. Alive /\ sm.pc = "start"
    BY DEF SMStart
  <1>2. h \in Nat \ {0} /\ r \in Nat /\ Final(store, k)
    BY <1>1, StartPlaceFinal
  <1>3. SMOnly(s) \/ SMOnly(Quit(sm))
    BY DEF SMStart, Started
  <1>4. ASSUME SMOnly(s) PROVE EngineInv'
    <2>1. k = h - 1 /\ s = Started(sm, h, r)
      OBVIOUS
    <2> HIDE DEF x, h, r, k, s
    <2> QED BY <1>1, <1>2, <1>4, <2>1, StartedInv
  <1>5. ASSUME SMOnly(Quit(sm)) PROVE EngineInv'
    BY <1>1, <1>5, EndedInv, SMOnlyInv
  <1> QED BY <1>3, <1>4, <1>5

\* SetStateMachineHeightRound.
LEMMA SMSaveInv == ASSUME EngineInv, SMSave PROVE EngineInv'
  <1> DEFINE s == [sm EXCEPT !.pc = "enter"]
             n == <<sm.h, sm.r>>
             st == [store EXCEPT !.hr = n]
  <1>0. Alive /\ sm.pc = "save" /\ sm' = s /\ store' = st /\ UNCHANGED mirrorVars
    BY DEF SMSave
  <1>1. /\ sm \in Life /\ Ordered(sm) /\ Link(kernel, sm) /\ NoGap(store, sm)
        /\ store \in Stores
    BY <1>0, AliveFacts
  <1>2. Stays(sm, s, "enter")
    BY <1>0, <1>1, SaveStays
  <1>3. n \in Nat \X Nat /\ n[1] = sm.h
    BY <1>1 DEF Life
  <1> HIDE DEF s, n
  <1>4. st \in Stores /\ st.fin = store.fin /\ st.hr = n
    BY <1>1, <1>3 DEF Stores
  <1> HIDE DEF st
  <1>5. NoGap(st, s)
    BY <1>1, <1>2, <1>3, <1>4 DEF NoGap, Final, Stays
  <1>6. Link(kernel, s)
    BY <1>0, <1>1, <1>2 DEF Link, Stays, Before
  <1> QED BY <1>0, <1>2, <1>4, <1>5, <1>6, AloneInv DEF Stays

\* The consensus manager takes a request.
LEMMA CMTakeRequestInv == ASSUME EngineInv, CMTakeRequest PROVE EngineInv'
  <1> DEFINE s == TakeRequest(sm)
  <1>0. Alive /\ sm.pc = "send" /\ SMOnly(s)
    BY DEF CMTakeRequest
  <1>1. /\ sm \in Life /\ Ordered(sm) /\ Link(kernel, sm) /\ NoGap(store, sm)
        /\ kernel \in Kernel
    BY <1>0, AliveFacts
  <1>2. \/ /\ s \in Life /\ Ordered(s) /\ s.pc = "wait"
           /\ s.h = sm.h /\ s.r = sm.r /\ s.finalized = sm.finalized
        \/ Settled(sm, s)
    BY <1>0, <1>1, TakeRequestStepped
  <1>3. InRound(kernel, sm) /\ NotAfter(kernel.sm.out, kernel.sm)
    BY <1>0, <1>1 DEF Link
  <1> HIDE DEF s
  <1>4. CASE /\ s \in Life /\ Ordered(s) /\ s.pc = "wait"
             /\ s.h = sm.h /\ s.r = sm.r /\ s.finalized = sm.finalized
    <2>1. Link(kernel, s)
      BY <1>1, <1>3, <1>4 DEF Link, InRound, At
    <2>2. NoGap(store, s)
      BY <1>1, <1>4, SameNoGap
    <2> QED BY <1>0, <1>4, <2>1, <2>2, SMOnlyInv
  <1>5. CASE Settled(sm, s)
    <2>1. s \in Life /\ Ordered(s) /\ Moved(sm, s)
          /\ ~(s.pc = "run" /\ ~s.catchup /\ ~InStep(s))
      BY <1>5 DEF Settled, Moved
    <2>2. Link(kernel, s) /\ NoGap(store, s)
      BY <1>1, <1>3, <2>1, MovedLink, MovedNoGap
    <2> QED BY <1>0, <2>1, <2>2, SMOnlyInv
  <1> QED BY <1>2, <1>4, <1>5

\* A request that waits too long ends the process.
LEMMA SendTimeoutInv == ASSUME EngineInv, SendTimeout PROVE EngineInv'
  BY EndedInv, SMOnlyInv DEF SendTimeout

\* EnterRound has returned: the round begins.
LEMMA RoundBegins ==
    ASSUME EngineInv, Alive, sm.pc = "wait"
    PROVE  Settled(sm, beginRoundLive([sm EXCEPT !.cm = IdleManager]))
  <1> DEFINE t == [sm EXCEPT !.cm = IdleManager]
             s == beginRoundLive(t)
  <1>0. Alive /\ sm.pc = "wait"
    OBVIOUS
  <1>1. sm \in Life /\ Ordered(sm)
    BY <1>0, AliveFacts
  <1>2. Fresh(sm) /\ At(sm.entered, sm) /\ sm.req.op = "none" /\ Committable(sm)
        /\ NotAfter(sm.vrv, sm)
    BY <1>0, <1>1 DEF Ordered
  <1>3. /\ t.h = sm.h /\ t.r = sm.r /\ t.req = sm.req /\ t.entered = sm.entered
        /\ t.finalizing = sm.finalizing /\ t.vrv = sm.vrv /\ t.timer = sm.timer
        /\ t.prevoteCh = sm.prevoteCh /\ t.precommitCh = sm.precommitCh
        /\ t.cm = IdleManager /\ t.finalized = sm.finalized
    BY <1>1 DEF Life
  <1>4. t \in Life
    BY <1>1 DEF Life, IdleManager
  <1> HIDE DEF t
  <1>5. Working(t) /\ Fresh(t) /\ At(t.entered, t)
    BY <1>2, <1>3, <1>4
       DEF Working, Fresh, At, Committable, NotAfter, Unanswered, IdleManager
  <1>6. Settled(t, s)
    BY <1>5, beginRoundLiveSettled
  <1> HIDE DEF s
  <1>7. Settled(sm, s)
    BY <1>3, <1>6, SettledSame
  <1> QED BY <1>7 DEF s, t

\* What the round begins with is in order.
LEMMA EnterRoundReturnsInv == ASSUME EngineInv, EnterRoundReturns PROVE EngineInv'
  <1> DEFINE s == beginRoundLive([sm EXCEPT !.cm = IdleManager])
  <1>0. Alive /\ sm.pc = "wait" /\ SMOnly(s)
    BY DEF EnterRoundReturns
  <1>1. /\ sm \in Life /\ Ordered(sm) /\ Link(kernel, sm) /\ NoGap(store, sm)
        /\ kernel \in Kernel
    BY <1>0, AliveFacts
  <1>2. Settled(sm, s)
    BY <1>0, RoundBegins
  <1> HIDE DEF s
  <1>3. s \in Life /\ Ordered(s) /\ Moved(sm, s)
        /\ ~(s.pc = "run" /\ ~s.catchup /\ ~InStep(s))
    BY <1>2 DEF Settled, Moved
  <1>4. InRound(kernel, sm) /\ NotAfter(kernel.sm.out, kernel.sm)
    BY <1>0, <1>1 DEF Link
  <1>5. Link(kernel, s) /\ NoGap(store, s)
    BY <1>1, <1>3, <1>4, MovedLink, MovedNoGap
  <1> QED BY <1>0, <1>3, <1>5, SMOnlyInv

\* The strategy answers, or says that it is not ready.
LEMMA AnsweredInv ==
    ASSUME EngineInv, Alive, NEW s, Answered(sm, s), SMOnly(s) PROVE EngineInv'
  <1>1. /\ sm \in Life /\ Ordered(sm) /\ Link(kernel, sm) /\ NoGap(store, sm)
    BY AliveFacts
  <1>2. Link(kernel, s) /\ NoGap(store, s)
    BY <1>1, SameLink, SameNoGap DEF Answered
  <1> QED BY <1>2, SMOnlyInv DEF Answered

\* ErrProposedBlockChoiceNotReady.
LEMMA NotReadyInv == ASSUME EngineInv, NotReady PROVE EngineInv'
  <1>1. Alive /\ sm.cm.op \in Asked /\ SMOnly([sm EXCEPT !.cm = IdleManager])
    BY DEF NotReady, Asked
  <1>2. Answered(sm, [sm EXCEPT !.cm = IdleManager])
    BY <1>1, AliveFacts, SendResultAnswered, NilIsHash
  <1> QED BY <1>1, <1>2, AnsweredInv

\* The strategy chooses a hash.
LEMMA StrategyChoosesInv ==
    ASSUME EngineInv, NEW hash \in Hashes, StrategyChooses(hash) PROVE EngineInv'
  <1>1. Alive /\ sm.cm.op \in Asked /\ SMOnly(SendResult(sm, hash))
    BY DEF StrategyChooses, Asked
  <1>2. Answered(sm, SendResult(sm, hash))
    BY <1>1, AliveFacts, SendResultAnswered
  <1> QED BY <1>1, <1>2, AnsweredInv

\* A timer elapses, a height is committed, block data arrives.
LEMMA EventInv ==
    ASSUME EngineInv,
           TimerElapsed \/ HeightCommitted \/ (\E b \in Blocks : BlockDataArrival(b))
    PROVE  EngineInv'
  <1>1. Alive /\ sm.pc = "run" /\ ~sm.catchup
    BY DEF TimerElapsed, HeightCommitted, BlockDataArrival, Live
  <1>2. sm \in Life /\ Ordered(sm)
    BY <1>1, AliveFacts
  <1>3. ASSUME TimerElapsed PROVE EngineInv'
    <2>1. Stepped(sm, handleTimerElapsed(sm))
      BY <1>1, <1>2, <1>3, handleTimerElapsedSettled, SettledStepped DEF TimerElapsed
    <2> QED BY <1>1, <1>3, <2>1, SteppedInv DEF TimerElapsed
  <1>4. ASSUME HeightCommitted PROVE EngineInv'
    BY <1>1, <1>2, <1>4, handleHeightCommittedStepped, SteppedInv DEF HeightCommitted
  <1>5. ASSUME NEW b \in Blocks, BlockDataArrival(b) PROVE EngineInv'
    BY <1>1, <1>2, <1>5, handleBlockDataArrivalStepped, SteppedInv DEF BlockDataArrival
  <1> QED BY <1>3, <1>4, <1>5

-----------------------------------------------------------------------------
(* Actions that are recorded before they are sent. *)

\* An action that the action store refuses ends the goroutine; one that it
\* takes leaves what the handler returns.
LEMMA ActInv ==
    ASSUME EngineInv, Live, NEW field \in {"ph", "prevote", "precommit"}, NEW value,
           value \in IF field = "ph" THEN Proposal ELSE Hashes,
           NEW none, NEW s, Stepped(sm, s), Act(field, value, none, s)
    PROVE  EngineInv'
  <1> DEFINE a == [store.acts[<<sm.h, sm.r>>] EXCEPT ![field] = value]
             acts == [store.acts EXCEPT ![<<sm.h, sm.r>>] = a]
             st == [store EXCEPT !.acts = acts]
  <1>0. Alive /\ sm.pc = "run" /\ UNCHANGED mirrorVars
    BY DEF Live, Act
  <1>1. /\ kernel \in Kernel /\ sm \in Life /\ Link(kernel, sm) /\ NoGap(store, sm)
        /\ store \in Stores
    BY <1>0, AliveFacts
  <1>2. <<sm.h, sm.r>> \in HR
    BY <1>0, <1>1, RoundPlace DEF Link, InRound
  <1>3. st = [store EXCEPT !.acts[<<sm.h, sm.r>>][field] = value]
    BY <1>1, <1>2 DEF Stores
  <1>4. \/ sm' = s /\ store' = st
        \/ sm' = Quit(sm) /\ store' = store
    BY <1>3 DEF Act
  <1>5. acts \in [HR -> [ph : Proposal \cup {NoProposal}, prevote : Hashes \cup {NoVote},
                         precommit : Hashes \cup {NoVote}]]
    <2>1. store.acts[<<sm.h, sm.r>>]
            \in [ph : Proposal \cup {NoProposal}, prevote : Hashes \cup {NoVote},
                 precommit : Hashes \cup {NoVote}]
      BY <1>1, <1>2 DEF Stores
    <2>2. a \in [ph : Proposal \cup {NoProposal}, prevote : Hashes \cup {NoVote},
                 precommit : Hashes \cup {NoVote}]
      BY <2>1
    <2> HIDE DEF a
    <2> QED BY <1>1, <2>2 DEF Stores
  <1> HIDE DEF acts
  <1>6. st \in Stores /\ st.fin = store.fin /\ st.hr = store.hr
    BY <1>1, <1>5 DEF Stores
  <1> HIDE DEF st
  <1>7. CASE sm' = s /\ store' = st
    <2>1. s \in Life /\ Ordered(s) /\ Moved(sm, s)
      BY DEF Stepped, Moved
    <2>2. NoGap(store, s) /\ Link(kernel, s)
      BY <1>0, <1>1, <2>1, MovedNoGap, SteppedLink
    <2>3. NoGap(st, s)
      BY <1>6, <2>2 DEF NoGap, Final
    <2> QED BY <1>0, <1>6, <1>7, <2>1, <2>2, <2>3, AloneInv
  <1>8. CASE sm' = Quit(sm) /\ store' = store
    <2> DEFINE y == Quit(sm)
    <2>1. y \in Life /\ Ordered(y) /\ NoGap(store, y) /\ Link(kernel, y)
      BY <1>0, EndedInv
    <2>2. sm' = y
      BY <1>8
    <2> HIDE DEF y
    <2> QED BY <1>0, <1>1, <1>8, <2>1, <2>2, AloneInv
  <1> QED BY <1>4, <1>7, <1>8

\* recordProposedHeader.
LEMMA ProposeInv ==
    ASSUME EngineInv, NEW p \in Proposals, Propose(p) PROVE EngineInv'
  <1>1. /\ Live /\ Alive /\ sm.pc = "run"
        /\ Act("ph", p, NoProposal, recordProposedHeader(sm, p))
    BY DEF Propose, Live
  <1>2. p \in Proposal
    BY InputAssumption
  <1>3. Stepped(sm, recordProposedHeader(sm, p))
    BY <1>1, <1>2, AliveFacts, recordProposedHeaderStepped
  <1> QED BY <1>1, <1>2, <1>3, ActInv

\* recordPrevote.
LEMMA PrevoteInv == ASSUME EngineInv, Prevote PROVE EngineInv'
  <1>1. /\ Live /\ Alive /\ sm.pc = "run" /\ ~sm.catchup /\ sm.prevoteCh \in Hashes
        /\ Act("prevote", sm.prevoteCh, NoVote, recordPrevote(sm))
    BY DEF Prevote, Live
  <1>2. Stepped(sm, recordPrevote(sm))
    BY <1>1, AliveFacts, recordPrevoteSettled, SettledStepped
  <1> QED BY <1>1, <1>2, ActInv

\* recordPrecommit.
LEMMA PrecommitInv == ASSUME EngineInv, Precommit PROVE EngineInv'
  <1>1. /\ Live /\ Alive /\ sm.pc = "run" /\ ~sm.catchup /\ sm.precommitCh \in Hashes
        /\ Act("precommit", sm.precommitCh, NoVote, recordPrecommit(sm))
    BY DEF Precommit, Live
  <1>2. Stepped(sm, recordPrecommit(sm))
    BY <1>1, AliveFacts, recordPrecommitSettled, SettledStepped
  <1> QED BY <1>1, <1>2, ActInv

\* A finalization is stored and then handled, while catching up too.
LEMMA FinalizationInv == ASSUME EngineInv, Finalization PROVE EngineInv'
  <1> DEFINE f == sm.finalizing
             s1 == IF sm.catchup THEN [sm EXCEPT !.step = "awaitingFinalization"] ELSE sm
             t == [s1 EXCEPT !.finalized = TRUE]
             y == handleFinalization(s1)
             fin == [store.fin EXCEPT ![sm.h] = f.hash]
             st == [store EXCEPT !.fin = fin]
  <1>0. Alive /\ sm.pc = "run" /\ f.h # 0 /\ UNCHANGED mirrorVars
    BY DEF Finalization
  <1>1. /\ kernel \in Kernel /\ sm \in Life /\ Ordered(sm) /\ Link(kernel, sm)
        /\ NoGap(store, sm) /\ store \in Stores
    BY <1>0, AliveFacts
  <1>2. \/ sm' = SMPanic(sm) /\ store' = store
        \/ sm' = Quit(sm) /\ store' = store
        \/ f.h = sm.h /\ sm' = y /\ store' = st
    BY <1>1 DEF Finalization, Stores
  <1>3. ASSUME NEW s \in {SMPanic(sm), Quit(sm)}, sm' = s, store' = store PROVE EngineInv'
    BY <1>0, <1>1, <1>3, EndedInv, AloneInv
  <1>4. ASSUME f.h = sm.h, sm' = y, store' = st PROVE EngineInv'
    <2>1. sm.h \in Heights /\ sm.h \in Nat
      BY <1>0, <1>1, RoundPlace DEF Link, InRound
    <2>2. f.hash \in Hashes /\ f.hash # Nil
      BY <1>0, <1>1 DEF Ordered, Committable, Life
    <2>3. Working(sm) /\ (sm.catchup \/ InStep(sm) \/ Replaying(sm))
      BY <1>0, <1>1, RunWorking DEF Ordered
    <2>4. /\ s1 \in Life /\ s1.pc = "run" /\ s1.h = sm.h /\ s1.r = sm.r
          /\ s1.catchup = sm.catchup /\ s1.req = sm.req /\ s1.vrv = sm.vrv
          /\ s1.finalizing = sm.finalizing
          /\ s1.step = "awaitingFinalization" \/ s1 = sm
          /\ ~sm.catchup => s1 = sm
      BY <1>0, <1>1 DEF Life, Steps
    <2>4a. sm.catchup => s1.step = "awaitingFinalization"
      BY <1>1 DEF Life
    <2> HIDE DEF s1
    <2>5. Working(s1)
      BY <2>3, <2>4 DEF Working, Committable, NotAfter
    <2>6. s1.step = "awaitingFinalization" \/ InStep(s1) \/ Replaying(s1)
      BY <2>3, <2>4, <2>4a
    <2>7. Stepped(t, y)
      BY <2>4, <2>5, <2>6, handleFinalizationStepped
    <2>8. t \in Life
      BY <2>4 DEF Life
    <2>9. /\ t.pc = s1.pc /\ t.h = s1.h /\ t.r = s1.r /\ t.catchup = s1.catchup
          /\ t.finalized /\ t.step = s1.step /\ t.timer = s1.timer
          /\ t.prevoteCh = s1.prevoteCh /\ t.precommitCh = s1.precommitCh
          /\ t.cm = s1.cm /\ t.req = s1.req
      BY <2>4 DEF Life
    <2> HIDE DEF t, y
    <2>10. ~sm.catchup /\ InStep(sm) => InStep(t)
      BY <2>4, <2>9 DEF InStep, Unanswered
    <2>11. Link(kernel, t)
      BY <1>0, <1>1, <2>4, <2>9, <2>10 DEF Link, InRound, At, Outrun, Before
    <2>12. y \in Life /\ Ordered(y) /\ Moved(t, y) /\ Link(kernel, y)
      BY <1>1, <2>4, <2>7, <2>8, <2>9, <2>11, SteppedLink DEF Stepped, Moved
    <2>13. fin \in [Heights -> Hashes] /\ fin[sm.h] # Nil
           /\ \A h \in Heights : h # sm.h => fin[h] = store.fin[h]
      BY <1>1, <2>1, <2>2 DEF Stores
    <2> HIDE DEF fin
    <2>14. st \in Stores /\ st.fin = fin /\ st.hr = store.hr
      BY <1>1, <2>13 DEF Stores
    <2> HIDE DEF st
    <2>15. ASSUME NEW h, Final(store, h) PROVE Final(st, h)
      BY <2>13, <2>14, <2>15 DEF Final
    <2>16. Final(st, sm.h) /\ Final(st, sm.h - 1)
      <3>1. sm.h # 0
        BY <1>0, <1>4
      <3>2. Final(store, sm.h - 1)
        BY <1>1, <3>1 DEF NoGap
      <3>3. Final(st, sm.h)
        BY <2>1, <2>13, <2>14 DEF Final
      <3> QED BY <2>15, <3>2, <3>3
    <2>17. NoGap(st, t)
      <3>1. ASSUME NEW h \in Heights, st.fin[h] # Nil PROVE Final(st, h - 1)
        BY <1>1, <2>13, <2>14, <2>15, <2>16, <3>1 DEF NoGap
      <3>2. st.hr[1] # 0 => Final(st, st.hr[1] - 1)
        BY <1>1, <2>14, <2>15 DEF NoGap
      <3> QED BY <2>4, <2>9, <2>16, <3>1, <3>2 DEF NoGap
    <2>18. NoGap(st, y)
      BY <2>8, <2>12, <2>17, MovedNoGap
    <2> QED BY <1>0, <1>4, <2>12, <2>14, <2>18, AloneInv
  <1> QED BY <1>2, <1>3, <1>4

-----------------------------------------------------------------------------
(* Steps in which the mirror takes part. *)

\* What is known of the finalizations holds of a state machine that has not
\* begun, or died.
LEMMA ZeroNoGap ==
    ASSUME NEW st, NEW s, NEW y, NoGap(st, s), y.h = 0, ~y.finalized
    PROVE  NoGap(st, y)
  BY DEF NoGap

\* A step of the mirror keeps the invariant if the state machine is in order
\* and agrees with the mirror when the process has survived it.
LEMMA SurvivesInv ==
    ASSUME EngineInv, TypeOK', Placed', NEW s,
           kernel'.up => s \in Life /\ Ordered(s) /\ NoGap(store, s) /\ Link(kernel', s),
           Survives(s), store' = store
    PROVE  EngineInv'
  <1>1. store \in Stores /\ NoGap(store, sm)
    BY DEF EngineInv, Finished
  <1>2. MirrorInv'
    BY DEF MirrorInv
  <1>3. CASE kernel'.up
    <2>1. sm' = s
      BY <1>3 DEF Survives
    <2> QED BY <1>1, <1>2, <1>3, <2>1 DEF EngineInv, InOrder, Linked, Finished
  <1>4. CASE ~kernel'.up
    <2>1. sm' = Down
      BY <1>4 DEF Survives
    <2>2. Down \in Life /\ Ordered(Down) /\ Down.h = 0 /\ ~Down.finalized
      BY NewStateMachineOrdered
    <2>3. NoGap(store, Down)
      BY <1>1, <2>2, ZeroNoGap
    <2>4. InOrder' /\ Linked' /\ Finished'
      BY <1>1, <1>4, <2>1, <2>2, <2>3 DEF InOrder, Linked, Finished
    <2> QED BY <1>2, <2>4 DEF EngineInv
  <1> QED BY <1>3, <1>4

\* The mirror's own steps.
LEMMA MirrorAloneInv == ASSUME EngineInv, MirrorAlone PROVE EngineInv'
  <1> DEFINE Own == \/ \E c \in Handlers : HandlerNext(c)
                    \/ AddQueuedPH
                    \/ \E p \in Proposals : AddFetchedPH(p)
                    \/ \E c \in ReplayedHeaders, room \in FetchRooms : Replay(c, room)
                    \/ SendToGossip
                    \/ SendLagState
  <1>1. Alive /\ Own /\ Survives(sm) /\ store' = store
    BY DEF MirrorAlone
  <1>2. Own => Next
    BY DEF Next
  <1>3. kernel'.up /\ Own /\ TypeOK /\ Placed /\ kernel.up => Onward(kernel, kernel')
    BY MirrorOnward
  <1> HIDE DEF Own
  <1>4. /\ TypeOK /\ Placed /\ kernel \in Kernel /\ kernel.up
        /\ sm \in Life /\ Ordered(sm) /\ Link(kernel, sm) /\ NoGap(store, sm)
    BY <1>1, AliveFacts
  <1>5. TypeOK' /\ Placed'
    BY <1>1, <1>2, <1>4, NextType, NextPlaced
  <1>6. kernel'.up => Link(kernel', sm)
    BY <1>1, <1>3, <1>4, <1>5, OnwardLink DEF TypeOK
  <1> QED BY <1>1, <1>4, <1>5, <1>6, SurvivesInv

\* A crash of the process.
LEMMA EngineCrashInv == ASSUME EngineInv, EngineCrash PROVE EngineInv'
  <1>1. Next /\ TypeOK /\ Placed
    BY DEF EngineCrash, Next, EngineInv, MirrorInv
  <1>2. TypeOK' /\ Placed'
    BY <1>1, NextType, NextPlaced
  <1>3. ~kernel'.up
    BY DEF EngineCrash, Crash, Dies, BlankKernel
  <1>4. Survives(sm) /\ store' = store
    BY <1>3 DEF EngineCrash, Survives
  <1> QED BY <1>2, <1>3, <1>4, SurvivesInv

\* A restart: the new kernel has not heard of a state machine yet.
LEMMA EngineRestartInv == ASSUME EngineInv, EngineRestart PROVE EngineInv'
  <1> DEFINE s == NewStateMachine(FALSE)
             d == kernel.disk
  <1>1. Next /\ TypeOK /\ Placed /\ Restart /\ sm' = s /\ store' = store
    BY DEF EngineRestart, Next, EngineInv, MirrorInv
  <1>2. TypeOK' /\ Placed'
    BY <1>1, NextType, NextPlaced
  <1>3. s \in Life /\ Ordered(s) /\ s.h = 0 /\ ~s.finalized /\ s.pc = "start"
    <2>1. s.pc = "start"
      BY DEF NewStateMachine
    <2> HIDE DEF s
    <2>2. s = NewStateMachine(FALSE)
      BY DEF s
    <2> QED BY <2>1, <2>2, NewStateMachineOrdered
  <1>4. d \in Disk /\ Complete(d) /\ StartHashes(d) \subseteq Hashes
    BY <1>1, KernelDisk, NilIsHash DEF TypeOK, Placed, StartHashes, CommittingHashes
  <1>5. HasCommitting(d) => <<d.nhr.ch, d.nhr.cr>> \in HR
    BY <1>1, <1>4, LoadableRound DEF Restart
  <1>6. \E hash \in Hashes : kernel' = NewKernel(d, hash)
    BY <1>1, <1>4 DEF Restart
  <1>7. ~kernel'.sm.live /\ kernel'.sm.h = 0 /\ kernel'.sm.r = 0
          /\ NotAfter(kernel'.sm.out, kernel'.sm)
    BY <1>4, <1>5, <1>6, NewKernelNoSM
  <1> HIDE DEF s, d
  <1>8. Link(kernel', s)
    BY <1>3, <1>7 DEF Link
  <1>9. store \in Stores /\ NoGap(store, s)
    BY <1>3, ZeroNoGap DEF EngineInv, Finished
  <1>10. InOrder' /\ Linked' /\ Finished' /\ MirrorInv'
    BY <1>1, <1>2, <1>3, <1>8, <1>9 DEF InOrder, Linked, Finished, MirrorInv
  <1> QED BY <1>10 DEF EngineInv

\* What the state machine sends to the mirror is a proposal or a vote.
LEMMA ActionFields ==
    ASSUME NEW a \in Action
    PROVE  /\ a.kind = "ph" => a.ph \in Proposal
           /\ a.kind # "ph" => a.kind \in Kinds /\ a.hash \in Hashes
  <1>1. "ph" \notin Kinds
    BY DEF Kinds
  <1> QED BY <1>1 DEF Action

\* The mirror takes an action of the state machine.
LEMMA MirrorTakesActionInv ==
    ASSUME EngineInv, NEW room \in FetchRooms, MirrorTakesAction(room) PROVE EngineInv'
  <1> DEFINE a == Head(sm.acts)
             k == WithRoom(kernel, room)
             w == IF a.kind = "ph" THEN addProposedHeader(kernel, a.ph)
                  ELSE handleStateMachineVote(k, a.kind, a.hash, OwnKey)
             s == [sm EXCEPT !.acts = Tail(@)]
  <1>1. /\ Alive /\ sm.acts # <<>> /\ KernelStep(w, hs, phQueue) /\ Survives(s)
        /\ store' = store
    BY DEF MirrorTakesAction
  <1>2. /\ TypeOK /\ Placed /\ kernel \in Kernel /\ Sound(kernel) /\ kernel.up
        /\ sm \in Life /\ Ordered(sm) /\ Link(kernel, sm) /\ NoGap(store, sm)
    BY <1>1, AliveFacts
  <1>3. sm.acts \in Seq(Action)
    BY <1>2 DEF Life
  <1>4. a \in Action /\ Tail(sm.acts) \in Seq(Action)
    BY <1>1, <1>3
  <1>5. SameLife(sm, s)
    BY <1>2, <1>4 DEF SameLife, Life
  <1>6. sm.pc # "start"
    BY <1>1, <1>2 DEF Ordered, NewStateMachine
  <1> HIDE DEF a, s
  <1>7. s \in Life /\ Ordered(s) /\ Link(kernel, s) /\ NoGap(store, s)
    <2>1. Ordered(s) /\ (InStep(sm) <=> InStep(s))
      BY <1>2, <1>5, <1>6, SameLifeOrdered
    <2>2. /\ s \in Life /\ s.pc = sm.pc /\ s.h = sm.h /\ s.r = sm.r
          /\ s.catchup = sm.catchup /\ s.finalized = sm.finalized
      BY <1>5 DEF SameLife
    <2> QED BY <1>2, <2>1, <2>2, SameLink, SameNoGap
  <1>8. k \in Kernel /\ Sound(k) /\ Onward(kernel, k)
    BY <1>2, WithRoomType, WithRoomSound, QuietOnward
  <1> HIDE DEF k
  <1>9. w \in Kernel /\ Sound(w) /\ Onward(kernel, w)
    <2>1. CASE a.kind = "ph"
      <3>1. a.ph \in Proposal
        BY <1>4, <2>1, ActionFields
      <3>2. w = addProposedHeader(kernel, a.ph)
        BY <2>1
      <3> QED BY <1>2, <3>1, <3>2, addProposedHeaderType, addProposedHeaderSound,
                 addProposedHeaderOnward
    <2>2. CASE a.kind # "ph"
      <3> DEFINE y == handleStateMachineVote(k, a.kind, a.hash, OwnKey)
      <3>1. a.kind \in Kinds /\ a.hash \in Hashes /\ OwnKey \in Val
        BY <1>4, <2>2, ActionFields, InputAssumption
      <3>2. w = y
        BY <2>2
      <3>3. y \in Kernel /\ Sound(y) /\ Onward(k, y)
        BY <1>8, <3>1, handleStateMachineVoteType, handleStateMachineVoteSound,
           handleStateMachineVoteOnward
      <3> HIDE DEF y
      <3>4. Onward(kernel, y)
        BY <1>2, <1>8, <3>3, OnwardBoth
      <3> QED BY <3>2, <3>3, <3>4
    <2> QED BY <2>1, <2>2
  <1> HIDE DEF w
  <1>10. TypeOK' /\ Placed'
    BY <1>1, <1>2, <1>9, KernelStepType, KernelStepPlaced DEF TypeOK
  <1>11. kernel'.up => Link(kernel', s)
    BY <1>1, <1>2, <1>7, <1>9, <1>10, KernelStepOnward, OnwardLink DEF TypeOK
  <1> QED BY <1>1, <1>7, <1>10, <1>11, SurvivesInv

\* What the mirror puts out for the state machine: a view of its round, or none.
LEMMA OutputViews ==
    ASSUME NEW k \in Kernel, NEW o, o = StateMachineOutput(k.sm)
    PROVE  /\ o.vrv \in View /\ o.jump \in View
           /\ o.vrv = ZeroView \/ (o.vrv = k.sm.out /\ At(k.sm.out, k.sm))
  <1>1. k.sm.out \in View /\ k.sm.jump \in View
    BY DEF Kernel
  <1> QED BY <1>1, ZeroViewType DEF StateMachineOutput, At

\* A view update: if the round is one of a committed header, there is no view.
LEMMA ViewUpdateMoves ==
    ASSUME EngineInv, Live, NEW o, o = StateMachineOutput(kernel.sm),
           NEW x, x = handleViewUpdate(sm, Seen(o.vrv), Seen(o.jump))
    PROVE  /\ InStep(sm) \/ Seen(o.vrv).h = 0
           /\ x = sm \/ Settled(sm, x)
  <1> DEFINE v == Seen(o.vrv)
             j == Seen(o.jump)
  <1>2. Alive /\ sm.pc = "run" /\ ~sm.catchup
    BY DEF Live
  <1>3. /\ TypeOK /\ Placed /\ kernel \in Kernel /\ kernel.up
        /\ sm \in Life /\ Ordered(sm) /\ Link(kernel, sm) /\ NoGap(store, sm)
        /\ store \in Stores
    BY <1>2, AliveFacts
  <1>4. o.vrv \in View /\ o.jump \in View
          /\ (o.vrv = ZeroView \/ (o.vrv = kernel.sm.out /\ At(kernel.sm.out, kernel.sm)))
    BY <1>3, OutputViews
  <1>5. v \in SeenView /\ j \in SeenView /\ v.h = o.vrv.h /\ v.r = o.vrv.r
    BY <1>4, SeenType
  <1>6. Working(sm)
    BY <1>2, <1>3, RunWorking
  <1>7. InRound(kernel, sm) /\ NotAfter(kernel.sm.out, kernel.sm)
    BY <1>2, <1>3 DEF Link
  <1>8. x = handleViewUpdate(sm, v, j)
    OBVIOUS
  <1> HIDE DEF v, j
  <1>9. InStep(sm) => Settled(sm, x)
    BY <1>2, <1>5, <1>6, <1>8, handleViewUpdateSettled
  <1>10. ASSUME ~InStep(sm) PROVE v.h = 0 /\ (x = sm \/ Settled(sm, x))
    <2>1. Before(kernel.sm.out, sm)
      BY <1>2, <1>3, <1>10 DEF Link, Outrun
    <2>2. ~At(kernel.sm.out, kernel.sm)
      <3>1. sm.h \in Nat /\ sm.r \in Nat
        BY <1>3 DEF Life
      <3> QED BY <1>3, <1>7, <2>1, <3>1, KernelPlaces DEF Before, At, InRound
    <2>3. v.h = 0
      BY <1>4, <1>5, <2>2 DEF ZeroView
    <2> QED BY <1>5, <1>6, <1>8, <2>3, handleViewUpdateElsewhere
  <1> QED BY <1>9, <1>10 DEF v

\* What a view update leaves is in order.
LEMMA ViewUpdateInv == ASSUME EngineInv, ViewUpdate PROVE EngineInv'
  <1> DEFINE o == StateMachineOutput(kernel.sm)
             x == handleViewUpdate(sm, Seen(o.vrv), Seen(o.jump))
  <1>1. Live /\ SendToStateMachine /\ sm' = x /\ store' = store
    BY DEF ViewUpdate
  <1>2. Alive /\ sm.pc = "run"
    BY <1>1 DEF Live
  <1>3. /\ TypeOK /\ Placed /\ kernel \in Kernel /\ kernel.up
        /\ sm \in Life /\ Ordered(sm) /\ Link(kernel, sm) /\ NoGap(store, sm)
        /\ store \in Stores
    BY <1>2, AliveFacts
  <1>4. InRound(kernel, sm) /\ NotAfter(kernel.sm.out, kernel.sm)
    BY <1>2, <1>3 DEF Link
  <1>5. Next /\ kernel'.up
    <2>1. kernel'.up
      BY <1>1, <1>3 DEF SendToStateMachine, Kernel
    <2> QED BY <1>1, <2>1 DEF Next, StateMachineNext
  <1>6. TypeOK' /\ Placed' /\ Onward(kernel, kernel')
    BY <1>1, <1>3, <1>5, NextType, NextPlaced, MirrorOnward
  <1>7. x = sm \/ Settled(sm, x)
    BY <1>1, ViewUpdateMoves
  <1> HIDE DEF o, x
  <1>8. ASSUME Settled(sm, x)
        PROVE  x \in Life /\ Ordered(x) /\ NoGap(store, x) /\ Link(kernel, x)
    <2>1. x \in Life /\ Ordered(x) /\ Moved(sm, x)
          /\ ~(x.pc = "run" /\ ~x.catchup /\ ~InStep(x))
      BY <1>8 DEF Settled, Moved
    <2> QED BY <1>3, <1>4, <2>1, MovedLink, MovedNoGap
  <1>9. x \in Life /\ Ordered(x) /\ NoGap(store, x) /\ Link(kernel, x)
    BY <1>3, <1>7, <1>8
  <1>10. Link(kernel', x)
    BY <1>3, <1>6, <1>9, OnwardLink DEF TypeOK
  <1>11. InOrder' /\ Linked' /\ Finished' /\ MirrorInv'
    BY <1>1, <1>3, <1>6, <1>9, <1>10 DEF InOrder, Linked, Finished, MirrorInv
  <1> QED BY <1>11 DEF EngineInv

-----------------------------------------------------------------------------
(* Entering a round. *)

\* handleStateMachineRoundEntrance, unless it panics: the mirror notes the
\* round, and answers with a view of it or with the committed header.
LEMMA RoundEntranceEffect ==
    ASSUME NEW w \in Kernel, NEW h \in Nat, NEW r \in Nat,
           NEW x, x = handleStateMachineRoundEntrance(w, h, r), ~x.panic
    PROVE  /\ x.sm.h = h /\ x.sm.r = r /\ x.sm.live /\ x.sm.out = w.sm.out
           /\ x.committing = w.committing
           /\ \/ FindView(w, h, r) \in FoundIDs
              \/ FindView(w, h, r) = "beforeCommitting" /\ w.disk.headers[h].hash # Nil
  <1> DEFINE s  == [w.sm EXCEPT !.h = h, !.r = r, !.live = TRUE, !.closed = FALSE,
                                !.sent = 0, !.jump = ZeroView]
             w1 == [w EXCEPT !.sm = s]
             id == FindView(w1, h, r)
  <1>1. s.h = h /\ s.r = r /\ s.live /\ s.out = w.sm.out
    BY DEF Kernel
  <1>2. w1 \in Kernel
    BY ZeroViewType DEF Kernel
  <1> HIDE DEF s
  <1>3. /\ w1.sm = s /\ w1.committing = w.committing /\ w1.voting = w.voting
    BY DEF Kernel
  <1>4. id = FindView(w, h, r)
    BY <1>3 DEF FindView
  <1>5. x = IF id \in FoundIDs
            THEN [w1 EXCEPT !.sm.sent = GetView(w1, id).version]
            ELSE IF id = "beforeCommitting" /\ w.disk.headers[h].hash # Nil
            THEN w1 ELSE Panic(w1)
    BY DEF handleStateMachineRoundEntrance, s
  <1> HIDE DEF w1, id
  <1>6. CASE id \in FoundIDs
    <2>1. x = [w1 EXCEPT !.sm.sent = GetView(w1, id).version]
      BY <1>5, <1>6
    <2>2. /\ x.sm.h = w1.sm.h /\ x.sm.r = w1.sm.r /\ x.sm.live = w1.sm.live
          /\ x.sm.out = w1.sm.out /\ x.committing = w1.committing
      BY <1>2, <2>1 DEF Kernel
    <2> QED BY <1>1, <1>3, <1>4, <1>6, <2>2
  <1>7. CASE id \notin FoundIDs
    <2>1. Panic(w1).panic
      BY <1>2 DEF Panic, Kernel
    <2>2. x = w1 /\ id = "beforeCommitting" /\ w.disk.headers[h].hash # Nil
      BY <1>5, <1>7, <2>1
    <2> QED BY <1>1, <1>3, <1>4, <2>2
  <1> QED BY <1>6, <1>7

\* A handler of the kernel whose process survives it did not panic.
LEMMA KernelStepSurvived ==
    ASSUME NEW w \in Kernel, NEW g, NEW q, KernelStep(w, g, q), kernel'.up
    PROVE  ~w.panic /\ kernel'.sm = w.sm /\ kernel'.committing = w.committing
  <1>1. ASSUME NEW d, Dies(d) PROVE FALSE
    BY <1>1 DEF Dies, BlankKernel
  <1>2. ~w.panic /\ kernel' = [w EXCEPT !.torn = {}, !.room = {}]
    BY <1>1 DEF KernelStep
  <1> QED BY <1>2 DEF Kernel

\* A view that is found is of the place that was looked for; a place before the
\* Committing view is before it.
LEMMA FindViewPlace ==
    ASSUME NEW w, Aligned(w), NEW h, NEW r, NEW id, id = FindView(w, h, r)
    PROVE  /\ id \in FoundIDs => GetView(w, id).h = h /\ GetView(w, id).r = r
           /\ id = "beforeCommitting" =>
                h < w.committing.h \/ (h = w.committing.h /\ r < w.committing.r)
  BY DEF FindView, FoundIDs, GetView, Aligned

\* What initializeRLC gives the strategy to enter the round with.
LEMMA InitialViewType ==
    ASSUME store \in Stores, NEW v \in SeenView, NEW own, NEW x \in HR,
           own = store.acts[x].ph, NEW resend \in BOOLEAN, resend => own # NoProposal,
           NEW acts, acts = IF resend THEN <<[kind |-> "ph", ph |-> own]>> ELSE <<>>,
           NEW e, e = [v EXCEPT !.phs = rejectMismatchedProposedHeaders(v.phs) \cup
                         IF resend THEN {[hash |-> own.hash, by |-> OwnKey]} ELSE {}]
    PROVE  acts \in Seq(Action) /\ e \in SeenView /\ e.h = v.h /\ e.r = v.r
  <1>1. resend => own \in Proposal
    BY DEF Stores
  <1>2. resend => [kind |-> "ph", ph |-> own] \in Action
    BY <1>1 DEF Action
  <1>3. acts \in Seq(Action)
    BY <1>2
  <1>4. resend => [hash |-> own.hash, by |-> OwnKey] \in HeldPH
    BY <1>1, InputAssumption DEF Proposal, HeldPH
  <1>5. rejectMismatchedProposedHeaders(v.phs) \in SUBSET HeldPH
    BY DEF rejectMismatchedProposedHeaders, SeenView
  <1> DEFINE phs == rejectMismatchedProposedHeaders(v.phs) \cup
                      IF resend THEN {[hash |-> own.hash, by |-> OwnKey]} ELSE {}
  <1>6. phs \in SUBSET HeldPH
    BY <1>4, <1>5
  <1>7. e = [v EXCEPT !.phs = phs]
    OBVIOUS
  <1> HIDE DEF phs
  <1>8. e \in SeenView /\ e.h = v.h /\ e.r = v.r
    BY <1>6, <1>7 DEF SeenView
  <1> QED BY <1>3, <1>8

\* A round that the mirror answers with a view is entered with it, unless the
\* stores lack the finalization that the first round of a process needs.
LEMMA EnterLiveStays ==
    ASSUME EngineInv, Alive, sm.pc = "enter", <<sm.h, sm.r>> \in HR,
           NEW v \in SeenView, At(v, sm), NEW x, x = EnterLive(v)
    PROVE  Stays(sm, x, "send") \/ x = Quit(sm)
  <1>1. sm \in Life /\ Ordered(sm) /\ store \in Stores
    BY AliveFacts
  <1>2. CASE ~sm.init
    <2> DEFINE y == Request([sm EXCEPT !.acts = <<>>, !.entered = v], "enter", {}, FALSE)
    <2>1. x = y
      BY <1>2 DEF EnterLive
    <2>2. Entering(sm, y, sm.vrv, v)
      BY <1>1, RequestAgain
    <2>3. sm.vrv \in SeenView
      BY <1>1 DEF Life
    <2> HIDE DEF y
    <2> QED BY <1>1, <2>1, <2>2, <2>3, EnterRequestStays
  <1>3. CASE sm.init
    <2> DEFINE place    == <<sm.h, sm.r>>
               own      == store.acts[place].ph
               phs      == rejectMismatchedProposedHeaders(v.phs)
               proposed == \E p \in phs : p.by = OwnKey
               resend   == ~proposed /\ own # NoProposal
               vrv      == IF AtGenesis THEN sm.vrv ELSE v
               ch       == ~proposed /\ ~resend
               acts     == IF resend THEN <<[kind |-> "ph", ph |-> own]>> ELSE <<>>
               e        == [v EXCEPT !.phs = phs \cup
                              IF resend THEN {[hash |-> own.hash, by |-> OwnKey]} ELSE {}]
               y == Request([sm EXCEPT !.vrv = vrv, !.proposalCh = ch, !.acts = acts,
                                       !.entered = e], "enter", {}, FALSE)
    <2>1. x = y \/ x = Quit(sm)
      BY <1>3 DEF EnterLive, InitialLive
    <2>2. acts \in Seq(Action) /\ e \in SeenView /\ e.h = v.h /\ e.r = v.r
      <3>1. place \in HR /\ own = store.acts[place].ph /\ resend \in BOOLEAN
            /\ (resend => own # NoProposal)
        OBVIOUS
      <3>2. acts = IF resend THEN <<[kind |-> "ph", ph |-> own]>> ELSE <<>>
        OBVIOUS
      <3>3. e = [v EXCEPT !.phs = rejectMismatchedProposedHeaders(v.phs) \cup
                   IF resend THEN {[hash |-> own.hash, by |-> OwnKey]} ELSE {}]
        OBVIOUS
      <3> HIDE DEF place, own, resend, acts, e
      <3> QED BY <1>1, <3>1, <3>2, <3>3, InitialViewType
    <2>3. ch \in BOOLEAN
      OBVIOUS
    <2>4. vrv \in SeenView /\ (vrv = sm.vrv \/ At(vrv, sm))
      BY <1>1 DEF Life
    <2> HIDE DEF acts, e, ch, vrv
    <2>5. Entering(sm, y, vrv, e)
      BY <1>1, <2>2, <2>3, <2>4, RequestEntering
    <2>6. At(e, sm)
      BY <2>2 DEF At
    <2> HIDE DEF y
    <2>7. Stays(sm, y, "send")
      BY <1>1, <2>2, <2>4, <2>5, <2>6, EnterRequestStays
    <2> QED BY <2>1, <2>7
  <1> QED BY <1>2, <1>3

\* What the state machine does with the answer to its round entrance agrees
\* with the mirror, which has noted the round.
LEMMA EnteredLink ==
    ASSUME EngineInv, Alive, sm.pc = "enter", <<sm.h, sm.r>> \in SMRounds,
           NEW k \in Kernel, k.sm.h = sm.h, k.sm.r = sm.r, k.sm.live,
           k.sm.out = kernel.sm.out
    PROVE  InRound(k, sm) /\ Before(k.sm.out, sm) /\ NotAfter(k.sm.out, k.sm)
  <1>1. kernel \in Kernel /\ sm \in Life /\ Link(kernel, sm)
    BY AliveFacts
  <1>2. sm.h \in Nat \ {0} /\ sm.r \in Nat
    <2> DEFINE x == <<sm.h, sm.r>>
    <2>1. x[1] = sm.h /\ x[2] = sm.r /\ x \in SMRounds
      OBVIOUS
    <2> HIDE DEF x
    <2> QED BY <2>1, RoundPlace
  <1>3. NotAfter(kernel.sm.out, kernel.sm)
    BY <1>1 DEF Link
  <1>4. Before(kernel.sm, sm)
    BY <1>1, <1>2 DEF Link, Before
  <1>5. Before(kernel.sm.out, sm)
    BY <1>1, <1>2, <1>3, <1>4, KernelPlaces DEF Before, NotAfter
  <1>6. NotAfter(k.sm.out, k.sm)
    BY <1>1, <1>2, <1>5, KernelPlaces DEF Before, NotAfter
  <1> QED BY <1>5, <1>6 DEF InRound, At

\* The state machine enters a round.
LEMMA SMEnterInv == ASSUME EngineInv, SMEnter PROVE EngineInv'
  <1> DEFINE h  == sm.h
             r  == sm.r
             id == FindView(kernel, h, r)
             w  == handleStateMachineRoundEntrance(kernel, h, r)
             v  == Seen(GetView(kernel, id))
             c  == kernel.disk.headers[h]
             x  == IF id \in FoundIDs THEN EnterLive(v) ELSE EnterReplay(c)
  <1>1. /\ Alive /\ sm.pc = "enter" /\ <<h, r>> \in SMRounds
        /\ KernelStep(w, hs, phQueue) /\ Survives(x) /\ store' = store
    BY DEF SMEnter
  <1>2. /\ TypeOK /\ Placed /\ kernel \in Kernel /\ Sound(kernel) /\ kernel.up
        /\ sm \in Life /\ Ordered(sm) /\ Link(kernel, sm) /\ NoGap(store, sm)
    BY <1>1, AliveFacts
  <1>3. h \in Nat /\ r \in Nat /\ h \in Heights /\ <<h, r>> \in HR
    <2> DEFINE y == <<h, r>>
    <2>1. y[1] = h /\ y[2] = r /\ y \in SMRounds
      BY <1>1
    <2>2. y \in HR /\ h \in Heights /\ h \in Nat \ {0} /\ r \in Nat
      <3> HIDE DEF y, h, r
      <3> QED BY <2>1, RoundPlace
    <2> QED BY <2>2
  <1>4. w \in Kernel /\ Sound(w)
    BY <1>2, <1>3, handleStateMachineRoundEntranceType, handleStateMachineRoundEntranceSound
  <1>5. TypeOK' /\ Placed'
    <2> HIDE DEF w
    <2> QED BY <1>1, <1>2, <1>4, KernelStepType, KernelStepPlaced DEF TypeOK
  <1>6. ASSUME kernel'.up
        PROVE  x \in Life /\ Ordered(x) /\ NoGap(store, x) /\ Link(kernel', x)
    <2>1. ~w.panic /\ kernel'.sm = w.sm /\ kernel'.committing = w.committing
      <3> HIDE DEF w
      <3> QED BY <1>1, <1>4, <1>6, KernelStepSurvived
    <2>2. /\ w.sm.h = h /\ w.sm.r = r /\ w.sm.live /\ w.sm.out = kernel.sm.out
          /\ w.committing = kernel.committing
          /\ id \in FoundIDs \/ (id = "beforeCommitting" /\ c.hash # Nil)
      <3>1. w = handleStateMachineRoundEntrance(kernel, h, r)
        OBVIOUS
      <3> HIDE DEF w, h, r
      <3> QED BY <1>2, <1>3, <2>1, <3>1, RoundEntranceEffect
    <2>3. /\ kernel'.sm.h = sm.h /\ kernel'.sm.r = sm.r /\ kernel'.sm.live
          /\ kernel'.sm.out = kernel.sm.out /\ kernel'.committing = kernel.committing
      BY <2>1, <2>2
    <2>4. kernel' \in Kernel
      BY <1>5 DEF TypeOK
    <2>5. /\ InRound(kernel', sm) /\ Before(kernel'.sm.out, sm)
          /\ NotAfter(kernel'.sm.out, kernel'.sm)
      BY <1>1, <2>3, <2>4, EnteredLink
    <2>6. /\ id \in FoundIDs => GetView(kernel, id).h = h /\ GetView(kernel, id).r = r
          /\ id = "beforeCommitting" => Before(sm, kernel.committing)
      <3>1. Aligned(kernel) /\ id = FindView(kernel, h, r)
        BY <1>2 DEF Sound
      <3> HIDE DEF id
      <3> QED BY <3>1, FindViewPlace DEF Before
    <2>7. CASE id \in FoundIDs
      <3>1. GetView(kernel, id) \in View
        BY <1>2, <2>7, GetViewType
      <3>2. v \in SeenView /\ At(v, sm)
        BY <2>6, <2>7, <3>1, SeenType DEF At
      <3>3. x = EnterLive(v)
        BY <2>7
      <3> HIDE DEF x, v, id
      <3>4. Stays(sm, x, "send") \/ x = Quit(sm)
        BY <1>1, <1>3, <3>2, <3>3, EnterLiveStays
      <3>5. CASE Stays(sm, x, "send")
        <4>1. Link(kernel', x)
          BY <2>5, <3>5 DEF Link, Stays, InRound, At
        <4> QED BY <1>2, <3>5, <4>1, SameNoGap DEF Stays
      <3>6. CASE x = Quit(sm)
        <4>1. x \in Life /\ Ordered(x) /\ NoGap(store, x)
          BY <1>1, <3>6, EndedInv
        <4>2. x.pc = "quit"
          BY <1>2, <3>6 DEF Quit, Life
        <4>3. Link(kernel', x)
          BY <2>3, <2>5, <4>2 DEF Link
        <4> QED BY <4>1, <4>3
      <3> QED BY <3>4, <3>5, <3>6
    <2>8. CASE id \notin FoundIDs
      <3> DEFINE f == [h |-> sm.h, r |-> c.r, hash |-> c.hash]
      <3>1. c.r \in Nat /\ c.hash \in Hashes
        BY <1>2, <1>3, KernelDisk DEF Disk
      <3>2. f \in [h : Nat, r : Nat, hash : Hashes] /\ f.hash # Nil
        BY <1>3, <2>2, <2>8, <3>1
      <3>3. x = Replayed(sm, f)
        BY <2>8 DEF EnterReplay, Replayed
      <3> HIDE DEF x, f
      <3>4. Moved(sm, x)
        BY <1>1, <1>2, <3>2, <3>3, ReplayMoved
      <3>5. Outrun(kernel', sm)
        BY <2>2, <2>3, <2>5, <2>6, <2>8 DEF Outrun
      <3>6. Link(kernel', x)
        BY <1>2, <2>4, <2>5, <3>4, <3>5, MovedLink
      <3>7. NoGap(store, x)
        BY <1>2, <3>4, MovedNoGap
      <3> QED BY <3>4, <3>6, <3>7 DEF Moved
    <2> QED BY <2>7, <2>8
  <1> HIDE DEF x
  <1> QED BY <1>1, <1>5, <1>6, SurvivesInv

-----------------------------------------------------------------------------
(* The first state: a new chain, or one that is resumed at a later height. *)

\* The past is a prefix of the heights.
LEMMA PastHeights ==
    /\ Past \subseteq Heights /\ Past \subseteq Nat
    /\ \A h : h \in Past <=> h \in Heights /\ h < ResumeAt
    /\ ResumeAt \in Nat \ {0} /\ (Past = {} <=> ResumeAt = 1) /\ 0 \in Rounds
    /\ 1 \in Blocks /\ 1 \in Hashes /\ Nil = 0
    /\ PastProofs \in Proofs /\ OwnKey \in Val
  <1>1. ResumeAt \in Heights /\ InitialHeight = 1 /\ MaxHeight \in Nat /\ MaxRound \in Nat
    BY EngineAssumption, BoundsAssumption
  <1>2. ResumeAt \in Nat /\ ResumeAt >= 1 /\ ResumeAt <= MaxHeight
    BY <1>1 DEF Heights
  <1>3. Past = 1..(ResumeAt - 1)
    BY <1>1 DEF Past
  <1>4. /\ Past \subseteq Heights /\ Past \subseteq Nat
        /\ \A h : h \in Past <=> h \in Heights /\ h < ResumeAt
    BY <1>1, <1>2, <1>3 DEF Heights
  <1>5. Past = {} <=> ResumeAt = 1
    <2>1. ResumeAt # 1 => 1 \in Past
      BY <1>2, <1>3
    <2>2. ResumeAt = 1 => Past = {}
      BY <1>3
    <2> QED BY <2>1, <2>2
  <1>6. 0 \in Rounds /\ 1 \in Blocks /\ 1 \in Hashes /\ Nil = 0
    BY <1>1, BlocksAssumption DEF Rounds, Blocks, Hashes, Nil
  <1>7. PastProofs \in Proofs
    BY DEF PastProofs, Proofs
  <1> QED BY <1>2, <1>4, <1>5, <1>6, <1>7, InputAssumption

\* The stores of the mirror after the past.
LEMMA PastDiskType == PastDisk \in Disk
  <1> DEFINE n  == [vh |-> ResumeAt, vr |-> 0, ch |-> ResumeAt - 1, cr |-> 0]
             ps == [x \in HR |-> IF x \in PastRounds THEN {[hash |-> 1, by |-> OwnKey]} ELSE {}]
             vs == [x \in HR |-> IF x \in PastRounds THEN PastProofs ELSE NoProofs]
             hd == [h \in Heights |-> IF h \in Past
                      THEN [hash |-> 1, r |-> 0, proofs |-> PastProofs]
                      ELSE EmptyDisk.headers[h]]
  <1>1. n \in [vh : Nat, vr : Nat, ch : Nat, cr : Nat]
    BY PastHeights
  <1>2. ps \in [HR -> SUBSET HeldPH]
    <2>1. [hash |-> 1, by |-> OwnKey] \in HeldPH
      BY PastHeights DEF HeldPH
    <2> QED BY <2>1
  <1>3. vs \in [HR -> Proofs]
    BY PastHeights, NoProofsType
  <1>4. hd \in [Heights -> [hash : Hashes, r : Nat, proofs : Proofs]]
    <2>1. EmptyDisk.headers \in [Heights -> [hash : Hashes, r : Nat, proofs : Proofs]]
      BY EmptyDiskType DEF Disk
    <2>2. [hash |-> 1, r |-> 0, proofs |-> PastProofs]
            \in [hash : Hashes, r : Nat, proofs : Proofs]
      BY PastHeights
    <2> QED BY <2>1, <2>2
  <1>5. PastDisk = [EmptyDisk EXCEPT !.nhr = n, !.phs = ps,
                                     !.votes["precommit"] = vs, !.headers = hd]
    BY DEF PastDisk, EmptyDisk
  <1> HIDE DEF n, ps, vs, hd
  <1>6. "precommit" \in Kinds
    BY DEF Kinds
  <1> QED BY <1>1, <1>2, <1>3, <1>4, <1>5, <1>6, EmptyDiskType DEF Disk

\* They hold a header for every height of it.
LEMMA PastDiskComplete ==
    ASSUME Past # {}
    PROVE  Complete(PastDisk) /\ <<PastDisk.nhr.ch, PastDisk.nhr.cr>> \in HR
  <1>1. PastDisk.nhr = [vh |-> ResumeAt, vr |-> 0, ch |-> ResumeAt - 1, cr |-> 0]
    BY DEF PastDisk, EmptyDisk
  <1>2. \A h \in Past : PastDisk.headers[h].hash = 1
    BY PastHeights DEF PastDisk, EmptyDisk
  <1>3. ResumeAt \in Nat \ {0} /\ ResumeAt # 1
    BY PastHeights
  <1>4. Consecutive(ResumeAt, ResumeAt - 1, 0)
    BY <1>3, EngineAssumption DEF Consecutive
  <1>5. ASSUME NEW h \in Heights, h <= ResumeAt - 1 PROVE PastDisk.headers[h].hash # Nil
    <2>1. h \in Nat
      BY HRType
    <2>2. h \in Past
      BY <1>3, <1>5, <2>1, PastHeights
    <2> QED BY <1>2, <2>2, PastHeights
  <1>6. ResumeAt - 1 \in Heights
    BY <1>3, EngineAssumption, BoundsAssumption DEF Heights
  <1> QED BY <1>1, <1>4, <1>5, <1>6, PastHeights DEF Complete, HR

\* The stores of the state machine after the past.
LEMMA PastStoreType == PastStore \in Stores
  <1> DEFINE hr == IF Past = {} THEN <<0, 0>> ELSE <<ResumeAt, 0>>
             fin == [h \in Heights |-> IF h \in Past THEN 1 ELSE Nil]
             Acts == [ph : Proposal \cup {NoProposal}, prevote : Hashes \cup {NoVote},
                      precommit : Hashes \cup {NoVote}]
             acts == [x \in HR |-> IF x \in PastRounds THEN PastActions(x[1]) ELSE NoActions]
  <1>1. hr \in Nat \X Nat
    BY PastHeights
  <1>2. fin \in [Heights -> Hashes]
    BY PastHeights, NilIsHash
  <1>3. ASSUME NEW h \in Past PROVE PastActions(h) \in Acts
    <2> DEFINE prev == IF h - 1 \in Past THEN PastProofs ELSE NoProofs
               p == [h |-> h, r |-> 0, hash |-> 1, by |-> OwnKey, prevR |-> 0, prev |-> prev]
    <2>1. prev \in Proofs
      BY PastHeights, NoProofsType
    <2>2. h \in Heights
      BY PastHeights
    <2>3. PastActions(h) = [ph |-> p, prevote |-> NoVote, precommit |-> 1]
      BY DEF PastActions
    <2> HIDE DEF prev
    <2>4. p \in Proposal
      BY <2>1, <2>2, PastHeights DEF Proposal
    <2> QED BY <2>3, <2>4, PastHeights
  <1>4. NoActions \in Acts
    BY DEF NoActions
  <1>5. \A x \in PastRounds : x[1] \in Past
    BY DEF PastRounds
  <1>6. acts \in [HR -> Acts]
    BY <1>3, <1>4, <1>5
  <1>7. PastStore = [hr |-> hr, fin |-> fin, acts |-> acts]
    BY DEF PastStore
  <1> HIDE DEF hr, fin, acts
  <1> QED BY <1>1, <1>2, <1>6, <1>7 DEF Stores

\* The past is finalized without a gap.
LEMMA PastStoreNoGap ==
    ASSUME NEW s, s.h = 0, ~s.finalized PROVE NoGap(PastStore, s)
  <1>1. /\ PastStore.fin = [h \in Heights |-> IF h \in Past THEN 1 ELSE Nil]
        /\ PastStore.hr[1] = IF Past = {} THEN 0 ELSE ResumeAt
    BY DEF PastStore
  <1>2. \A h \in Heights : PastStore.fin[h] # Nil <=> h \in Past
    BY <1>1, PastHeights
  <1>3. ASSUME NEW h \in Nat, h >= 1, h <= ResumeAt PROVE Final(PastStore, h - 1)
    <2>1. h = 1 \/ h - 1 \in Past
      BY <1>3, EngineAssumption, PastHeights DEF Past
    <2>2. InitialHeight - 1 = 0
      BY EngineAssumption
    <2> DEFINE k == h - 1
    <2>3. k = 0 \/ k \in Past
      BY <2>1
    <2> HIDE DEF k
    <2>4. Final(PastStore, k)
      BY <1>2, <2>2, <2>3, PastHeights DEF Final
    <2> QED BY <2>4 DEF k
  <1>4. ASSUME NEW h \in Heights, PastStore.fin[h] # Nil PROVE Final(PastStore, h - 1)
    <2>1. h \in Past
      BY <1>2, <1>4
    <2>2. h \in Nat /\ h >= 1 /\ h <= ResumeAt
      BY <2>1, EngineAssumption, PastHeights DEF Past
    <2> QED BY <1>3, <2>2
  <1>5. ASSUME PastStore.hr[1] # 0 PROVE Final(PastStore, PastStore.hr[1] - 1)
    <2>1. PastStore.hr[1] = ResumeAt
      BY <1>1, <1>5
    <2>2. Final(PastStore, ResumeAt - 1)
      BY <1>3, PastHeights
    <2> QED BY <2>1, <2>2
  <1> QED BY <1>4, <1>5 DEF NoGap

\* The engine starts in order.
LEMMA EngineInitInv == ASSUME EngineInit PROVE EngineInv
  <1> DEFINE d    == IF Past = {} THEN EmptyDisk ELSE PastDisk
             hash == IF Past = {} THEN Nil ELSE 1
             s    == NewStateMachine(Past = {})
  <1>1. /\ kernel = NewKernel(d, hash) /\ hs = [c \in Handlers |-> Idle] /\ phQueue = <<>>
        /\ crashes = 0 /\ sm = s /\ store = PastStore
    BY DEF EngineInit
  <1>2. hash \in Hashes
    BY NilIsHash, PastHeights
  <1>3. d \in Disk /\ Complete(d)
    BY EmptyDiskType, EmptyDiskComplete, PastDiskType, PastDiskComplete
  <1>4. HasCommitting(d) => <<d.nhr.ch, d.nhr.cr>> \in HR
    BY EmptyDiskComplete, PastDiskComplete
  <1>5. s.pc = "start"
    BY DEF NewStateMachine
  <1>6. s \in Life /\ Ordered(s) /\ s.h = 0 /\ ~s.finalized
    BY NewStateMachineOrdered
  <1> HIDE DEF d, hash, s
  <1>7. kernel \in Kernel /\ Sound(kernel) /\ Complete(kernel.disk)
    BY <1>1, <1>2, <1>3, <1>4, NewKernelType, NewKernelSound
  <1>8. ~kernel.sm.live /\ kernel.sm.h = 0 /\ kernel.sm.r = 0
          /\ NotAfter(kernel.sm.out, kernel.sm)
    BY <1>1, <1>2, <1>3, <1>4, NewKernelNoSM
  <1>9. TypeOK
    <2>1. hs \in [Handlers -> Handler]
      BY <1>1, IdleType
    <2>2. crashes \in 0..MaxCrashes
      BY <1>1, InputAssumption
    <2> QED BY <1>1, <1>7, <2>1, <2>2 DEF TypeOK
  <1>10. MirrorInv
    BY <1>7, <1>9 DEF MirrorInv, Placed
  <1>11. InOrder /\ Linked
    BY <1>1, <1>5, <1>6, <1>8 DEF InOrder, Linked, Link
  <1>12. Finished
    BY <1>1, <1>6, PastStoreType, PastStoreNoGap DEF Finished
  <1> QED BY <1>10, <1>11, <1>12 DEF EngineInv

-----------------------------------------------------------------------------
(* The theorems. *)

\* Every step of the engine keeps the invariant.
LEMMA EngineNextInv == ASSUME EngineInv, [EngineNext]_engineVars PROVE EngineInv'
  <1>1. CASE MirrorAlone
    BY <1>1, MirrorAloneInv
  <1>2. CASE EngineCrash
    BY <1>2, EngineCrashInv
  <1>3. CASE EngineRestart
    BY <1>3, EngineRestartInv
  <1>4. CASE StateMachineStep
    BY <1>4, SMStartInv, SMSaveInv, SMEnterInv, CMTakeRequestInv, SendTimeoutInv,
       EnterRoundReturnsInv, NotReadyInv, StrategyChoosesInv, ViewUpdateInv, ProposeInv,
       PrevoteInv, PrecommitInv, FinalizationInv, EventInv, MirrorTakesActionInv
       DEF StateMachineStep
  <1>5. CASE UNCHANGED engineVars
    BY <1>5 DEF engineVars, EngineInv, MirrorInv, InOrder, Linked, Finished, TypeOK, Placed
  <1> QED BY <1>1, <1>2, <1>3, <1>4, <1>5 DEF EngineNext

\* The engine's invariant: the mirror keeps its types, places and records, the
\* round lifecycle is in order, mirror and state machine agree on the round,
\* and no height is finalized before the one below it.
THEOREM EngineInvAlways == EngineSpec => []EngineInv
<1>1. EngineInit => EngineInv
  BY EngineInitInv
<1>2. EngineInv /\ [EngineNext]_engineVars => EngineInv'
  BY EngineNextInv
<1> QED BY <1>1, <1>2, PTL DEF EngineSpec

\* Whatever order views, timers, answers of the strategy, crashes and restarts
\* come in, the timer of the round lifecycle is the one its step needs, and a
\* request to the consensus manager has a channel for its answer: no handler
\* calls a nil CancelTimer, no send blocks on a nil channel.
THEOREM LifecycleConsistentAlways == EngineSpec => []LifecycleConsistent
<1>1. EngineInv => LifecycleConsistent
  <2> SUFFICES ASSUME EngineInv PROVE LifecycleConsistent
    OBVIOUS
  <2>1. sm \in Life /\ Ordered(sm)
    BY DEF EngineInv, InOrder
  <2>2. RequestHasChannel
    BY <2>1 DEF RequestHasChannel, Ordered, Requested
  <2>3. ASSUME Live, sm.vrv.h = sm.h, sm.vrv.r = sm.r PROVE InStep(sm)
    <3>1. sm.h \in Nat /\ sm.r \in Nat
      BY <2>1 DEF Life
    <3>2. ~Replaying(sm)
      BY <2>3, <3>1 DEF Replaying, Before
    <3> QED BY <2>1, <2>3, <3>2 DEF Live, Ordered
  <2>4. TimerMatchesStep
    BY <2>3 DEF TimerMatchesStep, InStep
  <2> QED BY <2>2, <2>4 DEF LifecycleConsistent
<1> QED BY <1>1, EngineInvAlways, PTL

\* Heights are finalized one after the other, from the initial one, also while
\* the state machine catches up with the mirror and across crashes at any
\* store call: the order half of FinalizedInOrder.
FinalizedWithoutGap == \A h \in Heights : store.fin[h] # Nil => HasFinalization(h - 1)

\* No height is finalized before the one below it.
THEOREM FinalizedWithoutGapAlways == EngineSpec => []FinalizedWithoutGap
<1>1. EngineInv => FinalizedWithoutGap
  BY FinalIsStored DEF EngineInv, Finished, NoGap, FinalizedWithoutGap
<1> QED BY <1>1, EngineInvAlways, PTL

\* The mirror inside the engine, driven by the real state machine and resumed
\* at any height, keeps what module Mirror promises of it: its types, its three
\* views at consecutive places, and a header for every committed height.
THEOREM EngineMirrorAlways == EngineSpec => [](TypeOK /\ ViewsAligned /\ HeadersComplete)
<1>1. EngineInv => TypeOK /\ ViewsAligned /\ HeadersComplete
  <2>1. Placed => ViewsAligned
    BY DEF Placed, Sound, Aligned, Consecutive, Recorded, ViewsAligned
  <2>2. Placed => HeadersComplete
    BY DEF Placed, Complete, HeadersComplete
  <2> QED BY <2>1, <2>2 DEF EngineInv, MirrorInv
<1> QED BY <1>1, EngineInvAlways, PTL

-----------------------------------------------------------------------------
(* What the signer has signed.  Anybody else may have signed anything, in the *)
(* rounds of the model; the signer what is in its action store A.             *)

Acted(a, k, b) == IF k = "ph" THEN a.ph # NoProposal /\ a.ph.hash = b ELSE a[k] = b

Signatures(A) ==
    [x \in (Kinds \cup {"ph"}) \X Nat \X Nat \X Hashes |->
       {v \in Val : /\ x[3] \in Rounds
                    /\ v = OwnKey => /\ <<x[2], x[3]>> \in HR
                                     /\ Acted(A[<<x[2], x[3]>>], x[1], x[4])}]

\* Whoever signed something in S did so in T.
Wider(S, T) ==
    \A k \in Kinds \cup {"ph"}, h, r \in Nat, b \in Hashes :
      S[<<k, h, r, b>>] \subseteq T[<<k, h, r, b>>]

\* Who signed what at a place.
LEMMA SignaturesAt ==
    ASSUME NEW A, NEW k \in Kinds \cup {"ph"}, NEW h \in Nat, NEW r \in Nat, NEW b \in Hashes,
           NEW v
    PROVE  v \in Signatures(A)[<<k, h, r, b>>]
             <=> /\ v \in Val /\ r \in Rounds
                 /\ v = OwnKey => <<h, r>> \in HR /\ Acted(A[<<h, r>>], k, b)
  <1>1. <<k, h, r, b>> \in (Kinds \cup {"ph"}) \X Nat \X Nat \X Hashes
    OBVIOUS
  <1> QED BY <1>1 DEF Signatures

\* These are signatures.
LEMMA SignaturesType == ASSUME ReplaysNear, NEW A PROVE Signatures(A) \in Signers
  <1> DEFINE D == (Kinds \cup {"ph"}) \X Nat \X Nat \X Hashes
  <1>1. Signatures(A) \in [D -> SUBSET Val]
    BY DEF Signatures
  <1>2. ASSUME NEW h \in Nat, NEW r \in Nat \ Rounds, NEW b \in Hashes
        PROVE  Signatures(A)[<<"precommit", h, r, b>>] = {}
    <2>1. "precommit" \in Kinds \cup {"ph"}
      BY DEF Kinds
    <2> QED BY <2>1, SignaturesAt
  <1> DEFINE S == Signatures(A)
  <1>3. S \in [D -> SUBSET Val]
        /\ \A h \in Nat, r \in Nat \ Rounds, b \in Hashes : S[<<"precommit", h, r, b>>] = {}
    BY <1>1, <1>2
  <1> HIDE DEF S
  <1>4. S \in Signers
    BY <1>3 DEF Signers
  <1> QED BY <1>4 DEF S

\* More signatures make no vote less genuine.
LEMMA WiderGenuine ==
    ASSUME NEW S, NEW T, Wider(S, T), NEW k \in Kinds, NEW h \in Nat, NEW r \in Nat,
           NEW ps, Genuine(S, k, h, r, ps)
    PROVE  Genuine(T, k, h, r, ps)
  BY DEF Wider, Genuine

\* Nor a previous commit proof.
LEMMA WiderHandedOn ==
    ASSUME NEW S, NEW T, Wider(S, T), NEW v, v.h \in Nat, v.prev.r \in Nat, HandedOn(S, v)
    PROVE  HandedOn(T, v)
  <1>1. "precommit" \in Kinds
    BY DEF Kinds
  <1>2. v.h # 0 => v.h - 1 \in Nat
    OBVIOUS
  <1> QED BY <1>1, <1>2, WiderGenuine DEF HandedOn

\* Nor the votes of a view.
LEMMA WiderGoodView ==
    ASSUME NEW S, NEW T, Wider(S, T), NEW d, NEW v \in View, GoodView(S, d, v)
    PROVE  GoodView(T, d, v)
  <1>1. v.h \in Nat /\ v.r \in Nat /\ v.prev.r \in Nat
    BY DEF View
  <1>2. HandedOn(T, v)
    BY <1>1, WiderHandedOn DEF GoodView, GenuineView
  <1> QED BY <1>1, <1>2, WiderGenuine DEF GoodView, GenuineView

\* Nor those of a disk image.
LEMMA WiderGoodDisk ==
    ASSUME NEW S, NEW T, Wider(S, T), NEW d \in Disk, GoodDisk(S, d) PROVE GoodDisk(T, d)
  <1>1. Heights \subseteq Nat /\ Rounds \subseteq Nat /\ "precommit" \in Kinds
    BY HRType DEF Kinds
  <1>2. \A h \in Heights : d.headers[h].r \in Nat
    BY DEF Disk
  <1>3. \A h \in Heights, r \in Rounds : \A p \in d.phs[<<h, r>>] : p.hash \in Hashes
    <2>1. \A x \in HR : d.phs[x] \subseteq HeldPH
      BY DEF Disk
    <2>2. \A h \in Heights, r \in Rounds : d.phs[<<h, r>>] \subseteq HeldPH
      BY <2>1 DEF HR
    <2> QED BY <2>2, BlocksAreHashes DEF HeldPH
  <1>4. \A h \in Heights, r \in Rounds : \A p \in d.phs[<<h, r>>] :
          p.by \in T[<<"ph", h, r, p.hash>>]
    BY <1>1, <1>3 DEF GoodDisk, GenuineDisk, Wider
  <1>5. /\ \A k \in Kinds, h \in Heights, r \in Rounds : Genuine(T, k, h, r, d.votes[k][<<h, r>>])
        /\ \A h \in Heights : d.headers[h].hash # Nil =>
             /\ BlockPower(d.headers[h].proofs, d.headers[h].hash) >= Majority
             /\ Genuine(T, "precommit", h, d.headers[h].r, d.headers[h].proofs)
    BY <1>1, <1>2, WiderGenuine DEF GoodDisk, GenuineDisk
  <1> QED BY <1>4, <1>5 DEF GoodDisk, GenuineDisk

\* Nor the headers that carry them.
LEMMA WiderCarriers ==
    ASSUME NEW S, NEW T, Wider(S, T) PROVE Carriers(S) \subseteq Carriers(T)
  <1> SUFFICES ASSUME NEW p \in Carriers(S) PROVE p \in Carriers(T)
    OBVIOUS
  <1>1. /\ p \in Proposal /\ p.by \in S[<<"ph", p.h, p.r, p.hash>>]
        /\ Genuine(S, "precommit", p.h - 1, p.prevR, p.prev)
    BY DEF Carriers
  <1>2. p.h \in Nat /\ p.r \in Nat /\ p.hash \in Hashes /\ p.prevR \in Nat /\ p.h - 1 \in Nat
    <2>1. p.h \in Heights /\ p.r \in Rounds /\ p.hash \in Blocks /\ p.prevR \in Rounds
      BY <1>1 DEF Proposal
    <2>2. p.h - 1 \in Nat
      BY <2>1, BoundsAssumption DEF Heights
    <2> QED BY <2>1, <2>2, HRType, BlocksAreHashes
  <1>3. p.by \in T[<<"ph", p.h, p.r, p.hash>>]
    BY <1>1, <1>2 DEF Wider
  <1>4. Genuine(T, "precommit", p.h - 1, p.prevR, p.prev)
    BY <1>1, <1>2, WiderGenuine DEF Kinds
  <1> QED BY <1>1, <1>3, <1>4 DEF Carriers

\* Nor what a goroutine brings.
LEMMA WiderHonest ==
    ASSUME NEW S, NEW T, Wider(S, T), NEW g \in Handler, Honest(S, g) PROVE Honest(T, g)
  <1>1. g.msg.kind \in Kinds /\ g.msg.h \in Nat /\ g.msg.r \in Nat
    BY HRType DEF Handler
  <1>2. g.ph \in Carriers(T) \cup {NoProposal}
    BY WiderCarriers DEF Honest
  <1> QED BY <1>1, <1>2, WiderGenuine DEF Honest

\* What is safe stays so when more is signed.
LEMMA WiderSafe ==
    ASSUME NEW S, NEW T, Wider(S, T), NEW w \in Kernel, NEW g \in [Handlers -> Handler],
           NEW q, Safe(S, w, g, q)
    PROVE  Safe(T, w, g, q)
  <1>1. GoodDisk(T, w.disk)
    BY KernelDisk, WiderGoodDisk DEF Safe
  <1>2. ASSUME Good(S, w), w.torn = {} PROVE Good(T, w)
    <2>1. \A id \in FoundIDs : GoodView(T, w.disk, GetView(w, id))
      BY <1>2, GetViewType, WiderGoodView DEF Good
    <2>2. w.sm.out.h \in Nat /\ w.sm.out.prev.r \in Nat
      BY DEF Kernel, View
    <2>3. HandedOn(T, w.sm.out)
      BY <1>2, <2>2, WiderHandedOn DEF Good
    <2> QED BY <1>1, <1>2, <2>1, <2>3 DEF Good
  <1>3. \A c \in Handlers : Honest(T, g[c])
    BY WiderHonest DEF Safe
  <1>4. q \in Seq(Carriers(T))
    BY WiderCarriers DEF Safe
  <1> QED BY <1>1, <1>2, <1>3, <1>4 DEF Safe

-----------------------------------------------------------------------------
(* The invariant behind NoDoubleSign.  The signer's own header names as the  *)
(* previous commit proof that of the state machine's last view.  If that     *)
(* view is of another height, the mirror is past the height of the header    *)
(* and does not read the proof.                                              *)

\* A header that the signer made and recorded, for a mirror with disk image d.
Owned(A, d, p) ==
    /\ p \in Proposal /\ p.by \in Signatures(A)[<<"ph", p.h, p.r, p.hash>>]
    /\ p.h < d.nhr.vh \/ p \in Carriers(Signatures(A))

Remembered(A, d) == \A x \in HR : A[x].ph # NoProposal => Owned(A, d, A[x].ph)

\* The actions that the kernel w may find on its channel: the votes are those
\* recorded for the round it takes the state machine to be in.
Prompts(A, w) ==
    {a \in Action : IF a.kind = "ph" THEN Owned(A, w.disk, a.ph)
                    ELSE /\ w.sm.live /\ <<w.sm.h, w.sm.r>> \in HR
                         /\ A[<<w.sm.h, w.sm.r>>][a.kind] = a.hash}

\* A state machine that may propose has a view of its height, or is behind.
Sighted(s, d) == ~s.catchup /\ Sees(s) => s.vrv.h = s.h \/ s.h < d.nhr.vh

Prompted(A, w, s) ==
    /\ s.acts \in Seq(Prompts(A, w))
    /\ s.init /\ s.pc = "enter" => s.acts = <<>>
    /\ HandedOn(Signatures(A), s.vrv) /\ HandedOn(Signatures(A), s.entered)
    /\ Sighted(s, w.disk)

Signing(A, w, g, q, s) ==
    /\ Safe(Signatures(A), w, g, q)
    /\ Remembered(A, w.disk)
    /\ w.up => Prompted(A, w, s)

SigningInv == Signing(store.acts, kernel, hs, phQueue, sm)

\* B has what A has recorded.
Grown(A, B) ==
    /\ Wider(Signatures(A), Signatures(B))
    /\ \A x \in HR, k \in Kinds, b \in Hashes : A[x][k] = b => B[x][k] = b

\* The mirror of x is not behind that of w, and both take the state machine to
\* be in the same round.
Abreast(w, x) ==
    /\ w.disk.nhr.vh <= x.disk.nhr.vh
    /\ x.sm.h = w.sm.h /\ x.sm.r = w.sm.r /\ (x.sm.live <=> w.sm.live)

\* Nothing recorded, nothing grown.
LEMMA GrownItself == ASSUME NEW A PROVE Grown(A, A)
  BY DEF Grown, Wider

\* A recorded header stays one.
LEMMA OwnedKept ==
    ASSUME NEW A, NEW B, Wider(Signatures(A), Signatures(B)), NEW d \in Disk, NEW e \in Disk,
           d.nhr.vh <= e.nhr.vh, NEW p, Owned(A, d, p)
    PROVE  Owned(B, e, p)
  <1>1. p \in Proposal /\ p.by \in Signatures(A)[<<"ph", p.h, p.r, p.hash>>]
    BY DEF Owned
  <1>2. p.h \in Nat /\ p.r \in Nat /\ p.hash \in Hashes
    <2>1. p.h \in Heights /\ p.r \in Rounds /\ p.hash \in Blocks
      BY <1>1 DEF Proposal
    <2> QED BY <2>1, HRType, BlocksAreHashes
  <1>3. p.by \in Signatures(B)[<<"ph", p.h, p.r, p.hash>>]
    BY <1>1, <1>2 DEF Wider
  <1>4. p \in Carriers(Signatures(A)) => p \in Carriers(Signatures(B))
    BY WiderCarriers
  <1>5. d.nhr.vh \in Nat /\ e.nhr.vh \in Nat
    BY DEF Disk
  <1>6. p.h < d.nhr.vh => p.h < e.nhr.vh
    BY <1>2, <1>5
  <1> QED BY <1>1, <1>3, <1>4, <1>6 DEF Owned

\* So do all of them.
LEMMA RememberedKept ==
    ASSUME NEW A, NEW d \in Disk, NEW e \in Disk, d.nhr.vh <= e.nhr.vh, Remembered(A, d)
    PROVE  Remembered(A, e)
  <1>1. Wider(Signatures(A), Signatures(A))
    BY DEF Wider
  <1> QED BY <1>1, OwnedKept DEF Remembered

\* An action on its way stays one while the mirror is abreast.
LEMMA PromptsKept ==
    ASSUME NEW A, NEW B, Grown(A, B), NEW w \in Kernel, NEW x \in Kernel, Abreast(w, x)
    PROVE  Prompts(A, w) \subseteq Prompts(B, x)
  <1> SUFFICES ASSUME NEW a \in Prompts(A, w) PROVE a \in Prompts(B, x)
    OBVIOUS
  <1>1. a \in Action
    BY DEF Prompts
  <1>2. CASE a.kind = "ph"
    <2>1. Owned(A, w.disk, a.ph)
      BY <1>2 DEF Prompts
    <2>2. Owned(B, x.disk, a.ph)
      BY <2>1, OwnedKept, KernelDisk DEF Grown, Abreast
    <2> QED BY <1>1, <1>2, <2>2 DEF Prompts
  <1>3. CASE a.kind # "ph"
    <2>1. a.kind \in Kinds /\ a.hash \in Hashes
      BY <1>1, <1>3, ActionFields
    <2>2. /\ w.sm.live /\ <<w.sm.h, w.sm.r>> \in HR
          /\ A[<<w.sm.h, w.sm.r>>][a.kind] = a.hash
      BY <1>3 DEF Prompts
    <2>3. B[<<w.sm.h, w.sm.r>>][a.kind] = a.hash
      BY <2>1, <2>2 DEF Grown
    <2> QED BY <1>1, <1>3, <2>2, <2>3 DEF Prompts, Abreast
  <1> QED BY <1>2, <1>3

\* What a state machine knows of views survives.
LEMMA KnownKept ==
    ASSUME NEW A, NEW B, Wider(Signatures(A), Signatures(B)), NEW v \in SeenView,
           HandedOn(Signatures(A), v)
    PROVE  HandedOn(Signatures(B), v)
  BY WiderHandedOn DEF SeenView

\* A state machine that keeps its actions and its view, or takes another one
\* that is genuine, stays in order.
LEMMA PromptedKept ==
    ASSUME NEW A, NEW B, Grown(A, B), NEW w \in Kernel, NEW x \in Kernel, Abreast(w, x),
           NEW s \in Life, NEW y \in Life, Prompted(A, w, s), NEW v, Calm(s, y, v),
           HandedOn(Signatures(B), v), y.init /\ y.pc = "enter" => s.init /\ s.pc = "enter",
           (Sees(y) => Sees(s)) \/ y.vrv.h = y.h
    PROVE  Prompted(B, x, y)
  <1>1. /\ y.acts = s.acts /\ y.entered = s.entered /\ (s.catchup => y.catchup)
        /\ y.vrv = s.vrv \/ y.vrv = v
        /\ (y.h = s.h /\ (y.vrv.h = s.vrv.h \/ y.vrv.h = s.h)) \/ (y.pc = "save" /\ ~y.lenient)
    BY DEF Calm
  <1>2. y.acts \in Seq(Prompts(B, x))
    BY <1>1, PromptsKept DEF Prompted
  <1>3. y.init /\ y.pc = "enter" => y.acts = <<>>
    BY <1>1 DEF Prompted
  <1>4. HandedOn(Signatures(B), y.vrv) /\ HandedOn(Signatures(B), y.entered)
    <2>1. s.vrv \in SeenView /\ s.entered \in SeenView
      BY DEF Life
    <2> QED BY <1>1, <2>1, KnownKept DEF Prompted, Grown
  <1>5. ASSUME ~y.catchup, Sees(y) PROVE y.vrv.h = y.h \/ y.h < x.disk.nhr.vh
    <2>1. y.pc # "save" \/ y.lenient
      BY <1>5 DEF Sees
    <2>2. y.h = s.h /\ (y.vrv.h = s.vrv.h \/ y.vrv.h = s.h)
      BY <1>1, <2>1
    <2>3. y.vrv.h = y.h \/ s.vrv.h = s.h \/ s.h < w.disk.nhr.vh
      BY <1>1, <1>5 DEF Prompted, Sighted
    <2>4. w.disk.nhr.vh \in Nat /\ x.disk.nhr.vh \in Nat /\ s.h \in Nat
      BY KernelDisk DEF Disk, Life
    <2> QED BY <2>2, <2>3, <2>4 DEF Abreast
  <1> QED BY <1>2, <1>3, <1>4, <1>5 DEF Prompted, Sighted

\* A state machine that does nothing stays in order.
LEMMA PromptedSame ==
    ASSUME NEW A, NEW w \in Kernel, NEW x \in Kernel, Abreast(w, x), NEW s \in Life,
           Prompted(A, w, s)
    PROVE  Prompted(A, x, s)
  <1>1. Calm(s, s, s.vrv)
    BY LifeShaped, StillItself, StillIsCalm
  <1>2. HandedOn(Signatures(A), s.vrv)
    BY DEF Prompted
  <1> QED BY <1>1, <1>2, GrownItself, PromptedKept

-----------------------------------------------------------------------------
(* The steps.  A is what is recorded before one. *)

Ready(A) ==
    /\ EngineInv /\ EngineInv' /\ A = store.acts
    /\ Signing(A, kernel, hs, phQueue, sm)

\* Disk image e is at the same place as d or a later one, with its headers.
Later(d, e) ==
    /\ e.nhr.vh > d.nhr.vh \/ (e.nhr.vh = d.nhr.vh /\ e.nhr.vr >= d.nhr.vr)
    /\ \A x \in HR : d.phs[x] \subseteq e.phs[x]

Kept(A) == Signing(A, kernel', hs', phQueue', sm') /\ Later(kernel.disk, kernel'.disk)

\* What the invariants say of the two states.
LEMMA ReadyFacts ==
    ASSUME ReplaysNear, NEW A, Ready(A)
    PROVE  /\ Signatures(A) \in Signers /\ Standing(Signatures(A))
           /\ kernel \in Kernel /\ kernel' \in Kernel /\ sm \in Life /\ sm' \in Life
           /\ kernel.disk \in Disk /\ kernel'.disk \in Disk
           /\ hs \in [Handlers -> Handler] /\ hs' \in [Handlers -> Handler]
           /\ store \in Stores /\ Remembered(A, kernel.disk)
           /\ kernel.up => Prompted(A, kernel, sm)
  <1>1. TypeOK /\ Placed /\ sm \in Life /\ store \in Stores
    BY DEF Ready, EngineInv, MirrorInv, InOrder, Finished
  <1>2. kernel' \in Kernel /\ hs' \in [Handlers -> Handler] /\ sm' \in Life
    BY DEF Ready, EngineInv, MirrorInv, TypeOK, InOrder
  <1>3. Safe(Signatures(A), kernel, hs, phQueue)
    BY DEF Ready, Signing
  <1>4. Standing(Signatures(A))
    BY <1>1, <1>3, InvariantsStand
  <1>5. kernel \in Kernel /\ hs \in [Handlers -> Handler]
    BY <1>1 DEF TypeOK
  <1> QED BY <1>1, <1>2, <1>4, <1>5, SignaturesType, KernelDisk DEF Ready, Signing

\* The mirror's place does not go back.
LEMMA ExtendsPlace ==
    ASSUME NEW S, NEW d \in Disk, NEW e \in Disk, Extends(S, d, e)
    PROVE  d.nhr.vh <= e.nhr.vh
  <1>1. d.nhr.vh \in Nat /\ e.nhr.vh \in Nat
    BY DEF Disk
  <1> QED BY <1>1 DEF Extends

\* A step that keeps the mirror's stores in order.
LEMMA StoredKept ==
    ASSUME ReplaysNear, NEW A, Ready(A), StoredOn(Signatures(A)),
           kernel'.up => Prompted(A, kernel', sm')
    PROVE  Kept(A)
  <1>1. kernel.disk.nhr.vh <= kernel'.disk.nhr.vh
    BY ReadyFacts, ExtendsPlace DEF StoredOn
  <1>2. Remembered(A, kernel'.disk)
    BY <1>1, ReadyFacts, RememberedKept
  <1> QED BY <1>2 DEF Kept, Signing, StoredOn, Extends, Later

\* A step of the mirror that the state machine does not notice.
LEMMA UnnoticedKept ==
    ASSUME ReplaysNear, NEW A, Ready(A), StoredOn(Signatures(A)), kernel.up,
           kernel'.up => Onward(kernel, kernel'), kernel'.up => sm' = sm
    PROVE  Kept(A)
  <1>1. kernel.disk.nhr.vh <= kernel'.disk.nhr.vh
    BY ReadyFacts, ExtendsPlace DEF StoredOn
  <1>2. kernel'.up => Abreast(kernel, kernel')
    BY <1>1 DEF Onward, At, Abreast
  <1>3. kernel'.up => Prompted(A, kernel', sm)
    BY <1>2, ReadyFacts, PromptedSame
  <1> QED BY <1>3, StoredKept

\* Votes of the signer that are recorded are genuine.
LEMMA CastGenuine ==
    ASSUME NEW A, A = store.acts, NEW k \in Kinds, NEW h \in Nat, NEW r \in Rounds,
           NEW ps \in Proofs, Cast(k, h, r, ps)
    PROVE  Genuine(Signatures(A), k, h, r, ps)
  <1> SUFFICES ASSUME NEW b \in Hashes, NEW v \in ps[b]
               PROVE  v \in Signatures(A)[<<k, h, r, b>>]
    BY DEF Genuine
  <1>1. v \in Val /\ r \in Nat /\ k # "ph"
    BY HRType DEF Proofs, Kinds
  <1>2. v = OwnKey => <<h, r>> \in HR /\ A[<<h, r>>][k] = b
    BY DEF Cast
  <1>3. v = OwnKey => <<h, r>> \in HR /\ Acted(A[<<h, r>>], k, b)
    BY <1>1, <1>2 DEF Acted
  <1> QED BY <1>1, <1>3, SignaturesAt

\* So are headers that the signer has recorded, or others have made.
LEMMA MadeCarries ==
    ASSUME NEW A, A = store.acts, NEW p \in Proposal, Made(p)
    PROVE  p \in Carriers(Signatures(A))
  <1>1. /\ p.h \in Nat /\ p.r \in Rounds /\ p.r \in Nat /\ p.hash \in Hashes /\ p.by \in Val
        /\ p.prevR \in Rounds /\ p.prev \in Proofs /\ p.h - 1 \in Nat /\ <<p.h, p.r>> \in HR
    <2>1. /\ p.h \in Heights /\ p.r \in Rounds /\ p.hash \in Blocks /\ p.prevR \in Rounds
          /\ p.by \in Val /\ p.prev \in Proofs
      BY DEF Proposal
    <2>2. p.h - 1 \in Nat
      BY <2>1, BoundsAssumption DEF Heights
    <2> QED BY <2>1, <2>2, HRType, BlocksAreHashes DEF HR
  <1>2. Genuine(Signatures(A), "precommit", p.h - 1, p.prevR, p.prev)
    <2> DEFINE h == p.h - 1
    <2>1. Cast("precommit", h, p.prevR, p.prev) /\ "precommit" \in Kinds /\ h \in Nat
      BY <1>1 DEF Made, Kinds
    <2> HIDE DEF h
    <2>2. Genuine(Signatures(A), "precommit", h, p.prevR, p.prev)
      BY <1>1, <2>1, CastGenuine
    <2> QED BY <2>2 DEF h
  <1>3. p # NoProposal
    <2>1. NoProposal.by \notin Val
      BY BoundsAssumption DEF NoProposal
    <2> QED BY <1>1, <2>1
  <1>4. p.by = OwnKey => Acted(A[<<p.h, p.r>>], "ph", p.hash)
    BY <1>3 DEF Made, Acted
  <1>5. p.by \in Signatures(A)[<<"ph", p.h, p.r, p.hash>>]
    BY <1>1, <1>4, SignaturesAt
  <1> QED BY <1>2, <1>5 DEF Carriers

\* What a goroutine goes on with was signed.
LEMMA BringsBrought ==
    ASSUME NEW A, A = store.acts, NEW c \in Handlers, hs'[c] \in Handler, Brings(c)
    PROVE  Brought(Signatures(A), hs'[c])
  <1> DEFINE g == hs'[c]
  <1>1. /\ g.ph \in Proposal \cup {NoProposal} /\ g.msg.kind \in Kinds /\ g.msg.h \in Nat
        /\ g.msg.r \in Rounds /\ g.msg.proofs \in Proofs
    BY DEF Handler
  <1>2. Made(g.ph) /\ Cast(g.msg.kind, g.msg.h, g.msg.r, g.msg.proofs)
    BY DEF Brings
  <1> HIDE DEF g
  <1>3. g.ph \in Carriers(Signatures(A)) \cup {NoProposal}
    BY <1>1, <1>2, MadeCarries
  <1>4. Genuine(Signatures(A), g.msg.kind, g.msg.h, g.msg.r, g.msg.proofs)
    BY <1>1, <1>2, CastGenuine
  <1> QED BY <1>3, <1>4 DEF Brought, g

\* The mirror's own steps.
LEMMA MirrorAloneKept ==
    ASSUME ReplaysNear, NEW A, Ready(A), MirrorAlone PROVE Kept(A)
  <1> DEFINE S == Signatures(A)
             Own == \/ \E c \in Handlers : HandlerNext(c)
                    \/ AddQueuedPH
                    \/ \E p \in Proposals : AddFetchedPH(p)
                    \/ \E c \in ReplayedHeaders, room \in FetchRooms : Replay(c, room)
                    \/ SendToGossip
                    \/ SendLagState
  <1>1. Alive /\ Own /\ Survives(sm) /\ A = store.acts /\ EngineInv
    BY DEF MirrorAlone, Ready
  <1>2. kernel.up /\ TypeOK /\ Placed
    BY <1>1, AliveFacts
  <1>3. kernel'.up => Onward(kernel, kernel')
    BY <1>1, <1>2, MirrorOnward
  <1>4. S \in Signers /\ Standing(S) /\ hs' \in [Handlers -> Handler]
    BY ReadyFacts
  <1> HIDE DEF Own, S
  <1>5. StoredOn(S)
    <2>1. ASSUME NEW c \in Handlers, HandlerNext(c), Brings(c) PROVE StoredOn(S)
      <3>1. Brought(S, hs'[c])
        BY <1>1, <1>4, <2>1, BringsBrought DEF S
      <3> QED BY <1>4, <2>1, <3>1, HandlerStepStored
    <2>2. ASSUME NEW p \in Proposals, Made(p), AddFetchedPH(p) PROVE StoredOn(S)
      <3>1. p \in Proposal
        BY InputAssumption
      <3>2. p \in Carriers(S)
        BY <1>1, <2>2, <3>1, MadeCarries DEF S
      <3> QED BY <1>2, <1>4, <2>2, <3>2, StandingFacts, AddPHStored DEF AddFetchedPH, Carriers
    <2>3. ASSUME NEW c \in ReplayedHeaders, NEW room \in FetchRooms,
                 Cast("precommit", c.h, c.r, c.proofs), Replay(c, room)
          PROVE  StoredOn(S)
      <3>1. c.h \in Nat /\ c.r \in Rounds /\ c.proofs \in Proofs /\ "precommit" \in Kinds
        BY InputAssumption, HRType DEF ReplayedHeader, Kinds
      <3>2. Genuine(S, "precommit", c.h, c.r, c.proofs)
        BY <1>1, <2>3, <3>1, CastGenuine DEF S
      <3> QED BY <1>4, <2>3, <3>2, ReplayStored
    <2> QED BY <1>4, <2>1, <2>2, <2>3, AddQueuedPHStored, ReadersStored DEF MirrorAlone
  <1>6. kernel'.up => sm' = sm
    BY <1>1 DEF Survives
  <1> QED BY <1>2, <1>3, <1>5, <1>6, UnnoticedKept DEF S

\* A state machine that has not begun has no action on its way and no view.
LEMMA BlankPrompted ==
    ASSUME NEW A, NEW w, NEW s, s.acts = <<>>, s.vrv.h = 0, s.entered.h = 0, ~Sees(s)
    PROVE  Prompted(A, w, s)
  BY DEF Prompted, HandedOn, Sighted

\* Nor has that of a new process.
LEMMA NewPrompted ==
    ASSUME NEW A, NEW w, NEW g PROVE Prompted(A, w, NewStateMachine(g))
  <1> DEFINE s == NewStateMachine(g)
  <1>1. s.acts = <<>> /\ s.vrv.h = 0 /\ s.entered.h = 0 /\ ~Sees(s)
    BY DEF NewStateMachine, NoView, Seen, ZeroView, Sees
  <1> HIDE DEF s
  <1>2. Prompted(A, w, s)
    BY <1>1, BlankPrompted
  <1> QED BY <1>2 DEF s

\* A crash, and a restart from the disk image that it left.
LEMMA CrashRestartKept ==
    ASSUME ReplaysNear, NEW A, Ready(A), EngineCrash \/ EngineRestart PROVE Kept(A)
  <1>1. Crash \/ Restart
    BY DEF EngineCrash, EngineRestart
  <1>2. StoredOn(Signatures(A))
    BY <1>1, ReadyFacts, CrashRestartStored
  <1>3. EngineCrash => ~kernel'.up
    BY DEF EngineCrash, Crash, Dies, BlankKernel
  <1>4. EngineRestart => Prompted(A, kernel', sm')
    BY NewPrompted DEF EngineRestart
  <1> QED BY <1>2, <1>3, <1>4, StoredKept

\* The mirror stays as it is, and nothing is recorded.
LEMMA SMAloneKept ==
    ASSUME ReplaysNear, NEW A, Ready(A), UNCHANGED mirrorVars,
           kernel.up => Prompted(A, kernel, sm')
    PROVE  Kept(A)
  <1>1. /\ Safe(Signatures(A), kernel, hs, phQueue) /\ Remembered(A, kernel.disk)
    BY DEF Ready, Signing
  <1>2. kernel' = kernel /\ hs' = hs /\ phQueue' = phQueue
    BY DEF mirrorVars
  <1>3. Later(kernel.disk, kernel'.disk)
    BY <1>2, ReadyFacts DEF Disk, Later
  <1> QED BY <1>1, <1>2, <1>3 DEF Kept, Signing

\* So does the state machine, but for its round lifecycle and its last view.
LEMMA CalmKept ==
    ASSUME ReplaysNear, NEW A, Ready(A), UNCHANGED mirrorVars, Alive, NEW s, sm' = s,
           NEW v, Calm(sm, s, v), HandedOn(Signatures(A), v),
           s.init /\ s.pc = "enter" => sm.init /\ sm.pc = "enter",
           (Sees(s) => Sees(sm)) \/ s.vrv.h = s.h
    PROVE  Kept(A)
  <1>1. /\ kernel \in Kernel /\ sm \in Life /\ s \in Life /\ kernel.up
        /\ Prompted(A, kernel, sm)
    BY ReadyFacts DEF Alive
  <1>2. Abreast(kernel, kernel)
    <2>1. kernel.disk.nhr.vh \in Nat
      BY <1>1, KernelDisk DEF Disk
    <2> QED BY <2>1 DEF Abreast
  <1>3. Prompted(A, kernel, s)
    BY <1>1, <1>2, GrownItself, PromptedKept
  <1> QED BY <1>3, SMAloneKept

\* A step of the main loop, or one to the end of the goroutine.
LEMMA StillKept ==
    ASSUME ReplaysNear, NEW A, Ready(A), UNCHANGED mirrorVars, Alive, NEW s, sm' = s,
           Calm(sm, s, sm.vrv), s.pc # "enter", Sees(s) => Sees(sm)
    PROVE  Kept(A)
  <1>1. HandedOn(Signatures(A), sm.vrv)
    BY ReadyFacts DEF Alive, Prompted
  <1> QED BY <1>1, CalmKept

\* sendInitialActionSet.
LEMMA SMStartKept == ASSUME ReplaysNear, NEW A, Ready(A), SMStart PROVE Kept(A)
  <1>1. Alive /\ sm.pc = "start" /\ UNCHANGED mirrorVars
    BY DEF SMStart, SMOnly, mirrorVars
  <1>2. sm \in Life /\ sm = NewStateMachine(sm.genesis)
    BY <1>1 DEF Ready, EngineInv, InOrder, Ordered
  <1>3. /\ sm.acts = <<>> /\ sm.vrv.h = 0 /\ sm.entered.h = 0 /\ ~sm.lenient
    BY <1>2 DEF NewStateMachine, NoView, Seen, ZeroView
  <1>4. ASSUME NEW h, NEW r
        PROVE  Prompted(A, kernel, [Reset(sm, h, r) EXCEPT !.pc = "enter"])
    <2> DEFINE s == [Reset(sm, h, r) EXCEPT !.pc = "enter"]
    <2>1. /\ s.acts = sm.acts /\ s.vrv = sm.vrv /\ s.entered = sm.entered
          /\ s.lenient = sm.lenient /\ s.pc = "enter"
      BY <1>2 DEF Reset, Life
    <2> HIDE DEF s
    <2>2. Prompted(A, kernel, s)
      BY <1>3, <2>1, BlankPrompted DEF Sees
    <2> QED BY <2>2 DEF s
  <1>5. Prompted(A, kernel, Quit(sm))
    <2> DEFINE s == Quit(sm)
    <2>1. /\ s.acts = sm.acts /\ s.vrv = sm.vrv /\ s.entered = sm.entered
          /\ s.lenient = sm.lenient /\ s.pc = "quit"
      BY <1>2 DEF Quit, Life
    <2> HIDE DEF s
    <2>2. Prompted(A, kernel, s)
      BY <1>3, <2>1, BlankPrompted DEF Sees
    <2> QED BY <2>2 DEF s
  <1>6. Prompted(A, kernel, sm')
    BY <1>4, <1>5 DEF SMStart, SMOnly
  <1> QED BY <1>1, <1>6, SMAloneKept

\* SetStateMachineHeightRound.
LEMMA SMSaveKept == ASSUME ReplaysNear, NEW A, Ready(A), SMSave PROVE Kept(A)
  <1> DEFINE s == [sm EXCEPT !.pc = "enter"]
  <1>1. Alive /\ sm.pc = "save" /\ UNCHANGED mirrorVars /\ sm' = s
    BY DEF SMSave
  <1>2. sm \in Life /\ ~sm.init
    BY <1>1 DEF Ready, EngineInv, InOrder, Ordered
  <1>3. Still(sm, s) /\ ~s.init /\ (Sees(s) => Sees(sm))
    BY <1>2 DEF Still, Shaped, Fields, Life, Sees
  <1> HIDE DEF s
  <1>4. HandedOn(Signatures(A), sm.vrv)
    BY <1>1, ReadyFacts DEF Alive, Prompted
  <1> QED BY <1>1, <1>3, <1>4, StillIsCalm, CalmKept

\* The consensus manager takes a request.
LEMMA CMTakeRequestKept == ASSUME ReplaysNear, NEW A, Ready(A), CMTakeRequest PROVE Kept(A)
  <1> DEFINE s == TakeRequest(sm)
  <1>1. Alive /\ sm.pc = "send" /\ UNCHANGED mirrorVars /\ sm' = s
    BY DEF CMTakeRequest, SMOnly, mirrorVars
  <1>2. sm \in Life /\ Ordered(sm)
    BY DEF Ready, EngineInv, InOrder
  <1>3. s.pc # "enter"
    BY <1>1, <1>2, TakeRequestStepped DEF Settled, Moved
  <1>4. Still(sm, s) /\ (sm.req.op = "enter" => s.pc = "wait" /\ s.lenient = sm.lenient)
    BY <1>2, ManagerStill
  <1> HIDE DEF s
  <1>5. Sees(s) => Sees(sm)
    BY <1>1, <1>4 DEF Sees
  <1> QED BY <1>1, <1>3, <1>4, <1>5, StillIsCalm, StillKept

\* A request that waits too long ends the process.
LEMMA SendTimeoutKept == ASSUME ReplaysNear, NEW A, Ready(A), SendTimeout PROVE Kept(A)
  <1> DEFINE s == SMPanic(sm)
  <1>1. Alive /\ UNCHANGED mirrorVars /\ sm' = s
    BY DEF SendTimeout, SMOnly, mirrorVars
  <1>2. sm \in Life
    BY ReadyFacts
  <1>3. Still(sm, s)
    BY <1>2, LifeShaped, FieldsStill
  <1>4. s.pc # "enter" /\ (Sees(s) => Sees(sm))
    BY <1>2 DEF SMPanic, Life, Sees
  <1> HIDE DEF s
  <1> QED BY <1>1, <1>3, <1>4, StillIsCalm, StillKept

\* EnterRound has returned: the round begins.
LEMMA EnterRoundReturnsKept ==
    ASSUME ReplaysNear, NEW A, Ready(A), EnterRoundReturns PROVE Kept(A)
  <1> DEFINE t == [sm EXCEPT !.cm = IdleManager]
             s == beginRoundLive(t)
  <1>1. Alive /\ sm.pc = "wait" /\ UNCHANGED mirrorVars /\ sm' = s
    BY DEF EnterRoundReturns, SMOnly, mirrorVars
  <1>2. sm \in Life /\ At(sm.entered, sm) /\ s \in Life
    BY <1>1, ReadyFacts DEF Ready, EngineInv, InOrder, Ordered
  <1>3. t \in Life /\ At(t.entered, t) /\ t.lenient = sm.lenient /\ t.entered = sm.entered
    BY <1>2 DEF Life, IdleManager, At
  <1>4. Still(sm, t)
    BY <1>2, ManagerStill
  <1> HIDE DEF t
  <1>5. Calm(t, s, sm.entered) /\ (s.vrv = sm.entered \/ (Sees(s) => sm.lenient))
    BY <1>3, beginRoundLiveCalm
  <1> HIDE DEF s
  <1>6. Calm(sm, s, sm.entered)
    BY <1>4, <1>5, StillCalm
  <1>7. HandedOn(Signatures(A), sm.entered)
    BY <1>1, ReadyFacts DEF Alive, Prompted
  <1>8. s.pc # "enter"
    BY <1>1, RoundBegins DEF Ready, Settled, Moved, s, t
  <1>9. (Sees(s) => Sees(sm)) \/ s.vrv.h = s.h
    <2>1. CASE s.vrv = sm.entered
      <3>1. s.vrv.h = sm.h
        BY <1>2, <2>1 DEF At
      <3>2. Sees(s) => s.h = sm.h
        BY <1>6 DEF Calm, Sees
      <3> QED BY <3>1, <3>2
    <2>2. CASE Sees(s) => sm.lenient
      BY <2>2 DEF Sees
    <2> QED BY <1>5, <2>1, <2>2
  <1> QED BY <1>1, <1>6, <1>7, <1>8, <1>9, CalmKept

\* The strategy answers, or says that it is not ready.
LEMMA AnswersKept ==
    ASSUME ReplaysNear, NEW A, Ready(A), NotReady \/ (\E hash \in Hashes : StrategyChooses(hash))
    PROVE  Kept(A)
  <1>1. Alive /\ UNCHANGED mirrorVars /\ sm \in Life
    BY ReadyFacts DEF NotReady, StrategyChooses, SMOnly, mirrorVars
  <1>2. HandedOn(Signatures(A), sm.vrv)
    BY <1>1, ReadyFacts DEF Alive, Prompted
  <1>3. CASE NotReady
    <2> DEFINE s == [sm EXCEPT !.cm = IdleManager]
    <2>1. sm' = s
      BY <1>3 DEF NotReady, SMOnly
    <2>2. Still(sm, s) /\ (Sees(s) => Sees(sm))
      BY <1>1, ManagerStill
    <2>3. s.pc = sm.pc /\ s.init = sm.init
      BY <1>1 DEF Life
    <2> HIDE DEF s
    <2> QED BY <1>1, <1>2, <2>1, <2>2, <2>3, StillIsCalm, CalmKept
  <1>4. ASSUME NEW hash \in Hashes, StrategyChooses(hash) PROVE Kept(A)
    <2> DEFINE s == SendResult(sm, hash)
    <2>1. sm' = s
      BY <1>4 DEF StrategyChooses, SMOnly
    <2>2. Still(sm, s) /\ (Sees(s) => Sees(sm))
      BY <1>1, ManagerStill
    <2>3. s.pc = sm.pc /\ s.init = sm.init
      BY <1>1 DEF SendResult, Life
    <2> HIDE DEF s
    <2> QED BY <1>1, <1>2, <2>1, <2>2, <2>3, StillIsCalm, CalmKept
  <1> QED BY <1>3, <1>4

\* A timer elapses, a height is committed, block data arrives.
LEMMA EventKept ==
    ASSUME ReplaysNear, NEW A, Ready(A),
           TimerElapsed \/ HeightCommitted \/ (\E b \in Blocks : BlockDataArrival(b))
    PROVE  Kept(A)
  <1>1. Alive /\ sm.pc = "run" /\ ~sm.catchup /\ UNCHANGED mirrorVars
    BY DEF TimerElapsed, HeightCommitted, BlockDataArrival, Live, SMOnly, mirrorVars
  <1>2. sm \in Life /\ Ordered(sm) /\ Sees(sm)
    BY <1>1 DEF Ready, EngineInv, InOrder, Sees
  <1>3. ASSUME NEW s, sm' = s, Stepped(sm, s), Calm(sm, s, sm.vrv) PROVE Kept(A)
    <2>1. s.pc # "enter"
      BY <1>3 DEF Stepped, Moved
    <2> QED BY <1>1, <1>2, <1>3, <2>1, StillKept
  <1>4. CASE TimerElapsed
    <2>1. sm.timer # "none" /\ sm' = handleTimerElapsed(sm)
      BY <1>4 DEF TimerElapsed, SMOnly
    <2>2. Stepped(sm, handleTimerElapsed(sm))
      BY <1>1, <1>2, <2>1, handleTimerElapsedSettled, SettledStepped
    <2> QED BY <1>2, <1>3, <2>1, <2>2, EventsCalm
  <1>5. CASE HeightCommitted
    BY <1>1, <1>2, <1>3, <1>5, handleHeightCommittedStepped, EventsCalm
       DEF HeightCommitted, SMOnly
  <1>6. ASSUME NEW b \in Blocks, BlockDataArrival(b) PROVE Kept(A)
    BY <1>1, <1>2, <1>3, <1>6, handleBlockDataArrivalStepped, EventsCalm
       DEF BlockDataArrival, SMOnly
  <1> QED BY <1>4, <1>5, <1>6

\* A finalization.
LEMMA FinalizationKept == ASSUME ReplaysNear, NEW A, Ready(A), Finalization PROVE Kept(A)
  <1> DEFINE t == IF sm.catchup THEN [sm EXCEPT !.step = "awaitingFinalization"] ELSE sm
             y == handleFinalization(t)
  <1>1. /\ Alive /\ sm.pc = "run" /\ UNCHANGED mirrorVars
        /\ sm' = SMPanic(sm) \/ sm' = Quit(sm) \/ sm' = y
    BY DEF Finalization
  <1>2. sm \in Life /\ Sees(sm)
    BY <1>1, ReadyFacts DEF Sees
  <1>3. ASSUME NEW s \in {SMPanic(sm), Quit(sm)}, sm' = s PROVE Kept(A)
    <2>1. Still(sm, s)
      BY <1>2, LifeShaped, FieldsStill
    <2>2. s.pc # "enter"
      BY <1>2 DEF SMPanic, Quit, Life
    <2> QED BY <1>1, <1>2, <1>3, <2>1, <2>2, StillIsCalm, StillKept
  <1>4. ASSUME sm' = y PROVE Kept(A)
    <2>1. Still(sm, t)
      BY <1>2, LifeShaped, StillItself, FieldsStill
    <2>2. t \in Life /\ t.pc = "run"
      BY <1>1, <1>2 DEF Life, Steps
    <2> HIDE DEF t
    <2>3. Calm(t, y, sm.vrv)
      BY <2>2, EventsCalm
    <2>4. y.pc \in {"run", "save"}
      BY <2>2 DEF handleFinalization, advanceHeight, Reset, Life
    <2> HIDE DEF y
    <2>5. Calm(sm, y, sm.vrv)
      BY <2>1, <2>3, StillCalm
    <2> QED BY <1>1, <1>2, <1>4, <2>4, <2>5, StillKept
  <1> QED BY <1>1, <1>3, <1>4

\* A view update.
LEMMA ViewUpdateKept == ASSUME ReplaysNear, NEW A, Ready(A), ViewUpdate PROVE Kept(A)
  <1> DEFINE o == StateMachineOutput(kernel.sm)
             v == Seen(o.vrv)
             j == Seen(o.jump)
             x == handleViewUpdate(sm, v, j)
  <1>1. /\ Live /\ Alive /\ sm.pc = "run" /\ SendToStateMachine /\ sm' = x /\ EngineInv
    BY DEF ViewUpdate, Live, Ready
  <1>2. /\ TypeOK /\ Placed /\ kernel \in Kernel /\ kernel' \in Kernel /\ kernel.up
        /\ sm \in Life /\ x \in Life /\ Prompted(A, kernel, sm)
        /\ Standing(Signatures(A)) /\ Signatures(A) \in Signers
    BY <1>1, ReadyFacts, AliveFacts
  <1>3. StoredOn(Signatures(A))
    BY <1>2, <1>1, SendToStateMachineStored
  <1>4. kernel'.up
    BY <1>1, <1>2 DEF SendToStateMachine, Kernel
  <1>5. Onward(kernel, kernel')
    BY <1>1, <1>2, <1>4, MirrorOnward
  <1>6. Abreast(kernel, kernel')
    BY <1>3, <1>5, ReadyFacts, ExtendsPlace DEF StoredOn, Onward, At, Abreast
  <1>7. /\ InStep(sm) \/ v.h = 0
        /\ x = sm \/ Settled(sm, x)
    BY <1>1, ViewUpdateMoves
  <1>8. HandedOn(Signatures(A), v)
    <2>1. HandedOn(Signatures(A), kernel.sm.out)
      BY <1>2 DEF Standing, Good
    <2>2. o.vrv = ZeroView \/ o.vrv = kernel.sm.out
      BY <1>2, OutputViews
    <2> HIDE DEF o
    <2>3. v.h = o.vrv.h /\ v.prev = o.vrv.prev
      BY DEF Seen
    <2>4. HandedOn(Signatures(A), o.vrv)
      BY <2>1, <2>2 DEF HandedOn, ZeroView
    <2> HIDE DEF v
    <2> QED BY <2>3, <2>4 DEF HandedOn
  <1> HIDE DEF o, v, j
  <1>9. Calm(sm, x, v)
    <2>1. v.h = 0 \/ (sm.step \in Steps /\ sm.step # "invalid")
      BY <1>2, <1>7 DEF InStep, Life
    <2> QED BY <1>2, <2>1, LifeShaped, handleViewUpdateCalm
  <1> HIDE DEF x
  <1>10. x.pc # "enter" /\ (Sees(x) => Sees(sm))
    BY <1>1, <1>7 DEF Settled, Moved, Sees
  <1>11. Prompted(A, kernel', x)
    BY <1>2, <1>6, <1>8, <1>9, <1>10, GrownItself, PromptedKept
  <1> QED BY <1>1, <1>3, <1>11, StoredKept

-----------------------------------------------------------------------------
(* The signer's own actions.  B is what is recorded after the step. *)

\* The action store refuses a second action of a kind for a round.
LEMMA RecordGrown ==
    ASSUME NEW A, NEW B,
           \A x \in HR, k \in Kinds : A[x][k] # NoVote => B[x][k] = A[x][k],
           \A x \in HR : A[x].ph # NoProposal => B[x].ph = A[x].ph
    PROVE  Grown(A, B)
  <1>1. \A b \in Hashes : b # NoVote
    BY BlocksAssumption DEF NoVote, Hashes
  <1>2. \A x \in HR, k \in Kinds, b \in Hashes : A[x][k] = b => B[x][k] = b
    BY <1>1
  <1>3. ASSUME NEW k \in Kinds \cup {"ph"}, NEW h \in Nat, NEW r \in Nat, NEW b \in Hashes,
               NEW v \in Signatures(A)[<<k, h, r, b>>]
        PROVE  v \in Signatures(B)[<<k, h, r, b>>]
    <2>1. /\ v \in Val /\ r \in Rounds
          /\ v = OwnKey => <<h, r>> \in HR /\ Acted(A[<<h, r>>], k, b)
      BY <1>3, SignaturesAt
    <2>2. <<h, r>> \in HR /\ Acted(A[<<h, r>>], k, b) => Acted(B[<<h, r>>], k, b)
      BY <1>2 DEF Acted
    <2> QED BY <2>1, <2>2, SignaturesAt
  <1>4. Wider(Signatures(A), Signatures(B))
    BY <1>3 DEF Wider
  <1> QED BY <1>2, <1>4 DEF Grown

\* Recording leaves the mirror's stores as safe as they were, and what is on
\* its way to the mirror recorded.
LEMMA RecordedKept ==
    ASSUME ReplaysNear, NEW A, Ready(A), NEW B, Grown(A, B), Alive, UNCHANGED mirrorVars,
           \A x \in HR : B[x].ph # A[x].ph => Owned(B, kernel.disk, B[x].ph),
           NEW s, sm' = s, s.vrv = sm.vrv, s.entered = sm.entered, s.h = sm.h, s.pc = "run",
           s.catchup = sm.catchup, sm.pc = "run",
           NEW a \in Prompts(B, kernel), s.acts = Append(sm.acts, a)
    PROVE  Kept(B)
  <1>1. /\ kernel' = kernel /\ hs' = hs /\ phQueue' = phQueue
        /\ kernel \in Kernel /\ kernel.disk \in Disk /\ sm \in Life /\ kernel.up
        /\ hs \in [Handlers -> Handler]
        /\ Prompted(A, kernel, sm) /\ Remembered(A, kernel.disk)
        /\ Safe(Signatures(A), kernel, hs, phQueue)
    BY ReadyFacts DEF mirrorVars, Alive, Ready, Signing
  <1>2. kernel.disk.nhr.vh \in Nat
    BY <1>1 DEF Disk
  <1>3. Safe(Signatures(B), kernel, hs, phQueue)
    BY <1>1, WiderSafe DEF Grown
  <1>4. Remembered(B, kernel.disk)
    <2> SUFFICES ASSUME NEW x \in HR, B[x].ph # NoProposal, B[x].ph = A[x].ph
                 PROVE  Owned(B, kernel.disk, B[x].ph)
      BY DEF Remembered
    <2>1. Owned(A, kernel.disk, A[x].ph)
      BY <1>1 DEF Remembered
    <2> QED BY <1>1, <1>2, <2>1, OwnedKept DEF Grown
  <1>5. Abreast(kernel, kernel)
    BY <1>2 DEF Abreast
  <1>6. sm.acts \in Seq(Prompts(B, kernel))
    BY <1>1, <1>5, PromptsKept DEF Prompted
  <1>7. s.acts \in Seq(Prompts(B, kernel))
    BY <1>6
  <1>8. HandedOn(Signatures(B), s.vrv) /\ HandedOn(Signatures(B), s.entered)
    <2>1. sm.vrv \in SeenView /\ sm.entered \in SeenView
      BY <1>1 DEF Life
    <2> QED BY <1>1, <2>1, KnownKept DEF Prompted, Grown
  <1>9. Sighted(s, kernel.disk)
    BY <1>1 DEF Prompted, Sighted, Sees
  <1>10. Prompted(B, kernel, s)
    BY <1>7, <1>8, <1>9 DEF Prompted
  <1>11. Later(kernel.disk, kernel'.disk)
    BY <1>1 DEF Disk, Later
  <1> QED BY <1>1, <1>3, <1>4, <1>10, <1>11 DEF Kept, Signing

\* A step that does not record because there is a record already.
LEMMA RefusedKept ==
    ASSUME ReplaysNear, NEW A, Ready(A), Live, UNCHANGED mirrorVars, sm' = Quit(sm)
    PROVE  Kept(A)
  <1> DEFINE s == Quit(sm)
  <1>1. sm \in Life /\ Alive /\ sm.pc = "run"
    BY ReadyFacts DEF Live
  <1>2. Still(sm, s) /\ s.pc # "enter" /\ Sees(sm) /\ sm' = s
    BY <1>1, LifeShaped, FieldsStill DEF Quit, Life, Sees
  <1> HIDE DEF s
  <1> QED BY <1>1, <1>2, StillIsCalm, StillKept

\* A vote.
LEMMA VoteKept ==
    ASSUME ReplaysNear, NEW A, Ready(A), NEW B, B = store'.acts, Live, NEW k \in Kinds,
           NEW b \in Hashes, NEW s, Act(k, b, NoVote, s),
           s.vrv = sm.vrv, s.entered = sm.entered, s.h = sm.h, s.pc = "run",
           s.catchup = sm.catchup, s.acts = Append(sm.acts, [kind |-> k, hash |-> b])
    PROVE  Kept(B)
  <1> DEFINE x == <<sm.h, sm.r>>
             a == [kind |-> k, hash |-> b]
  <1>1. /\ A = store.acts /\ store \in Stores /\ kernel \in Kernel /\ Link(kernel, sm)
        /\ UNCHANGED mirrorVars /\ Alive /\ sm.pc = "run" /\ k # "ph"
    BY ReadyFacts, AliveFacts DEF Act, Ready, Live, Kinds
  <1>2. /\ x \in HR /\ kernel.sm.live /\ <<kernel.sm.h, kernel.sm.r>> = x
    BY <1>1, RoundPlace DEF Link, InRound, At
  <1>3. A \in [HR -> [ph : Proposal \cup {NoProposal}, prevote : Hashes \cup {NoVote},
                      precommit : Hashes \cup {NoVote}]]
    BY <1>1 DEF Stores
  <1>4. CASE A[x][k] # NoVote
    <2>1. sm' = Quit(sm) /\ B = A
      BY <1>1, <1>4 DEF Act
    <2> QED BY <1>1, <2>1, RefusedKept
  <1>5. CASE A[x][k] = NoVote
    <2>1. sm' = s /\ B = [A EXCEPT ![x] = [A[x] EXCEPT ![k] = b]]
      BY <1>1, <1>2, <1>5 DEF Act, Stores
    <2>2. /\ \A y \in HR : y # x => B[y] = A[y]
          /\ B[x] = [A[x] EXCEPT ![k] = b]
      BY <1>2, <1>3, <2>1
    <2>3. A[x] \in [ph : Proposal \cup {NoProposal}, prevote : Hashes \cup {NoVote},
                    precommit : Hashes \cup {NoVote}]
      BY <1>2, <1>3
    <2>4. /\ B[x].ph = A[x].ph /\ B[x][k] = b
          /\ \A j \in Kinds : j # k => B[x][j] = A[x][j]
      BY <1>1, <2>2, <2>3 DEF Kinds
    <2>5. /\ \A y \in HR : B[y].ph = A[y].ph
          /\ \A y \in HR, j \in Kinds : A[y][j] # NoVote => B[y][j] = A[y][j]
      BY <1>5, <2>2, <2>4
    <2>6. Grown(A, B)
      BY <2>5, RecordGrown
    <2>7. a \in Action /\ a.kind # "ph" /\ a.kind = k /\ a.hash = b
      BY <1>1 DEF Action
    <2>8. a \in Prompts(B, kernel)
      BY <1>2, <2>4, <2>7 DEF Prompts
    <2> HIDE DEF a
    <2> QED BY <1>1, <2>1, <2>5, <2>6, <2>8, RecordedKept DEF a
  <1> QED BY <1>4, <1>5

\* recordPrevote and recordPrecommit.
LEMMA VotesKept ==
    ASSUME ReplaysNear, NEW A, Ready(A), NEW B, B = store'.acts, Prevote \/ Precommit
    PROVE  Kept(B)
  <1>1. Live /\ sm \in Life /\ sm.pc = "run" /\ "prevote" \in Kinds /\ "precommit" \in Kinds
    BY ReadyFacts DEF Prevote, Precommit, Live, Kinds
  <1>2. CASE Prevote
    <2> DEFINE s == recordPrevote(sm)
               b == sm.prevoteCh
    <2>1. b \in Hashes /\ Act("prevote", b, NoVote, s)
      BY <1>2 DEF Prevote
    <2>2. /\ s.vrv = sm.vrv /\ s.entered = sm.entered /\ s.h = sm.h /\ s.pc = "run"
          /\ s.catchup = sm.catchup /\ s.acts = Append(sm.acts, [kind |-> "prevote", hash |-> b])
      BY <1>1 DEF recordPrevote, SendVote, Life
    <2> HIDE DEF s, b
    <2> QED BY <1>1, <2>1, <2>2, VoteKept
  <1>3. CASE Precommit
    <2> DEFINE s == recordPrecommit(sm)
               b == sm.precommitCh
    <2>1. b \in Hashes /\ Act("precommit", b, NoVote, s)
      BY <1>3 DEF Precommit
    <2>2. /\ s.vrv = sm.vrv /\ s.entered = sm.entered /\ s.h = sm.h /\ s.pc = "run"
          /\ s.catchup = sm.catchup /\ s.acts = Append(sm.acts, [kind |-> "precommit", hash |-> b])
      BY <1>1 DEF recordPrecommit, SendVote, Life
    <2> HIDE DEF s, b
    <2> QED BY <1>1, <2>1, <2>2, VoteKept
  <1> QED BY <1>2, <1>3

\* The header that the signer makes from its last view names a genuine previous
\* commit proof, unless the mirror is past its height.
LEMMA ProposalOwned ==
    ASSUME ReplaysNear, NEW A, Ready(A), NEW B, Wider(Signatures(A), Signatures(B)),
           NEW p \in Proposals, Propose(p), B[<<sm.h, sm.r>>].ph = p
    PROVE  Owned(B, kernel.disk, p)
  <1>1. /\ p \in Proposal /\ p.by = OwnKey /\ p.h = sm.h /\ p.r = sm.r
        /\ p.prevR = sm.vrv.prev.r /\ p.prev = sm.vrv.prev.proofs
        /\ Alive /\ sm.pc = "run" /\ ~sm.catchup /\ sm \in Life
    BY InputAssumption, ReadyFacts DEF Propose, Live
  <1>2. /\ p.h \in Nat /\ p.r \in Rounds /\ p.r \in Nat /\ p.hash \in Hashes /\ p.by \in Val
        /\ p.prevR \in Nat /\ p.h - 1 \in Nat /\ <<p.h, p.r>> \in HR /\ p.h # 0
    <2>1. /\ p.h \in Heights /\ p.r \in Rounds /\ p.hash \in Blocks /\ p.prevR \in Rounds
          /\ p.by \in Val
      BY <1>1 DEF Proposal
    <2>2. p.h - 1 \in Nat /\ p.h # 0
      BY <2>1, BoundsAssumption DEF Heights
    <2> QED BY <2>1, <2>2, HRType, BlocksAreHashes DEF HR
  <1>3. p # NoProposal
    <2>1. NoProposal.by \notin Val
      BY BoundsAssumption DEF NoProposal
    <2> QED BY <1>2, <2>1
  <1>4. p.by \in Signatures(B)[<<"ph", p.h, p.r, p.hash>>]
    <2>1. Acted(B[<<p.h, p.r>>], "ph", p.hash)
      BY <1>1, <1>3 DEF Acted
    <2> QED BY <1>2, <2>1, SignaturesAt
  <1>5. Prompted(A, kernel, sm)
    BY <1>1, ReadyFacts DEF Alive
  <1>6. CASE sm.vrv.h = sm.h
    <2>1. HandedOn(Signatures(B), sm.vrv)
      <3>1. sm.vrv \in SeenView
        BY <1>1 DEF Life
      <3> QED BY <1>5, <3>1, KnownKept DEF Prompted
    <2>2. Genuine(Signatures(B), "precommit", p.h - 1, p.prevR, p.prev)
      BY <1>1, <1>2, <1>6, <2>1 DEF HandedOn
    <2> QED BY <1>1, <1>4, <2>2 DEF Owned, Carriers
  <1>7. CASE sm.vrv.h # sm.h
    <2>1. Sees(sm)
      BY <1>1 DEF Sees
    <2>2. sm.h < kernel.disk.nhr.vh
      BY <1>1, <1>5, <1>7, <2>1 DEF Prompted, Sighted
    <2> QED BY <1>1, <1>4, <2>2 DEF Owned
  <1> QED BY <1>6, <1>7

\* recordProposedHeader.
LEMMA ProposeKept ==
    ASSUME ReplaysNear, NEW A, Ready(A), NEW B, B = store'.acts, NEW p \in Proposals, Propose(p)
    PROVE  Kept(B)
  <1> DEFINE x == <<sm.h, sm.r>>
             a == [kind |-> "ph", ph |-> p]
             s == recordProposedHeader(sm, p)
  <1>1. /\ A = store.acts /\ store \in Stores /\ kernel \in Kernel /\ Link(kernel, sm)
        /\ UNCHANGED mirrorVars /\ Live /\ Alive /\ sm.pc = "run" /\ sm \in Life
        /\ Act("ph", p, NoProposal, s)
    BY ReadyFacts, AliveFacts DEF Propose, Act, Ready, Live
  <1>2. x \in HR
    BY <1>1, RoundPlace DEF Link, InRound, At
  <1>3. A \in [HR -> [ph : Proposal \cup {NoProposal}, prevote : Hashes \cup {NoVote},
                      precommit : Hashes \cup {NoVote}]]
    BY <1>1 DEF Stores
  <1>4. CASE A[x].ph # NoProposal
    <2>1. sm' = Quit(sm) /\ B = A
      BY <1>1, <1>4 DEF Act
    <2> QED BY <1>1, <2>1, RefusedKept
  <1>5. CASE A[x].ph = NoProposal
    <2>1. sm' = s /\ B = [A EXCEPT ![x] = [A[x] EXCEPT !.ph = p]]
      BY <1>1, <1>2, <1>5 DEF Act, Stores
    <2>2. /\ \A y \in HR : y # x => B[y] = A[y]
          /\ B[x] = [A[x] EXCEPT !.ph = p]
      BY <1>2, <1>3, <2>1
    <2>3. A[x] \in [ph : Proposal \cup {NoProposal}, prevote : Hashes \cup {NoVote},
                    precommit : Hashes \cup {NoVote}]
      BY <1>2, <1>3
    <2>4. B[x].ph = p /\ \A j \in Kinds : B[x][j] = A[x][j]
      BY <2>2, <2>3 DEF Kinds
    <2>5. /\ \A y \in HR : A[y].ph # NoProposal => B[y].ph = A[y].ph
          /\ \A y \in HR, j \in Kinds : A[y][j] # NoVote => B[y][j] = A[y][j]
      BY <1>5, <2>2, <2>4
    <2>6. Grown(A, B)
      BY <2>5, RecordGrown
    <2>7. Owned(B, kernel.disk, p)
      BY <2>4, <2>6, ProposalOwned DEF Grown
    <2>8. \A y \in HR : B[y].ph # A[y].ph => Owned(B, kernel.disk, B[y].ph)
      BY <2>2, <2>4, <2>7
    <2>9. /\ s.vrv = sm.vrv /\ s.entered = sm.entered /\ s.h = sm.h /\ s.pc = "run"
          /\ s.catchup = sm.catchup /\ s.acts = Append(sm.acts, a)
      BY <1>1 DEF recordProposedHeader, Life
    <2>10. a \in Action /\ a.kind = "ph" /\ a.ph = p
      BY <2>7 DEF Action, Owned
    <2>11. a \in Prompts(B, kernel)
      BY <2>7, <2>10 DEF Prompts
    <2> HIDE DEF a, s
    <2> QED BY <1>1, <2>1, <2>6, <2>8, <2>9, <2>11, RecordedKept
  <1> QED BY <1>4, <1>5

\* The mirror takes an action: a header or a vote that is recorded.
LEMMA TakenStored ==
    ASSUME ReplaysNear, NEW A, Ready(A), kernel.up, NEW a \in Prompts(A, kernel),
           NEW room \in FetchRooms,
           KernelStep(IF a.kind = "ph" THEN addProposedHeader(kernel, a.ph)
                      ELSE handleStateMachineVote(WithRoom(kernel, room), a.kind, a.hash, OwnKey),
                      hs, phQueue)
    PROVE  StoredOn(Signatures(A))
  <1> DEFINE S == Signatures(A)
  <1>1. /\ S \in Signers /\ Standing(S) /\ kernel \in Kernel /\ Sound(kernel)
        /\ phQueue \in Seq(Carriers(S)) /\ a \in Action
    BY ReadyFacts, StandingFacts DEF Prompts
  <1>2. CASE a.kind = "ph"
    <2> DEFINE p == a.ph
    <2>1. Owned(A, kernel.disk, p) /\ KernelStep(addProposedHeader(kernel, p), hs, phQueue)
      BY <1>2 DEF Prompts
    <2>2. p \in Proposal /\ p.by \in S[<<"ph", p.h, p.r, p.hash>>]
      BY <2>1 DEF Owned
    <2>3. p.h = kernel.voting.h => p \in Carriers(S)
      <3>1. kernel.disk.nhr.vh = kernel.voting.h
        BY <1>1 DEF Sound, Recorded
      <3>2. kernel.voting.h \in Nat
        BY <1>1 DEF Kernel, View
      <3> QED BY <2>1, <3>1, <3>2 DEF Owned
    <2> HIDE DEF S, p
    <2> QED BY <1>1, <2>1, <2>2, <2>3, AddPHStored DEF S
  <1>3. CASE a.kind # "ph"
    <2>1. a.kind \in Kinds /\ a.hash \in Hashes
      BY <1>1, <1>3, ActionFields
    <2>2. /\ kernel.sm.live /\ <<kernel.sm.h, kernel.sm.r>> \in HR
          /\ A[<<kernel.sm.h, kernel.sm.r>>][a.kind] = a.hash
      BY <1>3 DEF Prompts
    <2>3. kernel.sm.h \in Nat /\ kernel.sm.r \in Rounds /\ kernel.sm.r \in Nat /\ OwnKey \in Val
      BY <2>2, HRType, InputAssumption
    <2>4. Acted(A[<<kernel.sm.h, kernel.sm.r>>], a.kind, a.hash)
      BY <1>3, <2>2 DEF Acted
    <2>5. OwnKey \in S[<<a.kind, kernel.sm.h, kernel.sm.r, a.hash>>]
      BY <2>1, <2>2, <2>3, <2>4, SignaturesAt
    <2>6. KernelStep(handleStateMachineVote(WithRoom(kernel, room), a.kind, a.hash, OwnKey),
                     hs, phQueue)
      BY <1>3
    <2> HIDE DEF S
    <2> QED BY <1>1, <2>1, <2>2, <2>5, <2>6, OwnVoteStored DEF S
  <1> QED BY <1>2, <1>3

\* Nor does the mirror's place for the state machine move with it.
LEMMA TakenOnward ==
    ASSUME NEW a \in Action, NEW room \in FetchRooms, kernel \in Kernel, Sound(kernel),
           NEW w, w = IF a.kind = "ph" THEN addProposedHeader(kernel, a.ph)
                      ELSE handleStateMachineVote(WithRoom(kernel, room), a.kind, a.hash, OwnKey)
    PROVE  w \in Kernel /\ Onward(kernel, w)
  <1> DEFINE k == WithRoom(kernel, room)
  <1>1. k \in Kernel /\ Sound(k) /\ Onward(kernel, k)
    BY WithRoomType, WithRoomSound, QuietOnward
  <1>2. CASE a.kind = "ph"
    <2>1. a.ph \in Proposal /\ w = addProposedHeader(kernel, a.ph)
      BY <1>2, ActionFields
    <2> QED BY <2>1, addProposedHeaderType, addProposedHeaderOnward
  <1>3. CASE a.kind # "ph"
    <2>1. /\ a.kind \in Kinds /\ a.hash \in Hashes /\ OwnKey \in Val
          /\ w = handleStateMachineVote(k, a.kind, a.hash, OwnKey)
      BY <1>3, ActionFields, InputAssumption
    <2> HIDE DEF k
    <2>2. w \in Kernel /\ Onward(k, w)
      BY <1>1, <2>1, handleStateMachineVoteType, handleStateMachineVoteOnward
    <2> QED BY <1>1, <2>2, OnwardBoth
  <1> QED BY <1>2, <1>3

\* The kernel's case of the actions channel.
LEMMA MirrorTakesActionKept ==
    ASSUME ReplaysNear, NEW A, Ready(A), NEW room \in FetchRooms, MirrorTakesAction(room)
    PROVE  Kept(A)
  <1> DEFINE a == Head(sm.acts)
             w == IF a.kind = "ph" THEN addProposedHeader(kernel, a.ph)
                  ELSE handleStateMachineVote(WithRoom(kernel, room), a.kind, a.hash, OwnKey)
             s == [sm EXCEPT !.acts = Tail(@)]
  <1>1. /\ Alive /\ sm.acts # <<>> /\ KernelStep(w, hs, phQueue) /\ Survives(s)
        /\ EngineInv /\ kernel.up
    BY DEF MirrorTakesAction, Ready, Alive
  <1>2. /\ kernel \in Kernel /\ kernel' \in Kernel /\ Sound(kernel) /\ sm \in Life /\ Prompted(A, kernel, sm)
    BY <1>1, ReadyFacts, AliveFacts
  <1>3. sm.acts \in Seq(Prompts(A, kernel))
    BY <1>2 DEF Prompted
  <1>4. a \in Prompts(A, kernel) /\ Tail(sm.acts) \in Seq(Prompts(A, kernel))
    BY <1>1, <1>3
  <1>5. /\ s.acts = Tail(sm.acts) /\ s.vrv = sm.vrv /\ s.entered = sm.entered /\ s.h = sm.h
        /\ s.pc = sm.pc /\ s.init = sm.init /\ s.catchup = sm.catchup /\ s.req = sm.req
        /\ s.lenient = sm.lenient
    BY <1>2 DEF Life
  <1> HIDE DEF a, s
  <1>6. Prompted(A, kernel, s)
    BY <1>1, <1>2, <1>4, <1>5 DEF Prompted, Sighted, Sees
  <1>7. StoredOn(Signatures(A))
    BY <1>1, <1>4, TakenStored
  <1>8. w \in Kernel /\ Onward(kernel, w)
    <2>1. a \in Action
      BY <1>4 DEF Prompts
    <2> QED BY <1>2, <2>1, TakenOnward
  <1> HIDE DEF w
  <1>9. kernel'.up => Onward(kernel, kernel')
    BY <1>1, <1>2, <1>8, KernelStepOnward
  <1>10. kernel.disk.nhr.vh <= kernel'.disk.nhr.vh
    BY <1>7, ReadyFacts, ExtendsPlace DEF StoredOn
  <1>11. kernel'.up => Abreast(kernel, kernel')
    BY <1>9, <1>10 DEF Onward, At, Abreast
  <1>12. kernel'.up => sm' = s
    BY <1>1 DEF Survives
  <1>13. kernel'.up => s \in Life
    BY <1>12, ReadyFacts
  <1>14. kernel'.up => Prompted(A, kernel', sm')
    BY <1>2, <1>6, <1>11, <1>12, <1>13, PromptedSame
  <1> QED BY <1>7, <1>14, StoredKept

-----------------------------------------------------------------------------
(* Entering a round.  The mirror's idea of the place of the state machine     *)
(* changes, and what was on its way in the last round is dropped.             *)

\* What a view hands on, it does to the state machine that sees it.
LEMMA SeenHandedOn == ASSUME NEW S, NEW v, HandedOn(S, v) PROVE HandedOn(S, Seen(v))
  BY DEF HandedOn, Seen

\* A round that is answered with a view: the signer's recorded header is sent
\* again, if at all.
LEMMA EnterLivePrompted ==
    ASSUME NEW A, NEW w, NEW s \in Life,
           s.init => s.acts = <<>>, Sighted(s, w.disk),
           HandedOn(Signatures(A), s.vrv), HandedOn(Signatures(A), s.entered),
           NEW v \in SeenView, At(v, s), HandedOn(Signatures(A), v),
           NEW x, \/ /\ x.pc = "send" /\ x.req.op = "enter" /\ x.vrv \in {s.vrv, v}
                     /\ x.entered.h = v.h /\ x.entered.prev = v.prev
                     /\ x.acts \in Seq(Prompts(A, w))
                     /\ x.h = s.h /\ x.lenient = s.lenient /\ x.catchup = s.catchup
                  \/ x = Quit(s) /\ s.init
    PROVE  Prompted(A, w, x)
  <1>1. CASE x = Quit(s) /\ s.init
    <2>1. /\ x.pc = "quit" /\ x.vrv = s.vrv /\ x.entered = s.entered /\ x.acts = s.acts
          /\ x.h = s.h /\ x.lenient = s.lenient /\ x.catchup = s.catchup
      BY <1>1 DEF Quit, Life
    <2>2. Sighted(x, w.disk)
      BY <2>1 DEF Sighted, Sees
    <2>3. x.acts = <<>>
      BY <1>1, <2>1
    <2>4. \A X : <<>> \in Seq(X)
      OBVIOUS
    <2> QED BY <2>1, <2>2, <2>3, <2>4 DEF Prompted
  <1>2. CASE ~(x = Quit(s) /\ s.init)
    <2>1. /\ x.pc = "send" /\ x.req.op = "enter" /\ x.vrv \in {s.vrv, v}
          /\ x.entered.h = v.h /\ x.entered.prev = v.prev
          /\ x.acts \in Seq(Prompts(A, w))
          /\ x.h = s.h /\ x.lenient = s.lenient /\ x.catchup = s.catchup
      BY <1>2
    <2>2. Sighted(x, w.disk)
      BY <2>1 DEF Sighted, Sees, At
    <2>3. HandedOn(Signatures(A), x.vrv) /\ HandedOn(Signatures(A), x.entered)
      BY <2>1 DEF HandedOn
    <2> QED BY <2>1, <2>2, <2>3 DEF Prompted
  <1> QED BY <1>1, <1>2

\* EnterLive makes one of these.  In the first round of a process the signer's
\* recorded header is sent again unless the view has one.
LEMMA EnterLiveShape ==
    ASSUME sm \in Life, store \in Stores, NEW v \in SeenView, NEW x, x = EnterLive(v),
           NEW own, own = store.acts[<<sm.h, sm.r>>].ph
    PROVE  \/ /\ x.pc = "send" /\ x.req.op = "enter" /\ x.h = sm.h /\ x.r = sm.r
              /\ x.lenient = sm.lenient /\ x.catchup = sm.catchup
              /\ x.vrv \in {sm.vrv, v} /\ x.entered.h = v.h /\ x.entered.prev = v.prev
              /\ \/ /\ x.acts = <<>>
                    /\ sm.init => own = NoProposal \/ \E p \in v.phs : p.by = OwnKey
                 \/ x.acts = <<[kind |-> "ph", ph |-> own]>> /\ own # NoProposal
           \/ x = Quit(sm) /\ sm.init
  <1>1. CASE ~sm.init
    <2> DEFINE y == Request([sm EXCEPT !.acts = <<>>, !.entered = v], "enter", {}, FALSE)
    <2>1. x = y
      BY <1>1 DEF EnterLive
    <2>2. /\ y.pc = "send" /\ y.req.op = "enter" /\ y.vrv = sm.vrv /\ y.entered = v
          /\ y.acts = <<>> /\ y.h = sm.h /\ y.r = sm.r
          /\ y.lenient = sm.lenient /\ y.catchup = sm.catchup
      BY DEF Request, Life
    <2> HIDE DEF y
    <2> QED BY <1>1, <2>1, <2>2
  <1>2. CASE sm.init
    <2> DEFINE phs      == rejectMismatchedProposedHeaders(v.phs)
               proposed == \E p \in phs : p.by = OwnKey
               resend   == ~proposed /\ own # NoProposal
               vrv      == IF AtGenesis THEN sm.vrv ELSE v
               ch       == ~proposed /\ ~resend
               acts     == IF resend THEN <<[kind |-> "ph", ph |-> own]>> ELSE <<>>
               e        == [v EXCEPT !.phs = phs \cup
                              IF resend THEN {[hash |-> own.hash, by |-> OwnKey]} ELSE {}]
               y == Request([sm EXCEPT !.vrv = vrv, !.proposalCh = ch, !.acts = acts,
                                       !.entered = e], "enter", {}, FALSE)
    <2>1. x = y \/ x = Quit(sm)
      BY <1>2 DEF EnterLive, InitialLive
    <2>2. /\ \/ acts = <<>> /\ (own = NoProposal \/ \E p \in v.phs : p.by = OwnKey)
             \/ acts = <<[kind |-> "ph", ph |-> own]>> /\ own # NoProposal
          /\ vrv \in {sm.vrv, v}
      BY DEF rejectMismatchedProposedHeaders
    <2>3. e.h = v.h /\ e.prev = v.prev
      BY DEF SeenView
    <2> HIDE DEF acts, e, ch, vrv
    <2>4. /\ y.pc = "send" /\ y.req.op = "enter" /\ y.vrv = vrv /\ y.entered = e
          /\ y.acts = acts /\ y.h = sm.h /\ y.r = sm.r
          /\ y.lenient = sm.lenient /\ y.catchup = sm.catchup
      BY DEF Request, Life
    <2> HIDE DEF y
    <2> QED BY <1>2, <2>1, <2>2, <2>3, <2>4
  <1> QED BY <1>1, <1>2

\* A round that is answered with a committed header is one the mirror is past.
LEMMA EnterReplayPrompted ==
    ASSUME NEW A, NEW w \in Kernel, NEW s \in Life, Ordered(s), s.pc = "enter",
           HandedOn(Signatures(A), s.vrv), HandedOn(Signatures(A), s.entered),
           s.h < w.disk.nhr.vh,
           NEW f \in [h : Nat, r : Nat, hash : Hashes], f.hash # Nil, NEW x, x = Replayed(s, f)
    PROVE  Prompted(A, w, x)
  <1> DEFINE y == [s EXCEPT !.acts = <<>>, !.finalizing = f]
             z == IF s.init THEN y ELSE MarkCatchingUp(y)
  <1>1. x = Run(z)
    BY DEF Replayed
  <1>2. /\ Shaped(z) /\ z.h = s.h /\ z.vrv = s.vrv /\ z.acts = <<>> /\ z.entered = s.entered
    BY DEF MarkCatchingUp, Life, Shaped, Fields
  <1> HIDE DEF z
  <1>3. Still(z, x)
    BY <1>1, <1>2, RunStill
  <1>4. x.pc # "enter"
    BY ReplayMoved DEF Moved
  <1>5. /\ x.h = s.h /\ x.vrv = s.vrv /\ x.acts = <<>> /\ x.entered = s.entered
    BY <1>2, <1>3 DEF Still
  <1>6. Sighted(x, w.disk)
    BY <1>5 DEF Sighted
  <1> QED BY <1>4, <1>5, <1>6 DEF Prompted

\* The mirror is past a place before its Committing view.
LEMMA BeforeCommittingPast ==
    ASSUME NEW w \in Kernel, Sound(w), NEW h \in Nat \ {0}, NEW r \in Nat,
           FindView(w, h, r) = "beforeCommitting"
    PROVE  h < w.disk.nhr.vh
  <1>1. h <= w.committing.h
    BY KernelPlaces, FindViewPlace DEF Sound
  <1>2. /\ Consecutive(w.voting.h, w.committing.h, w.committing.r)
        /\ w.disk.nhr.vh = w.voting.h
    BY DEF Sound, Aligned, Recorded
  <1>3. w.voting.h \in Nat /\ w.committing.h \in Nat
    BY KernelPlaces
  <1> QED BY <1>1, <1>2, <1>3 DEF Consecutive

\* handleStateMachineRoundEntrance and initializeRLC.
LEMMA SMEnterKept == ASSUME ReplaysNear, NEW A, Ready(A), SMEnter PROVE Kept(A)
  <1> DEFINE h  == sm.h
             r  == sm.r
             id == FindView(kernel, h, r)
             w  == handleStateMachineRoundEntrance(kernel, h, r)
             v  == Seen(GetView(kernel, id))
             c  == kernel.disk.headers[h]
             x  == IF id \in FoundIDs THEN EnterLive(v) ELSE EnterReplay(c)
             S  == Signatures(A)
  <1>1. /\ Alive /\ sm.pc = "enter" /\ <<h, r>> \in SMRounds /\ kernel.up
        /\ KernelStep(w, hs, phQueue) /\ Survives(x) /\ EngineInv /\ A = store.acts
    BY DEF SMEnter, Alive, Ready
  <1>2. /\ kernel \in Kernel /\ kernel' \in Kernel /\ Sound(kernel) /\ Good(S, kernel)
        /\ kernel.disk \in Disk /\ kernel'.disk \in Disk
        /\ sm \in Life /\ Ordered(sm) /\ store \in Stores
        /\ S \in Signers /\ Standing(S) /\ Prompted(A, kernel, sm) /\ Remembered(A, kernel.disk)
    BY <1>1, AliveFacts, ReadyFacts, StandingFacts
  <1>3. h \in Nat /\ h # 0 /\ r \in Nat /\ h \in Heights /\ <<h, r>> \in HR
    <2> DEFINE y == <<h, r>>
    <2>1. y[1] = h /\ y[2] = r /\ y \in SMRounds
      BY <1>1
    <2>2. y \in HR /\ h \in Heights /\ h \in Nat \ {0} /\ r \in Nat
      <3> HIDE DEF y, h, r
      <3> QED BY <2>1, RoundPlace
    <2> QED BY <2>2
  <1>4. w \in Kernel
    BY <1>2, <1>3, handleStateMachineRoundEntranceType
  <1>5. StoredOn(S)
    <2> HIDE DEF S, h, r
    <2> QED BY <1>1, <1>2, <1>3, RoundEntranceStored
  <1>6. kernel.disk.nhr.vh <= kernel'.disk.nhr.vh
    BY <1>2, <1>5, ExtendsPlace DEF StoredOn
  <1>7. Sighted(sm, kernel'.disk)
    <2>1. kernel.disk.nhr.vh \in Nat /\ kernel'.disk.nhr.vh \in Nat
      BY <1>2 DEF Disk
    <2> QED BY <1>2, <1>3, <1>6, <2>1 DEF Prompted, Sighted
  <1>8. ASSUME kernel'.up PROVE Prompted(A, kernel', x)
    <2>1. ~w.panic
      <3> HIDE DEF w
      <3> QED BY <1>1, <1>4, <1>8, KernelStepSurvived
    <2>2. id \in FoundIDs \/ (id = "beforeCommitting" /\ c.hash # Nil)
      <3>1. w = handleStateMachineRoundEntrance(kernel, h, r)
        OBVIOUS
      <3> HIDE DEF w, h, r
      <3> QED BY <1>2, <1>3, <2>1, <3>1, RoundEntranceEffect
    <2>3. CASE id \in FoundIDs
      <3> DEFINE g == GetView(kernel, id)
                 own == store.acts[<<sm.h, sm.r>>].ph
      <3>1. g \in View /\ g.h = h /\ g.r = r
        BY <1>2, <2>3, GetViewType, FindViewPlace DEF Sound
      <3>2. HandedOn(S, g)
        BY <1>2, <2>3 DEF Good, GoodView, GenuineView
      <3>3. v \in SeenView /\ At(v, sm)
        BY <3>1, SeenType DEF At
      <3>4. HandedOn(S, v)
        <4> HIDE DEF g
        <4> QED BY <3>2, SeenHandedOn DEF g
      <3>5. x = EnterLive(v)
        BY <2>3
      <3>6. own # NoProposal => [kind |-> "ph", ph |-> own] \in Prompts(A, kernel')
        <4> SUFFICES ASSUME own # NoProposal
                     PROVE  [kind |-> "ph", ph |-> own] \in Prompts(A, kernel')
          OBVIOUS
        <4>1. Owned(A, kernel.disk, own)
          BY <1>1, <1>2, <1>3 DEF Remembered
        <4>2. Owned(A, kernel'.disk, own)
          BY <1>2, <1>6, <4>1, GrownItself, OwnedKept DEF Grown
        <4>3. own \in Proposal
          BY <4>1 DEF Owned
        <4> HIDE DEF own
        <4> DEFINE a == [kind |-> "ph", ph |-> own]
        <4>4. a \in Action /\ a.kind = "ph" /\ a.ph = own
          BY <4>3 DEF Action
        <4> HIDE DEF a
        <4>5. a \in Prompts(A, kernel')
          BY <4>2, <4>4 DEF Prompts
        <4> QED BY <4>5 DEF a
      <3> HIDE DEF x, v, id, own
      <3>7. \/ /\ x.pc = "send" /\ x.req.op = "enter" /\ x.h = sm.h
               /\ x.lenient = sm.lenient /\ x.catchup = sm.catchup
               /\ x.vrv \in {sm.vrv, v} /\ x.entered.h = v.h /\ x.entered.prev = v.prev
               /\ x.acts = <<>> \/ (x.acts = <<[kind |-> "ph", ph |-> own]>> /\ own # NoProposal)
            \/ x = Quit(sm) /\ sm.init
        BY <1>2, <3>3, <3>5, EnterLiveShape DEF own
      <3>8. \A X : <<>> \in Seq(X)
        OBVIOUS
      <3>9. \A X : \A a \in X : <<a>> \in Seq(X)
        OBVIOUS
      <3>10. x.acts \in Seq(Prompts(A, kernel')) \/ (x = Quit(sm) /\ sm.init)
        BY <3>6, <3>7, <3>8, <3>9
      <3>11. /\ sm.init => sm.acts = <<>>
             /\ HandedOn(S, sm.vrv) /\ HandedOn(S, sm.entered)
        BY <1>1, <1>2 DEF Prompted
      <3> QED BY <1>2, <1>7, <3>3, <3>4, <3>7, <3>10, <3>11, EnterLivePrompted
    <2>4. CASE id \notin FoundIDs
      <3> DEFINE f == [h |-> sm.h, r |-> c.r, hash |-> c.hash]
      <3>1. c.r \in Nat /\ c.hash \in Hashes
        BY <1>2, <1>3 DEF Disk
      <3>2. f \in [h : Nat, r : Nat, hash : Hashes] /\ f.hash # Nil
        BY <1>3, <2>2, <2>4, <3>1
      <3>3. x = Replayed(sm, f)
        BY <2>4 DEF EnterReplay, Replayed
      <3>4. sm.h < kernel.disk.nhr.vh
        BY <1>2, <1>3, <2>2, <2>4, BeforeCommittingPast
      <3>5. sm.h < kernel'.disk.nhr.vh
        <4>1. kernel.disk.nhr.vh \in Nat /\ kernel'.disk.nhr.vh \in Nat
          BY <1>2 DEF Disk
        <4> QED BY <1>3, <1>6, <3>4, <4>1
      <3> HIDE DEF x, f
      <3>6. HandedOn(S, sm.vrv) /\ HandedOn(S, sm.entered)
        BY <1>2 DEF Prompted
      <3> QED BY <1>1, <1>2, <3>2, <3>3, <3>5, <3>6, EnterReplayPrompted
    <2> QED BY <2>3, <2>4
  <1> HIDE DEF x, S
  <1>9. kernel'.up => Prompted(A, kernel', sm')
    BY <1>1, <1>8 DEF Survives
  <1> QED BY <1>5, <1>9, StoredKept DEF S

-----------------------------------------------------------------------------
(* The first state. *)

\* All validators together are a majority.
LEMMA AllAreMajority == PowerOf[Val] >= Majority
  <1>1. PowerOf[Val] \in Nat /\ PowerOf[Val] > 0
    <2>1. Val \in SUBSET Val
      OBVIOUS
    <2> QED BY <2>1, PowerIsNat, PowerAssumption
  <1>2. Majority \in Nat /\ 3 * (Majority - 1) <= 2 * PowerOf[Val]
    BY <1>1, MajorityIsLeastAboveTwoThirds DEF Majority, AvailablePower
  <1> QED BY <1>1, <1>2

\* What the signer did in the past.
LEMMA PastSigned ==
    ASSUME NEW A, A = PastStore.acts, NEW h \in Past
    PROVE  /\ <<h, 0>> \in HR /\ A[<<h, 0>>].ph \in Proposal /\ A[<<h, 0>>].ph # NoProposal
           /\ A[<<h, 0>>].ph.h = h /\ A[<<h, 0>>].ph.r = 0 /\ A[<<h, 0>>].ph.hash = 1
           /\ A[<<h, 0>>].ph.by = OwnKey
           /\ OwnKey \in Signatures(A)[<<"ph", h, 0, 1>>]
           /\ Genuine(Signatures(A), "precommit", h, 0, PastProofs)
  <1>1. h \in Heights /\ h \in Nat /\ 0 \in Rounds /\ 0 \in Nat /\ 1 \in Hashes /\ OwnKey \in Val
    BY PastHeights
  <1>2. <<h, 0>> \in HR /\ <<h, 0>> \in PastRounds
    BY <1>1 DEF HR, PastRounds
  <1>3. A[<<h, 0>>] = PastActions(h)
    BY <1>2 DEF PastStore
  <1>4. /\ A[<<h, 0>>].ph.h = h /\ A[<<h, 0>>].ph.r = 0 /\ A[<<h, 0>>].ph.hash = 1
        /\ A[<<h, 0>>].ph.by = OwnKey /\ A[<<h, 0>>].precommit = 1
    BY <1>3 DEF PastActions
  <1>5. A[<<h, 0>>].ph # NoProposal
    <2>1. NoProposal.by \notin Val
      BY BoundsAssumption DEF NoProposal
    <2> QED BY <1>1, <1>4, <2>1
  <1>6. A[<<h, 0>>].ph \in Proposal
    BY <1>2, <1>5, PastStoreType DEF Stores
  <1>7. Acted(A[<<h, 0>>], "ph", 1) /\ Acted(A[<<h, 0>>], "precommit", 1)
    BY <1>4, <1>5 DEF Acted
  <1>8. OwnKey \in Signatures(A)[<<"ph", h, 0, 1>>]
    BY <1>1, <1>2, <1>7, SignaturesAt
  <1>9. Genuine(Signatures(A), "precommit", h, 0, PastProofs)
    <2> SUFFICES ASSUME NEW b \in Hashes, NEW v \in PastProofs[b]
                 PROVE  v \in Signatures(A)[<<"precommit", h, 0, b>>]
      BY DEF Genuine
    <2>1. b = 1 /\ v \in Val
      BY DEF PastProofs
    <2>2. "precommit" \in Kinds
      BY DEF Kinds
    <2> QED BY <1>1, <1>2, <1>7, <2>1, <2>2, SignaturesAt
  <1> QED BY <1>2, <1>4, <1>5, <1>6, <1>8, <1>9

\* The mirror's stores after the past are good.
LEMMA PastDiskGood ==
    ASSUME NEW A, A = PastStore.acts PROVE GoodDisk(Signatures(A), PastDisk)
  <1> DEFINE S == Signatures(A)
             d == PastDisk
  <1>1. /\ d.nhr.vh = ResumeAt /\ d.nhr.vr = 0
        /\ \A x \in HR : d.phs[x] = IF x \in PastRounds THEN {[hash |-> 1, by |-> OwnKey]} ELSE {}
        /\ \A x \in HR : d.votes["prevote"][x] = NoProofs
        /\ \A x \in HR : d.votes["precommit"][x] = IF x \in PastRounds THEN PastProofs
                                                   ELSE NoProofs
        /\ \A h \in Heights : h \in Past =>
             d.headers[h] = [hash |-> 1, r |-> 0, proofs |-> PastProofs]
        /\ \A h \in Heights : h \notin Past => d.headers[h].hash = Nil
    BY DEF PastDisk, EmptyDisk, Kinds
  <1>2. \A h, r : <<h, r>> \in PastRounds <=> h \in Past /\ r = 0
    BY DEF PastRounds
  <1> HIDE DEF S, d
  <1>3. \A h \in Past : OwnKey \in S[<<"ph", h, 0, 1>>] /\ Genuine(S, "precommit", h, 0, PastProofs)
    BY PastSigned DEF S
  <1>4. ASSUME NEW k \in Kinds, NEW h \in Heights, NEW r \in Rounds
        PROVE  Genuine(S, k, h, r, d.votes[k][<<h, r>>])
    <2>1. <<h, r>> \in HR /\ k \in {"prevote", "precommit"}
      BY DEF HR, Kinds
    <2>2. Genuine(S, k, h, r, NoProofs)
      BY NoProofsGenuine
    <2>3. \/ d.votes[k][<<h, r>>] = NoProofs
          \/ /\ d.votes[k][<<h, r>>] = PastProofs /\ k = "precommit"
             /\ h \in Past /\ r = 0
      BY <1>1, <1>2, <2>1
    <2> QED BY <1>3, <2>2, <2>3
  <1>5. ASSUME NEW h \in Heights, NEW r \in Rounds, NEW p \in d.phs[<<h, r>>]
        PROVE  p.by \in S[<<"ph", h, r, p.hash>>] /\ p.by # NoProposer
    <2>1. <<h, r>> \in HR
      BY DEF HR
    <2>2. h \in Past /\ r = 0 /\ p.hash = 1 /\ p.by = OwnKey
      BY <1>1, <1>2, <1>5, <2>1
    <2>3. OwnKey \in Val /\ NoProposer \notin Val
      BY PastHeights, BoundsAssumption
    <2> QED BY <1>3, <2>2, <2>3
  <1>6. ASSUME NEW h \in Heights, d.headers[h].hash # Nil
        PROVE  /\ BlockPower(d.headers[h].proofs, d.headers[h].hash) >= Majority
               /\ Genuine(S, "precommit", h, d.headers[h].r, d.headers[h].proofs)
    <2>1. h \in Past /\ d.headers[h] = [hash |-> 1, r |-> 0, proofs |-> PastProofs]
      BY <1>1, <1>6
    <2>2. PastProofs[1] = Val
      BY PastHeights DEF PastProofs
    <2>3. /\ d.headers[h].hash = 1 /\ d.headers[h].r = 0
          /\ d.headers[h].proofs = PastProofs
      BY <2>1
    <2>4. BlockPower(PastProofs, 1) >= Majority
      BY <2>2, AllAreMajority DEF BlockPower
    <2> QED BY <1>3, <2>1, <2>3, <2>4
  <1>7. GenuineDisk(S, d)
    BY <1>4, <1>5, <1>6 DEF GenuineDisk
  <1>8. MirroredDisk(d)
    <2>1. ASSUME NEW h \in Heights, NEW r \in Rounds, Beyond(d, h, r)
          PROVE  d.phs[<<h, r>>] = {} /\ \A k \in Kinds : d.votes[k][<<h, r>>] = NoProofs
      <3>1. h \in Nat /\ r \in Nat /\ <<h, r>> \in HR /\ Kinds = {"prevote", "precommit"}
        BY HRType DEF HR, Kinds
      <3>2. h \notin Past
        BY <1>1, <2>1, <3>1, PastHeights DEF Beyond
      <3> QED BY <1>1, <1>2, <3>1, <3>2
    <2> QED BY <1>5, <2>1 DEF MirroredDisk
  <1> QED BY <1>7, <1>8 DEF GoodDisk, S, d

\* The signer's records of the past are in order.
LEMMA PastRemembered ==
    ASSUME NEW A, A = PastStore.acts, NEW d \in Disk, Past # {} => d.nhr.vh >= ResumeAt
    PROVE  Remembered(A, d)
  <1> SUFFICES ASSUME NEW x \in HR, A[x].ph # NoProposal PROVE Owned(A, d, A[x].ph)
    BY DEF Remembered
  <1>1. x \in PastRounds
    BY DEF PastStore, NoActions
  <1>2. x = <<x[1], 0>> /\ x[1] \in Past
    BY <1>1 DEF PastRounds
  <1> DEFINE h == x[1]
             p == A[x].ph
  <1>3. /\ p \in Proposal /\ p.h = h /\ p.r = 0 /\ p.hash = 1 /\ p.by = OwnKey
        /\ OwnKey \in Signatures(A)[<<"ph", h, 0, 1>>]
    BY <1>2, PastSigned
  <1>4. h < d.nhr.vh
    <2>1. d.nhr.vh \in Nat /\ h \in Nat /\ h < ResumeAt /\ d.nhr.vh >= ResumeAt /\ ResumeAt \in Nat
      BY <1>2, PastHeights DEF Disk
    <2> QED BY <2>1
  <1> QED BY <1>3, <1>4 DEF Owned

\* The engine starts with what it signed in order.
LEMMA EngineInitSigned == ASSUME ReplaysNear, EngineInit PROVE SigningInv
  <1> DEFINE d    == IF Past = {} THEN EmptyDisk ELSE PastDisk
             hash == IF Past = {} THEN Nil ELSE 1
             A    == PastStore.acts
             S    == Signatures(A)
  <1>1. /\ kernel = NewKernel(d, hash) /\ hs = [c \in Handlers |-> Idle] /\ phQueue = <<>>
        /\ sm = NewStateMachine(Past = {}) /\ store.acts = A
    BY DEF EngineInit
  <1>2. hash \in Hashes
    BY NilIsHash, PastHeights
  <1>3. d \in Disk /\ Complete(d)
    BY EmptyDiskType, EmptyDiskComplete, PastDiskType, PastDiskComplete
  <1>4. HasCommitting(d) => <<d.nhr.ch, d.nhr.cr>> \in HR
    BY EmptyDiskComplete, PastDiskComplete
  <1>5. S \in Signers /\ GoodDisk(S, d)
    BY SignaturesType, EmptyDiskGood, PastDiskGood
  <1>6. Past # {} => d.nhr.vh = ResumeAt
    BY DEF PastDisk, EmptyDisk
  <1>7. A = PastStore.acts
    OBVIOUS
  <1> HIDE DEF d, hash, A
  <1>8. Good(S, kernel) /\ Extends(S, d, kernel.disk) /\ kernel.torn = {}
    BY <1>1, <1>2, <1>3, <1>4, <1>5, NewKernelGood
  <1>9. kernel \in Kernel /\ kernel.disk \in Disk
    BY <1>1, <1>2, <1>3, <1>4, NewKernelType, KernelDisk
  <1>10. Safe(S, kernel, hs, phQueue)
    <2>1. \A c \in Handlers : Honest(S, hs[c])
      BY <1>1, IdleHonest
    <2>2. phQueue \in Seq(Carriers(S))
      BY <1>1
    <2> QED BY <1>8, <2>1, <2>2 DEF Safe, Good
  <1>11. Remembered(A, kernel.disk)
    <2>1. d.nhr.vh <= kernel.disk.nhr.vh
      BY <1>3, <1>8, <1>9, ExtendsPlace
    <2> QED BY <1>6, <1>7, <1>9, <2>1, PastRemembered
  <1>12. Prompted(A, kernel, sm)
    BY <1>1, NewPrompted
  <1> QED BY <1>1, <1>10, <1>11, <1>12 DEF SigningInv, Signing

-----------------------------------------------------------------------------
(* The theorem. *)

\* Every step of the engine keeps what was signed in order, and what its mirror
\* has stored.
LEMMA EngineNextSigned ==
    ASSUME ReplaysNear, EngineInv, EngineInv', SigningInv, [EngineNext]_engineVars
    PROVE  SigningInv' /\ Later(kernel.disk, kernel'.disk)
  <1>1. PICK A : A = store.acts
    OBVIOUS
  <1>2. PICK B : B = store'.acts
    OBVIOUS
  <1>3. Ready(A)
    BY <1>1 DEF Ready, SigningInv
  <1>4. store \in Stores
    BY DEF EngineInv, Finished
  <1> DEFINE Goal == SigningInv' /\ Later(kernel.disk, kernel'.disk)
  <1>5. ASSUME Kept(B) PROVE Goal
    BY <1>2, <1>5 DEF Kept, SigningInv
  <1>6. ASSUME B = A, Kept(A) PROVE Goal
    BY <1>5, <1>6
  <1>7. CASE MirrorAlone
    BY <1>1, <1>2, <1>3, <1>6, <1>7, MirrorAloneKept DEF MirrorAlone
  <1>8. CASE EngineCrash \/ EngineRestart
    <2>1. B = A
      BY <1>1, <1>2, <1>8 DEF EngineCrash, EngineRestart
    <2> QED BY <1>3, <1>6, <1>8, <2>1, CrashRestartKept
  <1>9. CASE StateMachineStep
    <2>1. CASE SMStart \/ CMTakeRequest \/ SendTimeout \/ EnterRoundReturns
      <3>1. B = A
        BY <1>1, <1>2, <2>1 DEF SMStart, CMTakeRequest, SendTimeout, EnterRoundReturns, SMOnly
      <3> QED BY <1>3, <1>6, <2>1, <3>1, SMStartKept, CMTakeRequestKept, SendTimeoutKept,
                 EnterRoundReturnsKept
    <2>2. CASE SMSave
      <3>1. B = A
        BY <1>1, <1>2, <1>4, <2>2 DEF SMSave, Stores
      <3> QED BY <1>3, <1>6, <2>2, <3>1, SMSaveKept
    <2>3. CASE SMEnter
      BY <1>1, <1>2, <1>3, <1>6, <2>3, SMEnterKept DEF SMEnter
    <2>4. CASE NotReady \/ \E hash \in Hashes : StrategyChooses(hash)
      <3>1. B = A
        BY <1>1, <1>2, <2>4 DEF NotReady, StrategyChooses, SMOnly
      <3> QED BY <1>3, <1>6, <2>4, <3>1, AnswersKept
    <2>5. CASE ViewUpdate
      BY <1>1, <1>2, <1>3, <1>6, <2>5, ViewUpdateKept DEF ViewUpdate
    <2>6. CASE \E p \in Proposals : Propose(p)
      BY <1>2, <1>3, <1>5, <2>6, ProposeKept
    <2>7. CASE Prevote \/ Precommit
      BY <1>2, <1>3, <1>5, <2>7, VotesKept
    <2>8. CASE Finalization
      <3>1. B = A
        BY <1>1, <1>2, <1>4, <2>8 DEF Finalization, Stores
      <3> QED BY <1>3, <1>6, <2>8, <3>1, FinalizationKept
    <2>9. CASE TimerElapsed \/ HeightCommitted \/ \E b \in Blocks : BlockDataArrival(b)
      <3>1. B = A
        BY <1>1, <1>2, <2>9 DEF TimerElapsed, HeightCommitted, BlockDataArrival, SMOnly
      <3> QED BY <1>3, <1>6, <2>9, <3>1, EventKept
    <2>10. CASE \E room \in FetchRooms : MirrorTakesAction(room)
      <3>1. B = A
        BY <1>1, <1>2, <2>10 DEF MirrorTakesAction
      <3> QED BY <1>3, <1>6, <2>10, <3>1, MirrorTakesActionKept
    <2> QED BY <1>9, <2>1, <2>2, <2>3, <2>4, <2>5, <2>6, <2>7, <2>8, <2>9, <2>10
            DEF StateMachineStep
  <1>10. CASE UNCHANGED engineVars
    <2>1. kernel.disk \in Disk
      BY KernelDisk DEF EngineInv, MirrorInv, TypeOK
    <2> QED BY <1>10, <2>1 DEF engineVars, SigningInv, Disk, Later
  <1> QED BY <1>7, <1>8, <1>9, <1>10 DEF EngineNext

\* What the mirror has stored of the signer is recorded.
LEMMA SignedOnce == ASSUME EngineInv, SigningInv PROVE NoDoubleSign
  <1> DEFINE A == store.acts
             d == kernel.disk
  <1>1. d \in Disk /\ GenuineDisk(Signatures(A), d)
    BY KernelDisk DEF EngineInv, MirrorInv, TypeOK, SigningInv, Signing, Safe, GoodDisk
  <1> HIDE DEF A, d
  <1>2. ASSUME NEW h \in Heights, NEW r \in Rounds, NEW k \in Kinds, NEW b \in Hashes,
               OwnKey \in d.votes[k][<<h, r>>][b]
        PROVE  A[<<h, r>>][k] = b
    <2>1. OwnKey \in Signatures(A)[<<k, h, r, b>>]
      BY <1>1, <1>2 DEF GenuineDisk, Genuine
    <2>2. h \in Nat /\ r \in Nat /\ k # "ph"
      BY HRType DEF Kinds
    <2>3. Acted(A[<<h, r>>], k, b)
      BY <2>1, <2>2, SignaturesAt
    <2> QED BY <2>2, <2>3 DEF Acted
  <1>3. ASSUME NEW h \in Heights, NEW r \in Rounds, NEW p \in d.phs[<<h, r>>], p.by = OwnKey
        PROVE  A[<<h, r>>].ph.hash = p.hash
    <2>1. OwnKey \in Signatures(A)[<<"ph", h, r, p.hash>>]
      BY <1>1, <1>3 DEF GenuineDisk
    <2>2. h \in Nat /\ r \in Nat /\ p.hash \in Hashes
      <3>1. d.phs[<<h, r>>] \subseteq HeldPH
        BY <1>1, PlaceInHR DEF Disk
      <3> QED BY <3>1, HRType, BlocksAreHashes DEF HeldPH
    <2>3. Acted(A[<<h, r>>], "ph", p.hash)
      BY <2>1, <2>2, SignaturesAt
    <2> QED BY <2>3 DEF Acted
  <1>4. \A x \in HR : \E h \in Heights, r \in Rounds : x = <<h, r>>
    BY DEF HR
  <1>5. ASSUME NEW x \in HR
        PROVE  /\ \A k \in Kinds, b \in Hashes : OwnKey \in d.votes[k][x][b] => A[x][k] = b
               /\ \A p \in d.phs[x] : p.by = OwnKey => A[x].ph.hash = p.hash
    BY <1>2, <1>3, <1>4, <1>5
  <1> QED BY <1>5 DEF NoDoubleSign, A, d

\* The inductive invariant holds in every behaviour of the engine.
THEOREM SigningAlways == ASSUME ReplaysNear PROVE EngineSpec => []SigningInv
<1>1. EngineInit => SigningInv
  BY EngineInitSigned
<1>2. EngineInv /\ EngineInv' /\ SigningInv /\ [EngineNext]_engineVars => SigningInv'
  BY EngineNextSigned
<1> QED BY <1>1, <1>2, EngineInvAlways, PTL DEF EngineSpec

\* The signer never signs two votes of one kind or two headers in one round,
\* through crashes and restarts in the middle of signing, recording and sending,
\* while others echo what it signed to its own mirror, by gossip, in replayed
\* headers and in the previous commit proofs of headers (recordPrevote,
\* recordPrecommit, recordProposedHeader and the mirror's handlers).
THEOREM NoDoubleSignAlways == ASSUME ReplaysNear PROVE EngineSpec => []NoDoubleSign
<1>1. EngineInv /\ SigningInv => NoDoubleSign
  BY SignedOnce
<1> QED BY <1>1, SigningAlways, EngineInvAlways, PTL

\* A header stored as committed carries precommits of more than two thirds of
\* the power, and the signer's own is among them only for what it recorded.
OwnCommitsRecorded ==
    \A h \in Heights :
      LET c == kernel.disk.headers[h]
      IN c.hash # Nil =>
           /\ BlockPower(c.proofs, c.hash) >= Majority
           /\ \A b \in Hashes : OwnKey \in c.proofs[b] =>
                                  store.acts[<<h, c.r>>]["precommit"] = b

\* Inside the engine too, where the state machine's own votes and proposed
\* headers reach the mirror past the handlers, the kernel's views are exactly
\* what it has stored, its summaries are those of its votes, and the commit
\* proofs it stores are backed (addPrevote, addPrecommit, handleAction,
\* saveCurrentCommittingHeader).
THEOREM EngineStoredAlways ==
    ASSUME ReplaysNear
    PROVE  EngineSpec => [](ViewsMatchDisk /\ SummariesCurrent /\ OwnCommitsRecorded)
<1>1. SigningInv => ViewsMatchDisk
  BY DEF SigningInv, Signing, Safe, Good, GoodView, MirroredView, ViewsMatchDisk
<1>2. SigningInv => SummariesCurrent
  BY DEF SigningInv, Signing, Safe, Good, Summed, SummariesCurrent
<1>3. EngineInv /\ SigningInv => OwnCommitsRecorded
  <2> SUFFICES ASSUME EngineInv, SigningInv, NEW h \in Heights,
                      kernel.disk.headers[h].hash # Nil
               PROVE  LET c == kernel.disk.headers[h]
                      IN /\ BlockPower(c.proofs, c.hash) >= Majority
                         /\ \A b \in Hashes : OwnKey \in c.proofs[b] =>
                                                store.acts[<<h, c.r>>]["precommit"] = b
    BY DEF OwnCommitsRecorded
  <2> DEFINE c == kernel.disk.headers[h]
             A == store.acts
  <2>1. c.r \in Nat /\ h \in Nat
    BY KernelDisk, HRType DEF EngineInv, MirrorInv, TypeOK, Disk
  <2>2. /\ BlockPower(c.proofs, c.hash) >= Majority
        /\ Genuine(Signatures(A), "precommit", h, c.r, c.proofs)
    BY DEF SigningInv, Signing, Safe, GoodDisk, GenuineDisk
  <2> HIDE DEF c, A
  <2>3. ASSUME NEW b \in Hashes, OwnKey \in c.proofs[b]
        PROVE  A[<<h, c.r>>]["precommit"] = b
    <3>1. OwnKey \in Signatures(A)[<<"precommit", h, c.r, b>>]
      BY <2>2, <2>3 DEF Genuine
    <3>2. Acted(A[<<h, c.r>>], "precommit", b)
      BY <2>1, <3>1, SignaturesAt DEF Kinds
    <3> QED BY <3>2 DEF Acted
  <2> QED BY <2>2, <2>3 DEF c, A
<1> QED BY <1>1, <1>2, <1>3, SigningAlways, EngineInvAlways, PTL

-----------------------------------------------------------------------------
(* Proposals that reach the mirror.  initializeRLC sends a recorded header    *)
(* again in the first round of a process only.  That is enough, because the   *)
(* place that a process resumes at is not before any round with a header on   *)
(* record: SetStateMachineHeightRound comes before the round entrance.        *)

Active == {"send", "wait", "run"}

Place(x) == [h |-> x[1], r |-> x[2]]

\* The rounds with a header on record.
Proposed(A) == {x \in HR : A[x].ph # NoProposal}

\* The header on record for a round is the signer's own for that round.
Authored(A) ==
    \A x \in Proposed(A) : A[x].ph.by = OwnKey /\ A[x].ph.h = x[1] /\ A[x].ph.r = x[2]

\* Where a new process resumes.
Resumes(st) ==
    IF Final(st, st.hr[1]) THEN [h |-> st.hr[1] + 1, r |-> 0] ELSE Place(st.hr)

NoneAfter(A, s)  == \A x \in Proposed(A) : NotAfter(Place(x), s)
NoneSince(A, s)  == \A x \in Proposed(A) : Before(Place(x), s)

\* Headers are on record for rounds up to the present one, and a round that is
\* not the first of its process is entered without one.
InTurn(st, s) ==
    /\ NoneAfter(st.acts, Resumes(st))
    /\ s.pc \in Active \cup {"save", "enter"} => NoneAfter(st.acts, s)
    /\ s.pc = "save" \/ (s.pc = "enter" /\ ~s.init) => NoneSince(st.acts, s)
    /\ s.pc \in Active \cup {"enter"} => NotAfter(s, Resumes(st))
    /\ s.pc = "start" /\ s.genesis => st.hr[1] = 0 /\ ~Final(st, 1)

\* The header on record for the round of s is on its way or stored, or the
\* mirror is past that round.
Waiting(s) == \E i \in 1..Len(s.acts) : s.acts[i].kind = "ph"

Arrived(A, d, s) ==
    [hash |-> A[<<s.h, s.r>>].ph.hash, by |-> OwnKey] \in d.phs[<<s.h, s.r>>]

Reached(d, s) == s.h < d.nhr.vh \/ (s.h = d.nhr.vh /\ s.r <= d.nhr.vr + 1)
Passed(d, s)  == s.h < d.nhr.vh \/ (s.h = d.nhr.vh /\ s.r < d.nhr.vr)

Sent(A, d, s) ==
    /\ <<s.h, s.r>> \in HR /\ Reached(d, s)
    /\ \A i \in 1..Len(s.acts) : s.acts[i].kind = "ph" => s.acts[i].ph = A[<<s.h, s.r>>].ph
    /\ A[<<s.h, s.r>>].ph # NoProposal => Waiting(s) \/ Arrived(A, d, s) \/ Passed(d, s)

Handed(st, w, s) ==
    /\ Authored(st.acts) /\ InTurn(st, s)
    /\ w.up /\ s.pc \in Active => Sent(st.acts, w.disk, s)

HandedInv == Handed(store, kernel, sm)

\* y is s in its round, with the same actions on their way, or has left it.
Follows(s, y) ==
    \/ y.pc \in {"quit", "panic"}
    \/ y.acts = s.acts /\ At(y, s) /\ y.pc = s.pc /\ y.init = s.init /\ y.genesis = s.genesis
    \/ y.acts = s.acts /\ At(y, s) /\ s.pc \in Active /\ y.pc \in Active
    \/ s.pc \in Active /\ y.pc = "save" /\ Before(s, y)

\* A state machine that moves keeps what is on its way.
LEMMA MovedFollows ==
    ASSUME NEW s \in Life, s.pc \in Active, NEW y, Moved(s, y), y.acts = s.acts
    PROVE  Follows(s, y)
  <1>1. s.h \in Nat /\ s.r \in Nat
    BY DEF Life
  <1> QED BY <1>1 DEF Moved, Follows, Active, At, Before

\* It stays in turn.
LEMMA FollowsInTurn ==
    ASSUME NEW st \in Stores, NEW s \in Life, NEW y \in Life, InTurn(st, s), Follows(s, y)
    PROVE  InTurn(st, y)
  <1>1. s.h \in Nat /\ s.r \in Nat /\ y.h \in Nat /\ y.r \in Nat
    BY DEF Life
  <1>2. CASE y.pc \in {"quit", "panic"}
    BY <1>2 DEF InTurn, Active
  <1>3. CASE At(y, s) /\ y.pc = s.pc /\ y.init = s.init /\ y.genesis = s.genesis
    BY <1>3 DEF InTurn, At, NoneAfter, NoneSince, NotAfter, Before
  <1>4. CASE At(y, s) /\ s.pc \in Active /\ y.pc \in Active
    BY <1>4 DEF InTurn, At, NoneAfter, NotAfter, Active
  <1>5. CASE s.pc \in Active /\ y.pc = "save" /\ Before(s, y)
    <2>1. NoneAfter(st.acts, s)
      BY <1>5 DEF InTurn
    <2>2. ASSUME NEW x \in Proposed(st.acts)
          PROVE  Before(Place(x), y) /\ NotAfter(Place(x), y)
      <3>1. x[1] \in Nat /\ x[2] \in Nat
        BY PlaceInHR, HRType DEF Proposed, HR
      <3>2. NotAfter(Place(x), s) /\ Place(x).h = x[1] /\ Place(x).r = x[2]
        BY <2>1 DEF NoneAfter, Place
      <3> QED BY <1>1, <1>5, <3>1, <3>2 DEF Before, NotAfter
    <2> QED BY <1>5, <2>2 DEF InTurn, NoneAfter, NoneSince, Active
  <1> QED BY <1>2, <1>3, <1>4, <1>5 DEF Follows

\* What was sent stays sent.
LEMMA FollowsSent ==
    ASSUME NEW A, NEW d \in Disk, NEW e \in Disk, Later(d, e), NEW s \in Life, NEW y \in Life,
           s.pc \in Active => Sent(A, d, s), Follows(s, y), y.pc \in Active
    PROVE  Sent(A, e, y)
  <1>1. s.h \in Nat /\ s.r \in Nat /\ y.h = s.h /\ y.r = s.r /\ y.acts = s.acts /\ s.pc \in Active
    BY DEF Life, Follows, Active, At
  <1>2. /\ d.nhr.vh \in Nat /\ d.nhr.vr \in Nat /\ e.nhr.vh \in Nat /\ e.nhr.vr \in Nat
    BY DEF Disk
  <1>3. Sent(A, d, s)
    BY <1>1
  <1>4. (Reached(d, s) => Reached(e, y)) /\ (Passed(d, s) => Passed(e, y))
    BY <1>1, <1>2 DEF Reached, Passed, Later
  <1>5. Arrived(A, d, s) => Arrived(A, e, y)
    BY <1>1, <1>3 DEF Arrived, Later, Sent
  <1> QED BY <1>1, <1>3, <1>4, <1>5 DEF Sent, Waiting

\* The two states of a step.
Underway ==
    /\ EngineInv /\ EngineInv' /\ SigningInv /\ HandedInv
    /\ Later(kernel.disk, kernel'.disk)

\* What the invariants say of them.
LEMMA UnderwayFacts ==
    ASSUME Underway
    PROVE  /\ kernel \in Kernel /\ kernel' \in Kernel /\ sm \in Life /\ sm' \in Life
           /\ kernel.disk \in Disk /\ kernel'.disk \in Disk
           /\ store \in Stores /\ store' \in Stores
           /\ Authored(store.acts) /\ InTurn(store, sm)
           /\ kernel.up /\ sm.pc \in Active => Sent(store.acts, kernel.disk, sm)
  <1>1. /\ kernel \in Kernel /\ kernel' \in Kernel /\ sm \in Life /\ sm' \in Life
        /\ store \in Stores /\ store' \in Stores
    BY DEF Underway, EngineInv, MirrorInv, TypeOK, InOrder, Finished
  <1> QED BY <1>1, KernelDisk DEF Underway, HandedInv, Handed

\* A state machine that follows hands over what it recorded.
LEMMA FollowedHanded ==
    ASSUME Underway, kernel.up, store' = store, NEW s, sm' = s, Follows(sm, s)
    PROVE  HandedInv'
  <1>1. Authored(store'.acts) /\ InTurn(store', sm')
    BY UnderwayFacts, FollowsInTurn
  <1>2. kernel'.up /\ sm'.pc \in Active => Sent(store'.acts, kernel'.disk, sm')
    BY UnderwayFacts, FollowsSent DEF Underway
  <1> QED BY <1>1, <1>2 DEF HandedInv, Handed

\* The goroutine of a process that is down or about to start.
LEMMA RestingHanded ==
    ASSUME Underway, store' = store, sm'.pc \in {"down", "start"}, ~sm'.genesis
    PROVE  HandedInv'
  <1>1. NoneAfter(store.acts, Resumes(store)) /\ Authored(store.acts)
    BY UnderwayFacts DEF InTurn
  <1>2. InTurn(store', sm')
    BY <1>1 DEF InTurn, Active
  <1> QED BY <1>1, <1>2 DEF HandedInv, Handed, Active

\* A mirror that goes on, or down, without the state machine.
LEMMA MirrorAloneHanded ==
    ASSUME Underway, Alive, store' = store, Survives(sm) PROVE HandedInv'
  <1>1. CASE kernel'.up
    <2>1. sm' = sm
      BY <1>1 DEF Survives
    <2>2. Follows(sm, sm)
      BY DEF Follows, At
    <2> QED BY <2>1, <2>2, FollowedHanded DEF Alive
  <1>2. CASE ~kernel'.up
    <2>1. sm' = Down
      BY <1>2 DEF Survives
    <2>2. sm'.pc = "down" /\ ~sm'.genesis
      BY <2>1 DEF Down, NewStateMachine
    <2> QED BY <2>2, RestingHanded
  <1> QED BY <1>1, <1>2

\* A crash, and a restart.
LEMMA CrashRestartHanded ==
    ASSUME Underway, EngineCrash \/ EngineRestart PROVE HandedInv'
  <1>1. store' = store /\ (sm' = Down \/ sm' = NewStateMachine(FALSE))
    BY DEF EngineCrash, EngineRestart
  <1>2. sm'.pc \in {"down", "start"} /\ ~sm'.genesis
    BY <1>1 DEF Down, NewStateMachine
  <1> QED BY <1>1, <1>2, RestingHanded

\* A goroutine that ends.
LEMMA EndedFollows ==
    ASSUME NEW s \in Life, NEW y \in {SMPanic(s), Quit(s)} PROVE Follows(s, y)
  BY DEF Follows, SMPanic, Quit, Life

\* The steps of the consensus manager and those that the strategy answers.
LEMMA ManagerHanded ==
    ASSUME Underway,
           \/ CMTakeRequest \/ SendTimeout \/ EnterRoundReturns \/ NotReady
           \/ \E hash \in Hashes : StrategyChooses(hash)
    PROVE  HandedInv'
  <1>1. Alive /\ kernel.up /\ store' = store
    BY DEF CMTakeRequest, SendTimeout, EnterRoundReturns, NotReady, StrategyChooses, Alive, SMOnly
  <1>2. sm \in Life /\ Ordered(sm) /\ EngineInv
    BY DEF Underway, EngineInv, InOrder
  <1>3. CASE CMTakeRequest
    <2> DEFINE s == TakeRequest(sm)
    <2>1. sm.pc = "send" /\ sm' = s
      BY <1>3 DEF CMTakeRequest, SMOnly
    <2>2. Still(sm, s) /\ sm.pc \in Active
      BY <1>2, <2>1, ManagerStill DEF Active
    <2>3. (s.pc = "wait" /\ s.h = sm.h /\ s.r = sm.r) \/ Moved(sm, s)
      BY <1>2, <2>1, TakeRequestStepped DEF Settled
    <2> HIDE DEF s
    <2>4. Follows(sm, s)
      BY <1>2, <2>2, <2>3, MovedFollows DEF Still, Follows, Active, At
    <2> QED BY <1>1, <2>1, <2>4, FollowedHanded
  <1>4. CASE SendTimeout
    BY <1>1, <1>2, <1>4, EndedFollows, FollowedHanded DEF SendTimeout, SMOnly
  <1>5. CASE EnterRoundReturns
    <2> DEFINE t == [sm EXCEPT !.cm = IdleManager]
               s == beginRoundLive(t)
    <2>1. sm.pc = "wait" /\ sm' = s
      BY <1>5 DEF EnterRoundReturns, SMOnly
    <2>2. Moved(sm, s)
      BY <1>1, <1>2, <2>1, RoundBegins DEF Settled
    <2>3. t \in Life /\ t.acts = sm.acts /\ t.entered = sm.entered /\ At(t.entered, t)
      BY <1>2, <2>1 DEF Life, IdleManager, Ordered, At
    <2> HIDE DEF t
    <2>4. s.acts = sm.acts
      BY <2>3, beginRoundLiveCalm DEF Calm
    <2> HIDE DEF s
    <2>5. Follows(sm, s)
      BY <1>2, <2>1, <2>2, <2>4, MovedFollows DEF Active
    <2> QED BY <1>1, <2>1, <2>5, FollowedHanded
  <1>6. CASE NotReady
    <2> DEFINE s == [sm EXCEPT !.cm = IdleManager]
    <2>1. Follows(sm, s)
      BY <1>2 DEF Follows, At, Life
    <2> QED BY <1>1, <1>6, <2>1, FollowedHanded DEF NotReady, SMOnly
  <1>7. ASSUME NEW hash \in Hashes, StrategyChooses(hash) PROVE HandedInv'
    <2> DEFINE s == SendResult(sm, hash)
    <2>1. Follows(sm, s)
      BY <1>2 DEF Follows, At, Life, SendResult
    <2> QED BY <1>1, <1>7, <2>1, FollowedHanded DEF StrategyChooses, SMOnly
  <1> QED BY <1>3, <1>4, <1>5, <1>6, <1>7

\* Views, timers, commits and block data.
LEMMA EventHanded ==
    ASSUME Underway,
           \/ ViewUpdate \/ TimerElapsed \/ HeightCommitted
           \/ \E b \in Blocks : BlockDataArrival(b)
    PROVE  HandedInv'
  <1>1. Alive /\ Live /\ kernel.up /\ store' = store /\ sm.pc = "run" /\ ~sm.catchup
    BY DEF ViewUpdate, TimerElapsed, HeightCommitted, BlockDataArrival, Live, Alive, SMOnly
  <1>2. sm \in Life /\ Ordered(sm) /\ EngineInv /\ sm.pc \in Active
    BY <1>1 DEF Underway, EngineInv, InOrder, Active
  <1>3. ASSUME NEW s, sm' = s, s = sm \/ Moved(sm, s), s.acts = sm.acts PROVE HandedInv'
    <2>1. Follows(sm, sm)
      BY DEF Follows, At
    <2>2. Follows(sm, s)
      BY <1>2, <1>3, <2>1, MovedFollows
    <2> QED BY <1>1, <1>3, <2>2, FollowedHanded
  <1>4. CASE ViewUpdate
    <2> DEFINE o == StateMachineOutput(kernel.sm)
               v == Seen(o.vrv)
               j == Seen(o.jump)
               x == handleViewUpdate(sm, v, j)
    <2>1. sm' = x
      BY <1>4 DEF ViewUpdate
    <2>2. /\ InStep(sm) \/ v.h = 0
          /\ x = sm \/ Settled(sm, x)
      BY <1>1, <1>2, <1>4, ViewUpdateMoves DEF ViewUpdate
    <2> HIDE DEF v, j
    <2>3. v.h = 0 \/ (sm.step \in Steps /\ sm.step # "invalid")
      BY <1>2, <2>2 DEF InStep, Life
    <2>4. x.acts = sm.acts
      BY <1>2, <2>3, LifeShaped, handleViewUpdateCalm DEF Calm
    <2> QED BY <1>3, <2>1, <2>2, <2>4 DEF Settled
  <1>5. CASE TimerElapsed
    <2> DEFINE s == handleTimerElapsed(sm)
    <2>1. Stepped(sm, s) /\ Calm(sm, s, sm.vrv)
      BY <1>1, <1>2, <1>5, handleTimerElapsedSettled, SettledStepped, EventsCalm DEF TimerElapsed
    <2> QED BY <1>3, <1>5, <2>1 DEF TimerElapsed, SMOnly, Stepped, Calm
  <1>6. CASE HeightCommitted
    <2> DEFINE s == handleHeightCommitted(sm)
    <2>1. Stepped(sm, s) /\ Calm(sm, s, sm.vrv)
      BY <1>1, <1>2, <1>6, handleHeightCommittedStepped, EventsCalm DEF HeightCommitted
    <2> QED BY <1>3, <1>6, <2>1 DEF HeightCommitted, SMOnly, Stepped, Calm
  <1>7. ASSUME NEW b \in Blocks, BlockDataArrival(b) PROVE HandedInv'
    <2> DEFINE s == handleBlockDataArrival(sm, b)
    <2>1. Stepped(sm, s) /\ Calm(sm, s, sm.vrv)
      BY <1>1, <1>2, <1>7, handleBlockDataArrivalStepped, EventsCalm DEF BlockDataArrival
    <2> QED BY <1>3, <1>7, <2>1 DEF BlockDataArrival, SMOnly, Stepped, Calm
  <1> QED BY <1>4, <1>5, <1>6, <1>7

-----------------------------------------------------------------------------
(* Steps that write the state machine's stores. *)

\* A round with a header on record is one of the model's.
LEMMA ProposedPlace ==
    ASSUME NEW A, NEW x \in Proposed(A)
    PROVE  /\ x \in HR /\ x[1] \in Nat /\ x[2] \in Nat
           /\ Place(x).h = x[1] /\ Place(x).r = x[2]
  BY HRType DEF Proposed, HR, Place

\* No header is on record after a later place either.
LEMMA NoneAfterLater ==
    ASSUME NEW A, NEW p \in [h : Nat, r : Nat], NEW q \in [h : Nat, r : Nat],
           NotAfter(p, q), NoneAfter(A, p)
    PROVE  NoneAfter(A, q)
  <1> SUFFICES ASSUME NEW x \in Proposed(A) PROVE NotAfter(Place(x), q)
    BY DEF NoneAfter
  <1>1. NotAfter(Place(x), p)
    BY DEF NoneAfter
  <1> QED BY <1>1, ProposedPlace DEF NotAfter

\* A process resumes at a height and a round.
LEMMA ResumesType == ASSUME NEW st \in Stores PROVE Resumes(st) \in [h : Nat, r : Nat]
  <1>1. st.hr[1] \in Nat /\ st.hr[2] \in Nat
    BY DEF Stores
  <1> QED BY <1>1 DEF Resumes, Place

\* A state machine stays in turn when its stores resume later, with the same
\* headers on record.
LEMMA LaterInTurn ==
    ASSUME NEW st \in Stores, NEW t \in Stores, NEW s \in Life, InTurn(st, s),
           NotAfter(Resumes(st), Resumes(t)), t.acts = st.acts, s.pc # "start"
    PROVE  InTurn(t, s)
  <1>1. NoneAfter(t.acts, Resumes(t))
    BY ResumesType, NoneAfterLater DEF InTurn
  <1>2. s.pc \in Active \cup {"enter"} => NotAfter(s, Resumes(t))
    <2>1. s.h \in Nat /\ s.r \in Nat
      BY DEF Life
    <2> QED BY <2>1, ResumesType DEF InTurn, NotAfter
  <1> QED BY <1>1, <1>2 DEF InTurn

\* The state machine of a new process starts where its stores say.
LEMMA StartsWhereItResumes ==
    ASSUME Underway, Alive, sm.pc = "start", NEW x, x = StartPlace
    PROVE  Resumes(store).h = x[1] /\ Resumes(store).r = x[2]
  <1> DEFINE y == IF store.hr[1] = 0 THEN <<GenesisHeight, 0>> ELSE store.hr
  <1>1. store \in Stores /\ sm \in Life /\ (sm.genesis => store.hr[1] = 0 /\ ~Final(store, 1))
    BY UnderwayFacts DEF InTurn
  <1>2. store.hr[1] \in Nat /\ store.hr[2] \in Nat
    BY <1>1 DEF Stores
  <1>3. Final(store, 0) /\ GenesisHeight = IF sm.genesis THEN 1 ELSE 0
    BY EngineAssumption DEF Final, GenesisHeight
  <1>4. x = IF Final(store, y[1]) THEN <<y[1] + 1, 0>> ELSE y
    BY FinalIsStored DEF StartPlace
  <1>5. CASE store.hr[1] # 0
    <2>1. y = store.hr
      BY <1>5
    <2> HIDE DEF y
    <2> QED BY <1>4, <2>1 DEF Resumes, Place
  <1>6. CASE store.hr[1] = 0
    <2>1. Resumes(store).h = 1 /\ Resumes(store).r = 0
      BY <1>3, <1>6 DEF Resumes
    <2>2. y[1] = GenesisHeight /\ y[2] = 0
      BY <1>6
    <2> HIDE DEF y
    <2>3. CASE sm.genesis
      <3>1. y[1] = 1 /\ ~Final(store, 1)
        BY <1>1, <1>3, <2>2, <2>3
      <3> QED BY <1>4, <2>1, <2>2, <3>1
    <2>4. CASE ~sm.genesis
      <3>1. y[1] = 0
        BY <1>3, <2>2, <2>4
      <3> QED BY <1>3, <1>4, <2>1, <3>1
    <2> QED BY <2>3, <2>4
  <1> QED BY <1>5, <1>6

\* sendInitialActionSet.
LEMMA SMStartHanded == ASSUME Underway, SMStart PROVE HandedInv'
  <1> DEFINE x == StartPlace
             s == Started(sm, x[1], x[2])
  <1>1. /\ Alive /\ kernel.up /\ sm.pc = "start" /\ store' = store /\ EngineInv
        /\ sm' = s \/ sm' = Quit(sm)
    BY DEF SMStart, SMOnly, Started, Alive, Underway
  <1>2. sm \in Life /\ Ordered(sm) /\ store \in Stores /\ InTurn(store, sm)
        /\ Authored(store.acts)
    BY UnderwayFacts DEF Underway, EngineInv, InOrder
  <1>3. CASE sm' = Quit(sm)
    BY <1>1, <1>2, <1>3, EndedFollows, FollowedHanded
  <1>4. CASE sm' = s
    <2>1. Resumes(store).h = x[1] /\ Resumes(store).r = x[2]
      BY <1>1, StartsWhereItResumes
    <2>2. x[1] \in Nat \ {0} /\ x[2] \in Nat
      BY <1>1, StartPlaceFinal
    <2>3. s.pc = "enter" /\ s.h = x[1] /\ s.r = x[2]
      BY <1>1, <1>2, <2>2, StartStays
    <2>4. sm.init
      BY <1>1, <1>2 DEF Ordered, NewStateMachine
    <2>5. s.init
      BY <1>2, <2>4 DEF Started, Reset, Life
    <2> HIDE DEF x, s
    <2>6. NoneAfter(store.acts, Resumes(store))
      BY <1>2 DEF InTurn
    <2>7. NoneAfter(store.acts, s) /\ NotAfter(s, Resumes(store))
      BY <2>1, <2>2, <2>3, <2>6 DEF NoneAfter, NotAfter
    <2>8. InTurn(store, s)
      BY <2>3, <2>5, <2>6, <2>7 DEF InTurn, Active
    <2> QED BY <1>1, <1>2, <1>4, <2>3, <2>8 DEF HandedInv, Handed, Active
  <1> QED BY <1>1, <1>3, <1>4

\* SetStateMachineHeightRound.
LEMMA SMSaveHanded == ASSUME Underway, SMSave PROVE HandedInv'
  <1> DEFINE s == [sm EXCEPT !.pc = "enter"]
             n == <<sm.h, sm.r>>
             st == [store EXCEPT !.hr = n]
  <1>1. Alive /\ sm.pc = "save" /\ sm' = s /\ store' = st
    BY DEF SMSave
  <1>2. /\ sm \in Life /\ Ordered(sm) /\ store \in Stores /\ InTurn(store, sm)
        /\ store' \in Stores /\ Authored(store.acts)
    BY UnderwayFacts DEF Underway, EngineInv, InOrder
  <1>3. sm.h \in Nat /\ sm.r \in Nat /\ s.pc = "enter" /\ At(s, sm) /\ s.init = sm.init
    BY <1>2 DEF Life, At
  <1>4. st.acts = store.acts /\ st.hr = n /\ n[1] = sm.h /\ n[2] = sm.r
    BY <1>2 DEF Stores
  <1> HIDE DEF s, n, st
  <1>5. NoneAfter(st.acts, sm) /\ NoneSince(st.acts, sm)
    BY <1>1, <1>2, <1>4 DEF InTurn
  <1>6. NotAfter(sm, Resumes(st)) /\ Resumes(st).h \in Nat /\ Resumes(st).r \in Nat
    <2>1. \/ Resumes(st).h = sm.h + 1 /\ Resumes(st).r = 0
          \/ Resumes(st).h = sm.h /\ Resumes(st).r = sm.r
      BY <1>4 DEF Resumes, Place
    <2> QED BY <1>3, <2>1 DEF NotAfter
  <1>7. NoneAfter(st.acts, Resumes(st))
    <2> SUFFICES ASSUME NEW x \in Proposed(st.acts) PROVE NotAfter(Place(x), Resumes(st))
      BY DEF NoneAfter
    <2>1. NotAfter(Place(x), sm)
      BY <1>5 DEF NoneAfter
    <2> QED BY <1>3, <1>6, <2>1, ProposedPlace DEF NotAfter
  <1>8. NoneAfter(st.acts, s) /\ NoneSince(st.acts, s) /\ NotAfter(s, Resumes(st))
    BY <1>3, <1>5, <1>6 DEF NoneAfter, NoneSince, NotAfter, Before, At
  <1>9. InTurn(st, s)
    BY <1>3, <1>7, <1>8 DEF InTurn
  <1> QED BY <1>1, <1>2, <1>3, <1>4, <1>9 DEF HandedInv, Handed, Active

\* A finalization.
LEMMA FinalizationHanded == ASSUME Underway, Finalization PROVE HandedInv'
  <1> DEFINE f == sm.finalizing
             t == IF sm.catchup THEN [sm EXCEPT !.step = "awaitingFinalization"] ELSE sm
             y == handleFinalization(t)
             fin == [store.fin EXCEPT ![sm.h] = f.hash]
             st == [store EXCEPT !.fin = fin]
  <1>1. /\ Alive /\ kernel.up /\ sm.pc = "run" /\ sm \in Life /\ Ordered(sm) /\ store \in Stores
        /\ EngineInv /\ Link(kernel, sm) /\ f.h # 0
    BY AliveFacts, UnderwayFacts DEF Finalization, Alive, Underway
  <1>2. \/ sm' = SMPanic(sm) /\ store' = store
        \/ sm' = Quit(sm) /\ store' = store
        \/ f.h = sm.h /\ sm' = y /\ store' = st
    BY <1>1 DEF Finalization, Stores
  <1>3. ASSUME NEW s \in {SMPanic(sm), Quit(sm)}, sm' = s, store' = store PROVE HandedInv'
    BY <1>1, <1>3, EndedFollows, FollowedHanded
  <1>4. ASSUME f.h = sm.h, sm' = y, store' = st PROVE HandedInv'
    <2>1. /\ t \in Life /\ t.pc = "run" /\ t.h = sm.h /\ t.r = sm.r /\ t.acts = sm.acts
      BY <1>1 DEF Life, Steps
    <2> HIDE DEF t
    <2>2. y.acts = sm.acts
      BY <2>1, EventsCalm DEF Calm
    <2>3. \/ y.pc = "run" /\ y.h = sm.h /\ y.r = sm.r
          \/ y.pc = "save" /\ y.h = sm.h + 1 /\ y.r = 0
      BY <2>1 DEF handleFinalization, advanceHeight, Reset, Life
    <2> HIDE DEF y
    <2>4. Follows(sm, y)
      <3>1. sm.h \in Nat /\ sm.r \in Nat
        BY <1>1 DEF Life
      <3> QED BY <1>1, <2>2, <2>3, <3>1 DEF Follows, Active, At, Before
    <2>5. sm.h \in Heights /\ f.hash # Nil
      BY <1>1, RoundPlace DEF Link, InRound, Ordered, Committable
    <2>6. fin[sm.h] # Nil /\ \A h \in Heights : h # sm.h => fin[h] = store.fin[h]
      BY <1>1, <2>5 DEF Stores
    <2> HIDE DEF fin
    <2>7. st.fin = fin /\ st.hr = store.hr /\ st.acts = store.acts
      BY <1>1 DEF Stores
    <2> HIDE DEF st
    <2>8. ASSUME NEW h, Final(store, h) PROVE Final(st, h)
      BY <2>6, <2>7, <2>8 DEF Final
    <2>9. NotAfter(Resumes(store), Resumes(st))
      <3>1. store.hr[1] \in Nat /\ store.hr[2] \in Nat
        BY <1>1 DEF Stores
      <3> QED BY <2>7, <2>8, <3>1 DEF Resumes, Place, NotAfter
    <2>10. InTurn(st, sm)
      BY <1>1, <1>4, <2>7, <2>9, UnderwayFacts, LaterInTurn
    <2>11. InTurn(st, y) /\ Authored(st.acts)
      BY <1>1, <1>4, <2>4, <2>7, <2>10, UnderwayFacts, FollowsInTurn
    <2>12. y.pc \in Active => Sent(st.acts, kernel'.disk, y)
      BY <1>1, <1>4, <2>4, <2>7, UnderwayFacts, FollowsSent DEF Underway
    <2> QED BY <1>4, <2>11, <2>12 DEF HandedInv, Handed
  <1> QED BY <1>2, <1>3, <1>4

\* A recorded header is none of the zero value's kind.
LEMMA ProposalIsOne == ASSUME NEW p \in Proposal PROVE p # NoProposal
  <1>1. NoProposal.by \notin Val /\ p.by \in Val
    BY BoundsAssumption DEF NoProposal, Proposal
  <1> QED BY <1>1

\* A vote leaves the headers on record, and those on their way.
LEMMA VoteHanded ==
    ASSUME Underway, Live, NEW k \in Kinds, NEW b \in Hashes, NEW s, Act(k, b, NoVote, s),
           s.pc = "run", At(s, sm), s.acts = Append(sm.acts, [kind |-> k, hash |-> b])
    PROVE  HandedInv'
  <1> DEFINE x == <<sm.h, sm.r>>
             A == store.acts
             B == store'.acts
             a == [kind |-> k, hash |-> b]
  <1>1. /\ store \in Stores /\ kernel \in Kernel /\ Link(kernel, sm) /\ sm \in Life
        /\ kernel' = kernel /\ Alive /\ kernel.up /\ sm.pc = "run" /\ k # "ph"
        /\ EngineInv /\ sm' \in Life /\ store' \in Stores
    BY AliveFacts, UnderwayFacts DEF Act, Underway, Live, Alive, Kinds, mirrorVars
  <1>2. x \in HR
    BY <1>1, RoundPlace DEF Link, InRound
  <1>3. CASE A[x][k] # NoVote
    BY <1>1, <1>3, EndedFollows, FollowedHanded DEF Act
  <1>4. CASE A[x][k] = NoVote
    <2>1. /\ sm' = s /\ B = [A EXCEPT ![x] = [A[x] EXCEPT ![k] = b]]
          /\ store'.hr = store.hr /\ store'.fin = store.fin
      BY <1>1, <1>2, <1>4 DEF Act, Stores
    <2>2. /\ \A y \in HR : y # x => B[y] = A[y]
          /\ B[x].ph = A[x].ph
      <3>1. /\ A \in [HR -> [ph : Proposal \cup {NoProposal}, prevote : Hashes \cup {NoVote},
                             precommit : Hashes \cup {NoVote}]]
        BY <1>1 DEF Stores
      <3>2. A[x] \in [ph : Proposal \cup {NoProposal}, prevote : Hashes \cup {NoVote},
                      precommit : Hashes \cup {NoVote}]
        BY <1>2, <3>1
      <3>3. B[x] = [A[x] EXCEPT ![k] = b] /\ \A y \in HR : y # x => B[y] = A[y]
        BY <1>2, <2>1, <3>1
      <3> QED BY <1>1, <3>2, <3>3
    <2>3. \A y \in HR : B[y].ph = A[y].ph
      BY <2>2
    <2> HIDE DEF A, B
    <2>4. Proposed(B) = Proposed(A) /\ Resumes(store') = Resumes(store)
      BY <2>1, <2>3 DEF Proposed, Resumes, Final
    <2>5. Authored(A) /\ InTurn(store, sm) /\ Sent(A, kernel.disk, sm)
      BY <1>1, UnderwayFacts DEF A, Active
    <2>6. Authored(B)
      BY <2>3, <2>4, <2>5 DEF Authored, Proposed
    <2>7. InTurn(store', s)
      BY <1>1, <2>4, <2>5 DEF InTurn, NoneAfter, NotAfter, At, Active, A, B
    <2>8. a.kind = k
      OBVIOUS
    <2> HIDE DEF a
    <2>9. /\ Len(s.acts) = Len(sm.acts) + 1 /\ Len(sm.acts) \in Nat
          /\ s.acts[Len(sm.acts) + 1] = a
          /\ \A i \in 1..Len(sm.acts) : s.acts[i] = sm.acts[i]
      BY <1>1 DEF Life, a
    <2>10. \A i \in 1..Len(s.acts) :
             s.acts[i].kind = "ph" => i \in 1..Len(sm.acts) /\ s.acts[i] = sm.acts[i]
      BY <1>1, <2>8, <2>9
    <2>11. Waiting(sm) => Waiting(s)
      BY <2>9 DEF Waiting
    <2>12. Sent(B, kernel.disk, s)
      BY <1>2, <2>3, <2>5, <2>10, <2>11 DEF Sent, Arrived, Reached, Passed, At
    <2> QED BY <1>1, <2>1, <2>6, <2>7, <2>12 DEF HandedInv, Handed, B
  <1> QED BY <1>3, <1>4

\* recordPrevote and recordPrecommit.
LEMMA VotesHanded == ASSUME Underway, Prevote \/ Precommit PROVE HandedInv'
  <1>1. Live /\ sm \in Life /\ sm.pc = "run" /\ "prevote" \in Kinds /\ "precommit" \in Kinds
    BY UnderwayFacts DEF Prevote, Precommit, Live, Kinds
  <1>2. CASE Prevote
    <2> DEFINE s == recordPrevote(sm)
               b == sm.prevoteCh
    <2>1. b \in Hashes /\ Act("prevote", b, NoVote, s)
      BY <1>2 DEF Prevote
    <2>2. /\ s.pc = "run" /\ At(s, sm) /\ s.acts = Append(sm.acts, [kind |-> "prevote", hash |-> b])
      BY <1>1 DEF recordPrevote, SendVote, Life, At
    <2> HIDE DEF s, b
    <2> QED BY <1>1, <2>1, <2>2, VoteHanded
  <1>3. CASE Precommit
    <2> DEFINE s == recordPrecommit(sm)
               b == sm.precommitCh
    <2>1. b \in Hashes /\ Act("precommit", b, NoVote, s)
      BY <1>3 DEF Precommit
    <2>2. /\ s.pc = "run" /\ At(s, sm)
          /\ s.acts = Append(sm.acts, [kind |-> "precommit", hash |-> b])
      BY <1>1 DEF recordPrecommit, SendVote, Life, At
    <2> HIDE DEF s, b
    <2> QED BY <1>1, <2>1, <2>2, VoteHanded
  <1> QED BY <1>2, <1>3

\* recordProposedHeader.
LEMMA ProposeHanded == ASSUME Underway, NEW p \in Proposals, Propose(p) PROVE HandedInv'
  <1> DEFINE x == <<sm.h, sm.r>>
             A == store.acts
             B == store'.acts
             a == [kind |-> "ph", ph |-> p]
             s == recordProposedHeader(sm, p)
  <1>1. /\ store \in Stores /\ kernel \in Kernel /\ Link(kernel, sm) /\ sm \in Life
        /\ kernel' = kernel /\ Alive /\ kernel.up /\ sm.pc = "run"
        /\ EngineInv /\ sm' \in Life /\ store' \in Stores
        /\ Act("ph", p, NoProposal, s)
        /\ p \in Proposal /\ p.by = OwnKey /\ p.h = sm.h /\ p.r = sm.r
    BY AliveFacts, UnderwayFacts, InputAssumption
       DEF Propose, Act, Underway, Live, Alive, mirrorVars
  <1>2. x \in HR /\ sm.h \in Nat /\ sm.r \in Nat
    BY <1>1, RoundPlace DEF Link, InRound
  <1>3. CASE A[x].ph # NoProposal
    BY <1>1, <1>3, EndedFollows, FollowedHanded DEF Act
  <1>4. CASE A[x].ph = NoProposal
    <2>1. /\ sm' = s /\ B = [A EXCEPT ![x] = [A[x] EXCEPT !.ph = p]]
          /\ store'.hr = store.hr /\ store'.fin = store.fin
      BY <1>1, <1>2, <1>4 DEF Act, Stores
    <2>2. /\ \A y \in HR : y # x => B[y] = A[y]
          /\ B[x].ph = p
      <3>1. /\ A \in [HR -> [ph : Proposal \cup {NoProposal}, prevote : Hashes \cup {NoVote},
                             precommit : Hashes \cup {NoVote}]]
        BY <1>1 DEF Stores
      <3>2. A[x] \in [ph : Proposal \cup {NoProposal}, prevote : Hashes \cup {NoVote},
                      precommit : Hashes \cup {NoVote}]
        BY <1>2, <3>1
      <3>3. B[x] = [A[x] EXCEPT !.ph = p] /\ \A y \in HR : y # x => B[y] = A[y]
        BY <1>2, <2>1, <3>1
      <3> QED BY <1>1, <3>2, <3>3
    <2>3. s.pc = "run" /\ At(s, sm) /\ s.acts = Append(sm.acts, a)
      BY <1>1 DEF recordProposedHeader, Life, At
    <2> HIDE DEF A, B, s
    <2>4. /\ \A y \in Proposed(B) : y = x \/ y \in Proposed(A)
          /\ Resumes(store') = Resumes(store)
      BY <2>1, <2>2 DEF Proposed, Resumes, Final
    <2>5. Authored(A) /\ InTurn(store, sm) /\ Sent(A, kernel.disk, sm)
      BY <1>1, UnderwayFacts DEF A, Active
    <2>6. x[1] = sm.h /\ x[2] = sm.r /\ Place(x).h = sm.h /\ Place(x).r = sm.r
      BY DEF Place
    <2>7. Authored(B)
      <3> SUFFICES ASSUME NEW y \in Proposed(B)
                   PROVE  B[y].ph.by = OwnKey /\ B[y].ph.h = y[1] /\ B[y].ph.r = y[2]
        BY DEF Authored
      <3>1. CASE y = x
        BY <1>1, <2>2, <2>6, <3>1
      <3>2. CASE y # x
        <4>1. y \in Proposed(A) /\ B[y] = A[y]
          BY <2>2, <2>4, <3>2 DEF Proposed
        <4> QED BY <2>5, <4>1 DEF Authored
      <3> QED BY <3>1, <3>2
    <2>8. NoneAfter(B, Resumes(store')) /\ NoneAfter(B, s) /\ NotAfter(s, Resumes(store'))
      <3>1. /\ NoneAfter(A, Resumes(store)) /\ NoneAfter(A, sm) /\ NotAfter(sm, Resumes(store))
        BY <1>1, <2>5 DEF InTurn, Active, A
      <3>2. s.h = sm.h /\ s.r = sm.r
        BY <2>3 DEF At
      <3> HIDE DEF x
      <3>3. NotAfter(Place(x), Resumes(store)) /\ NotAfter(Place(x), s)
        BY <1>2, <2>6, <3>1, <3>2 DEF NotAfter
      <3>4. NotAfter(s, Resumes(store))
        BY <3>1, <3>2 DEF NotAfter
      <3>5. ASSUME NEW y \in Proposed(B)
            PROVE  NotAfter(Place(y), Resumes(store)) /\ NotAfter(Place(y), s)
        BY <2>4, <3>1, <3>2, <3>3 DEF NoneAfter, NotAfter
      <3> QED BY <2>4, <3>4, <3>5 DEF NoneAfter
    <2>9. InTurn(store', s)
      BY <2>3, <2>8 DEF InTurn, B, Active
    <2>10. a.kind = "ph" /\ a.ph = p
      OBVIOUS
    <2> HIDE DEF a
    <2>11. /\ Len(s.acts) = Len(sm.acts) + 1 /\ Len(sm.acts) \in Nat
           /\ s.acts[Len(sm.acts) + 1] = a
           /\ \A i \in 1..Len(sm.acts) : s.acts[i] = sm.acts[i]
      BY <1>1, <2>3 DEF Life
    <2>12. \A i \in 1..Len(sm.acts) : sm.acts[i].kind # "ph"
      <3> SUFFICES ASSUME NEW i \in 1..Len(sm.acts), sm.acts[i].kind = "ph" PROVE FALSE
        OBVIOUS
      <3>1. sm.acts[i] \in Action
        BY <1>1 DEF Life
      <3>2. sm.acts[i].ph = A[x].ph
        BY <2>5 DEF Sent
      <3> QED BY <1>4, <3>1, <3>2, ActionFields, ProposalIsOne DEF A
    <2>13. /\ \A i \in 1..Len(s.acts) : s.acts[i].kind = "ph" => s.acts[i].ph = p
           /\ Waiting(s)
      BY <2>10, <2>11, <2>12 DEF Waiting
    <2>14. Sent(B, kernel.disk, s)
      BY <1>2, <2>2, <2>3, <2>5, <2>13 DEF Sent, Reached, At
    <2> QED BY <1>1, <2>1, <2>7, <2>9, <2>14 DEF HandedInv, Handed, B
  <1> QED BY <1>3, <1>4

-----------------------------------------------------------------------------
(* Steps in which the mirror takes part. *)

\* The mirror has a view of every round it has reached and not passed, and none
\* of a round it has not reached.
LEMMA ReachedOrPassed ==
    ASSUME NEW w \in Kernel, Sound(w), NEW s, s.h \in Nat, s.r \in Nat,
           NEW id, id = FindView(w, s.h, s.r)
    PROVE  /\ id \in {"voting", "nextRound"} => Reached(w.disk, s) /\ ~Passed(w.disk, s)
           /\ id \notin FoundIDs /\ Reached(w.disk, s) => Passed(w.disk, s)
  <1>1. w.disk.nhr.vh = w.voting.h /\ w.disk.nhr.vr = w.voting.r
    BY DEF Sound, Recorded
  <1>2. w.voting.h \in Nat /\ w.voting.r \in Nat
    BY KernelPlaces
  <1> QED BY <1>1, <1>2 DEF FindView, FoundIDs, Reached, Passed

\* A kernel that has survived a step has the disk image that the step made.
LEMMA KernelStepDisk ==
    ASSUME NEW w \in Kernel, NEW g, NEW q, KernelStep(w, g, q), kernel'.up
    PROVE  kernel'.disk = w.disk
  <1>1. ASSUME NEW d, Dies(d) PROVE FALSE
    BY <1>1 DEF Dies, BlankKernel
  <1>2. kernel' = [w EXCEPT !.torn = {}, !.room = {}]
    BY <1>1 DEF KernelStep
  <1> QED BY <1>2 DEF Kernel

\* A later disk image has reached and passed what the one before it has.
LEMMA LaterReached ==
    ASSUME NEW d \in Disk, NEW e \in Disk, Later(d, e), NEW s, s.h \in Nat, s.r \in Nat
    PROVE  (Reached(d, s) => Reached(e, s)) /\ (Passed(d, s) => Passed(e, s))
  <1>1. /\ d.nhr.vh \in Nat /\ d.nhr.vr \in Nat /\ e.nhr.vh \in Nat /\ e.nhr.vr \in Nat
    BY DEF Disk
  <1> QED BY <1>1 DEF Reached, Passed, Later

\* The header that the kernel takes is stored, or its round is passed.
LEMMA TakenArrives ==
    ASSUME ReplaysNear, Underway, kernel.up, kernel'.up, sm.pc \in Active,
           NEW p \in Proposal, p = store.acts[<<sm.h, sm.r>>].ph,
           KernelStep(addProposedHeader(kernel, p), hs, phQueue)
    PROVE  Arrived(store.acts, kernel'.disk, sm) \/ Passed(kernel'.disk, sm)
  <1> DEFINE A == store.acts
             S == Signatures(A)
             x == <<sm.h, sm.r>>
             w == addProposedHeader(kernel, p)
  <1>1. /\ kernel \in Kernel /\ Sound(kernel) /\ sm \in Life /\ Sent(A, kernel.disk, sm)
        /\ Authored(A) /\ kernel.disk \in Disk /\ kernel'.disk \in Disk
    BY UnderwayFacts DEF Underway, EngineInv, MirrorInv, Placed
  <1>2. x \in HR /\ sm.h \in Nat /\ sm.r \in Nat /\ x[1] = sm.h /\ x[2] = sm.r
    BY <1>1 DEF Sent, Life
  <1>3. p # NoProposal /\ p = A[x].ph
    BY ProposalIsOne
  <1>4. x \in Proposed(A)
    BY <1>2, <1>3 DEF Proposed
  <1> HIDE DEF x
  <1>5. p.by = OwnKey /\ p.h = sm.h /\ p.r = sm.r
    BY <1>1, <1>2, <1>3, <1>4 DEF Authored
  <1>6. Safe(S, kernel, hs, phQueue) /\ Remembered(A, kernel.disk)
    BY DEF Underway, SigningInv, Signing
  <1>7. Owned(A, kernel.disk, p)
    BY <1>2, <1>3, <1>6 DEF Remembered
  <1>8. w \in Kernel /\ S \in Signers /\ Good(S, kernel)
    BY <1>1, <1>6, addProposedHeaderType, SignaturesType DEF Safe
  <1>9. p.h = kernel.voting.h => p \in Carriers(S)
    <2>1. kernel.disk.nhr.vh = kernel.voting.h /\ kernel.voting.h \in Nat
      BY <1>1, KernelPlaces DEF Sound, Recorded
    <2> QED BY <1>7, <2>1 DEF Owned
  <1>10. FindView(kernel, p.h, p.r) \in FoundIDs => Held(w.disk, p)
    <2>1. p.by \in S[<<"ph", p.h, p.r, p.hash>>]
      BY <1>7 DEF Owned
    <2> HIDE DEF S, A
    <2> QED BY <1>1, <1>8, <1>9, <2>1, addProposedHeaderGood
  <1> HIDE DEF w
  <1>11. kernel'.disk = w.disk
    BY <1>8, KernelStepDisk DEF w
  <1>12. CASE FindView(kernel, p.h, p.r) \in FoundIDs
    BY <1>3, <1>5, <1>10, <1>11, <1>12 DEF Held, Arrived, x
  <1>13. CASE FindView(kernel, p.h, p.r) \notin FoundIDs
    <2>1. Reached(kernel.disk, sm)
      BY <1>1 DEF Sent
    <2>2. Passed(kernel.disk, sm)
      BY <1>1, <1>2, <1>5, <1>13, <2>1, ReachedOrPassed
    <2> QED BY <1>1, <1>2, <2>2, LaterReached DEF Underway
  <1> QED BY <1>12, <1>13

\* The kernel's case of the actions channel.
LEMMA MirrorTakesActionHanded ==
    ASSUME ReplaysNear, Underway, NEW room \in FetchRooms, MirrorTakesAction(room)
    PROVE  HandedInv'
  <1> DEFINE a == Head(sm.acts)
             w == IF a.kind = "ph" THEN addProposedHeader(kernel, a.ph)
                  ELSE handleStateMachineVote(WithRoom(kernel, room), a.kind, a.hash, OwnKey)
             s == [sm EXCEPT !.acts = Tail(@)]
             A == store.acts
  <1>1. /\ Alive /\ kernel.up /\ sm.acts # <<>> /\ KernelStep(w, hs, phQueue) /\ Survives(s)
        /\ store' = store
    BY DEF MirrorTakesAction, Alive
  <1>2. /\ sm \in Life /\ kernel.disk \in Disk /\ kernel'.disk \in Disk
        /\ Authored(A) /\ InTurn(store, sm)
        /\ sm.pc \in Active => Sent(A, kernel.disk, sm)
    BY <1>1, UnderwayFacts
  <1>3. CASE ~kernel'.up
    <2>1. sm' = Down
      BY <1>1, <1>3 DEF Survives
    <2>2. sm'.pc = "down" /\ ~sm'.genesis
      BY <2>1 DEF Down, NewStateMachine
    <2> QED BY <1>1, <2>2, RestingHanded
  <1>4. CASE kernel'.up
    <2>1. sm' = s
      BY <1>1, <1>4 DEF Survives
    <2>2. /\ s.acts = Tail(sm.acts) /\ s.pc = sm.pc /\ s.h = sm.h /\ s.r = sm.r
          /\ s.init = sm.init /\ s.genesis = sm.genesis
      BY <1>2 DEF Life
    <2> HIDE DEF s
    <2>3. InTurn(store, s)
      BY <1>2, <2>2 DEF InTurn, NoneAfter, NoneSince, NotAfter, Before
    <2>4. ASSUME sm.pc \in Active PROVE Sent(A, kernel'.disk, s)
      <3>1. Sent(A, kernel.disk, sm) /\ sm.h \in Nat /\ sm.r \in Nat
        BY <1>2, <2>4 DEF Life
      <3>2. Later(kernel.disk, kernel'.disk)
        BY DEF Underway
      <3>3. /\ Reached(kernel.disk, sm) => Reached(kernel'.disk, sm)
            /\ Passed(kernel.disk, sm) => Passed(kernel'.disk, sm)
        BY <1>2, <3>1, <3>2, LaterReached
      <3>4. Arrived(A, kernel.disk, sm) => Arrived(A, kernel'.disk, sm)
        BY <3>1, <3>2 DEF Arrived, Later, Sent
      <3>5. sm.acts \in Seq(Action)
        BY <1>2 DEF Life
      <3>6. /\ Len(sm.acts) \in Nat /\ Len(s.acts) = Len(sm.acts) - 1 /\ 1 \in 1..Len(sm.acts)
            /\ \A i \in 1..Len(s.acts) : i + 1 \in 1..Len(sm.acts) /\ s.acts[i] = sm.acts[i + 1]
            /\ a = sm.acts[1] /\ a \in Action
        BY <1>1, <2>2, <3>5
      <3> HIDE DEF a
      <3>7. \A i \in 1..Len(s.acts) :
              s.acts[i].kind = "ph" => s.acts[i].ph = A[<<sm.h, sm.r>>].ph
        BY <3>1, <3>6 DEF Sent
      <3>8. Waiting(sm) /\ a.kind # "ph" => Waiting(s)
        <4> SUFFICES ASSUME a.kind # "ph", NEW i \in 1..Len(sm.acts), sm.acts[i].kind = "ph"
                     PROVE  Waiting(s)
          BY DEF Waiting
        <4>1. i # 1
          BY <3>6
        <4>2. i - 1 \in 1..Len(s.acts) /\ s.acts[i - 1] = sm.acts[i]
          BY <3>6, <4>1
        <4> QED BY <4>2 DEF Waiting
      <3>9. a.kind = "ph" => Arrived(A, kernel'.disk, sm) \/ Passed(kernel'.disk, sm)
        <4> SUFFICES ASSUME a.kind = "ph"
                     PROVE  Arrived(A, kernel'.disk, sm) \/ Passed(kernel'.disk, sm)
          OBVIOUS
        <4>1. a.ph \in Proposal /\ a.ph = A[<<sm.h, sm.r>>].ph
          BY <3>1, <3>6, ActionFields DEF Sent
        <4>2. KernelStep(addProposedHeader(kernel, a.ph), hs, phQueue)
          BY <1>1
        <4> QED BY <1>1, <1>4, <2>4, <4>1, <4>2, TakenArrives
      <3> QED BY <2>2, <3>1, <3>3, <3>4, <3>7, <3>8, <3>9 DEF Sent, Arrived, Reached, Passed
    <2> QED BY <1>1, <1>2, <2>1, <2>2, <2>3, <2>4 DEF HandedInv, Handed
  <1> QED BY <1>3, <1>4

\* A round that is answered with a committed header is one the mirror is past.
LEMMA EnterReplaySent ==
    ASSUME NEW st \in Stores, NEW s \in Life, Ordered(s), s.pc = "enter", InTurn(st, s),
           <<s.h, s.r>> \in HR, NEW d \in Disk, s.h < d.nhr.vh,
           NEW f \in [h : Nat, r : Nat, hash : Hashes], f.hash # Nil, NEW x, x = Replayed(s, f)
    PROVE  InTurn(st, x) /\ (x.pc \in Active => Sent(st.acts, d, x))
  <1> DEFINE y == [s EXCEPT !.acts = <<>>, !.finalizing = f]
             z == IF s.init THEN y ELSE MarkCatchingUp(y)
  <1>1. x = Run(z)
    BY DEF Replayed
  <1>2. Shaped(z) /\ z.acts = <<>>
    BY DEF MarkCatchingUp, Life, Shaped, Fields
  <1> HIDE DEF z
  <1>3. x.acts = <<>>
    BY <1>1, <1>2, RunStill DEF Still
  <1>4. Moved(s, x)
    BY ReplayMoved
  <1>5. s.h \in Nat /\ s.r \in Nat /\ d.nhr.vh \in Nat
    BY DEF Life, Disk
  <1>6. \/ x.h = s.h /\ x.r = s.r /\ x.pc \in {"run", "send", "quit", "panic"}
        \/ Before(s, x) /\ x.pc = "save" /\ x.h \in Nat /\ x.r \in Nat
    BY <1>4, <1>5 DEF Moved, Before
  <1>7. /\ NoneAfter(st.acts, Resumes(st)) /\ NoneAfter(st.acts, s)
        /\ NotAfter(s, Resumes(st))
    BY DEF InTurn, Active
  <1>8. InTurn(st, x)
    <2>1. CASE x.h = s.h /\ x.r = s.r /\ x.pc \in {"run", "send", "quit", "panic"}
      BY <1>7, <2>1 DEF InTurn, NoneAfter, NotAfter
    <2>2. CASE Before(s, x) /\ x.pc = "save" /\ x.h \in Nat /\ x.r \in Nat
      <3>1. ASSUME NEW k \in Proposed(st.acts)
            PROVE  Before(Place(k), x) /\ NotAfter(Place(k), x)
        <4>1. NotAfter(Place(k), s)
          BY <1>7 DEF NoneAfter
        <4> QED BY <1>5, <2>2, <4>1, ProposedPlace DEF Before, NotAfter
      <3> QED BY <1>7, <2>2, <3>1 DEF InTurn, NoneAfter, NoneSince, Active
    <2> QED BY <1>6, <2>1, <2>2
  <1>9. ASSUME x.pc \in Active PROVE Sent(st.acts, d, x)
    <2>1. x.h = s.h /\ x.r = s.r
      BY <1>6, <1>9 DEF Active
    <2> QED BY <1>3, <2>1 DEF Sent, Reached, Passed
  <1> QED BY <1>8, <1>9

\* The mirror has reached every round it has a view of.
LEMMA FoundReached ==
    ASSUME NEW w \in Kernel, Sound(w), NEW s, s.h \in Nat, s.r \in Nat,
           FindView(w, s.h, s.r) \in FoundIDs
    PROVE  Reached(w.disk, s)
  <1>1. w.disk.nhr.vh = w.voting.h /\ w.disk.nhr.vr = w.voting.r
    BY DEF Sound, Recorded
  <1>2. w.voting.h \in Nat /\ w.voting.r \in Nat /\ w.committing.h \in Nat
    BY KernelPlaces
  <1>3. Consecutive(w.voting.h, w.committing.h, w.committing.r)
    BY DEF Sound, Aligned
  <1> QED BY <1>1, <1>2, <1>3 DEF FindView, FoundIDs, Reached, Consecutive

\* What the mirror's view of a round has of the signer is its recorded header,
\* and is stored.
LEMMA SightedArrived ==
    ASSUME ReplaysNear, EngineInv, SigningInv, kernel.up,
           NEW s, s.h \in Nat, s.r \in Nat, <<s.h, s.r>> \in HR,
           NEW id, id = FindView(kernel, s.h, s.r), id \in FoundIDs
    PROVE  /\ (\E p \in GetView(kernel, id).phs : p.by = OwnKey) =>
                Arrived(store.acts, kernel.disk, s)
           /\ Arrived(store.acts, kernel.disk, s) =>
                [hash |-> store.acts[<<s.h, s.r>>].ph.hash, by |-> OwnKey]
                  \in GetView(kernel, id).phs
  <1> DEFINE d == kernel.disk
             v == GetView(kernel, id)
             x == <<s.h, s.r>>
  <1>1. kernel \in Kernel /\ Sound(kernel) /\ d \in Disk
    BY KernelDisk DEF EngineInv, MirrorInv, TypeOK, Placed
  <1>2. v.h = s.h /\ v.r = s.r /\ v \in View
    BY <1>1, FindViewPlace, GetViewType DEF Sound
  <1>3. MirroredView(d, v)
    BY DEF SigningInv, Signing, Safe, Good, GoodView
  <1>4. {p \in v.phs : p.by # NoProposer} = d.phs[x]
    BY <1>2, <1>3 DEF MirroredView
  <1>5. OwnKey # NoProposer
    BY PastHeights, BoundsAssumption
  <1>6. d.phs[x] \subseteq HeldPH
    BY <1>1 DEF Disk
  <1>7. NoDoubleSign
    BY SignedOnce
  <1> HIDE DEF v, d, x
  <1>8. ASSUME NEW p \in v.phs, p.by = OwnKey PROVE Arrived(store.acts, d, s)
    <2>1. p \in d.phs[x] /\ p \in HeldPH
      BY <1>4, <1>5, <1>6, <1>8
    <2>2. store.acts[x].ph.hash = p.hash
      BY <1>7, <1>8, <2>1 DEF NoDoubleSign, d, x
    <2>3. p = [hash |-> p.hash, by |-> p.by]
      BY <2>1 DEF HeldPH
    <2> QED BY <1>8, <2>1, <2>2, <2>3 DEF Arrived, x
  <1> QED BY <1>4, <1>8 DEF Arrived, v, d, x

\* A round that is answered with a view, in initializeRLC or later.
LEMMA EnterLiveSent ==
    ASSUME ReplaysNear, Underway, kernel.up, sm.pc = "enter", <<sm.h, sm.r>> \in HR,
           NEW id, id = FindView(kernel, sm.h, sm.r), id \in FoundIDs,
           NEW x, x = EnterLive(Seen(GetView(kernel, id)))
    PROVE  \/ x = Quit(sm)
           \/ InTurn(store, x) /\ Sent(store.acts, kernel'.disk, x)
  <1> DEFINE g   == GetView(kernel, id)
             v   == Seen(g)
             A   == store.acts
             own == A[<<sm.h, sm.r>>].ph
  <1> SUFFICES ASSUME x # Quit(sm) PROVE InTurn(store, x) /\ Sent(A, kernel'.disk, x)
    OBVIOUS
  <1>1. /\ kernel \in Kernel /\ Sound(kernel) /\ sm \in Life /\ store \in Stores
        /\ InTurn(store, sm) /\ kernel.disk \in Disk /\ kernel'.disk \in Disk
        /\ EngineInv /\ SigningInv /\ Later(kernel.disk, kernel'.disk)
    BY UnderwayFacts DEF Underway, EngineInv, MirrorInv, Placed
  <1>2. v \in SeenView /\ v.phs = g.phs
    BY <1>1, GetViewType, SeenType DEF Seen
  <1>3. sm.h \in Nat /\ sm.r \in Nat
    BY <1>1 DEF Life
  <1> HIDE DEF v, own
  <1>4. /\ x.pc = "send" /\ x.h = sm.h /\ x.r = sm.r
        /\ \/ /\ x.acts = <<>>
              /\ sm.init => own = NoProposal \/ \E p \in v.phs : p.by = OwnKey
           \/ x.acts = <<[kind |-> "ph", ph |-> own]>> /\ own # NoProposal
    BY <1>1, <1>2, EnterLiveShape DEF v, own
  <1>5. InTurn(store, x)
    BY <1>1, <1>4 DEF InTurn, NoneAfter, NotAfter, Active
  <1>6. Reached(kernel'.disk, sm)
    BY <1>1, <1>3, FoundReached, LaterReached
  <1>7. CASE x.acts = <<[kind |-> "ph", ph |-> own]>>
    <2> DEFINE a == [kind |-> "ph", ph |-> own]
    <2>1. a.kind = "ph" /\ a.ph = own /\ x.acts = <<a>>
      BY <1>7
    <2> HIDE DEF a
    <2>2. Len(x.acts) = 1 /\ x.acts[1] = a
      BY <2>1
    <2>3. Waiting(x)
      BY <2>1, <2>2 DEF Waiting
    <2>4. \A i \in 1..Len(x.acts) : i = 1
      BY <2>2
    <2> QED BY <1>4, <1>5, <1>6, <2>1, <2>2, <2>3, <2>4 DEF Sent, Reached, own
  <1>8. CASE x.acts = <<>>
    <2>1. own # NoProposal => Arrived(A, kernel'.disk, sm)
      <3> SUFFICES ASSUME own # NoProposal PROVE Arrived(A, kernel'.disk, sm)
        OBVIOUS
      <3>1. sm.init
        <4> SUFFICES ASSUME ~sm.init PROVE FALSE
          OBVIOUS
        <4>1. NoneSince(A, sm)
          BY <1>1 DEF InTurn
        <4>2. <<sm.h, sm.r>> \in Proposed(A)
          BY DEF Proposed, own
        <4>3. Before(Place(<<sm.h, sm.r>>), sm)
          BY <4>1, <4>2 DEF NoneSince
        <4> QED BY <1>3, <4>3 DEF Before, Place
      <3>2. x.acts # <<[kind |-> "ph", ph |-> own]>>
        BY <1>8
      <3>3. \E p \in g.phs : p.by = OwnKey
        BY <1>2, <1>4, <3>1, <3>2
      <3>4. Arrived(A, kernel.disk, sm)
        BY <1>1, <1>3, <3>3, SightedArrived
      <3> QED BY <1>1, <3>4 DEF Arrived, Later
    <2>2. Len(x.acts) = 0
      BY <1>8
    <2> QED BY <1>4, <1>5, <1>6, <2>1, <2>2 DEF Sent, Reached, Arrived, own
  <1> QED BY <1>4, <1>7, <1>8

\* handleStateMachineRoundEntrance and initializeRLC.
LEMMA SMEnterHanded == ASSUME ReplaysNear, Underway, SMEnter PROVE HandedInv'
  <1> DEFINE h  == sm.h
             r  == sm.r
             id == FindView(kernel, h, r)
             w  == handleStateMachineRoundEntrance(kernel, h, r)
             v  == Seen(GetView(kernel, id))
             c  == kernel.disk.headers[h]
             x  == IF id \in FoundIDs THEN EnterLive(v) ELSE EnterReplay(c)
  <1>1. /\ Alive /\ sm.pc = "enter" /\ <<h, r>> \in SMRounds /\ kernel.up /\ store' = store
        /\ KernelStep(w, hs, phQueue) /\ Survives(x) /\ EngineInv
    BY DEF SMEnter, Alive, Underway
  <1>2. /\ kernel \in Kernel /\ Sound(kernel) /\ sm \in Life /\ Ordered(sm)
        /\ kernel.disk \in Disk /\ kernel'.disk \in Disk /\ store \in Stores
        /\ InTurn(store, sm) /\ Authored(store.acts) /\ Later(kernel.disk, kernel'.disk)
    BY <1>1, UnderwayFacts, AliveFacts DEF Underway
  <1>3. h \in Nat /\ h # 0 /\ r \in Nat /\ h \in Heights /\ <<h, r>> \in HR
    <2> DEFINE y == <<h, r>>
    <2>1. y[1] = h /\ y[2] = r /\ y \in SMRounds
      BY <1>1
    <2>2. y \in HR /\ h \in Heights /\ h \in Nat \ {0} /\ r \in Nat
      <3> HIDE DEF y, h, r
      <3> QED BY <2>1, RoundPlace
    <2> QED BY <2>2
  <1>4. w \in Kernel
    BY <1>2, <1>3, handleStateMachineRoundEntranceType
  <1>5. CASE ~kernel'.up
    <2> HIDE DEF x
    <2>1. sm' = Down
      BY <1>1, <1>5 DEF Survives
    <2>2. sm'.pc = "down" /\ ~sm'.genesis
      BY <2>1 DEF Down, NewStateMachine
    <2> QED BY <1>1, <2>2, RestingHanded
  <1>6. CASE kernel'.up
    <2>1. ~w.panic
      <3> HIDE DEF w
      <3> QED BY <1>1, <1>4, <1>6, KernelStepSurvived
    <2>2. id \in FoundIDs \/ (id = "beforeCommitting" /\ c.hash # Nil)
      <3>1. w = handleStateMachineRoundEntrance(kernel, h, r)
        OBVIOUS
      <3> HIDE DEF w, h, r
      <3> QED BY <1>2, <1>3, <2>1, <3>1, RoundEntranceEffect
    <2>3. sm' = x
      <3> HIDE DEF x
      <3> QED BY <1>1, <1>6 DEF Survives
    <2>4. CASE id \in FoundIDs
      <3>1. x = EnterLive(v)
        BY <2>4
      <3> HIDE DEF x
      <3>2. x = Quit(sm) \/ (InTurn(store, x) /\ Sent(store.acts, kernel'.disk, x))
        BY <1>1, <1>3, <2>4, <3>1, EnterLiveSent
      <3>3. CASE x = Quit(sm)
        BY <1>1, <1>2, <2>3, <3>3, EndedFollows, FollowedHanded
      <3>4. CASE InTurn(store, x) /\ Sent(store.acts, kernel'.disk, x)
        BY <1>1, <1>2, <2>3, <3>4 DEF HandedInv, Handed
      <3> QED BY <3>2, <3>3, <3>4
    <2>5. CASE id \notin FoundIDs
      <3> DEFINE f == [h |-> sm.h, r |-> c.r, hash |-> c.hash]
      <3>1. c.r \in Nat /\ c.hash \in Hashes
        BY <1>2, <1>3 DEF Disk
      <3>2. f \in [h : Nat, r : Nat, hash : Hashes] /\ f.hash # Nil
        BY <1>3, <2>2, <2>5, <3>1
      <3>3. x = Replayed(sm, f)
        BY <2>5 DEF EnterReplay, Replayed
      <3>4. sm.h < kernel.disk.nhr.vh
        BY <1>2, <1>3, <2>2, <2>5, BeforeCommittingPast
      <3>5. sm.h < kernel'.disk.nhr.vh
        <4>1. kernel.disk.nhr.vh \in Nat /\ kernel'.disk.nhr.vh \in Nat
          BY <1>2 DEF Disk
        <4> QED BY <1>2, <1>3, <3>4, <4>1 DEF Later
      <3> HIDE DEF x, f
      <3>6. InTurn(store, x) /\ (x.pc \in Active => Sent(store.acts, kernel'.disk, x))
        BY <1>1, <1>2, <1>3, <3>2, <3>3, <3>5, EnterReplaySent
      <3> QED BY <1>1, <1>2, <2>3, <3>6 DEF HandedInv, Handed
    <2> QED BY <2>4, <2>5
  <1> QED BY <1>5, <1>6

-----------------------------------------------------------------------------
(* The first state, and the theorem. *)

\* The engine starts with the headers of the past on record.
LEMMA EngineInitHanded == ASSUME EngineInit PROVE HandedInv
  <1> DEFINE A == PastStore.acts
  <1>1. /\ store = PastStore /\ store.acts = A /\ sm = NewStateMachine(Past = {})
        /\ store.hr = IF Past = {} THEN <<0, 0>> ELSE <<ResumeAt, 0>>
        /\ store.fin = [h \in Heights |-> IF h \in Past THEN 1 ELSE Nil]
    BY DEF EngineInit, PastStore
  <1>2. sm.pc = "start" /\ (sm.genesis => Past = {})
    BY <1>1 DEF NewStateMachine
  <1>3. ASSUME NEW x \in Proposed(A)
        PROVE  /\ x = <<x[1], 0>> /\ x[1] \in Past /\ x[2] = 0
               /\ A[x].ph.by = OwnKey /\ A[x].ph.h = x[1] /\ A[x].ph.r = x[2]
    <2>1. x \in HR /\ A[x].ph # NoProposal
      BY DEF Proposed
    <2>2. x \in PastRounds
      BY <2>1 DEF PastStore, NoActions
    <2>3. x = <<x[1], 0>> /\ x[1] \in Past /\ x[2] = 0
      BY <2>2 DEF PastRounds
    <2>4. PICK h \in Past : h = x[1]
      BY <2>3
    <2>5. x = <<h, 0>>
      BY <2>3, <2>4
    <2>6. A[<<h, 0>>].ph.by = OwnKey /\ A[<<h, 0>>].ph.h = h /\ A[<<h, 0>>].ph.r = 0
      BY PastSigned
    <2> QED BY <2>3, <2>4, <2>5, <2>6
  <1>4. Authored(A)
    BY <1>3 DEF Authored
  <1>5. NoneAfter(A, Resumes(store))
    <2> SUFFICES ASSUME NEW x \in Proposed(A) PROVE NotAfter(Place(x), Resumes(store))
      BY DEF NoneAfter
    <2>1. x[1] \in Past /\ x[1] \in Nat /\ x[1] < ResumeAt /\ ResumeAt \in Nat
      BY <1>3, PastHeights
    <2>2. store.hr[1] = ResumeAt /\ store.hr[2] = 0
      BY <1>1, <2>1
    <2>3. Resumes(store).h \in Nat /\ Resumes(store).h >= ResumeAt
      BY <2>1, <2>2 DEF Resumes, Place
    <2> QED BY <2>1, <2>3 DEF NotAfter, Place
  <1>6. sm.genesis => store.hr[1] = 0 /\ ~Final(store, 1)
    <2> SUFFICES ASSUME Past = {} PROVE store.hr[1] = 0 /\ ~Final(store, 1)
      BY <1>2
    <2> QED BY <1>1, EngineAssumption DEF Final
  <1> HIDE DEF A
  <1>7. InTurn(store, sm)
    BY <1>1, <1>2, <1>5, <1>6 DEF InTurn, Active
  <1> QED BY <1>1, <1>2, <1>4, <1>7 DEF HandedInv, Handed, Active

\* Every step of the engine hands over what is on record.
LEMMA EngineNextHanded ==
    ASSUME ReplaysNear, EngineInv, EngineInv', SigningInv, HandedInv, [EngineNext]_engineVars
    PROVE  HandedInv'
  <1>1. Underway
    BY EngineNextSigned DEF Underway
  <1>2. CASE MirrorAlone
    BY <1>1, <1>2, MirrorAloneHanded DEF MirrorAlone
  <1>3. CASE EngineCrash \/ EngineRestart
    BY <1>1, <1>3, CrashRestartHanded
  <1>4. CASE StateMachineStep
    <2>1. CASE SMStart \/ SMSave \/ SMEnter
      BY <1>1, <2>1, SMStartHanded, SMSaveHanded, SMEnterHanded
    <2>2. CASE \/ CMTakeRequest \/ SendTimeout \/ EnterRoundReturns \/ NotReady
               \/ \E hash \in Hashes : StrategyChooses(hash)
      BY <1>1, <2>2, ManagerHanded
    <2>3. CASE \/ ViewUpdate \/ TimerElapsed \/ HeightCommitted
               \/ \E b \in Blocks : BlockDataArrival(b)
      BY <1>1, <2>3, EventHanded
    <2>4. CASE \E p \in Proposals : Propose(p)
      BY <1>1, <2>4, ProposeHanded
    <2>5. CASE Prevote \/ Precommit
      BY <1>1, <2>5, VotesHanded
    <2>6. CASE Finalization
      BY <1>1, <2>6, FinalizationHanded
    <2>7. CASE \E room \in FetchRooms : MirrorTakesAction(room)
      BY <1>1, <2>7, MirrorTakesActionHanded
    <2> QED BY <1>4, <2>1, <2>2, <2>3, <2>4, <2>5, <2>6, <2>7 DEF StateMachineStep
  <1>5. CASE UNCHANGED engineVars
    BY <1>5 DEF engineVars, HandedInv
  <1> QED BY <1>2, <1>3, <1>4, <1>5 DEF EngineNext

\* What has arrived is in the mirror's view of the round.
LEMMA HandedReaches ==
    ASSUME ReplaysNear, EngineInv, SigningInv, HandedInv PROVE ProposalReachesMirror
  <1> DEFINE x  == <<sm.h, sm.r>>
             id == FindView(kernel, sm.h, sm.r)
             ph == store.acts[x].ph
  <1> SUFFICES ASSUME Live, x \in HR, id \in {"voting", "nextRound"}, ph # NoProposal
               PROVE  \/ [hash |-> ph.hash, by |-> OwnKey] \in GetView(kernel, id).phs
                      \/ \E i \in 1..Len(sm.acts) : sm.acts[i].kind = "ph"
    BY DEF ProposalReachesMirror
  <1>1. kernel.up /\ sm.pc \in Active /\ sm \in Life /\ kernel \in Kernel /\ Sound(kernel)
    BY DEF Live, Alive, Active, EngineInv, InOrder, MirrorInv, TypeOK, Placed
  <1>2. sm.h \in Nat /\ sm.r \in Nat
    BY <1>1 DEF Life
  <1>3. Sent(store.acts, kernel.disk, sm)
    BY <1>1 DEF HandedInv, Handed
  <1>4. ~Passed(kernel.disk, sm)
    BY <1>1, <1>2, ReachedOrPassed
  <1>5. Waiting(sm) \/ Arrived(store.acts, kernel.disk, sm)
    BY <1>3, <1>4 DEF Sent
  <1>6. id \in FoundIDs
    BY DEF FoundIDs
  <1>7. CASE Waiting(sm)
    BY <1>7 DEF Waiting
  <1>8. CASE Arrived(store.acts, kernel.disk, sm)
    <2> HIDE DEF id
    <2> QED BY <1>1, <1>2, <1>6, <1>8, SightedArrived DEF id
  <1> QED BY <1>5, <1>7, <1>8

\* A proposal that the signer recorded for its round is in the mirror's view of
\* that round or on its way there, whatever crashes lay between recording and
\* sending it: a header is never on record for a round after the one a process
\* resumes at, so sending it again in the first round of a process is enough
\* (recordProposedHeader, initializeRLC, SetStateMachineHeightRound).
THEOREM ProposalReachesMirrorAlways ==
    ASSUME ReplaysNear PROVE EngineSpec => []ProposalReachesMirror
<1>1. EngineInit => HandedInv
  BY EngineInitHanded
<1>2. EngineInv /\ EngineInv' /\ SigningInv /\ HandedInv /\ [EngineNext]_engineVars => HandedInv'
  BY EngineNextHanded
<1>3. EngineInv /\ SigningInv /\ HandedInv => ProposalReachesMirror
  BY HandedReaches
<1> QED BY <1>1, <1>2, <1>3, SigningAlways, EngineInvAlways, PTL DEF EngineSpec

-----------------------------------------------------------------------------
(* The start of a process.  sendInitialActionSet computes h - 2 and h - 3 of  *)
(* the height it starts at; from height 3 on that is not below zero, and the  *)
(* heights up to h - 1 have their finalizations (NoGap).                      *)

\* A process resumes at ResumeAt or later.
Begun(st, s) ==
    /\ st.hr[1] >= ResumeAt
    /\ s.pc \in Active \cup {"save", "enter"} => s.h >= ResumeAt

BegunInv == Begun(store, sm)

\* From y on the state machine is not at an earlier height than in s.
GoesOn(s, y) ==
    y.pc \in Active \cup {"save", "enter"} => s.pc \in Active \cup {"save", "enter"} /\ y.h >= s.h

\* It stays begun.
LEMMA GoesOnBegun ==
    ASSUME sm \in Life, sm' \in Life, BegunInv, GoesOn(sm, sm'), store'.hr = store.hr
    PROVE  BegunInv'
  <1>1. sm.h \in Nat /\ sm'.h \in Nat /\ ResumeAt \in Nat
    BY PastHeights DEF Life
  <1> QED BY <1>1 DEF BegunInv, Begun, GoesOn

\* A state machine that moves goes forward.
LEMMA MovedGoesOn ==
    ASSUME NEW s \in Life, s.pc \in Active \cup {"save", "enter"}, NEW y, Moved(s, y)
    PROVE  GoesOn(s, y)
  <1>1. s.h \in Nat
    BY DEF Life
  <1> QED BY <1>1 DEF Moved, GoesOn

\* One that keeps its program counter and its height does, or that ends.
LEMMA SameGoesOn ==
    ASSUME NEW s \in Life, NEW y,
           \/ y.pc = s.pc /\ y.h = s.h
           \/ y.pc \in {"quit", "panic", "down", "start"}
    PROVE  GoesOn(s, y)
  <1>1. s.h \in Nat
    BY DEF Life
  <1> QED BY <1>1 DEF GoesOn, Active

\* The steps of the state machine within a round, and those that leave one.
LEMMA StepGoesOn ==
    ASSUME EngineInv, EngineInv',
           \/ CMTakeRequest \/ SendTimeout \/ EnterRoundReturns \/ NotReady
           \/ \E hash \in Hashes : StrategyChooses(hash)
           \/ ViewUpdate \/ TimerElapsed \/ HeightCommitted
           \/ \E b \in Blocks : BlockDataArrival(b)
    PROVE  GoesOn(sm, sm') /\ store' = store
  <1>1. /\ Alive /\ store' = store /\ sm \in Life /\ Ordered(sm)
    BY DEF CMTakeRequest, SendTimeout, EnterRoundReturns, NotReady, StrategyChooses, Alive,
           SMOnly, ViewUpdate, TimerElapsed, HeightCommitted, BlockDataArrival, Live,
           EngineInv, InOrder
  <1>2. CASE CMTakeRequest
    <2> DEFINE s == TakeRequest(sm)
    <2>1. sm.pc = "send" /\ sm' = s
      BY <1>2 DEF CMTakeRequest, SMOnly
    <2>2. (s.pc = "wait" /\ s.h = sm.h) \/ Moved(sm, s)
      BY <1>1, <2>1, TakeRequestStepped DEF Settled
    <2>3. sm.h \in Nat
      BY <1>1 DEF Life
    <2> HIDE DEF s
    <2> QED BY <1>1, <2>1, <2>2, <2>3, MovedGoesOn DEF GoesOn, Active
  <1>3. CASE SendTimeout
    <2>1. sm' = SMPanic(sm)
      BY <1>3 DEF SendTimeout, SMOnly
    <2>2. sm'.pc = "panic"
      BY <1>1, <2>1 DEF SMPanic, Life
    <2> QED BY <1>1, <2>2, SameGoesOn
  <1>4. CASE EnterRoundReturns
    <2> DEFINE s == beginRoundLive([sm EXCEPT !.cm = IdleManager])
    <2>1. sm.pc = "wait" /\ sm' = s
      BY <1>4 DEF EnterRoundReturns, SMOnly
    <2>2. Moved(sm, s)
      BY <1>1, <2>1, RoundBegins DEF Settled
    <2> HIDE DEF s
    <2> QED BY <1>1, <2>1, <2>2, MovedGoesOn DEF Active
  <1>5. CASE NotReady \/ \E hash \in Hashes : StrategyChooses(hash)
    <2>1. sm'.pc = sm.pc /\ sm'.h = sm.h
      BY <1>1, <1>5 DEF NotReady, StrategyChooses, SMOnly, SendResult, Life
    <2> QED BY <1>1, <2>1, SameGoesOn
  <1>6. CASE ViewUpdate
    <2> DEFINE o == StateMachineOutput(kernel.sm)
               x == handleViewUpdate(sm, Seen(o.vrv), Seen(o.jump))
    <2>1. sm' = x /\ sm.pc = "run"
      BY <1>6 DEF ViewUpdate, Live
    <2>2. x = sm \/ Moved(sm, x)
      BY <1>1, <1>6, ViewUpdateMoves DEF ViewUpdate, Settled
    <2> HIDE DEF x
    <2> QED BY <1>1, <2>1, <2>2, MovedGoesOn, SameGoesOn DEF Active
  <1>7. ASSUME Live, NEW s, Stepped(sm, s), sm' = s PROVE GoesOn(sm, sm')
    <2>1. sm.pc \in Active /\ Moved(sm, s)
      BY <1>7 DEF Live, Active, Stepped
    <2> QED BY <1>1, <1>7, <2>1, MovedGoesOn
  <1>8. CASE TimerElapsed
    <2>1. Live /\ Stepped(sm, handleTimerElapsed(sm))
      BY <1>1, <1>8, handleTimerElapsedSettled, SettledStepped DEF TimerElapsed, Live
    <2> QED BY <1>1, <1>7, <1>8, <2>1 DEF TimerElapsed, SMOnly
  <1>9. CASE HeightCommitted
    <2>1. Live /\ Stepped(sm, handleHeightCommitted(sm))
      BY <1>1, <1>9, handleHeightCommittedStepped DEF HeightCommitted, Live
    <2> QED BY <1>1, <1>7, <1>9, <2>1 DEF HeightCommitted, SMOnly
  <1>10. ASSUME NEW b \in Blocks, BlockDataArrival(b) PROVE GoesOn(sm, sm')
    <2>1. Live /\ Stepped(sm, handleBlockDataArrival(sm, b))
      BY <1>1, <1>10, handleBlockDataArrivalStepped DEF BlockDataArrival, Live
    <2> QED BY <1>7, <1>10, <2>1 DEF BlockDataArrival, SMOnly
  <1> QED BY <1>1, <1>2, <1>3, <1>4, <1>5, <1>6, <1>8, <1>9, <1>10

\* A round entrance ends nothing: the height before is finalized, and what is
\* left of a view update cannot fail.
LEMMA SMEnterGoesOn ==
    ASSUME EngineInv, SMEnter PROVE GoesOn(sm, sm') /\ sm'.pc # "quit"
  <1> DEFINE id == FindView(kernel, sm.h, sm.r)
             v  == Seen(GetView(kernel, id))
             c  == kernel.disk.headers[sm.h]
             x  == IF id \in FoundIDs THEN EnterLive(v) ELSE EnterReplay(c)
  <1>1. /\ sm \in Life /\ Ordered(sm) /\ sm.pc = "enter" /\ Survives(x) /\ store \in Stores
        /\ NoGap(store, sm) /\ kernel \in Kernel /\ Alive
    BY AliveFacts DEF SMEnter
  <1>2. sm.h \in Nat \ {0}
    <2> DEFINE y == <<sm.h, sm.r>>
    <2>1. y[1] = sm.h /\ y \in SMRounds
      BY DEF SMEnter
    <2> HIDE DEF y
    <2> QED BY <2>1, RoundPlace
  <1>3. HasFinalization(sm.h - 1)
    BY <1>1, <1>2, FinalIsStored DEF NoGap
  <1>4. sm' = x \/ sm' = Down
    <2> HIDE DEF x
    <2> QED BY <1>1 DEF Survives
  <1>5. x.h = sm.h /\ x.pc # "quit"
    <2>1. CASE id \in FoundIDs
      <3>1. x = EnterLive(v)
        BY <2>1
      <3>2. EnterLive(v).h = sm.h /\ EnterLive(v).pc = "send"
        <4> HIDE DEF v, x, id
        <4> QED BY <1>1, <1>3 DEF EnterLive, InitialLive, Request, Life
      <3> QED BY <3>1, <3>2
    <2>2. CASE id \notin FoundIDs
      <3> DEFINE f == [h |-> sm.h, r |-> c.r, hash |-> c.hash]
                 y == [sm EXCEPT !.acts = <<>>, !.finalizing = f]
                 z == IF sm.init THEN y ELSE MarkCatchingUp(y)
      <3>1. x = Run(z)
        BY <2>2 DEF EnterReplay
      <3> HIDE DEF x, f
      <3>2. Shaped(z) /\ z.h = sm.h
        BY <1>1 DEF MarkCatchingUp, Life, Shaped, Fields
      <3> HIDE DEF z
      <3>3. x.h = sm.h
        BY <3>1, <3>2, RunStill DEF Still
      <3>4. Run(z).pc \in {"run", "panic", "save"}
        BY <3>2 DEF Run, handleJumpAhead, advanceRound, SMPanic, Reset, Shaped, Fields
      <3> QED BY <3>1, <3>3, <3>4
    <2> QED BY <2>1, <2>2
  <1> HIDE DEF x
  <1>6. Down.pc = "down"
    BY DEF Down, NewStateMachine
  <1> QED BY <1>1, <1>2, <1>4, <1>5, <1>6 DEF GoesOn, Active

\* The validator sets of a height above 2 can be loaded.
LEMMA ValidatorsLoad ==
    ASSUME store \in Stores, NoGap(store, sm), NEW h \in Nat, h >= 3, Final(store, h - 1)
    PROVE  LoadsValidators(h)
  <1>1. ASSUME NEW k \in Nat \ {0}, Final(store, k) PROVE Final(store, k - 1)
    BY <1>1, EngineAssumption DEF Final, NoGap
  <1>2. h - 1 \in Nat \ {0} /\ h - 2 \in Nat \ {0} /\ (h - 1) - 1 = h - 2 /\ (h - 2) - 1 = h - 3
    OBVIOUS
  <1>3. Final(store, h - 2)
    BY <1>1, <1>2
  <1>4. Final(store, h - 3)
    BY <1>1, <1>2, <1>3
  <1> QED BY <1>3, <1>4, FinalIsStored DEF LoadsValidators

\* sendInitialActionSet.
LEMMA SMStartBegins ==
    ASSUME EngineInv, BegunInv, ResumeAt >= 3, SMStart
    PROVE  BegunInv' /\ sm'.pc # "quit"
  <1> DEFINE x == StartPlace
             s == Started(sm, x[1], x[2])
  <1>1. /\ Alive /\ sm.pc = "start" /\ store' = store /\ sm \in Life /\ Ordered(sm)
        /\ store \in Stores /\ NoGap(store, sm)
    BY AliveFacts DEF SMStart, SMOnly
  <1>2. x[1] \in Nat \ {0} /\ x[2] \in Nat /\ Final(store, x[1] - 1)
    BY <1>1, StartPlaceFinal
  <1>3. store.hr[1] \in Nat /\ store.hr[1] >= ResumeAt /\ ResumeAt \in Nat
    BY <1>1, PastHeights DEF Stores, BegunInv, Begun
  <1>4. x[1] >= ResumeAt
    <2>1. x = IF HasFinalization(store.hr[1]) THEN <<store.hr[1] + 1, 0>> ELSE store.hr
      BY <1>3 DEF StartPlace
    <2> HIDE DEF x
    <2> QED BY <1>3, <2>1
  <1>5. LoadsValidators(x[1])
    <2>1. x[1] >= 3
      BY <1>2, <1>3, <1>4
    <2> HIDE DEF x
    <2> QED BY <1>1, <1>2, <2>1, ValidatorsLoad
  <1>6. sm' = s
    BY <1>5 DEF SMStart, SMOnly, Started
  <1>7. s.pc = "enter" /\ s.h = x[1]
    BY <1>1, <1>2, StartStays
  <1> HIDE DEF s, x
  <1> QED BY <1>1, <1>3, <1>4, <1>6, <1>7 DEF BegunInv, Begun

\* Every step of the engine: a process that is starting does not end there.
LEMMA EngineNextBegins ==
    ASSUME EngineInv, EngineInv', BegunInv, ResumeAt >= 3, [EngineNext]_engineVars
    PROVE  BegunInv' /\ (sm.pc \in {"start", "enter"} => sm'.pc # "quit")
  <1> DEFINE Goal == BegunInv' /\ (sm.pc \in {"start", "enter"} => sm'.pc # "quit")
  <1>1. sm \in Life /\ sm' \in Life /\ store \in Stores
    BY DEF EngineInv, InOrder, Finished
  <1>2. ASSUME GoesOn(sm, sm'), store'.hr = store.hr,
               sm.pc \in {"start", "enter"} => sm'.pc # "quit"
        PROVE  Goal
    BY <1>1, <1>2, GoesOnBegun
  <1>3. ASSUME store'.hr = store.hr, sm'.pc = sm.pc, sm'.h = sm.h PROVE Goal
    BY <1>1, <1>2, <1>3, SameGoesOn
  <1>4. ASSUME store'.hr = store.hr, sm'.pc \in {"down", "start"} PROVE Goal
    BY <1>1, <1>2, <1>4, SameGoesOn
  <1>5. Down.pc = "down" /\ NewStateMachine(FALSE).pc = "start"
    BY DEF Down, NewStateMachine
  <1>6. CASE MirrorAlone
    BY <1>3, <1>4, <1>5, <1>6 DEF MirrorAlone, Survives
  <1>7. CASE EngineCrash \/ EngineRestart
    BY <1>4, <1>5, <1>7 DEF EngineCrash, EngineRestart
  <1>8. CASE SMStart
    BY <1>8, SMStartBegins
  <1>9. CASE SMSave
    <2>1. /\ sm.pc = "save" /\ sm'.pc = "enter" /\ sm'.h = sm.h
          /\ store'.hr = <<sm.h, sm.r>>
      BY <1>1, <1>9 DEF SMSave, Life, Stores
    <2> QED BY <2>1 DEF BegunInv, Begun
  <1>10. CASE SMEnter
    BY <1>2, <1>10, SMEnterGoesOn DEF SMEnter
  <1>11. CASE \/ CMTakeRequest \/ SendTimeout \/ EnterRoundReturns \/ NotReady
              \/ \E hash \in Hashes : StrategyChooses(hash)
              \/ ViewUpdate \/ TimerElapsed \/ HeightCommitted
              \/ \E b \in Blocks : BlockDataArrival(b)
    <2>1. GoesOn(sm, sm') /\ store' = store
      BY <1>11, StepGoesOn
    <2>2. sm.pc \in {"start", "enter"} => sm'.pc = sm.pc
      BY <1>1, <1>11 DEF CMTakeRequest, SendTimeout, EnterRoundReturns, NotReady,
         StrategyChooses, SMOnly, SendResult, ViewUpdate, TimerElapsed, HeightCommitted,
         BlockDataArrival, Live, Life
    <2> QED BY <1>2, <2>1, <2>2
  <1>12. ASSUME Live, NEW f, NEW a, NEW none, NEW s, Act(f, a, none, s), s.pc = "run", s.h = sm.h
         PROVE  Goal
    <2>1. sm.pc = "run" /\ store'.hr = store.hr /\ (sm' = s \/ sm' = Quit(sm))
      BY <1>1, <1>12 DEF Live, Act, Stores
    <2>2. Quit(sm).pc = "quit"
      BY <1>1 DEF Quit, Life
    <2>3. GoesOn(sm, sm')
      BY <1>1, <1>12, <2>1, <2>2, SameGoesOn
    <2> QED BY <1>2, <2>1, <2>3
  <1>13. CASE \E p \in Proposals : Propose(p)
    <2>1. PICK p \in Proposals : Live /\ Act("ph", p, NoProposal, recordProposedHeader(sm, p))
      BY <1>13 DEF Propose
    <2> DEFINE s == recordProposedHeader(sm, p)
    <2>2. s.pc = "run" /\ s.h = sm.h
      BY <1>1, <2>1 DEF recordProposedHeader, Life, Live
    <2> HIDE DEF s
    <2>3. Act("ph", p, NoProposal, s)
      BY <2>1 DEF s
    <2> QED BY <1>12, <2>1, <2>2, <2>3
  <1>14. CASE Prevote
    <2> DEFINE s == recordPrevote(sm)
    <2>1. Live /\ Act("prevote", sm.prevoteCh, NoVote, s)
      BY <1>14 DEF Prevote
    <2>2. s.pc = "run" /\ s.h = sm.h
      BY <1>1, <2>1 DEF recordPrevote, SendVote, Life, Live
    <2> HIDE DEF s
    <2> QED BY <1>12, <2>1, <2>2
  <1>15. CASE Precommit
    <2> DEFINE s == recordPrecommit(sm)
    <2>1. Live /\ Act("precommit", sm.precommitCh, NoVote, s)
      BY <1>15 DEF Precommit
    <2>2. s.pc = "run" /\ s.h = sm.h
      BY <1>1, <2>1 DEF recordPrecommit, SendVote, Life, Live
    <2> HIDE DEF s
    <2> QED BY <1>12, <2>1, <2>2
  <1>16. CASE Finalization
    <2> DEFINE t == IF sm.catchup THEN [sm EXCEPT !.step = "awaitingFinalization"] ELSE sm
               y == handleFinalization(t)
    <2>1. sm.pc = "run" /\ sm \in Life
      BY <1>1, <1>16 DEF Finalization
    <2>2. t \in Life /\ t.pc = "run" /\ t.h = sm.h
      BY <2>1 DEF Life, Steps
    <2>3. store'.hr = store.hr /\ sm' \in {y, SMPanic(sm), Quit(sm)}
      BY <1>1, <1>16 DEF Finalization, Stores
    <2> HIDE DEF t
    <2>4. y.pc \in {"run", "save"} /\ y.h \in {sm.h, sm.h + 1}
      BY <2>2 DEF handleFinalization, advanceHeight, Reset, Life
    <2>5. SMPanic(sm).pc = "panic" /\ Quit(sm).pc = "quit" /\ sm.h \in Nat
      BY <1>1 DEF SMPanic, Quit, Life
    <2> HIDE DEF y
    <2>6. GoesOn(sm, sm')
      BY <2>1, <2>3, <2>4, <2>5 DEF GoesOn, Active
    <2> QED BY <1>2, <2>1, <2>3, <2>6
  <1>17. CASE \E room \in FetchRooms : MirrorTakesAction(room)
    <2> DEFINE s == [sm EXCEPT !.acts = Tail(@)]
    <2>1. store' = store /\ Survives(s)
      BY <1>17 DEF MirrorTakesAction
    <2>2. s.pc = sm.pc /\ s.h = sm.h
      BY <1>1 DEF Life
    <2> HIDE DEF s
    <2> QED BY <1>3, <1>4, <1>5, <2>1, <2>2 DEF Survives
  <1>18. CASE UNCHANGED engineVars
    BY <1>3, <1>18 DEF engineVars
  <1> HIDE DEF Goal
  <1> QED BY <1>6, <1>7, <1>8, <1>9, <1>10, <1>11, <1>13, <1>14, <1>15, <1>16, <1>17, <1>18
          DEF EngineNext, StateMachineStep, Goal

\* On a chain past its second height, the state machine of a new process does
\* not quit on the way to its first round, after crashes anywhere: the
\* finalizations that it loads validator sets from, and the one that the round
\* starts from, are stored.  At the first two heights it does quit
\* (sendInitialActionSet, initializeRLC).
THEOREM StartSucceedsAlways == ASSUME ResumeAt >= 3 PROVE EngineSpec => StartSucceeds
<1>1. EngineInit => BegunInv
  <2> SUFFICES ASSUME EngineInit PROVE BegunInv
    OBVIOUS
  <2>1. Past # {} /\ ResumeAt \in Nat
    BY PastHeights
  <2>2. store.hr = <<ResumeAt, 0>> /\ sm.pc = "start"
    BY <2>1 DEF EngineInit, PastStore, NewStateMachine
  <2> QED BY <2>1, <2>2 DEF BegunInv, Begun, Active
<1>2. EngineInv /\ EngineInv' /\ BegunInv /\ [EngineNext]_engineVars => BegunInv'
  BY EngineNextBegins
<1>3. EngineInv /\ EngineInv' /\ BegunInv /\ [EngineNext]_engineVars
        => [sm.pc \in {"start", "enter"} => sm'.pc # "quit"]_engineVars
  BY EngineNextBegins
<1> QED BY <1>1, <1>2, <1>3, EngineInvAlways, PTL DEF EngineSpec, StartSucceeds
=============================================================================
