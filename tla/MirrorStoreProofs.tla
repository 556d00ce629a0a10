-------------------------- MODULE MirrorStoreProofs --------------------------
(***************************************************************************)
(* What the mirror stores: every vote that a view or a store holds was     *)
(* signed for its place, a header is stored as committed only with a       *)
(* majority of such votes, the votes and headers of the views are the      *)
(* stored ones, and what is stored never goes back.                        *)
(*                                                                         *)
(* None of this is inductive alone: a view is rebuilt from whatever disk   *)
(* image a crash left, a committed header comes from the vote summary of   *)
(* the Voting view, and a handler brings an update computed from an older  *)
(* copy of a view.  Good is the inductive strengthening, a predicate on    *)
(* the kernel's state record; Honest is the part about the goroutines that *)
(* call the mirror.                                                        *)
(***************************************************************************)
EXTENDS MirrorPlaceProofs

\* No replayed header is of a round that jumpVotingRound, which
\* handleReplayedHeader calls once, cannot reach.
ReplaysNear == \A c \in ReplayedHeaders : c.r <= 1

-----------------------------------------------------------------------------
(* Who signed what.  S[<<k, h, r, b>>] are the validators that signed a vote *)
(* of kind k for hash b at a place, S[<<"ph", h, r, b>>] those that proposed *)
(* the block there.  What holds of the mirror's votes and headers holds for  *)
(* every such S that contains what is handed to the mirror.                  *)

\* A replayed header of a round out of reach is applied to an earlier one.  If
\* there are any, an S cannot tell the rounds apart.
Signers ==
    {S \in [(Kinds \cup {"ph"}) \X Nat \X Nat \X Hashes -> SUBSET Val] :
       IF ReplaysNear
       THEN \A h \in Nat, r \in Nat \ Rounds, b \in Hashes : S[<<"precommit", h, r, b>>] = {}
       ELSE \A k \in Kinds, h, r, q \in Nat, b \in Hashes :
              S[<<k, h, r, b>>] = S[<<k, h, q, b>>]}

\* Validators with a majority of the power signed precommits for b.
Decided(S, h, r, b) == PowerOf[S[<<"precommit", h, r, b>>]] >= Majority

\* What the consensus protocol promises about the votes: two blocks of one
\* height are never both decided, in whatever rounds.
Agreement(S) ==
    \A h \in Heights, r, s \in Rounds, b, c \in Blocks :
      Decided(S, h, r, b) /\ Decided(S, h, s, c) => b = c

-----------------------------------------------------------------------------
(* The inductive invariant. *)

Genuine(S, k, h, r, proofs) == \A b \in Hashes : proofs[b] \subseteq S[<<k, h, r, b>>]

GenuineDisk(S, d) ==
    /\ \A k \in Kinds, h \in Heights, r \in Rounds : Genuine(S, k, h, r, d.votes[k][<<h, r>>])
    /\ \A h \in Heights, r \in Rounds : \A p \in d.phs[<<h, r>>] :
         p.by \in S[<<"ph", h, r, p.hash>>]
    /\ \A h \in Heights : d.headers[h].hash # Nil =>
         /\ BlockPower(d.headers[h].proofs, d.headers[h].hash) >= Majority
         /\ Genuine(S, "precommit", h, d.headers[h].r, d.headers[h].proofs)

\* The previous commit proof of a view.
HandedOn(S, v) == v.h # 0 => Genuine(S, "precommit", v.h - 1, v.prev.r, v.prev.proofs)

GenuineView(S, v) ==
    /\ v.h # 0 => \A k \in Kinds : Genuine(S, k, v.h, v.r, v.proofs[k])
    /\ HandedOn(S, v)

\* Places that the kernel of disk image d has not reached.
Beyond(d, h, r) == h > d.nhr.vh \/ (h = d.nhr.vh /\ r > d.nhr.vr + 1)

\* Nothing is stored for a place out of reach, and the round store keeps
\* replayed headers apart.
MirroredDisk(d) ==
    \A h \in Heights, r \in Rounds :
      /\ Beyond(d, h, r) => /\ d.phs[<<h, r>>] = {}
                            /\ \A k \in Kinds : d.votes[k][<<h, r>>] = NoProofs
      /\ \A p \in d.phs[<<h, r>>] : p.by # NoProposer

MirroredView(d, v) ==
    <<v.h, v.r>> \in HR =>
      /\ \A k \in Kinds : d.votes[k][<<v.h, v.r>>] = v.proofs[k]
      /\ {p \in v.phs : p.by # NoProposer} = d.phs[<<v.h, v.r>>]

GoodDisk(S, d)    == GenuineDisk(S, d) /\ (ReplaysNear => MirroredDisk(d))
GoodView(S, d, v) == GenuineView(S, v) /\ (ReplaysNear => MirroredView(d, v))

Summed(w) ==
    /\ w.voting.sum = w.voting.proofs
    /\ w.nextRound.sum = w.nextRound.proofs

Entered(w) == w.sm.live => <<w.sm.h, w.sm.r>> \in SMRounds

Good(S, w) ==
    /\ GoodDisk(S, w.disk) /\ \A d \in w.torn : GoodDisk(S, d)
    /\ \A id \in FoundIDs : GoodView(S, w.disk, GetView(w, id))
    /\ HandedOn(S, w.sm.out)
    /\ Summed(w)
    /\ Entered(w)

\* Proposed headers that their proposer made, with precommits that were signed.
Carriers(S) ==
    {p \in Proposal : /\ p.by \in S[<<"ph", p.h, p.r, p.hash>>]
                      /\ Genuine(S, "precommit", p.h - 1, p.prevR, p.prev)}

\* A goroutine brings votes that were signed for the place they are about.
Honest(S, g) ==
    /\ g.ph \in Carriers(S) \cup {NoProposal}
    /\ g.pc \in {"lookup", "add"} =>
         /\ g.msg.h # 0
         /\ Genuine(S, g.msg.kind, g.msg.h, g.msg.r, g.msg.proofs)
    /\ g.pc = "add" => Genuine(S, g.msg.kind, g.msg.h, g.msg.r, g.u.proofs)

\* Kernel w, handlers g and queue q.
Safe(S, w, g, q) ==
    /\ GoodDisk(S, w.disk) /\ w.torn = {}
    /\ w.up => Good(S, w)
    /\ \A c \in Handlers : Honest(S, g[c])
    /\ q \in Seq(Carriers(S))

\* Disk image e is later than d, or the same.
Extends(S, d, e) ==
    /\ e.nhr.vh > d.nhr.vh \/ (e.nhr.vh = d.nhr.vh /\ e.nhr.vr >= d.nhr.vr)
    /\ \A x \in HR : d.phs[x] \subseteq e.phs[x]
    /\ ReplaysNear /\ Agreement(S) =>
         \A h \in Heights : d.headers[h].hash # Nil =>
           e.headers[h].hash = d.headers[h].hash

Forward(S, w, x) ==
    /\ Extends(S, w.disk, x.disk)
    /\ \A d \in x.torn : d \in w.torn \/ Extends(S, w.disk, d)

-----------------------------------------------------------------------------
(* Signed votes. *)

\* Whoever signed is a validator.
LEMMA SignedType ==
    ASSUME NEW S \in Signers, NEW k \in Kinds \cup {"ph"}, NEW h \in Nat, NEW r \in Nat,
           NEW b \in Hashes
    PROVE  S[<<k, h, r, b>>] \subseteq Val
  BY DEF Signers

\* If replayed headers are applied to other rounds, rounds do not matter.
LEMMA GenuineElsewhere ==
    ASSUME NEW S \in Signers, ~ReplaysNear, NEW k \in Kinds, NEW h \in Nat, NEW r \in Nat,
           NEW q \in Nat, NEW proofs, Genuine(S, k, h, r, proofs)
    PROVE  Genuine(S, k, h, q, proofs)
  <1>1. \A b \in Hashes : S[<<k, h, r, b>>] = S[<<k, h, q, b>>]
    BY DEF Signers
  <1> QED BY <1>1 DEF Genuine

\* Where nobody has voted every vote is genuine.
LEMMA NoProofsGenuine ==
    ASSUME NEW S, NEW k, NEW h, NEW r PROVE Genuine(S, k, h, r, NoProofs)
  BY DEF Genuine, NoProofs

\* Merging genuine votes gives genuine votes.
LEMMA UnionGenuine ==
    ASSUME NEW S, NEW k, NEW h, NEW r, NEW a, NEW b,
           Genuine(S, k, h, r, a), Genuine(S, k, h, r, b)
    PROVE  Genuine(S, k, h, r, [x \in Hashes |-> a[x] \cup b[x]])
  BY DEF Genuine

-----------------------------------------------------------------------------
(* What operators leave alone. *)

\* u is v, but perhaps for its versions.
SameContent(v, u) ==
    /\ u.h = v.h /\ u.r = v.r /\ u.prev = v.prev
    /\ u.phs = v.phs /\ u.proofs = v.proofs /\ u.sum = v.sum

\* u carries the previous commit proof of v.
Alike(v, u) == u.h = v.h /\ u.prev = v.prev

SameEntrance(w, x) ==
    x.sm.h = w.sm.h /\ x.sm.r = w.sm.r /\ (x.sm.live <=> w.sm.live)

\* What x has for the state machine is what w has, or one of the views.
HandsOn(w, x) ==
    \/ Alike(w.sm.out, x.sm.out)
    \/ \E id \in FoundIDs : Alike(GetView(w, id), x.sm.out) \/ Alike(GetView(x, id), x.sm.out)

\* x has the views and stores of w.
Quiet(w, x) ==
    /\ \A id \in FoundIDs : SameContent(GetView(w, id), GetView(x, id))
    /\ x.disk = w.disk /\ x.torn \subseteq w.torn
    /\ SameEntrance(w, x) /\ HandsOn(w, x)

\* Views, stores and entrance of x are those of w, but perhaps the view id.
Elsewhere(w, x, id) ==
    /\ \A j \in FoundIDs \ {id} : GetView(x, j) = GetView(w, j)
    /\ x.disk = w.disk /\ x.torn = w.torn
    /\ SameEntrance(w, x) /\ x.sm.out = w.sm.out

\* A kernel state is quiet to itself.
LEMMA QuietItself == ASSUME NEW w PROVE Quiet(w, w)
  BY DEF Quiet, SameContent, SameEntrance, HandsOn, Alike

\* Two quiet operations are quiet one after the other.
LEMMA QuietBoth ==
    ASSUME NEW w, NEW x, NEW y, Quiet(w, x), Quiet(x, y) PROVE Quiet(w, y)
  <1>1. HandsOn(w, y)
    BY DEF Quiet, SameContent, HandsOn, Alike
  <1> QED BY <1>1 DEF Quiet, SameContent, SameEntrance

\* A view that carries what a good view carries.
LEMMA AlikeHandedOn ==
    ASSUME NEW S, NEW v, NEW u, HandedOn(S, v), Alike(v, u) PROVE HandedOn(S, u)
  BY DEF HandedOn, Alike

\* What is handed on by good views is genuine.
LEMMA HandsOnGood ==
    ASSUME NEW S, NEW w, NEW x, Good(S, w), HandsOn(w, x),
           \A id \in FoundIDs : GoodView(S, x.disk, GetView(x, id))
    PROVE  HandedOn(S, x.sm.out)
  <1>1. /\ HandedOn(S, w.sm.out)
        /\ \A id \in FoundIDs : HandedOn(S, GetView(w, id)) /\ HandedOn(S, GetView(x, id))
    BY DEF Good, GoodView, GenuineView
  <1> QED BY <1>1, AlikeHandedOn DEF HandsOn

\* Same content, same standing.
LEMMA SameContentGood ==
    ASSUME NEW S, NEW d, NEW v, NEW u, GoodView(S, d, v), SameContent(v, u)
    PROVE  GoodView(S, d, u)
  <1>1. GenuineView(S, u)
    BY DEF GoodView, GenuineView, HandedOn, SameContent
  <1>2. MirroredView(d, v) => MirroredView(d, u)
    BY DEF MirroredView, SameContent
  <1> QED BY <1>1, <1>2 DEF GoodView

\* A quiet operation keeps a kernel good.
LEMMA QuietGood ==
    ASSUME NEW S, NEW w, NEW x, Good(S, w), Quiet(w, x) PROVE Good(S, x)
  <1>1. \A id \in FoundIDs : GoodView(S, x.disk, GetView(x, id))
    BY SameContentGood DEF Good, Quiet
  <1>2. Summed(x)
    <2>1. GetView(w, "voting") = w.voting /\ GetView(w, "nextRound") = w.nextRound
          /\ GetView(x, "voting") = x.voting /\ GetView(x, "nextRound") = x.nextRound
      BY DEF GetView
    <2>2. SameContent(w.voting, x.voting) /\ SameContent(w.nextRound, x.nextRound)
      BY <2>1 DEF Quiet, FoundIDs
    <2> QED BY <2>2 DEF Good, Summed, SameContent
  <1>3. Entered(x)
    BY DEF Good, Entered, Quiet, SameEntrance
  <1>4. HandedOn(S, x.sm.out)
    BY <1>1, HandsOnGood DEF Quiet
  <1> QED BY <1>1, <1>2, <1>3, <1>4 DEF Good, Quiet

\* The three views by name.
LEMMA ViewNames ==
    ASSUME NEW w
    PROVE  /\ GetView(w, "voting") = w.voting
           /\ GetView(w, "nextRound") = w.nextRound
           /\ GetView(w, "committing") = w.committing
           /\ FoundIDs = {"voting", "nextRound", "committing"}
  BY DEF GetView, FoundIDs

\* Bumping its version changes nothing else of a view.
LEMMA BumpContent == ASSUME NEW v \in View PROVE SameContent(v, Bump(v))
  BY DEF Bump, View, SameContent

\* A view has its own content.
LEMMA ContentItself == ASSUME NEW v PROVE SameContent(v, v)
  BY DEF SameContent

\* What marking the Voting view as updated changes.
LEMMA MarkVotingEffect ==
    ASSUME NEW w \in Kernel
    PROVE  LET x == MarkVotingViewUpdated(w)
           IN /\ x.voting = Bump(w.voting) /\ x.gossip.voting.view = x.voting
              /\ x.nextRound = w.nextRound /\ x.committing = w.committing
              /\ x.gossip.nextRound = w.gossip.nextRound
              /\ x.gossip.committing = w.gossip.committing
              /\ x.disk = w.disk /\ x.torn = w.torn
              /\ SameEntrance(w, x) /\ x.sm.out \in {w.sm.out, x.voting}
  <1> DEFINE v == Bump(w.voting)
             sm == IF w.sm.h = v.h /\ w.sm.r = v.r
                   THEN [w.sm EXCEPT !.out = v] ELSE w.sm
             x == [w EXCEPT !.voting = v, !.gossip.voting.view = v, !.sm = sm]
  <1> HIDE DEF v
  <1>1. /\ sm.h = w.sm.h /\ sm.r = w.sm.r /\ (sm.live <=> w.sm.live)
        /\ sm.out \in {w.sm.out, v}
    BY DEF Kernel
  <1> HIDE DEF sm
  <1>2. /\ x.voting = v /\ x.nextRound = w.nextRound /\ x.committing = w.committing
        /\ x.disk = w.disk /\ x.torn = w.torn /\ x.sm = sm
        /\ x.gossip.voting.view = v
        /\ x.gossip.nextRound = w.gossip.nextRound
        /\ x.gossip.committing = w.gossip.committing
    BY DEF Kernel, Outgoing
  <1>3. x = MarkVotingViewUpdated(w)
    BY DEF MarkVotingViewUpdated, v, sm
  <1> HIDE DEF x
  <1> QED BY <1>1, <1>2, <1>3 DEF v, SameEntrance

\* What marking the NextRound view as updated changes.
LEMMA MarkNextRoundEffect ==
    ASSUME NEW w \in Kernel
    PROVE  LET x == MarkNextRoundViewUpdated(w)
           IN /\ x.nextRound = Bump(w.nextRound) /\ x.gossip.nextRound.view = x.nextRound
              /\ x.voting = w.voting /\ x.committing = w.committing
              /\ x.gossip.voting = w.gossip.voting
              /\ x.gossip.committing = w.gossip.committing
              /\ x.disk = w.disk /\ x.torn = w.torn
              /\ SameEntrance(w, x) /\ x.sm.out = w.sm.out
  <1> DEFINE v == Bump(w.nextRound)
             x == [w EXCEPT !.nextRound = v, !.gossip.nextRound.view = v]
  <1> HIDE DEF v
  <1>2. /\ x.nextRound = v /\ x.voting = w.voting /\ x.committing = w.committing
        /\ x.disk = w.disk /\ x.torn = w.torn /\ x.sm = w.sm
        /\ x.gossip.nextRound.view = v
        /\ x.gossip.voting = w.gossip.voting
        /\ x.gossip.committing = w.gossip.committing
    BY DEF Kernel, Outgoing
  <1>3. x = MarkNextRoundViewUpdated(w)
    BY DEF MarkNextRoundViewUpdated, v
  <1> HIDE DEF x
  <1> QED BY <1>2, <1>3 DEF v, SameEntrance

\* What marking the Committing view as updated changes.
LEMMA MarkCommittingEffect ==
    ASSUME NEW w \in Kernel
    PROVE  LET x == MarkCommittingViewUpdated(w)
           IN /\ x.committing = Bump(w.committing) /\ x.gossip.committing.view = x.committing
              /\ x.voting = w.voting /\ x.nextRound = w.nextRound
              /\ x.gossip.voting = w.gossip.voting
              /\ x.gossip.nextRound = w.gossip.nextRound
              /\ x.disk = w.disk /\ x.torn = w.torn
              /\ SameEntrance(w, x) /\ x.sm.out \in {w.sm.out, x.committing}
  <1> DEFINE v == Bump(w.committing)
             sm == CASE w.sm.h = v.h /\ w.sm.r = v.r -> [w.sm EXCEPT !.out = v]
                     [] w.sm.h < v.h \/ (w.sm.h = v.h /\ w.sm.r < v.r)
                          -> [w.sm EXCEPT !.jump = v]
                     [] OTHER -> w.sm
             x == [w EXCEPT !.committing = v, !.gossip.committing.view = v, !.sm = sm]
  <1>0. v \in View
    BY KernelViews, BumpType
  <1> HIDE DEF v
  <1>1. /\ sm.h = w.sm.h /\ sm.r = w.sm.r /\ (sm.live <=> w.sm.live)
        /\ sm.out \in {w.sm.out, v}
    BY <1>0 DEF Kernel, View
  <1> HIDE DEF sm
  <1>2. /\ x.committing = v /\ x.nextRound = w.nextRound /\ x.voting = w.voting
        /\ x.disk = w.disk /\ x.torn = w.torn /\ x.sm = sm
        /\ x.gossip.committing.view = v
        /\ x.gossip.nextRound = w.gossip.nextRound
        /\ x.gossip.voting = w.gossip.voting
    BY DEF Kernel, Outgoing
  <1>3. x = MarkCommittingViewUpdated(w)
    BY DEF MarkCommittingViewUpdated, v, sm
  <1> HIDE DEF x
  <1> QED BY <1>1, <1>2, <1>3 DEF v, SameEntrance

\* MarkViewUpdated is quiet.
LEMMA MarkViewUpdatedQuiet ==
    ASSUME NEW w \in Kernel, NEW id \in FoundIDs PROVE Quiet(w, MarkViewUpdated(w, id))
  <1> DEFINE x == MarkViewUpdated(w, id)
  <1>0. /\ SameContent(w.voting, Bump(w.voting))
        /\ SameContent(w.nextRound, Bump(w.nextRound))
        /\ SameContent(w.committing, Bump(w.committing))
    BY KernelViews, BumpContent
  <1>1. /\ x.voting \in {w.voting, Bump(w.voting)}
        /\ x.nextRound \in {w.nextRound, Bump(w.nextRound)}
        /\ x.committing \in {w.committing, Bump(w.committing)}
        /\ x.disk = w.disk /\ x.torn = w.torn /\ SameEntrance(w, x)
        /\ x.sm.out \in {w.sm.out, x.voting, x.committing}
    BY MarkVotingEffect, MarkNextRoundEffect, MarkCommittingEffect
       DEF MarkViewUpdated, FoundIDs
  <1> HIDE DEF x
  <1>2. /\ SameContent(w.voting, x.voting)
        /\ SameContent(w.nextRound, x.nextRound)
        /\ SameContent(w.committing, x.committing)
    BY <1>0, <1>1, ContentItself
  <1>3. \A j \in FoundIDs : SameContent(GetView(w, j), GetView(x, j))
    BY <1>2, ViewNames
  <1>4. HandsOn(w, x)
    BY <1>1, ViewNames DEF HandsOn, Alike
  <1>5. Quiet(w, x)
    BY <1>1, <1>3, <1>4 DEF Quiet
  <1> QED BY <1>5 DEF x

\* A panic is quiet.
LEMMA PanicQuiet == ASSUME NEW w \in Kernel PROVE Quiet(w, Panic(w))
  <1>1. /\ Panic(w).voting = w.voting /\ Panic(w).nextRound = w.nextRound
        /\ Panic(w).committing = w.committing /\ Panic(w).disk = w.disk
        /\ Panic(w).torn = w.torn /\ Panic(w).sm = w.sm
    BY DEF Panic, Kernel
  <1> QED BY <1>1, ViewNames, ContentItself DEF Quiet, SameEntrance, HandsOn, Alike

\* Fetch requests, the lag state, the room of the fetch queue, what is offered
\* for gossip: changing one of these is quiet, and so is the end of a handler.
LEMMA OutsideQuiet ==
    ASSUME NEW w \in Kernel, NEW a
    PROVE  /\ Quiet(w, [w EXCEPT !.inFlight = a])
           /\ Quiet(w, [w EXCEPT !.lag = a])
           /\ Quiet(w, [w EXCEPT !.room = a])
           /\ Quiet(w, [w EXCEPT !.gossip = a])
           /\ Quiet(w, [w EXCEPT !.torn = {}, !.room = a])
  <1>1. ASSUME NEW x, x.voting = w.voting, x.nextRound = w.nextRound,
               x.committing = w.committing, x.disk = w.disk, x.torn \subseteq w.torn,
               x.sm = w.sm
        PROVE  Quiet(w, x)
    BY <1>1, ViewNames, ContentItself DEF Quiet, SameEntrance, HandsOn, Alike
  <1>2. Quiet(w, [w EXCEPT !.inFlight = a])
    BY <1>1 DEF Kernel
  <1>3. Quiet(w, [w EXCEPT !.lag = a])
    BY <1>1 DEF Kernel
  <1>4. Quiet(w, [w EXCEPT !.room = a])
    BY <1>1 DEF Kernel
  <1>5. Quiet(w, [w EXCEPT !.gossip = a])
    BY <1>1 DEF Kernel
  <1>6. Quiet(w, [w EXCEPT !.torn = {}, !.room = a])
    <2> DEFINE x == [w EXCEPT !.torn = {}, !.room = a]
    <2>1. /\ x.voting = w.voting /\ x.nextRound = w.nextRound
          /\ x.committing = w.committing /\ x.disk = w.disk /\ x.torn = {} /\ x.sm = w.sm
      BY DEF Kernel
    <2> HIDE DEF x
    <2>2. Quiet(w, x)
      BY <1>1, <2>1
    <2> QED BY <2>2 DEF x
  <1> QED BY <1>2, <1>3, <1>4, <1>5, <1>6

\* Requesting headers is quiet.
LEMMA checkMissingPHsQuiet ==
    ASSUME NEW w \in Kernel, NEW h, NEW proofs PROVE Quiet(w, checkMissingPHs(w, h, proofs))
  BY OutsideQuiet DEF checkMissingPHs

\* Setting the lag state is quiet.
LEMMA SetLagUpToDateQuiet == ASSUME NEW w \in Kernel PROVE Quiet(w, SetLagUpToDate(w))
  BY OutsideQuiet DEF SetLagUpToDate

\* Replacing a view changes nothing else.
LEMMA PutViewEffect ==
    ASSUME NEW w \in Kernel, NEW id \in FoundIDs, NEW v
    PROVE  GetView(PutView(w, id, v), id) = v /\ Elsewhere(w, PutView(w, id, v), id)
  <1>1. CASE id = "voting"
    BY <1>1 DEF PutView, GetView, FoundIDs, Elsewhere, SameEntrance, Kernel
  <1>2. CASE id = "nextRound"
    BY <1>2 DEF PutView, GetView, FoundIDs, Elsewhere, SameEntrance, Kernel
  <1>3. CASE id = "committing"
    BY <1>3 DEF PutView, GetView, FoundIDs, Elsewhere, SameEntrance, Kernel
  <1> QED BY <1>1, <1>2, <1>3 DEF FoundIDs

\* A store call changes the disk only, and a crash may undo it.
LEMMA WriteEffect ==
    ASSUME NEW w \in Kernel, NEW d
    PROVE  /\ Write(w, d).disk = d /\ Write(w, d).torn = w.torn \cup {w.disk}
           /\ \A id \in FoundIDs : GetView(Write(w, d), id) = GetView(w, id)
           /\ SameEntrance(w, Write(w, d)) /\ Write(w, d).sm = w.sm
  <1> DEFINE x == Write(w, d)
  <1>1. /\ x.voting = w.voting /\ x.nextRound = w.nextRound
        /\ x.committing = w.committing /\ x.sm = w.sm
        /\ x.disk = d /\ x.torn = w.torn \cup {w.disk}
    BY DEF Write, Kernel
  <1> HIDE DEF x
  <1>2. \A id \in FoundIDs : GetView(x, id) = GetView(w, id)
    BY <1>1, ViewNames
  <1>3. SameEntrance(w, x)
    BY <1>1 DEF SameEntrance
  <1> QED BY <1>1, <1>2, <1>3 DEF x

\* A view that was found is at the place that was looked for.
LEMMA FoundPlace ==
    ASSUME NEW w, Aligned(w), NEW h, NEW r, FindView(w, h, r) \in FoundIDs
    PROVE  LET v == GetView(w, FindView(w, h, r)) IN v.h = h /\ v.r = r
  BY DEF FindView, FoundIDs, GetView, Aligned

\* The three views are at different places, none of them out of reach.
LEMMA PlacesDiffer ==
    ASSUME NEW w \in Kernel, Sound(w)
    PROVE  /\ \A i, j \in FoundIDs : i # j =>
                <<GetView(w, i).h, GetView(w, i).r>> # <<GetView(w, j).h, GetView(w, j).r>>
           /\ \A i \in FoundIDs : ~Beyond(w.disk, GetView(w, i).h, GetView(w, i).r)
           /\ w.voting.h # 0 /\ w.nextRound.h # 0
  <1>1. /\ w.voting.h \in Nat /\ w.voting.r \in Nat /\ w.nextRound.r \in Nat
        /\ w.committing.h \in Nat /\ w.committing.r \in Nat
    BY KernelViews DEF View
  <1>2. /\ w.nextRound.h = w.voting.h /\ w.nextRound.r = w.voting.r + 1
        /\ w.committing.h < w.voting.h /\ w.voting.h # 0
    BY <1>1, BoundsAssumption DEF Sound, Aligned, Consecutive
  <1>3. w.disk.nhr.vh = w.voting.h /\ w.disk.nhr.vr = w.voting.r
    BY DEF Sound, Recorded
  <1>4. \A i, j \in FoundIDs : i # j =>
          GetView(w, i).h # GetView(w, j).h \/ GetView(w, i).r # GetView(w, j).r
    BY <1>1, <1>2, ViewNames
  <1>5. \A i \in FoundIDs : ~Beyond(w.disk, GetView(w, i).h, GetView(w, i).r)
    BY <1>1, <1>2, <1>3, ViewNames DEF Beyond
  <1> QED BY <1>2, <1>4, <1>5

-----------------------------------------------------------------------------
(* Recording votes and headers. *)

\* x is w after a change of the view id to the content of v and of the disk to d.
Records(w, x, id, v, d) ==
    /\ SameContent(v, GetView(x, id))
    /\ \A j \in FoundIDs \ {id} : SameContent(GetView(w, j), GetView(x, j))
    /\ x.disk = d /\ x.torn \subseteq w.torn \cup {w.disk}
    /\ SameEntrance(w, x) /\ HandsOn(w, x)

VotesWritten(d, kind, h, r, proofs) == [d EXCEPT !.votes[kind][<<h, r>>] = proofs]
HeaderWritten(d, h, r, ph) == [d EXCEPT !.phs[<<h, r>>] = @ \cup {ph}]

\* What storing votes changes on disk.
LEMMA VotesOnDisk ==
    ASSUME NEW d \in Disk, NEW kind \in Kinds, NEW h, NEW r, NEW proofs
    PROVE  LET e == VotesWritten(d, kind, h, r, proofs)
           IN /\ e.nhr = d.nhr /\ e.phs = d.phs /\ e.replayed = d.replayed
              /\ e.headers = d.headers
              /\ \A k \in Kinds, x \in HR :
                   e.votes[k][x] = IF k = kind /\ x = <<h, r>> THEN proofs
                                   ELSE d.votes[k][x]
  <1> DEFINE y == <<h, r>>
  <1> HIDE DEF y
  <1>1. LET e == [d EXCEPT !.votes[kind][y] = proofs]
        IN /\ e.nhr = d.nhr /\ e.phs = d.phs /\ e.replayed = d.replayed
           /\ e.headers = d.headers
           /\ \A k \in Kinds, x \in HR :
                e.votes[k][x] = IF k = kind /\ x = y THEN proofs ELSE d.votes[k][x]
    BY DEF Disk
  <1> QED BY <1>1 DEF y, VotesWritten

\* Disk image e is d with header ph at a place, unless the header was replayed.
HeaderStored(d, e, h, r, ph) ==
    /\ e.nhr = d.nhr /\ e.votes = d.votes /\ e.headers = d.headers
    /\ \A y \in HR : e.phs[y] = IF y = <<h, r>> /\ ph.by # NoProposer
                                THEN d.phs[y] \cup {ph} ELSE d.phs[y]

\* What storing a proposed header changes on disk.
LEMMA HeaderOnDisk ==
    ASSUME NEW d \in Disk, NEW h, NEW r, NEW ph, ph.by # NoProposer
    PROVE  HeaderStored(d, HeaderWritten(d, h, r, ph), h, r, ph)
  <1> DEFINE y == <<h, r>>
             e == [d EXCEPT !.phs[y] = @ \cup {ph}]
  <1> HIDE DEF y
  <1>1. /\ e.nhr = d.nhr /\ e.votes = d.votes /\ e.headers = d.headers
        /\ \A x \in HR : e.phs[x] = IF x = y THEN d.phs[x] \cup {ph} ELSE d.phs[x]
    BY DEF Disk
  <1>2. e = HeaderWritten(d, h, r, ph)
    BY DEF y, HeaderWritten
  <1> HIDE DEF e
  <1> QED BY <1>1, <1>2 DEF HeaderStored, y

\* The places of HR and their coordinates.
LEMMA PlaceInHR == \A h \in Heights, r \in Rounds : <<h, r>> \in HR
  BY DEF HR

\* Holding and storing genuine votes for the place of a view keeps a kernel
\* good.  The round they are stored for is another one only for a replayed
\* header out of reach.
LEMMA VotesRecorded ==
    ASSUME NEW S \in Signers, NEW w \in Kernel, Sound(w), Good(S, w), NEW x, NEW id \in FoundIDs,
           NEW kind \in Kinds, NEW proofs \in Proofs, NEW v \in View,
           v.h = GetView(w, id).h, v.r = GetView(w, id).r, v.phs = GetView(w, id).phs,
           v.prev = GetView(w, id).prev,
           v.proofs = [GetView(w, id).proofs EXCEPT ![kind] = proofs],
           id # "committing" => v.sum = v.proofs,
           v.h # 0 => Genuine(S, kind, v.h, v.r, proofs),
           NEW q \in Nat, ReplaysNear => q = v.r,
           Records(w, x, id, v, VotesWritten(w.disk, kind, v.h, q, proofs))
    PROVE  Good(S, x)
  <1> DEFINE u == GetView(w, id)
             e == VotesWritten(w.disk, kind, v.h, q, proofs)
  <1>1. /\ e.nhr = w.disk.nhr /\ e.phs = w.disk.phs /\ e.headers = w.disk.headers
        /\ \A k \in Kinds, y \in HR :
             e.votes[k][y] = IF k = kind /\ y = <<v.h, q>> THEN proofs
                             ELSE w.disk.votes[k][y]
    BY KernelDisk, VotesOnDisk
  <1>2. x.disk = e
    BY DEF Records
  <1> HIDE DEF e
  <1>3. u \in View
    BY GetViewType
  <1>4. /\ \A k \in Kinds : v.proofs[k] = IF k = kind THEN proofs ELSE u.proofs[k]
    BY <1>3 DEF View
  <1>5. GenuineView(S, v)
    <2>1. GenuineView(S, u)
      BY DEF Good, GoodView
    <2> QED BY <1>4, <2>1 DEF GenuineView, HandedOn
  <1>6. GenuineDisk(S, e)
    <2>1. GenuineDisk(S, w.disk)
      BY DEF Good, GoodDisk
    <2>2. ASSUME NEW k \in Kinds, NEW h \in Heights, NEW r \in Rounds
          PROVE  Genuine(S, k, h, r, e.votes[k][<<h, r>>])
      <3>1. CASE k = kind /\ <<h, r>> = <<v.h, q>>
        <4>1. v.h # 0
          BY <3>1, BoundsAssumption DEF Heights
        <4>2. v.h \in Nat /\ v.r \in Nat
          BY DEF View
        <4>3. Genuine(S, kind, v.h, q, proofs)
          BY <4>1, <4>2, GenuineElsewhere
        <4> QED BY <1>1, <3>1, <4>3, PlaceInHR
      <3>2. CASE ~(k = kind /\ <<h, r>> = <<v.h, q>>)
        BY <1>1, <2>1, <3>2, PlaceInHR DEF GenuineDisk
      <3> QED BY <3>1, <3>2
    <2> QED BY <1>1, <2>1, <2>2 DEF GenuineDisk
  <1>7. ASSUME ReplaysNear PROVE MirroredDisk(e)
    <2>1. MirroredDisk(w.disk)
      BY <1>7 DEF Good, GoodDisk
    <2>2. ~Beyond(w.disk, v.h, q)
      BY <1>7, PlacesDiffer
    <2> SUFFICES ASSUME NEW h \in Heights, NEW r \in Rounds
                 PROVE  /\ Beyond(e, h, r) =>
                             /\ e.phs[<<h, r>>] = {}
                             /\ \A k \in Kinds : e.votes[k][<<h, r>>] = NoProofs
                        /\ \A p \in e.phs[<<h, r>>] : p.by # NoProposer
      BY DEF MirroredDisk
    <2>3. Beyond(e, h, r) <=> Beyond(w.disk, h, r)
      BY <1>1 DEF Beyond
    <2>4. ASSUME Beyond(w.disk, h, r) PROVE <<h, r>> # <<v.h, q>>
      BY <2>2, <2>4
    <2> QED BY <1>1, <2>1, <2>3, <2>4, PlaceInHR DEF MirroredDisk
  <1>8. ASSUME ReplaysNear, NEW j \in FoundIDs
        PROVE  MirroredView(e, IF j = id THEN v ELSE GetView(w, j))
    <2>1. MirroredView(w.disk, GetView(w, j))
      BY <1>8 DEF Good, GoodView
    <2>2. CASE j = id
      <3> SUFFICES ASSUME <<v.h, v.r>> \in HR
                   PROVE  /\ \A k \in Kinds : e.votes[k][<<v.h, v.r>>] = v.proofs[k]
                          /\ {p \in v.phs : p.by # NoProposer} = e.phs[<<v.h, v.r>>]
        BY <2>2 DEF MirroredView
      <3>1. /\ \A k \in Kinds : w.disk.votes[k][<<v.h, v.r>>] = u.proofs[k]
            /\ {p \in u.phs : p.by # NoProposer} = w.disk.phs[<<v.h, v.r>>]
        BY <2>1, <2>2 DEF MirroredView
      <3>2. {p \in v.phs : p.by # NoProposer} = e.phs[<<v.h, v.r>>]
        BY <1>1, <3>1
      <3> QED BY <1>1, <1>4, <1>8, <3>1, <3>2
    <2>3. CASE j # id
      <3>1. <<GetView(w, j).h, GetView(w, j).r>> # <<v.h, v.r>>
        BY <2>3, PlacesDiffer
      <3> QED BY <1>1, <1>8, <2>1, <2>3, <3>1 DEF MirroredView
    <2> QED BY <2>2, <2>3
  <1>9. \A j \in FoundIDs : GoodView(S, x.disk, GetView(x, j))
    <2> SUFFICES ASSUME NEW j \in FoundIDs PROVE GoodView(S, e, GetView(x, j))
      BY <1>2
    <2> DEFINE z == IF j = id THEN v ELSE GetView(w, j)
    <2>1. GenuineView(S, z)
      BY <1>5 DEF Good, GoodView
    <2>2. GoodView(S, e, z)
      BY <1>8, <2>1 DEF GoodView
    <2>3. SameContent(z, GetView(x, j))
      BY DEF Records
    <2> HIDE DEF z
    <2> QED BY <2>2, <2>3, SameContentGood
  <1>10. Summed(x)
    <2>1. ASSUME NEW j \in FoundIDs, j # "committing"
          PROVE  GetView(x, j).sum = GetView(x, j).proofs
      <3>1. GetView(w, j).sum = GetView(w, j).proofs
        BY <2>1, ViewNames DEF Good, Summed
      <3> QED BY <2>1, <3>1 DEF Records, SameContent
    <2> QED BY <2>1, ViewNames DEF Summed
  <1>11. Entered(x)
    BY DEF Good, Entered, Records, SameEntrance
  <1>12. GoodDisk(S, x.disk) /\ \A d \in x.torn : GoodDisk(S, d)
    BY <1>2, <1>6, <1>7 DEF GoodDisk, Records, Good
  <1>13. HandedOn(S, x.sm.out)
    BY <1>9, HandsOnGood DEF Records
  <1> QED BY <1>9, <1>10, <1>11, <1>12, <1>13 DEF Good

\* Holding one more header in a view, and storing it unless it was replayed,
\* keeps a kernel good.
LEMMA HeaderRecorded ==
    ASSUME NEW S \in Signers, NEW w \in Kernel, Sound(w), Good(S, w), NEW x, NEW id \in FoundIDs,
           NEW ph, NEW v \in View, v.h = GetView(w, id).h, v.r = GetView(w, id).r,
           v.prev = GetView(w, id).prev, v.phs = GetView(w, id).phs \cup {ph},
           v.proofs = GetView(w, id).proofs, v.sum = GetView(w, id).sum,
           ph.by # NoProposer => ph.by \in S[<<"ph", v.h, v.r, ph.hash>>],
           NEW e, Records(w, x, id, v, e), HeaderStored(w.disk, e, v.h, v.r, ph)
    PROVE  Good(S, x)
  <1> DEFINE u == GetView(w, id)
  <1>0. /\ e.nhr = w.disk.nhr /\ e.votes = w.disk.votes /\ e.headers = w.disk.headers
        /\ \A y \in HR : e.phs[y] = IF y = <<v.h, v.r>> /\ ph.by # NoProposer
                                    THEN w.disk.phs[y] \cup {ph} ELSE w.disk.phs[y]
    BY DEF HeaderStored
  <1>1. GenuineDisk(S, e)
    <2>1. GenuineDisk(S, w.disk)
      BY DEF Good, GoodDisk
    <2>2. ASSUME NEW h \in Heights, NEW r \in Rounds, NEW p \in e.phs[<<h, r>>]
          PROVE  p.by \in S[<<"ph", h, r, p.hash>>]
      <3>1. CASE p \in w.disk.phs[<<h, r>>]
        BY <2>1, <3>1 DEF GenuineDisk
      <3>2. CASE p \notin w.disk.phs[<<h, r>>]
        <4>1. p = ph /\ h = v.h /\ r = v.r /\ ph.by # NoProposer
          BY <1>0, <2>2, <3>2, PlaceInHR
        <4> QED BY <4>1
      <3> QED BY <3>1, <3>2
    <2> QED BY <1>0, <2>1, <2>2 DEF GenuineDisk
  <1>2. ASSUME ReplaysNear PROVE MirroredDisk(e)
    <2>1. MirroredDisk(w.disk)
      BY <1>2 DEF Good, GoodDisk
    <2>2. ~Beyond(w.disk, v.h, v.r)
      BY PlacesDiffer
    <2> SUFFICES ASSUME NEW h \in Heights, NEW r \in Rounds
                 PROVE  /\ Beyond(e, h, r) =>
                             /\ e.phs[<<h, r>>] = {}
                             /\ \A k \in Kinds : e.votes[k][<<h, r>>] = NoProofs
                        /\ \A p \in e.phs[<<h, r>>] : p.by # NoProposer
      BY DEF MirroredDisk
    <2>3. Beyond(e, h, r) <=> Beyond(w.disk, h, r)
      BY <1>0 DEF Beyond
    <2>4. ASSUME Beyond(w.disk, h, r) PROVE <<h, r>> # <<v.h, v.r>>
      BY <2>2, <2>4
    <2> DEFINE y == <<h, r>>
    <2>5. /\ Beyond(w.disk, h, r) => /\ w.disk.phs[y] = {} /\ y # <<v.h, v.r>>
                                     /\ \A k \in Kinds : w.disk.votes[k][y] = NoProofs
          /\ \A p \in w.disk.phs[y] : p.by # NoProposer
          /\ e.phs[y] = IF y = <<v.h, v.r>> /\ ph.by # NoProposer
                        THEN w.disk.phs[y] \cup {ph} ELSE w.disk.phs[y]
      BY <1>0, <2>1, <2>4, PlaceInHR DEF MirroredDisk
    <2> HIDE DEF y
    <2>6. \A p \in e.phs[y] : p.by # NoProposer
      BY <2>5
    <2>7. Beyond(w.disk, h, r) => /\ e.phs[y] = {}
                                  /\ \A k \in Kinds : e.votes[k][y] = NoProofs
      BY <1>0, <2>5
    <2> QED BY <2>3, <2>6, <2>7 DEF y
  <1>3. ASSUME ReplaysNear, NEW j \in FoundIDs
        PROVE  MirroredView(e, IF j = id THEN v ELSE GetView(w, j))
    <2>1. MirroredView(w.disk, GetView(w, j))
      BY <1>3 DEF Good, GoodView
    <2>2. CASE j = id
      <3> SUFFICES ASSUME <<v.h, v.r>> \in HR
                   PROVE  /\ \A k \in Kinds : e.votes[k][<<v.h, v.r>>] = v.proofs[k]
                          /\ {p \in v.phs : p.by # NoProposer} = e.phs[<<v.h, v.r>>]
        BY <2>2 DEF MirroredView
      <3>1. /\ \A k \in Kinds : w.disk.votes[k][<<v.h, v.r>>] = u.proofs[k]
            /\ {p \in u.phs : p.by # NoProposer} = w.disk.phs[<<v.h, v.r>>]
        BY <2>1, <2>2 DEF MirroredView
      <3>2. {p \in v.phs : p.by # NoProposer} = e.phs[<<v.h, v.r>>]
        BY <1>0, <3>1
      <3> QED BY <1>0, <3>1, <3>2
    <2>3. CASE j # id
      <3>1. <<GetView(w, j).h, GetView(w, j).r>> # <<v.h, v.r>>
        BY <2>3, PlacesDiffer
      <3> QED BY <1>0, <2>1, <2>3, <3>1 DEF MirroredView
    <2> QED BY <2>2, <2>3
  <1>4. \A j \in FoundIDs : GoodView(S, x.disk, GetView(x, j))
    <2> SUFFICES ASSUME NEW j \in FoundIDs PROVE GoodView(S, e, GetView(x, j))
      BY DEF Records
    <2> DEFINE z == IF j = id THEN v ELSE GetView(w, j)
    <2>1. GenuineView(S, z)
      BY DEF Good, GoodView, GenuineView, HandedOn
    <2>2. GoodView(S, e, z)
      BY <1>3, <2>1 DEF GoodView
    <2>3. SameContent(z, GetView(x, j))
      BY DEF Records
    <2> HIDE DEF z
    <2> QED BY <2>2, <2>3, SameContentGood
  <1>5. Summed(x)
    <2>1. ASSUME NEW j \in FoundIDs, j # "committing"
          PROVE  GetView(x, j).sum = GetView(x, j).proofs
      <3>1. GetView(w, j).sum = GetView(w, j).proofs
        BY <2>1, ViewNames DEF Good, Summed
      <3> QED BY <2>1, <3>1 DEF Records, SameContent
    <2> QED BY <2>1, ViewNames DEF Summed
  <1>6. Entered(x)
    BY DEF Good, Entered, Records, SameEntrance
  <1>7. GoodDisk(S, x.disk) /\ \A d \in x.torn : GoodDisk(S, d)
    BY <1>1, <1>2 DEF GoodDisk, Records, Good
  <1>8. HandedOn(S, x.sm.out)
    BY <1>4, HandsOnGood DEF Records
  <1> QED BY <1>4, <1>5, <1>6, <1>7, <1>8 DEF Good

\* Any quiet operations before, between and after a change of a view and a
\* store call.
LEMMA QuietRecords ==
    ASSUME NEW w, NEW x, NEW y, NEW id \in FoundIDs, NEW v, NEW d,
           Records(w, x, id, v, d), Quiet(x, y)
    PROVE  Records(w, y, id, v, d)
  <1>1. HandsOn(w, y)
    BY DEF Records, Quiet, SameContent, HandsOn, Alike
  <1> QED BY <1>1 DEF Records, Quiet, SameContent, SameEntrance

\* PutView, MarkViewUpdated and a store call, in this order.
LEMMA PutMarkWrite ==
    ASSUME NEW w \in Kernel, NEW id \in FoundIDs, NEW v \in View, NEW d
    PROVE  Records(w, Write(MarkViewUpdated(PutView(w, id, v), id), d), id, v, d)
  <1> DEFINE a == PutView(w, id, v)
             b == MarkViewUpdated(a, id)
             c == Write(b, d)
  <1>1. a \in Kernel /\ GetView(a, id) = v /\ Elsewhere(w, a, id)
    BY PutViewType, PutViewEffect
  <1> HIDE DEF a
  <1>2. b \in Kernel /\ Quiet(a, b)
    BY <1>1, MarkViewUpdatedType, MarkViewUpdatedQuiet
  <1> HIDE DEF b
  <1>3. /\ c.disk = d /\ c.torn = b.torn \cup {b.disk}
        /\ \A j \in FoundIDs : GetView(c, j) = GetView(b, j)
        /\ SameEntrance(b, c) /\ c.sm = b.sm
    BY <1>2, WriteEffect
  <1> HIDE DEF c
  <1>4. SameEntrance(w, c)
    BY <1>1, <1>2, <1>3 DEF Elsewhere, Quiet, SameEntrance
  <1>5. c.torn \subseteq w.torn \cup {w.disk}
    BY <1>1, <1>2, <1>3 DEF Elsewhere, Quiet
  <1>6. SameContent(v, GetView(c, id))
    BY <1>1, <1>2, <1>3 DEF Quiet
  <1>7. \A j \in FoundIDs \ {id} : SameContent(GetView(w, j), GetView(c, j))
    BY <1>1, <1>2, <1>3 DEF Quiet, Elsewhere
  <1>8. HandsOn(w, c)
    <2>1. Alike(w.sm.out, c.sm.out) \/ \E j \in FoundIDs : Alike(GetView(c, j), c.sm.out)
      BY <1>1, <1>2, <1>3 DEF Elsewhere, Quiet, HandsOn, Alike, SameContent
    <2> QED BY <2>1 DEF HandsOn
  <1>9. Records(w, c, id, v, d)
    BY <1>3, <1>4, <1>5, <1>6, <1>7, <1>8 DEF Records
  <1> QED BY <1>9 DEF a, b, c

\* PutView, a store call and MarkViewUpdated, in this order.
LEMMA PutWriteMark ==
    ASSUME NEW w \in Kernel, NEW id \in FoundIDs, NEW v \in View, NEW d \in Disk
    PROVE  Records(w, MarkViewUpdated(Write(PutView(w, id, v), d), id), id, v, d)
  <1> DEFINE a == PutView(w, id, v)
             b == Write(a, d)
             c == MarkViewUpdated(b, id)
  <1>1. a \in Kernel /\ GetView(a, id) = v /\ Elsewhere(w, a, id)
    BY PutViewType, PutViewEffect
  <1> HIDE DEF a
  <1>2. /\ b \in Kernel /\ b.disk = d /\ b.torn = a.torn \cup {a.disk}
        /\ \A j \in FoundIDs : GetView(b, j) = GetView(a, j)
        /\ SameEntrance(a, b) /\ b.sm = a.sm
    BY <1>1, WriteType, WriteEffect
  <1> HIDE DEF b
  <1>3. Records(w, b, id, v, d)
    BY <1>1, <1>2, ContentItself DEF Records, Elsewhere, SameEntrance, HandsOn, Alike
  <1>4. Quiet(b, c)
    BY <1>2, MarkViewUpdatedQuiet
  <1> HIDE DEF c
  <1>5. Records(w, c, id, v, d)
    BY <1>3, <1>4, QuietRecords
  <1> QED BY <1>5 DEF a, b, c

-----------------------------------------------------------------------------
(* Going forward. *)

\* A disk image is no earlier than itself.
LEMMA SameRecordsExtend ==
    ASSUME NEW S \in Signers, NEW d \in Disk, NEW e, SameRecords(d, e) PROVE Extends(S, d, e)
  <1>1. d.nhr.vh \in Nat /\ d.nhr.vr \in Nat
    BY DEF Disk
  <1> QED BY <1>1 DEF Extends, SameRecords

\* Later than later is later.
LEMMA ExtendsBoth ==
    ASSUME NEW S, NEW d \in Disk, NEW e \in Disk, NEW f \in Disk,
           Extends(S, d, e), Extends(S, e, f)
    PROVE  Extends(S, d, f)
  <1>1. /\ d.nhr.vh \in Nat /\ d.nhr.vr \in Nat /\ e.nhr.vh \in Nat
        /\ e.nhr.vr \in Nat /\ f.nhr.vh \in Nat /\ f.nhr.vr \in Nat
    BY DEF Disk
  <1>2. f.nhr.vh > d.nhr.vh \/ (f.nhr.vh = d.nhr.vh /\ f.nhr.vr >= d.nhr.vr)
    BY <1>1 DEF Extends
  <1>3. ReplaysNear /\ Agreement(S) =>
          \A h \in Heights : d.headers[h].hash # Nil =>
            f.headers[h].hash = d.headers[h].hash
    BY DEF Extends
  <1>4. \A x \in HR : d.phs[x] \subseteq f.phs[x]
    BY DEF Extends
  <1> QED BY <1>2, <1>3, <1>4 DEF Extends

\* What keeps the records does not go back.
LEMMA KeepsForward ==
    ASSUME NEW S \in Signers, NEW w \in Kernel, NEW x, Keeps(w, x) PROVE Forward(S, w, x)
  BY KernelDisk, SameRecordsExtend DEF Keeps, Forward

\* The disk images a crash can leave are disk images.
LEMMA TornDisk == ASSUME NEW w \in Kernel PROVE \A d \in w.torn : d \in Disk
  BY DEF Kernel

\* Two operations that do not go back do not go back one after the other.
LEMMA ForwardBoth ==
    ASSUME NEW S \in Signers, NEW w \in Kernel, NEW x \in Kernel, NEW y \in Kernel,
           Forward(S, w, x), Forward(S, x, y)
    PROVE  Forward(S, w, y)
  <1>1. Extends(S, w.disk, y.disk)
    BY KernelDisk, ExtendsBoth DEF Forward
  <1>2. ASSUME NEW d \in y.torn PROVE d \in w.torn \/ Extends(S, w.disk, d)
    <2>1. CASE d \in x.torn
      BY <2>1 DEF Forward
    <2>2. CASE Extends(S, x.disk, d)
      BY <2>2, KernelDisk, TornDisk, ExtendsBoth DEF Forward
    <2> QED BY <2>1, <2>2 DEF Forward
  <1> QED BY <1>1, <1>2 DEF Forward

\* A step that keeps the disk and the images does not go back.
LEMMA SameDiskForward ==
    ASSUME NEW S \in Signers, NEW w \in Kernel, NEW x, x.disk = w.disk, x.torn \subseteq w.torn
    PROVE  Forward(S, w, x)
  <1>1. Extends(S, w.disk, w.disk)
    BY KernelDisk, SameRecordsExtend DEF SameRecords
  <1> QED BY <1>1 DEF Forward

\* A state with the views, the stores and the entrance of w is quiet.
LEMMA SameViewsQuiet ==
    ASSUME NEW w, NEW x, x.voting = w.voting, x.nextRound = w.nextRound,
           x.committing = w.committing, x.disk = w.disk, x.torn \subseteq w.torn,
           SameEntrance(w, x), x.sm.out = w.sm.out
    PROVE  Quiet(w, x)
  BY ViewNames, ContentItself DEF Quiet, HandsOn, Alike

\* Recording the place of the views in the mirror store keeps a kernel good if
\* the views have not gone back.
LEMMA updateObserversGood ==
    ASSUME NEW S \in Signers, NEW w \in Kernel, Good(S, w),
           \/ w.voting.h > w.disk.nhr.vh
           \/ w.voting.h = w.disk.nhr.vh /\ w.voting.r >= w.disk.nhr.vr
    PROVE  Good(S, updateObservers(w)) /\ Forward(S, w, updateObservers(w))
  <1> DEFINE n == [vh |-> w.voting.h, vr |-> w.voting.r,
                   ch |-> w.committing.h, cr |-> w.committing.r]
             d == [w.disk EXCEPT !.nhr = n]
             x == Write(w, d)
  <1>1. /\ d.nhr = n /\ d.phs = w.disk.phs /\ d.votes = w.disk.votes
        /\ d.headers = w.disk.headers
    BY KernelDisk DEF Disk
  <1>2. x = updateObservers(w)
    BY DEF updateObservers
  <1>3. n.vh = w.voting.h /\ n.vr = w.voting.r
    OBVIOUS
  <1>4. /\ w.voting.h \in Nat /\ w.voting.r \in Nat
        /\ w.disk.nhr.vh \in Nat /\ w.disk.nhr.vr \in Nat
    BY KernelViews, KernelDisk DEF View, Disk
  <1> HIDE DEF d, n
  <1>5. /\ x.disk = d /\ x.torn = w.torn \cup {w.disk}
        /\ \A id \in FoundIDs : GetView(x, id) = GetView(w, id)
        /\ SameEntrance(w, x) /\ x.sm = w.sm
    BY WriteEffect
  <1> HIDE DEF x
  <1>6. \A h \in Heights, r \in Rounds : Beyond(d, h, r) => Beyond(w.disk, h, r)
    <2> SUFFICES ASSUME NEW h \in Heights, NEW r \in Rounds, Beyond(d, h, r)
                 PROVE  Beyond(w.disk, h, r)
      OBVIOUS
    <2>1. h \in Nat /\ r \in Nat /\ d.nhr.vh = w.voting.h /\ d.nhr.vr = w.voting.r
      BY <1>1, <1>3, HRType
    <2> QED BY <1>4, <2>1 DEF Beyond
  <1>7. GoodDisk(S, d)
    <2>1. GenuineDisk(S, d)
      BY <1>1 DEF Good, GoodDisk, GenuineDisk
    <2>2. ReplaysNear => MirroredDisk(d)
      BY <1>1, <1>6 DEF Good, GoodDisk, MirroredDisk
    <2> QED BY <2>1, <2>2 DEF GoodDisk
  <1>8. \A id \in FoundIDs : GoodView(S, d, GetView(x, id))
    BY <1>1, <1>5 DEF Good, GoodView, MirroredView
  <1>9. Summed(x)
    BY <1>5, ViewNames DEF Good, Summed
  <1>10. Entered(x)
    BY <1>5 DEF Good, Entered, SameEntrance
  <1>11. Good(S, x)
    BY <1>5, <1>7, <1>8, <1>9, <1>10 DEF Good
  <1>12. Extends(S, w.disk, d)
    BY <1>1, <1>3, <1>4 DEF Extends, n
  <1>13. Extends(S, w.disk, w.disk)
    BY KernelDisk, SameRecordsExtend DEF SameRecords
  <1>14. Forward(S, w, x)
    BY <1>5, <1>12, <1>13 DEF Forward
  <1> QED BY <1>2, <1>11, <1>14

-----------------------------------------------------------------------------
(* The rounds and heights move on. *)

\* A view of a place that nothing has been stored for, without content, is
\* good.
LEMMA FreshGood ==
    ASSUME NEW S \in Signers, NEW d, GoodDisk(S, d), NEW v, v.phs = {},
           \A k \in Kinds : v.proofs[k] = NoProofs,
           Beyond(d, v.h, v.r), HandedOn(S, v)
    PROVE  GoodView(S, d, v)
  <1>1. GenuineView(S, v)
    BY NoProofsGenuine DEF GenuineView
  <1>2. ASSUME ReplaysNear, <<v.h, v.r>> \in HR
        PROVE  /\ \A k \in Kinds : d.votes[k][<<v.h, v.r>>] = v.proofs[k]
               /\ {p \in v.phs : p.by # NoProposer} = d.phs[<<v.h, v.r>>]
    <2>1. /\ d.phs[<<v.h, v.r>>] = {}
          /\ \A k \in Kinds : d.votes[k][<<v.h, v.r>>] = NoProofs
      BY <1>2, HRType DEF GoodDisk, MirroredDisk
    <2>2. {p \in v.phs : p.by # NoProposer} = {}
      OBVIOUS
    <2> QED BY <2>1, <2>2
  <1> QED BY <1>1, <1>2 DEF GoodView, MirroredView

\* incrementVotingRound keeps a kernel good: the recycled view is of a round
\* that nothing has been stored for.
LEMMA incrementVotingRoundGood ==
    ASSUME NEW S \in Signers, NEW w \in Kernel, Sound(w), Good(S, w)
    PROVE  LET x == incrementVotingRound(w)
           IN /\ Good(S, x) /\ x.disk = w.disk /\ x.torn = w.torn
              /\ SameContent(w.nextRound, x.voting) /\ SameEntrance(w, x)
  <1> DEFINE w0 == [w EXCEPT !.voting = w.nextRound]
             w1 == MarkVotingViewUpdated(w0)
             v  == ResetForSameHeight(w.voting, w.nextRound.r + 1)
             w2 == [w1 EXCEPT !.nextRound = v]
             x  == MarkNextRoundViewUpdated(w2)
  <1>1. /\ w0 \in Kernel /\ w0.voting = w.nextRound /\ w0.committing = w.committing
        /\ w0.disk = w.disk /\ w0.torn = w.torn /\ w0.sm = w.sm
    BY DEF Kernel
  <1> HIDE DEF w0
  <1>2. /\ w1 \in Kernel
        /\ w1.voting = Bump(w.nextRound)
        /\ w1.committing = w.committing /\ w1.disk = w.disk /\ w1.torn = w.torn
        /\ SameEntrance(w, w1) /\ w1.sm.out \in {w.sm.out, w1.voting}
    BY <1>1, MarkVotingType, MarkVotingEffect DEF SameEntrance
  <1> HIDE DEF w1
  <1>3. v \in View /\ v.h = w.voting.h /\ v.r = w.nextRound.r + 1 /\ v.phs = {}
        /\ v.sum = v.proofs /\ (\A k \in Kinds : v.proofs[k] = NoProofs)
        /\ Alike(w.voting, v)
    <2>1. w.voting \in View /\ w.nextRound.r + 1 \in Nat
      BY KernelViews DEF View
    <2>2. v \in View
      BY <2>1, ResetForSameHeightType
    <2>3. /\ v.h = w.voting.h /\ v.r = w.nextRound.r + 1 /\ v.phs = {}
          /\ v.sum = v.proofs /\ (\A k \in Kinds : v.proofs[k] = NoProofs)
          /\ Alike(w.voting, v)
      BY DEF ResetForSameHeight, ZeroView, Alike
    <2> QED BY <2>2, <2>3
  <1> HIDE DEF v
  <1>4. /\ w2 \in Kernel /\ w2.voting = w1.voting /\ w2.nextRound = v
        /\ w2.committing = w.committing /\ w2.disk = w.disk /\ w2.torn = w.torn
        /\ w2.sm = w1.sm
    BY <1>2, <1>3 DEF Kernel
  <1> HIDE DEF w2
  <1>5. /\ x.voting = Bump(w.nextRound) /\ x.nextRound = Bump(v)
        /\ x.committing = w.committing /\ x.disk = w.disk /\ x.torn = w.torn
        /\ SameEntrance(w, x) /\ x.sm.out \in {w.sm.out, x.voting}
    BY <1>2, <1>4, MarkNextRoundEffect DEF SameEntrance
  <1>6. x = incrementVotingRound(w)
    BY DEF incrementVotingRound, w0, w1, v, w2
  <1> HIDE DEF x
  <1>7. SameContent(w.nextRound, x.voting) /\ SameContent(v, x.nextRound)
    BY <1>3, <1>5, KernelViews, BumpContent
  <1>8. GoodView(S, w.disk, v)
    <2>1. /\ w.voting.h = w.disk.nhr.vh /\ w.voting.r = w.disk.nhr.vr
          /\ w.nextRound.r = w.voting.r + 1 /\ w.voting.r \in Nat
      BY KernelViews DEF Sound, Aligned, Recorded, View
    <2>2. Beyond(w.disk, v.h, v.r)
      BY <1>3, <2>1 DEF Beyond
    <2>3. HandedOn(S, v)
      BY <1>3, ViewNames, AlikeHandedOn DEF Good, GoodView, GenuineView
    <2> QED BY <1>3, <2>2, <2>3, FreshGood DEF Good
  <1>9. /\ GoodView(S, w.disk, w.nextRound) /\ GoodView(S, w.disk, w.committing)
    BY ViewNames DEF Good
  <1>10. GoodView(S, x.disk, x.voting) /\ GoodView(S, x.disk, x.nextRound)
         /\ GoodView(S, x.disk, x.committing)
    BY <1>5, <1>7, <1>8, <1>9, SameContentGood
  <1>11. \A id \in FoundIDs : GoodView(S, x.disk, GetView(x, id))
    BY <1>10, ViewNames
  <1>12. Summed(x)
    BY <1>3, <1>7 DEF Good, Summed, SameContent
  <1>13. Entered(x)
    BY <1>5 DEF Good, Entered, SameEntrance
  <1>14. HandedOn(S, x.sm.out)
    BY <1>5, <1>10 DEF Good, GoodView, GenuineView
  <1>15. Good(S, x)
    BY <1>5, <1>11, <1>12, <1>13, <1>14 DEF Good
  <1> QED BY <1>5, <1>6, <1>7, <1>15

\* The voting place that a sound kernel has recorded, and the next one.
LEMMA RecordedPlace ==
    ASSUME NEW w \in Kernel, Sound(w)
    PROVE  /\ w.disk.nhr.vh = w.voting.h /\ w.disk.nhr.vr = w.voting.r
           /\ w.voting.h \in Nat /\ w.voting.r \in Nat
           /\ w.nextRound.h = w.voting.h /\ w.nextRound.r = w.voting.r + 1
  BY KernelViews DEF Sound, Aligned, Recorded, View

\* advanceVotingRound keeps a kernel good and does not go back.
LEMMA advanceVotingRoundGood ==
    ASSUME NEW S \in Signers, NEW w \in Kernel, Sound(w), Good(S, w)
    PROVE  Good(S, advanceVotingRound(w)) /\ Forward(S, w, advanceVotingRound(w))
  <1> DEFINE w0 == [w EXCEPT !.gossip.nilVoted = w.voting]
             x  == incrementVotingRound(w0)
  <1>1. /\ w0 \in Kernel /\ w0.voting = w.voting /\ w0.nextRound = w.nextRound
        /\ w0.committing = w.committing /\ w0.disk = w.disk /\ w0.torn = w.torn
        /\ w0.sm = w.sm
    BY DEF Kernel
  <1> HIDE DEF w0
  <1>2. Keeps(w, w0) /\ Quiet(w, w0)
    BY <1>1, SameViewsQuiet DEF Keeps, SamePlaces, SameRecords, SameEntrance
  <1>3. Sound(w0) /\ Good(S, w0)
    BY <1>2, KeepsSound, QuietGood
  <1>4. /\ x \in Kernel /\ Good(S, x) /\ x.disk = w.disk /\ x.torn = w.torn
        /\ SameContent(w.nextRound, x.voting)
    BY <1>1, <1>3, incrementVotingRoundType, incrementVotingRoundGood
  <1> HIDE DEF x
  <1>5. x.voting.h = x.disk.nhr.vh /\ x.voting.r >= x.disk.nhr.vr
    BY <1>4, RecordedPlace DEF SameContent
  <1>6. Good(S, updateObservers(x)) /\ Forward(S, x, updateObservers(x))
    BY <1>4, <1>5, updateObserversGood
  <1>7. Forward(S, w, updateObservers(x))
    BY <1>4, <1>6 DEF Forward
  <1> QED BY <1>6, <1>7 DEF advanceVotingRound, AdvanceVotingRound, x, w0

\* jumpVotingRound keeps a kernel good and does not go back.
LEMMA jumpVotingRoundGood ==
    ASSUME NEW S \in Signers, NEW w \in Kernel, Sound(w), Good(S, w)
    PROVE  /\ Good(S, jumpVotingRound(w)) /\ Forward(S, w, jumpVotingRound(w))
           /\ jumpVotingRound(w).voting.h = w.voting.h
           /\ jumpVotingRound(w).voting.r = w.voting.r + 1
  <1> DEFINE x == incrementVotingRound(w)
             y == IF x.sm.h = x.voting.h /\ x.sm.r = x.voting.r - 1
                  THEN [x EXCEPT !.sm.jump = x.voting] ELSE x
             z == updateObservers(y)
  <1>1. /\ x \in Kernel /\ Good(S, x) /\ x.disk = w.disk /\ x.torn = w.torn
        /\ SameContent(w.nextRound, x.voting)
    BY incrementVotingRoundType, incrementVotingRoundGood
  <1>2. y = JumpVotingRound(w)
    BY DEF JumpVotingRound
  <1>3. y \in Kernel
    BY <1>2, JumpVotingRoundType
  <1> HIDE DEF x
  <1>4. /\ y.voting = x.voting /\ y.nextRound = x.nextRound
        /\ y.committing = x.committing /\ y.disk = x.disk /\ y.torn = x.torn
    BY <1>1 DEF Kernel
  <1>5. SameEntrance(x, y) /\ y.sm.out = x.sm.out
    BY <1>1 DEF Kernel, SameEntrance
  <1> HIDE DEF y
  <1>6. Good(S, y)
    BY <1>1, <1>4, <1>5, SameViewsQuiet, QuietGood
  <1>7. /\ y.voting.h = y.disk.nhr.vh /\ y.voting.r >= y.disk.nhr.vr
        /\ y.voting.h = w.voting.h /\ y.voting.r = w.voting.r + 1
    BY <1>1, <1>4, RecordedPlace DEF SameContent
  <1>8. Good(S, z) /\ Forward(S, y, z)
    BY <1>3, <1>6, <1>7, updateObserversGood
  <1>9. Forward(S, w, z)
    BY <1>1, <1>4, <1>8 DEF Forward
  <1>10. z.voting = y.voting
    BY <1>3 DEF updateObservers, Write, Kernel
  <1> QED BY <1>2, <1>7, <1>8, <1>9, <1>10 DEF jumpVotingRound

\* u has the place and the votes of v, and its previous commit proof or none.
SameVotes(v, u) ==
    /\ u.h = v.h /\ u.r = v.r /\ u.phs = v.phs /\ u.proofs = v.proofs
    /\ u.prev = v.prev \/ u.prev.proofs = NoProofs

\* Same votes, same standing.
LEMMA SameVotesGood ==
    ASSUME NEW S, NEW d, NEW v, NEW u, GoodView(S, d, v), SameVotes(v, u)
    PROVE  GoodView(S, d, u)
  <1>1. HandedOn(S, u)
    BY NoProofsGenuine DEF GoodView, GenuineView, HandedOn, SameVotes
  <1>2. GenuineView(S, u)
    BY <1>1 DEF GoodView, GenuineView, SameVotes
  <1>3. MirroredView(d, v) => MirroredView(d, u)
    BY DEF MirroredView, SameVotes
  <1> QED BY <1>2, <1>3 DEF GoodView

\* ShiftVotingToCommitting keeps a kernel good: what becomes the Committing
\* view is the Voting view, and nothing has been stored for the next height.
LEMMA ShiftVotingToCommittingGood ==
    ASSUME NEW S \in Signers, NEW w \in Kernel, NEW hash \in Hashes, Sound(w), Good(S, w)
    PROVE  LET x == ShiftVotingToCommitting(w, hash)
           IN /\ Good(S, x) /\ x.disk = w.disk /\ x.torn = w.torn
              /\ x.committing.h = w.voting.h
              /\ x.voting.h = w.voting.h + 1
              /\ x.voting.prev = [r |-> w.voting.r,
                                  proofs |-> w.voting.proofs["precommit"]]
  <1> DEFINE close == w.sm.live /\ w.sm.h = w.committing.h
             w0 == [w EXCEPT !.committing = w.voting]
             w1 == MarkCommittingViewUpdated(w0)
             prev == [r |-> w.voting.r, proofs |-> w.voting.proofs["precommit"]]
             fresh == [ZeroView EXCEPT !.h = w.voting.h + 1, !.prev = prev]
             y1 == [w1 EXCEPT !.voting = fresh]
             w2 == MarkVotingViewUpdated(y1)
             next == [fresh EXCEPT !.r = 1]
             y2 == [w2 EXCEPT !.nextRound = next]
             w3 == MarkNextRoundViewUpdated(y2)
             w4 == IF w.shared
                   THEN [w3 EXCEPT !.committing.prev.proofs = NoProofs] ELSE w3
             w5 == [w4 EXCEPT !.committingHeader = hash, !.shared = FALSE,
                              !.sm.closed = @ \/ close]
  <1>0. w.voting.h \in Nat /\ w.voting.r \in Nat
        /\ w.voting.proofs["precommit"] \in Proofs
    BY KernelViews DEF View, Kinds
  <1>1. /\ w1 \in Kernel /\ w1.committing = Bump(w.voting) /\ w1.disk = w.disk
        /\ w1.torn = w.torn /\ SameEntrance(w, w1)
        /\ w1.sm.out \in {w.sm.out, Bump(w.voting)}
    <2>1. /\ w0 \in Kernel /\ w0.committing = w.voting /\ w0.disk = w.disk
          /\ w0.torn = w.torn /\ w0.sm = w.sm
      BY DEF Kernel
    <2> HIDE DEF w0
    <2> QED BY <2>1, MarkCommittingType, MarkCommittingEffect DEF SameEntrance
  <1>2. /\ fresh \in View /\ fresh.h = w.voting.h + 1 /\ fresh.r = 0
        /\ fresh.prev = prev /\ fresh.phs = {} /\ fresh.sum = fresh.proofs
        /\ \A k \in Kinds : fresh.proofs[k] = NoProofs
    <2>1. prev \in [r : Nat, proofs : Proofs] /\ w.voting.h + 1 \in Nat
      BY <1>0
    <2> HIDE DEF prev
    <2>2. fresh \in View
      BY <2>1, ZeroViewType DEF View
    <2> QED BY <2>2 DEF ZeroView
  <1> HIDE DEF w1, prev, fresh
  <1>3. /\ y1 \in Kernel /\ y1.voting = fresh /\ y1.committing = w1.committing
        /\ y1.disk = w.disk /\ y1.torn = w.torn /\ y1.sm = w1.sm
    BY <1>1, <1>2 DEF Kernel
  <1> HIDE DEF y1
  <1>4. /\ w2 \in Kernel /\ w2.voting = Bump(fresh) /\ w2.committing = w1.committing
        /\ w2.disk = w.disk /\ w2.torn = w.torn /\ SameEntrance(w, w2)
        /\ w2.sm.out \in {w.sm.out, Bump(w.voting), Bump(fresh)}
    BY <1>1, <1>3, MarkVotingType, MarkVotingEffect DEF SameEntrance
  <1>5. /\ next \in View /\ next.h = w.voting.h + 1 /\ next.r = 1
        /\ next.phs = {} /\ next.sum = next.proofs /\ next.prev = prev
        /\ \A k \in Kinds : next.proofs[k] = NoProofs
    BY <1>2 DEF View
  <1> HIDE DEF w2, next
  <1>6. /\ y2 \in Kernel /\ y2.voting = w2.voting /\ y2.nextRound = next
        /\ y2.committing = w1.committing
        /\ y2.disk = w.disk /\ y2.torn = w.torn /\ y2.sm = w2.sm
    BY <1>4, <1>5 DEF Kernel
  <1> HIDE DEF y2
  <1>7. /\ w3 \in Kernel /\ w3.voting = w2.voting /\ w3.nextRound = Bump(next)
        /\ w3.committing = w1.committing
        /\ w3.disk = w.disk /\ w3.torn = w.torn /\ SameEntrance(w, w3)
        /\ w3.sm.out = w2.sm.out
    BY <1>4, <1>6, MarkNextRoundType, MarkNextRoundEffect DEF SameEntrance
  <1> HIDE DEF w3
  <1>8. /\ w4 \in Kernel /\ w4.voting = w2.voting /\ w4.nextRound = Bump(next)
        /\ SameVotes(w1.committing, w4.committing)
        /\ w4.disk = w.disk /\ w4.torn = w.torn /\ SameEntrance(w, w4)
        /\ w4.sm.out = w2.sm.out
    <2> DEFINE v == [w3.committing EXCEPT !.prev.proofs = NoProofs]
               y == [w3 EXCEPT !.committing = v]
    <2>1. v \in View /\ SameVotes(w3.committing, v)
      <3>1. ASSUME NEW u \in View
            PROVE  /\ [u EXCEPT !.prev.proofs = NoProofs] \in View
                   /\ SameVotes(u, [u EXCEPT !.prev.proofs = NoProofs])
        BY NoProofsType DEF View, SameVotes
      <3> QED BY <1>7, <3>1, KernelViews
    <2>2. [w3 EXCEPT !.committing.prev.proofs = NoProofs] = y
      BY <1>7 DEF Kernel
    <2> HIDE DEF v
    <2>3. /\ y \in Kernel /\ y.voting = w3.voting /\ y.nextRound = w3.nextRound
          /\ y.committing = v /\ y.disk = w3.disk /\ y.torn = w3.torn /\ y.sm = w3.sm
      BY <1>7, <2>1 DEF Kernel
    <2> HIDE DEF y
    <2>4. SameEntrance(w, y)
      BY <1>7, <2>3 DEF SameEntrance
    <2>5. SameVotes(w3.committing, w3.committing)
      BY DEF SameVotes
    <2> QED BY <1>7, <2>1, <2>2, <2>3, <2>4, <2>5
  <1> HIDE DEF w4, close
  <1>9. /\ w5.voting = w2.voting /\ w5.nextRound = Bump(next)
        /\ w5.committing = w4.committing /\ w5.disk = w.disk /\ w5.torn = w.torn
    BY <1>8 DEF Kernel
  <1>10. SameEntrance(w4, w5) /\ w5.sm.out = w4.sm.out
    BY <1>8 DEF Kernel, SameEntrance
  <1>11. w5 = ShiftVotingToCommitting(w, hash)
    BY DEF ShiftVotingToCommitting, w0, w1, y1, w2, y2, w3, w4, fresh, next, prev, close
  <1> HIDE DEF w5
  <1>12. /\ SameVotes(w.voting, w5.committing) /\ SameContent(fresh, w5.voting)
         /\ SameContent(next, w5.nextRound) /\ w5.voting.prev = prev
         /\ SameContent(w.voting, Bump(w.voting)) /\ SameContent(fresh, Bump(fresh))
    <2>1. SameContent(w.voting, Bump(w.voting)) /\ SameContent(fresh, Bump(fresh))
          /\ SameContent(next, Bump(next))
      BY <1>2, <1>5, KernelViews, BumpContent
    <2>2. SameVotes(w.voting, w5.committing)
      BY <1>1, <1>8, <1>9, <2>1 DEF SameContent, SameVotes
    <2>3. Bump(fresh).prev = prev
      BY <1>2 DEF Bump, View
    <2> QED BY <1>4, <1>9, <2>1, <2>2, <2>3
  <1>13. GoodView(S, w.disk, fresh) /\ GoodView(S, w.disk, next)
    <2>1. Beyond(w.disk, fresh.h, fresh.r) /\ Beyond(w.disk, next.h, next.r)
      BY <1>2, <1>5, RecordedPlace DEF Beyond
    <2>2. Genuine(S, "precommit", w.voting.h, w.voting.r, w.voting.proofs["precommit"])
      BY ViewNames, PlacesDiffer DEF Good, GoodView, GenuineView, Kinds
    <2>3. prev.r = w.voting.r /\ prev.proofs = w.voting.proofs["precommit"]
          /\ w.voting.h + 1 - 1 = w.voting.h
      BY <1>0 DEF prev
    <2>4. HandedOn(S, fresh) /\ HandedOn(S, next)
      <3>1. /\ fresh.h - 1 = w.voting.h /\ next.h - 1 = w.voting.h
            /\ fresh.prev = prev /\ next.prev = prev
        BY <1>0, <1>2, <1>5
      <3> QED BY <2>2, <2>3, <3>1 DEF HandedOn
    <2> QED BY <1>2, <1>5, <2>1, <2>4, FreshGood DEF Good
  <1>14. GoodView(S, w.disk, w.voting)
    BY ViewNames DEF Good
  <1>15. \A id \in FoundIDs : GoodView(S, w5.disk, GetView(w5, id))
    <2>1. GoodView(S, w.disk, w5.committing)
      BY <1>12, <1>14, SameVotesGood
    <2> QED BY <1>9, <1>12, <1>13, <2>1, SameContentGood, ViewNames
  <1>16. Summed(w5)
    BY <1>2, <1>5, <1>12 DEF Summed, SameContent
  <1>17. Entered(w5)
    BY <1>8, <1>10 DEF Good, Entered, SameEntrance
  <1>18. Good(S, w5)
    <2>1. /\ HandedOn(S, w.sm.out) /\ HandedOn(S, Bump(w.voting))
          /\ HandedOn(S, Bump(fresh))
      BY <1>12, <1>13, <1>14, SameContentGood DEF Good, GoodView, GenuineView
    <2>2. HandedOn(S, w5.sm.out)
      BY <1>4, <1>8, <1>10, <2>1
    <2> QED BY <1>9, <1>15, <1>16, <1>17, <2>2 DEF Good
  <1>19. w5.committing.h = w.voting.h /\ w5.voting.h = w.voting.h + 1
    BY <1>2, <1>12 DEF SameContent, SameVotes
  <1> QED BY <1>9, <1>11, <1>12, <1>18, <1>19 DEF prev

\* No power, no majority.
LEMMA MajorityNeedsVoters == ~(PowerOf[{}] >= Majority)
  <1>1. {} \in SUBSET Val /\ Val \in SUBSET Val
    OBVIOUS
  <1>2. PowerOf[{}] = 0
    <2>1. PowerOf[{} \cup {}] = PowerOf[{}] + PowerOf[{}]
      BY <1>1, PowerAssumption
    <2>2. {} \cup {} = {}
      OBVIOUS
    <2> QED BY <1>1, <2>1, <2>2, PowerIsNat
  <1>3. Majority \in Nat /\ 3 * Majority > 2 * AvailablePower /\ AvailablePower \in Nat
    BY <1>1, PowerIsNat, MajorityIsLeastAboveTwoThirds DEF Majority, AvailablePower
  <1> QED BY <1>2, <1>3


\* If replayed headers are within reach, genuine precommits of a majority
\* decide.
LEMMA GenuineDecides ==
    ASSUME NEW S \in Signers, ReplaysNear, NEW h \in Nat, NEW r \in Nat,
           NEW proofs \in Proofs, NEW b \in Hashes,
           Genuine(S, "precommit", h, r, proofs), BlockPower(proofs, b) >= Majority
    PROVE  Decided(S, h, r, b) /\ r \in Rounds
  <1> DEFINE voters == S[<<"precommit", h, r, b>>]
  <1>1. proofs[b] \subseteq voters
    BY DEF Genuine
  <1>2. voters \in SUBSET Val /\ proofs[b] \in SUBSET Val
    BY SignedType DEF Proofs, Kinds
  <1>3. PowerOf[proofs[b]] <= PowerOf[voters]
    BY <1>1, <1>2, PowerMonotone
  <1>4. PowerOf[proofs[b]] \in Nat /\ PowerOf[voters] \in Nat /\ Majority \in Nat
    <2>1. Val \in SUBSET Val
      OBVIOUS
    <2> QED BY <1>2, <2>1, PowerIsNat, MajorityIsLeastAboveTwoThirds
            DEF Majority, AvailablePower
  <1>5. Decided(S, h, r, b)
    BY <1>3, <1>4 DEF Decided, BlockPower
  <1>6. r \in Rounds
    <2>1. ASSUME r \notin Rounds PROVE voters = {}
      BY <2>1 DEF Signers
    <2> QED BY <1>5, <2>1, MajorityNeedsVoters DEF Decided
  <1> QED BY <1>5, <1>6

\* commitVotedHeader keeps a kernel good and does not go back if the precommits
\* of the Voting view have a majority: a header that is stored already is the
\* same, for two blocks of a height are not both decided.
LEMMA commitVotedHeaderGood ==
    ASSUME NEW S \in Signers, NEW w \in Kernel, Sound(w), Good(S, w), NEW hash \in Blocks,
           BlockPower(w.voting.proofs["precommit"], hash) >= Majority
    PROVE  Good(S, commitVotedHeader(w, hash)) /\ Forward(S, w, commitVotedHeader(w, hash))
  <1> DEFINE x == ShiftVotingToCommitting(w, hash)
             pc == w.voting.proofs["precommit"]
             c == [hash |-> hash, r |-> w.voting.r, proofs |-> pc]
             hh == w.voting.h
             d == [w.disk EXCEPT !.headers[hh] = c]
             y == Write(x, d)
             z == updateObservers(y)
  <1>0. hash \in Hashes /\ hash # Nil
    BY BlocksAreHashes, BlocksAssumption DEF Blocks, Nil
  <1>1. /\ x \in Kernel /\ Good(S, x) /\ x.disk = w.disk /\ x.torn = w.torn
        /\ x.committing.h = hh /\ x.voting.h = hh + 1
        /\ x.voting.prev = [r |-> w.voting.r, proofs |-> pc]
    BY <1>0, ShiftVotingToCommittingType, ShiftVotingToCommittingGood
  <1> HIDE DEF x
  <1>2. y = SaveCommittedHeader(x, x.committing.h, hash, x.voting.prev)
    BY <1>1 DEF SaveCommittedHeader
  <1>3. y \in Kernel
    <2>1. x.voting.prev \in [r : Nat, proofs : Proofs]
      BY <1>1, KernelViews DEF View
    <2> QED BY <1>0, <1>1, <1>2, <2>1, SaveCommittedHeaderType
  <1>4. pc \in Proofs /\ c.hash = hash /\ c.r = w.voting.r /\ c.proofs = pc
    BY KernelViews DEF View, Kinds
  <1>5. hh # 0 /\ Genuine(S, "precommit", hh, w.voting.r, pc)
    <2>1. GenuineView(S, w.voting) /\ hh # 0
      BY ViewNames, PlacesDiffer DEF Good, GoodView
    <2> QED BY <2>1 DEF GenuineView, Kinds
  <1> HIDE DEF c, pc
  <1>6. /\ d.nhr = w.disk.nhr /\ d.phs = w.disk.phs /\ d.votes = w.disk.votes
        /\ \A h \in Heights : d.headers[h] = IF h = hh THEN c ELSE w.disk.headers[h]
    <2> HIDE DEF hh
    <2> QED BY KernelDisk DEF Disk
  <1> HIDE DEF d
  <1>7. /\ y.disk = d /\ y.torn = w.torn \cup {w.disk}
        /\ \A id \in FoundIDs : GetView(y, id) = GetView(x, id)
        /\ SameEntrance(x, y) /\ y.sm = x.sm
    BY <1>1, WriteEffect
  <1> HIDE DEF y
  <1>8. GoodDisk(S, d)
    <2>1. GenuineDisk(S, w.disk) /\ (ReplaysNear => MirroredDisk(w.disk))
      BY DEF Good, GoodDisk
    <2>2. ASSUME NEW h \in Heights, d.headers[h].hash # Nil
          PROVE  /\ BlockPower(d.headers[h].proofs, d.headers[h].hash) >= Majority
                 /\ Genuine(S, "precommit", h, d.headers[h].r, d.headers[h].proofs)
      <3>1. CASE h = hh
        <4>1. d.headers[h] = c
          BY <1>6, <3>1
        <4>2. BlockPower(pc, hash) >= Majority
          BY DEF pc
        <4> QED BY <1>4, <1>5, <3>1, <4>1, <4>2
      <3>2. CASE h # hh
        BY <1>6, <2>1, <2>2, <3>2 DEF GenuineDisk
      <3> QED BY <3>1, <3>2
    <2>3. GenuineDisk(S, d)
      BY <1>6, <2>1, <2>2 DEF GenuineDisk
    <2>4. ReplaysNear => MirroredDisk(d)
      BY <1>6, <2>1 DEF MirroredDisk, Beyond
    <2> QED BY <2>3, <2>4 DEF GoodDisk
  <1>9. Good(S, y)
    <2>1. \A id \in FoundIDs : GoodView(S, d, GetView(y, id))
      BY <1>1, <1>6, <1>7 DEF Good, GoodView, MirroredView
    <2>2. Summed(y)
      BY <1>1, <1>7, ViewNames DEF Good, Summed
    <2>3. Entered(y)
      BY <1>1, <1>7 DEF Good, Entered, SameEntrance
    <2>4. HandedOn(S, y.sm.out) /\ \A e \in y.torn : GoodDisk(S, e)
      BY <1>1, <1>7 DEF Good
    <2> QED BY <1>7, <1>8, <2>1, <2>2, <2>3, <2>4 DEF Good
  <1>10. Extends(S, w.disk, d)
    <2>1. ASSUME ReplaysNear, Agreement(S), NEW h \in Heights, w.disk.headers[h].hash # Nil
          PROVE  d.headers[h].hash = w.disk.headers[h].hash
      <3> DEFINE old == w.disk.headers[h]
      <3>0. h \in Nat /\ w.voting.r \in Nat
        BY HRType, KernelViews DEF View
      <3>1. CASE h = hh
        <4>1. /\ old.proofs \in Proofs /\ old.hash \in Blocks /\ old.hash \in Hashes
              /\ old.r \in Nat
          BY <2>1, KernelDisk, BlocksAssumption DEF Disk, Hashes, Blocks, Nil
        <4>2. BlockPower(old.proofs, old.hash) >= Majority
              /\ Genuine(S, "precommit", h, old.r, old.proofs)
          BY <2>1 DEF Good, GoodDisk, GenuineDisk
        <4>3. Decided(S, h, old.r, old.hash) /\ old.r \in Rounds
          BY <2>1, <3>0, <4>1, <4>2, GenuineDecides
        <4>4. BlockPower(pc, hash) >= Majority
          BY DEF pc
        <4>5. Decided(S, hh, w.voting.r, hash) /\ w.voting.r \in Rounds
          BY <1>0, <1>4, <1>5, <2>1, <3>0, <3>1, <4>4, GenuineDecides
        <4>6. old.hash = hash
          BY <2>1, <3>1, <4>1, <4>3, <4>5 DEF Agreement
        <4> QED BY <1>4, <1>6, <3>1, <4>6
      <3>2. CASE h # hh
        BY <1>6, <3>2
      <3> QED BY <3>1, <3>2
    <2>2. d.nhr.vh = w.disk.nhr.vh /\ d.nhr.vr = w.disk.nhr.vr
          /\ w.disk.nhr.vh \in Nat /\ w.disk.nhr.vr \in Nat /\ d.phs = w.disk.phs
      BY <1>6, KernelDisk DEF Disk
    <2> QED BY <2>1, <2>2 DEF Extends
  <1>11. y.voting.h > y.disk.nhr.vh
    <2>1. y.voting = x.voting
      BY <1>7, ViewNames
    <2> QED BY <1>1, <1>6, <1>7, <2>1, RecordedPlace
  <1>12. Good(S, z) /\ Forward(S, y, z)
    BY <1>3, <1>9, <1>11, updateObserversGood
  <1>13. Forward(S, w, y)
    <2>1. Extends(S, w.disk, w.disk)
      BY KernelDisk, SameRecordsExtend DEF SameRecords
    <2> QED BY <1>7, <1>10, <2>1 DEF Forward
  <1>14. z \in Kernel
    BY <1>3, updateObserversType
  <1>15. Forward(S, w, z)
    BY <1>3, <1>12, <1>13, <1>14, ForwardBoth
  <1> QED BY <1>2, <1>12, <1>15 DEF commitVotedHeader, x

\* The shift check on the precommits of the Voting view: it commits a header
\* only if the summary it reads, which is that of the votes held, gives it a
\* majority.
LEMMA checkVotingPrecommitViewShiftGood ==
    ASSUME NEW S \in Signers, NEW w \in Kernel, Sound(w), Good(S, w)
    PROVE  /\ Good(S, checkVotingPrecommitViewShift(w))
           /\ Forward(S, w, checkVotingPrecommitViewShift(w))
  <1> DEFINE sum  == w.voting.sum["precommit"]
             hash == MostVotedHash(sum)
  <1>1. Good(S, w) /\ Forward(S, w, w)
    BY SameDiskForward
  <1>2. Good(S, advanceVotingRound(w)) /\ Forward(S, w, advanceVotingRound(w))
    BY advanceVotingRoundGood
  <1>3. ASSUME ~(BlockPower(sum, hash) < Majority), NEW p \in w.voting.phs, p.hash = hash
        PROVE  Good(S, commitVotedHeader(w, hash)) /\ Forward(S, w, commitVotedHeader(w, hash))
    <2>1. sum = w.voting.proofs["precommit"] /\ sum \in Proofs
      BY KernelViews DEF Good, Summed, View, Kinds
    <2>2. hash \in Blocks
      BY <1>3, KernelViews DEF View, HeldPH
    <2> HIDE DEF sum, hash
    <2>3. sum[hash] \in SUBSET Val
      BY <2>1, <2>2, BlocksAreHashes DEF Proofs
    <2>4. BlockPower(sum, hash) \in Nat /\ Majority \in Nat
      <3>1. Val \in SUBSET Val
        OBVIOUS
      <3> QED BY <2>3, <3>1, PowerIsNat, MajorityIsLeastAboveTwoThirds
              DEF Majority, AvailablePower, BlockPower
    <2>5. BlockPower(sum, hash) >= Majority
      BY <1>3, <2>4
    <2> QED BY <2>1, <2>2, <2>5, commitVotedHeaderGood
  <1> HIDE DEF sum, hash
  <1>4. checkVotingPrecommitViewShift(w) =
          IF BlockPower(sum, hash) < Majority
          THEN IF TotalPower(sum) = AvailablePower THEN advanceVotingRound(w) ELSE w
          ELSE IF hash = Nil THEN advanceVotingRound(w)
          ELSE IF \E p \in w.voting.phs : p.hash = hash
               THEN commitVotedHeader(w, hash) ELSE w
    BY DEF checkVotingPrecommitViewShift, sum, hash
  <1> QED BY <1>1, <1>2, <1>3, <1>4

\* The shift checks on the NextRound view.
LEMMA checkNextRoundGood ==
    ASSUME NEW S \in Signers, NEW w \in Kernel, Sound(w), Good(S, w)
    PROVE  /\ Good(S, checkNextRoundPrecommitViewShift(w))
           /\ Forward(S, w, checkNextRoundPrecommitViewShift(w))
           /\ Good(S, checkPrevoteViewShift(w))
           /\ Forward(S, w, checkPrevoteViewShift(w))
  <1> DEFINE x == jumpVotingRound(w)
  <1>1. x \in Kernel /\ Good(S, x) /\ Forward(S, w, x)
    BY jumpVotingRoundType, jumpVotingRoundGood
  <1>2. Good(S, w) /\ Forward(S, w, w)
    BY SameDiskForward
  <1> HIDE DEF x
  <1>3. ASSUME NEW y, Quiet(x, y) PROVE Good(S, y) /\ Forward(S, w, y)
    <2>1. Good(S, y)
      BY <1>1, <1>3, QuietGood
    <2> QED BY <1>1, <1>3, <2>1 DEF Quiet, Forward
  <1>4. /\ Quiet(x, Panic(x))
        /\ \A h, proofs : Quiet(x, checkMissingPHs(x, h, proofs))
    BY <1>1, PanicQuiet, checkMissingPHsQuiet
  <1>5. /\ Good(S, Panic(x)) /\ Forward(S, w, Panic(x))
        /\ \A h, proofs : /\ Good(S, checkMissingPHs(x, h, proofs))
                          /\ Forward(S, w, checkMissingPHs(x, h, proofs))
    BY <1>3, <1>4
  <1>6. /\ Good(S, checkNextRoundPrecommitViewShift(w))
        /\ Forward(S, w, checkNextRoundPrecommitViewShift(w))
    BY <1>1, <1>2, <1>5 DEF checkNextRoundPrecommitViewShift, x
  <1>7. Good(S, checkPrevoteViewShift(w)) /\ Forward(S, w, checkPrevoteViewShift(w))
    BY <1>1, <1>2, <1>5 DEF checkPrevoteViewShift, x
  <1> QED BY <1>6, <1>7

\* The shift checks that follow a vote.
LEMMA ShiftAfterVoteGood ==
    ASSUME NEW S \in Signers, NEW w \in Kernel, Sound(w), Good(S, w), NEW kind, NEW id
    PROVE  Good(S, ShiftAfterVote(w, kind, id)) /\ Forward(S, w, ShiftAfterVote(w, kind, id))
  BY checkVotingPrecommitViewShiftGood, checkNextRoundGood, SameDiskForward
     DEF ShiftAfterVote

-----------------------------------------------------------------------------
(* The handlers of the kernel. *)

\* A quiet operation keeps a kernel good and does not go back.
LEMMA QuietFine ==
    ASSUME NEW S \in Signers, NEW w \in Kernel, Good(S, w), NEW x, Quiet(w, x)
    PROVE  Good(S, x) /\ Forward(S, w, x)
  BY QuietGood, SameDiskForward DEF Quiet

\* The votes that a view holds after an update.
MergedProofs(v, kind, u) ==
    [b \in Hashes |-> IF b \in Current(v, kind, u) THEN u.proofs[b] ELSE v.proofs[kind][b]]

\* What merging an update into a view changes.
LEMMA ApplyUpdateContent ==
    ASSUME NEW v \in View, NEW kind \in Kinds, NEW u, NEW x, x = ApplyUpdate(v, kind, u)
    PROVE  /\ x.h = v.h /\ x.r = v.r /\ x.phs = v.phs /\ x.prev = v.prev
           /\ x.proofs = [v.proofs EXCEPT ![kind] = MergedProofs(v, kind, u)]
           /\ x.sum = [v.sum EXCEPT ![kind] = MergedProofs(v, kind, u)]
           /\ x.proofs[kind] = MergedProofs(v, kind, u)
  <1> DEFINE pr == MergedProofs(v, kind, u)
             ver == [h \in Hashes |-> IF h \in Current(v, kind, u) THEN v.ver[kind][h] + 1
                                      ELSE v.ver[kind][h]]
  <1>1. x = [v EXCEPT !.proofs[kind] = pr, !.sum[kind] = pr, !.ver[kind] = ver]
    BY DEF ApplyUpdate, MergedProofs, View
  <1> HIDE DEF pr, ver
  <1> QED BY <1>1 DEF View, pr

\* Merging genuine votes into genuine votes gives genuine votes.
LEMMA MergeGenuine ==
    ASSUME NEW S, NEW k, NEW h, NEW r, NEW a, NEW b, NEW Z,
           Genuine(S, k, h, r, a), Genuine(S, k, h, r, b)
    PROVE  Genuine(S, k, h, r, [x \in Hashes |-> IF x \in Z THEN a[x] ELSE b[x]])
  BY DEF Genuine

\* addPrevote and addPrecommit keep a kernel good and do not go back, if the
\* update they are called with is genuine: also one computed from a view that
\* has changed since.
LEMMA addVoteGood ==
    ASSUME NEW S \in Signers, NEW w \in Kernel, Sound(w), Good(S, w), NEW kind \in Kinds,
           NEW h \in Nat, NEW r \in Nat, NEW u \in Update, h # 0,
           Genuine(S, kind, h, r, u.proofs)
    PROVE  Good(S, addVote(w, kind, h, r, u)) /\ Forward(S, w, addVote(w, kind, h, r, u))
  <1> DEFINE id == FindView(w, h, r)
             v  == GetView(w, id)
             v1 == ApplyUpdate(v, kind, u)
             pr == v1.proofs[kind]
             a  == PutView(w, id, v1)
             x  == MarkViewUpdated(a, id)
             y  == OverwriteRoundProofs(x, kind, h, r, pr)
             w1 == IF Current(v, kind, u) = {} THEN w ELSE y
             w2 == checkMissingPHs(w1, h, pr)
  <1>0. Good(S, Panic(w)) /\ Forward(S, w, Panic(w)) /\ Good(S, w) /\ Forward(S, w, w)
    BY PanicQuiet, QuietItself, QuietFine
  <1>1. CASE id \in FoundIDs
    <2>1. v \in View /\ v1 \in View /\ pr \in Proofs /\ v.h = h /\ v.r = r
      BY <1>1, GetViewType, ApplyUpdateType, FoundPlace DEF Sound
    <2> DEFINE mp == MergedProofs(v, kind, u)
    <2>0. v = GetView(w, id) /\ pr = v1.proofs[kind]
      OBVIOUS
    <2> HIDE DEF id, v, pr
    <2>2. /\ v1.h = h /\ v1.r = r /\ v1.phs = v.phs /\ v1.prev = v.prev
          /\ v1.proofs = [v.proofs EXCEPT ![kind] = pr]
          /\ v1.sum = [v.sum EXCEPT ![kind] = pr]
          /\ pr = mp
      <3>1. v1 = ApplyUpdate(v, kind, u) /\ mp = MergedProofs(v, kind, u)
        OBVIOUS
      <3> HIDE DEF v1, mp
      <3>2. /\ v1.h = v.h /\ v1.r = v.r /\ v1.phs = v.phs /\ v1.prev = v.prev
            /\ v1.proofs = [v.proofs EXCEPT ![kind] = mp]
            /\ v1.sum = [v.sum EXCEPT ![kind] = mp]
            /\ v1.proofs[kind] = mp
        BY <2>1, <3>1, ApplyUpdateContent
      <3> QED BY <2>0, <2>1, <3>2
    <2>3. Genuine(S, kind, h, r, pr)
      <3>1. Genuine(S, kind, h, r, v.proofs[kind])
        BY <1>1, <2>0, <2>1 DEF Good, GoodView, GenuineView
      <3>2. Genuine(S, kind, h, r, mp)
        BY <3>1, MergeGenuine DEF MergedProofs
      <3> QED BY <2>2, <3>2
    <2>4. id # "committing" => v1.sum = v1.proofs
      <3>1. id # "committing" => v.sum = v.proofs
        BY <1>1, <2>0, ViewNames DEF Good, Summed
      <3> QED BY <2>2, <3>1
    <2> HIDE DEF v1
    <2>5. /\ a \in Kernel /\ Keeps(w, a) /\ a.disk = w.disk
      BY <1>1, <2>0, <2>1, <2>2, PutViewType, PutViewKeeps, PutViewEffect DEF Elsewhere
    <2> HIDE DEF a
    <2>6. x \in Kernel /\ Keeps(w, x) /\ x.disk = w.disk
      BY <1>1, <2>5, MarkViewUpdatedType, MarkViewUpdatedKeeps, KeepsBoth,
         MarkViewUpdatedQuiet DEF Quiet
    <2>7. y \in Kernel /\ Keeps(w, y)
      BY <2>1, <2>6, OverwriteRoundProofsType, OverwriteRoundProofsKeeps, KeepsBoth
    <2>8. Records(w, y, id, v1, VotesWritten(w.disk, kind, v1.h, v1.r, pr))
      <3>1. y = Write(x, VotesWritten(w.disk, kind, v1.h, v1.r, pr))
        BY <2>2, <2>6 DEF OverwriteRoundProofs, VotesWritten
      <3> QED BY <1>1, <2>1, <3>1, PutMarkWrite DEF x, a
    <2> HIDE DEF x, y
    <2>9. Good(S, y)
      <3>1. /\ v1.h = GetView(w, id).h /\ v1.r = GetView(w, id).r
            /\ v1.phs = GetView(w, id).phs /\ v1.prev = GetView(w, id).prev
            /\ v1.proofs = [GetView(w, id).proofs EXCEPT ![kind] = pr]
            /\ v1.h # 0 => Genuine(S, kind, v1.h, v1.r, pr)
            /\ v1.r \in Nat
        BY <2>0, <2>1, <2>2, <2>3
      <3> HIDE DEF mp
      <3> QED BY <1>1, <2>1, <2>4, <2>8, <3>1, VotesRecorded
    <2>10. w1 \in Kernel /\ Keeps(w, w1) /\ Good(S, w1)
      BY <2>7, <2>9, KeepsItself
    <2> HIDE DEF w1
    <2>11. w2 \in Kernel /\ Keeps(w, w2) /\ Good(S, w2)
      BY <2>10, checkMissingPHsType, checkMissingPHsKeeps, KeepsBoth,
         checkMissingPHsQuiet, QuietGood
    <2> HIDE DEF w2
    <2>12. Sound(w2) /\ Forward(S, w, w2)
      BY <2>11, KeepsSound, KeepsForward
    <2>13. /\ Good(S, ShiftAfterVote(w2, kind, id)) /\ Forward(S, w2, ShiftAfterVote(w2, kind, id))
           /\ ShiftAfterVote(w2, kind, id) \in Kernel
      BY <2>11, <2>12, ShiftAfterVoteGood, ShiftAfterVoteType
    <2>14. Forward(S, w, ShiftAfterVote(w2, kind, id))
      BY <2>11, <2>12, <2>13, ForwardBoth
    <2> QED BY <1>0, <2>11, <2>12, <2>13, <2>14
            DEF addVote, id, v, v1, pr, a, x, y, w1, w2
  <1>2. CASE id \notin FoundIDs
    BY <1>0, <1>2 DEF addVote
  <1> QED BY <1>1, <1>2

\* Nothing is stored outside the places of the model.
LEMMA VotesNowhere ==
    ASSUME NEW d \in Disk, NEW kind \in Kinds, NEW h, NEW r, NEW proofs, <<h, r>> \notin HR
    PROVE  VotesWritten(d, kind, h, r, proofs) = d
  <1> DEFINE y == <<h, r>>
  <1>1. y \notin HR
    OBVIOUS
  <1> HIDE DEF y
  <1>2. [d EXCEPT !.votes[kind][y] = proofs] = d
    BY <1>1 DEF Disk
  <1> QED BY <1>2 DEF VotesWritten, y

\* Backfilling the precommits of the Committing view keeps a kernel good.
LEMMA BackfillCommittingGood ==
    ASSUME NEW S \in Signers, NEW w \in Kernel, Sound(w), Good(S, w),
           NEW p \in Carriers(S), p.h = w.voting.h
    PROVE  Good(S, BackfillCommitting(w, p))
  <1> DEFINE have  == w.committing.proofs["precommit"]
             extra == IF p.prevR = w.committing.r THEN p.prev ELSE NoProofs
             both  == [h \in Hashes |-> have[h] \cup extra[h]]
             v     == [w.committing EXCEPT !.proofs["precommit"] = both]
             w1    == PutView(w, "committing", v)
             d     == VotesWritten(w.disk, "precommit", p.h - 1, p.prevR, both)
             x     == MarkViewUpdated(Write(w1, d), "committing")
  <1>0. p \in Proposal /\ Genuine(S, "precommit", p.h - 1, p.prevR, p.prev)
    BY DEF Carriers
  <1>1. have \in Proofs /\ both \in Proofs
    <2>1. have \in Proofs
      BY KernelViews DEF View, Kinds
    <2>2. extra \in Proofs
      BY <1>0, NoProofsType DEF Proposal
    <2> QED BY <2>1, <2>2, UnionOfProofs
  <1>2. ASSUME both # have PROVE p.prevR = w.committing.r
    <2>1. extra = NoProofs => both = have
      BY <1>1 DEF NoProofs, Proofs
    <2> QED BY <1>2, <2>1
  <1>3. /\ v \in View /\ v.h = w.committing.h /\ v.r = w.committing.r
        /\ v.phs = w.committing.phs /\ v.prev = w.committing.prev
        /\ v.proofs = [w.committing.proofs EXCEPT !["precommit"] = both]
    <2> HIDE DEF both
    <2> QED BY <1>1, KernelViews DEF View, Kinds
  <1>4. ASSUME both # have
        PROVE  d = VotesWritten(w.disk, "precommit", v.h, v.r, both)
    <2>1. /\ p.h \in Nat /\ w.committing.h \in Nat /\ w.committing.r \in Nat
      BY <1>0, KernelViews, HRType DEF Proposal, View
    <2>2. CASE w.committing.h = p.h - 1
      BY <1>2, <1>3, <1>4, <2>2
    <2>3. CASE w.committing.h # p.h - 1
      <3>1. w.committing.h = 0 /\ p.h = InitialHeight
        BY <2>3 DEF Sound, Aligned, Consecutive
      <3>2. <<p.h - 1, p.prevR>> \notin HR /\ <<v.h, v.r>> \notin HR
        BY <1>3, <3>1, BoundsAssumption DEF HR, Heights
      <3> QED BY <3>2, KernelDisk, VotesNowhere DEF Kinds
    <2> QED BY <2>2, <2>3
  <1>5. ASSUME both # have, v.h # 0 PROVE Genuine(S, "precommit", v.h, v.r, both)
    <2>1. w.committing.h = p.h - 1
      BY <1>3, <1>5 DEF Sound, Aligned, Consecutive
    <2>2. Genuine(S, "precommit", v.h, v.r, have)
      BY <1>3, <1>5, ViewNames DEF Good, GoodView, GenuineView, Kinds
    <2>3. Genuine(S, "precommit", v.h, v.r, p.prev) /\ extra = p.prev
      BY <1>0, <1>2, <1>3, <1>5, <2>1
    <2> HIDE DEF have, extra
    <2> QED BY <2>2, <2>3, UnionGenuine
  <1>6. /\ w1 = [w EXCEPT !.committing.proofs["precommit"] = both]
        /\ w1.disk = w.disk
    <2>1. w1 = [w EXCEPT !.committing = v]
      BY DEF PutView
    <2> HIDE DEF both
    <2>2. [w EXCEPT !.committing = v] = [w EXCEPT !.committing.proofs["precommit"] = both]
      BY DEF Kernel
    <2>3. w1.disk = w.disk
      BY PutViewEffect DEF FoundIDs, Elsewhere
    <2> QED BY <2>1, <2>2, <2>3
  <1>7. x = MarkCommittingViewUpdated(
              OverwriteRoundProofs([w EXCEPT !.committing.proofs["precommit"] = both],
                                   "precommit", p.h - 1, p.prevR, both))
    BY <1>6 DEF MarkViewUpdated, OverwriteRoundProofs, VotesWritten
  <1>8. ASSUME both # have PROVE Good(S, x)
    <2>1. d \in Disk
      <3>1. OverwriteRoundProofs(w, "precommit", p.h - 1, p.prevR, both) \in Kernel
        BY <1>1, OverwriteRoundProofsType DEF Kinds
      <3>2. OverwriteRoundProofs(w, "precommit", p.h - 1, p.prevR, both).disk = d
        BY WriteEffect DEF OverwriteRoundProofs, VotesWritten
      <3> QED BY <3>1, <3>2, KernelDisk
    <2> HIDE DEF both, v, d
    <2>2. Records(w, x, "committing", v, d)
      BY <1>3, <2>1, PutWriteMark DEF FoundIDs, w1
    <2> HIDE DEF x
    <2>3. Records(w, x, "committing", v, VotesWritten(w.disk, "precommit", v.h, v.r, both))
      BY <1>4, <1>8, <2>2
    <2>4. v.h # 0 => Genuine(S, "precommit", v.h, v.r, both)
      BY <1>5, <1>8
    <2>5. GetView(w, "committing") = w.committing /\ "committing" \in FoundIDs
          /\ "precommit" \in Kinds /\ v.r \in Nat
      BY <1>3, ViewNames DEF Kinds, View
    <2> QED BY <1>1, <1>3, <2>3, <2>4, <2>5, VotesRecorded
  <1>9. Good(S, Panic(w))
    BY PanicQuiet, QuietGood
  <1> HIDE DEF x
  <1> QED BY <1>7, <1>8, <1>9 DEF BackfillCommitting, have, extra, both

\* A stored header gives a disk image.
LEMMA HeaderWrittenType ==
    ASSUME NEW d \in Disk, NEW h, NEW r, NEW ph \in HeldPH
    PROVE  HeaderWritten(d, h, r, ph) \in Disk
  <1> DEFINE y == <<h, r>>
  <1> HIDE DEF y
  <1>1. [d EXCEPT !.phs[y] = @ \cup {ph}] \in Disk
    BY DEF Disk
  <1> QED BY <1>1 DEF y, HeaderWritten

\* The header of proposal p is on disk for its round.
Held(d, p) == [hash |-> p.hash, by |-> p.by] \in d.phs[<<p.h, p.r>>]

\* addProposedHeader keeps a kernel good and does not go back; a header for a
\* round with a view is stored.
LEMMA addProposedHeaderGood ==
    ASSUME NEW S \in Signers, NEW w \in Kernel, Sound(w), Good(S, w), NEW p \in Proposal,
           p.by \in S[<<"ph", p.h, p.r, p.hash>>], p.h = w.voting.h => p \in Carriers(S)
    PROVE  /\ Good(S, addProposedHeader(w, p)) /\ Forward(S, w, addProposedHeader(w, p))
           /\ ReplaysNear /\ FindView(w, p.h, p.r) \in FoundIDs
                => Held(addProposedHeader(w, p).disk, p)
  <1> DEFINE w1 == [w EXCEPT !.inFlight = @ \ {<<p.h, p.hash>>}]
             id == FindView(w1, p.h, p.r)
             v  == GetView(w1, id)
             ph == [hash |-> p.hash, by |-> p.by]
             v1 == [v EXCEPT !.phs = @ \cup {ph}]
             a  == PutView(w1, id, v1)
             x  == SaveRoundProposedHeader(a, p.h, p.r, ph)
             w2 == MarkViewUpdated(x, id)
             b  == SetLagUpToDate(w2)
             w3 == BackfillCommitting(b, p)
  <1>1. w1 \in Kernel /\ Keeps(w, w1) /\ Quiet(w, w1)
    <2>1. w1 \in Kernel
      BY DEF Kernel
    <2>2. Keeps(w, w1)
      BY DEF Kernel, Keeps, SamePlaces, SameRecords
    <2>3. w1 = [w EXCEPT !.inFlight = w.inFlight \ {<<p.h, p.hash>>}]
      BY DEF Kernel
    <2>4. Quiet(w, w1)
      BY <2>3, OutsideQuiet
    <2> QED BY <2>1, <2>2, <2>4
  <1>2. ph \in HeldPH /\ ph.by # NoProposer /\ ph.by \in S[<<"ph", p.h, p.r, ph.hash>>]
    BY BoundsAssumption DEF Proposal, HeldPH
  <1> HIDE DEF w1, ph
  <1>3. /\ Sound(w1) /\ Good(S, w1) /\ Forward(S, w, w1)
        /\ Good(S, Panic(w1)) /\ Forward(S, w, Panic(w1))
    <2>1. Sound(w1) /\ Good(S, w1) /\ Forward(S, w, w1)
      BY <1>1, KeepsSound, QuietGood, KeepsForward
    <2>2. Good(S, Panic(w1)) /\ Forward(S, w1, Panic(w1)) /\ Panic(w1) \in Kernel
      BY <1>1, <2>1, PanicQuiet, QuietFine, PanicType
    <2> QED BY <1>1, <2>1, <2>2, ForwardBoth
  <1>4. <<p.h, p.r>> \in HR
    BY PlaceInHR DEF Proposal
  <1>5. CASE id \in FoundIDs
    <2>1. v \in View /\ v.h = p.h /\ v.r = p.r
      BY <1>1, <1>3, <1>5, GetViewType, FoundPlace DEF Sound
    <2>2. v = GetView(w1, id)
      OBVIOUS
    <2>3. /\ v1 \in View /\ v1.h = v.h /\ v1.r = v.r /\ v1.phs = v.phs \cup {ph}
          /\ v1.proofs = v.proofs /\ v1.sum = v.sum /\ v1.prev = v.prev
      <3> HIDE DEF v
      <3> QED BY <2>1, <1>2 DEF View
    <2> HIDE DEF id, v, v1
    <2>4. ph \in v.phs /\ ReplaysNear => Held(w1.disk, p)
      BY <1>2, <1>3, <1>5, <2>2, <2>1, <1>4 DEF Good, GoodView, MirroredView, Held, ph
    <2>5. a \in Kernel /\ Keeps(w1, a) /\ a.disk = w1.disk
      BY <1>1, <1>5, <2>2, <2>3, PutViewType, PutViewKeeps, PutViewEffect DEF Elsewhere
    <2>6. x \in Kernel /\ Keeps(w1, x)
      <3> HIDE DEF a
      <3> QED BY <1>2, <2>5, SaveRoundProposedHeaderType, SaveRoundProposedHeaderKeeps,
              KeepsBoth
    <2>7. w2 \in Kernel /\ Keeps(w1, w2)
      <3> HIDE DEF x
      <3> QED BY <1>5, <2>6, MarkViewUpdatedType, MarkViewUpdatedKeeps, KeepsBoth
    <2>8. Good(S, w2) /\ Held(w2.disk, p)
      <3> DEFINE e == HeaderWritten(w1.disk, p.h, p.r, ph)
      <3>1. x = Write(a, e)
        BY <2>5 DEF SaveRoundProposedHeader, HeaderWritten
      <3>2. e \in Disk
        BY <1>1, <1>2, KernelDisk, HeaderWrittenType
      <3>3. HeaderStored(w1.disk, e, p.h, p.r, ph)
        BY <1>1, <1>2, KernelDisk, HeaderOnDisk
      <3> HIDE DEF e
      <3>4. Records(w1, w2, id, v1, e)
        BY <1>1, <1>5, <2>3, <3>1, <3>2, PutWriteMark DEF a
      <3> HIDE DEF w2
      <3>5. HeaderStored(w1.disk, e, v1.h, v1.r, ph)
        BY <2>1, <2>3, <3>3
      <3>6. /\ v1.h = GetView(w1, id).h /\ v1.r = GetView(w1, id).r
            /\ v1.phs = GetView(w1, id).phs \cup {ph} /\ v1.prev = GetView(w1, id).prev
            /\ v1.proofs = GetView(w1, id).proofs /\ v1.sum = GetView(w1, id).sum
            /\ ph.by \in S[<<"ph", v1.h, v1.r, ph.hash>>]
        BY <1>2, <2>2, <2>1, <2>3
      <3>7. Good(S, w2)
        BY <1>1, <1>3, <1>5, <2>3, <3>4, <3>5, <3>6, HeaderRecorded
      <3>8. Held(w2.disk, p)
        BY <1>2, <1>4, <3>3, <3>4 DEF Records, HeaderStored, Held, ph
      <3> QED BY <3>7, <3>8
    <2> HIDE DEF w2
    <2>9. b \in Kernel /\ Keeps(w1, b) /\ Good(S, b) /\ Keeps(w2, b)
      BY <2>7, <2>8, SetLagUpToDateType, SetLagUpToDateKeeps, KeepsBoth,
         SetLagUpToDateQuiet, QuietGood
    <2> HIDE DEF b
    <2>10. w3 \in Kernel /\ Keeps(w1, w3) /\ Keeps(w2, w3)
      BY <2>9, BackfillCommittingType, BackfillCommittingKeeps, KeepsBoth
    <2>11. id # "committing" => Good(S, w3)
      <3>1. Sound(b)
        BY <1>3, <2>9, KeepsSound
      <3>2. id # "committing" => p.h = w1.voting.h
        BY <1>3, <1>5, <2>2, <2>1, ViewNames DEF Sound, Aligned
      <3>3. b.voting.h = w1.voting.h
        BY <2>9 DEF Keeps, SamePlaces
      <3>4. w1.voting.h = w.voting.h
        BY <1>1 DEF Keeps, SamePlaces
      <3> QED BY <2>9, <3>1, <3>2, <3>3, <3>4, BackfillCommittingGood
    <2> HIDE DEF w3
    <2>12. Sound(w3) /\ Forward(S, w1, w2) /\ Forward(S, w1, w3)
      BY <1>1, <1>3, <2>7, <2>10, KeepsSound, KeepsForward
    <2>13. Forward(S, w, w2) /\ Forward(S, w, w3)
      BY <1>1, <1>3, <2>7, <2>10, <2>12, ForwardBoth
    <2>14. Held(w3.disk, p)
      BY <1>4, <2>8, <2>10 DEF Keeps, SameRecords, Held
    <2>15. ASSUME id # "committing"
           PROVE  /\ Good(S, checkVotingPrecommitViewShift(w3))
                  /\ Forward(S, w, checkVotingPrecommitViewShift(w3))
                  /\ Held(checkVotingPrecommitViewShift(w3).disk, p)
      <3>1. /\ Good(S, checkVotingPrecommitViewShift(w3))
            /\ Forward(S, w3, checkVotingPrecommitViewShift(w3))
            /\ checkVotingPrecommitViewShift(w3) \in Kernel
        BY <2>10, <2>11, <2>12, <2>15, checkVotingPrecommitViewShiftGood,
           checkVotingPrecommitViewShiftType
      <3>2. Forward(S, w, checkVotingPrecommitViewShift(w3))
        BY <2>10, <2>13, <3>1, ForwardBoth
      <3>3. Held(checkVotingPrecommitViewShift(w3).disk, p)
        <4>1. Extends(S, w3.disk, checkVotingPrecommitViewShift(w3).disk)
          BY <3>1 DEF Forward
        <4> QED BY <1>4, <2>14, <4>1 DEF Extends, Held
      <3> QED BY <3>1, <3>2, <3>3
    <2>16. addProposedHeader(w, p) \in
             (IF ph \in v.phs THEN {w1} ELSE {w2}) \cup
             (IF id = "committing" THEN {} ELSE {w3, checkVotingPrecommitViewShift(w3)})
      BY <1>5 DEF addProposedHeader, FoundIDs, w1, id, v, ph, v1, a, x, w2, b, w3
    <2> QED BY <1>3, <2>4, <2>8, <2>11, <2>13, <2>14, <2>15, <2>16
  <1>6. CASE id \notin FoundIDs
    <2>1. FindView(w, p.h, p.r) \notin FoundIDs
      BY <1>1, <1>6 DEF FindView, Keeps, SamePlaces
    <2>2. addProposedHeader(w, p) \in {Panic(w1), w1}
      BY <1>6 DEF addProposedHeader, w1
    <2> QED BY <1>3, <2>1, <2>2
  <1> QED BY <1>5, <1>6

\* A round entrance of the state machine keeps a kernel good.
LEMMA handleStateMachineRoundEntranceGood ==
    ASSUME NEW S \in Signers, NEW w \in Kernel, Good(S, w), NEW h \in Nat, NEW r \in Nat,
           <<h, r>> \in SMRounds
    PROVE  /\ Good(S, handleStateMachineRoundEntrance(w, h, r))
           /\ Forward(S, w, handleStateMachineRoundEntrance(w, h, r))
  <1> DEFINE s == [w.sm EXCEPT !.h = h, !.r = r, !.live = TRUE, !.closed = FALSE,
                               !.sent = 0, !.jump = ZeroView]
             w1 == [w EXCEPT !.sm = s]
  <1>1. w1 \in Kernel
    BY ZeroViewType DEF Kernel
  <1>2. s.h = h /\ s.r = r /\ s.out = w.sm.out
    BY DEF Kernel
  <1>3. w1 = [w EXCEPT !.sm = [@ EXCEPT !.h = h, !.r = r, !.live = TRUE,
                                        !.closed = FALSE, !.sent = 0,
                                        !.jump = ZeroView]]
    BY DEF Kernel
  <1> HIDE DEF s
  <1>4. /\ w1.sm = s /\ w1.disk = w.disk /\ w1.torn = w.torn /\ w1.voting = w.voting
        /\ w1.nextRound = w.nextRound /\ w1.committing = w.committing
    BY DEF Kernel
  <1> HIDE DEF w1
  <1>5. Good(S, w1) /\ Forward(S, w, w1)
    <2>1. \A id \in FoundIDs : GetView(w1, id) = GetView(w, id)
      BY <1>4, ViewNames
    <2>2. Summed(w1) /\ Entered(w1)
      BY <1>2, <1>4 DEF Good, Summed, Entered
    <2> QED BY <1>2, <1>4, <2>1, <2>2, SameDiskForward DEF Good
  <1>6. ASSUME NEW x, Quiet(w1, x) PROVE Good(S, x) /\ Forward(S, w, x)
    BY <1>4, <1>5, <1>6, QuietGood, SameDiskForward DEF Quiet
  <1>7. ASSUME NEW n PROVE Quiet(w1, [w1 EXCEPT !.sm.sent = n])
    <2> DEFINE x == [w1 EXCEPT !.sm.sent = n]
    <2>1. /\ x.disk = w1.disk /\ x.torn = w1.torn /\ x.voting = w1.voting
          /\ x.nextRound = w1.nextRound /\ x.committing = w1.committing
      BY <1>1 DEF Kernel
    <2>2. SameEntrance(w1, x) /\ x.sm.out = w1.sm.out
      BY <1>1 DEF Kernel, SameEntrance
    <2> HIDE DEF x
    <2>3. Quiet(w1, x)
      BY <2>1, <2>2, SameViewsQuiet
    <2> QED BY <2>3 DEF x
  <1>8. Quiet(w1, Panic(w1))
    BY <1>1, PanicQuiet
  <1>9. \A n : /\ Good(S, [w1 EXCEPT !.sm.sent = n])
               /\ Forward(S, w, [w1 EXCEPT !.sm.sent = n])
    BY <1>6, <1>7
  <1>10. Good(S, Panic(w1)) /\ Forward(S, w, Panic(w1))
    BY <1>6, <1>8
  <1> QED BY <1>3, <1>5, <1>9, <1>10 DEF handleStateMachineRoundEntrance

\* A vote of the state machine keeps a kernel good and does not go back.
LEMMA handleStateMachineVoteGood ==
    ASSUME NEW S \in Signers, NEW w \in Kernel, Sound(w), Good(S, w), w.sm.live,
           NEW kind \in Kinds, NEW hash \in Hashes, OwnKey \in S[<<kind, w.sm.h, w.sm.r, hash>>]
    PROVE  /\ Good(S, handleStateMachineVote(w, kind, hash, OwnKey))
           /\ Forward(S, w, handleStateMachineVote(w, kind, hash, OwnKey))
  <1> DEFINE id == FindView(w, w.sm.h, w.sm.r)
             v  == GetView(w, id)
             u  == [dom |-> {hash}, ver |-> v.ver[kind],
                    proofs |-> [v.proofs[kind] EXCEPT ![hash] = @ \cup {OwnKey}]]
  <1>1. /\ w.sm.h \in Nat /\ w.sm.r \in Nat /\ <<w.sm.h, w.sm.r>> \in SMRounds
        /\ w.sm.h # 0 /\ kind \in Kinds /\ hash \in Hashes /\ OwnKey \in Val
    <2>1. <<w.sm.h, w.sm.r>> \in SMRounds
      BY DEF Good, Entered
    <2>2. w.sm.h \in Heights
      BY <2>1, InputAssumption, HRType
    <2> QED BY <2>1, <2>2, InputAssumption, BoundsAssumption DEF Kernel, Heights
  <1>2. Good(S, Panic(w)) /\ Forward(S, w, Panic(w)) /\ Forward(S, w, w)
    BY PanicQuiet, QuietFine, QuietItself
  <1>3. CASE id \in {"voting", "committing"}
    <2>1. v \in View /\ v.h = w.sm.h /\ v.r = w.sm.r
      BY <1>3, GetViewType, FoundPlace DEF FoundIDs, Sound
    <2>2. Genuine(S, kind, w.sm.h, w.sm.r, v.proofs[kind])
      BY <1>1, <1>3, <2>1 DEF Good, GoodView, GenuineView, FoundIDs
    <2> HIDE DEF v
    <2>3. u \in Update
      BY <1>1, <2>1 DEF View, Update, Proofs
    <2>4. Genuine(S, kind, w.sm.h, w.sm.r, u.proofs)
      <3>1. v.proofs[kind] \in [Hashes -> SUBSET Val]
        BY <1>1, <2>1 DEF View, Proofs
      <3> QED BY <2>2, <3>1 DEF Genuine
    <2> HIDE DEF u
    <2>5. /\ Good(S, addVote(w, kind, w.sm.h, w.sm.r, u))
          /\ Forward(S, w, addVote(w, kind, w.sm.h, w.sm.r, u))
      BY <1>1, <2>3, <2>4, addVoteGood
    <2> QED BY <1>2, <1>3, <2>5 DEF handleStateMachineVote, u, v
  <1>4. CASE id \notin {"voting", "committing"}
    BY <1>2, <1>4 DEF handleStateMachineVote
  <1> QED BY <1>3, <1>4

\* Where a replayed header is applied.
LEMMA ReachReplayedRoundGood ==
    ASSUME NEW S \in Signers, NEW w \in Kernel, Sound(w), Good(S, w), NEW c \in ReplayedHeaders
    PROVE  /\ ReachReplayedRound(w, c) \in Kernel
           /\ Sound(ReachReplayedRound(w, c)) /\ Good(S, ReachReplayedRound(w, c))
           /\ Forward(S, w, ReachReplayedRound(w, c))
           /\ ReachReplayedRound(w, c).voting.h = w.voting.h
           /\ ReplaysNear /\ ~(c.r < w.voting.r)
                => ReachReplayedRound(w, c).voting.r = c.r
  <1> DEFINE x == jumpVotingRound(w)
  <1>1. /\ x \in Kernel /\ Sound(x) /\ Good(S, x) /\ Forward(S, w, x)
        /\ x.voting.h = w.voting.h /\ x.voting.r = w.voting.r + 1
    BY jumpVotingRoundType, jumpVotingRoundSound, jumpVotingRoundGood
  <1>2. Forward(S, w, w)
    BY SameDiskForward
  <1>3. c.r \in Nat /\ w.voting.r \in Nat
    BY InputAssumption, HRType, KernelViews DEF ReplayedHeader, View
  <1>4. ASSUME ReplaysNear PROVE c.r <= 1
    BY <1>4 DEF ReplaysNear
  <1>5. ReachReplayedRound(w, c) = IF c.r > w.voting.r THEN x ELSE w
    BY DEF ReachReplayedRound
  <1> HIDE DEF x
  <1>6. CASE c.r > w.voting.r
    <2>1. ReachReplayedRound(w, c) = x
      BY <1>5, <1>6
    <2>2. ReplaysNear => x.voting.r = c.r
      BY <1>1, <1>3, <1>4, <1>6
    <2> QED BY <1>1, <2>1, <2>2
  <1>7. CASE ~(c.r > w.voting.r)
    <2>1. ReachReplayedRound(w, c) = w
      BY <1>5, <1>7
    <2>2. ~(c.r < w.voting.r) => w.voting.r = c.r
      BY <1>3, <1>7
    <2> QED BY <1>2, <2>1, <2>2
  <1> QED BY <1>6, <1>7

\* Holding a replayed header in the Voting view keeps a kernel good.
LEMMA ReplayedHeaderHeld ==
    ASSUME NEW S \in Signers, NEW w \in Kernel, Sound(w), Good(S, w), NEW h, NEW b \in Blocks
    PROVE  LET x == [SaveRoundReplayedHeader(w, h, b) EXCEPT
                       !.voting.phs = @ \cup {[hash |-> b, by |-> NoProposer]}]
           IN x \in Kernel /\ Keeps(w, x) /\ Good(S, x)
  <1> DEFINE ph == [hash |-> b, by |-> NoProposer]
             y == SaveRoundReplayedHeader(w, h, b)
             v == [y.voting EXCEPT !.phs = @ \cup {ph}]
             x == [y EXCEPT !.voting = v]
             e == [w.disk EXCEPT !.replayed[h] = @ \cup {b}]
  <1>1. y \in Kernel /\ Keeps(w, y)
    BY SaveRoundReplayedHeaderType, SaveRoundReplayedHeaderKeeps
  <1>2. ph \in HeldPH /\ ph.by = NoProposer
    BY DEF HeldPH
  <1>3. /\ y.disk = e /\ y.torn = w.torn \cup {w.disk} /\ SameEntrance(w, y)
        /\ y.voting = w.voting /\ y.nextRound = w.nextRound /\ y.committing = w.committing
        /\ y.sm = w.sm
    BY WriteEffect, ViewNames DEF SaveRoundReplayedHeader
  <1>4. e.nhr = w.disk.nhr /\ e.votes = w.disk.votes /\ e.headers = w.disk.headers
        /\ e.phs = w.disk.phs
    BY KernelDisk DEF Disk
  <1>5. x = [y EXCEPT !.voting.phs = @ \cup {ph}]
    BY <1>1 DEF Kernel
  <1> HIDE DEF ph, y, e
  <1>6. x \in Kernel /\ Keeps(y, x)
    BY <1>1, <1>2, <1>5, HoldHeaderKeeps
  <1>7. /\ v \in View /\ v.h = w.voting.h /\ v.r = w.voting.r
        /\ v.phs = w.voting.phs \cup {ph} /\ v.prev = w.voting.prev
        /\ v.proofs = w.voting.proofs /\ v.sum = w.voting.sum
    BY <1>1, <1>2, <1>3, KernelViews DEF View
  <1> HIDE DEF v
  <1>8. /\ x.voting = v /\ x.nextRound = w.nextRound /\ x.committing = w.committing
        /\ x.disk = e /\ x.torn = w.torn \cup {w.disk} /\ x.sm = y.sm
    BY <1>1, <1>3 DEF Kernel
  <1> HIDE DEF x
  <1>9. Records(w, x, "voting", v, e)
    <2>1. SameEntrance(w, x)
      BY <1>3, <1>8 DEF SameEntrance
    <2>2. SameContent(v, GetView(x, "voting"))
      BY <1>8, ViewNames, ContentItself
    <2>3. \A j \in FoundIDs \ {"voting"} : SameContent(GetView(w, j), GetView(x, j))
      BY <1>8, ViewNames, ContentItself
    <2>4. HandsOn(w, x)
      BY <1>3, <1>8 DEF HandsOn, Alike
    <2> QED BY <1>8, <2>1, <2>2, <2>3, <2>4 DEF Records
  <1>10. HeaderStored(w.disk, e, v.h, v.r, ph)
    BY <1>2, <1>4 DEF HeaderStored
  <1>11. "voting" \in FoundIDs /\ GetView(w, "voting") = w.voting
    BY ViewNames
  <1>12. Good(S, x)
    BY <1>2, <1>7, <1>9, <1>10, <1>11, HeaderRecorded
  <1>13. Keeps(w, x)
    BY <1>1, <1>6, KeepsBoth
  <1> QED BY <1>5, <1>6, <1>12, <1>13 DEF ph, y

\* A replayed header keeps a kernel good and does not go back.
LEMMA handleReplayedHeaderGood ==
    ASSUME NEW S \in Signers, NEW w \in Kernel, Sound(w), Good(S, w),
           NEW c \in ReplayedHeaders, Genuine(S, "precommit", c.h, c.r, c.proofs)
    PROVE  Good(S, handleReplayedHeader(w, c)) /\ Forward(S, w, handleReplayedHeader(w, c))
  <1> DEFINE w1 == ReachReplayedRound(w, c)
             known == \E p \in w1.voting.phs : p.hash = c.hash
             held == [SaveRoundReplayedHeader(w1, c.h, c.hash) EXCEPT
                        !.voting.phs = @ \cup {[hash |-> c.hash, by |-> NoProposer]}]
             w2 == IF known THEN w1 ELSE held
             both == [h \in Hashes |-> w2.voting.proofs["precommit"][h] \cup c.proofs[h]]
             v == [w2.voting EXCEPT !.proofs["precommit"] = both,
                                    !.sum["precommit"] = both]
             x == [w2 EXCEPT !.voting = v]
             w3 == OverwriteRoundProofs(x, "precommit", c.h, c.r, both)
  <1>0. Good(S, Panic(w)) /\ Forward(S, w, Panic(w)) /\ Forward(S, w, w)
    BY PanicQuiet, QuietFine, QuietItself
  <1>1. CASE c.h # w.voting.h \/ c.r < w.voting.r
    BY <1>0, <1>1 DEF handleReplayedHeader
  <1>2. CASE ~(c.h # w.voting.h \/ c.r < w.voting.r)
    <2>0. c \in ReplayedHeader /\ c.hash \in Blocks /\ c.h \in Nat /\ c.r \in Nat
      BY InputAssumption, HRType DEF ReplayedHeader
    <2>1. /\ w1 \in Kernel /\ Sound(w1) /\ Good(S, w1) /\ Forward(S, w, w1)
          /\ w1.voting.h = c.h /\ (ReplaysNear => w1.voting.r = c.r)
      BY <1>2, ReachReplayedRoundGood
    <2> HIDE DEF w1
    <2>2. Good(S, Panic(w1)) /\ Forward(S, w, Panic(w1))
      <3>1. Good(S, Panic(w1)) /\ Forward(S, w1, Panic(w1)) /\ Panic(w1) \in Kernel
        BY <2>1, PanicQuiet, QuietFine, PanicType
      <3> QED BY <2>1, <3>1, ForwardBoth
    <2>3. w2 \in Kernel /\ Keeps(w1, w2) /\ Good(S, w2)
      <3>1. held \in Kernel /\ Keeps(w1, held) /\ Good(S, held)
        BY <2>0, <2>1, ReplayedHeaderHeld
      <3> HIDE DEF held
      <3> QED BY <2>1, <3>1, KeepsItself
    <2> HIDE DEF w2
    <2>4. Sound(w2) /\ Forward(S, w, w2) /\ w2.voting.h = c.h
          /\ (ReplaysNear => w2.voting.r = c.r)
      <3>1. Sound(w2) /\ Forward(S, w1, w2)
        BY <2>1, <2>3, KeepsSound, KeepsForward
      <3> QED BY <2>1, <2>3, <3>1, ForwardBoth DEF Keeps, SamePlaces
    <2>5. both \in Proofs
      <3>1. w2.voting.proofs["precommit"] \in Proofs
        BY <2>3, KernelViews DEF View, Kinds
      <3>2. c.proofs \in Proofs
        BY <2>0 DEF ReplayedHeader
      <3> QED BY <3>1, <3>2, UnionOfProofs
    <2>6. Genuine(S, "precommit", c.h, w2.voting.r, both)
      <3>1. Genuine(S, "precommit", c.h, w2.voting.r, w2.voting.proofs["precommit"])
        <4>1. GenuineView(S, w2.voting) /\ w2.voting.h # 0
          BY <2>3, <2>4, ViewNames, PlacesDiffer DEF Good, GoodView
        <4> QED BY <2>4, <4>1 DEF GenuineView, Kinds
      <3>2. Genuine(S, "precommit", c.h, w2.voting.r, c.proofs)
        <4>1. w2.voting.r \in Nat
          BY <2>3, KernelViews DEF View
        <4> QED BY <2>0, <2>4, <4>1, GenuineElsewhere DEF Kinds
      <3> QED BY <3>1, <3>2, UnionGenuine
    <2> HIDE DEF both
    <2>7. /\ v \in View /\ v.h = c.h /\ v.r = w2.voting.r /\ v.phs = w2.voting.phs
          /\ v.prev = w2.voting.prev
          /\ v.proofs = [w2.voting.proofs EXCEPT !["precommit"] = both]
          /\ v.sum = [w2.voting.sum EXCEPT !["precommit"] = both]
      BY <2>3, <2>4, <2>5, KernelViews DEF View, Kinds
    <2> HIDE DEF v
    <2>8. /\ x \in Kernel /\ x.voting = v /\ x.nextRound = w2.nextRound
          /\ x.committing = w2.committing /\ x.disk = w2.disk /\ x.torn = w2.torn
          /\ x.sm = w2.sm
      BY <2>3, <2>7 DEF Kernel
    <2> HIDE DEF x
    <2>9. w3 \in Kernel /\ Keeps(w2, w3)
      <3>1. Keeps(w2, x)
        BY <2>4, <2>7, <2>8 DEF Keeps, SamePlaces, SameRecords
      <3>2. w3 \in Kernel /\ Keeps(x, w3)
        BY <2>5, <2>8, OverwriteRoundProofsType, OverwriteRoundProofsKeeps DEF Kinds
      <3> HIDE DEF w3
      <3> QED BY <3>1, <3>2, KeepsBoth
    <2>10. Good(S, w3)
      <3> DEFINE e == VotesWritten(w2.disk, "precommit", v.h, c.r, both)
      <3>1. w3 = Write(x, e)
        BY <2>7, <2>8 DEF OverwriteRoundProofs, VotesWritten
      <3> HIDE DEF e
      <3>2. /\ w3.disk = e /\ w3.torn = w2.torn \cup {w2.disk} /\ SameEntrance(x, w3)
            /\ w3.voting = v /\ w3.nextRound = w2.nextRound
            /\ w3.committing = w2.committing /\ w3.sm = w2.sm
        BY <2>8, <3>1, WriteEffect, ViewNames
      <3> HIDE DEF w3
      <3>3. Records(w2, w3, "voting", v, e)
        <4>1. SameEntrance(w2, w3)
          BY <2>8, <3>2 DEF SameEntrance
        <4>2. SameContent(v, GetView(w3, "voting"))
          BY <3>2, ViewNames, ContentItself
        <4>3. \A j \in FoundIDs \ {"voting"} : SameContent(GetView(w2, j), GetView(w3, j))
          BY <3>2, ViewNames, ContentItself
        <4>4. HandsOn(w2, w3)
          BY <3>2 DEF HandsOn, Alike
        <4> QED BY <3>2, <4>1, <4>2, <4>3, <4>4 DEF Records
      <3>4. v.sum = v.proofs
        BY <2>3, <2>7 DEF Good, Summed
      <3>5. "voting" \in FoundIDs /\ GetView(w2, "voting") = w2.voting
            /\ "precommit" \in Kinds
        BY ViewNames DEF Kinds
      <3>6. /\ v.h = GetView(w2, "voting").h /\ v.r = GetView(w2, "voting").r
            /\ v.phs = GetView(w2, "voting").phs /\ v.prev = GetView(w2, "voting").prev
            /\ v.proofs = [GetView(w2, "voting").proofs EXCEPT !["precommit"] = both]
            /\ v.h # 0 => Genuine(S, "precommit", v.h, v.r, both)
            /\ ReplaysNear => c.r = v.r
            /\ c.r \in Nat
        BY <2>0, <2>4, <2>6, <2>7, <3>5
      <3> QED BY <2>3, <2>4, <2>5, <2>7, <3>3, <3>4, <3>5, <3>6, VotesRecorded DEF e
    <2> HIDE DEF w3
    <2>11. Sound(w3) /\ Forward(S, w, w3)
      <3>1. Sound(w3) /\ Forward(S, w2, w3)
        BY <2>3, <2>4, <2>9, KeepsSound, KeepsForward
      <3> QED BY <2>3, <2>4, <2>9, <3>1, ForwardBoth
    <2>12. /\ Good(S, checkVotingPrecommitViewShift(w3))
           /\ Forward(S, w, checkVotingPrecommitViewShift(w3))
      <3>1. /\ Good(S, checkVotingPrecommitViewShift(w3))
            /\ Forward(S, w3, checkVotingPrecommitViewShift(w3))
            /\ checkVotingPrecommitViewShift(w3) \in Kernel
        BY <2>9, <2>10, <2>11, checkVotingPrecommitViewShiftGood,
           checkVotingPrecommitViewShiftType
      <3> QED BY <2>9, <2>11, <3>1, ForwardBoth
    <2>13. handleReplayedHeader(w, c) \in
             {w, Panic(w), w1, Panic(w1), w2, checkVotingPrecommitViewShift(w3)}
      BY DEF handleReplayedHeader, w1, known, held, w2, both, v, x, w3
    <2> QED BY <1>0, <2>1, <2>2, <2>3, <2>4, <2>12, <2>13
  <1> QED BY <1>1, <1>2

-----------------------------------------------------------------------------
(* Starting. *)

\* The zero view is of no place, so nothing about it can be wrong.
LEMMA ZeroViewGood == ASSUME NEW S \in Signers, NEW d PROVE GoodView(S, d, ZeroView)
  <1>1. ZeroView.h = 0 /\ ZeroView.r = 0
    BY DEF ZeroView
  <1>2. <<0, 0>> \notin HR
    BY BoundsAssumption DEF HR, Heights
  <1> HIDE DEF ZeroView
  <1> QED BY <1>1, <1>2 DEF GoodView, GenuineView, HandedOn, MirroredView

\* The headers that LoadRoundState returns are the stored proposed ones, and
\* replayed ones.
LEMMA LoadedHeaders ==
    ASSUME NEW d, NEW h \in Heights, NEW r \in Rounds, MirroredDisk(d)
    PROVE  {p \in LoadedPHs(d, h, r) : p.by # NoProposer} = d.phs[<<h, r>>]
  <1> DEFINE old == {[hash |-> b, by |-> NoProposer] :
                       b \in {b \in d.replayed[h] : d.votes["precommit"][<<h, r>>][b] # {}}}
             new == d.phs[<<h, r>>]
  <1>1. \A p \in old : p.by = NoProposer
    OBVIOUS
  <1>2. \A p \in new : p.by # NoProposer
    BY DEF MirroredDisk
  <1>3. LoadedPHs(d, h, r) = new \cup old
    BY DEF LoadedPHs
  <1> HIDE DEF old, new
  <1>4. {p \in new \cup old : p.by # NoProposer} = new
    BY <1>1, <1>2
  <1> QED BY <1>3, <1>4 DEF new

\* A loaded view is good: it holds what is stored for its place.
LEMMA loadInitialViewGood ==
    ASSUME NEW S \in Signers, NEW d \in Disk, GoodDisk(S, d), NEW h \in Nat, NEW r \in Nat
    PROVE  LET v == loadInitialView(d, h, r) IN GoodView(S, d, v) /\ v.sum = v.proofs
  <1> DEFINE v == loadInitialView(d, h, r)
             phs == LoadedPHs(d, h, r)
  <1>0. v.h = h /\ v.r = r /\ HandedOn(S, v)
    <2>1. v.prev = NoCommit
      BY DEF loadInitialView, ZeroView
    <2>2. NoCommit.proofs = NoProofs
      BY DEF NoCommit
    <2> HIDE DEF v
    <2>3. HandedOn(S, v)
      BY <2>1, <2>2, NoProofsGenuine DEF HandedOn
    <2> QED BY <2>3, loadInitialViewPlace DEF v
  <1>1. CASE <<h, r>> \in HR
    <2>0. h \in Heights /\ r \in Rounds
      BY <1>1 DEF HR
    <2> HIDE DEF phs
    <2>1. /\ v.phs = phs /\ v.sum = v.proofs
          /\ \A k \in Kinds : v.proofs[k] = d.votes[k][<<h, r>>]
      BY <1>1 DEF loadInitialView, ZeroView, phs
    <2> HIDE DEF v
    <2>2. GenuineView(S, v)
      BY <1>0, <2>0, <2>1 DEF GoodDisk, GenuineDisk, GenuineView
    <2>3. ASSUME ReplaysNear PROVE MirroredView(d, v)
      <3>1. {p \in phs : p.by # NoProposer} = d.phs[<<h, r>>]
        BY <2>0, <2>3, LoadedHeaders DEF GoodDisk, phs
      <3> QED BY <1>0, <2>1, <3>1 DEF MirroredView
    <2>4. GoodView(S, d, v) /\ v.sum = v.proofs
      BY <2>1, <2>2, <2>3 DEF GoodView
    <2> QED BY <2>4 DEF v
  <1>2. CASE <<h, r>> \notin HR
    <2>1. v.sum = v.proofs /\ \A k \in Kinds : v.proofs[k] = NoProofs
      BY <1>2 DEF loadInitialView, ZeroView
    <2> HIDE DEF v
    <2>2. GenuineView(S, v)
      BY <1>0, <2>1, NoProofsGenuine DEF GenuineView
    <2>3. MirroredView(d, v)
      BY <1>0, <1>2 DEF MirroredView
    <2>4. GoodView(S, d, v) /\ v.sum = v.proofs
      BY <2>1, <2>2, <2>3 DEF GoodView
    <2> QED BY <2>4 DEF v
  <1> QED BY <1>1, <1>2

\* loadInitialCommittingView loads a good view and touches nothing else.
LEMMA loadInitialCommittingViewGood ==
    ASSUME NEW S \in Signers, NEW w \in Kernel, GoodDisk(S, w.disk), NEW hash \in Hashes,
           Complete(w.disk), <<w.disk.nhr.ch, w.disk.nhr.cr>> \in HR, HandedOn(S, w.sm.out)
    PROVE  LET x == loadInitialCommittingView(w, hash)
           IN /\ GoodView(S, w.disk, x.committing) /\ HandedOn(S, x.sm.out)
              /\ x.disk = w.disk /\ x.torn = w.torn /\ SameEntrance(w, x)
  <1> DEFINE d  == w.disk
             v  == loadInitialView(d, d.nhr.ch, d.nhr.cr)
             w0 == [w EXCEPT !.committing = v]
             w1 == MarkCommittingViewUpdated(w0)
             prev == IF v.h > InitialHeight
                     THEN [r |-> d.headers[v.h - 1].r,
                           proofs |-> d.headers[v.h - 1].proofs]
                     ELSE NoCommit
  <1>1. d \in Disk /\ d.nhr.ch \in Nat /\ d.nhr.cr \in Nat
    BY KernelDisk DEF Disk
  <1>2. v \in View /\ GoodView(S, d, v) /\ v.h = d.nhr.ch
    BY <1>1, loadInitialViewType, loadInitialViewGood, loadInitialViewPlace
  <1> HIDE DEF v
  <1>3. w0 \in Kernel /\ w0.committing = v /\ w0.disk = d /\ w0.torn = w.torn /\ w0.sm = w.sm
    BY <1>2 DEF Kernel
  <1> HIDE DEF w0
  <1>4. /\ w1 \in Kernel /\ w1.committing = Bump(v)
        /\ w1.disk = d /\ w1.torn = w.torn /\ SameEntrance(w0, w1)
        /\ w1.sm.out \in {w.sm.out, Bump(v)}
    BY <1>3, MarkCommittingType, MarkCommittingEffect
  <1>11. v.h # 0 => Genuine(S, "precommit", v.h - 1, prev.r, prev.proofs)
    <2>1. CASE v.h > InitialHeight
      <3>1. v.h \in Heights /\ v.h - 1 \in Heights /\ v.h - 1 <= d.nhr.ch
        BY <1>2, <2>1, BoundsAssumption DEF HR, Heights
      <3>2. d.headers[v.h - 1].hash # Nil
        BY <3>1 DEF Complete
      <3>3. Genuine(S, "precommit", v.h - 1, d.headers[v.h - 1].r, d.headers[v.h - 1].proofs)
        BY <3>1, <3>2 DEF GoodDisk, GenuineDisk
      <3> QED BY <2>1, <3>3
    <2>2. CASE ~(v.h > InitialHeight)
      <3>1. prev = NoCommit /\ NoCommit.proofs = NoProofs
        BY <2>2 DEF NoCommit
      <3> QED BY <3>1, NoProofsGenuine
    <2> QED BY <2>1, <2>2
  <1> HIDE DEF w1, prev
  <1> DEFINE a == [w1.committing EXCEPT !.prev = prev]
             b == [w1 EXCEPT !.committingHeader = hash]
             x == [b EXCEPT !.committing = a]
  <1>5. /\ a.h = w1.committing.h /\ a.r = w1.committing.r /\ a.phs = w1.committing.phs
        /\ a.proofs = w1.committing.proofs /\ a.prev = prev
    BY <1>4, KernelViews DEF View
  <1>6. [w1 EXCEPT !.committingHeader = hash, !.committing.prev = prev] = x
    BY <1>4 DEF Kernel
  <1> HIDE DEF a
  <1>7. x.committing = a /\ x.disk = d /\ x.torn = w.torn /\ x.sm = w1.sm
    BY <1>4 DEF Kernel
  <1> HIDE DEF x
  <1>8. x = loadInitialCommittingView(w, hash)
    BY <1>6 DEF loadInitialCommittingView, d, v, w0, w1, prev
  <1>12. SameContent(v, Bump(v)) /\ GoodView(S, d, Bump(v))
    BY <1>2, BumpContent, SameContentGood
  <1>9. GoodView(S, d, a)
    <2>1. HandedOn(S, a)
      BY <1>4, <1>5, <1>11, <1>12 DEF HandedOn, SameContent
    <2>2. GenuineView(S, a)
      BY <1>4, <1>5, <1>12, <2>1 DEF GenuineView, GoodView
    <2>3. ReplaysNear => MirroredView(d, a)
      BY <1>4, <1>5, <1>12 DEF GoodView, MirroredView
    <2> QED BY <2>2, <2>3 DEF GoodView
  <1>10. SameEntrance(w, x)
    BY <1>3, <1>4, <1>7 DEF SameEntrance
  <1>13. HandedOn(S, x.sm.out)
    BY <1>4, <1>7, <1>12 DEF GoodView, GenuineView
  <1> QED BY <1>7, <1>8, <1>9, <1>10, <1>13 DEF d

\* loadInitialVotingView loads two good views and touches nothing else.
LEMMA loadInitialVotingViewGood ==
    ASSUME NEW S \in Signers, NEW w \in Kernel, GoodDisk(S, w.disk), HandedOn(S, w.sm.out)
    PROVE  LET x == loadInitialVotingView(w)
           IN /\ GoodView(S, w.disk, x.voting) /\ GoodView(S, w.disk, x.nextRound)
              /\ HandedOn(S, x.sm.out)
              /\ Summed(x) /\ x.committing = w.committing
              /\ x.disk = w.disk /\ x.torn = w.torn /\ SameEntrance(w, x)
  <1> DEFINE n == w.disk.nhr
             v == loadInitialView(w.disk, n.vh, n.vr)
             u == loadInitialView(w.disk, n.vh, n.vr + 1)
             w0 == [w EXCEPT !.voting = v]
             w1 == MarkVotingViewUpdated(w0)
             w2 == [w1 EXCEPT !.nextRound = u]
             x  == MarkNextRoundViewUpdated(w2)
  <1>1. w.disk \in Disk /\ n.vh \in Nat /\ n.vr \in Nat /\ n.vr + 1 \in Nat
    BY KernelDisk DEF Disk
  <1>2. /\ v \in View /\ GoodView(S, w.disk, v) /\ v.sum = v.proofs
        /\ u \in View /\ GoodView(S, w.disk, u) /\ u.sum = u.proofs
    BY <1>1, loadInitialViewType, loadInitialViewGood
  <1>7. x = loadInitialVotingView(w)
    BY DEF loadInitialVotingView
  <1> HIDE DEF v, u
  <1>3. /\ w0 \in Kernel /\ w0.voting = v /\ w0.committing = w.committing
        /\ w0.disk = w.disk /\ w0.torn = w.torn /\ w0.sm = w.sm
    BY <1>2 DEF Kernel
  <1> HIDE DEF w0
  <1>4. /\ w1 \in Kernel /\ w1.voting = Bump(v)
        /\ w1.committing = w.committing /\ w1.disk = w.disk /\ w1.torn = w.torn
        /\ SameEntrance(w0, w1) /\ w1.sm.out \in {w.sm.out, Bump(v)}
    BY <1>3, MarkVotingType, MarkVotingEffect
  <1> HIDE DEF w1
  <1>5. /\ w2 \in Kernel /\ w2.voting = Bump(v) /\ w2.nextRound = u
        /\ w2.committing = w.committing /\ w2.disk = w.disk /\ w2.torn = w.torn
        /\ w2.sm = w1.sm
    BY <1>2, <1>4 DEF Kernel
  <1> HIDE DEF w2
  <1>6. /\ x.voting = Bump(v) /\ x.nextRound = Bump(u)
        /\ x.committing = w.committing /\ x.disk = w.disk /\ x.torn = w.torn
        /\ SameEntrance(w2, x) /\ x.sm.out = w2.sm.out
    BY <1>5, MarkNextRoundEffect
  <1> HIDE DEF x
  <1>8. SameContent(v, x.voting) /\ SameContent(u, x.nextRound)
    BY <1>2, <1>6, BumpContent
  <1>9. GoodView(S, w.disk, x.voting) /\ GoodView(S, w.disk, x.nextRound)
    BY <1>2, <1>8, SameContentGood
  <1>10. Summed(x)
    BY <1>2, <1>8 DEF Summed, SameContent
  <1>11. SameEntrance(w, x)
    BY <1>3, <1>4, <1>5, <1>6 DEF SameEntrance
  <1>12. HandedOn(S, x.sm.out)
    BY <1>4, <1>5, <1>6, <1>9 DEF GoodView, GenuineView
  <1> QED BY <1>6, <1>7, <1>9, <1>10, <1>11, <1>12

\* A view with another previous commit proof, which is genuine too.
LEMMA OtherPrevGood ==
    ASSUME NEW S \in Signers, NEW d, NEW v \in View, GoodView(S, d, v), NEW prev,
           v.h # 0 => Genuine(S, "precommit", v.h - 1, prev.r, prev.proofs)
    PROVE  LET u == [v EXCEPT !.prev = prev]
           IN GoodView(S, d, u) /\ u.sum = v.sum /\ u.proofs = v.proofs
  <1> DEFINE u == [v EXCEPT !.prev = prev]
  <1>1. /\ u.h = v.h /\ u.r = v.r /\ u.phs = v.phs /\ u.proofs = v.proofs
        /\ u.sum = v.sum /\ u.prev = prev
    BY DEF View
  <1> HIDE DEF u
  <1>2. GenuineView(S, u)
    BY <1>1 DEF GoodView, GenuineView, HandedOn
  <1>3. ReplaysNear => MirroredView(d, u)
    BY <1>1 DEF GoodView, MirroredView
  <1>4. GoodView(S, d, u)
    BY <1>2, <1>3 DEF GoodView
  <1> QED BY <1>1, <1>4 DEF u

\* The stored precommits of the committing round are those that the voting
\* height builds on.
LEMMA SetPrevCommitProofGood ==
    ASSUME NEW S \in Signers, NEW w \in Kernel, Good(S, w), Complete(w.disk),
           w.voting.h = w.disk.nhr.vh, w.nextRound.h = w.disk.nhr.vh
    PROVE  LET x == SetPrevCommitProof(w)
           IN Good(S, x) /\ x.disk = w.disk /\ x.torn = w.torn
  <1> DEFINE n == w.disk.nhr
             c == loadInitialView(w.disk, n.ch, n.cr)
             prev == IF n.ch \in Heights
                     THEN [r |-> n.cr, proofs |-> c.proofs["precommit"]] ELSE NoCommit
             v == [w.voting EXCEPT !.prev = prev]
             u == [w.nextRound EXCEPT !.prev = prev]
             x == [w EXCEPT !.voting = v, !.nextRound = u, !.shared = TRUE]
  <1>1. w.disk \in Disk /\ n.ch \in Nat /\ n.cr \in Nat /\ n.vh \in Nat
    BY KernelDisk DEF Disk
  <1>2. Genuine(S, "precommit", n.vh - 1, prev.r, prev.proofs)
    <2>1. CASE n.ch \in Heights
      <3>1. n.ch # 0 /\ n.ch = n.vh - 1
        BY <1>1, <2>1, BoundsAssumption DEF Complete, Consecutive, Heights
      <3>2. GenuineView(S, c) /\ c.h = n.ch /\ c.r = n.cr
        BY <1>1, loadInitialViewGood, loadInitialViewPlace DEF Good, GoodView
      <3> HIDE DEF c
      <3>3. Genuine(S, "precommit", n.ch, n.cr, c.proofs["precommit"])
        BY <3>1, <3>2 DEF GenuineView, Kinds
      <3> QED BY <2>1, <3>1, <3>3
    <2>2. CASE n.ch \notin Heights
      <3>1. prev = NoCommit /\ NoCommit.proofs = NoProofs
        BY <2>2 DEF NoCommit
      <3> QED BY <3>1, NoProofsGenuine
    <2> QED BY <2>1, <2>2
  <1>7. [w EXCEPT !.voting.prev = prev, !.nextRound.prev = prev, !.shared = TRUE]
          = SetPrevCommitProof(w)
    BY DEF SetPrevCommitProof
  <1> HIDE DEF prev
  <1>3. GoodView(S, w.disk, v) /\ v.sum = v.proofs
    <2>1. GoodView(S, w.disk, w.voting) /\ w.voting.sum = w.voting.proofs
      BY ViewNames DEF Good, Summed
    <2> QED BY <1>2, <2>1, KernelViews, OtherPrevGood
  <1>4. GoodView(S, w.disk, u) /\ u.sum = u.proofs
    <2>1. GoodView(S, w.disk, w.nextRound) /\ w.nextRound.sum = w.nextRound.proofs
      BY ViewNames DEF Good, Summed
    <2> QED BY <1>2, <2>1, KernelViews, OtherPrevGood
  <1>5. [w EXCEPT !.voting.prev = prev, !.nextRound.prev = prev, !.shared = TRUE] = x
    BY DEF Kernel
  <1> HIDE DEF v, u
  <1>6. /\ x.voting = v /\ x.nextRound = u /\ x.committing = w.committing
        /\ x.disk = w.disk /\ x.torn = w.torn /\ x.sm = w.sm
    BY DEF Kernel
  <1> HIDE DEF x
  <1>8. \A id \in FoundIDs : GoodView(S, w.disk, GetView(x, id))
    BY <1>3, <1>4, <1>6, ViewNames DEF Good
  <1>9. Summed(x) /\ Entered(x)
    BY <1>3, <1>4, <1>6 DEF Good, Summed, Entered
  <1>10. Good(S, x)
    BY <1>6, <1>8, <1>9 DEF Good
  <1> QED BY <1>5, <1>6, <1>7, <1>10

\* A kernel started from a good disk image is good, and starting does not take
\* the image back.
LEMMA NewKernelGood ==
    ASSUME NEW S \in Signers, NEW d \in Disk, NEW hash \in Hashes, Complete(d), GoodDisk(S, d),
           HasCommitting(d) => <<d.nhr.ch, d.nhr.cr>> \in HR
    PROVE  LET x == NewKernel(d, hash)
           IN Good(S, x) /\ Extends(S, d, x.disk) /\ x.torn = {}
  <1> DEFINE w1 == BlankKernel(d)
             w2 == IF HasCommitting(d) THEN loadInitialCommittingView(w1, hash) ELSE w1
             x  == loadInitialVotingView(w2)
             y  == SetPrevCommitProof(x)
             w3 == updateObservers(y)
             w4 == [w3 EXCEPT !.up = TRUE, !.torn = {}]
  <1>1. /\ w1 \in Kernel /\ w1.disk = d /\ w1.torn = {} /\ ~w1.sm.live
        /\ w1.committing = ZeroView /\ w1.sm.out = ZeroView
    BY BlankKernelType DEF BlankKernel, NoSM
  <1>0. w4 = NewKernel(d, hash)
    BY DEF NewKernel
  <1> HIDE DEF w1
  <1>2. /\ w2 \in Kernel /\ w2.disk = d /\ w2.torn = {} /\ ~w2.sm.live
        /\ GoodView(S, d, w2.committing) /\ HandedOn(S, w2.sm.out)
    <2>0. HandedOn(S, w1.sm.out)
      BY <1>1, ZeroViewGood DEF GoodView, GenuineView
    <2>1. CASE HasCommitting(d)
      BY <1>1, <2>0, <2>1, loadInitialCommittingViewType, loadInitialCommittingViewGood
         DEF SameEntrance
    <2>2. CASE ~HasCommitting(d)
      BY <1>1, <2>0, <2>2, ZeroViewGood
    <2> QED BY <2>1, <2>2
  <1> HIDE DEF w2
  <1>3. /\ x \in Kernel /\ x.disk = d /\ x.torn = {} /\ ~x.sm.live
        /\ GoodView(S, d, x.committing) /\ GoodView(S, d, x.voting)
        /\ GoodView(S, d, x.nextRound) /\ HandedOn(S, x.sm.out)
        /\ Summed(x)
        /\ x.voting.h = d.nhr.vh /\ x.voting.r = d.nhr.vr /\ x.nextRound.h = d.nhr.vh
    BY <1>2, loadInitialVotingViewType, loadInitialVotingViewGood,
       loadInitialVotingViewPlaces DEF SameEntrance
  <1> HIDE DEF x
  <1>4. Good(S, x)
    <2>1. \A id \in FoundIDs : GoodView(S, x.disk, GetView(x, id))
      BY <1>3, ViewNames
    <2> QED BY <1>3, <2>1 DEF Good, Entered
  <1>5. /\ y \in Kernel /\ Good(S, y) /\ Keeps(x, y) /\ y.disk = d
    BY <1>3, <1>4, SetPrevCommitProofType, SetPrevCommitProofGood, SetPrevCommitProofKeeps
  <1> HIDE DEF y
  <1>6. y.voting.h = d.nhr.vh /\ y.voting.r = d.nhr.vr
    BY <1>3, <1>5 DEF Keeps, SamePlaces
  <1>7. d.nhr.vr \in Nat
    BY DEF Disk
  <1>8. w3 \in Kernel /\ Good(S, w3) /\ Forward(S, y, w3)
    BY <1>5, <1>6, <1>7, updateObserversType, updateObserversGood
  <1> HIDE DEF w3
  <1>9. /\ w4.voting = w3.voting /\ w4.nextRound = w3.nextRound
        /\ w4.committing = w3.committing /\ w4.disk = w3.disk /\ w4.torn = {}
        /\ w4.sm = w3.sm
    BY <1>8 DEF Kernel
  <1> HIDE DEF w4
  <1>10. Quiet(w3, w4)
    BY <1>9, SameViewsQuiet DEF SameEntrance
  <1>11. Good(S, w4)
    BY <1>8, <1>10, QuietGood
  <1> QED BY <1>0, <1>5, <1>8, <1>9, <1>11 DEF Forward

\* The stores of a new chain are good.
LEMMA EmptyDiskGood == ASSUME NEW S PROVE GoodDisk(S, EmptyDisk)
  <1> DEFINE d == EmptyDisk
  <1>1. /\ \A h \in Heights, r \in Rounds :
             /\ d.phs[<<h, r>>] = {}
             /\ \A k \in Kinds : d.votes[k][<<h, r>>] = NoProofs
        /\ \A h \in Heights : d.headers[h].hash = Nil
    BY PlaceInHR DEF EmptyDisk
  <1> HIDE DEF d
  <1>2. GenuineDisk(S, d)
    BY <1>1, NoProofsGenuine DEF GenuineDisk
  <1>3. MirroredDisk(d)
    BY <1>1 DEF MirroredDisk
  <1> QED BY <1>2, <1>3 DEF GoodDisk, d

-----------------------------------------------------------------------------
(* The steps. *)

\* What a step has to preserve and to do.
StoredOn(S) == Safe(S, kernel', hs', phQueue') /\ Extends(S, kernel.disk, kernel'.disk)

\* The kernel and the handlers are in a state of the invariants.
Standing(S) ==
    /\ kernel \in Kernel /\ hs \in [Handlers -> Handler]
    /\ Safe(S, kernel, hs, phQueue) /\ (kernel.up => Sound(kernel) /\ Good(S, kernel))
    /\ Complete(kernel.disk)

\* What the messages and the headers that goroutines bring may be: all signed,
\* or at least what goroutine c goes on with.
Trusted(S) ==
    /\ Proposals \subseteq Carriers(S)
    /\ \A m \in VoteMessages : Genuine(S, m.kind, m.h, m.r, m.proofs)

Brought(S, g) ==
    /\ g.ph \in Carriers(S) \cup {NoProposal}
    /\ Genuine(S, g.msg.kind, g.msg.h, g.msg.r, g.msg.proofs)

\* The invariants of the two earlier modules and this one together.
LEMMA InvariantsStand ==
    ASSUME NEW S, TypeOK, Placed, Safe(S, kernel, hs, phQueue) PROVE Standing(S)
  BY DEF Standing, TypeOK, Placed, Safe

\* An idle goroutine brings nothing.
LEMMA IdleHonest == ASSUME NEW S PROVE Honest(S, Idle)
  BY DEF Honest, Idle

\* Nor does one that returned from a vote handler; it may still have a header
\* to check.
LEMMA ReturnHonest ==
    ASSUME NEW S, NEW g, g.ph \in Carriers(S) \cup {NoProposal} PROVE Honest(S, Return(g))
  <1>1. ASSUME NEW p \in Carriers(S) \cup {NoProposal}
        PROVE  Honest(S, [Idle EXCEPT !.pc = "check", !.ph = p])
    BY DEF Honest, Idle
  <1> QED BY <1>1, IdleHonest DEF Return

\* A process that dies leaves a good disk image if it left one.
LEMMA DiesStored ==
    ASSUME NEW S \in Signers, NEW d, GoodDisk(S, d), Extends(S, kernel.disk, d), Dies(d)
    PROVE  StoredOn(S)
  <1>1. kernel'.disk = d /\ kernel'.up = FALSE /\ kernel'.torn = {}
    BY DEF Dies, BlankKernel
  <1>2. \A c \in Handlers : Honest(S, hs'[c])
    BY IdleHonest DEF Dies
  <1>3. phQueue' \in Seq(Carriers(S))
    BY DEF Dies
  <1> QED BY <1>1, <1>2, <1>3 DEF StoredOn, Safe

\* A handler of the kernel that ends in a good state keeps Stored, also when
\* the process dies in the middle of it.
LEMMA KernelStepStored ==
    ASSUME NEW S \in Signers, Standing(S), NEW w \in Kernel, Good(S, w), Forward(S, kernel, w),
           NEW g, hs' = g => \A c \in Handlers : Honest(S, g[c]), NEW q \in Seq(Carriers(S)),
           KernelStep(w, g, q)
    PROVE  StoredOn(S)
  <1>1. CASE kernel' = [w EXCEPT !.torn = {}, !.room = {}] /\ hs' = g /\ phQueue' = q
    <2> DEFINE x == [w EXCEPT !.torn = {}, !.room = {}]
    <2>1. Good(S, x)
      BY OutsideQuiet, QuietGood
    <2>2. x.disk = w.disk /\ x.torn = {}
      BY DEF Kernel
    <2>3. kernel' = x
      BY <1>1
    <2> HIDE DEF x
    <2> QED BY <1>1, <2>1, <2>2, <2>3 DEF StoredOn, Safe, Good, Forward
  <1>2. CASE Dies(w.disk)
    BY <1>2, DiesStored DEF Good, Forward
  <1>3. CASE \E d \in w.torn : Dies(d)
    BY <1>3, DiesStored DEF Standing, Safe, Good, Forward
  <1> QED BY <1>1, <1>2, <1>3 DEF KernelStep

\* A request that only reads, or panics, keeps Stored.
LEMMA ReadStored ==
    ASSUME NEW S \in Signers, Standing(S), kernel.up, NEW dies \in BOOLEAN,
           NEW g, hs' = g => \A c \in Handlers : Honest(S, g[c]), NEW q \in Seq(Carriers(S)),
           KernelStep(IF dies THEN Panic(kernel) ELSE kernel, g, q)
    PROVE  StoredOn(S)
  <1>1. kernel \in Kernel /\ Good(S, kernel) /\ Panic(kernel) \in Kernel
    BY PanicType DEF Standing
  <1>2. /\ Good(S, Panic(kernel)) /\ Forward(S, kernel, Panic(kernel))
        /\ Forward(S, kernel, kernel)
    BY <1>1, PanicQuiet, QuietItself, QuietFine
  <1> QED BY <1>1, <1>2, KernelStepStored

\* Replacing one honest goroutine by another keeps them honest.
LEMMA ReplaceHonest ==
    ASSUME NEW S \in Signers, Standing(S), NEW c \in Handlers, NEW g, Honest(S, g)
    PROVE  \A x \in Handlers : Honest(S, [hs EXCEPT ![c] = g][x])
  BY DEF Standing, Safe

\* Choosing the room of the fetch channel is quiet.
LEMMA WithRoomFine ==
    ASSUME NEW S \in Signers, Standing(S), kernel.up, NEW room \in FetchRooms
    PROVE  LET w == WithRoom(kernel, room)
           IN w \in Kernel /\ Sound(w) /\ Good(S, w) /\ Forward(S, kernel, w) /\ w.sm = kernel.sm
  <1>1. kernel \in Kernel /\ Good(S, kernel) /\ Sound(kernel)
    BY DEF Standing
  <1>2. Quiet(kernel, WithRoom(kernel, room))
    BY <1>1, OutsideQuiet DEF WithRoom
  <1>3. WithRoom(kernel, room).sm = kernel.sm
    BY <1>1 DEF WithRoom, Kernel
  <1> QED BY <1>1, <1>2, <1>3, WithRoomType, WithRoomSound, QuietFine

\* The update that a goroutine computes from a view and its message is genuine
\* if they are.
LEMMA MergedUpdateGenuine ==
    ASSUME NEW S \in Signers, NEW v, NEW m, v.h = m.h, v.r = m.r, m.h # 0, m.kind \in Kinds,
           GenuineView(S, v), Genuine(S, m.kind, m.h, m.r, m.proofs)
    PROVE  Genuine(S, m.kind, m.h, m.r, MergedUpdate(v, m).proofs)
  <1> DEFINE old == v.proofs[m.kind]
  <1>1. Genuine(S, m.kind, m.h, m.r, old)
    BY DEF GenuineView
  <1>2. \A x \in Hashes : MergedUpdate(v, m).proofs[x] \subseteq old[x] \cup m.proofs[x]
    BY DEF MergedUpdate
  <1> HIDE DEF old
  <1> QED BY <1>1, <1>2 DEF Genuine

\* A view lookup for a genuine message keeps Stored.
LEMMA LookupStored ==
    ASSUME NEW S \in Signers, Standing(S), kernel.up, NEW c \in Handlers, NEW g \in Handler,
           g.ph \in Carriers(S) \cup {NoProposal}, g.msg.h # 0, Lookup(c, g),
           \/ Genuine(S, g.msg.kind, g.msg.h, g.msg.r, g.msg.proofs)
           \/ Brought(S, hs'[c])
    PROVE  StoredOn(S)
  <1> DEFINE id == FindView(kernel, g.msg.h, g.msg.r)
             u  == MergedUpdate(GetView(kernel, id), g.msg)
             next == IF id \in FoundIDs
                     THEN IF u.dom # {} THEN [g EXCEPT !.pc = "add", !.u = u]
                          ELSE Return(g)
                     ELSE Return(g)
             w == IF id = "panic" THEN Panic(kernel) ELSE kernel
  <1>1. KernelStep(w, [hs EXCEPT ![c] = next], phQueue)
    BY DEF Lookup
  <1>2. ASSUME id \in FoundIDs, Genuine(S, g.msg.kind, g.msg.h, g.msg.r, g.msg.proofs)
        PROVE  Genuine(S, g.msg.kind, g.msg.h, g.msg.r, u.proofs)
    <2>1. GetView(kernel, id).h = g.msg.h /\ GetView(kernel, id).r = g.msg.r
      BY <1>2, FoundPlace DEF Standing, Sound
    <2>2. GenuineView(S, GetView(kernel, id))
      BY <1>2 DEF Standing, Good, GoodView
    <2>3. g.msg.kind \in Kinds
      BY DEF Handler
    <2> HIDE DEF id
    <2> QED BY <1>2, <2>1, <2>2, <2>3, MergedUpdateGenuine
  <1>3. ASSUME hs' = [hs EXCEPT ![c] = next] PROVE Honest(S, next)
    <2>0. hs'[c] = next
      BY <1>3 DEF Standing
    <2> HIDE DEF id, u
    <2>1. CASE id \in FoundIDs /\ u.dom # {}
      <3> DEFINE f == [g EXCEPT !.pc = "add", !.u = u]
      <3>1. f.pc = "add" /\ f.u = u /\ f.msg = g.msg /\ f.ph = g.ph
        BY DEF Handler
      <3>3. next = f
        BY <2>1
      <3> HIDE DEF f, next
      <3>4. Genuine(S, g.msg.kind, g.msg.h, g.msg.r, g.msg.proofs)
        BY <2>0, <3>1, <3>3 DEF Brought
      <3>2. Honest(S, f)
        BY <1>2, <2>1, <3>1, <3>4 DEF Honest
      <3> QED BY <3>2, <3>3
    <2>2. CASE ~(id \in FoundIDs /\ u.dom # {})
      BY <2>2, ReturnHonest
    <2> QED BY <2>1, <2>2
  <1> HIDE DEF next
  <1>4. hs' = [hs EXCEPT ![c] = next]
          => \A x \in Handlers : Honest(S, [hs EXCEPT ![c] = next][x])
    BY <1>3, ReplaceHonest
  <1>5. phQueue \in Seq(Carriers(S))
    BY DEF Standing, Safe
  <1> HIDE DEF id
  <1> QED BY <1>1, <1>4, <1>5, ReadStored

\* What a goroutine does after a proposed header check is honest: it delivers
\* the precommits of the header, which were signed for the height before it.
LEMMA AfterCheckHonest ==
    ASSUME NEW S \in Signers, Standing(S), kernel.up, NEW p \in Carriers(S)
    PROVE  Honest(S, AfterCheck(PHCheck(kernel, p), p))
  <1> DEFINE status == PHCheck(kernel, p)
             m == [kind |-> "precommit", h |-> p.h - 1, r |-> p.prevR, proofs |-> p.prev]
             g == [Idle EXCEPT !.pc = "lookup", !.ph = p, !.msg = m]
  <1>1. ASSUME status = "nextHeight" PROVE Honest(S, g)
    <2>1. kernel.voting.h \in Nat /\ kernel.voting.h # 0
      BY KernelViews, PlacesDiffer DEF Standing, View
    <2>2. p.h = kernel.voting.h + 1
      BY <1>1 DEF PHCheck, PHCheckIn
    <2>3. p.h - 1 # 0
      BY <2>1, <2>2
    <2>4. Genuine(S, "precommit", p.h - 1, p.prevR, p.prev)
      BY DEF Carriers
    <2>5. /\ m.kind = "precommit" /\ m.h = p.h - 1 /\ m.r = p.prevR /\ m.proofs = p.prev
      OBVIOUS
    <2> HIDE DEF m
    <2>6. g.pc = "lookup" /\ g.ph = p /\ g.msg = m
      BY DEF Idle
    <2> HIDE DEF g
    <2> QED BY <2>3, <2>4, <2>5, <2>6 DEF Honest
  <1>2. Honest(S, [Idle EXCEPT !.pc = "send", !.ph = p])
    BY DEF Honest, Idle
  <1>3. Honest(S, [Idle EXCEPT !.pc = "check", !.ph = p])
    BY DEF Honest, Idle
  <1> HIDE DEF status
  <1>4. Honest(S, AfterCheck(status, p))
    BY <1>1, <1>2, <1>3, IdleHonest DEF AfterCheck
  <1> QED BY <1>4 DEF status

\* A proposed header check keeps Stored.
LEMMA CheckPHStored ==
    ASSUME NEW S \in Signers, Standing(S), kernel.up, NEW c \in Handlers, NEW p \in Proposal,
           CheckPH(c, p), p \in Carriers(S) \/ Brought(S, hs'[c])
    PROVE  StoredOn(S)
  <1> DEFINE status == PHCheck(kernel, p)
             next == AfterCheck(status, p)
  <1>1. KernelStep(IF status = "panic" THEN Panic(kernel) ELSE kernel,
                   [hs EXCEPT ![c] = next], phQueue)
    BY DEF CheckPH
  <1>2. ASSUME hs' = [hs EXCEPT ![c] = next] PROVE Honest(S, next)
    <2>1. hs'[c] = next
      BY <1>2 DEF Standing
    <2>2. CASE p \in Carriers(S)
      BY <2>2, AfterCheckHonest
    <2>3. CASE p \notin Carriers(S)
      <3>1. p # NoProposal
        <4>1. p.by \in Val
          BY DEF Proposal
        <4>2. NoProposal.by \notin Val
          BY BoundsAssumption DEF NoProposal
        <4> QED BY <4>1, <4>2
      <3>2. next = Idle \/ next.ph = p
        <4> HIDE DEF status
        <4> QED BY DEF AfterCheck, Idle
      <3>3. next = Idle
        BY <2>1, <2>3, <3>1, <3>2 DEF Brought
      <3> QED BY <3>3, IdleHonest
    <2> QED BY <2>2, <2>3
  <1> HIDE DEF next, status
  <1>3. hs' = [hs EXCEPT ![c] = next]
          => \A x \in Handlers : Honest(S, [hs EXCEPT ![c] = next][x])
    BY <1>2, ReplaceHonest
  <1>4. phQueue \in Seq(Carriers(S))
    BY DEF Standing, Safe
  <1> QED BY <1>1, <1>3, <1>4, ReadStored

\* Every step of a handler keeps Stored.
LEMMA HandlerStepStored ==
    ASSUME NEW S \in Signers, Standing(S), NEW c \in Handlers, HandlerNext(c),
           Trusted(S) \/ Brought(S, hs'[c])
    PROVE  StoredOn(S)
  <1>1. /\ kernel \in Kernel /\ hs[c] \in Handler /\ Honest(S, hs[c])
        /\ phQueue \in Seq(Carriers(S))
    BY DEF Standing, Safe
  <1>2. ASSUME NEW m \in VoteMessages, HandleVoteProofs(c, m) PROVE StoredOn(S)
    <2> DEFINE g == [Idle EXCEPT !.msg = m]
    <2>1. m \in VoteMessage
      BY InputAssumption
    <2>2. m \in [kind : Kinds, h : Nat, r : Rounds, proofs : Proofs]
      BY <2>1, HRType DEF VoteMessage
    <2>3. g \in Handler /\ g.msg = m
      BY <2>2, IdleType DEF Handler
    <2>4. g.ph \in Carriers(S) \cup {NoProposal}
      BY DEF Idle
    <2>5. m.h # 0
      BY <2>1, BoundsAssumption DEF VoteMessage, Heights
    <2>6. Genuine(S, m.kind, m.h, m.r, m.proofs) \/ Brought(S, hs'[c])
      BY DEF Trusted
    <2>7. kernel.up /\ Lookup(c, g)
      BY <1>2 DEF HandleVoteProofs
    <2> HIDE DEF g
    <2> QED BY <2>3, <2>4, <2>5, <2>6, <2>7, LookupStored
  <1>3. ASSUME RetryLookup(c) PROVE StoredOn(S)
    BY <1>1, <1>3, LookupStored DEF RetryLookup, Honest
  <1>4. ASSUME NEW room \in FetchRooms, AddVotes(c, room) PROVE StoredOn(S)
    <2> DEFINE g == hs[c]
               m == g.msg
               res == AddVoteResult(kernel, m.kind, m.h, m.r, g.u)
               retry == [g EXCEPT !.pc = "lookup", !.u = NoUpdate]
               next == IF res = "conflict" THEN retry ELSE Return(g)
               w0 == WithRoom(kernel, room)
               w == addVote(w0, m.kind, m.h, m.r, g.u)
    <2>1. /\ m.kind \in Kinds /\ m.h \in Nat /\ m.r \in Nat /\ g.u \in Update
          /\ kernel.up /\ g.pc = "add"
          /\ KernelStep(w, [hs EXCEPT ![c] = next], phQueue)
      BY <1>1, <1>4, HRType DEF Handler, AddVotes
    <2>2. /\ m.h # 0 /\ Genuine(S, m.kind, m.h, m.r, m.proofs)
          /\ Genuine(S, m.kind, m.h, m.r, g.u.proofs)
      BY <1>1, <2>1 DEF Honest
    <2>3. w0 \in Kernel /\ Sound(w0) /\ Good(S, w0) /\ Forward(S, kernel, w0)
      BY <2>1, WithRoomFine
    <2> HIDE DEF w0
    <2>4. w \in Kernel /\ Good(S, w) /\ Forward(S, w0, w)
      BY <2>1, <2>2, <2>3, addVoteType, addVoteGood
    <2> HIDE DEF w
    <2>5. Forward(S, kernel, w)
      BY <1>1, <2>3, <2>4, ForwardBoth
    <2>6. Honest(S, retry)
      <3>1. retry.pc = "lookup" /\ retry.msg = m /\ retry.ph = g.ph
        BY <1>1 DEF Handler
      <3> HIDE DEF retry
      <3> QED BY <1>1, <2>2, <3>1 DEF Honest
    <2>7. Honest(S, next)
      <3>1. Honest(S, g)
        BY <1>1
      <3>2. g.ph \in Carriers(S) \cup {NoProposal}
        BY <3>1 DEF Honest
      <3>3. Honest(S, Return(g))
        BY <3>2, ReturnHonest
      <3> HIDE DEF g, retry, res
      <3> QED BY <2>6, <3>3
    <2> HIDE DEF next
    <2>8. \A x \in Handlers : Honest(S, [hs EXCEPT ![c] = next][x])
      BY <2>7, ReplaceHonest
    <2> QED BY <1>1, <2>1, <2>4, <2>5, <2>8, KernelStepStored
  <1>5. ASSUME NEW p \in Proposals, HandleProposedHeader(c, p) PROVE StoredOn(S)
    BY <1>5, CheckPHStored, InputAssumption DEF HandleProposedHeader, Trusted
  <1>6. ASSUME hs[c].pc \in {"check", "send"}
        PROVE  hs[c].ph \in Carriers(S) /\ hs[c].ph \in Proposal
    <2>1. hs[c].ph \in Carriers(S)
      BY <1>1, <1>6 DEF Handler, Honest
    <2> QED BY <2>1 DEF Carriers
  <1>7. ASSUME RestartCheck(c) PROVE StoredOn(S)
    BY <1>6, <1>7, CheckPHStored DEF RestartCheck
  <1>8. ASSUME SendPH(c) PROVE StoredOn(S)
    <2>1. phQueue' \in Seq(Carriers(S))
      BY <1>1, <1>6, <1>8 DEF SendPH
    <2>2. \A x \in Handlers : Honest(S, [hs EXCEPT ![c] = Idle][x])
      BY IdleHonest, ReplaceHonest
    <2>3. kernel' = kernel /\ hs' = [hs EXCEPT ![c] = Idle]
      BY <1>8 DEF SendPH
    <2>4. Extends(S, kernel.disk, kernel.disk)
      BY <1>1, KernelDisk, SameRecordsExtend DEF SameRecords
    <2> QED BY <2>1, <2>2, <2>3, <2>4 DEF StoredOn, Standing, Safe
  <1> QED BY <1>2, <1>3, <1>4, <1>5, <1>7, <1>8 DEF HandlerNext

\* Adding a header that arrived from anywhere keeps Stored.
LEMMA AddPHStored ==
    ASSUME NEW S \in Signers, Standing(S), kernel.up, NEW p \in Proposal,
           p.by \in S[<<"ph", p.h, p.r, p.hash>>], p.h = kernel.voting.h => p \in Carriers(S),
           NEW q \in Seq(Carriers(S)), KernelStep(addProposedHeader(kernel, p), hs, q)
    PROVE  StoredOn(S)
  <1>1. kernel \in Kernel /\ Sound(kernel) /\ Good(S, kernel)
    BY DEF Standing
  <1>2. \A c \in Handlers : Honest(S, hs[c])
    BY DEF Standing, Safe
  <1> QED BY <1>1, <1>2, addProposedHeaderType, addProposedHeaderGood, KernelStepStored

\* A consumer that reads its channel changes neither views nor stores.
LEMMA SentStored ==
    ASSUME NEW S \in Signers, Standing(S), kernel.up, NEW x, kernel' = x, Quiet(kernel, x),
           UNCHANGED <<hs, phQueue>>
    PROVE  StoredOn(S)
  <1>1. Good(S, x) /\ Forward(S, kernel, x)
    BY QuietFine DEF Standing
  <1>2. x.torn = {}
    BY DEF Standing, Safe, Quiet
  <1> QED BY <1>1, <1>2 DEF StoredOn, Standing, Safe, Good, Forward

\* What the steps lemmas read of Standing.
LEMMA StandingFacts ==
    ASSUME NEW S, Standing(S)
    PROVE  /\ kernel \in Kernel /\ (kernel.up => Sound(kernel) /\ Good(S, kernel))
           /\ phQueue \in Seq(Carriers(S)) /\ \A c \in Handlers : Honest(S, hs[c])
           /\ GoodDisk(S, kernel.disk) /\ kernel.disk \in Disk /\ Complete(kernel.disk)
  BY KernelDisk DEF Standing, Safe

\* A round entrance keeps Stored.
LEMMA RoundEntranceStored ==
    ASSUME NEW S \in Signers, Standing(S), kernel.up, NEW h \in Nat, NEW r \in Nat,
           <<h, r>> \in SMRounds,
           KernelStep(handleStateMachineRoundEntrance(kernel, h, r), hs, phQueue)
    PROVE  StoredOn(S)
  <1> DEFINE w == handleStateMachineRoundEntrance(kernel, h, r)
  <1>1. w \in Kernel /\ Good(S, w) /\ Forward(S, kernel, w)
    BY StandingFacts, handleStateMachineRoundEntranceType,
       handleStateMachineRoundEntranceGood
  <1>2. KernelStep(w, hs, phQueue)
    OBVIOUS
  <1> HIDE DEF w
  <1> QED BY <1>1, <1>2, StandingFacts, KernelStepStored

\* A vote of the state machine that it has signed keeps Stored.
LEMMA OwnVoteStored ==
    ASSUME NEW S \in Signers, Standing(S), kernel.up, kernel.sm.live, NEW kind \in Kinds,
           NEW hash \in Hashes, OwnKey \in S[<<kind, kernel.sm.h, kernel.sm.r, hash>>],
           NEW room \in FetchRooms,
           KernelStep(handleStateMachineVote(WithRoom(kernel, room), kind, hash, OwnKey),
                      hs, phQueue)
    PROVE  StoredOn(S)
  <1> DEFINE w0 == WithRoom(kernel, room)
             w == handleStateMachineVote(w0, kind, hash, OwnKey)
  <1>1. /\ w0 \in Kernel /\ Sound(w0) /\ Good(S, w0) /\ Forward(S, kernel, w0)
        /\ w0.sm = kernel.sm
    BY WithRoomFine
  <1>2. KernelStep(w, hs, phQueue) /\ OwnKey \in Val
    BY InputAssumption
  <1> HIDE DEF w0
  <1>3. w \in Kernel /\ Good(S, w) /\ Forward(S, w0, w)
    BY <1>1, <1>2, handleStateMachineVoteType, handleStateMachineVoteGood
  <1> HIDE DEF w
  <1>4. Forward(S, kernel, w)
    BY <1>1, <1>3, StandingFacts, ForwardBoth
  <1> QED BY <1>2, <1>3, <1>4, StandingFacts, KernelStepStored

\* What the state machine reads keeps Stored.
LEMMA SendToStateMachineStored ==
    ASSUME NEW S \in Signers, Standing(S), SendToStateMachine PROVE StoredOn(S)
  <1>1. kernel \in Kernel
    BY DEF Standing
  <1>2. ASSUME NEW n
        PROVE  Quiet(kernel, [kernel EXCEPT !.sm.jump = ZeroView, !.sm.sent = n])
    <2> DEFINE s == [kernel.sm EXCEPT !.jump = ZeroView, !.sent = n]
               x == [kernel EXCEPT !.sm = s]
    <2>1. /\ s.h = kernel.sm.h /\ s.r = kernel.sm.r /\ (s.live <=> kernel.sm.live)
          /\ s.out = kernel.sm.out
      BY <1>1 DEF Kernel
    <2>2. [kernel EXCEPT !.sm.jump = ZeroView, !.sm.sent = n] = x
      BY <1>1 DEF Kernel
    <2> HIDE DEF s
    <2>3. /\ x.voting = kernel.voting /\ x.nextRound = kernel.nextRound
          /\ x.committing = kernel.committing /\ x.disk = kernel.disk
          /\ x.torn = kernel.torn /\ x.sm = s
      BY <1>1 DEF Kernel
    <2> HIDE DEF x
    <2>4. Quiet(kernel, x)
      BY <2>1, <2>3, SameViewsQuiet DEF SameEntrance
    <2> QED BY <2>2, <2>4
  <1> QED BY <1>2, SentStored DEF SendToStateMachine

\* Every step of the state machine keeps Stored, if it signed its votes.
LEMMA StateMachineStepStored ==
    ASSUME NEW S \in Signers, Standing(S), StateMachineNext, Trusted(S),
           \A v \in SMVotes, x \in SMRounds : OwnKey \in S[<<v[1], x[1], x[2], v[2]>>]
    PROVE  StoredOn(S)
  <1>1. ASSUME NEW x \in SMRounds, SMRoundEntrance(x[1], x[2]) PROVE StoredOn(S)
    <2>1. x \in Heights \X Rounds
      BY InputAssumption DEF HR
    <2>2. x[1] \in Heights /\ x[2] \in Rounds /\ x = <<x[1], x[2]>>
      BY <2>1
    <2>3. x[1] \in Nat /\ x[2] \in Nat /\ <<x[1], x[2]>> \in SMRounds
      BY <2>2, HRType
    <2> QED BY <1>1, <2>3, RoundEntranceStored DEF SMRoundEntrance
  <1>2. ASSUME NEW v \in SMVotes, NEW room \in FetchRooms, SMVote(v[1], v[2], room)
        PROVE  StoredOn(S)
    <2>1. v[1] \in Kinds /\ v[2] \in Hashes
      BY InputAssumption
    <2>2. kernel.up /\ kernel.sm.live
      BY <1>2 DEF SMVote
    <2>3. <<kernel.sm.h, kernel.sm.r>> \in SMRounds
      BY <2>2, StandingFacts DEF Good, Entered
    <2>4. OwnKey \in S[<<v[1], kernel.sm.h, kernel.sm.r, v[2]>>]
      BY <2>3
    <2> QED BY <1>2, <2>1, <2>2, <2>4, OwnVoteStored DEF SMVote
  <1>3. ASSUME NEW p \in Proposals, SMPropose(p) PROVE StoredOn(S)
    BY <1>3, StandingFacts, AddPHStored DEF SMPropose, Trusted, Carriers
  <1>4. ASSUME SendToStateMachine PROVE StoredOn(S)
    BY <1>4, SendToStateMachineStored
  <1> QED BY <1>1, <1>2, <1>3, <1>4 DEF StateMachineNext

\* A replayed header whose precommits were signed keeps Stored.
LEMMA ReplayStored ==
    ASSUME NEW S \in Signers, Standing(S), NEW c \in ReplayedHeaders, NEW room \in FetchRooms,
           Genuine(S, "precommit", c.h, c.r, c.proofs), Replay(c, room)
    PROVE  StoredOn(S)
  <1> DEFINE w0 == WithRoom(kernel, room)
             w == handleReplayedHeader(w0, c)
  <1>1. kernel.up /\ KernelStep(w, hs, phQueue) /\ c \in ReplayedHeader
    BY InputAssumption DEF Replay
  <1>2. w0 \in Kernel /\ Sound(w0) /\ Good(S, w0) /\ Forward(S, kernel, w0)
    BY <1>1, WithRoomFine
  <1> HIDE DEF w0
  <1>3. w \in Kernel /\ Good(S, w) /\ Forward(S, w0, w)
    BY <1>1, <1>2, handleReplayedHeaderType, handleReplayedHeaderGood
  <1> HIDE DEF w
  <1>4. Forward(S, kernel, w)
    BY <1>2, <1>3, StandingFacts, ForwardBoth
  <1> QED BY <1>1, <1>3, <1>4, StandingFacts, KernelStepStored

\* The readers of gossip and lag keep Stored.
LEMMA ReadersStored ==
    ASSUME NEW S \in Signers, Standing(S), SendToGossip \/ SendLagState PROVE StoredOn(S)
  <1>1. kernel \in Kernel
    BY DEF Standing
  <1>2. CASE SendToGossip
    <2>1. Quiet(kernel, [kernel EXCEPT !.gossip = GossipMarkSent(@)])
      BY <1>1, OutsideQuiet
    <2> QED BY <1>2, <2>1, SentStored DEF SendToGossip
  <1>3. CASE SendLagState
    <2> DEFINE a == [kernel.lag EXCEPT !.sent = TRUE]
    <2>1. [kernel EXCEPT !.lag.sent = TRUE] = [kernel EXCEPT !.lag = a]
      BY <1>1 DEF Kernel
    <2>2. Quiet(kernel, [kernel EXCEPT !.lag = a])
      BY <1>1, OutsideQuiet
    <2> QED BY <1>3, <2>1, <2>2, SentStored DEF SendLagState
  <1> QED BY <1>2, <1>3

\* A crash between two handlers keeps Stored, and so does a restart.
LEMMA CrashRestartStored ==
    ASSUME NEW S \in Signers, Standing(S), Crash \/ Restart PROVE StoredOn(S)
  <1>1. Extends(S, kernel.disk, kernel.disk)
    BY StandingFacts, SameRecordsExtend DEF SameRecords
  <1>2. CASE Crash
    BY <1>1, <1>2, StandingFacts, DiesStored DEF Crash
  <1>3. CASE Restart
    <2>1. StartHashes(kernel.disk) \subseteq Hashes
      BY NilIsHash DEF StartHashes, CommittingHashes
    <2>2. HasCommitting(kernel.disk)
            => <<kernel.disk.nhr.ch, kernel.disk.nhr.cr>> \in HR
      BY <1>3, StandingFacts, LoadableRound DEF Restart
    <2>3. PICK hash \in Hashes : kernel' = NewKernel(kernel.disk, hash)
      BY <1>3, <2>1 DEF Restart
    <2>4. Good(S, kernel') /\ Extends(S, kernel.disk, kernel'.disk) /\ kernel'.torn = {}
      BY <2>2, <2>3, StandingFacts, NewKernelGood
    <2>5. hs' = hs /\ phQueue' = phQueue
      BY <1>3 DEF Restart
    <2> QED BY <2>4, <2>5, StandingFacts DEF StoredOn, Safe, Good
  <1> QED BY <1>2, <1>3

\* The next header of the queue keeps Stored.
LEMMA AddQueuedPHStored ==
    ASSUME NEW S \in Signers, Standing(S), AddQueuedPH PROVE StoredOn(S)
  <1>1. Head(phQueue) \in Carriers(S) /\ Tail(phQueue) \in Seq(Carriers(S))
    BY StandingFacts DEF AddQueuedPH
  <1> QED BY <1>1, AddPHStored DEF AddQueuedPH, Carriers

\* Every step of the mirror keeps Stored if whatever is brought was signed.
LEMMA NextStored ==
    ASSUME NEW S \in Signers, Standing(S), [Next]_vars, Trusted(S),
           \A c \in ReplayedHeaders : Genuine(S, "precommit", c.h, c.r, c.proofs),
           \A v \in SMVotes, x \in SMRounds : OwnKey \in S[<<v[1], x[1], x[2], v[2]>>]
    PROVE  StoredOn(S)
  <1>1. CASE \E c \in Handlers : HandlerNext(c)
    BY <1>1, HandlerStepStored
  <1>2. CASE AddQueuedPH
    BY <1>2, AddQueuedPHStored
  <1>3. ASSUME NEW p \in Proposals, AddFetchedPH(p) PROVE StoredOn(S)
    BY <1>3, StandingFacts, AddPHStored DEF AddFetchedPH, Trusted, Carriers
  <1>4. CASE StateMachineNext
    BY <1>4, StateMachineStepStored
  <1>5. ASSUME NEW c \in ReplayedHeaders, NEW room \in FetchRooms, Replay(c, room)
        PROVE  StoredOn(S)
    BY <1>5, ReplayStored
  <1>6. CASE SendToGossip \/ SendLagState
    BY <1>6, ReadersStored
  <1>7. CASE Crash \/ Restart
    BY <1>7, CrashRestartStored
  <1>8. CASE UNCHANGED vars
    <2>1. Extends(S, kernel.disk, kernel.disk)
      BY StandingFacts, SameRecordsExtend DEF SameRecords
    <2> QED BY <1>8, <2>1 DEF vars, StoredOn, Standing, Safe
  <1> QED BY <1>1, <1>2, <1>3, <1>4, <1>5, <1>6, <1>7, <1>8 DEF Next

-----------------------------------------------------------------------------
(* The mirror by itself: what was signed is what the model's goroutines       *)
(* bring, and what its state machine may sign.                                *)

MirrorSigned ==
    [x \in (Kinds \cup {"ph"}) \X Nat \X Nat \X Hashes |->
       IF x[1] = "ph"
       THEN {p.by : p \in {p \in Proposals : p.h = x[2] /\ p.r = x[3] /\ p.hash = x[4]}}
       ELSE IF ReplaysNear THEN Signed(x[1], x[2], x[3], x[4])
       ELSE UNION {Signed(x[1], x[2], q, x[4]) : q \in Rounds}]

Stored == Safe(MirrorSigned, kernel, hs, phQueue)

\* Who signed a vote.
LEMMA MirrorSignedVotes ==
    ASSUME NEW k \in Kinds, NEW h \in Nat, NEW r \in Nat, NEW b \in Hashes
    PROVE  /\ ReplaysNear => MirrorSigned[<<k, h, r, b>>] = Signed(k, h, r, b)
           /\ ~ReplaysNear =>
                MirrorSigned[<<k, h, r, b>>] = UNION {Signed(k, h, q, b) : q \in Rounds}
  <1>1. k # "ph" /\ <<k, h, r, b>> \in (Kinds \cup {"ph"}) \X Nat \X Nat \X Hashes
    BY DEF Kinds
  <1> QED BY <1>1 DEF MirrorSigned

\* What was signed for a round may be held there.
LEMMA SignedIsMirrorSigned ==
    ASSUME NEW k \in Kinds, NEW h \in Nat, NEW r \in Rounds, NEW b \in Hashes
    PROVE  Signed(k, h, r, b) \subseteq MirrorSigned[<<k, h, r, b>>]
  <1>1. r \in Nat
    BY HRType
  <1>2. Signed(k, h, r, b) \subseteq UNION {Signed(k, h, q, b) : q \in Rounds}
    OBVIOUS
  <1> QED BY <1>1, <1>2, MirrorSignedVotes

\* Whoever signed is a validator.
LEMMA SignedByValidators ==
    ASSUME NEW k, NEW h, NEW r, NEW b \in Hashes PROVE Signed(k, h, r, b) \subseteq Val
  <1>1. \A m \in VoteMessages : m.proofs[b] \subseteq Val
    BY InputAssumption DEF VoteMessage, Proofs
  <1>2. \A p \in Proposals : p.prev[b] \subseteq Val
    BY InputAssumption DEF Proposal, Proofs
  <1>3. \A c \in ReplayedHeaders : c.proofs[b] \subseteq Val
    BY InputAssumption DEF ReplayedHeader, Proofs
  <1>4. OwnKey \in Val
    BY InputAssumption
  <1> QED BY <1>1, <1>2, <1>3, <1>4 DEF Signed

\* Votes are signed for the rounds of the model only.
LEMMA SignedInRounds ==
    ASSUME NEW h, NEW r, NEW b, r \notin Rounds PROVE Signed("precommit", h, r, b) = {}
  <1>1. \A m \in VoteMessages : m.r # r
    BY InputAssumption DEF VoteMessage
  <1>2. \A p \in Proposals : p.prevR # r
    BY InputAssumption DEF Proposal
  <1>3. \A c \in ReplayedHeaders : c.r # r
    BY InputAssumption DEF ReplayedHeader
  <1>4. <<h, r>> \notin SMRounds
    BY InputAssumption, HRType
  <1> QED BY <1>1, <1>2, <1>3, <1>4 DEF Signed

\* The mirror's inputs are signatures.
LEMMA MirrorSignedType == MirrorSigned \in Signers
  <1> DEFINE D == (Kinds \cup {"ph"}) \X Nat \X Nat \X Hashes
             P(x) == {p.by : p \in {p \in Proposals : /\ p.h = x[2] /\ p.r = x[3]
                                                      /\ p.hash = x[4]}}
             V(x) == IF ReplaysNear THEN Signed(x[1], x[2], x[3], x[4])
                     ELSE UNION {Signed(x[1], x[2], q, x[4]) : q \in Rounds}
  <1>1. ASSUME NEW x \in D PROVE P(x) \subseteq Val
    BY InputAssumption DEF Proposal
  <1>2. ASSUME NEW x \in D PROVE V(x) \subseteq Val
    <2>1. x[4] \in Hashes
      OBVIOUS
    <2> QED BY <2>1, SignedByValidators
  <1>3. MirrorSigned = [x \in D |-> IF x[1] = "ph" THEN P(x) ELSE V(x)]
    BY DEF MirrorSigned
  <1> HIDE DEF D, P, V
  <1>4. MirrorSigned \in [D -> SUBSET Val]
    BY <1>1, <1>2, <1>3
  <1>5. "precommit" \in Kinds
    BY DEF Kinds
  <1>6. ASSUME ReplaysNear, NEW h \in Nat, NEW r \in Nat \ Rounds, NEW b \in Hashes
        PROVE  MirrorSigned[<<"precommit", h, r, b>>] = {}
    BY <1>5, <1>6, MirrorSignedVotes, SignedInRounds
  <1>7. ASSUME ~ReplaysNear, NEW k \in Kinds, NEW h \in Nat, NEW r \in Nat, NEW q \in Nat,
               NEW b \in Hashes
        PROVE  MirrorSigned[<<k, h, r, b>>] = MirrorSigned[<<k, h, q, b>>]
    <2> DEFINE U == UNION {Signed(k, h, n, b) : n \in Rounds}
    <2>1. MirrorSigned[<<k, h, r, b>>] = U /\ MirrorSigned[<<k, h, q, b>>] = U
      BY <1>7, MirrorSignedVotes
    <2> QED BY <2>1
  <1> QED BY <1>4, <1>6, <1>7 DEF Signers, D

\* The votes of a message were signed for the place it names.
LEMMA MessageGenuine ==
    ASSUME NEW m \in VoteMessages PROVE Genuine(MirrorSigned, m.kind, m.h, m.r, m.proofs)
  <1>1. m.kind \in Kinds /\ m.h \in Nat /\ m.r \in Rounds
    BY InputAssumption, HRType DEF VoteMessage
  <1>2. \A b \in Hashes : m.proofs[b] \subseteq Signed(m.kind, m.h, m.r, b)
    BY DEF Signed
  <1> QED BY <1>1, <1>2, SignedIsMirrorSigned DEF Genuine

\* The header of a message was made by its proposer, and the precommits in it
\* were signed for the height before it.
LEMMA ProposalCarries == Proposals \subseteq Carriers(MirrorSigned)
  <1> SUFFICES ASSUME NEW p \in Proposals PROVE p \in Carriers(MirrorSigned)
    OBVIOUS
  <1>1. p \in Proposal
    BY InputAssumption
  <1>2. /\ p.h \in Nat /\ p.h >= 1 /\ p.r \in Nat /\ p.hash \in Hashes /\ p.by \in Val
        /\ p.prevR \in Rounds
    <2>1. /\ p.h \in Heights /\ p.r \in Rounds /\ p.hash \in Blocks /\ p.by \in Val
          /\ p.prevR \in Rounds
      BY <1>1 DEF Proposal
    <2>2. p.h >= 1
      BY <2>1, BoundsAssumption DEF Heights
    <2> QED BY <2>1, <2>2, HRType, BlocksAreHashes
  <1>3. p.h - 1 \in Nat /\ (p.h - 1) + 1 = p.h
    BY <1>2
  <1>4. \A b \in Hashes : p.prev[b] \subseteq Signed("precommit", p.h - 1, p.prevR, b)
    BY <1>3 DEF Signed
  <1>5. Genuine(MirrorSigned, "precommit", p.h - 1, p.prevR, p.prev)
    BY <1>2, <1>3, <1>4, SignedIsMirrorSigned DEF Genuine, Kinds
  <1>6. MirrorSigned[<<"ph", p.h, p.r, p.hash>>]
          = {q.by : q \in {q \in Proposals : q.h = p.h /\ q.r = p.r /\ q.hash = p.hash}}
    BY <1>2 DEF MirrorSigned
  <1> QED BY <1>1, <1>5, <1>6 DEF Carriers

\* The precommits in a replayed header were signed for its round.
LEMMA ReplayGenuine ==
    ASSUME NEW c \in ReplayedHeaders
    PROVE  Genuine(MirrorSigned, "precommit", c.h, c.r, c.proofs)
  <1>1. c.h \in Nat /\ c.r \in Rounds
    BY InputAssumption, HRType DEF ReplayedHeader
  <1>2. \A b \in Hashes : c.proofs[b] \subseteq Signed("precommit", c.h, c.r, b)
    BY DEF Signed
  <1> QED BY <1>1, <1>2, SignedIsMirrorSigned DEF Genuine, Kinds

\* The state machine's own votes count as signed.
LEMMA OwnVoteSigned ==
    ASSUME NEW v \in SMVotes, NEW x \in SMRounds
    PROVE  OwnKey \in MirrorSigned[<<v[1], x[1], x[2], v[2]>>]
  <1>1. /\ v[1] \in Kinds /\ v[2] \in Hashes /\ v = <<v[1], v[2]>>
        /\ x[1] \in Nat /\ x[2] \in Rounds /\ x = <<x[1], x[2]>>
    <2>1. v \in Kinds \X Hashes /\ x \in Heights \X Rounds
      BY InputAssumption DEF HR
    <2>2. /\ v[1] \in Kinds /\ v[2] \in Hashes /\ v = <<v[1], v[2]>>
          /\ x[1] \in Heights /\ x[2] \in Rounds /\ x = <<x[1], x[2]>>
      BY <2>1
    <2> QED BY <2>2, HRType
  <1>2. OwnKey \in Signed(v[1], x[1], x[2], v[2])
    BY <1>1 DEF Signed
  <1> QED BY <1>1, <1>2, SignedIsMirrorSigned

\* Every step of the mirror by itself keeps Stored.
LEMMA MirrorNextStored ==
    ASSUME TypeOK, Placed, Stored, [Next]_vars PROVE StoredOn(MirrorSigned)
  <1>1. Trusted(MirrorSigned)
    BY MessageGenuine, ProposalCarries DEF Trusted
  <1>2. Standing(MirrorSigned)
    BY InvariantsStand DEF Stored
  <1> QED BY <1>1, <1>2, MirrorSignedType, ReplayGenuine, OwnVoteSigned, NextStored

-----------------------------------------------------------------------------
\* In every behaviour, for all validators, powers, messages, replayed headers
\* and bounds, whatever is held or stored was signed for its place, a header is
\* stored as committed only with the precommits of a majority, and the views
\* hold what is stored: the inductive invariant of the theorems below
\* (addPrevote, addPrecommit, addProposedHeader, commitVotedHeader, NewKernel).
THEOREM StoredAlways == Spec => []Stored
<1>1. Init => Stored
  <2> SUFFICES ASSUME Init PROVE Stored
    OBVIOUS
  <2>1. Good(MirrorSigned, kernel) /\ kernel.torn = {}
    BY MirrorSignedType, EmptyDiskType, EmptyDiskComplete, EmptyDiskGood, NilIsHash,
       NewKernelGood DEF Init
  <2>2. \A c \in Handlers : Honest(MirrorSigned, hs[c])
    BY IdleHonest DEF Init
  <2>3. phQueue \in Seq(Carriers(MirrorSigned))
    BY DEF Init
  <2> QED BY <2>1, <2>2, <2>3 DEF Stored, Safe, Good
<1>2. TypeOK /\ Placed /\ Stored /\ [Next]_vars => Stored'
  BY MirrorNextStored DEF StoredOn, Stored
<1> QED BY <1>1, <1>2, TypeCorrect, PlacedAlways, PTL DEF Spec

\* The vote summaries that view shifts are decided on are those of the votes
\* held, after every merge, shift, backfill, replay and restart
\* (addPrevote, addPrecommit, handleReplayedHeader): the part of what TLC checks
\* as NoMissedCommit that does not depend on the messages.
THEOREM SummariesCurrentAlways == Spec => []SummariesCurrent
<1>1. Stored => SummariesCurrent
  BY DEF Stored, Safe, Good, Summed, SummariesCurrent
<1> QED BY <1>1, StoredAlways, PTL

\* A header that is stored as committed is stored with precommits of more than
\* two thirds of the power, each of them signed for that header at that height:
\* the part of CommitJustified that needs no assumption about the headers that
\* are replayed (commitVotedHeader, saveCurrentCommittingHeader).
CommitsBacked ==
    \A h \in Heights :
      LET c == kernel.disk.headers[h]
      IN c.hash # Nil =>
           /\ BlockPower(c.proofs, c.hash) >= Majority
           /\ c.proofs[c.hash] \subseteq UNION {Signed("precommit", h, r, c.hash) : r \in Rounds}

\* Commit proofs are backed by signatures in every behaviour of the mirror.
THEOREM CommitsBackedAlways == Spec => []CommitsBacked
<1>1. TypeOK /\ Stored => CommitsBacked
  <2> SUFFICES ASSUME TypeOK, Stored, NEW h \in Heights,
                      kernel.disk.headers[h].hash # Nil
               PROVE  LET c == kernel.disk.headers[h]
                      IN /\ BlockPower(c.proofs, c.hash) >= Majority
                         /\ c.proofs[c.hash]
                              \subseteq UNION {Signed("precommit", h, r, c.hash) : r \in Rounds}
    BY DEF CommitsBacked
  <2> DEFINE c == kernel.disk.headers[h]
  <2>1. c.hash \in Hashes /\ c.proofs \in Proofs /\ c.r \in Nat /\ h \in Nat
    BY KernelDisk, HRType DEF TypeOK, Disk
  <2>2. /\ BlockPower(c.proofs, c.hash) >= Majority
        /\ Genuine(MirrorSigned, "precommit", h, c.r, c.proofs)
    BY DEF Stored, Safe, GoodDisk, GenuineDisk
  <2> HIDE DEF c
  <2>3. /\ c.proofs[c.hash] \subseteq MirrorSigned[<<"precommit", h, c.r, c.hash>>]
        /\ "precommit" \in Kinds
    BY <2>1, <2>2 DEF Genuine, Kinds
  <2>4. CASE ReplaysNear
    <3>1. c.r \in Rounds
      BY <2>1, <2>2, <2>4, MirrorSignedType, GenuineDecides
    <3>2. c.proofs[c.hash] \subseteq Signed("precommit", h, c.r, c.hash)
      BY <2>1, <2>3, <2>4, MirrorSignedVotes
    <3>3. c.proofs[c.hash] \subseteq UNION {Signed("precommit", h, r, c.hash) : r \in Rounds}
      BY <3>1, <3>2
    <3> QED BY <2>2, <3>3 DEF c
  <2>5. CASE ~ReplaysNear
    <3>1. c.proofs[c.hash] \subseteq UNION {Signed("precommit", h, r, c.hash) : r \in Rounds}
      BY <2>1, <2>3, <2>5, MirrorSignedVotes
    <3> QED BY <2>2, <3>1 DEF c
  <2> QED BY <2>4, <2>5
<1> QED BY <1>1, TypeCorrect, StoredAlways, PTL

\* If no replayed header is of a round out of jumpVotingRound's reach, a header
\* is stored as committed only if validators with more than two thirds of the
\* power signed precommits for it, at that height and in the round that the
\* commit proof names: what TLC checks as CommitJustified
\* (checkVotingPrecommitViewShift, saveCurrentCommittingHeader).
THEOREM CommitJustifiedAlways == ASSUME ReplaysNear PROVE Spec => []CommitJustified
<1>1. TypeOK /\ Stored => CommitJustified
  <2> SUFFICES ASSUME TypeOK, Stored, NEW h \in Heights,
                      kernel.disk.headers[h].hash # Nil
               PROVE  LET c == kernel.disk.headers[h]
                      IN /\ PowerOf[Signed("precommit", h, c.r, c.hash)] >= Majority
                         /\ BlockPower(c.proofs, c.hash) >= Majority
    BY DEF CommitJustified
  <2> DEFINE c == kernel.disk.headers[h]
  <2>1. c.hash \in Hashes /\ c.proofs \in Proofs /\ c.r \in Nat /\ h \in Nat
    BY KernelDisk, HRType DEF TypeOK, Disk
  <2>2. /\ BlockPower(c.proofs, c.hash) >= Majority
        /\ Genuine(MirrorSigned, "precommit", h, c.r, c.proofs)
    BY DEF Stored, Safe, GoodDisk, GenuineDisk
  <2> HIDE DEF c
  <2>3. Decided(MirrorSigned, h, c.r, c.hash)
    BY <2>1, <2>2, MirrorSignedType, GenuineDecides
  <2>4. MirrorSigned[<<"precommit", h, c.r, c.hash>>] = Signed("precommit", h, c.r, c.hash)
    BY <2>1, MirrorSignedVotes DEF Kinds
  <2> QED BY <2>2, <2>3, <2>4 DEF Decided, c
<1> QED BY <1>1, TypeCorrect, StoredAlways, PTL

\* If no replayed header is of a round out of reach, a running kernel holds in
\* its three views exactly the votes and the proposed headers that it has
\* stored for them, so that a crash between two handlers loses nothing: what TLC
\* checks as ViewsMatchDisk (addPrevote, addPrecommit, addProposedHeader,
\* handleReplayedHeader, NewKernel).
THEOREM ViewsMatchDiskAlways == ASSUME ReplaysNear PROVE Spec => []ViewsMatchDisk
<1>1. Stored => ViewsMatchDisk
  BY DEF Stored, Safe, Good, GoodView, MirroredView, ViewsMatchDisk
<1> QED BY <1>1, StoredAlways, PTL

\* The voting height and round that the mirror store names never go back, in no
\* handler, crash or restart (updateObservers, NewKernel).
PlaceProgress ==
    [][LET n == kernel.disk.nhr
           m == kernel'.disk.nhr
       IN m.vh > n.vh \/ (m.vh = n.vh /\ m.vr >= n.vr)]_vars

\* The stored place only moves forward in every behaviour of the mirror, for
\* all values of the constants.
THEOREM PlaceProgressAlways == Spec => PlaceProgress
<1>1. TypeOK /\ Placed /\ Stored /\ [Next]_vars
        => Extends(MirrorSigned, kernel.disk, kernel'.disk)
  BY MirrorNextStored DEF StoredOn
<1>2. Extends(MirrorSigned, kernel.disk, kernel'.disk)
        => [LET n == kernel.disk.nhr
                m == kernel'.disk.nhr
            IN m.vh > n.vh \/ (m.vh = n.vh /\ m.vr >= n.vr)]_vars
  BY DEF Extends
<1> QED BY <1>1, <1>2, TypeCorrect, PlacedAlways, StoredAlways, PTL DEF Spec, PlaceProgress

\* If replayed headers are within reach and the validators never decide two
\* blocks at one height, a committed header is never replaced by a different
\* one and the stored place never goes back, crashes included: what TLC checks
\* as StoredProgress (commitVotedHeader, saveCurrentCommittingHeader).
THEOREM StoredProgressAlways ==
    ASSUME ReplaysNear, Agreement(MirrorSigned) PROVE Spec => StoredProgress
<1>1. TypeOK /\ Placed /\ Stored /\ [Next]_vars
        => Extends(MirrorSigned, kernel.disk, kernel'.disk)
  BY MirrorNextStored DEF StoredOn
<1>2. Extends(MirrorSigned, kernel.disk, kernel'.disk)
        => [LET n == kernel.disk.nhr
                m == kernel'.disk.nhr
            IN /\ \A h \in Heights : kernel.disk.headers[h].hash # Nil =>
                     kernel'.disk.headers[h].hash = kernel.disk.headers[h].hash
               /\ m.vh > n.vh \/ (m.vh = n.vh /\ m.vr >= n.vr)]_vars
  BY DEF Extends
<1> QED BY <1>1, <1>2, TypeCorrect, PlacedAlways, StoredAlways, PTL DEF Spec, StoredProgress
=============================================================================
