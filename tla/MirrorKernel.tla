----------------------------- MODULE MirrorKernel ----------------------------
(***************************************************************************)
(* The handlers of the mirror kernel's main loop (tmi/kernel.go), each an  *)
(* operator from the kernel state to the next one.                         *)
(*                                                                         *)
(* addPrevote and addPrecommit are kept textually synchronized in the      *)
(* code; they are one operator here, with the vote kind as a parameter.    *)
(***************************************************************************)
EXTENDS MirrorState

-----------------------------------------------------------------------------
(* Fetching proposed headers that the votes refer to. *)

\* Also asks for the header of a nil vote.
checkMissingPHsNil(w, h, proofs) ==
    LET have == IF h = w.voting.h THEN {p.hash : p \in w.voting.phs} ELSE {}
        want == {b \in Hashes \ have : /\ proofs[b] # {}
                                       /\ <<h, b>> \notin w.inFlight
                                       /\ BlockPower(proofs, b) >= Minority}
    IN [w EXCEPT !.inFlight = @ \cup {<<h, b>> : b \in want \cap (w.room \cup {Nil})}]

\* proofs are the votes at height h, which the code's fetch request names only
\* implicitly (it carries the Voting height with the hash).  Block hashes of different heights are
\* different, so a header held in the Voting view never matches a hash voted
\* for at another height.
checkMissingPHs(w, h, proofs) ==
    LET have == IF h = w.voting.h THEN {p.hash : p \in w.voting.phs} ELSE {}
        want == {b \in Blocks \ have : /\ proofs[b] # {}
                                       /\ <<h, b>> \notin w.inFlight
                                       /\ BlockPower(proofs, b) >= Minority}
    IN [w EXCEPT !.inFlight = @ \cup {<<h, b>> : b \in want \cap w.room}]

-----------------------------------------------------------------------------
(* View shift checks. *)

advanceVotingRound(w) == updateObservers(AdvanceVotingRound(w))
jumpVotingRound(w)    == updateObservers(JumpVotingRound(w))

\* Records the new height before the header that it commits is stored.
commitVotedHeaderLate(w, hash) ==
    LET w1 == updateObservers(ShiftVotingToCommitting(w, hash))
    IN SaveCommittedHeader(w1, w1.committing.h, hash, w1.voting.prev)

commitVotedHeader(w, hash) ==
    LET w1 == ShiftVotingToCommitting(w, hash)
    IN updateObservers(
         SaveCommittedHeader(w1, w1.committing.h, hash, w1.voting.prev))

\* Commits the most voted block once it holds a third of the power.
checkVotingPrecommitViewShiftAtMinority(w) ==
    LET sum  == w.voting.sum["precommit"]
        hash == MostVotedHash(sum)
    IN IF BlockPower(sum, Nil) >= Majority THEN advanceVotingRound(w)
       ELSE IF BlockPower(sum, hash) >= Minority /\ \E p \in w.voting.phs : p.hash = hash
            THEN commitVotedHeader(w, hash) ELSE w

\* Gives the round up as soon as a majority has precommitted anything.
checkVotingPrecommitViewShiftImpatient(w) ==
    LET sum  == w.voting.sum["precommit"]
        hash == MostVotedHash(sum)
    IN IF BlockPower(sum, hash) < Majority
       THEN IF TotalPower(sum) >= Majority
            THEN advanceVotingRound(w) ELSE w
       ELSE IF hash = Nil THEN advanceVotingRound(w)
       ELSE IF \E p \in w.voting.phs : p.hash = hash
            THEN commitVotedHeader(w, hash) ELSE w

checkVotingPrecommitViewShift(w) ==
    LET sum  == w.voting.sum["precommit"]
        hash == MostVotedHash(sum)
    IN IF BlockPower(sum, hash) < Majority
       THEN IF TotalPower(sum) = AvailablePower
            THEN advanceVotingRound(w) ELSE w
       ELSE IF hash = Nil THEN advanceVotingRound(w)
       ELSE IF \E p \in w.voting.phs : p.hash = hash
            THEN commitVotedHeader(w, hash)
            ELSE w   \* stuck in this round until the header is fetched

checkNextRoundPrecommitViewShift(w) ==
    LET sum    == w.nextRound.sum["precommit"]
        maxPow == BlockPower(sum, MostVotedHash(sum))
        w1     == jumpVotingRound(w)
    IN IF TotalPower(sum) < Minority THEN w
       ELSE IF maxPow >= Majority THEN Panic(w1)
       ELSE IF maxPow >= Minority
            THEN checkMissingPHs(w1, w1.voting.h, w1.voting.proofs["precommit"])
            ELSE w1

checkPrevoteViewShift(w) ==
    LET sum    == w.nextRound.sum["prevote"]
        maxPow == BlockPower(sum, MostVotedHash(sum))
        w1     == jumpVotingRound(w)
    IN IF TotalPower(sum) < Minority THEN w
       ELSE IF maxPow >= Minority
            THEN checkMissingPHs(w1, w1.voting.h, w1.voting.proofs["prevote"])
            ELSE w1

-----------------------------------------------------------------------------
(* addPrevote, addPrecommit. *)

\* An update u: for each hash of u.dom the merged proof and the version of the
\* proof it was merged into.
Update == [dom : SUBSET Hashes, ver : [Hashes -> Nat], proofs : Proofs]

\* Takes every proof of the request for current.
CurrentUnchecked(v, kind, u) == u.dom

Current(v, kind, u) == {h \in u.dom : u.ver[h] = v.ver[kind][h]}

AddVoteResult(w, kind, h, r, u) ==
    LET id == FindView(w, h, r)
    IN IF id \in FoundIDs
       THEN IF Current(GetView(w, id), kind, u) = u.dom
            THEN "accepted" ELSE "conflict"
       ELSE "outOfDate"

ApplyUpdate(v, kind, u) ==
    LET now    == Current(v, kind, u)
        proofs == [h \in Hashes |-> IF h \in now THEN u.proofs[h]
                                    ELSE v.proofs[kind][h]]
    IN [v EXCEPT !.proofs[kind] = proofs, !.sum[kind] = proofs,
                 !.ver[kind] = [h \in Hashes |-> IF h \in now THEN @[h] + 1
                                                 ELSE @[h]]]

\* The shift checks that follow an accepted vote.
ShiftAfterVote(w, kind, id) ==
    CASE kind = "precommit" /\ id = "voting" -> checkVotingPrecommitViewShift(w)
      [] kind = "precommit" /\ id = "nextRound" -> checkNextRoundPrecommitViewShift(w)
      [] kind = "prevote" /\ id = "nextRound" -> checkPrevoteViewShift(w)
      [] OTHER -> w

\* Shifts the view before the votes that justify the shift are stored.
addVoteStoredLast(w, kind, h, r, u) ==
    LET id == FindView(w, h, r)
        v  == GetView(w, id)
        w1 == MarkViewUpdated(PutView(w, id, ApplyUpdate(v, kind, u)), id)
        w2 == IF Current(v, kind, u) = u.dom THEN ShiftAfterVote(w1, kind, id)
              ELSE w1
    IN IF id \notin FoundIDs THEN w
       ELSE OverwriteRoundProofs(w2, kind, h, r,
                                 ApplyUpdate(v, kind, u).proofs[kind])

addVote(w, kind, h, r, u) ==
    LET id  == FindView(w, h, r)
        v   == GetView(w, id)
        v1  == ApplyUpdate(v, kind, u)
        w1  == IF Current(v, kind, u) = {} THEN w
               ELSE OverwriteRoundProofs(
                      MarkViewUpdated(PutView(w, id, v1), id),
                      kind, h, r, v1.proofs[kind])
        w2  == checkMissingPHs(w1, h, v1.proofs[kind])
    IN IF id \in {"beforeCommitting", "orphaned"} THEN w
       ELSE IF id \notin FoundIDs THEN Panic(w)
       ELSE IF Current(v, kind, u) = u.dom THEN ShiftAfterVote(w2, kind, id)
       ELSE w2

-----------------------------------------------------------------------------
(* addProposedHeader.  p is a proposed header; p.prev and p.prevR are its   *)
(* PrevCommitProof.                                                         *)

\* Merges the precommits for the previous height that the header carries.
\* Signatures made for another round do not verify and are not merged.  The
\* proofs change in place: neither their block versions nor the vote summary
\* of the Committing view follow.
BackfillCommitting(w, p) ==
    LET have  == w.committing.proofs["precommit"]
        extra == IF p.prevR = w.committing.r THEN p.prev ELSE NoProofs
        both  == [h \in Hashes |-> have[h] \cup extra[h]]
    IN IF \E h \in Hashes : p.prev[h] # {} /\ have[h] = {} THEN Panic(w)
       ELSE IF both = have THEN w
       ELSE MarkCommittingViewUpdated(
              OverwriteRoundProofs(
                [w EXCEPT !.committing.proofs["precommit"] = both],
                "precommit", p.h - 1, p.prevR, both))

\* Accepts the header without checking what the votes are waiting for.
addProposedHeaderNoShift(w, p) ==
    LET w1 == [w EXCEPT !.inFlight = @ \ {<<p.h, p.hash>>}]
        id == FindView(w1, p.h, p.r)
        ph == [hash |-> p.hash, by |-> p.by]
    IN IF id \notin FoundIDs THEN w1
       ELSE MarkViewUpdated(
              PutView(w1, id, [GetView(w1, id) EXCEPT !.phs = @ \cup {ph}]), id)

addProposedHeader(w, p) ==
    LET w1 == [w EXCEPT !.inFlight = @ \ {<<p.h, p.hash>>}]
        id == FindView(w1, p.h, p.r)
        v  == GetView(w1, id)
        ph == [hash |-> p.hash, by |-> p.by]
        w2 == MarkViewUpdated(
                SaveRoundProposedHeader(
                  PutView(w1, id, [v EXCEPT !.phs = @ \cup {ph}]),
                  p.h, p.r, ph), id)
        w3 == BackfillCommitting(SetLagUpToDate(w2), p)
    IN IF id = "panic" THEN Panic(w1)
       ELSE IF id \notin FoundIDs THEN w1
       ELSE IF ph \in v.phs THEN w1
       ELSE IF id = "committing" THEN w2
       ELSE IF ~w3.panic /\ id = "voting" /\ w3.voting.proofs["precommit"][p.hash] # {}
            THEN checkVotingPrecommitViewShift(w3)
            ELSE w3

-----------------------------------------------------------------------------
(* The local state machine. *)

handleStateMachineRoundEntrance(w, h, r) ==
    LET w1 == [w EXCEPT !.sm = [@ EXCEPT !.h = h, !.r = r, !.live = TRUE,
                                         !.closed = FALSE, !.sent = 0,
                                         !.jump = ZeroView]]
        id == FindView(w1, h, r)
    IN IF id \in FoundIDs
       THEN [w1 EXCEPT !.sm.sent = GetView(w1, id).version]
       ELSE IF id = "beforeCommitting" /\ w.disk.headers[h].hash # Nil
            THEN w1   \* answered with the committed header
            ELSE Panic(w1)

\* A vote of the state machine's own key, for the round it has entered.
handleStateMachineVote(w, kind, hash, own) ==
    LET id == FindView(w, w.sm.h, w.sm.r)
        v  == GetView(w, id)
        u  == [dom |-> {hash}, ver |-> v.ver[kind],
               proofs |-> [v.proofs[kind] EXCEPT ![hash] = @ \cup {own}]]
    IN IF id = "panic" THEN Panic(w)
       ELSE IF id \notin {"voting", "committing"} THEN w
       ELSE addVote(w, kind, w.sm.h, w.sm.r, u)

-----------------------------------------------------------------------------
(* handleReplayedHeader.  c is a committed header with its commit proof:    *)
(* height, hash, round and proofs.                                          *)

\* The round advances by one, however far ahead the proof is, and before
\* anything about the header has been checked.
ReachReplayedRound(w, c) == IF c.r > w.voting.r THEN jumpVotingRound(w) ELSE w

\* Merging into a proof that was started for another round fails to verify.
ReplayedProofsValid(w, c) ==
    c.r = w.voting.r \/
    \A h \in Hashes : c.proofs[h] = {} \/ w.voting.proofs["precommit"][h] = {}

ReplayedHeaderRejected(w, c) ==
    \E r \in Rounds : \E p \in w.disk.phs[<<c.h, r>>] : p.hash = c.hash

handleReplayedHeader(w, c) ==
    LET w1 == ReachReplayedRound(w, c)
        known == \E p \in w1.voting.phs : p.hash = c.hash
        w2 == IF known THEN w1
              ELSE [SaveRoundReplayedHeader(w1, c.h, c.hash) EXCEPT
                      !.voting.phs = @ \cup {[hash |-> c.hash, by |-> NoProposer]}]
        both == [h \in Hashes |-> w2.voting.proofs["precommit"][h] \cup c.proofs[h]]
        w3 == OverwriteRoundProofs(
                [w2 EXCEPT !.voting = [@ EXCEPT !.proofs["precommit"] = both,
                                                !.sum["precommit"] = both]],
                "precommit", c.h, c.r, both)
    IN IF c.h # w.voting.h THEN w
       ELSE IF c.r < w.voting.r THEN Panic(w)
       ELSE IF ~ReplayedProofsValid(w1, c) THEN w1
       ELSE IF ~known /\ ReplayedHeaderRejected(w1, c) THEN Panic(w1)
       ELSE IF BlockPower(both, c.hash) < Majority THEN w2
       ELSE checkVotingPrecommitViewShift(w3)

-----------------------------------------------------------------------------
(* The part of Mirror.HandleProposedHeader and of the vote handlers that is   *)
(* computed from the answer to a request.                                   *)

\* Does not ask for the versions of the proofs it merges into.
MergedUpdateUnversioned(v, m) ==
    LET dom == {x \in Hashes : ~(m.proofs[x] \subseteq v.proofs[m.kind][x])}
    IN [dom |-> dom, ver |-> NoVersions,
        proofs |-> [x \in Hashes |-> IF x \in dom
                                     THEN v.proofs[m.kind][x] \cup m.proofs[x]
                                     ELSE {}]]

\* getSignaturesToAdd and the merge: for every hash with a new signature, the
\* merged proof and the version of the proof it was merged into.
MergedUpdate(v, m) ==
    LET dom == {x \in Hashes : ~(m.proofs[x] \subseteq v.proofs[m.kind][x])}
    IN [dom |-> dom,
        ver |-> [x \in Hashes |-> IF x \in dom THEN v.ver[m.kind][x] ELSE 0],
        proofs |-> [x \in Hashes |-> IF x \in dom
                                     THEN v.proofs[m.kind][x] \cup m.proofs[x]
                                     ELSE {}]]

\* sendPHCheckResponse, with the checks of HandleProposedHeader on its answer.
\* A header for the committing view is acceptable at the initial height only:
\* at any other the kernel has no previous validator set to answer with.
PHCheckIn(v, p, comparable) ==
    IF [hash |-> p.hash, by |-> p.by] \in v.phs \/ ~comparable
    THEN "drop" ELSE "acceptable"

PHCheck(w, p) ==
    IF p.h < w.committing.h THEN "drop"
    ELSE IF p.h = w.committing.h
    THEN IF p.r < w.committing.r THEN "drop"
         ELSE IF p.r = w.committing.r
         THEN PHCheckIn(w.committing, p, p.h = InitialHeight) ELSE "panic"
    ELSE IF p.h = w.voting.h
    THEN IF p.r < w.voting.r THEN "drop"
         ELSE IF p.r = w.voting.r THEN PHCheckIn(w.voting, p, TRUE)
         ELSE IF p.r = w.voting.r + 1 THEN PHCheckIn(w.nextRound, p, TRUE)
         ELSE "panic"
    ELSE IF p.h = w.voting.h + 1 THEN "nextHeight" ELSE "drop"

-----------------------------------------------------------------------------
(* NewKernel. *)

NoSM == [h |-> 0, r |-> 0, live |-> FALSE, closed |-> FALSE, sent |-> 0,
         jump |-> ZeroView, out |-> ZeroView]

NothingSent == [view |-> ZeroView, sent |-> <<0, 0, 0>>]

\* The kernel state before anything is loaded.
BlankKernel(d) ==
    [up |-> FALSE, voting |-> ZeroView, committing |-> ZeroView,
     nextRound |-> ZeroView, committingHeader |-> Nil, inFlight |-> {},
     gossip |-> [committing |-> NothingSent, voting |-> NothingSent,
                 nextRound |-> NothingSent, nilVoted |-> ZeroView],
     sm |-> NoSM, lag |-> [status |-> "initializing", ch |-> 0, sent |-> FALSE],
     shared |-> FALSE, disk |-> d, torn |-> {}, panic |-> FALSE, room |-> {}]

\* No message is about a round outside HR, so nothing is stored there.
loadInitialView(d, h, r) ==
    IF <<h, r>> \in HR
    THEN LET proofs == [k \in Kinds |-> d.votes[k][<<h, r>>]]
         IN [ZeroView EXCEPT !.h = h, !.r = r, !.phs = LoadedPHs(d, h, r),
                             !.proofs = proofs, !.sum = proofs]
    ELSE [ZeroView EXCEPT !.h = h, !.r = r]

\* The loop that looks for the committing hash keeps the first hash of
\* highest power that it meets, in the order of a Go map.
CommittingHashes(proofs) ==
    {b \in Hashes : /\ proofs[b] # {}
                    /\ \A g \in Hashes : BlockPower(proofs, g) <= BlockPower(proofs, b)}

loadInitialCommittingView(w, hash) ==
    LET d  == w.disk
        v  == loadInitialView(d, d.nhr.ch, d.nhr.cr)
        w1 == MarkCommittingViewUpdated([w EXCEPT !.committing = v])
    IN [w1 EXCEPT
          !.committingHeader = hash,
          !.committing.prev = IF v.h > InitialHeight
                              THEN [r |-> d.headers[v.h - 1].r,
                                    proofs |-> d.headers[v.h - 1].proofs]
                              ELSE NoCommit]

\* Starts the stored voting height over.
loadInitialVotingViewFirstRound(w) ==
    LET n  == w.disk.nhr
        w1 == MarkVotingViewUpdated(
                [w EXCEPT !.voting = loadInitialView(w.disk, n.vh, 0)])
    IN MarkNextRoundViewUpdated(
         [w1 EXCEPT !.nextRound = loadInitialView(w.disk, n.vh, 1)])

loadInitialVotingView(w) ==
    LET n  == w.disk.nhr
        w1 == MarkVotingViewUpdated(
                [w EXCEPT !.voting = loadInitialView(w.disk, n.vh, n.vr)])
    IN MarkNextRoundViewUpdated(
         [w1 EXCEPT !.nextRound = loadInitialView(w.disk, n.vh, n.vr + 1)])

\* The precommits stored for the committing round become the previous commit
\* proof of the views at the voting height, which share one map of them.
SetPrevCommitProof(w) ==
    LET n    == w.disk.nhr
        prev == IF n.ch \in Heights
                THEN [r |-> n.cr,
                      proofs |-> loadInitialView(w.disk, n.ch, n.cr).proofs["precommit"]]
                ELSE NoCommit
    IN [w EXCEPT !.voting.prev = prev, !.nextRound.prev = prev, !.shared = TRUE]

HasCommitting(d) == d.nhr.ch >= InitialHeight

NewKernel(d, hash) ==
    LET w1 == BlankKernel(d)
        w2 == IF HasCommitting(d) THEN loadInitialCommittingView(w1, hash) ELSE w1
        w3 == updateObservers(SetPrevCommitProof(loadInitialVotingView(w2)))
    IN [w3 EXCEPT !.up = TRUE, !.torn = {}]

\* What NewKernel needs to find on disk: precommits in the committing round,
\* a header for each hash it may pick as the committing one, and the committed
\* header of the height before.
Loadable(d) ==
    HasCommitting(d) =>
      LET v == loadInitialView(d, d.nhr.ch, d.nhr.cr)
      IN /\ CommittingHashes(v.proofs["precommit"]) # {}
         /\ \A b \in CommittingHashes(v.proofs["precommit"]) :
               \E p \in v.phs : p.hash = b
         /\ d.nhr.ch > InitialHeight => d.headers[d.nhr.ch - 1].hash # Nil

StartHashes(d) ==
    IF HasCommitting(d)
    THEN CommittingHashes(
           loadInitialView(d, d.nhr.ch, d.nhr.cr).proofs["precommit"])
    ELSE {Nil}
=============================================================================
