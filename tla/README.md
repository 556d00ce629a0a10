# A TLA+ model of the Gordian consensus engine

Gordian is a Tendermint-style consensus engine in Go.  Its core is the
*mirror*, which tracks what the network has voted for, and the *state machine*,
which takes part in the consensus on behalf of the local validator.  This
directory models the engine's own logic in TLA+, checks it with TLC on small
instances and proves theorems about it with TLAPS.

Source paths below are relative to the repository.
`tmi/` is `tm/tmengine/internal/tmmirror/internal/tmi/`,
`tmmirror/` is `tm/tmengine/internal/tmmirror/`, `tmstate/` is `tm/tmengine/internal/tmstate/`.

## Inventory

| Component | State | Operations | Interaction |
|---|---|---|---|
| Vote summary and thresholds (`tm/tmconsensus/votesummary.go`, `math.go`) | powers per hash, total, winner | `SetPrevotePowers`, `SetPrecommitPowers`, `ByzantineMajority`, `ByzantineMinority` | called by the kernel whenever votes change |
| Mirror kernel (`tmi/kernel.go`, `kstate.go`) | three views (Committing, Voting, NextRound), fetches in flight, committing header | one handler per channel of the main loop | one goroutine; everybody else talks to it over channels |
| Mirror entry points (`tmmirror/mirror.go`) | none of their own between calls | `HandleProposedHeader`, `HandlePrevoteProofs`, `HandlePrecommitProofs` | many goroutines, each making several requests to the kernel per call |
| View managers (`tmi/gossipviewmanager.go`, `statemachineviewmanager.go`, `lag.go`) | the views to send, what was sent last | `Output`, `MarkSent` | owned by the kernel, read by gossip strategy, state machine and driver |
| Stores (`tm/tmstore`) | headers, rounds, network height and round | save, overwrite, load | written by the kernel, read at start |
| State machine (`tmstate/statemachine.go`, `internal/tsi/roundlifecycle.go`, `step.go`) | round lifecycle: height, round, step, timer, pending actions | view updates, timers, proposals, finalization | one goroutine; enters rounds at the mirror, sends its actions to it, receives views |
| Consensus manager (`tmstate/internal/tsi/consensusmanager.go`) | the request it works on | enter round, consider, choose, decide precommit | a goroutine that calls the application's strategy; unbuffered requests, results to channels of the round |
| Round timer (`tmstate/roundtimer.go`) | one `time.Timer` and the channels made for it | four kinds of timer, cancel | a goroutine of its own; the state machine asks and cancels over unbuffered channels |
| Engine (`tm/tmengine/engine.go`) | none after start | assembly, `InitChain` | starts mirror and state machine |
| Watchdog (`gwatchdog`) | a monitor per main loop, the root context | `Monitor`, `Terminate`, `Wait` | signals each main loop, ends the context of the process if one does not answer |
| Gossip strategy (`tm/tmgossip`) | the last views read | broadcast on view update | reads the mirror's gossip output, writes the outgoing channels of the connection |
| Connections (`tm/tmp2p/tmlibp2p`, `tm/tmp2p/tmp2ptest`) | consensus handler, neighbours or topic | broadcast, forward, set handler, disconnect | hand what arrives to the mirror through a feedback mapper, and pass it on |
| Consensus handlers (`tm/tmconsensus/handler.go`, `tm/tmconsensus/feedbackmapper.go`, result types) | none | map the mirror's result to accept, reject, ignore | between connection and mirror |
| Signature proofs (`gcrypto`, `gcrypto/gblsminsig`) | signature per key, or a tree of aggregates | `AddSignature`, `Merge`, `MergeSparse`, `AsSparse`, ... | inside views |
| Transaction buffer (`gdriver/gtxbuf`) | base state, current state, pending transactions | `Initialize`, `AddTx`, `Buffered`, `Rebase` | one goroutine, called by the driver and by the network |
| Channel helpers (`gchan`) | none | `SendC`, `RecvC`, `ReqResp` | how all goroutines talk to each other |
| Codec, erasure coding, commands, tests | | | |

What is hard here: handler goroutines hold a copy of a view between two
requests to the kernel (stale updates); votes, headers, replays and fetched
headers arrive in any order; the kernel makes several store calls in one
handler, and the process may die between two of them; view shifts recycle
views; consumers read late; the local state machine may be a round or a height
behind, blocks on a strategy that takes its time, and records each action in a
store before it sends it; goroutines wait for each other on unbuffered or full
channels while contexts end; what a mirror learned must reach the others through
a strategy that looks at counts only and connections that come and go; a
signature may arrive alone or within an aggregate that overlaps another.  PROJECT.json lists these hazards at their lines.

## Modules

- `Votes`: validators, hashes, proof maps, thresholds, the reference definition
  of a vote summary.  A block hash is its rank in string order, nil is rank 0.
  A signature proof is the set of its signers.  Power is an additive measure
  `PowerOf` on sets of validators, an arbitrary constant.
- `VoteSummary`: the loop of `SetPrecommitPowers` (and of its twin
  `SetPrevotePowers`), one step per map entry, in any order.
- `MirrorState`: the kernel's state record `w` and the methods of `kState`, the
  stores and the view managers.
- `MirrorKernel`: the kernel's handlers, as operators from `w` to the next `w`.
- `Mirror`: the state machine in TLA+ sense: kernel, handler goroutines, the
  channel of proposed headers, local state machine, driver, crashes, restarts.
  Properties are at the end of this module.
- `StateMachine`: the state machine's record `s`, its handlers and the consensus manager, as
  operators from `s` to the next `s`.
- `Engine`: extends `Mirror` and `StateMachine` and composes them: one action per event of the
  state machine's loop and per answer of the consensus manager, the state machine's stores,
  crashes of the whole process.
- `TxPool`, `TxBuffer`: what a transaction buffer promises, and `gdriver/gtxbuf` as it is.
- `RoundTimer`, `Watchdog`, `Supervision`: the timer goroutine with its caller, the monitors with
  their main loops, and both together on one root context.
- `SignerSet`, `SigTree`, `SignatureProof`: a proof as the set of its signers, the tree of BLS
  keys and aggregates, and the two implementations of a signature proof.
- `ConsensusHandler`, `ChattyStrategy`, `DaisyChain`, `Libp2pConnection`, `Gossip`: a network of
  nodes, each with a mirror kernel (the operators of `MirrorKernel`), a feedback mapper, the
  chatty strategy and a connection of one of the two kinds.
- `MCVoteSummary`, `MCMirror`, `MCEngine`, `MCTxBuffer`, `MCSupervision`, `MCSignatureProof`,
  `MCGossip`: instances for TLC.
- `VotesProofs`, `VoteSummaryProofs`, `MirrorProofs` (types), `MirrorPlaceProofs` (the places of the views),
  `MirrorStoreProofs` (votes and stored headers), `StateMachineProofs` and `EngineProofs` (the round lifecycle; what the
  validator signs, sends and starts from), `SupervisionProofs`: theorems and lemmas.

### How state and actions correspond to the code

`kernel` is `kState` plus the stores.  `kernel.voting`, `.committing` and
`.nextRound` are `VersionedRoundView`s with proposed headers (`phs`), proofs,
block versions (`ver`), previous commit proof (`prev`) and version; `sum` is the
proof map the vote summary was last computed from.  `kernel.disk` is what the
stores hold: `nhr` the mirror store, `phs`, `replayed` and `votes` the round
store, `headers` the committed header store.  `kernel.gossip`, `.sm`, `.lag` are
the view managers.  `inFlight` is `InFlightFetchPHs`.

Each handler of the main loop is one operator, run atomically by `KernelStep`,
because the kernel is one goroutine.  Every store call in it adds the image
before the call to `w.torn`; a crash may leave any of them.  A panic kills the
process as well.

A handler goroutine is a record with a program counter.  `HandleVoteProofs` is
the first view lookup with the work on its answer, `RetryLookup` the lookup after
a conflict, `AddVotes` the request to the kernel.  `HandleProposedHeader` is
the header check, `RestartCheck` the same after `goto RESTART`, `SendPH` the send on
the buffered channel that `AddQueuedPH` reads.  A header of the next height
makes the goroutine deliver the precommits it carries
(`backfillCommitForNextHeightPE`) first.

`addPrevote` and `addPrecommit` are kept synchronized in the code; they are
one operator with the kind as a parameter.

The network may lose, duplicate, delay and reorder: any message of the constant
input sets may arrive at any time, any number of times.  Messages have valid
signatures and hashes.  In `Mirror` the local state machine is an environment: it
starts no later than the mirror, leaves a round for the next one or a height that
the mirror has committed, votes at most once in a round and proposes its own headers
(`MayEnter`, `SMVote`, `SMPropose`).

In `Engine` it is the code's.  `sm` is the `RoundLifecycle` plus where the goroutine stands:
`pc` is `start` (before `sendInitialActionSet`), `save` (about to store the height and round it
moves to), `enter` (about to send a round entrance), `send` (blocked on the consensus manager's
unbuffered channel), `wait` (for the strategy's `EnterRound`), `run` (in the main loop), `quit` (the goroutine
returned), `panic` (the process is about to die) or `down`.  `vrv` is `rlc.VRV`, `entered` the view
of a round entrance on its way to `beginRoundLive`, `jump` a jump ahead that `handleViewUpdate` has still
to handle, `prevoteCh` and `precommitCh` the one-place channels (nil, empty or a hash), `acts`
the actions channel, `finalizing` the request the driver works on.  `store` holds the state machine store
(`hr`), the finalization store (`fin`) and the action store (`acts`).  A handler that blocks in the middle
is split there, and only there; what it does after the send is part of the next step.  The
mirror's side of each exchange is the same operator that `Mirror` uses, in the same step as
the receive on the other side where the channel is unbuffered.

Nobody else has the validator's key.  Others may send back to the mirror what it signed, in votes, replayed headers and
the previous commit proofs of headers, at any time, and nothing of its that is not in the action store (`Cast`, `Made`, `Brings`):
`recordPrevote`, `recordPrecommit` and `recordProposedHeader` store an action before they send it.

The strategy answers any header it was shown or nil, and precommits a hash with a majority of
prevotes or nil; it may say it is not ready, and take any time.  The driver finalizes what it is asked to, at any time.
Timers elapse at any time while they run.  `Matching` is the set of hashes that
`rejectMismatchedProposedHeaders` keeps.  `ResumeAt` is the height at which the process is first
seen; past the initial height it comes from a restart after all earlier heights were committed and
finalized in round 0, and, as in the code, with a zero genesis.

**Transaction buffer.**  `TxBuffer` has the kernel goroutine and a record per client call.  A call is
a `gchan.ReqResp`: the send of the request, which the kernel takes and carries out (`Serve`), and the receive of the
answer (`Return`); the caller's context may end in either.  `out` is the answer that the kernel is sending
(`SendResponse`); it does nothing else until the answer is in the caller's channel, which has one place (`RespRoom`).  The application's
`addTxFunc` is the pair `Valid`, `Apply`; in the instance transactions depend on each other, so that a rebase
may invalidate one in the middle.  `workingState.curState` is kept, not computed, as in the code.
`ImplementsPool` says that it is nevertheless the pool in which each request executes the pending
transactions anew.

**Supervision.**  Time is abstract: a deadline may pass at any moment while its timer runs.  `rt`
is the goroutine of `StandardRoundTimer` with its `time.Timer`: `armed`, `value` (something is in the
timer's channel) and the channels of the current round; `want` is the caller inside `getTimer`.  The goroutine is `entering`
between its answer and its second select, where a cancel and the next request may both be ready.  Per
subsystem, `mon` is the monitor goroutine with its outstanding signal, `sub` the main loop: listening, in a
handler, or hung in one.  Only a main loop that is in a handler when the response deadline passes may be
blamed (`BlamesOnlyBusy`).

**Signature proofs.**  A point of the curve is abstracted to the number of times each key was added into
it: a signature verifies if it is the point of the key, and counting one validator twice in an aggregate is
visible.  The sparse proofs that arrive hold single signatures, aggregates that overlap what is there, repeated
entries, unknown ids, bad signatures and bytes that are none (`Undecodable`).  For a signature that the BLS proof holds already the last
are compared with it unchecked, which ends the process (`crashed`, `gcrypto/gblsminsig/signatureproof.go:252-254`).  Key ids are
sent in 16 bits (`KeyIDBits`, `Sent`).  `ImplementsSignerSet` justifies what `Votes` assumes, that a
proof is the set of its signers, and fixes all three fields of a merge result; a BLS proof that
comes in sparse form is `unranked`, since `MergeSparse` does not compare it.

**Gossip.**  `kernel[n]` is the record of `MirrorKernel` for node n.  A connection hands a message to the mirror and
waits for the result, so that a handler call is one step; `Mirror` has the interleavings of several calls.
`strat` is the strategy's goroutine with the round, number of headers and number of signers it saw
last, and what it still has to put on the full outgoing channels.  `chan` and `hold` are the daisy
chain: a connection that waits for room in the channel to one neighbour reads nothing.  libp2p's pubsub is
external: a published message reaches every other host of the topic once, in any order, and `swapping`
is the time in which a host has unregistered its old topic validator and not registered the new one.

## Runs

The mirror and engine instances have three validators of power 2, 1 and 1 (majority 3, minority 2), so
that neither two nor one of the smaller ones reach a threshold alone, v1 reaches
the minority alone, and v1 with either other one is a majority.

| Run | Instance | What it shows |
|---|---|---|
| `vote_summary` | all proof maps of four validators of power 1, 1, 2, 2 and three targets, in every iteration order | winner and sums do not depend on the order; two blocks reach the threshold only with equivocation |
| `votes` | two goroutines, precommits of everybody for a block and nil in round 0, of which one validator signs both, a majority for nil in round 1, one header | no vote is lost to a stale update, no commit is missed or unjustified, a round is given up only when no block could still reach a majority |
| `crash` | two heights, the first of which may commit in round 0 or in round 1, headers that the driver replays for the round after the voting round, one crash anywhere | every disk image restarts, nothing held is lost, commits are justified, no committed header is missing or replaced, the stored place never goes back |
| `live` | under `LiveSpec`: two goroutines whose votes and backfills conflict with each other and with the local state machine's own votes, a header that has to be fetched, headers of the next height that carry a majority of precommits or too few, consumers that read late | a handler returns again and again, unless its header's height never comes; a majority commits; consumers catch up |
| `engine` | mirror and state machine from a fresh start through two rounds of one height and into the next, votes of two other validators, a strategy that may be slow | refinement of `Mirror`, only committed blocks are finalized, the state machine is never ahead of the mirror, timers and result channels fit the steps |
| `engine_restart` | a process restarted at height 3 that may crash once more anywhere, with its own precommit echoed by others | no two votes or headers signed in one round, a recorded proposal reaches the mirror, a start finds the finalizations it needs |
| `engine_catchup` | two heights replayed by the driver while the state machine starts, votes or waits to commit | heights are finalized in order, with the committed block, and the latest view of its round is offered to a state machine that the mirror has overtaken |
| `tx_buffer` | two clients, three transactions of which one depends on another, two rebases, contexts that end, a shutdown | refinement of `TxPool`, pending transactions execute, none is dropped silently, the kernel is not stuck with the answer to a caller that is gone |
| `supervision` | two main loops, one of which uses the round timer | timers elapse on time, only a busy handler is blamed, a hang ends the process, main loops and monitors stop, and the timer's goroutine unless it was answering |
| `signature_proofs` | both schemes with five validators, so that the tree is padded to eight leaves | refinement of `SignerSet`, aggregates are valid and maximal, the sparse form loses nobody, a strict superset is reported exactly when it is one |
| `gossip` | three nodes, two of which vote, in a daisy chain or over libp2p; a round given up, a height committed, a node that comes late or leaves, channels that fill | unless two neighbours wait for each other, the nodes that hear everything reach the same height and round and hold the same precommits, and broadcasts are completed |

One run, `restart_outruns_mirror`, exhibits a disagreement between the code and its comments: `NeverAheadOfMirror` is violated after a crash.
`NewKernel` loads a stored majority of precommits without acting on it (`tmi/kernel.go:239`); the state machine is shown that view,
finalizes the block and enters a height the mirror has not reached.

Several of the checked properties are conjunctions, whose parts are defined and explained next to
them: `CommitsExact` (`CommitJustified`, `NoMissedCommit`, `SummariesCurrent`), `CrashSafe`
(`RestartPossible`, `ViewsMatchDisk`, `GossipCurrent`),
`LifecycleConsistent` (`TimerMatchesStep`, `RequestHasChannel`), `FinalizedInOrder` (with `FinalizedIsCommitted`),
`BufferConsistent`, `TimersOnTime`, `SignersCounted` and `SparseRoundTrip`.  Type invariants are parts of them where they are not
listed on their own.

There are three refinements.  `ImplementsMirror` (run `engine`): each step of the engine is a step of
`Mirror!Next` or leaves the mirror alone, so what is proved of `Mirror` holds of the mirror in
the engine.  It is a statement about the state machine: it votes once a round, proposes only for the
round it is in, and enters only the next round or the next height.  It holds from a fresh start without
crashes; after a crash the engine can outrun the mirror (above).  `ImplementsPool` (run `tx_buffer`) and `ImplementsSignerSet`
(run `signature_proofs`) are described above.

### Further disagreements

These were met while modelling and have no run of their own.  The model does in each case what the code does.  The comments of the
properties concerned say what they leave out; where the case is within the instance of a run the property states it exactly
(`TimersOnTime`, `ShutdownCompletes`, `ImplementsSignerSet`, `BroadcastsComplete`).

Mirror and engine:

- `TotalPrecommitPower` counts a validator once per hash.  With `va` (power 2) for one block and `vb` for another and for nil the sum
  equals the available power, and the round is given up as "certain" (`tmi/kernel.go:767-768`) while `vc` has not been heard, whose
  precommit would commit the first block: `AdvanceOnlyWhenCertain` fails there.
- `MarkCommittingViewUpdated` sends a state machine that is a height behind ahead to a round of another height
  (`tmi/kstate.go:109`), where `handleJumpAhead` panics (`tmstate/statemachine.go:1784`); `tmeil/statemachine.go:97-98` speaks of
  "a future round within the same height".  It happens in `engine_catchup`, and the process ends.
- A restart at one of the first two heights loads the finalization of `h-2`, which wraps around or is before the chain
  (`tmstate/statemachine.go:632`), and the state machine quits: `StartSucceeds` fails with `ResumeAt` 1.  `tm/tmengine/engine.go:85-86`
  foresees such a start.
- Entering a round whose votes present are a majority but split: `beginRoundLive` has no case for the two delay
  steps that `GetStepFromVoteSummary` returns, and panics (`tmstate/statemachine.go:528`).  It happens in `engine`.
- The state machine cancels a timer and asks for the next one before the timer's goroutine has come to its second select: both are
  ready there, and if the request is chosen the process panics although the timer was cancelled (`tmstate/roundtimer.go:155`).
  `RequestFollowsCancel` says that this is the only way to it.
- The context ends between request and answer: `getTimer` gives up, the timer's goroutine stays in its blocking send
  (`tmstate/roundtimer.go:115-117`), and `Wait` with it.  `ShutdownCompletes` says that it stays nowhere else.
- A replayed header whose proof is two or more rounds ahead: `jumpVotingRound` advances by one round only
  (`tmi/kernel.go:1597`; the comment at 1719 expects the round of the proof).
- A state machine that enters a later round of the committing height makes `FindView` panic
  (`tmi/kstate.go:89`); its documentation at line 50 lists a status for it, `ViewWrongCommit`, that is never returned.
- `addPrecommit` returns before the view shift check when one hash of an update was applied and another conflicts
  (`NoMissedCommit` fails with a message for two targets).  `handleReplayedHeader` changes
  proofs without bumping their versions, so a stale update overwrites them (`VotesNeverLost` fails with a handler and a replay of one
  round).
- `NilVotedRound` is one pointer, overwritten when two rounds are given up between two reads of the gossip strategy
  (`tmi/kstate.go:238-244`; `tmi/gossipviewmanager.go:12-14` says it is to be sent).  Peers that missed the first one
  then see a majority in their next round, which the kernel does not implement (`tmi/kernel.go:909`).
- While the state machine catches up, `handleCatchupEvent` (`tmstate/statemachine.go:179-210`) does not receive the
  watchdog's signal, so an idle state machine is blamed and the process ends; `gwatchdog/watchdog.go:107-111` requires the
  main loop to receive it.  The documented jitter is half of what `gwatchdog/monitor.go:74` applies.

Gossip and networking:

- The first update that `ChattyStrategy` reads is sent without its `NilVotedRound`
  (`tm/tmgossip/chattystrategy.go:75-107`), and a first update without a Voting view panics (line 86);
  `tmelink/networkviewupdate.go:17-24` allows both.  The strategy compares numbers of signers of all targets together
  (lines 261 and 277), so that a second vote of the same validator is not sent; it is for the same reason that `Gossip`
  states convergence of precommits and not of prevotes.
- The feedback mappers panic on `RoundTooFarInFuture` (`tm/tmconsensus/feedbackmapper.go:39`, `:107`), which the mirror can return
  (`tmmirror/mirror.go:239-240`).  Votes of a future round are answered with "too old" (`mirror.go:409-412`).
- Two neighbours of a daisy chain that each wait for room in the other's full channel wait forever
  (`tm/tmp2p/tmp2ptest/daisychainnetwork.go:437`, `:455`).  The code's channels have 16 places and nothing bounds the traffic, so this may
  happen in it; no comment says that it may not.  `BroadcastsComplete` says that nothing else gets a broadcast stuck.
- Setting a handler of a libp2p connection unregisters the topic validator and registers another
  (`tm/tmp2p/tmlibp2p/connection.go:179-206`); what arrives in between is passed on unseen by the mirror, and such a node counts as late.

Signature proofs:

- `MergeSparse` of the BLS proof never sets `WasStrictSuperset` (`gcrypto/gblsminsig/signatureproof.go:261`);
  `gcrypto/signatureproofmergeresult.go:21` and the compliance test (`gcrypto/gcryptotest/signatureproofcompliance.go:407`) require it.
- `ClearSignatures` (`sigtree/tree.go:290`) leaves the bits of the signers set.  `AsSparse` writes ids of two bytes
  (`gcrypto/gblsminsig/signatureproof.go:287`), which are enough for trees of 32768 keys; nothing checks that, and
  `KeysAssumption` assumes it.  `HasSparseKeyID` is false for a key that only an aggregate covers.

### Bounds

Heights and rounds are those of the messages: `MaxHeight`, `MaxRound`.  The
kernel itself may go one height or round further, where nothing arrives.  Two
goroutines suffice for every conflict between two updates; a conflict with
a third can be had by one of the two taking another message.  `PHQueueCap` is 1, which
makes the channel full as soon as it is used.  `MaxCrashes` bounds spontaneous deaths;
panics are not bounded.  In the instances the first validator holds half of the power, and it never
precommits two hashes in one round: with a faulty validator beyond the third
the protocol tolerates, the round store can end up without a unique winner and
a restart fails.  In `votes` one of the smaller ones does.

The engine instances have one handler goroutine, because two of them are covered by the mirror
runs, and `vc`, of power 1, as the signer: neither its vote nor that of another one decides alone.
`SMRounds` bounds the rounds the state machine enters; it waits before any other.  The initial height is 1, so that the height of the
`InitChain` finalization is 0.  These runs do not check for deadlock: a state machine that has quit, and one that waits
for a message that is not among the inputs, stop.  In `engine_restart` a strategy call takes less
than 100 ms (`SlowStrategy`).

`MaxTxs` and `MaxRebases` are large enough for a rebase that finds some transactions applied, some still valid and some
not, and for another one after it.  Five keys need padding at two levels of the tree, so that nodes with no, one and two children
occur, and aggregates of two and of four leaves overlap.  Three nodes are the least with one that only forwards; a fourth would
only forward as well.  The outgoing channels of the chain never fill (16), those of libp2p have one place and fill at
once.  The channels between neighbours of the chain have two places (`ChainCap`): they do fill, and two neighbours do get stuck on each other,
while most behaviours go on; with three places nobody gets stuck in these scenarios.  None of these runs checks for deadlock: a buffer that was
shut down, a process that has ended or crashed and a network in which everything has been said do stop.

### Fairness

`LiveSpec` of `Mirror` assumes that a request that is waiting is served (Go's `select`
chooses at random among ready channels), that consumers keep reading, that the
fetcher finds the header it is asked for, and that a dead process is restarted.
Nothing obliges the network or the state machine to act.  Weak fairness is
spelled out with the enabling condition of each action, which includes that
the step changes something: restarting the check of a header that is
too early is not progress.

`TxBuffer`: the kernel sends the answer if the channel has room or the caller receives it, and the caller returns with an answer that
is there (`WF`).  A request that waits is taken if the kernel comes back to its select often enough (`SF` on `Serve`): `select` chooses
at random, and the senders on a channel are queued.  No client has to call, no context has to end.

`Supervision`: goroutines take steps they can take and running timers run out (`WF`).  A main loop that is at its select with
several ready channels takes each of them if it comes back often enough (`SF` on `Returns` and `LoopStops`): `select` chooses
at random.  That the caller leaves `getTimer` and that the timer's goroutine stops when the context ends are two assumptions, so that neither
can stand for the other.  A handler may hang forever, and `HangTerminates` is about that.

`Gossip`: the network does not stop while somebody waits (either nothing waits again and again, or something
changes again and again).  This is weaker than fairness to each goroutine and enough here, since each message is
passed on a bounded number of times.

## Proofs

- `MirrorProofs!TypeCorrect`: `Spec => []TypeOK`, for all validators, powers, numbers of blocks,
  inputs, goroutines and crashes, from the assumptions of `Votes`, `MirrorState` and `Mirror` alone.
  `TypeOK` is inductive.  One lemma per operator says that it takes kernel
  states to kernel states; the theorem has one step per action.  The invariant is not
  only about shapes: it says that the fetcher is only ever asked for block hashes, that
  a goroutine about to check or send a header has one, and that every disk image a
  crash leaves can be read by `NewKernel`'s loaders.
- `MirrorPlaceProofs!ViewsAlignedAlways` and `HeadersCompleteAlways`: `Spec => []ViewsAligned` and
  `Spec => []HeadersComplete`, from the same assumptions, replays any number of rounds ahead
  included.  Neither is inductive: a restart rebuilds the views from the mirror store, so the
  store must name consecutive places, with their headers stored, in the image left between any
  two store calls.  The strengthening is `Placed`: the disk is `Complete`, and a running kernel is
  `Sound`, which adds that the mirror store names the views and that every image in `torn` is
  `Complete`.  Most operators leave the places and these two stores alone (`Keeps`);
  `incrementVotingRound`, `ShiftVotingToCommitting` and `updateObservers` are the ones that do
  not, and between them the kernel is not `Recorded`.  The header is saved before the mirror
  store moves: in the other order the images in between are not `Complete`.
- `MirrorStoreProofs`: what is stored, for all constants.  `CommitsBackedAlways`, `SummariesCurrentAlways` and
  `PlaceProgressAlways` need nothing beyond the assumptions above.  `CommitJustifiedAlways` and
  `ViewsMatchDiskAlways` assume `ReplaysNear` (no replayed header is more than one round ahead of
  round 0): `handleReplayedHeader` calls `jumpVotingRound` (kernel.go:1597) once, which advances one round, so a header of a
  later round has its precommits stored under an earlier one, and both statements are false.
  The lemmas are about an arbitrary set `S` of signatures (who signed what, where); for the mirror alone it is the
  constant one of its inputs, for the engine it grows with the action store (below).
  `StoredProgressAlways` also assumes `Agreement` (no height has two blocks with a majority of precommits), which is
  what the protocol promises and the mirror cannot enforce: it commits what a majority signed.
  The strengthening is `Stored` (`StoredAlways`).  A commit is decided by the vote
  summary of the Voting view, a view is rebuilt from whatever image a crash left, and a handler
  brings an update computed from an older copy of a view; so `Stored` says that the disk, every image in
  `torn` and the views hold only votes signed for their place (`Genuine`), that summaries are
  those of the votes (`Summed`), that views hold what is stored and that nothing is stored at a place the
  kernel has not reached (`Mirrored`, without which a view that shifts to a new place
  would not match), and that updates under way are `Honest`.  `NextStored` shows also that each step `Extends` the disk, from which the
  action properties follow.
- `SupervisionProofs`: `TimersOnTimeAlways` and `BlamesOnlyBusyAlways`, from `TimerInv` (what the timer goroutine
  and its caller know of each other in each of their states) and `WatchInv` (a monitor that is late
  records why: `LateInv`).  `TimersOnTime` has three parts beside the types: the goroutine waits for requests with a timer that
  is stopped and drained, as the comment at `tmstate/roundtimer.go:105` assumes (`StoppedBetweenTimers`); a channel closes only when the time of
  its own timer is over (`ElapsesOnTime`); and a request that finds a timer running finds it cancelled and the goroutine not yet
  at its select (`RequestFollowsCancel`).  In that one moment the panic of line 155 is possible.
- `StateMachineProofs`, `EngineProofs`: `LifecycleConsistentAlways`, `FinalizedWithoutGapAlways` (the order half of
  `FinalizedInOrder`) and `EngineMirrorAlways`, from the assumptions of the modules alone, with crashes at every store call and
  chains resumed at any height.  `LifecycleConsistent` is not inductive: the state machine's record is `Ordered`
  (timer, step, request and result channel fit together) only if no view arrives for a round that the mirror has answered with a committed
  header.  That is a fact about both components: the mirror knows the round of the state
  machine (`Linked`), its Committing view never goes back and it puts out a view only
  for a round that view has not passed (`Onward`, one lemma per operator of `MirrorKernel`).  `EngineInv` is their
  conjunction with `MirrorInv` (`TypeOK`, `Placed`) and `Finished` (a height is finalized, or about
  to be, only above a finalized one).  The refinement `ImplementsMirror` does not hold after a crash, so
  `EngineMirrorAlways` is proved of the engine's own steps: round entrances, votes and proposals of the real state machine.
- `EngineProofs`, what the validator signs, all under `ReplaysNear` as above.  `NoDoubleSignAlways` compares the mirror's stores
  with the action store, which no step does directly: an action goes from the action store to the actions channel, to the
  kernel, to its stores, and comes back from other nodes; a restart may lose the channel and keeps the stores.  The inductive invariant
  `SigningInv` says that everything in the stores, in every image in `torn`, in the views and in the hands of goroutines is in
  `Signatures(A)`: what the others signed, and of the validator what action store A has (`Safe`, with the lemmas of
  `MirrorStoreProofs` for `S = Signatures(A)`).  The action store only grows (`Grown`, because `Act` refuses a second action), so `Signatures` does
  (`Wider`).  It also says that actions on their way are those on record (`Prompted`) and that headers on record carry previous
  commit proofs that were signed (`Remembered`).  `EngineStoredAlways` follows as well: `ViewsMatchDisk`, `SummariesCurrent` and
  backed commits hold in the engine, where own votes go past the handlers.
- `ProposalReachesMirrorAlways`: `initializeRLC` sends a recorded header again in the first round of a process only.  `HandedInv` says why
  that is enough.  No header is on record after the place a process resumes at (`InTurn`): `SetStateMachineHeightRound` runs before
  the round entrance, and a finalization moves that place a height on.  A later round is entered without one (`NoneSince`).  In a
  round the recorded header is waiting, stored or out of date (`Sent`); that the kernel stores what it takes is a part of
  `addProposedHeaderGood`, that a view shows what is stored is `MirroredView`.
- `StartSucceedsAlways`: on a chain resumed at height 3 or later (`ResumeAt >= 3`) no start quits.  The invariant adds to `EngineInv` that
  no process resumes or runs before `ResumeAt` (`BegunInv`); that the finalizations are there is `NoGap`.  Below height 3 it is false
  (disagreements, above).
- `VoteSummaryProofs`: the loop invariant (the running winner is the most voted hash among
  those visited) gives `WinnerTheorem` and `EquivocationTheorem`.
- `VotesProofs`: the thresholds (`MajorityIsLeastAboveTwoThirds`,
  `MinorityIsLeastThird`, `MinorityBlocksMajority`) and quorum intersection for an arbitrary measure of power: two majorities share more than a third of
  the power (`QuorumIntersection`), so that while at most a third equivocates no two targets of a round have one (`OneMajorityPerRound`).

### Only model-checked

- All liveness: fairness and `ENABLED` are out of the prover's reach.
- What folds and recursive functions compute, which needs induction over data: `PowersIndependentOfOrder` (the total power),
  `BufferConsistent`, `NoSilentDrop` and `ImplementsPool` (transactions executed one after the other), and the properties of
  `SignatureProof` (aggregates on the levels of a tree).
- Statements that are true of the instances and false for some constants, so that no theorem says them:
  `NoMissedCommit` and with it `CommitsExact` (a restarted kernel does not act on a stored majority), `GossipCurrent` and with it
  `CrashSafe` (a replayed header without a majority changes a view and does not mark it), `VotesNeverLost` (replays and
  backfills merge proofs without a new version), `AdvanceOnlyWhenCertain` (equivocation), `StateMachineInformed` (replays
  several rounds ahead), `NeverAheadOfMirror` and `FinalizedIsCommitted`, with it `FinalizedInOrder`, after a crash (its order half is proved), and
  `ImplementsMirror` (a restart outruns the mirror, and an echo that overtakes the vote itself makes it a second one to `Mirror`).
- Gossip: every property is about what all nodes reach in the end.

## Plan

1. Mirror (done): safety and liveness checked; types, places and stores proved.
2. `StateMachine` and `Engine` (done, safety): the composition, its refinement of `Mirror`, restarts and catching up;
   the round lifecycle and the order of finalizations proved.
3. `RoundTimer`, `Watchdog`, `TxBuffer`, `SignatureProof`, `Gossip` (done): see above.
4. What the validator signs and sends (done): `NoDoubleSign`, `ProposalReachesMirror` and `StartSucceeds` proved.
5. Liveness of the engine: a proposed block that everybody votes for is finalized.

## Not modelled

- Changing validator sets: one constant set throughout.
- State machines without a signer, errors of the consensus strategy, the durations of `LinearTimeoutStrategy`.
- Cryptography beyond what signature proofs add up, encodings and codecs, metrics, logging, assertions of debug builds,
  the snapshot request of the kernel (a read).
- Networking: how a network is set up and connected, hosts and discovery, the end of the context in strategies and
  connections.  In `Gossip` proposed headers are of the initial height, so that backfilling and its restarts are left to `Mirror`.
- Erasure coding and tree topology: index arithmetic around third-party coding.
- Commands, test helpers and fixtures.

PROJECT.json says why for each component.
