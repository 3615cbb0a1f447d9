# Formal model of the ant-node replication engine

TLA+ specifications, TLC runs and TLAPS proofs for the parts of ant-node that are
hard to test: the queues, workers and background loops of the replication engine,
the audits nodes run on each other, and the state all of these share.  Every
definition is translated from the Rust code under `src/src/`; `PROJECT.json` maps
each one to the lines it models and lists the hazards the properties are aimed at.

## The system

A node stores chunks under content addresses, is paid for it, and keeps the
replicas of its neighbourhood complete.  `replication/mod.rs` starts a set of tokio
tasks that share state behind locks; a task often reads under one lock, releases it
for a network wait, and acts under another.  Most hard behaviour comes from there.

| part | state | operations | what is hard |
|---|---|---|---|
| queues (`scheduling.rs`) | PendingVerify, FetchQueue and its index, InFlightFetch, slots per sender | admit, evict, promote, dequeue, start, retry, complete | four structures that must agree; full queues |
| verification and fetch worker (`mod.rs`) | batches of a cycle, spawned fetches | evict, classify, drop, probe, network round; fill, take a result, retry | decisions made before the lock is taken; panics |
| bootstrap (`bootstrap.rs`) | BootstrapState, `is_bootstrapping` | sync, track, note and clear rejections, drain check, complete | two locks, four tasks, "once everything drained" |
| neighbor sync (`neighbor_sync.rs`, `types.rs`) | order, cursor, priority queue, cooldowns | snapshot, select, sync, fail, replace, routing events | membership changes in the middle of a cycle |
| verification of a key (`quorum.rs`) | evidence of a round | ask, collect, evaluate, list as paid, fetch | stale answers, nodes convincing each other |
| commitments (`commitment_state.rs`) | slots, current, deadlines | rotate, emit, retire, age out, look up, persist, reload | a promise to peers that outlives rotation, pruning and restarts |
| rotation and pruning (`mod.rs`, `pruning.rs`) | stored keys, out-of-range timers | read keys, commit; collect, revalidate, delete | two passes over one store |
| repair proofs and chunk audit (`types.rs`, `audit.rs`) | proofs per key, sync history, epoch | record hints, advance the epoch, select, challenge, penalize | penalties on facts that went stale |
| storage audit (`storage_commitment_audit.rs`, `mod.rs`) | last commitment of a peer, pending first audit, credit, bootstrap claim | ingest, trigger, two rounds, credit, penalize | commitment changes while an audit is under way |
| audit admission (`mod.rs`) | slots per peer, permits | claim, refuse, release | a slot leaked or doubled on an early end |
| subtree proofs (`subtree.rs`, `commitment.rs`) | none | tree, selection by nonce, plan, verify | odd tree shapes; two geometries that must be one |
| closeness check (`payment/verifier.rs`) | pass cache, slots in flight | lead, wait, publish, drop | a wake-up lost between two steps |

The remaining parts are listed under "Not modelled" and in `PROJECT.json`.

How they interact: hints of a neighbor sync enter the queues; the verification worker
asks the network by quorum rounds; the fetch worker stores what was verified; what is
stored and close enters the next commitment; the commitment is gossiped and audited;
the pruner may delete only what no live commitment holds.  Hints sent become repair
proofs, which the chunk audit requires before it penalizes.

## Modules

In all of them a step is one critical section, or what a task does between two
awaits.  Time is a set of saturating counters.  What comes from the network, the
disk or the routing table is a free choice.

* `KeyLifecycle`: what the pipeline promises of a key, idle, pending, queued or in
  flight.  The abstract specification.
* `ReplicationQueues`: the queue manager.  It implements `KeyLifecycle`.
* `ReplicationWorkers`: the queues with both workers and arriving hints.  It
  implements `ReplicationQueues`, so that the workers use the queues as specified.
* `BootstrapDrain`: the bootstrap state and the tasks that share it, over the stages
  of `KeyLifecycle`.
* `NeighborSync`: the round-robin over close peers with its events.
* `Verification`: the decision about one key at many nodes, some of them faulty.
* `CommitmentState`: the responder's commitments.  `promised` is a history variable:
  how long peers may still hold the node to a commitment.
* `RecordRetention`: `CommitmentState` with the rotation loop, the prune pass and the
  store.  `CommitmentRestart`: `CommitmentState` with snapshots, crashes and reloads.
  `StorageAudit`: `CommitmentState` of a peer with the auditor of that peer.
* `RepairProofs`: hints, cycles and the audit of responsible chunks.
* `AuditAdmission`: slots and permits of the responder.
* `AuditExchange`: message loop, sync loop and audit loop of two nodes around the
  lock of the sync history.
* `SubtreeProof`: the tree and the proofs as pure operators over symbolic hashes.
* `ClosenessCheck`: leader and waiters of one pool.
* `ReplicationQueuesProofs`, `RecordRetentionProofs`, `VerificationProofs`,
  `AuditAdmissionProofs`: the theorems.  `MC...`: the instances for TLC.

Operators commented "Defect:" are plausible bugs, one for each checked property;
`PROJECT.json` lists under "mutants" which definition each replaces and which property
must then fail.

## Runs

| run | question | bounds |
|---|---|---|
| `workers` | Do the queues' four structures and the workers' own state agree through every order of hints, cycles, results, retries and panics; is the lifecycle implemented; does every key move on? | 2 keys, 2 peers; MAX_PENDING_VERIFY 2 and 1 per peer, MAX_FETCH_QUEUE 1, 2 parallel fetches |
| `bootstrap_drain` | Does the flag follow the drain, and does bootstrap end? | 1 key, 2 peers, one sync task beside the bootstrap sync |
| `retention` | Is an advertised commitment answerable for its whole window, and are its bytes kept? Is a key released in the end? | 2 keys, 3 hashes, windows of one unit, 2 retained slots |
| `retention_moves` | Are the bytes kept of keys that come into range in the middle of a pass, too? They are not. | the same |
| `restart` | The same through crashes, unless the last advertisement was lost | 3 hashes, window 3, grace 1, gossip every 3 units |
| `neighbor_sync` | Is nobody skipped or scanned twice, and is every peer reached? | 3 peers, 2 per round, 2 routing changes, 1 event outstanding |
| `verification` | Does no honest node keep a record nobody paid for, and is each verdict what the answers mean? | 4 nodes, 1 faulty, thresholds 1 and 2, 1 round under way at a time, 4 targets |
| `repair_proofs` | Is nobody penalized without a hint and the time to act on it? | 2 peers, 1 key, 1 epoch, 2 changes of close groups |
| `audit_responder` | Are slots and permits exact, and do all come back? Does every selection cover enough leaves, and does the auditor accept exactly the right proofs? | 3 peers with 2 slots, 4 permits, 7 challenges; every tree of 1 to 24 keys and every nonce |
| `storage_audit` | Does no audit fail a peer that has its records; is credit earned by the audit of that commitment; does a bootstrapping peer keep its claim? | 2 commitments, 2 keys, window 4, margin 2, skew 1, delays of 1, 1 audit under way, 2 offers |
| `audit_exchange` | Does a responsive node answer in time? It does not. | 2 nodes, queues of 2 |
| `closeness` | Does every caller return? It does not. | 3 callers, 1 retry as in the code |

The bounds and what they leave out:

* Two keys are the fewest that compete for a queue, two peers the fewest that compete
  for a slot.  The limit per sender and that of FetchQueue turn keys away; the global
  limit of PendingVerify and that of parallel fetches are reached, but two keys cannot
  go beyond them.  The `workers` instance has few keys because three do not finish in ten
  minutes; the invariants of the queues themselves are proved for any size.
* Both limits of `AuditAdmission` are met, separately and together.  `audit_responder`
  runs it beside `SubtreeProof`: a behaviour is one of either.
* In `storage_audit` the clocks differ by up to `MaxSkew`, and a message or an audit takes
  up to `MaxDelay`; the two together are the margin of the code, which is what the margin
  is for.  Ages stop counting where no comparison tells them apart.  The constraint
  `Apart` leaves combinations out: bootstrap claims with lost records, and payments with
  either of these or with the end of a peer's gossip.
* In `verification` one round at a time is under way, so that overlapping rounds are
  not in the run.  `OnlyPaidKept` is proved for any number of them; `VerdictExact` is
  about one round.
* In `retention` the window is as long as a rotation interval; in the code it is three
  of them (3 h and 1 h).  With a window of two intervals, 4 hashes and 3 retained
  slots, the same four properties hold in 3,590,163 states; that instance takes more
  than five minutes and is not kept as a run.  `Answerable` and `OwedBytesStored`
  are proved for any window, given `InWindowFits`, which only TLC checks.
* `SubtreeProof` takes 24 keys to have the full-audit floor, complete and incomplete trees
  and self-paired nodes on every level.
* Symmetry is used only over model values no definition tells apart, and in no run that
  checks liveness.
* `repair_proofs`, `audit_responder` and `closeness` switch deadlock checking off: their
  bounds on epochs, churn, challenges and callers end the behaviour.

Restrictions stated in the models rather than by a number:

* `Verification` assumes that the faulty are no majority of the nodes a round asks,
  and too few to meet the threshold.  Without that no vote can be right.
* `OwedBytesStored` excepts the keys whose place in the routing table changed while a
  rotation or a prune pass had read them (the history variable `moved`); of those see
  `retention_moves`.
* `HintedSinceEntry` speaks of moves that are announced and handled (`quiet` is
  FALSE); `PenaltyAfterRepairTime` holds for all moves.
* `StorageAudit` assumes that a message or an audit takes at most `MaxDelay`, and that
  skew and delay stay within the margin.  `HonestNotPenalized` excepts an audit that the
  end of a peer's gossip launched, once the peer's own window is over; see
  `HonestAlwaysAnswers` below.
* `ClaimNotRepeated` is about a peer that still bootstraps.  A claim that is overtaken by
  a later answer of the peer counts as a repeated one.
* `BootstrapEnds` is about behaviours without overload, where no queue is full.

### Fairness

* Workers: both loop until shutdown; a fetch has a timeout and ends; results are taken
  in the order they became ready (`FuturesUnordered`), hence strong fairness of the
  taking of each; time passes.  Nothing obliges a peer to send hints.
* Bootstrap: each task goes on.  Strong fairness of resolving, starting and finishing
  keys stands for what `ReplicationWorkers` does in detail.
* Neighbor sync: rounds go on and announced events are handled.  Peers may fail for
  ever and cooldowns need not end.
* Retention: the rotation loop runs and time passes; pruning and gossip need not.
* Admission: the message loop and each task go on.
* Closeness: the runtime polls each caller, and a lookup has a timeout.

## Disagreements with a run

* `audit_exchange`: the audit loop holds `sync_history` for reading until its challenge
  is answered (`mod.rs:1289`).  A sync request handled meanwhile blocks the serial message
  loop at the write lock (`mod.rs:2648`), so no challenge is taken off the queue.  Two
  nodes in this state time out on each other, though
  `docs/REPLICATION_DESIGN.md:470` requires an answer within `AUDIT_RESPONSE_TIMEOUT`.
* `closeness`: a waiter takes the leader's slot under the lock, releases the lock
  (`payment/verifier.rs:1946`) and only then takes the snapshot that detects a
  notification (1956).  A leader that ends in between notifies too early, and the
  waiter waits for ever.  The comment at 1919 says that the snapshot is taken "while we
  hold the lock".

* `retention_moves`: "so we never delete bytes a recently gossiped commitment still owes"
  (`pruning.rs:1000`).  The range and the veto are checked at 1003 and the record is
  deleted at 921; a key that comes into range in between is read by a rotation
  (`mod.rs:4913`), deleted by the pass, and committed to and advertised.

## Statements that do not hold

Each of these is a statement of a doc or a comment that the models refute.  They have
no run of their own; where a definition is named, TLC finds the counterexample when it
replaces the properties in the cfg of the run given.

* `DrainNoticed` (`bootstrap_drain`): a node "transitions to normal operation once all
  bootstrap work drains" (`bootstrap.rs:3`).  If the last tracked key leaves by stale
  eviction and nothing is pending, the cycle returns before the drain check
  (`mod.rs:3449`); the same when a later sync clears the last capacity rejection
  (2687, 3297).  The node stays bootstrapping until another key passes through the workers.
* `DrainAwaitsRequests` (`bootstrap_drain`): "All bootstrap peer requests have completed"
  (`bootstrap.rs:107`).  The counter is zero between two requests, and a worker's check
  may fall there.
* `DrainAwaitsKeys` (`bootstrap_drain`): "All bootstrap-discovered keys have left the
  pipeline" (`bootstrap.rs:108`).  Keys are queued at `mod.rs:1779` and tracked at 1793.
* `HonestAlwaysAnswers` (`storage_audit`): "an honest node can always answer a pin it could
  be challenged on" (`storage_commitment_audit.rs:393`).  The age of a gossiped commitment
  counts from its receipt, and the audit that the end of a peer's gossip launches has no
  margin for the way of the message and of the challenge (`mod.rs:4612`), as the one of a
  quote has.  Shortly before the end of the window it asks a peer that has rightly dropped
  the commitment, though "Auditing it past the TTL would manufacture a false failure"
  (`mod.rs:4595`).
* `AnswerableAfterRestart` (`restart`): "an honest restarted node can answer every pin
  that is still inside its answerability window" (`commitment_state.rs:23`).  A
  commitment advertised after the last snapshot is lost by a crash.
* `StampLossCovered` (`restart`, without symmetry): the grace on reload is "sized well
  above the persist interval + gossip cadence" (`commitment_state.rs:344`).  It is 5
  minutes and the cadence is 10 to 20 (`config.rs:87`).  A node that advertises again and
  crashes before the next snapshot reloads the stamp of the advertisement before, which
  is early by up to a cadence, more than the grace.
* `NobodyTwiceInARound` (`neighbor_sync`): "does not sync P twice in the same round"
  (`docs/REPLICATION_DESIGN.md:619`).  A peer whose sync failed in this round and that a
  routing event then queues replaces the next one that fails.
* `CycleCompletes` (`neighbor_sync` with `MaxChurn = None`): "under arbitrary churn ...
  the cycle always terminates" (`docs/REPLICATION_DESIGN.md:625`).  Churn that never
  ceases refills the priority queue as fast as it drains.
* `HintedSinceEntry` without its condition `~quiet` (`repair_proofs`): "a peer that leaves
  and later re-enters still needs a fresh hint" (`types.rs:355`).  A close group that
  changes and changes back between two syncs leaves no trace.

Seen in the code and not stated as a definition: the audit "immediately" after the drain
(`docs/REPLICATION_DESIGN.md:486`) finds `is_bootstrapping` still set if it runs between
the two locks (`mod.rs:1262`).

## Proofs

All for every value of the constants, under the assumptions named in the modules.

* `QueuesSafe`, `SourcesTriedOnce`, `QueuesImplementLifecycle` (`ReplicationQueuesProofs`).
  The inductive invariant joins the types, disjointness of the stages, exactness of the
  fetch index and of the sender counts, the capacities, and that the sources of an
  in-flight key are accounted for.  None is inductive alone: a key is admitted only if
  three structures do not have it, one of which is the index, so that disjointness needs
  the index to be exact; a slot is released by saturating subtraction, which is exact
  only if the count is.  The refinement maps the structures to the stage of each key.
* `AdvertisedStaysAnswerable`, `OwedBytesStayStored` (`RecordRetentionProofs`).
  `Retained`: a record outlasts the promise it stands for and keeps its slot.
  `BytesKept`: but for the keys that moved meanwhile, those a rotation has read are stored
  and close, and those a prune pass is about to delete are neither held nor close.  Both
  theorems assume `[]InWindowFits` (checked by TLC) and nothing of the routing table,
  which changes at any time.
* `OnlyPaidKeptAlways` (`VerificationProofs`).  As long as no proof of payment was
  verified, what speaks for the key in any round comes from faulty nodes, and those are
  too few for either verdict.
* `SlotsExactAlways` (`AuditAdmissionProofs`).  A count is the sum of the peer's tasks,
  its delayed releases and what the loop holds; it is never saturated.

Only model-checked: all liveness properties; the workers, the bootstrap drain, neighbor
sync, restarts, repair proofs and the storage audit; `InWindowFits`, `PermitsExact` and
`VerdictExact`; the recursive operators of `SubtreeProof`, whose module is out of the
prover's reach.

## Not modelled

Hint admission, PaidForList pruning, recent provers over many peers, retries of fresh
replication and possession checks, the grace period of bootstrap claims, the chunk store
and its resize, the verified cache, and upgrades have state worth modelling and are in the plan.  The wire
protocol, configuration, quotes and pricing, node assembly, command line, logging and the
development network are data, wiring or I/O.  Cryptography, the EVM and saorsa-core's
routing table are external: a signature or a hash is what it identifies, the table moves
freely.

## Plan

1. Bootstrap claims with their grace period and the cycle that carries them over: a claim
   cannot be renewed for ever.
2. Chunk store: transactions and `env_lock`, resize, disk reserve.
3. Possession checks and fresh replication; PaidForList pruning in `RecordRetention`.
4. Recent provers over many keys and peers; strengths of the verified cache.
5. Upgrades: shared binary and archive cache of several nodes, with crashes.
6. A safety question for `ClosenessCheck`: a waiter's answer is that of its leader.
7. Proofs: `InWindowFits` from the rotation interval, the window and the number of slots,
   which would make the two retention theorems unconditional; `NobodySkipped`;
   `PenaltyAfterRepairTime`; `FlagFollowsDrain`; that the workers implement the queues.
