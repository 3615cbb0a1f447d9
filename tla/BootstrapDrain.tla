---------------------------- MODULE BootstrapDrain ----------------------------
(***************************************************************************)
(* How a joining node finds out that its bootstrap work is done:           *)
(* replication/bootstrap.rs, BootstrapState in replication/types.rs and    *)
(* the tasks of replication/mod.rs that read or write it - the bootstrap   *)
(* sync, the message handler and the neighbor-sync round, the verification *)
(* worker, the fetch worker and the start of the audit loop.               *)
(*                                                                         *)
(* The queues appear as KeyLifecycle, which ReplicationQueues implements:  *)
(* the drain condition asks only whether a key is in the pipeline.  Each   *)
(* lock of the code (the queues, the bootstrap state, the is_bootstrapping *)
(* flag) is held for one step.                                             *)
(***************************************************************************)
EXTENDS KeyLifecycle, Integers

CONSTANTS
    Peers,
    None,
    SyncTasks    \* tasks that admit the hints of a sync: the message handler
                 \* and the neighbor-sync round, each serving one peer at a time

ASSUME DrainAssumption == None \notin Peers \cup Keys

VARIABLES
    overload,                   \* whether the queues' bounds and the age limit
                                \* of an entry ever bite in this behaviour
    drained,                    \* BootstrapState
    pendingPeerRequests,
    pendingKeys,
    capacityRejectedSources,
    isBootstrapping,            \* the engine's flag
    bootSync,                   \* where the bootstrap sync is
    sync,                       \* where each task of SyncTasks is
    verifier,                   \* where the verification worker is
    fetcher                     \* where the fetch worker is

bootVars == <<drained, pendingPeerRequests, pendingKeys,
              capacityRejectedSources, isBootstrapping>>
vars == <<overload, stage, bootVars, bootSync, sync, verifier, fetcher>>

NoSync == [pc |-> "idle", peer |-> None, bootstrapping |-> FALSE,
           discovered |-> {}, rejected |-> FALSE]

Init ==
    /\ LifecycleInit
    /\ overload \in BOOLEAN
    /\ drained = FALSE
    /\ pendingPeerRequests = 0
    /\ pendingKeys = {}
    /\ capacityRejectedSources = {}
    /\ isBootstrapping = TRUE
    /\ bootSync = [pc |-> "gate", todo |-> {}, peer |-> None,
                   discovered |-> {}, rejected |-> FALSE]
    /\ sync = [t \in SyncTasks |-> NoSync]
    /\ verifier = [pc |-> "cycle", terminal |-> {}]
    /\ fetcher = [pc |-> "run", key |-> None]

-----------------------------------------------------------------------------
(* bootstrap.rs *)

\* is_bootstrap_work_empty
BootstrapWorkEmpty == \A k \in pendingKeys : stage[k] = "Idle"

\* What check_bootstrap_drained tests.
DrainCondition ==
    /\ pendingPeerRequests = 0
    /\ capacityRejectedSources = {}
    /\ BootstrapWorkEmpty

\* Defect: the caller that finds the node drained is not told.
CheckBootstrapDrainedStale(result) ==
    /\ result = drained
    /\ drained' = (drained \/ DrainCondition)
    /\ UNCHANGED <<pendingPeerRequests, pendingKeys, capacityRejectedSources,
                   isBootstrapping>>

\* check_bootstrap_drained, which its callers run under the queues' read lock;
\* it returns "result".
CheckBootstrapDrained(result) ==
    /\ result = (drained \/ DrainCondition)
    /\ drained' = result
    /\ UNCHANGED <<pendingPeerRequests, pendingKeys, capacityRejectedSources,
                   isBootstrapping>>

\* complete_bootstrap
CompleteBootstrap ==
    /\ isBootstrapping' = FALSE
    /\ UNCHANGED <<drained, pendingPeerRequests, pendingKeys,
                   capacityRejectedSources>>

\* track_discovered_keys
TrackDiscoveredKeys(keys) ==
    /\ pendingKeys' = pendingKeys \cup keys
    /\ UNCHANGED <<drained, pendingPeerRequests, capacityRejectedSources,
                   isBootstrapping>>

\* note_capacity_rejected, or clear_capacity_rejected after a clean admission
NoteOrClearRejected(p, rejected) ==
    /\ capacityRejectedSources' = IF rejected
                                  THEN capacityRejectedSources \cup {p}
                                  ELSE capacityRejectedSources \ {p}
    /\ UNCHANGED <<drained, pendingPeerRequests, pendingKeys, isBootstrapping>>

\* BootstrapState::remove_key, for each key
ForgetKeys(keys) ==
    /\ pendingKeys' = pendingKeys \ keys
    /\ UNCHANGED <<drained, pendingPeerRequests, capacityRejectedSources,
                   isBootstrapping>>

\* increment_pending_requests
IncrementPendingRequests ==
    /\ pendingPeerRequests' = pendingPeerRequests + 1
    /\ UNCHANGED <<drained, pendingKeys, capacityRejectedSources, isBootstrapping>>

\* decrement_pending_requests, saturating
DecrementPendingRequests ==
    /\ pendingPeerRequests' = IF pendingPeerRequests = 0 THEN 0
                              ELSE pendingPeerRequests - 1
    /\ UNCHANGED <<drained, pendingKeys, capacityRejectedSources, isBootstrapping>>

-----------------------------------------------------------------------------
(* admit_and_queue_hints and what its callers do with its outcome *)

\* The queues admit the new keys they have room for; when they turn a hint
\* away the outcome says so.
AdmitAndQueueHints(discovered, rejected) ==
    /\ Admit(discovered)
    /\ rejected => overload /\ At("Idle") # discovered

\* Nothing is tracked when nothing was discovered.
AfterAdmission(discovered) == IF discovered = {} THEN "note" ELSE "track"

(* handle_neighbor_sync_request in the message handler, handle_sync_response *)
(* in a neighbor-sync round: the flag is read first, the hints are admitted  *)
(* later.                                                                    *)

SyncStart(t, p) ==
    /\ sync[t].pc = "idle"
    /\ sync' = [sync EXCEPT ![t] =
                  [NoSync EXCEPT !.pc = "admit", !.peer = p,
                                 !.bootstrapping = isBootstrapping]]
    /\ UNCHANGED <<stage, bootVars, bootSync, verifier, fetcher>>

SyncAdmit(t) ==
    /\ sync[t].pc = "admit"
    /\ \E discovered \in SUBSET Keys, rejected \in BOOLEAN :
         /\ AdmitAndQueueHints(discovered, rejected)
         /\ sync' = [sync EXCEPT ![t] =
                       IF sync[t].bootstrapping
                       THEN [@ EXCEPT !.pc = AfterAdmission(discovered),
                                      !.discovered = discovered,
                                      !.rejected = rejected]
                       ELSE NoSync]
    /\ UNCHANGED <<bootVars, bootSync, verifier, fetcher>>

SyncTrack(t) ==
    /\ sync[t].pc = "track"
    /\ TrackDiscoveredKeys(sync[t].discovered)
    /\ sync' = [sync EXCEPT ![t].pc = "note", ![t].discovered = {}]
    /\ UNCHANGED <<stage, bootSync, verifier, fetcher>>

SyncNote(t) ==
    /\ sync[t].pc = "note"
    /\ NoteOrClearRejected(sync[t].peer, sync[t].rejected)
    /\ sync' = [sync EXCEPT ![t] = NoSync]
    /\ UNCHANGED <<stage, bootSync, verifier, fetcher>>

SyncTask(t) == SyncAdmit(t) \/ SyncTrack(t) \/ SyncNote(t)

-----------------------------------------------------------------------------
(* start_bootstrap_sync: one request after the other to the close neighbors *)

\* The gate opens and the neighbors are snapshot; without any the node is
\* drained at once (mark_bootstrap_drained).
BootGate ==
    /\ bootSync.pc = "gate"
    /\ \E neighbors \in SUBSET Peers :
         /\ bootSync' = [bootSync EXCEPT !.todo = neighbors,
                             !.pc = IF neighbors = {} THEN "complete" ELSE "next"]
         /\ drained' = (drained \/ neighbors = {})
    /\ UNCHANGED <<stage, pendingPeerRequests, pendingKeys, isBootstrapping,
                   capacityRejectedSources, sync, verifier, fetcher>>

BootRequest ==
    /\ bootSync.pc = "next"
    /\ \E p \in bootSync.todo :
         bootSync' = [bootSync EXCEPT !.pc = "request", !.peer = p,
                                      !.todo = @ \ {p}]
    /\ IncrementPendingRequests
    /\ UNCHANGED <<stage, sync, verifier, fetcher>>

\* The request ends.  A failure, or a peer that is bootstrapping itself,
\* brings no hints.
BootResponse ==
    /\ bootSync.pc = "request"
    /\ \/ bootSync' = [bootSync EXCEPT !.pc = "admit"]
       \/ bootSync' = [bootSync EXCEPT !.pc = "next", !.peer = None]
    /\ DecrementPendingRequests
    /\ UNCHANGED <<stage, sync, verifier, fetcher>>

BootAdmit ==
    /\ bootSync.pc = "admit"
    /\ \E discovered \in SUBSET Keys, rejected \in BOOLEAN :
         /\ AdmitAndQueueHints(discovered, rejected)
         /\ bootSync' = [bootSync EXCEPT !.pc = AfterAdmission(discovered),
                                         !.discovered = discovered,
                                         !.rejected = rejected]
    /\ UNCHANGED <<bootVars, sync, verifier, fetcher>>

BootTrack ==
    /\ bootSync.pc = "track"
    /\ TrackDiscoveredKeys(bootSync.discovered)
    /\ bootSync' = [bootSync EXCEPT !.pc = "note", !.discovered = {}]
    /\ UNCHANGED <<stage, sync, verifier, fetcher>>

BootNote ==
    /\ bootSync.pc = "note"
    /\ NoteOrClearRejected(bootSync.peer, bootSync.rejected)
    /\ bootSync' = [bootSync EXCEPT !.pc = "next", !.peer = None,
                                    !.rejected = FALSE]
    /\ UNCHANGED <<stage, sync, verifier, fetcher>>

\* Every neighbor was asked: the drain condition is checked.
BootFinish ==
    /\ bootSync.pc = "next"
    /\ bootSync.todo = {}
    /\ \E result \in BOOLEAN :
         /\ CheckBootstrapDrained(result)
         /\ bootSync' = [bootSync EXCEPT
                             !.pc = IF result THEN "complete" ELSE "done"]
    /\ UNCHANGED <<stage, sync, verifier, fetcher>>

BootComplete ==
    /\ bootSync.pc = "complete"
    /\ CompleteBootstrap
    /\ bootSync' = [bootSync EXCEPT !.pc = "done"]
    /\ UNCHANGED <<stage, sync, verifier, fetcher>>

BootstrapSync ==
    BootGate \/ BootRequest \/ BootResponse \/ BootAdmit \/ BootTrack
        \/ BootNote \/ BootFinish \/ BootComplete

-----------------------------------------------------------------------------
(* The verification worker: ReplicationWorkers has its cycle in detail; here *)
(* are the keys it takes out of PendingVerify and what it reports of them.   *)

\* evict_stale, at the start of a cycle, reports nothing.
VerifyEvict ==
    /\ overload
    /\ verifier = [pc |-> "cycle", terminal |-> {}]
    /\ \E stale \in SUBSET At("PendingVerify") : Verify(stale, {})
    /\ UNCHANGED <<bootVars, bootSync, sync, verifier, fetcher>>

VerifyResolve(terminal, promoted) ==
    /\ verifier.pc = "cycle"
    /\ Verify(terminal, promoted)
    /\ verifier' = [verifier EXCEPT !.terminal = @ \cup terminal]
    /\ UNCHANGED <<bootVars, bootSync, sync, fetcher>>

\* update_bootstrap_after_verification; a cycle without terminal keys ends
\* here.
VerifyForget ==
    /\ verifier.pc = "cycle"
    /\ verifier.terminal # {}
    /\ IF drained THEN UNCHANGED bootVars ELSE ForgetKeys(verifier.terminal)
    /\ verifier' = [pc |-> IF drained THEN "cycle" ELSE "check", terminal |-> {}]
    /\ UNCHANGED <<stage, bootSync, sync, fetcher>>

\* Defect: the result of the check is ignored.
VerifyCheckIgnored ==
    /\ verifier.pc = "check"
    /\ \E result \in BOOLEAN : CheckBootstrapDrained(result)
    /\ verifier' = [verifier EXCEPT !.pc = "complete"]
    /\ UNCHANGED <<stage, bootSync, sync, fetcher>>

VerifyCheck ==
    /\ verifier.pc = "check"
    /\ \E result \in BOOLEAN :
         /\ CheckBootstrapDrained(result)
         /\ verifier' = [verifier EXCEPT !.pc = IF result THEN "complete" ELSE "cycle"]
    /\ UNCHANGED <<stage, bootSync, sync, fetcher>>

VerifyComplete ==
    /\ verifier.pc = "complete"
    /\ CompleteBootstrap
    /\ verifier' = [verifier EXCEPT !.pc = "cycle"]
    /\ UNCHANGED <<stage, bootSync, sync, fetcher>>

VerifierReports == VerifyForget \/ VerifyCheck \/ VerifyComplete

-----------------------------------------------------------------------------
(* The fetch worker: the slots it fills and the fetches that end *)

\* A key is never queued without a source, so none is dropped.
FetchStart(started) ==
    /\ fetcher.pc = "run"
    /\ Start(started, {})
    /\ UNCHANGED <<bootVars, bootSync, sync, verifier, fetcher>>

FetchDone(k) ==
    /\ fetcher.pc = "run"
    /\ Finish(k)
    /\ fetcher' = [pc |-> "forget", key |-> k]
    /\ UNCHANGED <<bootVars, bootSync, sync, verifier>>

\* Defect: the end of a fetch does not lead to a check.
FetchForgetUnchecked ==
    /\ fetcher.pc = "forget"
    /\ IF drained THEN UNCHANGED bootVars ELSE ForgetKeys({fetcher.key})
    /\ fetcher' = [pc |-> "run", key |-> None]
    /\ UNCHANGED <<stage, bootSync, sync, verifier>>

FetchForget ==
    /\ fetcher.pc = "forget"
    /\ IF drained THEN UNCHANGED bootVars ELSE ForgetKeys({fetcher.key})
    /\ fetcher' = [pc |-> IF drained THEN "run" ELSE "check", key |-> None]
    /\ UNCHANGED <<stage, bootSync, sync, verifier>>

FetchCheck ==
    /\ fetcher.pc = "check"
    /\ \E result \in BOOLEAN :
         /\ CheckBootstrapDrained(result)
         /\ fetcher' = [fetcher EXCEPT !.pc = IF result THEN "complete" ELSE "run"]
    /\ UNCHANGED <<stage, bootSync, sync, verifier>>

FetchComplete ==
    /\ fetcher.pc = "complete"
    /\ CompleteBootstrap
    /\ fetcher' = [fetcher EXCEPT !.pc = "run"]
    /\ UNCHANGED <<stage, bootSync, sync, verifier>>

FetcherReports == FetchForget \/ FetchCheck \/ FetchComplete

-----------------------------------------------------------------------------

Step ==
    \/ \E t \in SyncTasks : SyncTask(t) \/ \E p \in Peers : SyncStart(t, p)
    \/ BootstrapSync
    \/ VerifyEvict
    \/ \E terminal, promoted \in SUBSET Keys : VerifyResolve(terminal, promoted)
    \/ VerifierReports
    \/ \E started \in SUBSET Keys : FetchStart(started)
    \/ \E k \in Keys : FetchDone(k)
    \/ FetcherReports

\* A behaviour is under overload from its start or never.
Steady(A) == A /\ UNCHANGED overload

Next == Steady(Step)

\* The steps that move keys on.  A verification cycle resolves what it finds
\* pending, unless FetchQueue is full, and the fetch worker starts what is
\* queued and takes every result (ReplicationWorkers).
ResolveAll ==
    /\ At("PendingVerify") # {}
    /\ \E terminal \in SUBSET Keys : VerifyResolve(terminal, At("PendingVerify") \ terminal)
StartAll == At("FetchQueue") # {} /\ FetchStart(At("FetchQueue"))

\* The tasks run on; no peer has to sync.
Fairness ==
    /\ \A t \in SyncTasks : WF_vars(Steady(SyncTask(t)))
    /\ WF_vars(Steady(BootstrapSync))
    /\ WF_vars(Steady(VerifierReports))
    /\ WF_vars(Steady(FetcherReports))
    /\ SF_vars(Steady(ResolveAll))
    /\ SF_vars(Steady(StartAll))
    /\ \A k \in Keys : SF_vars(Steady(FetchDone(k)))

Spec == Init /\ [][Next]_vars
FairSpec == Spec /\ Fairness

-----------------------------------------------------------------------------
(* Properties *)

\* Every variable has the shape of the code's.
TypeOK ==
    /\ overload \in BOOLEAN
    /\ stage \in [Keys -> Stage]
    /\ drained \in BOOLEAN
    /\ pendingPeerRequests \in Nat
    /\ pendingKeys \subseteq Keys
    /\ capacityRejectedSources \subseteq Peers
    /\ isBootstrapping \in BOOLEAN
    /\ bootSync \in [pc : {"gate", "next", "request", "admit", "track", "note",
                           "complete", "done"},
                     todo : SUBSET Peers, peer : Peers \cup {None},
                     discovered : SUBSET Keys, rejected : BOOLEAN]
    /\ sync \in [SyncTasks -> [pc : {"idle", "admit", "track", "note"},
                               peer : Peers \cup {None}, bootstrapping : BOOLEAN,
                               discovered : SUBSET Keys, rejected : BOOLEAN]]
    /\ verifier \in [pc : {"cycle", "check", "complete"}, terminal : SUBSET Keys]
    /\ fetcher \in [pc : {"run", "forget", "check", "complete"},
                    key : Keys \cup {None}]

\* The flag and the bootstrap state are two locks written in two steps by
\* three tasks: a node that stopped claiming to bootstrap is drained, and
\* whoever is about to clear the flag has seen the drain.
FlagFollowsDrain ==
    /\ ~isBootstrapping => drained
    /\ "complete" \in {bootSync.pc, verifier.pc, fetcher.pc} => drained

\* Requests of the bootstrap sync are counted while they are outstanding and
\* only then, whether they are answered or fail: the count never leaks, and
\* the saturating decrement never saturates.
PendingRequestsExact ==
    pendingPeerRequests = IF bootSync.pc = "request" THEN 1 ELSE 0

\* Every task of SyncTasks is between two syncs.
SyncQuiet == \A t \in SyncTasks : sync[t].pc = "idle"

\* Whichever task finds the node drained also clears the flag.
DrainCompletes == drained ~> ~isBootstrapping

\* Without overload bootstrap ends once the peers stop sending hints: the last
\* tracked key to leave the pipeline, or the end of the bootstrap sync, finds
\* the drain condition true, whatever the order of admissions, verifications
\* and fetches.
BootstrapEnds == ~overload /\ <>[]SyncQuiet => <>~isBootstrapping

\* The claim of bootstrap.rs:3 that the node "transitions to normal operation
\* once all bootstrap work drains": once the bootstrap sync is over and the
\* drain condition holds for good, the node gets drained.
DrainNoticed == <>[](bootSync.pc = "done" /\ SyncQuiet /\ DrainCondition) => <>drained

\* The claim of bootstrap.rs:107, "All bootstrap peer requests have completed":
\* the node is drained only after the bootstrap sync asked every neighbor.
DrainAwaitsRequests == drained => bootSync.pc \in {"complete", "done"}

\* The claim of bootstrap.rs:108, "All bootstrap-discovered keys have left the
\* pipeline": when the node becomes drained no key that a task discovered
\* while bootstrapping is in the pipeline.
DrainAwaitsKeys ==
    [][~drained /\ drained' =>
         \A k \in bootSync.discovered \cup UNION {sync[t].discovered : t \in SyncTasks} :
            stage[k] = "Idle"]_vars

=============================================================================
