-------------------------- MODULE ReplicationWorkers --------------------------
(***************************************************************************)
(* The two workers that drive the queues, replication/mod.rs: the          *)
(* verification worker, which takes keys out of PendingVerify, and the     *)
(* fetch worker, which keeps a set of spawned fetches in step with         *)
(* InFlightFetch.  Hints arrive at any time from the tasks that sync.      *)
(*                                                                         *)
(* A step of a worker ends where the code releases the queues' lock or     *)
(* awaits.  What the network answers, and what a worker reads of the chunk *)
(* store, of the PaidForList and of the routing table, which other tasks   *)
(* and nodes change at any time, is chosen freely at each read.            *)
(***************************************************************************)
EXTENDS ReplicationQueues

VARIABLES
    verifier,     \* where the verification worker is in its cycle
    fetches,      \* in_flight of the fetch worker: the spawned fetches
    fetcherPc     \* where the fetch worker is in its loop

vars == <<queueVars, verifier, fetches, fetcherPc>>

Fetch == [key : Keys, source : Peers,
          result : {"Running", "Stored", "Failed", "Panicked"}]

\* A verification cycle's batches: keys to drop, keys authorized by the
\* PaidForList that need a presence probe, keys that need the network.
NoBatch == [pc |-> "evict", drop |-> {}, probe |-> {}, network |-> {}]

WorkersInit ==
    /\ Init
    /\ verifier = NoBatch
    /\ fetches = {}
    /\ fetcherPc = "fill"

-----------------------------------------------------------------------------

\* admit_and_queue_hints: the hints of a sync with p that pass admit_hints and,
\* for replica hints, are not stored when the queues are locked.
AdmitHints(p) ==
    /\ \E replica \in SUBSET Keys :
         \E paidOnly \in SUBSET (Keys \ replica) :
           \E admitted \in AdmittedSets(p, replica, paidOnly) :
             AddPendingVerify(p, replica, admitted)
    /\ UNCHANGED <<verifier, fetches, fetcherPc>>

\* An entry grows older than PENDING_VERIFY_MAX_AGE.
Tick(k) ==
    /\ ~pendingVerify[k].stale
    /\ GrowStale(k)
    /\ UNCHANGED <<verifier, fetches, fetcherPc>>

-----------------------------------------------------------------------------
(* run_verification_cycle *)

\* Defects: entries are not evicted, or are at any time.
VerifyEvictNever ==
    /\ verifier.pc = "evict"
    /\ verifier' = [NoBatch EXCEPT !.pc = "classify"]
    /\ UNCHANGED <<queueVars, fetches, fetcherPc>>
VerifyEvictAnytime ==
    \/ VerifyEvictNever
    \/ EvictStale /\ UNCHANGED <<verifier, fetches, fetcherPc>>

VerifyEvict ==
    /\ verifier.pc = "evict"
    /\ EvictStale
    /\ verifier' = [NoBatch EXCEPT !.pc = "classify"]
    /\ UNCHANGED <<fetches, fetcherPc>>

\* The snapshot of the pending keys and Step 1: keys in the PaidForList are
\* authorized, the others need the network.  An authorized paid-only key is
\* dropped unless this node should store it and does not.
VerifyClassify ==
    /\ verifier.pc = "classify"
    /\ \E paid \in SUBSET Pending :
         \E drop \in SUBSET {k \in paid : pendingVerify[k].pipeline = "PaidOnly"} :
           /\ SetPaidListVerified(paid)
           /\ verifier' = IF Pending = {}
                          THEN NoBatch
                          ELSE [pc |-> "drop", drop |-> drop,
                                probe |-> paid \ drop, network |-> Pending \ paid]
    /\ UNCHANGED <<fetches, fetcherPc>>

VerifyDrop ==
    /\ verifier.pc = "drop"
    /\ RemovePending(verifier.drop)
    /\ verifier' = [verifier EXCEPT !.pc = "probe", !.drop = {}]
    /\ UNCHANGED <<fetchQueue, fetchQueueKeys, inFlightFetch, fetches, fetcherPc>>

\* The end of a network round over a batch.  A key that is stored by now, has
\* no holder, failed its quorum or need not be stored is terminal; the others
\* are promoted with their sources, and stay pending while FetchQueue is full.
Resolve(batch) ==
    \E terminal \in SUBSET batch :
      \E promoted \in PromotedSets(batch \ terminal) :
        \E sourcesOf \in [promoted -> Sources \ {<<>>}] :
          ResolvePending(terminal, promoted, sourcesOf)

\* Step 1b
VerifyProbe ==
    /\ verifier.pc = "probe"
    /\ Resolve(verifier.probe)
    /\ verifier' = [verifier EXCEPT !.pc = "network", !.probe = {}]
    /\ UNCHANGED <<fetches, fetcherPc>>

\* Steps 2 to 5: the outcomes are evaluated under the read lock for the keys
\* that are still pending, and applied under the write lock.  Between the two
\* the entries do not change: nobody else removes one (BatchStillPending).
VerifyNetwork ==
    /\ verifier.pc = "network"
    /\ Resolve(verifier.network \cap Pending)
    /\ verifier' = NoBatch
    /\ UNCHANGED <<fetches, fetcherPc>>

VerificationWorker ==
    VerifyEvict \/ VerifyClassify \/ VerifyDrop \/ VerifyProbe \/ VerifyNetwork

-----------------------------------------------------------------------------
(* start_fetch_worker *)

\* The slots to fill.
FreeSlots == Monus(MaxParallelFetch, Cardinality(fetches))

\* The fill loop under the queues' lock.  With nothing in flight the worker
\* sleeps and tries again; otherwise it waits for a result.
FetchFill ==
    /\ fetcherPc = "fill"
    /\ FillSlots(FreeSlots)
    /\ fetches' = fetches \cup
         {[key |-> k, source |-> inFlightFetch'[k].source, result |-> "Running"] :
            k \in {q \in Keys : inFlightFetch'[q] # inFlightFetch[q]}}
    /\ fetcherPc' = IF fetches' = {} THEN "fill" ELSE "wait"
    /\ UNCHANGED verifier

\* execute_single_fetch ends: the record is stored, or the source failed,
\* answered too late or sent bytes that do not match the address ("Failed").
FetchEnds(f) ==
    /\ f.result = "Running"
    /\ \E r \in {"Stored", "Failed", "Panicked"} :
         fetches' = (fetches \ {f}) \cup {[f EXCEPT !.result = r]}
    /\ UNCHANGED <<queueVars, verifier, fetcherPc>>

\* The worker takes a failure and there is a source left: it is tried at once.
FetchRetry(f) ==
    /\ fetcherPc = "wait"
    /\ f.result = "Failed"
    /\ RetryFetch(f.key)
    /\ fetches' = (fetches \ {f}) \cup
         {[f EXCEPT !.result = "Running", !.source = inFlightFetch'[f.key].source]}
    /\ fetcherPc' = "fill"
    /\ UNCHANGED verifier

\* Defect: the slot of a fetch that panicked is not reclaimed.
FetchDoneLosesPanic(f) ==
    /\ fetcherPc = "wait"
    /\ \/ f.result = "Stored" /\ CompleteFetch(f.key)
       \/ f.result = "Failed" /\ Untried(f.key) = {} /\ CompleteFetch(f.key)
       \/ f.result = "Panicked" /\ UNCHANGED queueVars
    /\ fetches' = fetches \ {f}
    /\ fetcherPc' = "fill"
    /\ UNCHANGED verifier

\* The worker takes a result that ends the fetch of the key.
FetchDone(f) ==
    /\ fetcherPc = "wait"
    /\ \/ f.result \in {"Stored", "Panicked"}
       \/ f.result = "Failed" /\ Untried(f.key) = {}
    /\ CompleteFetch(f.key)
    /\ fetches' = fetches \ {f}
    /\ fetcherPc' = "fill"
    /\ UNCHANGED verifier

FetchWorker == FetchFill \/ \E f \in fetches : FetchRetry(f) \/ FetchDone(f)

-----------------------------------------------------------------------------

WorkersNext ==
    \/ \E p \in Peers : AdmitHints(p)
    \/ \E k \in Pending : Tick(k)
    \/ VerificationWorker
    \/ FetchWorker
    \/ \E f \in fetches : FetchEnds(f)

\* The worker takes the result of the fetch of k.
FetchTaken(k) == \E f \in fetches : f.key = k /\ (FetchRetry(f) \/ FetchDone(f))

\* The workers loop until shutdown, every fetch ends (it has a timeout), ready
\* results are taken in the order they became ready (FuturesUnordered), and
\* time passes.  Nothing obliges a peer to send hints.
Fairness ==
    /\ WF_vars(VerificationWorker)
    /\ WF_vars(FetchWorker)
    /\ \A k \in Keys : /\ WF_vars(\E f \in fetches : f.key = k /\ FetchEnds(f))
                       /\ SF_vars(FetchTaken(k))
                       /\ WF_vars(k \in Pending /\ Tick(k))

WorkersSpec == WorkersInit /\ [][WorkersNext]_vars
FairWorkersSpec == WorkersSpec /\ Fairness

-----------------------------------------------------------------------------
(* Properties *)

\* The workers' local state has the shape of the code's.
WorkersTypeOK ==
    /\ TypeOK
    /\ verifier \in [pc : {"evict", "classify", "drop", "probe", "network"},
                     drop : SUBSET Keys, probe : SUBSET Keys, network : SUBSET Keys]
    /\ fetches \subseteq Fetch
    /\ fetcherPc \in {"fill", "wait"}

\* The spawned fetches and InFlightFetch are in step whatever the order of
\* results, retries and panics: each in-flight key has exactly one fetch, from
\* the source the entry names, and there is no fetch without an entry.  A key
\* whose fetch were lost would block its re-admission for ever.
FetchesMatchInFlight ==
    /\ {f.key : f \in fetches} = InFlight
    /\ \A f, g \in fetches : f.key = g.key => f = g
    /\ \A f \in fetches : f.source = inFlightFetch[f.key].source

\* The verification worker reads the pending keys, releases the lock for the
\* network rounds and acts on what it read: each key of its batches is still
\* pending when it does, with the pipeline it was classified by, and the
\* batches never overlap.
BatchStillPending ==
    /\ verifier.drop \cup verifier.probe \cup verifier.network \subseteq Pending
    /\ \A k \in verifier.drop : pendingVerify[k].pipeline = "PaidOnly"
    /\ verifier.drop \cap verifier.probe = {}
    /\ (verifier.drop \cup verifier.probe) \cap verifier.network = {}

\* No key stays in PendingVerify for ever, even when FetchQueue is full each
\* time it is verified: it is resolved, promoted or evicted as stale.
PendingLeaves == \A k \in Keys : k \in Pending ~> k \notin Pending

\* No key stays in flight for ever: its sources are finitely many and every
\* fetch ends.
InFlightLeaves == \A k \in Keys : k \in InFlight ~> k \notin InFlight

\* The workers use the queues only in the ways ReplicationQueues allows; in
\* particular they promote no key that is not pending, although they decided
\* to before they took the lock.
QueuesUsedAsSpecified == Spec

=============================================================================
