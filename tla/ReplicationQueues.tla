--------------------------- MODULE ReplicationQueues ---------------------------
(***************************************************************************)
(* The queue manager of the replication engine, replication/scheduling.rs: *)
(* PendingVerify, FetchQueue and InFlightFetch behind one                  *)
(* RwLock<ReplicationQueues>.  A step of this module is one critical       *)
(* section of that lock, as the engine (replication/mod.rs) makes them.    *)
(*                                                                         *)
(* A loop over keys inside one critical section is one step.  Each call in *)
(* such a loop consumes one unit of a capacity, so the loop is described   *)
(* by how many keys it serves; which ones depends on the order of the      *)
(* message or of a HashMap, hence the choice of a subset.                  *)
(***************************************************************************)
EXTENDS Integers, Sequences, FiniteSets

CONSTANTS
    Keys,                         \* XorName of a chunk
    Peers,                        \* PeerId of the other nodes
    None,                         \* Option::None
    Distance,                     \* XOR distance of a key from this node
    Sources,                      \* source lists a verification may yield
    MAX_PENDING_VERIFY,
    MAX_PENDING_VERIFY_PER_PEER,
    MAX_FETCH_QUEUE,
    MaxParallelFetch              \* config::max_parallel_fetch()

ASSUME QueueSets ==
    /\ IsFiniteSet(Keys)
    /\ IsFiniteSet(Peers)

\* XOR with a fixed identifier is injective, so distances never tie.
ASSUME DistanceInjective ==
    /\ Distance \in [Keys -> Nat]
    /\ \A a, b \in Keys : Distance[a] = Distance[b] => a = b

\* quorum::collect_present_sources lists a peer once.
ASSUME SourcesAssumption ==
    /\ Sources \subseteq Seq(Peers)
    /\ \A s \in Sources : \A i, j \in DOMAIN s : s[i] = s[j] => i = j

ASSUME QueueCapacities ==
    /\ MAX_PENDING_VERIFY \in Nat
    /\ MAX_PENDING_VERIFY_PER_PEER \in Nat
    /\ MAX_FETCH_QUEUE \in Nat
    /\ MaxParallelFetch \in Nat \ {0}

VARIABLES
    pendingVerify,     \* pending_verify: an entry, or None, for each key
    fetchQueue,        \* fetch_queue: the candidates in the heap
    fetchQueueKeys,    \* fetch_queue_keys: its dedup index
    inFlightFetch,     \* in_flight_fetch: an entry, or None, for each key
    pendingPerSender   \* pending_per_sender; a missing peer counts 0

queueVars == <<pendingVerify, fetchQueue, fetchQueueKeys, inFlightFetch,
               pendingPerSender>>

HintPipeline == {"Replica", "PaidOnly"}

\* The engine sets only these two of the VerificationState values.
VerificationState == {"PendingVerify", "PaidListVerified"}

\* created_at is abstracted to whether evict_stale would drop the entry.
VerificationEntry ==
    [state : VerificationState, pipeline : HintPipeline, hintSender : Peers,
     stale : BOOLEAN]

FetchCandidate == [key : Keys, sources : Sources]

InFlightEntry == [source : Peers, allSources : Sources, tried : SUBSET Peers]

ASSUME NoneAssumption == None \notin VerificationEntry \cup InFlightEntry

-----------------------------------------------------------------------------

Pending == {k \in Keys : pendingVerify[k] # None}
InFlight == {k \in Keys : inFlightFetch[k] # None}
PendingOf(p) == {k \in Pending : pendingVerify[k].hintSender = p}

\* Defects: the lookup forgets a stage.
ContainsKeyNotInFlight(k) == k \in Pending \/ k \in fetchQueueKeys
ContainsKeyNotQueued(k) == k \in Pending \/ k \in InFlight

\* contains_key
ContainsKey(k) == k \in Pending \/ k \in fetchQueueKeys \/ k \in InFlight

AtMost(n, m) == IF n <= m THEN n ELSE m

\* saturating_sub
Monus(n, m) == IF n <= m THEN 0 ELSE n - m

Init ==
    /\ pendingVerify = [k \in Keys |-> None]
    /\ fetchQueue = {}
    /\ fetchQueueKeys = {}
    /\ inFlightFetch = [k \in Keys |-> None]
    /\ pendingPerSender = [p \in Peers |-> 0]

-----------------------------------------------------------------------------
(* PendingVerify *)

\* Defect: only the global bound is tested.
PendingRoomGlobal(p) == Monus(MAX_PENDING_VERIFY, Cardinality(Pending))

\* How many new keys add_pending_verify still accepts from a sender.
PendingRoom(p) ==
    AtMost(Monus(MAX_PENDING_VERIFY, Cardinality(Pending)),
           Monus(MAX_PENDING_VERIFY_PER_PEER, pendingPerSender[p]))

\* The sets of keys a run of add_pending_verify may admit for p: new keys, as
\* many as there is room for, the replica hints before the paid-only ones.
AdmittedSets(p, replica, paidOnly) ==
    LET newReplica == {k \in replica : ~ContainsKey(k)}
        newPaid == {k \in paidOnly \ replica : ~ContainsKey(k)}
        new == newReplica \cup newPaid
    IN  {a \in SUBSET new :
            /\ Cardinality(a) = AtMost(Cardinality(new), PendingRoom(p))
            /\ (a \cap newPaid # {}) => newReplica \subseteq a}

\* admit_and_queue_hints, from taking the write lock: add_pending_verify for
\* each hint that passed admission.
AddPendingVerify(p, replica, admitted) ==
    /\ pendingVerify' =
         [k \in Keys |->
            IF k \in admitted
            THEN [state |-> "PendingVerify",
                  pipeline |-> IF k \in replica THEN "Replica" ELSE "PaidOnly",
                  hintSender |-> p,
                  stale |-> FALSE]
            ELSE pendingVerify[k]]
    /\ pendingPerSender' =
         [pendingPerSender EXCEPT ![p] = @ + Cardinality(admitted)]
    /\ UNCHANGED <<fetchQueue, fetchQueueKeys, inFlightFetch>>

\* set_pending_state(key, PaidListVerified) for the keys of a batch
SetPaidListVerified(keys) ==
    /\ pendingVerify' =
         [k \in Keys |-> IF k \in keys \cap Pending
                         THEN [pendingVerify[k] EXCEPT !.state = "PaidListVerified"]
                         ELSE pendingVerify[k]]
    /\ UNCHANGED <<fetchQueue, fetchQueueKeys, inFlightFetch, pendingPerSender>>

\* Defect: the sender's slot is not released.
RemovePendingKeepsSlot(keys) ==
    /\ pendingVerify' =
         [k \in Keys |-> IF k \in keys THEN None ELSE pendingVerify[k]]
    /\ UNCHANGED pendingPerSender

\* remove_pending for each key: the entry goes, and its sender's slot is
\* released (release_sender_slot).
RemovePending(keys) ==
    /\ pendingVerify' =
         [k \in Keys |-> IF k \in keys THEN None ELSE pendingVerify[k]]
    /\ pendingPerSender' =
         [p \in Peers |->
            Monus(pendingPerSender[p], Cardinality(PendingOf(p) \cap keys))]

\* evict_stale
EvictStale ==
    /\ RemovePending({k \in Pending : pendingVerify[k].stale})
    /\ UNCHANGED <<fetchQueue, fetchQueueKeys, inFlightFetch>>

\* The clock: an entry passes PENDING_VERIFY_MAX_AGE.
GrowStale(k) ==
    /\ k \in Pending
    /\ pendingVerify' = [pendingVerify EXCEPT ![k].stale = TRUE]
    /\ UNCHANGED <<fetchQueue, fetchQueueKeys, inFlightFetch, pendingPerSender>>

-----------------------------------------------------------------------------
(* FetchQueue *)

FreshForFetch(keys) == {k \in keys : k \notin fetchQueueKeys /\ k \notin InFlight}

\* The keys that a run of promote_pending_to_fetch takes out of PendingVerify:
\* a key promoted while the queue is full stays where it is.
PromotedSets(want) ==
    LET fresh == FreshForFetch(want)
        room == Monus(MAX_FETCH_QUEUE, Cardinality(fetchQueue))
    IN  {w \in SUBSET want :
            /\ Cardinality(w \cap fresh) = AtMost(Cardinality(fresh), room)
            /\ room = 0 => w = {}
            /\ room > Cardinality(fresh) => w = want}

\* One critical section of the verification worker: remove_pending for the
\* terminal keys, promote_pending_to_fetch for the verified ones, of which
\* the keys of "promoted" find room; enqueue_fetch drops a key that is
\* queued or in flight already.
ResolvePending(terminal, promoted, sourcesOf) ==
    LET queued == FreshForFetch(promoted)
    IN  /\ RemovePending(terminal \cup promoted)
        /\ fetchQueue' = fetchQueue \cup
                           {[key |-> k, sources |-> sourcesOf[k]] : k \in queued}
        /\ fetchQueueKeys' = fetchQueueKeys \cup queued
        /\ UNCHANGED inFlightFetch

-----------------------------------------------------------------------------
(* InFlightFetch *)

Startable(c) == c.sources # <<>> /\ c.key \notin InFlight

\* The candidates the fetch worker pops to fill "free" slots, nearest first.
\* One that is already in flight or has no source is dropped and fills none.
Dequeued(free) ==
    {c \in fetchQueue :
        Cardinality({d \in fetchQueue : /\ Distance[d.key] < Distance[c.key]
                                        /\ Startable(d)}) < free}

Started(free) == {c \in Dequeued(free) : Startable(c)}

\* The entry start_fetch makes for a candidate.
StartFetch(c) ==
    [source |-> c.sources[1], allSources |-> c.sources, tried |-> {c.sources[1]}]

\* The index entries that dequeue_fetch removes; a defect removes none.
UnindexedNever(free) == {}
Unindexed(free) == {c.key : c \in Dequeued(free)}

\* The fetch worker's fill loop: dequeue_fetch and start_fetch.
FillSlots(free) ==
    /\ fetchQueue' = fetchQueue \ Dequeued(free)
    /\ fetchQueueKeys' = fetchQueueKeys \ Unindexed(free)
    /\ inFlightFetch' =
         [k \in Keys |->
            IF \E c \in Started(free) : c.key = k
            THEN StartFetch(CHOOSE c \in Started(free) : c.key = k)
            ELSE inFlightFetch[k]]
    /\ UNCHANGED <<pendingVerify, pendingPerSender>>

\* complete_fetch
CompleteFetch(k) ==
    /\ inFlightFetch' = [inFlightFetch EXCEPT ![k] = None]
    /\ UNCHANGED <<pendingVerify, fetchQueue, fetchQueueKeys, pendingPerSender>>

\* Defect: any other source will do.
UntriedOther(k) ==
    {i \in DOMAIN inFlightFetch[k].allSources :
        inFlightFetch[k].allSources[i] # inFlightFetch[k].source}

\* The sources of an in-flight key that retry_fetch has not tried.
Untried(k) ==
    {i \in DOMAIN inFlightFetch[k].allSources :
        inFlightFetch[k].allSources[i] \notin inFlightFetch[k].tried
            \cup {inFlightFetch[k].source}}

\* retry_fetch, when it finds a next source: the first untried one
RetryFetch(k) ==
    /\ Untried(k) # {}
    /\ LET first == CHOOSE i \in Untried(k) : \A j \in Untried(k) : i <= j
           next == inFlightFetch[k].allSources[first]
       IN  inFlightFetch' =
             [inFlightFetch EXCEPT
                ![k].source = next,
                ![k].tried = @ \cup {inFlightFetch[k].source, next}]
    /\ UNCHANGED <<pendingVerify, fetchQueue, fetchQueueKeys, pendingPerSender>>

-----------------------------------------------------------------------------

\* admit_hints gives a key to one of its two lists; the verification worker
\* gives it one outcome, and promotes only keys it found pending.
Next ==
    \/ \E p \in Peers, replica \in SUBSET Keys :
         \E paidOnly \in SUBSET (Keys \ replica) :
           \E a \in AdmittedSets(p, replica, paidOnly) :
              AddPendingVerify(p, replica, a)
    \/ \E keys \in SUBSET Keys : SetPaidListVerified(keys)
    \/ EvictStale
    \/ \E k \in Keys : GrowStale(k)
    \/ \E terminal \in SUBSET Keys :
         \E want \in SUBSET (Pending \ terminal) :
           \E promoted \in PromotedSets(want) :
             \E sourcesOf \in [promoted -> Sources] :
                ResolvePending(terminal, promoted, sourcesOf)
    \/ \E free \in 1..MaxParallelFetch : FillSlots(free)
    \/ \E k \in InFlight : CompleteFetch(k) \/ RetryFetch(k)

Spec == Init /\ [][Next]_queueVars

-----------------------------------------------------------------------------
(* Properties *)

\* Every component of the queues has the shape its Rust type gives it.
TypeOK ==
    /\ pendingVerify \in [Keys -> VerificationEntry \cup {None}]
    /\ fetchQueue \subseteq FetchCandidate
    /\ fetchQueueKeys \subseteq Keys
    /\ inFlightFetch \in [Keys -> InFlightEntry \cup {None}]
    /\ pendingPerSender \in [Peers -> Nat]

\* "Each key progresses through at most one queue at a time, with strict
\* dedup across all three stages" (scheduling.rs:4): no interleaving of
\* admissions, promotions, dequeues and retries puts a key in two stages.
StagesDisjoint ==
    /\ Pending \cap fetchQueueKeys = {}
    /\ Pending \cap InFlight = {}
    /\ fetchQueueKeys \cap InFlight = {}

\* The dedup index and the heap move in lockstep: the index holds exactly the
\* queued keys, and a key is queued once.
FetchIndexExact ==
    /\ fetchQueueKeys = {c.key : c \in fetchQueue}
    /\ \A c, d \in fetchQueue : c.key = d.key => c = d

\* pending_per_sender is "maintained in lockstep with pending_verify"
\* (scheduling.rs:152): through admissions, evictions and promotions a
\* sender's counter is the number of entries it is charged for.
SenderCountsExact ==
    \A p \in Peers : pendingPerSender[p] = Cardinality(PendingOf(p))

\* The memory backstops: no queue outgrows its bound, whatever arrives.
CapacityRespected ==
    /\ Cardinality(Pending) <= MAX_PENDING_VERIFY
    /\ Cardinality(fetchQueue) <= MAX_FETCH_QUEUE
    /\ \A p \in Peers : Cardinality(PendingOf(p)) <= MAX_PENDING_VERIFY_PER_PEER

\* The current source of an in-flight fetch is one of its verified sources
\* and is recorded as tried, as is everything tried before it.
SourcesAccounted ==
    \A k \in InFlight :
        LET e == inFlightFetch[k]
        IN  /\ e.source \in e.tried
            /\ \A p \in e.tried : \E i \in DOMAIN e.allSources : e.allSources[i] = p

\* The global bound can bite only when at least MAX_PENDING_VERIFY divided by
\* MAX_PENDING_VERIFY_PER_PEER distinct senders hold slots: one sender alone
\* cannot make the queue reject the hints of the others (scheduling.rs:50).
FullNeedsManySenders ==
    Cardinality(Pending) = MAX_PENDING_VERIFY =>
        Cardinality({p \in Peers : pendingPerSender[p] > 0})
            * MAX_PENDING_VERIFY_PER_PEER >= MAX_PENDING_VERIFY

\* retry_fetch never goes back to a source: when the source of a fetch that
\* stays in flight changes, the new one was not tried, and what was tried
\* stays recorded, so a key makes at most one attempt per source.
NoSourceTriedTwice ==
    [][\A k \in InFlight :
          inFlightFetch'[k] \notin {None, inFlightFetch[k]} =>
             /\ inFlightFetch'[k].source \notin inFlightFetch[k].tried
             /\ inFlightFetch[k].tried \subseteq inFlightFetch'[k].tried
      ]_queueVars

-----------------------------------------------------------------------------
(* The queues implement KeyLifecycle *)

\* The stage of a key, as contains_key looks it up.
stageBar ==
    [k \in Keys |-> IF k \in Pending THEN "PendingVerify"
                    ELSE IF k \in fetchQueueKeys THEN "FetchQueue"
                    ELSE IF k \in InFlight THEN "InFlight"
                    ELSE "Idle"]

Lifecycle == INSTANCE KeyLifecycle WITH stage <- stageBar

\* A key passes through the stages in the order that scheduling.rs:3 gives,
\* PendingVerify, FetchQueue, InFlightFetch, and leaves or waits its turn: no
\* step skips verification, moves a key backwards or admits a key twice.
LifecycleImplemented == Lifecycle!LifecycleSpec

=============================================================================
