------------------------ MODULE ReplicationQueuesProofs ------------------------
(***************************************************************************)
(* Proofs about ReplicationQueues for any keys, peers and capacities: the  *)
(* stages are disjoint, the dedup index and the sender counters are exact, *)
(* the bounds hold, no source is tried twice, and the queues implement     *)
(* KeyLifecycle.                                                           *)
(***************************************************************************)
EXTENDS ReplicationQueues, FiniteSetTheorems, WellFoundedInduction, TLAPS

\* The inductive invariant.  The counters are exact only because no admission
\* charges a key twice, which needs the stages disjoint; the bounds hold only
\* because the counters are exact.
IInv ==
    /\ TypeOK
    /\ IsFiniteSet(fetchQueue)
    /\ StagesDisjoint
    /\ FetchIndexExact
    /\ SenderCountsExact
    /\ CapacityRespected
    /\ SourcesAccounted

-----------------------------------------------------------------------------
(* Lemmas *)

\* What saturating subtraction and the smaller of two naturals return.
LEMMA Arithmetic ==
    ASSUME NEW n \in Nat, NEW m \in Nat
    PROVE  /\ Monus(n, m) \in Nat
           /\ m <= n => Monus(n, m) = n - m
           /\ n <= m => Monus(n, m) = 0
           /\ AtMost(n, m) \in Nat
           /\ AtMost(n, m) <= n
           /\ AtMost(n, m) <= m
BY DEF Monus, AtMost

\* The sets the counters count are finite.
LEMMA FinitePending ==
    ASSUME NEW S \in SUBSET Keys
    PROVE  IsFiniteSet(S) /\ Cardinality(S) \in Nat
BY QueueSets, FS_Subset, FS_CardinalityType

\* The size of a union of disjoint sets.
LEMMA DisjointUnion ==
    ASSUME NEW S, NEW T, IsFiniteSet(S), IsFiniteSet(T), S \cap T = {}
    PROVE  /\ IsFiniteSet(S \cup T)
           /\ Cardinality(S \cup T) = Cardinality(S) + Cardinality(T)
<1>1. Cardinality(S) \in Nat /\ Cardinality(T) \in Nat
  BY FS_CardinalityType
<1>2. Cardinality(S \cap T) = 0
  BY FS_EmptySet
<1>3. /\ IsFiniteSet(S \cup T)
      /\ Cardinality(S \cup T) = Cardinality(S) + Cardinality(T) - Cardinality(S \cap T)
  BY FS_Union
<1> QED BY <1>1, <1>2, <1>3

\* A nonempty set of naturals has a smallest element.
LEMMA SmallestOfNat ==
    ASSUME NEW S \in SUBSET Nat, S # {}
    PROVE  \E i \in S : \A j \in S : i <= j
<1> DEFINE R == OpToRel(<, Nat)
<1>1. \A i, j \in Nat : j < i => <<j, i>> \in R
  BY DEF OpToRel
<1>2. IsWellFoundedOn(R, Nat)
  BY NatLessThanWellFounded
<1> HIDE DEF R
<1>3. \E i \in S : \A j \in S : ~ (<<j, i>> \in R)
  BY <1>2, WFMin
<1>4. PICK i \in S : \A j \in S : ~ (<<j, i>> \in R)
  BY <1>3
<1>5. \A j \in S : ~ (j < i)
  BY <1>1, <1>4
<1>6. \A j \in S : i <= j
  BY <1>5
<1> QED BY <1>6

\* An entry is not None.
LEMMA EntryNotNone ==
    /\ \A e \in VerificationEntry : e # None
    /\ \A e \in InFlightEntry : e # None
BY NoneAssumption

\* What an admission changes: the admitted keys are new, and become pending,
\* charged to p.
LEMMA AdmittedPending ==
    ASSUME TypeOK, NEW p \in Peers, NEW replica \in SUBSET Keys,
           NEW a \in SUBSET Keys, AddPendingVerify(p, replica, a),
           a \cap Pending = {}
    PROVE  /\ Pending' = Pending \cup a
           /\ PendingOf(p)' = PendingOf(p) \cup a
           /\ \A q \in Peers \ {p} : PendingOf(q)' = PendingOf(q)
           /\ pendingVerify' \in [Keys -> VerificationEntry \cup {None}]
<1> DEFINE e(k) == [state |-> "PendingVerify",
                    pipeline |-> IF k \in replica THEN "Replica" ELSE "PaidOnly",
                    hintSender |-> p, stale |-> FALSE]
<1>1. \A k \in Keys : e(k) \in VerificationEntry /\ e(k).hintSender = p
  BY DEF VerificationEntry, VerificationState, HintPipeline
<1>2. \A k \in Keys : pendingVerify'[k] = IF k \in a THEN e(k) ELSE pendingVerify[k]
  BY DEF AddPendingVerify
<1>3. pendingVerify' \in [Keys -> VerificationEntry \cup {None}]
  BY <1>1, <1>2 DEF AddPendingVerify, TypeOK
<1> HIDE DEF e
<1>4. Pending' = Pending \cup a
  BY <1>1, <1>2, EntryNotNone DEF Pending
<1>5. \A q \in Peers : PendingOf(q)' = {k \in Pending \cup a : pendingVerify'[k].hintSender = q}
  BY <1>4 DEF PendingOf
<1>6. \A k \in a : pendingVerify'[k].hintSender = p
  BY <1>1, <1>2
<1>7. \A k \in Pending : pendingVerify'[k] = pendingVerify[k]
  BY <1>2 DEF Pending
<1>8. PendingOf(p)' = PendingOf(p) \cup a
  BY <1>5, <1>6, <1>7 DEF PendingOf
<1>9. \A q \in Peers \ {p} : PendingOf(q)' = PendingOf(q)
  BY <1>5, <1>6, <1>7 DEF PendingOf
<1> QED BY <1>3, <1>4, <1>8, <1>9

\* What remove_pending changes: the keys stop being pending and their senders
\* stop being charged.
LEMMA RemovedPending ==
    ASSUME TypeOK, SenderCountsExact, NEW keys \in SUBSET Keys, RemovePending(keys)
    PROVE  /\ Pending' = Pending \ keys
           /\ \A q \in Peers : PendingOf(q)' = PendingOf(q) \ keys
           /\ pendingVerify' \in [Keys -> VerificationEntry \cup {None}]
           /\ pendingPerSender' \in [Peers -> Nat]
           /\ SenderCountsExact'
<1>1. \A k \in Keys : pendingVerify'[k] = IF k \in keys THEN None ELSE pendingVerify[k]
  BY DEF RemovePending
<1>2. pendingVerify' \in [Keys -> VerificationEntry \cup {None}]
  BY DEF RemovePending, TypeOK
<1>3. Pending' = Pending \ keys
  BY <1>1 DEF Pending
<1>4. \A q \in Peers : PendingOf(q)' = PendingOf(q) \ keys
  BY <1>1, <1>3 DEF PendingOf, Pending
<1>5. ASSUME NEW q \in Peers
      PROVE  /\ pendingPerSender'[q] = Cardinality(PendingOf(q)')
             /\ pendingPerSender'[q] \in Nat
  <2>1. PendingOf(q) \in SUBSET Keys /\ PendingOf(q) \cap keys \in SUBSET Keys
    BY DEF PendingOf, Pending
  <2>2. /\ IsFiniteSet(PendingOf(q))
        /\ Cardinality(PendingOf(q)) \in Nat
        /\ Cardinality(PendingOf(q) \cap keys) \in Nat
    BY <2>1, FinitePending
  <2>3. Cardinality(PendingOf(q) \cap keys) <= Cardinality(PendingOf(q))
    BY <2>2, FS_Intersection
  <2>4. Cardinality(PendingOf(q) \ keys)
          = Cardinality(PendingOf(q)) - Cardinality(PendingOf(q) \cap keys)
    BY <2>2, FS_Difference
  <2>5. pendingPerSender'[q]
          = Monus(Cardinality(PendingOf(q)), Cardinality(PendingOf(q) \cap keys))
    BY DEF RemovePending, SenderCountsExact
  <2> QED BY <1>4, <2>2, <2>3, <2>4, <2>5, Arithmetic
<1>6. pendingPerSender' \in [Peers -> Nat]
  BY <1>5 DEF RemovePending
<1> QED BY <1>2, <1>3, <1>4, <1>5, <1>6 DEF SenderCountsExact

\* A step that leaves FetchQueue and InFlightFetch alone keeps what is said of
\* them.
LEMMA FetchSideUnchanged ==
    ASSUME IInv, UNCHANGED <<fetchQueue, fetchQueueKeys, inFlightFetch>>
    PROVE  /\ InFlight' = InFlight
           /\ fetchQueue' \subseteq FetchCandidate
           /\ fetchQueueKeys' \subseteq Keys
           /\ inFlightFetch' \in [Keys -> InFlightEntry \cup {None}]
           /\ IsFiniteSet(fetchQueue')
           /\ Cardinality(fetchQueue') <= MAX_FETCH_QUEUE
           /\ FetchIndexExact'
           /\ SourcesAccounted'
<1>1. InFlight' = InFlight
  BY DEF InFlight
<1> QED BY <1>1 DEF IInv, TypeOK, CapacityRespected, FetchIndexExact, SourcesAccounted

\* A step that leaves PendingVerify and its counters alone keeps what is said
\* of them.
LEMMA PendingSideUnchanged ==
    ASSUME IInv, UNCHANGED <<pendingVerify, pendingPerSender>>
    PROVE  /\ Pending' = Pending
           /\ pendingVerify' \in [Keys -> VerificationEntry \cup {None}]
           /\ pendingPerSender' \in [Peers -> Nat]
           /\ SenderCountsExact'
           /\ Cardinality(Pending') <= MAX_PENDING_VERIFY
           /\ \A p \in Peers : Cardinality(PendingOf(p)') <= MAX_PENDING_VERIFY_PER_PEER
<1>1. Pending' = Pending /\ \A p \in Peers : PendingOf(p)' = PendingOf(p)
  BY DEF Pending, PendingOf
<1> QED BY <1>1 DEF IInv, TypeOK, SenderCountsExact, CapacityRespected

\* Removing pending keys keeps the bounds and the disjointness.
LEMMA RemovePreserves ==
    ASSUME IInv, NEW keys \in SUBSET Keys, RemovePending(keys),
           UNCHANGED <<fetchQueue, fetchQueueKeys, inFlightFetch>>
    PROVE  IInv'
<1>1. /\ Pending' = Pending \ keys
      /\ \A q \in Peers : PendingOf(q)' = PendingOf(q) \ keys
      /\ pendingVerify' \in [Keys -> VerificationEntry \cup {None}]
      /\ pendingPerSender' \in [Peers -> Nat]
      /\ SenderCountsExact'
  BY RemovedPending DEF IInv
<1>2. ASSUME NEW S \in SUBSET Keys
      PROVE  Cardinality(S \ keys) <= Cardinality(S) /\ Cardinality(S \ keys) \in Nat
  BY FinitePending, FS_Subset
<1>3. Cardinality(Pending') <= MAX_PENDING_VERIFY
  BY <1>1, <1>2, FinitePending, QueueCapacities DEF IInv, CapacityRespected, Pending
<1>4. ASSUME NEW q \in Peers
      PROVE  Cardinality(PendingOf(q)') <= MAX_PENDING_VERIFY_PER_PEER
  <2>1. PendingOf(q) \in SUBSET Keys
    BY DEF PendingOf, Pending
  <2> QED BY <1>1, <1>2, <2>1, FinitePending, QueueCapacities DEF IInv, CapacityRespected
<1>5. StagesDisjoint'
  BY <1>1, FetchSideUnchanged DEF IInv, StagesDisjoint
<1> QED BY <1>1, <1>3, <1>4, <1>5, FetchSideUnchanged DEF IInv, TypeOK, CapacityRespected

\* An admission keeps the invariant: the admitted keys are in no stage, and
\* there are at most as many as both bounds leave room for.
LEMMA AdmissionPreserves ==
    ASSUME IInv, NEW p \in Peers, NEW replica \in SUBSET Keys,
           NEW paidOnly \in SUBSET Keys,
           NEW a \in AdmittedSets(p, replica, paidOnly),
           AddPendingVerify(p, replica, a)
    PROVE  IInv'
<1>1. a \in SUBSET Keys /\ \A k \in a : ~ContainsKey(k)
  BY DEF AdmittedSets
<1>2. a \cap Pending = {} /\ a \cap fetchQueueKeys = {} /\ a \cap InFlight = {}
  BY <1>1 DEF ContainsKey
<1>3. /\ Pending' = Pending \cup a
      /\ PendingOf(p)' = PendingOf(p) \cup a
      /\ \A q \in Peers \ {p} : PendingOf(q)' = PendingOf(q)
      /\ pendingVerify' \in [Keys -> VerificationEntry \cup {None}]
  BY <1>1, <1>2, AdmittedPending DEF IInv
<1>4. /\ PendingOf(p) \in SUBSET Keys /\ Pending \in SUBSET Keys
      /\ PendingOf(p) \cap a = {}
  BY <1>2 DEF PendingOf, Pending
<1>5. /\ IsFiniteSet(a) /\ Cardinality(a) \in Nat
      /\ IsFiniteSet(Pending) /\ Cardinality(Pending) \in Nat
      /\ IsFiniteSet(PendingOf(p)) /\ Cardinality(PendingOf(p)) \in Nat
  BY <1>1, <1>4, FinitePending
<1>6. Cardinality(Pending') = Cardinality(Pending) + Cardinality(a)
  BY <1>2, <1>3, <1>5, DisjointUnion
<1>7. Cardinality(PendingOf(p)') = Cardinality(PendingOf(p)) + Cardinality(a)
  BY <1>3, <1>4, <1>5, DisjointUnion
<1>8. pendingPerSender[p] = Cardinality(PendingOf(p))
  BY DEF IInv, SenderCountsExact
<1>9. /\ Cardinality(a) <= Monus(MAX_PENDING_VERIFY, Cardinality(Pending))
      /\ Cardinality(a) <= Monus(MAX_PENDING_VERIFY_PER_PEER, Cardinality(PendingOf(p)))
  <2> DEFINE new == {k \in replica : ~ContainsKey(k)}
                      \cup {k \in paidOnly \ replica : ~ContainsKey(k)}
  <2>1. Cardinality(a) = AtMost(Cardinality(new), PendingRoom(p))
    BY DEF AdmittedSets
  <2>2. new \in SUBSET Keys
    OBVIOUS
  <2>3. Cardinality(new) \in Nat
    BY <2>2, FinitePending
  <2>4. /\ Monus(MAX_PENDING_VERIFY, Cardinality(Pending)) \in Nat
        /\ Monus(MAX_PENDING_VERIFY_PER_PEER, Cardinality(PendingOf(p))) \in Nat
    BY <1>5, Arithmetic, QueueCapacities
  <2> HIDE DEF new
  <2>5. PendingRoom(p) \in Nat
    BY <1>8, <2>4, Arithmetic DEF PendingRoom
  <2>6. Cardinality(a) <= PendingRoom(p)
    BY <2>1, <2>3, <2>5, Arithmetic
  <2>7. /\ PendingRoom(p) <= Monus(MAX_PENDING_VERIFY, Cardinality(Pending))
        /\ PendingRoom(p) <= Monus(MAX_PENDING_VERIFY_PER_PEER, Cardinality(PendingOf(p)))
    BY <1>8, <2>4, Arithmetic DEF PendingRoom
  <2> QED BY <1>5, <2>4, <2>5, <2>6, <2>7
<1>10. /\ Cardinality(Pending) <= MAX_PENDING_VERIFY
       /\ Cardinality(PendingOf(p)) <= MAX_PENDING_VERIFY_PER_PEER
  BY DEF IInv, CapacityRespected
<1>11. /\ Cardinality(Pending') <= MAX_PENDING_VERIFY
       /\ Cardinality(PendingOf(p)') <= MAX_PENDING_VERIFY_PER_PEER
  <2>1. /\ Monus(MAX_PENDING_VERIFY, Cardinality(Pending))
             = MAX_PENDING_VERIFY - Cardinality(Pending)
        /\ Monus(MAX_PENDING_VERIFY_PER_PEER, Cardinality(PendingOf(p)))
             = MAX_PENDING_VERIFY_PER_PEER - Cardinality(PendingOf(p))
    BY <1>5, <1>10, Arithmetic, QueueCapacities
  <2> QED BY <1>5, <1>6, <1>7, <1>9, <2>1, QueueCapacities
<1>12. \A q \in Peers : Cardinality(PendingOf(q)') <= MAX_PENDING_VERIFY_PER_PEER
  BY <1>3, <1>11 DEF IInv, CapacityRespected
<1>13. /\ pendingPerSender' \in [Peers -> Nat]
       /\ SenderCountsExact'
  <2>1. pendingPerSender' = [pendingPerSender EXCEPT ![p] = @ + Cardinality(a)]
    BY DEF AddPendingVerify
  <2>2. pendingPerSender' \in [Peers -> Nat]
    BY <2>1, <1>5 DEF IInv, TypeOK
  <2>3. \A q \in Peers : pendingPerSender'[q] = Cardinality(PendingOf(q)')
    BY <2>1, <1>3, <1>7, <1>8 DEF IInv, TypeOK, SenderCountsExact
  <2> QED BY <2>2, <2>3 DEF SenderCountsExact
<1>14. UNCHANGED <<fetchQueue, fetchQueueKeys, inFlightFetch>>
  BY DEF AddPendingVerify
<1>15. StagesDisjoint'
  BY <1>2, <1>3, <1>14, FetchSideUnchanged DEF IInv, StagesDisjoint
<1> QED
  BY <1>3, <1>11, <1>12, <1>13, <1>14, <1>15, FetchSideUnchanged
     DEF IInv, TypeOK, CapacityRespected

\* Resolving a batch keeps the invariant: what is promoted was pending, so it
\* was neither queued nor in flight, and it fits.
LEMMA ResolutionPreserves ==
    ASSUME IInv, NEW terminal \in SUBSET Keys, NEW want \in SUBSET Pending,
           NEW promoted \in PromotedSets(want),
           NEW sourcesOf \in [promoted -> Sources],
           ResolvePending(terminal, promoted, sourcesOf)
    PROVE  IInv'
<1> DEFINE queued == FreshForFetch(promoted)
           added == {[key |-> k, sources |-> sourcesOf[k]] : k \in queued}
<1>1. promoted \subseteq Pending /\ promoted \in SUBSET Keys
  BY DEF PromotedSets, Pending
<1>2. queued \subseteq promoted /\ queued \cap fetchQueueKeys = {} /\ queued \cap InFlight = {}
  BY DEF FreshForFetch
<1>3. /\ RemovePending(terminal \cup promoted)
      /\ fetchQueue' = fetchQueue \cup added
      /\ fetchQueueKeys' = fetchQueueKeys \cup queued
      /\ inFlightFetch' = inFlightFetch
  BY DEF ResolvePending
<1>4. /\ Pending' = Pending \ (terminal \cup promoted)
      /\ \A q \in Peers : PendingOf(q)' = PendingOf(q) \ (terminal \cup promoted)
      /\ pendingVerify' \in [Keys -> VerificationEntry \cup {None}]
      /\ pendingPerSender' \in [Peers -> Nat]
      /\ SenderCountsExact'
  BY <1>1, <1>3, RemovedPending DEF IInv
<1>5. InFlight' = InFlight /\ SourcesAccounted'
  <2>1. InFlight' = InFlight
    BY <1>3 DEF InFlight
  <2> QED BY <1>3, <2>1 DEF IInv, SourcesAccounted
<1>6. Cardinality(Pending') <= MAX_PENDING_VERIFY
  <2>1. Pending \in SUBSET Keys /\ Pending' \in SUBSET Pending
    BY <1>4 DEF Pending
  <2>2. Cardinality(Pending') <= Cardinality(Pending)
    BY <2>1, FinitePending, FS_Subset
  <2>3. Cardinality(Pending') \in Nat /\ Cardinality(Pending) \in Nat
    BY <2>1, FinitePending
  <2> QED BY <2>2, <2>3, QueueCapacities DEF IInv, CapacityRespected
<1>7. ASSUME NEW q \in Peers
      PROVE  Cardinality(PendingOf(q)') <= MAX_PENDING_VERIFY_PER_PEER
  <2>1. PendingOf(q) \in SUBSET Keys /\ PendingOf(q)' \in SUBSET PendingOf(q)
    BY <1>4 DEF PendingOf, Pending
  <2>2. Cardinality(PendingOf(q)') <= Cardinality(PendingOf(q))
    BY <2>1, FinitePending, FS_Subset
  <2>3. Cardinality(PendingOf(q)') \in Nat /\ Cardinality(PendingOf(q)) \in Nat
    BY <2>1, FinitePending
  <2> QED BY <2>2, <2>3, QueueCapacities DEF IInv, CapacityRespected
<1>8. /\ IsFiniteSet(added) /\ Cardinality(added) \in Nat
      /\ Cardinality(added) <= Cardinality(queued)
  <2> DEFINE f == [k \in queued |-> [key |-> k, sources |-> sourcesOf[k]]]
  <2>1. f \in Surjection(queued, added)
    BY DEF Surjection
  <2>2. IsFiniteSet(queued)
    BY <1>1, <1>2, FinitePending
  <2>3. IsFiniteSet(added) /\ Cardinality(added) <= Cardinality(queued)
    BY <2>1, <2>2, FS_Surjection
  <2> QED BY <2>3, FS_CardinalityType
<1>9. /\ IsFiniteSet(fetchQueue')
      /\ Cardinality(fetchQueue') <= MAX_FETCH_QUEUE
  <2> DEFINE room == Monus(MAX_FETCH_QUEUE, Cardinality(fetchQueue))
             fresh == FreshForFetch(want)
  <2>1. Cardinality(fetchQueue) \in Nat /\ Cardinality(fetchQueue) <= MAX_FETCH_QUEUE
    BY FS_CardinalityType DEF IInv, CapacityRespected
  <2>2. room \in Nat /\ room = MAX_FETCH_QUEUE - Cardinality(fetchQueue)
    BY <2>1, Arithmetic, QueueCapacities
  <2>3. queued = promoted \cap fresh
    BY DEF FreshForFetch, PromotedSets
  <2>4. Cardinality(promoted \cap fresh) = AtMost(Cardinality(fresh), room)
    BY DEF PromotedSets
  <2>5. fresh \in SUBSET Keys
    BY DEF FreshForFetch, Pending
  <2>6. Cardinality(fresh) \in Nat /\ Cardinality(queued) \in Nat
    BY <1>1, <1>2, <2>5, FinitePending
  <2> HIDE DEF room, fresh, queued, added
  <2>7. Cardinality(queued) <= room
    BY <2>2, <2>3, <2>4, <2>6, Arithmetic
  <2>8. fetchQueue \cap added = {}
    <3>1. \A c \in fetchQueue : c.key \in fetchQueueKeys
      BY DEF IInv, FetchIndexExact
    <3>2. \A c \in added : c.key \in queued
      BY DEF added
    <3> QED BY <1>2, <3>1, <3>2
  <2>9. /\ IsFiniteSet(fetchQueue \cup added)
        /\ Cardinality(fetchQueue \cup added) = Cardinality(fetchQueue) + Cardinality(added)
    BY <1>8, <2>8, DisjointUnion DEF IInv
  <2> QED BY <1>3, <1>8, <2>1, <2>2, <2>6, <2>7, <2>9, QueueCapacities
<1>10. fetchQueue' \subseteq FetchCandidate /\ fetchQueueKeys' \subseteq Keys
  <2>1. added \subseteq FetchCandidate
    BY <1>1, <1>2 DEF FetchCandidate
  <2> QED BY <1>1, <1>2, <1>3, <2>1 DEF IInv, TypeOK
<1>11. FetchIndexExact'
  <2> HIDE DEF queued
  <2>1. \A c \in added : c.key \in queued /\ c = [key |-> c.key, sources |-> sourcesOf[c.key]]
    OBVIOUS
  <2>2. \A k \in queued : \E c \in added : c.key = k
    <3> TAKE k \in queued
    <3>1. [key |-> k, sources |-> sourcesOf[k]] \in added
      OBVIOUS
    <3> QED BY <3>1
  <2>3. \A c \in fetchQueue : c.key \in fetchQueueKeys
    BY DEF IInv, FetchIndexExact
  <2>4. \A k \in fetchQueueKeys : \E c \in fetchQueue : c.key = k
    BY DEF IInv, FetchIndexExact
  <2> HIDE DEF added
  <2>5. fetchQueueKeys' = {c.key : c \in fetchQueue'}
    <3>1. \A k \in fetchQueueKeys' : \E c \in fetchQueue' : c.key = k
      BY <1>3, <2>2, <2>4
    <3>2. \A c \in fetchQueue' : c.key \in fetchQueueKeys'
      BY <1>3, <2>1, <2>3
    <3> QED BY <3>1, <3>2
  <2>6. ASSUME NEW c \in fetchQueue', NEW d \in fetchQueue', c.key = d.key
        PROVE  c = d
    <3>1. CASE c \in fetchQueue /\ d \in fetchQueue
      BY <2>6, <3>1 DEF IInv, FetchIndexExact
    <3>2. CASE c \in added /\ d \in added
      BY <2>1, <2>6, <3>2
    <3>3. CASE c \in fetchQueue /\ d \in added
      BY <1>2, <2>1, <2>3, <2>6, <3>3
    <3>4. CASE c \in added /\ d \in fetchQueue
      BY <1>2, <2>1, <2>3, <2>6, <3>4
    <3> QED BY <1>3, <3>1, <3>2, <3>3, <3>4
  <2> QED BY <2>5, <2>6 DEF FetchIndexExact
<1>12. StagesDisjoint'
  BY <1>2, <1>3, <1>4, <1>5 DEF IInv, StagesDisjoint
<1> QED
  BY <1>3, <1>4, <1>5, <1>6, <1>7, <1>9, <1>10, <1>11, <1>12
     DEF IInv, TypeOK, CapacityRespected

\* A candidate is determined by its key.
LEMMA CandidateOfKey ==
    ASSUME IInv, NEW c \in fetchQueue
    PROVE  /\ c.key \in fetchQueueKeys /\ c.key \in Keys /\ c.sources \in Sources
           /\ \A d \in fetchQueue : d.key = c.key => d = c
BY DEF IInv, TypeOK, FetchIndexExact, FetchCandidate

\* The first source of a candidate that can start.
LEMMA FirstSource ==
    ASSUME IInv, NEW c \in fetchQueue, Startable(c)
    PROVE  /\ c.sources[1] \in Peers
           /\ 1 \in DOMAIN c.sources
<1>1. c.sources \in Seq(Peers) /\ c.sources # <<>>
  BY CandidateOfKey, SourcesAssumption DEF Startable
<1> QED BY <1>1

\* What filling slots changes.
LEMMA FillEffect ==
    ASSUME IInv, NEW free \in Nat, FillSlots(free)
    PROVE  /\ Dequeued(free) \subseteq fetchQueue
           /\ Started(free) \subseteq Dequeued(free)
           /\ \A c \in Started(free) : /\ StartFetch(c) \in InFlightEntry
                                       /\ c.key \in Keys \ InFlight
                                       /\ inFlightFetch'[c.key] = StartFetch(c)
           /\ \A k \in Keys : (~\E c \in Started(free) : c.key = k)
                                 => inFlightFetch'[k] = inFlightFetch[k]
           /\ inFlightFetch' \in [Keys -> InFlightEntry \cup {None}]
           /\ InFlight' = InFlight \cup {c.key : c \in Started(free)}
           /\ fetchQueue' = fetchQueue \ Dequeued(free)
           /\ fetchQueueKeys' = fetchQueueKeys \ {c.key : c \in Dequeued(free)}
           /\ UNCHANGED <<pendingVerify, pendingPerSender>>
<1> DEFINE gone == Dequeued(free)
           started == Started(free)
<1>1. gone \subseteq fetchQueue /\ started \subseteq gone
  BY DEF Dequeued, Started
<1>2. /\ fetchQueue' = fetchQueue \ gone
      /\ fetchQueueKeys' = fetchQueueKeys \ {c.key : c \in gone}
      /\ UNCHANGED <<pendingVerify, pendingPerSender>>
  BY DEF FillSlots, Unindexed
<1>3. \A c \in started : StartFetch(c) \in InFlightEntry /\ c.key \in Keys \ InFlight
  <2> TAKE c \in started
  <2>1. c \in fetchQueue /\ Startable(c)
    BY <1>1 DEF Started
  <2> QED BY <2>1, FirstSource, CandidateOfKey DEF InFlightEntry, StartFetch, Startable
<1>4. \A k \in Keys : inFlightFetch'[k] =
        IF \E c \in started : c.key = k
        THEN StartFetch(CHOOSE c \in started : c.key = k)
        ELSE inFlightFetch[k]
  BY DEF FillSlots
<1>5. \A c \in started : inFlightFetch'[c.key] = StartFetch(c)
  <2> TAKE c \in started
  <2>1. (CHOOSE d \in started : d.key = c.key) = c
    BY <1>1, CandidateOfKey
  <2> QED BY <1>3, <1>4, <2>1
<1>6. \A k \in Keys : (~\E c \in started : c.key = k) => inFlightFetch'[k] = inFlightFetch[k]
  BY <1>4
<1>7. inFlightFetch' \in [Keys -> InFlightEntry \cup {None}]
  <2>1. \A k \in Keys : inFlightFetch'[k] \in InFlightEntry \cup {None}
    BY <1>3, <1>5, <1>6 DEF IInv, TypeOK
  <2> QED BY <2>1 DEF FillSlots
<1>8. InFlight' = InFlight \cup {c.key : c \in started}
  <2> HIDE DEF started
  <2>1. \A c \in started : c.key \in Keys /\ inFlightFetch'[c.key] # None
    BY <1>3, <1>5, EntryNotNone
  <2>2. \A k \in Keys \ {c.key : c \in started} : inFlightFetch'[k] = inFlightFetch[k]
    BY <1>6
  <2> QED BY <2>1, <2>2 DEF InFlight
<1> QED BY <1>1, <1>2, <1>3, <1>5, <1>6, <1>7, <1>8

\* Filling slots keeps the invariant: what starts was queued and was not in
\* flight.
LEMMA FillPreserves ==
    ASSUME IInv, NEW free \in Nat, FillSlots(free)
    PROVE  IInv'
<1> DEFINE gone == Dequeued(free)
           started == Started(free)
<1>1. gone \subseteq fetchQueue /\ started \subseteq gone
  BY FillEffect
<1>2. /\ fetchQueue' = fetchQueue \ gone
      /\ fetchQueueKeys' = fetchQueueKeys \ {c.key : c \in gone}
      /\ UNCHANGED <<pendingVerify, pendingPerSender>>
  BY FillEffect
<1>3. \A c \in started : inFlightFetch'[c.key] = StartFetch(c)
  BY FillEffect
<1>4. \A k \in Keys : (~\E c \in started : c.key = k) => inFlightFetch'[k] = inFlightFetch[k]
  BY FillEffect
<1>5. inFlightFetch' \in [Keys -> InFlightEntry \cup {None}]
  BY FillEffect
<1>6. InFlight' = InFlight \cup {c.key : c \in started}
  BY FillEffect
<1>7. SourcesAccounted'
  <2> SUFFICES ASSUME NEW k \in InFlight'
               PROVE  /\ inFlightFetch'[k].source \in inFlightFetch'[k].tried
                      /\ \A p \in inFlightFetch'[k].tried :
                           \E i \in DOMAIN inFlightFetch'[k].allSources :
                              inFlightFetch'[k].allSources[i] = p
    BY DEF SourcesAccounted
  <2>1. CASE \E c \in started : c.key = k
    <3> PICK c \in started : c.key = k
      BY <2>1
    <3>1. inFlightFetch'[k] = StartFetch(c)
      BY <1>3
    <3>2. c \in fetchQueue /\ Startable(c)
      BY <1>1 DEF Started
    <3>3. 1 \in DOMAIN c.sources
      BY <3>2, FirstSource
    <3> QED BY <3>1, <3>3 DEF StartFetch
  <2>2. CASE ~\E c \in started : c.key = k
    <3>1. k \in InFlight /\ k \in Keys
      BY <1>6, <2>2 DEF InFlight
    <3>2. inFlightFetch'[k] = inFlightFetch[k]
      BY <1>4, <2>2, <3>1
    <3> QED BY <3>1, <3>2 DEF IInv, SourcesAccounted
  <2> QED BY <2>1, <2>2
<1>8. /\ IsFiniteSet(fetchQueue') /\ Cardinality(fetchQueue') <= MAX_FETCH_QUEUE
       /\ fetchQueue' \subseteq FetchCandidate /\ fetchQueueKeys' \subseteq Keys
  <2>1. IsFiniteSet(fetchQueue) /\ Cardinality(fetchQueue) <= MAX_FETCH_QUEUE
    BY DEF IInv, CapacityRespected
  <2>2. /\ IsFiniteSet(fetchQueue')
        /\ Cardinality(fetchQueue') <= Cardinality(fetchQueue)
    BY <1>2, <2>1, FS_Subset
  <2>3. Cardinality(fetchQueue) \in Nat /\ Cardinality(fetchQueue') \in Nat
    BY <2>1, <2>2, FS_CardinalityType
  <2> QED BY <1>2, <2>1, <2>2, <2>3, QueueCapacities DEF IInv, TypeOK
<1>9. FetchIndexExact'
  <2> HIDE DEF gone
  <2>1. \A c \in fetchQueue' : c.key \in fetchQueueKeys'
    BY <1>1, <1>2, CandidateOfKey
  <2>2. \A k \in fetchQueueKeys' : \E c \in fetchQueue' : c.key = k
    BY <1>2 DEF IInv, FetchIndexExact
  <2>3. \A c, d \in fetchQueue' : c.key = d.key => c = d
    BY <1>2 DEF IInv, FetchIndexExact
  <2> QED BY <2>1, <2>2, <2>3 DEF FetchIndexExact
<1>10. StagesDisjoint'
  <2>1. {c.key : c \in started} \subseteq {c.key : c \in gone}
    BY <1>1
  <2>2. {c.key : c \in started} \subseteq fetchQueueKeys
    BY <1>1, CandidateOfKey
  <2> HIDE DEF gone, started
  <2> QED BY <1>2, <1>6, <2>1, <2>2, PendingSideUnchanged DEF IInv, StagesDisjoint
<1> QED
  BY <1>2, <1>5, <1>7, <1>8, <1>9, <1>10, PendingSideUnchanged
     DEF IInv, TypeOK, CapacityRespected

\* What retry_fetch changes: the source, to one that was not tried.
LEMMA RetryEffect ==
    ASSUME IInv, NEW k \in InFlight, RetryFetch(k)
    PROVE  \E next \in Peers :
             /\ next \notin inFlightFetch[k].tried
             /\ \E i \in DOMAIN inFlightFetch[k].allSources :
                   inFlightFetch[k].allSources[i] = next
             /\ inFlightFetch'[k] \in InFlightEntry
             /\ inFlightFetch'[k].source = next
             /\ inFlightFetch'[k].tried
                  = inFlightFetch[k].tried \cup {inFlightFetch[k].source, next}
             /\ inFlightFetch'[k].allSources = inFlightFetch[k].allSources
             /\ \A j \in Keys \ {k} : inFlightFetch'[j] = inFlightFetch[j]
             /\ inFlightFetch' \in [Keys -> InFlightEntry \cup {None}]
<1> DEFINE first == CHOOSE i \in Untried(k) : \A j \in Untried(k) : i <= j
           next == inFlightFetch[k].allSources[first]
           e == inFlightFetch[k]
<1>1. k \in Keys /\ e \in InFlightEntry
  BY DEF InFlight, IInv, TypeOK
<1>2. inFlightFetch' = [inFlightFetch EXCEPT ![k].source = next,
                                             ![k].tried = @ \cup {e.source, next}]
  BY DEF RetryFetch
<1>3. e.allSources \in Seq(Peers) /\ e.source \in Peers /\ e.tried \in SUBSET Peers
  BY <1>1, SourcesAssumption DEF InFlightEntry
<1>4. first \in Untried(k)
  <2>1. DOMAIN e.allSources \subseteq Nat
    BY <1>3
  <2>2. Untried(k) # {} /\ Untried(k) \in SUBSET Nat
    BY <2>1 DEF RetryFetch, Untried
  <2>3. \E i \in Untried(k) : \A j \in Untried(k) : i <= j
    BY <2>2, SmallestOfNat
  <2> QED BY <2>3
<1>5. first \in DOMAIN e.allSources /\ next \notin e.tried
  BY <1>4 DEF Untried
<1>6. next \in Peers
  BY <1>3, <1>5
<1>7. \E i \in DOMAIN e.allSources : e.allSources[i] = next
  BY <1>5
<1> HIDE DEF first, next
<1>8. inFlightFetch'[k] = [e EXCEPT !.source = next, !.tried = e.tried \cup {e.source, next}]
  BY <1>1, <1>2 DEF IInv, TypeOK
<1>9. \A j \in Keys \ {k} : inFlightFetch'[j] = inFlightFetch[j]
  BY <1>2 DEF IInv, TypeOK
<1>10. /\ inFlightFetch'[k] \in InFlightEntry
       /\ inFlightFetch'[k].source = next
       /\ inFlightFetch'[k].tried = e.tried \cup {e.source, next}
       /\ inFlightFetch'[k].allSources = e.allSources
  BY <1>1, <1>3, <1>6, <1>8 DEF InFlightEntry
<1>11. inFlightFetch' \in [Keys -> InFlightEntry \cup {None}]
  <2>1. inFlightFetch' = [j \in Keys |-> inFlightFetch'[j]]
    BY <1>2 DEF IInv, TypeOK
  <2>2. \A j \in Keys : inFlightFetch'[j] \in InFlightEntry \cup {None}
    BY <1>9, <1>10 DEF IInv, TypeOK
  <2> QED BY <2>1, <2>2
<1> QED BY <1>5, <1>6, <1>7, <1>9, <1>10, <1>11

\* What complete_fetch changes.
LEMMA CompleteEffect ==
    ASSUME IInv, NEW k \in InFlight, CompleteFetch(k)
    PROVE  /\ inFlightFetch' \in [Keys -> InFlightEntry \cup {None}]
           /\ InFlight' = InFlight \ {k}
           /\ inFlightFetch'[k] = None
           /\ \A j \in Keys \ {k} : inFlightFetch'[j] = inFlightFetch[j]
BY DEF CompleteFetch, InFlight, IInv, TypeOK

\* Ending or retrying a fetch keeps the invariant.
LEMMA InFlightStepPreserves ==
    ASSUME IInv, NEW k \in InFlight, CompleteFetch(k) \/ RetryFetch(k)
    PROVE  IInv'
<1>1. UNCHANGED <<pendingVerify, fetchQueue, fetchQueueKeys, pendingPerSender>>
  BY DEF CompleteFetch, RetryFetch
<1>2. /\ inFlightFetch' \in [Keys -> InFlightEntry \cup {None}]
      /\ InFlight' \subseteq InFlight
      /\ SourcesAccounted'
  <2>1. CASE CompleteFetch(k)
    <3>1. InFlight' \subseteq InFlight \ {k}
      BY <2>1, CompleteEffect
    <3>2. \A j \in InFlight' : inFlightFetch'[j] = inFlightFetch[j]
      BY <2>1, <3>1, CompleteEffect DEF InFlight
    <3>3. SourcesAccounted'
      BY <3>1, <3>2 DEF IInv, SourcesAccounted
    <3> QED BY <2>1, <3>1, <3>3, CompleteEffect
  <2>2. CASE RetryFetch(k)
    <3> DEFINE e == inFlightFetch[k]
    <3>1. PICK next \in Peers :
             /\ \E i \in DOMAIN e.allSources : e.allSources[i] = next
             /\ inFlightFetch'[k].source = next
             /\ inFlightFetch'[k].tried = e.tried \cup {e.source, next}
             /\ inFlightFetch'[k].allSources = e.allSources
             /\ \A j \in Keys \ {k} : inFlightFetch'[j] = inFlightFetch[j]
             /\ inFlightFetch' \in [Keys -> InFlightEntry \cup {None}]
      BY <2>2, RetryEffect
    <3>2. InFlight' \subseteq InFlight
      BY <3>1 DEF InFlight
    <3>3. e.source \in e.tried /\ \A p \in e.tried : \E i \in DOMAIN e.allSources : e.allSources[i] = p
      BY DEF IInv, SourcesAccounted
    <3>4. \A j \in InFlight' \ {k} : inFlightFetch'[j] = inFlightFetch[j]
      BY <3>1 DEF InFlight
    <3> HIDE DEF e
    <3>5. SourcesAccounted'
      BY <3>1, <3>2, <3>3, <3>4 DEF IInv, SourcesAccounted
    <3> QED BY <3>1, <3>2, <3>5
  <2> QED BY <2>1, <2>2
<1>3. StagesDisjoint' /\ FetchIndexExact' /\ IsFiniteSet(fetchQueue')
  BY <1>1, <1>2, PendingSideUnchanged DEF IInv, StagesDisjoint, FetchIndexExact
<1> QED
  BY <1>1, <1>2, <1>3, PendingSideUnchanged DEF IInv, TypeOK, CapacityRespected

\* A step that only rewrites the state or the age of pending entries keeps the
\* invariant.
LEMMA RelabelPreserves ==
    ASSUME IInv,
           pendingVerify' \in [Keys -> VerificationEntry \cup {None}],
           \A k \in Keys : pendingVerify'[k] = None <=> pendingVerify[k] = None,
           \A k \in Pending : pendingVerify'[k].hintSender = pendingVerify[k].hintSender,
           UNCHANGED <<fetchQueue, fetchQueueKeys, inFlightFetch, pendingPerSender>>
    PROVE  IInv'
<1>1. Pending' = Pending
  BY DEF Pending
<1>2. \A p \in Peers : PendingOf(p)' = PendingOf(p)
  BY <1>1 DEF PendingOf
<1>3. SenderCountsExact' /\ StagesDisjoint'
  BY <1>1, <1>2, FetchSideUnchanged DEF IInv, SenderCountsExact, StagesDisjoint
<1> QED
  BY <1>1, <1>2, <1>3, FetchSideUnchanged DEF IInv, TypeOK, CapacityRespected

\* Marking keys as paid keeps the invariant.
LEMMA SetStatePreserves ==
    ASSUME IInv, NEW keys \in SUBSET Keys, SetPaidListVerified(keys)
    PROVE  IInv'
<1>1. ASSUME NEW k \in Pending
      PROVE  /\ [pendingVerify[k] EXCEPT !.state = "PaidListVerified"] \in VerificationEntry
             /\ [pendingVerify[k] EXCEPT !.state = "PaidListVerified"].hintSender
                  = pendingVerify[k].hintSender
  <2>1. pendingVerify[k] \in VerificationEntry
    BY DEF Pending, IInv, TypeOK
  <2> QED BY <2>1 DEF VerificationEntry, VerificationState
<1>2. \A k \in Keys : pendingVerify'[k] =
        IF k \in keys \cap Pending
        THEN [pendingVerify[k] EXCEPT !.state = "PaidListVerified"]
        ELSE pendingVerify[k]
  BY DEF SetPaidListVerified
<1>3. pendingVerify' \in [Keys -> VerificationEntry \cup {None}]
  <2>1. \A k \in Keys : pendingVerify'[k] \in VerificationEntry \cup {None}
    BY <1>1, <1>2 DEF IInv, TypeOK
  <2> QED BY <2>1 DEF SetPaidListVerified
<1>4. \A k \in Keys : pendingVerify'[k] = None <=> pendingVerify[k] = None
  BY <1>1, <1>2, EntryNotNone DEF Pending
<1>5. \A k \in Pending : pendingVerify'[k].hintSender = pendingVerify[k].hintSender
  BY <1>1, <1>2 DEF Pending
<1> QED BY <1>3, <1>4, <1>5, RelabelPreserves DEF SetPaidListVerified

\* So does the passing of time.
LEMMA GrowStalePreserves ==
    ASSUME IInv, NEW k \in Keys, GrowStale(k)
    PROVE  IInv'
<1>1. pendingVerify[k] \in VerificationEntry
  BY DEF GrowStale, Pending, IInv, TypeOK
<1>2. /\ [pendingVerify[k] EXCEPT !.stale = TRUE] \in VerificationEntry
      /\ [pendingVerify[k] EXCEPT !.stale = TRUE].hintSender = pendingVerify[k].hintSender
  BY <1>1 DEF VerificationEntry
<1>3. pendingVerify' = [pendingVerify EXCEPT ![k] = [pendingVerify[k] EXCEPT !.stale = TRUE]]
  BY DEF GrowStale
<1>4. pendingVerify' \in [Keys -> VerificationEntry \cup {None}]
  BY <1>2, <1>3 DEF IInv, TypeOK
<1>5. \A j \in Keys : pendingVerify'[j] =
        IF j = k THEN [pendingVerify[k] EXCEPT !.stale = TRUE] ELSE pendingVerify[j]
  BY <1>3 DEF IInv, TypeOK
<1>6. /\ \A j \in Keys : pendingVerify'[j] = None <=> pendingVerify[j] = None
      /\ \A j \in Pending : pendingVerify'[j].hintSender = pendingVerify[j].hintSender
  BY <1>1, <1>2, <1>5, EntryNotNone DEF Pending
<1> QED BY <1>4, <1>6, RelabelPreserves DEF GrowStale

-----------------------------------------------------------------------------
(* The invariant *)

\* The empty queues satisfy the invariant.
LEMMA InitIInv == Init => IInv
<1> SUFFICES ASSUME Init PROVE IInv
  OBVIOUS
<1> USE DEF Init
<1>1. Pending = {} /\ InFlight = {} /\ \A p \in Peers : PendingOf(p) = {}
  BY DEF Pending, InFlight, PendingOf
<1>2. TypeOK
  BY DEF TypeOK
<1>3. IsFiniteSet(fetchQueue) /\ SenderCountsExact /\ CapacityRespected
  BY <1>1, FS_EmptySet, QueueCapacities DEF SenderCountsExact, CapacityRespected
<1>4. StagesDisjoint /\ FetchIndexExact /\ SourcesAccounted
  BY <1>1 DEF StagesDisjoint, FetchIndexExact, SourcesAccounted
<1> QED BY <1>2, <1>3, <1>4 DEF IInv

\* Every step keeps it.
LEMMA NextIInv == IInv /\ [Next]_queueVars => IInv'
<1> SUFFICES ASSUME IInv, [Next]_queueVars PROVE IInv'
  OBVIOUS
<1>1. ASSUME NEW p \in Peers, NEW replica \in SUBSET Keys,
             NEW paidOnly \in SUBSET (Keys \ replica),
             NEW a \in AdmittedSets(p, replica, paidOnly),
             AddPendingVerify(p, replica, a)
      PROVE  IInv'
  BY <1>1, AdmissionPreserves
<1>2. ASSUME NEW keys \in SUBSET Keys, SetPaidListVerified(keys)
      PROVE  IInv'
  BY <1>2, SetStatePreserves
<1>3. CASE EvictStale
  <2>1. {k \in Pending : pendingVerify[k].stale} \in SUBSET Keys
    BY DEF Pending
  <2> QED BY <1>3, <2>1, RemovePreserves DEF EvictStale
<1>4. ASSUME NEW k \in Keys, GrowStale(k)
      PROVE  IInv'
  BY <1>4, GrowStalePreserves
<1>5. ASSUME NEW terminal \in SUBSET Keys, NEW want \in SUBSET (Pending \ terminal),
             NEW promoted \in PromotedSets(want),
             NEW sourcesOf \in [promoted -> Sources],
             ResolvePending(terminal, promoted, sourcesOf)
      PROVE  IInv'
  BY <1>5, ResolutionPreserves
<1>6. ASSUME NEW free \in 1..MaxParallelFetch, FillSlots(free)
      PROVE  IInv'
  BY <1>6, FillPreserves
<1>7. ASSUME NEW k \in InFlight, CompleteFetch(k) \/ RetryFetch(k)
      PROVE  IInv'
  BY <1>7, InFlightStepPreserves
<1>8. CASE UNCHANGED queueVars
  <2>1. UNCHANGED <<fetchQueue, fetchQueueKeys, inFlightFetch>>
        /\ UNCHANGED <<pendingVerify, pendingPerSender>>
    BY <1>8 DEF queueVars
  <2>2. StagesDisjoint'
    BY <2>1, FetchSideUnchanged, PendingSideUnchanged DEF IInv, StagesDisjoint
  <2> QED
    BY <2>1, <2>2, FetchSideUnchanged, PendingSideUnchanged DEF IInv, TypeOK, CapacityRespected
<1> QED BY <1>1, <1>2, <1>3, <1>4, <1>5, <1>6, <1>7, <1>8 DEF Next

\* For every set of keys and peers and all capacities, in every behaviour of
\* the queues: the stages are disjoint, the dedup index is exact, the sender
\* counters are exact, no bound is exceeded, and the sources of the fetches in
\* flight are accounted for.
THEOREM QueuesSafe ==
    Spec => [](/\ TypeOK
               /\ StagesDisjoint
               /\ FetchIndexExact
               /\ SenderCountsExact
               /\ CapacityRespected
               /\ SourcesAccounted)
<1>1. IInv => /\ TypeOK /\ StagesDisjoint /\ FetchIndexExact
              /\ SenderCountsExact /\ CapacityRespected /\ SourcesAccounted
  BY DEF IInv
<1> QED BY <1>1, InitIInv, NextIInv, PTL DEF Spec

-----------------------------------------------------------------------------
(* No source is tried twice *)

\* retry_fetch goes from one source to an untried one, for any list of
\* sources, and nothing else changes the source of a fetch that stays in
\* flight: one attempt per source.
THEOREM SourcesTriedOnce == Spec => NoSourceTriedTwice
<1> DEFINE A == \A k \in InFlight :
                  inFlightFetch'[k] \notin {None, inFlightFetch[k]} =>
                     /\ inFlightFetch'[k].source \notin inFlightFetch[k].tried
                     /\ inFlightFetch[k].tried \subseteq inFlightFetch'[k].tried
<1>1. IInv /\ [Next]_queueVars => [A]_queueVars
  <2> SUFFICES ASSUME IInv, Next, NEW k \in InFlight,
                      inFlightFetch'[k] \notin {None, inFlightFetch[k]}
               PROVE  /\ inFlightFetch'[k].source \notin inFlightFetch[k].tried
                      /\ inFlightFetch[k].tried \subseteq inFlightFetch'[k].tried
    OBVIOUS
  <2>1. k \in Keys
    BY DEF InFlight
  <2>2. ~\E free \in 1..MaxParallelFetch : FillSlots(free)
    <3> SUFFICES ASSUME NEW free \in 1..MaxParallelFetch, FillSlots(free)
                 PROVE  FALSE
      OBVIOUS
    <3>1. \A c \in Started(free) : c.key \notin InFlight
      BY FillEffect
    <3>2. inFlightFetch'[k] = inFlightFetch[k]
      BY <2>1, <3>1, FillEffect
    <3> QED BY <3>2
  <2>3. inFlightFetch' # inFlightFetch
    OBVIOUS
  <2>4. \E j \in InFlight : CompleteFetch(j) \/ RetryFetch(j)
    BY <2>2, <2>3 DEF Next, AddPendingVerify, SetPaidListVerified, EvictStale,
                      GrowStale, ResolvePending
  <2>5. PICK j \in InFlight : CompleteFetch(j) \/ RetryFetch(j)
    BY <2>4
  <2>6. RetryFetch(j) /\ j = k
    <3>1. j # k => inFlightFetch'[k] = inFlightFetch[k]
      BY <2>1, <2>5, CompleteEffect, RetryEffect
    <3>2. CompleteFetch(j) => inFlightFetch'[j] = None
      BY CompleteEffect
    <3> QED BY <2>5, <3>1, <3>2
  <2> QED BY <2>6, RetryEffect
<1> QED BY <1>1, InitIInv, NextIInv, PTL DEF Spec, NoSourceTriedTwice

-----------------------------------------------------------------------------
(* The queues implement KeyLifecycle *)

\* The stages of KeyLifecycle are the sets of this module.
LEMMA StageSets ==
    ASSUME IInv
    PROVE  /\ Lifecycle!At("PendingVerify") = Pending
           /\ Lifecycle!At("FetchQueue") = fetchQueueKeys
           /\ Lifecycle!At("InFlight") = InFlight
           /\ Lifecycle!At("Idle") = Keys \ (Pending \cup fetchQueueKeys \cup InFlight)
<1>1. \A k \in Keys : stageBar[k] = IF k \in Pending THEN "PendingVerify"
                                    ELSE IF k \in fetchQueueKeys THEN "FetchQueue"
                                    ELSE IF k \in InFlight THEN "InFlight"
                                    ELSE "Idle"
  BY DEF stageBar
<1>2. fetchQueueKeys \subseteq Keys /\ Pending \subseteq Keys /\ InFlight \subseteq Keys
  BY DEF IInv, TypeOK, Pending, InFlight
<1> QED BY <1>1, <1>2 DEF Lifecycle!At, IInv, StagesDisjoint

\* A step that leaves the three sets alone leaves the stages alone.
LEMMA StagesUnchanged ==
    ASSUME Pending' = Pending, fetchQueueKeys' = fetchQueueKeys, InFlight' = InFlight
    PROVE  stageBar' = stageBar
BY DEF stageBar

\* An admission is a step Admit of KeyLifecycle.
LEMMA AdmissionRefines ==
    ASSUME IInv, NEW p \in Peers, NEW replica \in SUBSET Keys,
           NEW paidOnly \in SUBSET Keys,
           NEW a \in AdmittedSets(p, replica, paidOnly),
           AddPendingVerify(p, replica, a)
    PROVE  Lifecycle!LifecycleNext
<1>1. a \in SUBSET Keys /\ \A k \in a : ~ContainsKey(k)
  BY DEF AdmittedSets
<1>2. a \cap Pending = {} /\ a \cap fetchQueueKeys = {} /\ a \cap InFlight = {}
  BY <1>1 DEF ContainsKey
<1>3. Pending' = Pending \cup a
  BY <1>1, <1>2, AdmittedPending DEF IInv
<1>4. fetchQueueKeys' = fetchQueueKeys /\ InFlight' = InFlight
  BY DEF AddPendingVerify, InFlight
<1>5. stageBar' = [k \in Keys |-> IF k \in a THEN "PendingVerify" ELSE stageBar[k]]
  BY <1>1, <1>3, <1>4 DEF stageBar
<1>6. a \subseteq Lifecycle!At("Idle")
  BY <1>1, <1>2, StageSets
<1> QED BY <1>1, <1>5, <1>6 DEF Lifecycle!LifecycleNext, Lifecycle!Admit, Lifecycle!Move

\* Keys that leave PendingVerify, some to nowhere and some to FetchQueue.
LEMMA VerifyRefines ==
    ASSUME IInv, NEW out \in SUBSET Keys, NEW queued \in SUBSET Pending,
           queued \subseteq out,
           Pending' = Pending \ out,
           fetchQueueKeys' = fetchQueueKeys \cup queued, InFlight' = InFlight
    PROVE  Lifecycle!LifecycleNext
<1> DEFINE terminal == (out \cap Pending) \ queued
<1>1. terminal \in SUBSET Keys /\ queued \in SUBSET Keys /\ terminal \cap queued = {}
  BY DEF Pending
<1>2. terminal \cup queued \subseteq Lifecycle!At("PendingVerify")
  BY StageSets
<1>3. \A k \in Keys : stageBar'[k] = IF k \in terminal THEN "Idle"
                                     ELSE IF k \in queued THEN "FetchQueue"
                                     ELSE stageBar[k]
  BY DEF stageBar, IInv, StagesDisjoint
<1>4. stageBar' = [k \in Keys |-> IF k \in terminal THEN "Idle"
                                  ELSE IF k \in queued THEN "FetchQueue"
                                  ELSE stageBar[k]]
  BY <1>3 DEF stageBar
<1> HIDE DEF terminal
<1> QED BY <1>1, <1>2, <1>4 DEF Lifecycle!LifecycleNext, Lifecycle!Verify

\* Filling slots is a step Start.
LEMMA FillRefines ==
    ASSUME IInv, NEW free \in Nat, FillSlots(free)
    PROVE  Lifecycle!LifecycleNext
<1> DEFINE gone == {c.key : c \in Dequeued(free)}
           started == {c.key : c \in Started(free)}
           dropped == gone \ started
<1>1. /\ fetchQueueKeys' = fetchQueueKeys \ gone
      /\ InFlight' = InFlight \cup started
  BY FillEffect
<1>2. Pending' = Pending
  BY FillEffect DEF Pending
<1>3. started \subseteq gone /\ gone \subseteq fetchQueueKeys
  <2>1. \A c \in Dequeued(free) : c.key \in fetchQueueKeys
    BY FillEffect, CandidateOfKey
  <2> QED BY <2>1, FillEffect
<1>4. fetchQueueKeys \subseteq Keys
  BY DEF IInv, TypeOK
<1> HIDE DEF gone, started
<1>5. stageBar' = [k \in Keys |-> IF k \in started THEN "InFlight"
                                  ELSE IF k \in dropped THEN "Idle"
                                  ELSE stageBar[k]]
  <2>1. \A k \in Keys : stageBar'[k] = IF k \in started THEN "InFlight"
                                       ELSE IF k \in dropped THEN "Idle"
                                       ELSE stageBar[k]
    BY <1>1, <1>2, <1>3 DEF stageBar, IInv, StagesDisjoint
  <2> QED BY <2>1 DEF stageBar
<1>6. started \cup dropped \subseteq Lifecycle!At("FetchQueue")
  BY <1>3, StageSets
<1>7. started \in SUBSET Keys /\ dropped \in SUBSET Keys /\ started \cap dropped = {}
  BY <1>3, <1>4
<1> HIDE DEF dropped
<1> QED BY <1>5, <1>6, <1>7 DEF Lifecycle!LifecycleNext, Lifecycle!Start

\* The end of a fetch is a step Finish.
LEMMA CompleteRefines ==
    ASSUME IInv, NEW k \in InFlight, CompleteFetch(k)
    PROVE  Lifecycle!LifecycleNext
<1>1. /\ Pending' = Pending /\ fetchQueueKeys' = fetchQueueKeys
      /\ InFlight' = InFlight \ {k} /\ k \in Keys
  BY CompleteEffect DEF CompleteFetch, Pending, InFlight
<1>2. stageBar' = [j \in Keys |-> IF j \in {k} THEN "Idle" ELSE stageBar[j]]
  BY <1>1 DEF stageBar, IInv, StagesDisjoint
<1>3. k \in Lifecycle!At("InFlight")
  BY StageSets
<1> QED BY <1>1, <1>2, <1>3 DEF Lifecycle!LifecycleNext, Lifecycle!Finish, Lifecycle!Move

\* With the mapping stageBar the queues implement KeyLifecycle: every step
\* moves keys from stage to stage in the order the module comment of
\* scheduling.rs gives, or changes no stage.
THEOREM QueuesImplementLifecycle == Spec => LifecycleImplemented
<1>1. Init => Lifecycle!LifecycleInit
  <2> SUFFICES ASSUME Init PROVE Lifecycle!LifecycleInit
    OBVIOUS
  <2>1. Pending = {} /\ InFlight = {} /\ fetchQueueKeys = {}
    BY DEF Init, Pending, InFlight
  <2> QED BY <2>1 DEF Lifecycle!LifecycleInit, stageBar
<1>2. IInv /\ IInv' /\ [Next]_queueVars => [Lifecycle!LifecycleNext]_stageBar
  <2> SUFFICES ASSUME IInv, IInv', [Next]_queueVars
               PROVE  Lifecycle!LifecycleNext \/ stageBar' = stageBar
    OBVIOUS
  <2>1. ASSUME NEW p \in Peers, NEW replica \in SUBSET Keys,
               NEW paidOnly \in SUBSET (Keys \ replica),
               NEW a \in AdmittedSets(p, replica, paidOnly),
               AddPendingVerify(p, replica, a)
        PROVE  Lifecycle!LifecycleNext
    BY <2>1, AdmissionRefines
  <2>2. ASSUME NEW keys \in SUBSET Keys, SetPaidListVerified(keys)
        PROVE  stageBar' = stageBar
    <3>1. \A k \in Pending : pendingVerify[k] \in VerificationEntry
      BY DEF Pending, IInv, TypeOK
    <3>2. \A k \in Pending :
            [pendingVerify[k] EXCEPT !.state = "PaidListVerified"] \in VerificationEntry
      BY <3>1 DEF VerificationEntry, VerificationState
    <3>3. \A k \in Keys : pendingVerify'[k] = None <=> pendingVerify[k] = None
      BY <2>2, <3>2, EntryNotNone DEF SetPaidListVerified, Pending
    <3>4. Pending' = Pending /\ InFlight' = InFlight /\ fetchQueueKeys' = fetchQueueKeys
      BY <2>2, <3>3 DEF SetPaidListVerified, Pending, InFlight
    <3> QED BY <3>4, StagesUnchanged
  <2>3. CASE EvictStale
    <3> DEFINE out == {k \in Pending : pendingVerify[k].stale}
               queued == {}
    <3>1. out \in SUBSET Keys /\ RemovePending(out)
      BY <2>3 DEF EvictStale, Pending
    <3>2. Pending' = Pending \ out
      BY <3>1, RemovedPending DEF IInv
    <3>3. fetchQueueKeys' = fetchQueueKeys \cup queued /\ InFlight' = InFlight
      BY <2>3 DEF EvictStale, InFlight
    <3>4. queued \in SUBSET Pending /\ queued \subseteq out
      OBVIOUS
    <3> HIDE DEF out, queued
    <3> QED BY <3>1, <3>2, <3>3, <3>4, VerifyRefines
  <2>4. ASSUME NEW k \in Keys, GrowStale(k)
        PROVE  stageBar' = stageBar
    <3>1. pendingVerify[k] \in VerificationEntry
      BY <2>4 DEF GrowStale, Pending, IInv, TypeOK
    <3>2. [pendingVerify[k] EXCEPT !.stale = TRUE] \in VerificationEntry
      BY <3>1 DEF VerificationEntry
    <3>3. \A j \in Keys : pendingVerify'[j] = None <=> pendingVerify[j] = None
      BY <2>4, <3>1, <3>2, EntryNotNone DEF GrowStale, IInv, TypeOK
    <3>4. Pending' = Pending /\ InFlight' = InFlight /\ fetchQueueKeys' = fetchQueueKeys
      BY <2>4, <3>3 DEF GrowStale, Pending, InFlight
    <3> QED BY <3>4, StagesUnchanged
  <2>5. ASSUME NEW terminal \in SUBSET Keys, NEW want \in SUBSET (Pending \ terminal),
               NEW promoted \in PromotedSets(want),
               NEW sourcesOf \in [promoted -> Sources],
               ResolvePending(terminal, promoted, sourcesOf)
        PROVE  Lifecycle!LifecycleNext
    <3> DEFINE queued == FreshForFetch(promoted)
               out == terminal \cup promoted
    <3>1. promoted \subseteq Pending /\ queued \in SUBSET Pending /\ queued \subseteq out
      BY <2>5 DEF PromotedSets, FreshForFetch
    <3>2. out \in SUBSET Keys /\ RemovePending(out)
      BY <2>5, <3>1 DEF ResolvePending, Pending
    <3>3. Pending' = Pending \ out
      BY <3>2, RemovedPending DEF IInv
    <3>4. fetchQueueKeys' = fetchQueueKeys \cup queued /\ InFlight' = InFlight
      BY <2>5 DEF ResolvePending, InFlight
    <3> HIDE DEF queued, out
    <3> QED BY <3>1, <3>2, <3>3, <3>4, VerifyRefines
  <2>6. ASSUME NEW free \in 1..MaxParallelFetch, FillSlots(free)
        PROVE  Lifecycle!LifecycleNext
    BY <2>6, FillRefines
  <2>7. ASSUME NEW k \in InFlight, CompleteFetch(k)
        PROVE  Lifecycle!LifecycleNext
    BY <2>7, CompleteRefines
  <2>8. ASSUME NEW k \in InFlight, RetryFetch(k)
        PROVE  stageBar' = stageBar
    <3>1. /\ inFlightFetch'[k] \in InFlightEntry
          /\ \A j \in Keys \ {k} : inFlightFetch'[j] = inFlightFetch[j]
      BY <2>8, RetryEffect
    <3>2. InFlight' = InFlight
      BY <2>8, <3>1, EntryNotNone DEF InFlight
    <3>3. Pending' = Pending /\ fetchQueueKeys' = fetchQueueKeys
      BY <2>8 DEF RetryFetch, Pending
    <3> QED BY <3>2, <3>3, StagesUnchanged
  <2>9. CASE UNCHANGED queueVars
    <3>1. Pending' = Pending /\ InFlight' = InFlight /\ fetchQueueKeys' = fetchQueueKeys
      BY <2>9 DEF queueVars, Pending, InFlight
    <3> QED BY <3>1, StagesUnchanged
  <2> QED BY <2>1, <2>2, <2>3, <2>4, <2>5, <2>6, <2>7, <2>8, <2>9 DEF Next
<1> QED
  BY <1>1, <1>2, InitIInv, NextIInv, PTL
     DEF Spec, LifecycleImplemented, Lifecycle!LifecycleSpec

=============================================================================
