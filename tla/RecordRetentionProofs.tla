------------------------- MODULE RecordRetentionProofs -------------------------
(***************************************************************************)
(* Proofs about RecordRetention.  As long as the records in window fit,    *)
(* what was advertised stays answerable, and its bytes stay stored but for *)
(* keys the routing table moved under a rotation or a prune pass.          *)
(***************************************************************************)
EXTENDS RecordRetention, FiniteSetTheorems, TLAPS

\* The strengthening of Answerable: a record lasts as long as the promise it
\* stands for, and it keeps its slot.
Retained ==
    /\ CommitmentTypeOK
    /\ current \in slots \cup {None}
    /\ \A h \in Hashes : promised[h] <= expires[h]
    /\ \A h \in Hashes : expires[h] > 0 => h \in slots

\* The strengthening of OwedBytesStored, for the keys that were not moved: those
\* a rotation read are stored and close, and those a prune pass is about to
\* delete are neither held nor close.
BytesKept ==
    /\ \A h \in slots : leaves[h] \ moved \subseteq stored
    /\ rotation.pc = "commit" =>
         \A k \in rotation.keys \ moved : k \in stored /\ range[k] = "close"
    /\ prune.pc = "delete" =>
         \A k \in prune.keys \ moved : range[k] = "out" /\ ~IsHeld(k)

-----------------------------------------------------------------------------
(* The operations of the commitment state *)

\* The slots that stay keep their keys.
LEMMA LeavesOfKeeps ==
    ASSUME Retained, NEW s \in SUBSET Hashes
    PROVE  /\ LeavesOf(s) \in [Hashes -> SUBSET Keys]
           /\ \A h \in s : LeavesOf(s)[h] = leaves[h]
BY DEF LeavesOf, Retained, CommitmentTypeOK

\* truncate() keeps every record while the live ones fit.
LEMMA TruncatedKeepsAll ==
    ASSUME Retained, InWindowFits, current # None,
           NEW e \in Truncated([expires EXCEPT ![current] = TTL], current)
    PROVE  e = [expires EXCEPT ![current] = TTL]
<1> DEFINE e0 == [expires EXCEPT ![current] = TTL]
           live == {x \in Hashes : e0[x] > 0}
<1>1. live = {h \in Hashes : h = current \/ expires[h] > 0}
  BY CommitmentAssumption DEF Retained, CommitmentTypeOK, TTL
<1>2. IsFiniteSet(live) /\ Cardinality(live) <= MAX_RETAINED_GOSSIPED_SLOTS
  BY <1>1, CommitmentAssumption, FS_Subset DEF InWindowFits
<1>3. PICK kept \in SUBSET live :
        /\ Cardinality(kept) = Cardinality(live)
        /\ e = [x \in Hashes |-> IF x \in kept THEN e0[x] ELSE 0]
  BY <1>2 DEF Truncated
<1>4. kept = live
  BY <1>2, <1>3, FS_Subset
<1>5. e0 \in [Hashes -> Nat]
  BY CommitmentAssumption DEF Retained, CommitmentTypeOK, TTL
<1>6. \A x \in Hashes : e[x] = e0[x]
  BY <1>3, <1>4, <1>5
<1>7. e = [x \in Hashes |-> e[x]] /\ e0 = [x \in Hashes |-> e0[x]]
  BY <1>3, <1>5
<1> QED
  <2> HIDE DEF e0
  <2>1. e = e0
    BY <1>6, <1>7
  <2> QED
    BY <2>1 DEF e0

\* Advertising stamps the current commitment and keeps every other record.
LEMMA EmitRetains ==
    ASSUME Retained, InWindowFits, EmitCurrent
    PROVE  Retained' /\ slots' \subseteq slots /\ leaves' = LeavesOf(slots')
<1>1. expires' = [expires EXCEPT ![current] = TTL]
  BY TruncatedKeepsAll DEF EmitCurrent
<1>2. slots' = PruneSlots(slots, current, expires')
  BY DEF EmitCurrent
<1>3. CommitmentTypeOK'
  <2>1. slots' \in SUBSET Hashes
    BY <1>2 DEF Retained, CommitmentTypeOK, PruneSlots
  <2>2. leaves' \in [Hashes -> SUBSET Keys]
    BY <2>1, LeavesOfKeeps DEF EmitCurrent
  <2>3. /\ current' \in Hashes \cup {None}
        /\ expires' \in [Hashes -> Nat] /\ promised' \in [Hashes -> 0..TTL]
    BY <1>1, CommitmentAssumption DEF EmitCurrent, Retained, CommitmentTypeOK, TTL
  <2> QED
    BY <2>1, <2>2, <2>3 DEF CommitmentTypeOK
<1>4. current' \in slots' \cup {None}
  BY <1>2 DEF EmitCurrent, Retained, PruneSlots
<1>5. \A h \in Hashes : promised'[h] <= expires'[h]
  BY <1>1, CommitmentAssumption DEF EmitCurrent, Retained, CommitmentTypeOK, TTL
<1>6. \A h \in Hashes : expires'[h] > 0 => h \in slots'
  BY <1>1, <1>2 DEF EmitCurrent, Retained, CommitmentTypeOK, PruneSlots
<1> QED
  BY <1>2, <1>3, <1>4, <1>5, <1>6 DEF Retained, EmitCurrent, PruneSlots

\* Signing a new commitment keeps what is in window.
LEMMA RotateRetains ==
    ASSUME Retained, NEW h \in Hashes, NEW keys \in SUBSET Keys, Rotate(h, keys)
    PROVE  /\ Retained' /\ slots' \subseteq slots \cup {h}
           /\ leaves' = [LeavesOf(slots') EXCEPT ![h] = keys]
<1>1. slots' \in SUBSET Hashes
  BY DEF Rotate, Retained, CommitmentTypeOK, PruneSlots
<1>2. leaves' \in [Hashes -> SUBSET Keys]
  BY <1>1, LeavesOfKeeps DEF Rotate
<1> QED
  BY <1>1, <1>2, CommitmentAssumption DEF Rotate, Retained, CommitmentTypeOK, PruneSlots

\* So does ceasing to advertise.
LEMMA RetireRetains ==
    ASSUME Retained, RetireCurrent
    PROVE  Retained' /\ slots' \subseteq slots /\ leaves' = LeavesOf(slots')
<1>1. slots' \in SUBSET Hashes
  BY DEF RetireCurrent, Retained, CommitmentTypeOK, PruneSlots
<1>2. leaves' \in [Hashes -> SUBSET Keys]
  BY <1>1, LeavesOfKeeps DEF RetireCurrent
<1> QED
  BY <1>1, <1>2 DEF RetireCurrent, Retained, CommitmentTypeOK, PruneSlots

\* So does dropping what expired.
LEMMA AgeOutRetains ==
    ASSUME Retained, AgeOut
    PROVE  Retained' /\ slots' \subseteq slots /\ leaves' = LeavesOf(slots')
<1>1. slots' \in SUBSET Hashes
  BY DEF AgeOut, Retained, CommitmentTypeOK, PruneSlots
<1>2. leaves' \in [Hashes -> SUBSET Keys]
  BY <1>1, LeavesOfKeeps DEF AgeOut
<1> QED
  BY <1>1, <1>2 DEF AgeOut, Retained, CommitmentTypeOK, PruneSlots

\* Clearing leaves neither records nor promises.
LEMMA ClearAllRetains ==
    ASSUME Retained, ClearAll
    PROVE  Retained' /\ slots' \subseteq slots /\ leaves' = LeavesOf(slots')
<1>1. slots' = {} /\ leaves' = LeavesOf(slots')
  BY DEF ClearAll
<1>2. leaves' \in [Hashes -> SUBSET Keys]
  BY <1>1, LeavesOfKeeps
<1> QED
  BY <1>1, <1>2, CommitmentAssumption DEF ClearAll, Retained, CommitmentTypeOK, TTL

\* A record and the promise it stands for run out together.
LEMMA TimeRetains ==
    ASSUME Retained, TimePasses
    PROVE  Retained' /\ UNCHANGED <<slots, leaves>>
<1>1. /\ \A h \in Hashes : promised'[h] \in 0..TTL /\ expires'[h] \in Nat
      /\ \A h \in Hashes : promised'[h] <= expires'[h]
      /\ \A h \in Hashes : expires'[h] > 0 => expires[h] > 0
  BY CommitmentAssumption DEF TimePasses, Less, Retained, CommitmentTypeOK, TTL
<1> QED
  BY <1>1 DEF TimePasses, Retained, CommitmentTypeOK

\* What a rotation does to the slots and the leaves.
LEMMA RebuildRetains ==
    ASSUME Retained, NEW keys \in SUBSET Keys, NEW empty, Rebuild(keys, empty)
    PROVE  /\ Retained'
           /\ \A x \in slots' : (x \in slots /\ leaves'[x] = leaves[x]) \/ leaves'[x] = keys
<1>0. ASSUME Retained', slots' \subseteq slots, leaves' = LeavesOf(slots')
      PROVE  \A x \in slots' : x \in slots /\ leaves'[x] = leaves[x]
  <2>1. slots' \in SUBSET Hashes
    BY <1>0 DEF Retained, CommitmentTypeOK
  <2> QED
    BY <1>0, <2>1, LeavesOfKeeps
<1>1. CASE ClearAll
  BY <1>0, <1>1, ClearAllRetains
<1>2. CASE RetireCurrent
  BY <1>0, <1>2, RetireRetains
<1>3. CASE AgeOut
  BY <1>0, <1>3, AgeOutRetains
<1>4. ASSUME NEW h \in Hashes, Rotate(h, keys)
      PROVE  /\ Retained'
             /\ \A x \in slots' : (x \in slots /\ leaves'[x] = leaves[x]) \/ leaves'[x] = keys
  <2>1. /\ Retained' /\ slots' \subseteq slots \cup {h}
        /\ leaves' = [LeavesOf(slots') EXCEPT ![h] = keys]
    BY <1>4, RotateRetains
  <2>2. slots' \in SUBSET Hashes
    BY <2>1 DEF Retained, CommitmentTypeOK
  <2>3. /\ LeavesOf(slots') \in [Hashes -> SUBSET Keys]
        /\ \A x \in slots' : LeavesOf(slots')[x] = leaves[x]
    BY <2>2, LeavesOfKeeps
  <2> QED
    BY <2>1, <2>2, <2>3
<1> QED
  BY <1>1, <1>2, <1>3, <1>4 DEF Rebuild

-----------------------------------------------------------------------------
(* Steps *)

\* The fields of the two tasks, for steps that replace the whole record.
LEMMA TaskTypes ==
    TypeOK => /\ stored \subseteq Keys
              /\ rotation.keys \in SUBSET Keys /\ rotation.empty \in BOOLEAN
              /\ prune.keys \in SUBSET Keys
BY DEF TypeOK

\* Every step keeps the types and what is in window.
LEMMA StepRetains ==
    ASSUME TypeOK, Retained, InWindowFits, [Next]_vars
    PROVE  TypeOK' /\ Retained'
<1> USE RetentionAssumption, CommitmentAssumption
<1>1. ASSUME NEW k \in Keys, StoreRecord(k)
      PROVE  TypeOK' /\ Retained'
  BY <1>1 DEF StoreRecord, TypeOK, CommitmentTypeOK, commitmentVars, Retained
<1>2. ASSUME NEW k \in Keys, RoutingChange(k)
      PROVE  TypeOK' /\ Retained'
  BY <1>2 DEF RoutingChange, TypeOK, CommitmentTypeOK, commitmentVars, Retained
<1>3. ASSUME NEW k \in Keys, PruneDelete(k)
      PROVE  TypeOK' /\ Retained'
  <2>1. Retained' /\ CommitmentTypeOK'
    BY <1>3 DEF PruneDelete, TypeOK, CommitmentTypeOK, commitmentVars, Retained
  <2>2. prune' \in [pc : {"idle", "revalidate", "delete"}, keys : SUBSET Keys]
    BY <1>3 DEF PruneDelete, TypeOK, NoPrune
  <2>3. outOfRange' \in [Keys -> (0..PRUNE_HYSTERESIS) \cup {None}]
    BY <1>3 DEF PruneDelete, TypeOK
  <2> QED
    BY <1>3, <2>1, <2>2, <2>3 DEF PruneDelete, TypeOK
<1>4. CASE Advertise
  BY <1>4, EmitRetains DEF Advertise, TypeOK, Retained, retentionVars
<1>5. CASE RotationRead
  BY <1>5 DEF RotationRead, TypeOK, CommitmentTypeOK, commitmentVars, Retained
<1>6. CASE RotationCommit
  <2>1. Retained'
    BY <1>6, TaskTypes, RebuildRetains DEF RotationCommit
  <2>2. rotation' \in [pc : {"idle", "commit"}, keys : SUBSET Keys, empty : BOOLEAN]
    BY <1>6 DEF RotationCommit, NoRotation
  <2> QED
    BY <1>6, <2>1, <2>2 DEF RotationCommit, TypeOK, Retained
<1>7. CASE PruneSelect
  <2>1. Retained' /\ CommitmentTypeOK'
    BY <1>7 DEF PruneSelect, TypeOK, CommitmentTypeOK, commitmentVars, Retained
  <2>2. outOfRange' \in [Keys -> (0..PRUNE_HYSTERESIS) \cup {None}]
    BY <1>7 DEF PruneSelect, TypeOK, Marked
  <2>3. prune' \in [pc : {"idle", "revalidate", "delete"}, keys : SUBSET Keys]
    BY <1>7 DEF PruneSelect, NoPrune
  <2> QED
    BY <1>7, <2>1, <2>2, <2>3 DEF PruneSelect, TypeOK
<1>8. CASE PruneRevalidate
  <2>1. Retained' /\ CommitmentTypeOK'
    BY <1>8 DEF PruneRevalidate, TypeOK, CommitmentTypeOK, commitmentVars, Retained
  <2>2. outOfRange' \in [Keys -> (0..PRUNE_HYSTERESIS) \cup {None}]
    BY <1>8 DEF PruneRevalidate, TypeOK
  <2>3. prune' \in [pc : {"idle", "revalidate", "delete"}, keys : SUBSET Keys]
    BY <1>8, TaskTypes DEF PruneRevalidate, NoPrune
  <2> QED
    BY <1>8, <2>1, <2>2, <2>3 DEF PruneRevalidate, TypeOK
<1>9. CASE Tick
  <2>1. Retained'
    BY <1>9, TimeRetains DEF Tick
  <2>2. outOfRange' \in [Keys -> (0..PRUNE_HYSTERESIS) \cup {None}]
    <3> SUFFICES ASSUME NEW k \in Keys
                 PROVE  outOfRange'[k] \in (0..PRUNE_HYSTERESIS) \cup {None}
      BY <1>9 DEF Tick
    <3>1. outOfRange[k] \in (0..PRUNE_HYSTERESIS) \cup {None}
      BY DEF TypeOK
    <3> QED
      BY <1>9, <3>1 DEF Tick
  <2> QED
    BY <1>9, <2>1, <2>2 DEF Tick, TypeOK, Retained
<1>10. CASE UNCHANGED vars
  BY <1>10 DEF vars, commitmentVars, retentionVars, TypeOK, CommitmentTypeOK, Retained
<1> QED
  BY <1>1, <1>2, <1>3, <1>4, <1>5, <1>6, <1>7, <1>8, <1>9, <1>10 DEF Next

\* The initial state.
LEMMA InitRetains == Init => TypeOK /\ Retained /\ BytesKept
BY RetentionAssumption, CommitmentAssumption
   DEF Init, CommitmentInit, TypeOK, CommitmentTypeOK, Retained, BytesKept, NoRotation, NoPrune, TTL

\* Every step keeps the bytes of the keys that were not moved.
LEMMA StepKeepsBytes ==
    ASSUME TypeOK, Retained, InWindowFits, BytesKept, [Next]_vars
    PROVE  BytesKept'
<1>1. ASSUME NEW k \in Keys, StoreRecord(k)
      PROVE  BytesKept'
  BY <1>1 DEF StoreRecord, BytesKept, commitmentVars, IsHeld
<1>2. ASSUME NEW k \in Keys, RoutingChange(k)
      PROVE  BytesKept'
  <2>1. /\ moved \subseteq moved'
        /\ k \in rotation.keys \cup prune.keys => k \in moved'
        /\ \A x \in Keys \ {k} : range'[x] = range[x]
    BY <1>2 DEF RoutingChange, TypeOK
  <2>2. UNCHANGED <<slots, leaves, stored, rotation, prune>>
    BY <1>2 DEF RoutingChange, commitmentVars
  <2>3. \A h \in slots' : leaves'[h] \ moved' \subseteq stored'
    BY <2>1, <2>2 DEF BytesKept
  <2>4. rotation'.pc = "commit"
          => \A x \in rotation'.keys \ moved' : x \in stored' /\ range'[x] = "close"
    BY <2>1, <2>2, TaskTypes DEF BytesKept
  <2>5. prune'.pc = "delete"
          => \A x \in prune'.keys \ moved' : range'[x] = "out" /\ ~IsHeld(x)'
    BY <2>1, <2>2, TaskTypes DEF BytesKept, IsHeld
  <2> QED
    BY <2>3, <2>4, <2>5 DEF BytesKept
<1>3. ASSUME NEW k \in Keys, PruneDelete(k)
      PROVE  BytesKept'
  <2>1. /\ prune.pc = "delete" /\ k \in prune.keys
        /\ k \notin moved => range[k] = "out" /\ ~IsHeld(k)
    BY <1>3 DEF PruneDelete, BytesKept
  <2>2. /\ UNCHANGED <<slots, leaves, rotation, range, moved>>
        /\ stored' = stored \ {k}
    BY <1>3 DEF PruneDelete, commitmentVars
  <2>3. \A h \in slots' : leaves'[h] \ moved' \subseteq stored'
    BY <2>1, <2>2 DEF BytesKept, IsHeld
  <2>4. rotation'.pc = "commit"
          => \A x \in rotation'.keys \ moved' : x \in stored' /\ range'[x] = "close"
    BY <2>1, <2>2 DEF BytesKept
  <2>5. prune'.pc = "delete" => prune'.keys \subseteq prune.keys
    BY <1>3 DEF PruneDelete, TypeOK, NoPrune
  <2>6. prune'.pc = "delete"
          => \A x \in prune'.keys \ moved' : range'[x] = "out" /\ ~IsHeld(x)'
    BY <2>1, <2>2, <2>5 DEF BytesKept, IsHeld
  <2> QED
    BY <2>3, <2>4, <2>6 DEF BytesKept
<1>4. CASE Advertise
  <2>1. /\ slots' \subseteq slots /\ leaves' = LeavesOf(slots')
        /\ UNCHANGED <<stored, range, rotation, prune, moved>>
    BY <1>4, EmitRetains DEF Advertise, retentionVars
  <2>2. \A h \in slots' : leaves'[h] = leaves[h]
    BY <2>1, LeavesOfKeeps DEF Retained, CommitmentTypeOK
  <2> QED
    BY <2>1, <2>2 DEF BytesKept, IsHeld
<1>5. CASE RotationRead
  BY <1>5 DEF RotationRead, BytesKept, commitmentVars, IsHeld
<1>6. CASE RotationCommit
  <2>1. \A x \in slots' : (x \in slots /\ leaves'[x] = leaves[x]) \/ leaves'[x] = rotation.keys
    BY <1>6, TaskTypes, RebuildRetains DEF RotationCommit
  <2>2. \A k \in rotation.keys \ moved : k \in stored /\ range[k] = "close"
    BY <1>6 DEF RotationCommit, BytesKept
  <2>3. rotation'.pc = "idle" /\ UNCHANGED <<stored, range, prune, moved>>
    BY <1>6 DEF RotationCommit, NoRotation
  <2>4. \A h \in slots' : leaves'[h] \ moved' \subseteq stored'
    BY <2>1, <2>2, <2>3 DEF BytesKept
  <2>5. prune'.pc = "delete"
          => \A k \in prune'.keys \ moved' : range'[k] = "out" /\ ~IsHeld(k)'
    BY <2>1, <2>2, <2>3 DEF BytesKept, IsHeld
  <2> QED
    BY <2>3, <2>4, <2>5 DEF BytesKept
<1>7. CASE PruneSelect
  <2>1. prune'.pc # "delete"
    BY <1>7 DEF PruneSelect, NoPrune
  <2> QED
    BY <1>7, <2>1 DEF PruneSelect, BytesKept, commitmentVars
<1>8. CASE PruneRevalidate
  <2>1. prune'.pc = "delete" => \A k \in prune'.keys : range[k] = "out" /\ ~IsHeld(k)
    BY <1>8 DEF PruneRevalidate, NoPrune
  <2> QED
    BY <1>8, <2>1 DEF PruneRevalidate, BytesKept, commitmentVars, IsHeld
<1>9. CASE Tick
  BY <1>9, TimeRetains DEF Tick, BytesKept, IsHeld
<1>10. CASE UNCHANGED vars
  BY <1>10 DEF vars, commitmentVars, retentionVars, BytesKept, IsHeld
<1> QED
  BY <1>1, <1>2, <1>3, <1>4, <1>5, <1>6, <1>7, <1>8, <1>9, <1>10 DEF Next

-----------------------------------------------------------------------------
(* Theorems *)

\* As long as the records in window fit the bound of truncate(), an advertised
\* commitment is found by lookup_by_hash for the whole of its window, for any
\* number of keys, any TTL and any timing of rotation and prune passes.
THEOREM AdvertisedStaysAnswerable == Spec /\ []InWindowFits => []Answerable
<1>1. TypeOK /\ Retained /\ InWindowFits /\ [Next]_vars => (TypeOK /\ Retained)'
  BY StepRetains
<1>2. Retained => Answerable
  BY DEF Retained, Answerable, CommitmentTypeOK
<1> QED
  BY <1>1, <1>2, InitRetains, PTL DEF Spec

\* Under the same condition, and with a routing table that changes at any time,
\* the prune pass deletes bytes an advertised commitment owes only of a key that
\* the routing table moved while a rotation or a prune pass was handling it: the
\* veto of is_held and its second look (pruning.rs:438-457, 998-1008) leave no
\* other interleaving.
THEOREM OwedBytesStayStored == Spec /\ []InWindowFits => []OwedBytesStored
<1>1. TypeOK /\ Retained /\ BytesKept /\ InWindowFits /\ [Next]_vars
        => (TypeOK /\ Retained /\ BytesKept)'
  BY StepRetains, StepKeepsBytes
<1>2. Retained /\ BytesKept => OwedBytesStored
  BY DEF Retained, BytesKept, OwedBytesStored, CommitmentTypeOK
<1> QED
  BY <1>1, <1>2, InitRetains, PTL DEF Spec

=============================================================================
