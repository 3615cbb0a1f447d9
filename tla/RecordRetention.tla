---------------------------- MODULE RecordRetention ----------------------------
(***************************************************************************)
(* Which records a node keeps: the rotation of its storage commitment,     *)
(* rebuild_and_rotate_commitment in replication/mod.rs, and the prune pass *)
(* over stored records, replication/pruning.rs, which run concurrently and *)
(* share the chunk store and the commitment state.                         *)
(*                                                                         *)
(* The routing table is external: it places this node in the close group   *)
(* of a key ("close"), only in the wider group that admits records for     *)
(* storage ("admission") or in neither ("out").  Answers to the presence   *)
(* audits of a prune pass are chosen freely.                               *)
(***************************************************************************)
EXTENDS CommitmentState

CONSTANTS
    ROTATION_INTERVAL,        \* COMMITMENT_ROTATION_INTERVAL_SECS
    PRUNE_HYSTERESIS          \* config.prune_hysteresis_duration

ASSUME RetentionAssumption ==
    /\ ROTATION_INTERVAL \in Nat \ {0}
    /\ PRUNE_HYSTERESIS \in Nat

VARIABLES
    stored,         \* the keys in the chunk store
    range,          \* where the routing table places this node for a key
    outOfRange,     \* record_out_of_range_since: time since, or None
    rotation,       \* where the rotation is, with the keys it read
    rotateIn,       \* time until the rotation loop wakes up
    prune,          \* where the prune pass is, with the keys it selected
    moved           \* history: the keys the routing table moved while a
                    \* rotation or a prune pass was handling them

retentionVars == <<stored, range, outOfRange, rotation, rotateIn, prune, moved>>
vars == <<commitmentVars, retentionVars>>

NoRotation == [pc |-> "idle", keys |-> {}, empty |-> FALSE]
NoPrune == [pc |-> "idle", keys |-> {}]

Init ==
    /\ CommitmentInit
    /\ stored = {}
    /\ range \in [Keys -> {"close", "admission", "out"}]
    /\ outOfRange = [k \in Keys |-> None]
    /\ rotation = NoRotation
    /\ rotateIn = 0
    /\ prune = NoPrune
    /\ moved = {}

-----------------------------------------------------------------------------

\* A record is stored, wherever the routing table places this node: a client's
\* put and a fresh offer are admitted up to a width beyond the group that admits
\* for storage, and what was fetched is put without another look.
StoreRecord(k) ==
    /\ stored' = stored \cup {k}
    /\ UNCHANGED <<commitmentVars, range, outOfRange, rotation, rotateIn, prune, moved>>

\* The routing table changes at any time.
RoutingChange(k) ==
    /\ \E r \in {"close", "admission", "out"} \ {range[k]} :
         range' = [range EXCEPT ![k] = r]
    /\ moved' = moved \cup ({k} \cap (rotation.keys \cup prune.keys))
    /\ UNCHANGED <<commitmentVars, stored, outOfRange, rotation, rotateIn, prune>>

\* A sync request or response, or a quote, carries the current commitment.
Advertise == EmitCurrent /\ UNCHANGED retentionVars

-----------------------------------------------------------------------------
(* rebuild_and_rotate_commitment *)

\* The stored keys are read, then filtered by the close group.
RotationRead ==
    /\ rotation.pc = "idle"
    /\ rotateIn = 0
    /\ rotation' = [pc |-> "commit",
                    keys |-> {k \in stored : range[k] = "close"},
                    empty |-> stored = {}]
    /\ UNCHANGED <<commitmentVars, stored, range, outOfRange, rotateIn, prune, moved>>

\* Defect: without a responsible key the current commitment is only aged.
RebuildNeverRetires(keys, empty) ==
    \/ keys = {} /\ empty /\ ClearAll
    \/ keys = {} /\ ~empty /\ AgeOut
    \/ keys # {} /\ current # None /\ leaves[current] = keys /\ AgeOut
    \/ /\ keys # {}
       /\ current # None => leaves[current] # keys
       /\ \E h \in Hashes : Fresh(h) /\ Rotate(h, keys)

\* What is done with the keys: nothing is left to answer for; nothing is left
\* to advertise; the key set is the one advertised already; or a new commitment
\* is signed.
Rebuild(keys, empty) ==
    \/ keys = {} /\ empty /\ ClearAll
    \/ keys = {} /\ ~empty /\ RetireCurrent
    \/ keys # {} /\ current # None /\ leaves[current] = keys /\ AgeOut
    \/ /\ keys # {}
       /\ current # None => leaves[current] # keys
       /\ \E h \in Hashes : Fresh(h) /\ Rotate(h, keys)

\* Defect: the loop does not sleep.
RotationCommitRestless ==
    /\ rotation.pc = "commit"
    /\ Rebuild(rotation.keys, rotation.empty)
    /\ rotation' = NoRotation
    /\ UNCHANGED <<stored, range, outOfRange, rotateIn, prune, moved>>

RotationCommit ==
    /\ rotation.pc = "commit"
    /\ Rebuild(rotation.keys, rotation.empty)
    /\ rotation' = NoRotation
    /\ rotateIn' = ROTATION_INTERVAL
    /\ UNCHANGED <<stored, range, outOfRange, prune, moved>>

-----------------------------------------------------------------------------
(* prune_stored_records *)

\* A record outside the wider group that no retained commitment owes.
Prunable(k) == k \in stored /\ range[k] = "out" /\ ~IsHeld(k)

\* The timers after evaluate_record_prune_key looked at every stored key.
Marked ==
    [k \in Keys |-> IF k \in stored /\ range[k] # "out" THEN None
                    ELSE IF Prunable(k) /\ outOfRange[k] = None THEN 0
                    ELSE outOfRange[k]]

\* The hysteresis of a key has passed.
Due(timers, k) == timers[k] # None /\ timers[k] >= PRUNE_HYSTERESIS

\* Candidates are selected; which of them have enough mature repair proofs
\* within the audit budget is left open.
PruneSelect ==
    /\ prune.pc = "idle"
    /\ outOfRange' = Marked
    /\ \E keys \in SUBSET {k \in Keys : Prunable(k) /\ Due(Marked, k)} :
         prune' = IF keys = {} THEN NoPrune ELSE [pc |-> "revalidate", keys |-> keys]
    /\ UNCHANGED <<commitmentVars, stored, range, rotation, rotateIn, moved>>

\* revalidated_record_prune_keys, after the audits: everything is looked at
\* again.
PruneRevalidate ==
    /\ prune.pc = "revalidate"
    /\ outOfRange' = [k \in Keys |-> IF k \in prune.keys /\ ~IsHeld(k) /\ range[k] # "out"
                                     THEN None ELSE outOfRange[k]]
    /\ \E keys \in SUBSET {k \in prune.keys : /\ range[k] = "out"
                                              /\ ~IsHeld(k)
                                              /\ Due(outOfRange, k)} :
         prune' = IF keys = {} THEN NoPrune ELSE [pc |-> "delete", keys |-> keys]
    /\ UNCHANGED <<commitmentVars, stored, range, rotation, rotateIn, moved>>

\* delete_stored_records, key by key; a deletion that fails is a key that
\* revalidation left out.
PruneDelete(k) ==
    /\ prune.pc = "delete"
    /\ k \in prune.keys
    /\ stored' = stored \ {k}
    /\ outOfRange' = [outOfRange EXCEPT ![k] = None]
    /\ prune' = IF prune.keys = {k} THEN NoPrune
                ELSE [prune EXCEPT !.keys = @ \ {k}]
    /\ UNCHANGED <<commitmentVars, range, rotation, rotateIn, moved>>

-----------------------------------------------------------------------------

\* A rotation that is due, or under way, ends before time moves on.
Tick ==
    /\ rotateIn > 0
    /\ TimePasses
    /\ rotateIn' = rotateIn - 1
    /\ outOfRange' = [k \in Keys |->
                        IF outOfRange[k] = None THEN None
                        ELSE IF outOfRange[k] < PRUNE_HYSTERESIS THEN outOfRange[k] + 1
                        ELSE outOfRange[k]]
    /\ UNCHANGED <<stored, range, rotation, prune, moved>>

Next ==
    \/ \E k \in Keys : StoreRecord(k) \/ RoutingChange(k) \/ PruneDelete(k)
    \/ Advertise
    \/ RotationRead
    \/ RotationCommit
    \/ PruneSelect
    \/ PruneRevalidate
    \/ Tick

\* The rotation loop runs on and time passes.
Fairness == WF_vars(RotationRead) /\ WF_vars(RotationCommit) /\ WF_vars(Tick)

Spec == Init /\ [][Next]_vars
FairSpec == Spec /\ Fairness

-----------------------------------------------------------------------------
(* Properties *)

\* Every variable has the shape of the code's.
TypeOK ==
    /\ CommitmentTypeOK
    /\ stored \subseteq Keys
    /\ range \in [Keys -> {"close", "admission", "out"}]
    /\ outOfRange \in [Keys -> (0..PRUNE_HYSTERESIS) \cup {None}]
    /\ rotation \in [pc : {"idle", "commit"}, keys : SUBSET Keys, empty : BOOLEAN]
    /\ rotateIn \in 0..ROTATION_INTERVAL
    /\ prune \in [pc : {"idle", "revalidate", "delete"}, keys : SUBSET Keys]
    /\ moved \subseteq Keys

\* "We never delete bytes a recently gossiped commitment still owes in a
\* round-2 byte challenge" (pruning.rs:1000): every key of a commitment a peer
\* may still hold the node to is stored.
CommittedBytesStored ==
    \A h \in Hashes : promised[h] > 0 => leaves[h] \subseteq stored

\* What the retention veto and its second look after the audits
\* (revalidated_record_prune_keys) do achieve: however rotations, prune passes,
\* advertisements and arrivals interleave, the bytes an advertised commitment
\* owes are missing only for a key that the routing table moved while one of the
\* two passes was handling it.
OwedBytesStored ==
    \A h \in Hashes : promised[h] > 0 => leaves[h] \ stored \subseteq moved

\* "A bounded reprieve, not a permanent pin" (pruning.rs:449): a key that left
\* the close group for good stops being owed, although the node keeps
\* advertising whatever is current.
Released == \A k \in Keys : <>[](range[k] # "close") => <>[]~IsHeld(k)

=============================================================================
