------------------------------ MODULE RepairProofs ------------------------------
(***************************************************************************)
(* A peer is audited for a key it should store only after this node hinted *)
(* at the key and left the peer time to repair it: RepairProofs and        *)
(* PeerSyncRecord in types.rs, the syncs that record hints, the audit tick *)
(* of audit.rs that asks for them.                                         *)
(*                                                                         *)
(* The routing table is external: it moves peers in and out of the close   *)
(* group of a key, and announces only those that leave the table.  A step  *)
(* is one critical section; a sync, the end of a cycle and an audit tick   *)
(* take several.                                                           *)
(***************************************************************************)
EXTENDS Integers, FiniteSets

CONSTANTS
    Peers,
    Keys,                   \* the keys stored by this node
    None,
    REPAIR_HINT_MIN_AGE,
    MaxEpoch,               \* bound on the cycles completed
    MaxChurn                \* bound on the changes of close groups

ASSUME RepairProofsAssumption ==
    /\ REPAIR_HINT_MIN_AGE \in Nat \ {0}
    /\ MaxEpoch \in Nat /\ MaxChurn \in Nat
    /\ None \notin Int

VARIABLES
    quiet,      \* whether in this behaviour a peer may leave a close group and
                \* come back unannounced, or while a sync with it is on
    group,      \* close group of each key, as the routing table has it
    removed,    \* peers whose removal from the table awaits the handler
    churn,
    epoch,      \* sync_cycle_epoch
    ending,     \* whether the end of a cycle has counted the syncs, not the epoch
    cycles,     \* sync_history: cycles since the last sync (up to 1), or None
    entries,    \* proofs_by_key
    sync,       \* the sync in progress with a peer: its step, the hints sent
    audit,      \* the audit tick in progress
    penalised,  \* history: peer and key of the last audit failure reported
    given,      \* history: age and epoch of the first hint a peer got for a key
    hinted      \* history: peers hinted at a key since they entered its group

vars == <<quiet, group, removed, churn, epoch, ending, cycles, entries, sync, audit,
          penalised, given, hinted>>

NoEntry == [close |-> {}, proofs |-> [p \in Peers |-> None]]
NoSync == [step |-> "none", hints |-> [k \in Keys |-> None], epoch |-> 0]
NoAudit == [step |-> "none", peer |-> None, epoch |-> 0,
            groups |-> [k \in Keys |-> {}], keys |-> {}]

Init ==
    /\ quiet \in BOOLEAN
    /\ group \in [Keys -> SUBSET Peers]
    /\ removed = {}
    /\ churn = MaxChurn
    /\ epoch = 0
    /\ ending = FALSE
    /\ cycles = [p \in Peers |-> None]
    /\ entries = [k \in Keys |-> NoEntry]
    /\ sync = [p \in Peers |-> NoSync]
    /\ audit = NoAudit
    /\ penalised = {}
    /\ given = [k \in Keys |-> [p \in Peers |-> None]]
    /\ hinted = [k \in Keys |-> {}]

historyVars == <<penalised, given, hinted>>

-----------------------------------------------------------------------------
(* RepairProofs *)

Proved(entry) == {p \in Peers : entry.proofs[p] # None}

WithProofs(entry, close, peers) ==
    IF Proved(entry) \cap peers = {} THEN NoEntry
    ELSE [close |-> close,
          proofs |-> [p \in Peers |-> IF p \in peers THEN entry.proofs[p] ELSE None]]

\* Defect: the new group is noted and the proofs of peers that left are kept.
ReconcileKeepsLeavers(entry, close) == WithProofs(entry, close, Peers)

\* reconcile_key_close_group
Reconcile(entry, close) ==
    IF entry.close = close THEN entry ELSE WithProofs(entry, close, close)

\* insert_replica_hint_sent
RecordReplicaHintSent(entry, p, close, at) ==
    LET e == Reconcile(entry, close)
    IN  IF p \notin close \/ e.proofs[p] # None THEN e
        ELSE [close |-> IF e = NoEntry THEN close ELSE e.close,
              proofs |-> [e.proofs EXCEPT ![p] = [epoch |-> at, age |-> 0]]]

\* Defect: a hint of the current cycle counts.
IsMatureSameCycle(entry, p, at) ==
    entry.proofs[p] # None /\ entry.proofs[p].age >= REPAIR_HINT_MIN_AGE

\* has_mature_replica_hint, after the entry is reconciled
IsMature(entry, p, at) ==
    /\ entry.proofs[p] # None
    /\ entry.proofs[p].epoch < at
    /\ entry.proofs[p].age >= REPAIR_HINT_MIN_AGE

\* Defect: only entries of which nobody is left are touched.
RemovePeerEmptied(entry, p) == IF Proved(entry) = {p} THEN NoEntry ELSE entry

\* remove_peer
RemovePeer(entry, p) == WithProofs(entry, entry.close, Peers \ {p})

-----------------------------------------------------------------------------
(* The routing table *)

Enter(k, p) ==
    /\ churn > 0 /\ p \notin group[k]
    /\ quiet \/ p \notin removed
    /\ group' = [group EXCEPT ![k] = @ \cup {p}]
    /\ churn' = churn - 1
    /\ UNCHANGED <<removed, epoch, ending, cycles, entries, sync, audit, historyVars>>

\* A closer peer turned up.
Leave(k, p) ==
    /\ quiet
    /\ churn > 0 /\ p \in group[k]
    /\ group' = [group EXCEPT ![k] = @ \ {p}]
    /\ hinted' = [hinted EXCEPT ![k] = @ \ {p}]
    /\ churn' = churn - 1
    /\ UNCHANGED <<removed, epoch, ending, cycles, entries, sync, audit, penalised, given>>

LeaveTable(p) ==
    /\ churn > 0 /\ \E k \in Keys : p \in group[k]
    /\ quiet \/ sync[p].step = "none"
    /\ group' = [k \in Keys |-> group[k] \ {p}]
    /\ hinted' = [k \in Keys |-> hinted[k] \ {p}]
    /\ removed' = removed \cup {p}
    /\ churn' = churn - 1
    /\ UNCHANGED <<epoch, ending, cycles, entries, sync, audit, penalised, given>>

HandlePeerRemoved(p) ==
    /\ p \in removed
    /\ removed' = removed \ {p}
    /\ entries' = [k \in Keys |-> RemovePeer(entries[k], p)]
    /\ UNCHANGED <<group, churn, epoch, ending, cycles, sync, audit, historyVars>>

-----------------------------------------------------------------------------
(* Syncs and cycles *)

\* build_sync_hints_for_peers: hints at the keys whose group the peer is in.
BuildHints(p) ==
    /\ sync[p].step = "none"
    /\ sync' = [sync EXCEPT ![p] =
         [step |-> "hinting", epoch |-> 0,
          hints |-> [k \in Keys |-> IF p \in group[k] THEN group[k] ELSE None]]]
    /\ UNCHANGED <<group, removed, churn, epoch, ending, cycles, entries, audit, historyVars>>

\* The hints do not get there.
SyncFails(p) ==
    /\ sync[p].step = "hinting"
    /\ sync' = [sync EXCEPT ![p] = NoSync]
    /\ UNCHANGED <<group, removed, churn, epoch, ending, cycles, entries, audit, historyVars>>

\* The peer claims to bootstrap: the sync counts, the hints do not.
SyncWithBootstrapping(p) ==
    /\ sync[p].step = "hinting"
    /\ audit.step = "none"            \* it holds sync_history
    /\ sync' = [sync EXCEPT ![p] = NoSync]
    /\ cycles' = [cycles EXCEPT ![p] = 0]
    /\ UNCHANGED <<group, removed, churn, epoch, ending, entries, audit, historyVars>>

\* They do, and the sync is entered in the history.
SyncSucceeds(p) ==
    /\ sync[p].step = "hinting"
    /\ audit.step = "none"
    /\ sync' = [sync EXCEPT ![p].step = "synced"]
    /\ cycles' = [cycles EXCEPT ![p] = 0]
    /\ LET at == {k \in Keys : sync[p].hints[k] # None}
       IN  /\ given' = [k \in Keys |-> IF k \in at /\ given[k][p] = None
                          THEN [given[k] EXCEPT ![p] = [epoch |-> epoch, age |-> 0]]
                          ELSE given[k]]
           /\ hinted' = [k \in Keys |-> IF k \in at THEN hinted[k] \cup (group[k] \cap {p})
                                        ELSE hinted[k]]
    /\ UNCHANGED <<group, removed, churn, epoch, ending, entries, audit, penalised>>

\* record_sent_replica_hints reads the epoch ...
ReadEpoch(p) ==
    /\ sync[p].step = "synced"
    /\ sync' = [sync EXCEPT ![p].step = "recording", ![p].epoch = epoch]
    /\ UNCHANGED <<group, removed, churn, epoch, ending, cycles, entries, audit, historyVars>>

\* ... and records the hints.
RecordHints(p) ==
    /\ sync[p].step = "recording"
    /\ entries' = [k \in Keys |-> IF sync[p].hints[k] = None THEN entries[k]
                     ELSE RecordReplicaHintSent(entries[k], p, sync[p].hints[k], sync[p].epoch)]
    /\ sync' = [sync EXCEPT ![p] = NoSync]
    /\ UNCHANGED <<group, removed, churn, epoch, ending, cycles, audit, historyVars>>

\* run_neighbor_sync_round finds the cycle complete.
CountCycle ==
    /\ ~ending /\ epoch < MaxEpoch
    /\ audit.step = "none"
    /\ cycles' = [p \in Peers |-> IF cycles[p] = None THEN None ELSE 1]
    /\ ending' = TRUE
    /\ UNCHANGED <<group, removed, churn, epoch, entries, sync, audit, historyVars>>

NextEpoch ==
    /\ ending
    /\ epoch' = epoch + 1
    /\ ending' = FALSE
    /\ UNCHANGED <<group, removed, churn, cycles, entries, sync, audit, historyVars>>

Older(proof) ==
    IF proof = None \/ proof.age = REPAIR_HINT_MIN_AGE THEN proof
    ELSE [proof EXCEPT !.age = @ + 1]

Tick ==
    /\ entries' = [k \in Keys |-> [entries[k] EXCEPT !.proofs = [p \in Peers |-> Older(@[p])]]]
    /\ given' = [k \in Keys |-> [p \in Peers |-> Older(given[k][p])]]
    /\ UNCHANGED <<group, removed, churn, epoch, ending, cycles, sync, audit, penalised, hinted>>

-----------------------------------------------------------------------------
(* audit_tick_with_repair_proofs *)

\* eligible_audit_peers
Eligible == {p \in Peers : cycles[p] # None /\ cycles[p] >= 1}

\* With sync_history locked a peer is chosen, and the keys whose group it is in.
AuditSelect(p) ==
    /\ audit.step = "none"
    /\ p \in Eligible
    /\ audit' = [NoAudit EXCEPT !.step = "select", !.peer = p, !.epoch = epoch,
                                !.groups = group]
    /\ UNCHANGED <<group, removed, churn, epoch, ending, cycles, entries, sync, historyVars>>

\* mature_audit_keys_for_peer, and the challenge
AuditChallenge ==
    /\ audit.step = "select"
    /\ LET asked == {k \in Keys : audit.peer \in audit.groups[k]}
           now == [k \in Keys |-> IF k \in asked THEN Reconcile(entries[k], audit.groups[k])
                                  ELSE entries[k]]
           keys == {k \in asked : IsMature(now[k], audit.peer, audit.epoch)}
       IN  /\ entries' = now
           /\ audit' = IF keys = {} THEN NoAudit
                       ELSE [audit EXCEPT !.step = "wait", !.keys = keys]
    /\ UNCHANGED <<group, removed, churn, epoch, ending, cycles, sync, historyVars>>

\* handle_classified_audit_failure: of the keys that failed, those the peer is
\* still responsible for.
AuditFails ==
    /\ audit.step = "wait"
    /\ \E failed \in SUBSET audit.keys \ {{}} :
         penalised' = {<<audit.peer, k>> : k \in {f \in failed : audit.peer \in group[f]}}
    /\ audit' = NoAudit
    /\ UNCHANGED <<group, removed, churn, epoch, ending, cycles, entries, sync, given, hinted>>

\* Every digest is right, or the peer claims to bootstrap.
AuditPasses ==
    /\ audit.step = "wait"
    /\ audit' = NoAudit
    /\ penalised' = {}
    /\ UNCHANGED <<group, removed, churn, epoch, ending, cycles, entries, sync, given, hinted>>

Step ==
    \/ \E p \in Peers :
         \/ \E k \in Keys : Enter(k, p) \/ Leave(k, p)
         \/ LeaveTable(p) \/ HandlePeerRemoved(p)
         \/ BuildHints(p) \/ SyncFails(p) \/ SyncWithBootstrapping(p)
         \/ SyncSucceeds(p) \/ ReadEpoch(p) \/ RecordHints(p)
         \/ AuditSelect(p)
    \/ CountCycle \/ NextEpoch \/ Tick
    \/ AuditChallenge \/ AuditFails \/ AuditPasses

Next == Step /\ UNCHANGED quiet

Spec == Init /\ [][Next]_vars

-----------------------------------------------------------------------------
(* Properties *)

\* Every variable has the shape of the code's.  "Per-peer proof metadata for
\* peers in close_peers" (types.rs:320): no entry holds a proof of a peer outside
\* its snapshot, and none is empty.
TypeOK ==
    /\ quiet \in BOOLEAN
    /\ group \in [Keys -> SUBSET Peers]
    /\ epoch \in 0..MaxEpoch /\ ending \in BOOLEAN
    /\ cycles \in [Peers -> {None, 0, 1}]
    /\ \A k \in Keys :
         /\ Proved(entries[k]) \subseteq entries[k].close
         /\ Proved(entries[k]) = {} => entries[k] = NoEntry
    /\ audit.step \in {"none", "select", "wait"}
    /\ audit.step = "none" <=> audit.peer = None

\* No peer is penalised for a key it was not hinted at, or hinted at too late: it
\* got a hint before a cycle that ended since, REPAIR_HINT_MIN_AGE or more ago.
PenaltyAfterRepairTime ==
    \A pk \in penalised :
      LET first == given[pk[2]][pk[1]]
      IN  first # None /\ first.epoch < epoch /\ first.age >= REPAIR_HINT_MIN_AGE

\* "A peer that leaves and later re-enters still needs a fresh hint"
\* (types.rs:355): a peer is challenged for a key only if it was hinted at it since
\* it last entered the close group.  It takes moves that are announced, handled
\* before the peer is back and made between two syncs with it.
HintedSinceEntry ==
    [][AuditChallenge /\ ~quiet => \A k \in audit'.keys :
                           audit.peer \in group[k] => audit.peer \in hinted[k]]_vars

=============================================================================
