--------------------------- MODULE CommitmentRestart ---------------------------
(***************************************************************************)
(* Retention across restarts, commitment_state.rs and replication/mod.rs:  *)
(* a loop writes a snapshot of the commitment state to disk every          *)
(* RETENTION_PERSIST_INTERVAL_SECS, and a node that starts reloads it.     *)
(*                                                                         *)
(* The write is atomic (temporary file, fsync, rename, fsync of the        *)
(* directory), so a crash leaves the old or the new snapshot; the deadline *)
(* on disk is absolute, so the time the node is down counts.  The wall     *)
(* clock and the monotonic clock advance together.                         *)
(***************************************************************************)
EXTENDS CommitmentState

CONSTANTS
    RESTART_STAMP_GRACE,
    PERSIST_INTERVAL,       \* RETENTION_PERSIST_INTERVAL_SECS
    GossipCadence           \* longest time between two advertisements of a
                            \* commitment that stays current

ASSUME RestartAssumption ==
    /\ RESTART_STAMP_GRACE \in Nat
    /\ PERSIST_INTERVAL \in Nat \ {0}
    /\ GossipCadence \in Nat \ {0}

VARIABLES
    up,           \* whether the process runs
    disk,         \* the snapshot: its slots, the current one, and the time left
                  \* until the persisted deadline of each, None without one
    buffer,       \* a snapshot taken and not yet written, or None
    persistIn,    \* time until the persist loop wakes up
    lost          \* history: commitments whose last advertisement did not reach
                  \* the disk, not even within the grace, before a crash

restartVars == <<up, disk, buffer, persistIn, lost>>
vars == <<commitmentVars, restartVars>>

Grace == RESTART_STAMP_GRACE

NoSnapshot == [slots |-> {}, current |-> None, left |-> [h \in Hashes |-> None]]

Init ==
    /\ CommitmentInit
    /\ up = TRUE
    /\ disk = NoSnapshot
    /\ buffer = None
    /\ persistIn = 0
    /\ lost = {}

-----------------------------------------------------------------------------

\* The node rotates, retires, ages out and clears as it runs; what it commits
\* to plays no part here.
Responds ==
    /\ up
    /\ \/ \E h \in Hashes : Fresh(h) /\ h \notin disk.slots /\ Rotate(h, Keys)
       \/ RetireCurrent
       \/ AgeOut
       \/ ClearAll
    /\ UNCHANGED restartVars

Advertise ==
    /\ up
    /\ EmitCurrent
    /\ lost' = lost \ {current}
    /\ UNCHANGED <<up, disk, buffer, persistIn>>

\* snapshot: the retained slots; an expired deadline is left out.
Snapshot ==
    [slots |-> slots, current |-> current,
     left |-> [h \in Hashes |-> IF h \in slots /\ expires[h] > 0 THEN expires[h] ELSE None]]

PersistSnapshot ==
    /\ up
    /\ buffer = None
    /\ buffer' = Snapshot
    /\ UNCHANGED <<commitmentVars, up, disk, persistIn, lost>>

\* write_retention_atomic: the rename
PersistWrite ==
    /\ up
    /\ buffer # None
    /\ disk' = buffer
    /\ buffer' = None
    /\ persistIn' = PERSIST_INTERVAL
    /\ UNCHANGED <<commitmentVars, up, lost>>

Crash ==
    /\ up
    /\ up' = FALSE
    /\ slots' = {}
    /\ current' = None
    /\ expires' = [h \in Hashes |-> 0]
    /\ leaves' = LeavesOf({})
    /\ buffer' = None
    /\ UNCHANGED <<promised, disk, persistIn, lost>>

\* Defect: the persisted deadline is taken as it is.
ReloadedStrict(left) == IF left # None /\ left > 0 THEN left ELSE 0

\* wall_expiry_to_instant: the deadline with the grace, unless it passed,
\* clamped.
Reloaded(left) ==
    IF left = None \/ left + Grace <= 0 THEN 0
    ELSE IF left <= TTL THEN left + Grace
    ELSE TTL + Grace

\* The last advertisement of h is on disk, or is later than the persisted one by
\* no more than the grace.
Durable(h) ==
    /\ h \in disk.slots
    /\ disk.left[h] # None
    /\ promised[h] <= disk.left[h] + Grace

\* load_commitment_retention and restore, before any task starts
Restart ==
    /\ ~up
    /\ up' = TRUE
    /\ expires' = [h \in Hashes |-> Reloaded(disk.left[h])]
    /\ current' = disk.current
    /\ slots' = PruneSlots(disk.slots, disk.current, expires')
    /\ leaves' = [h \in Hashes |-> IF h \in slots' THEN Keys ELSE {}]
    /\ persistIn' = 0
    /\ lost' = lost \cup {h \in Hashes : promised[h] > 0 /\ ~Durable(h)}
    /\ UNCHANGED <<promised, disk, buffer>>

\* A deadline on disk that passed by more than the grace is never used again.
Older(left) == IF left = None \/ left + Grace <= 0 THEN left ELSE left - 1

\* Time since the current commitment was advertised, 0 if it never was.
Unadvertised ==
    IF current = None \/ promised[current] = 0 THEN 0 ELSE TTL - promised[current]

\* Time passes, also for a node that is down; the persist loop and the gossip
\* are on time.
Tick ==
    /\ up => persistIn > 0 /\ buffer = None /\ Unadvertised < GossipCadence
    /\ TimePasses
    /\ disk' = [disk EXCEPT !.left = [h \in Hashes |-> Older(disk.left[h])]]
    /\ persistIn' = Less(persistIn)
    /\ lost' = {h \in lost : promised[h] > 1}
    /\ UNCHANGED <<up, buffer>>

Next ==
    \/ Responds
    \/ Advertise
    \/ PersistSnapshot
    \/ PersistWrite
    \/ Crash
    \/ Restart
    \/ Tick

Spec == Init /\ [][Next]_vars

-----------------------------------------------------------------------------
(* Properties *)

\* Every variable has the shape of the code's.
TypeOK ==
    /\ CommitmentTypeOK
    /\ up \in BOOLEAN
    /\ disk.slots \subseteq Hashes
    /\ disk.current \in disk.slots \cup {None}
    /\ \A h \in Hashes : disk.left[h] \in ((-Grace)..(TTL + Grace)) \cup {None}
    /\ persistIn \in 0..PERSIST_INTERVAL
    /\ lost \subseteq Hashes

\* Through any number of crashes, of time spent down and of rotations since, a
\* commitment stays answerable for the whole of its window unless its last
\* advertisement was lost with the memory.
AnswerableUnlessLost ==
    \A h \in Hashes : up /\ promised[h] > 0 /\ h \notin lost => h \in slots

\* "An honest restarted node can answer every pin that is still inside its
\* answerability window" (commitment_state.rs:22).
AnswerableAfterRestart == up => Answerable

\* "Adding this margin on reload guarantees an honest node never under-retains
\* across a restart" (commitment_state.rs:341), "sized well above the persist
\* interval + gossip cadence": for a commitment that was persisted with a
\* deadline only the refresh of its stamp can be lost, and the margin covers it.
StampLossCovered ==
    [][~up /\ up' =>
         \A h \in Hashes : promised[h] > 0 /\ disk.left[h] # None =>
                              expires'[h] >= promised[h]]_vars

=============================================================================
