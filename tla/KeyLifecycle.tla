----------------------------- MODULE KeyLifecycle -----------------------------
(***************************************************************************)
(* What the replication pipeline promises about each key, as the module    *)
(* comment of replication/scheduling.rs states it: a key is in at most one *)
(* stage, and moves through PendingVerify, FetchQueue and InFlightFetch in *)
(* this order or leaves.  A step may move several keys, as a batch served  *)
(* under one acquisition of the queues' lock does.                         *)
(***************************************************************************)

CONSTANT Keys

VARIABLE stage    \* the stage each key is in, "Idle" when it is in none

Stage == {"Idle", "PendingVerify", "FetchQueue", "InFlight"}

At(s) == {k \in Keys : stage[k] = s}

\* The keys move to the stage s.
Move(keys, s) == stage' = [k \in Keys |-> IF k \in keys THEN s ELSE stage[k]]

LifecycleInit == stage = [k \in Keys |-> "Idle"]

\* Hints are admitted.
Admit(keys) == keys \subseteq At("Idle") /\ Move(keys, "PendingVerify")

\* A verification resolves pending keys: some leave, some are promoted.
Verify(terminal, promoted) ==
    /\ terminal \cup promoted \subseteq At("PendingVerify")
    /\ terminal \cap promoted = {}
    /\ stage' = [k \in Keys |-> IF k \in terminal THEN "Idle"
                                ELSE IF k \in promoted THEN "FetchQueue"
                                ELSE stage[k]]

\* Fetch slots are filled; a queued key without a source is dropped.
Start(started, dropped) ==
    /\ started \cup dropped \subseteq At("FetchQueue")
    /\ started \cap dropped = {}
    /\ stage' = [k \in Keys |-> IF k \in started THEN "InFlight"
                                ELSE IF k \in dropped THEN "Idle"
                                ELSE stage[k]]

\* A fetch ends.
Finish(k) == k \in At("InFlight") /\ Move({k}, "Idle")

LifecycleNext ==
    \/ \E keys \in SUBSET Keys : Admit(keys)
    \/ \E terminal, promoted \in SUBSET Keys : Verify(terminal, promoted)
    \/ \E started, dropped \in SUBSET Keys : Start(started, dropped)
    \/ \E k \in Keys : Finish(k)

LifecycleSpec == LifecycleInit /\ [][LifecycleNext]_stage

=============================================================================
