----------------------------- MODULE AuditAdmission -----------------------------
(***************************************************************************)
(* Admission of audit challenges by the responder: admit_audit_responder   *)
(* and AuditResponderGuard in replication/mod.rs.                          *)
(*                                                                         *)
(* The message loop claims a slot of the peer, then a global permit, and   *)
(* hands both to a task, or answers a GetCommitmentByPin itself.  When a   *)
(* guard is dropped the slot is given back at once if the map is free, and *)
(* by a task of its own if it is not.                                      *)
(***************************************************************************)
EXTENDS Integers, FiniteSets, Functions

CONSTANTS
    Peers,
    MAX_AUDIT_RESPONSES_PER_PEER,
    MAX_CONCURRENT_AUDIT_RESPONSES,
    MaxChallenges               \* bound on the challenges that arrive

ASSUME AdmissionAssumption ==
    /\ IsFiniteSet(Peers)
    /\ MAX_AUDIT_RESPONSES_PER_PEER \in Nat \ {0}
    /\ MAX_CONCURRENT_AUDIT_RESPONSES \in Nat \ {0}
    /\ MaxChallenges \in Nat

VARIABLES
    inflight,   \* audit_responder_inflight
    permits,    \* audit_responder_semaphore: permits left
    tasks,      \* answering tasks of each peer
    dropping,   \* slots of each peer still to be given back by a task
    loop,       \* the message loop: its step and the peer it serves
    arrived     \* challenges that arrived

vars == <<inflight, permits, tasks, dropping, loop, arrived>>

Idle == [step |-> "idle"]

Init ==
    /\ inflight = [p \in Peers |-> 0]
    /\ permits = MAX_CONCURRENT_AUDIT_RESPONSES
    /\ tasks = [p \in Peers |-> 0]
    /\ dropping = [p \in Peers |-> 0]
    /\ loop = Idle
    /\ arrived = 0

\* saturating_sub
GiveBack(p) == [inflight EXCEPT ![p] = IF @ = 0 THEN 0 ELSE @ - 1]

-----------------------------------------------------------------------------

MayClaim(p) == inflight[p] < MAX_AUDIT_RESPONSES_PER_PEER

\* A challenge arrives: a slot of the peer is claimed, or the challenge dropped.
Claim(p, inline) ==
    /\ loop = Idle
    /\ arrived < MaxChallenges
    /\ arrived' = arrived + 1
    /\ IF MayClaim(p)
       THEN /\ inflight' = [inflight EXCEPT ![p] = @ + 1]
            /\ loop' = [step |-> "claimed", peer |-> p, inline |-> inline]
       ELSE UNCHANGED <<inflight, loop>>
    /\ UNCHANGED <<permits, tasks, dropping>>

\* Defect: the permit is released when the task is spawned, not moved into it.
TakePermitBriefly ==
    /\ loop.step = "claimed" /\ permits > 0
    /\ IF loop.inline
       THEN loop' = [loop EXCEPT !.step = "answering"] /\ UNCHANGED tasks
       ELSE loop' = Idle /\ tasks' = [tasks EXCEPT ![loop.peer] = @ + 1]
    /\ UNCHANGED <<inflight, permits, dropping, arrived>>

\* A permit is left: the task is spawned, or the answer given here.
TakePermit ==
    /\ loop.step = "claimed" /\ permits > 0
    /\ permits' = permits - 1
    /\ IF loop.inline
       THEN loop' = [loop EXCEPT !.step = "answering"] /\ UNCHANGED tasks
       ELSE loop' = Idle /\ tasks' = [tasks EXCEPT ![loop.peer] = @ + 1]
    /\ UNCHANGED <<inflight, dropping, arrived>>

\* None is.
NoPermit ==
    /\ loop.step = "claimed" /\ permits = 0
    /\ loop' = [loop EXCEPT !.step = "refused"]
    /\ UNCHANGED <<inflight, permits, tasks, dropping, arrived>>

\* Defect: the slot claimed before is not given back.
RefuseLeaks ==
    /\ loop.step = "refused"
    /\ loop' = Idle
    /\ UNCHANGED <<inflight, permits, tasks, dropping, arrived>>

\* The slot is given back and the challenge dropped.
Refuse ==
    /\ loop.step = "refused"
    /\ inflight' = GiveBack(loop.peer)
    /\ loop' = Idle
    /\ UNCHANGED <<permits, tasks, dropping, arrived>>

\* Drop of a guard: the map is free, or held by somebody else.
DropGuard(p) ==
    /\ permits' = permits + 1
    /\ \/ inflight' = GiveBack(p) /\ UNCHANGED dropping
       \/ dropping' = [dropping EXCEPT ![p] = @ + 1] /\ UNCHANGED inflight

\* The loop has answered, or a task has, or ended early.
LoopAnswers ==
    /\ loop.step = "answering"
    /\ loop' = Idle
    /\ DropGuard(loop.peer)
    /\ UNCHANGED <<tasks, arrived>>

TaskEnds(p) ==
    /\ tasks[p] > 0
    /\ tasks' = [tasks EXCEPT ![p] = @ - 1]
    /\ DropGuard(p)
    /\ UNCHANGED <<loop, arrived>>

\* Defect: nobody gives back a slot that could not be given back at once.
DropLaterNever(p) == dropping[p] > 0 /\ FALSE /\ UNCHANGED vars

\* The task that gives a slot back gets the lock.
DropLater(p) ==
    /\ dropping[p] > 0
    /\ dropping' = [dropping EXCEPT ![p] = @ - 1]
    /\ inflight' = GiveBack(p)
    /\ UNCHANGED <<permits, tasks, loop, arrived>>

Loop == TakePermit \/ NoPermit \/ Refuse \/ LoopAnswers

Next ==
    \/ \E p \in Peers : TaskEnds(p) \/ DropLater(p) \/ \E inline \in BOOLEAN : Claim(p, inline)
    \/ Loop

\* The loop and the tasks go on.
Fairness == WF_vars(Loop) /\ \A p \in Peers : WF_vars(TaskEnds(p)) /\ WF_vars(DropLater(p))

Spec == Init /\ [][Next]_vars
FairSpec == Spec /\ Fairness

-----------------------------------------------------------------------------
(* Properties *)

Held(p) == IF loop # Idle /\ loop.peer = p THEN 1 ELSE 0
Answering == IF loop.step = "answering" THEN 1 ELSE 0

\* Every variable has its type.
TypeOK ==
    /\ \A p \in Peers : inflight[p] \in 0..MAX_AUDIT_RESPONSES_PER_PEER
    /\ \A p \in Peers : tasks[p] \in Nat /\ dropping[p] \in Nat
    /\ loop.step \in {"idle", "claimed", "refused", "answering"}

\* Every permit is free or held by one answer, so never more answers are under way
\* than MAX_CONCURRENT_AUDIT_RESPONSES ("a global ceiling", mod.rs:2097).
PermitsExact ==
    permits + Answering + SumFunction(tasks) = MAX_CONCURRENT_AUDIT_RESPONSES

\* A peer's count is exactly what it holds: neither an early end nor a refusal nor
\* a late drop loses or doubles a slot, so "one source cannot starve other peers"
\* (mod.rs:2100).
SlotsExact ==
    \A p \in Peers : inflight[p] = tasks[p] + dropping[p] + Held(p)

\* Once the challenges cease, every slot and permit is free again.
SlotsReturned ==
    <>[](permits = MAX_CONCURRENT_AUDIT_RESPONSES /\ \A p \in Peers : inflight[p] = 0)

=============================================================================
