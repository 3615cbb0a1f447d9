------------------------- MODULE AuditAdmissionProofs -------------------------
(***************************************************************************)
(* Proof that the slots of the peers are counted exactly and never exceed  *)
(* the limit, for any set of peers and any limits.  The count is exact     *)
(* because the subtraction that gives a slot back never saturates: the     *)
(* slot is held, so the count is positive.                                 *)
(***************************************************************************)
EXTENDS AuditAdmission, TLAPS

\* The shape of the loop: it serves one peer between claiming its slot and giving
\* it back, and holds the slot all the while.
LoopOK ==
    loop \in {Idle} \cup [step : {"claimed", "refused", "answering"}, peer : Peers, inline : BOOLEAN]

CountsOK ==
    /\ inflight \in [Peers -> Nat]
    /\ tasks \in [Peers -> Nat]
    /\ dropping \in [Peers -> Nat]

SlotsLimited == \A p \in Peers : inflight[p] <= MAX_AUDIT_RESPONSES_PER_PEER

\* The inductive invariant.
IInv == LoopOK /\ CountsOK /\ SlotsExact /\ SlotsLimited

-----------------------------------------------------------------------------

\* What the loop holds of a peer is one slot or none.
LEMMA HeldType == ASSUME LoopOK, NEW p \in Peers PROVE Held(p) \in {0, 1}
  BY DEF Held

\* The idle loop has no peer and is told apart from the others by its step.
LEMMA IdleStep ==
  ASSUME LoopOK
  PROVE  /\ loop = Idle <=> loop.step = "idle"
         /\ loop # Idle => loop.peer \in Peers
  BY DEF LoopOK, Idle

\* Giving back a slot that is held takes exactly one off the count.
LEMMA GiveBackExact ==
  ASSUME CountsOK, NEW p \in Peers, inflight[p] > 0
  PROVE  /\ GiveBack(p) \in [Peers -> Nat]
         /\ \A q \in Peers : GiveBack(p)[q] = inflight[q] - (IF q = p THEN 1 ELSE 0)
  BY DEF CountsOK, GiveBack

\* A challenge arrives.
LEMMA ClaimStep ==
  ASSUME IInv, NEW p \in Peers, NEW inline \in BOOLEAN, Claim(p, inline)
  PROVE  IInv'
<1>1. CASE MayClaim(p)
  <2>1. /\ inflight' = [inflight EXCEPT ![p] = @ + 1]
        /\ loop' = [step |-> "claimed", peer |-> p, inline |-> inline]
        /\ UNCHANGED <<tasks, dropping>> /\ loop = Idle
    BY <1>1 DEF Claim
  <2>2. LoopOK' /\ CountsOK'
    BY <2>1 DEF IInv, LoopOK, CountsOK
  <2>3. \A q \in Peers : Held(q) = 0 /\ Held(q)' = IF q = p THEN 1 ELSE 0
    BY <2>1 DEF Held, Idle
  <2>4. SlotsExact'
    BY <2>1, <2>3 DEF IInv, SlotsExact, CountsOK
  <2>5. SlotsLimited'
    BY <1>1, <2>1, AdmissionAssumption DEF IInv, SlotsLimited, CountsOK, MayClaim
  <2> QED
    BY <2>2, <2>4, <2>5 DEF IInv
<1>2. CASE ~MayClaim(p)
  BY <1>2 DEF Claim, IInv, LoopOK, CountsOK, SlotsExact, SlotsLimited, Held
<1> QED
  BY <1>1, <1>2

\* A permit is taken: the slot goes from the loop to the task, or stays with the loop.
LEMMA TakePermitStep ==
  ASSUME IInv, TakePermit PROVE IInv'
<1>1. loop # Idle /\ loop.peer \in Peers /\ loop.step = "claimed"
  BY IdleStep DEF IInv, TakePermit, Idle
<1>2. loop \in [step : {"claimed", "refused", "answering"}, peer : Peers, inline : BOOLEAN]
  BY <1>1 DEF IInv, LoopOK
<1>3. CASE loop.inline
  <2>1. loop' = [loop EXCEPT !.step = "answering"] /\ UNCHANGED <<inflight, tasks, dropping>>
    BY <1>3 DEF TakePermit
  <2>2. loop' \in [step : {"claimed", "refused", "answering"}, peer : Peers, inline : BOOLEAN]
        /\ loop'.peer = loop.peer /\ loop'.step = "answering"
    BY <1>2, <2>1
  <2>3. loop' # Idle
    BY <2>2 DEF Idle
  <2>4. \A q \in Peers : Held(q)' = Held(q)
    BY <1>1, <2>2, <2>3 DEF Held
  <2> QED
    BY <2>1, <2>2, <2>4 DEF IInv, LoopOK, CountsOK, SlotsExact, SlotsLimited
<1>4. CASE ~loop.inline
  <2>1. /\ loop' = Idle /\ tasks' = [tasks EXCEPT ![loop.peer] = @ + 1]
        /\ UNCHANGED <<inflight, dropping>>
    BY <1>4 DEF TakePermit
  <2>2. LoopOK' /\ CountsOK'
    BY <1>1, <2>1 DEF IInv, LoopOK, CountsOK
  <2>3. \A q \in Peers : Held(q)' = 0 /\ Held(q) = IF q = loop.peer THEN 1 ELSE 0
    BY <1>1, <2>1 DEF Held
  <2>4. SlotsExact'
    BY <1>1, <2>1, <2>3 DEF IInv, SlotsExact, CountsOK
  <2> QED
    BY <2>1, <2>2, <2>4 DEF IInv, SlotsLimited
<1> QED
  BY <1>3, <1>4

\* No permit is left: the slot stays with the loop.
LEMMA NoPermitStep ==
  ASSUME IInv, NoPermit PROVE IInv'
<1>1. loop # Idle /\ loop.peer \in Peers
  BY IdleStep DEF IInv, NoPermit, Idle
<1>2. loop \in [step : {"claimed", "refused", "answering"}, peer : Peers, inline : BOOLEAN]
  BY <1>1 DEF IInv, LoopOK
<1>3. loop' = [loop EXCEPT !.step = "refused"] /\ UNCHANGED <<inflight, tasks, dropping>>
  BY DEF NoPermit
<1>4. loop' \in [step : {"claimed", "refused", "answering"}, peer : Peers, inline : BOOLEAN]
      /\ loop'.peer = loop.peer /\ loop'.step = "refused"
  BY <1>2, <1>3
<1>5. loop' # Idle
  BY <1>4 DEF Idle
<1>6. \A q \in Peers : Held(q)' = Held(q)
  BY <1>1, <1>4, <1>5 DEF Held
<1> QED
  BY <1>3, <1>4, <1>6 DEF IInv, LoopOK, CountsOK, SlotsExact, SlotsLimited

\* A refused challenge: the slot is given back.
LEMMA RefuseStep ==
  ASSUME IInv, Refuse PROVE IInv'
<1>1. loop # Idle /\ loop.peer \in Peers
  BY IdleStep DEF IInv, Refuse, Idle
<1>2. /\ inflight' = GiveBack(loop.peer) /\ loop' = Idle
      /\ UNCHANGED <<tasks, dropping>>
  BY DEF Refuse
<1>3. \A q \in Peers : Held(q)' = 0 /\ Held(q) = IF q = loop.peer THEN 1 ELSE 0
  BY <1>1, <1>2 DEF Held
<1>4. inflight[loop.peer] > 0
  BY <1>1, <1>3 DEF IInv, SlotsExact, CountsOK
<1>5. /\ inflight' \in [Peers -> Nat]
      /\ \A q \in Peers : inflight'[q] = inflight[q] - (IF q = loop.peer THEN 1 ELSE 0)
  BY <1>1, <1>2, <1>4, GiveBackExact DEF IInv
<1>6. LoopOK' /\ CountsOK'
  BY <1>2, <1>5 DEF IInv, LoopOK, CountsOK
<1>7. SlotsExact'
  BY <1>2, <1>3, <1>5 DEF IInv, SlotsExact, CountsOK
<1>8. SlotsLimited'
  BY <1>5, AdmissionAssumption DEF IInv, SlotsLimited, CountsOK
<1> QED
  BY <1>6, <1>7, <1>8 DEF IInv

\* A guard is dropped by a holder that gives up its slot: the loop or a task.
LEMMA DropGuardStep ==
  ASSUME IInv, NEW p \in Peers, DropGuard(p), LoopOK', tasks' \in [Peers -> Nat],
         \A q \in Peers :
           tasks'[q] + Held(q)' = tasks[q] + Held(q) - (IF q = p THEN 1 ELSE 0)
  PROVE  IInv'
<1>1. \A q \in Peers : Held(q) \in {0, 1} /\ Held(q)' \in {0, 1}
  BY DEF Held
<1>2. inflight[p] > 0
  <2>1. tasks'[p] \in Nat /\ tasks[p] \in Nat /\ dropping[p] \in Nat
    BY DEF IInv, CountsOK
  <2>2. tasks'[p] + Held(p)' = tasks[p] + Held(p) - 1
    OBVIOUS
  <2>3. inflight[p] = tasks[p] + dropping[p] + Held(p)
    BY DEF IInv, SlotsExact
  <2>4. Held(p) \in {0, 1} /\ Held(p)' \in {0, 1}
    BY <1>1
  <2> QED
    BY <2>1, <2>2, <2>3, <2>4 DEF Held
<1>3. CASE inflight' = GiveBack(p) /\ UNCHANGED dropping
  <2>1. /\ inflight' \in [Peers -> Nat]
        /\ \A q \in Peers : inflight'[q] = inflight[q] - (IF q = p THEN 1 ELSE 0)
    BY <1>2, <1>3, GiveBackExact DEF IInv
  <2>2. SlotsExact'
    <3> SUFFICES ASSUME NEW q \in Peers
                 PROVE  inflight'[q] = tasks'[q] + dropping[q] + Held(q)'
      BY <1>3 DEF SlotsExact
    <3>1. tasks'[q] \in Nat /\ tasks[q] \in Nat /\ dropping[q] \in Nat
      BY DEF IInv, CountsOK
    <3>2. tasks'[q] + Held(q)' = tasks[q] + Held(q) - (IF q = p THEN 1 ELSE 0)
      OBVIOUS
    <3>3. inflight[q] = tasks[q] + dropping[q] + Held(q)
      BY DEF IInv, SlotsExact
    <3>4. inflight'[q] = inflight[q] - (IF q = p THEN 1 ELSE 0)
      BY <2>1
    <3>5. Held(q) \in {0, 1} /\ Held(q)' \in {0, 1}
      BY <1>1
    <3> QED
      BY <3>1, <3>2, <3>3, <3>4, <3>5 DEF Held
  <2>3. SlotsLimited'
    BY <2>1, AdmissionAssumption DEF IInv, SlotsLimited, CountsOK
  <2> QED
    BY <1>3, <2>1, <2>2, <2>3 DEF IInv, CountsOK
<1>4. CASE dropping' = [dropping EXCEPT ![p] = @ + 1] /\ UNCHANGED inflight
  <2>1. /\ dropping' \in [Peers -> Nat]
        /\ \A q \in Peers : dropping'[q] = dropping[q] + (IF q = p THEN 1 ELSE 0)
    BY <1>4 DEF IInv, CountsOK
  <2>2. SlotsExact'
    BY <1>1, <1>4, <2>1 DEF IInv, SlotsExact, CountsOK, Held
  <2> QED
    BY <1>4, <2>1, <2>2 DEF IInv, CountsOK, SlotsLimited
<1> QED
  BY <1>3, <1>4 DEF DropGuard

\* The loop has answered.
LEMMA LoopAnswersStep ==
  ASSUME IInv, LoopAnswers PROVE IInv'
<1>1. loop # Idle /\ loop.peer \in Peers
  BY IdleStep DEF IInv, LoopAnswers, Idle
<1>2. loop' = Idle /\ DropGuard(loop.peer) /\ UNCHANGED tasks
  BY DEF LoopAnswers
<1>3. \A q \in Peers : Held(q)' = 0 /\ Held(q) = IF q = loop.peer THEN 1 ELSE 0
  BY <1>1, <1>2 DEF Held
<1>4. LoopOK' /\ tasks' \in [Peers -> Nat]
  BY <1>2 DEF LoopOK, IInv, CountsOK
<1>5. \A q \in Peers :
        tasks'[q] + Held(q)' = tasks[q] + Held(q) - (IF q = loop.peer THEN 1 ELSE 0)
  BY <1>2, <1>3 DEF IInv, CountsOK
<1> QED
  BY <1>1, <1>2, <1>4, <1>5, DropGuardStep

\* A task ends.
LEMMA TaskEndsStep ==
  ASSUME IInv, NEW p \in Peers, TaskEnds(p) PROVE IInv'
<1>1. /\ tasks[p] > 0 /\ tasks' = [tasks EXCEPT ![p] = @ - 1]
      /\ DropGuard(p) /\ loop' = loop
  BY DEF TaskEnds
<1>2. LoopOK' /\ tasks' \in [Peers -> Nat]
  BY <1>1 DEF LoopOK, IInv, CountsOK
<1>3. \A q \in Peers : Held(q)' = Held(q) /\ Held(q) \in {0, 1}
  BY <1>1 DEF Held
<1>4. \A q \in Peers :
        tasks'[q] + Held(q)' = tasks[q] + Held(q) - (IF q = p THEN 1 ELSE 0)
  BY <1>1, <1>3 DEF IInv, CountsOK
<1> QED
  BY <1>1, <1>2, <1>4, DropGuardStep

\* A slot is given back late.
LEMMA DropLaterStep ==
  ASSUME IInv, NEW p \in Peers, DropLater(p) PROVE IInv'
<1>1. /\ dropping[p] > 0 /\ dropping' = [dropping EXCEPT ![p] = @ - 1]
      /\ inflight' = GiveBack(p) /\ UNCHANGED <<tasks, loop>>
  BY DEF DropLater
<1>2. \A q \in Peers : Held(q)' = Held(q) /\ Held(q) \in {0, 1}
  BY <1>1 DEF Held
<1>3. inflight[p] > 0
  BY <1>1, <1>2 DEF IInv, SlotsExact, CountsOK
<1>4. /\ inflight' \in [Peers -> Nat]
      /\ \A q \in Peers : inflight'[q] = inflight[q] - (IF q = p THEN 1 ELSE 0)
  BY <1>1, <1>3, GiveBackExact DEF IInv
<1>5. /\ dropping' \in [Peers -> Nat]
      /\ \A q \in Peers : dropping'[q] = dropping[q] - (IF q = p THEN 1 ELSE 0)
  BY <1>1 DEF IInv, CountsOK
<1>6. SlotsExact'
  BY <1>1, <1>2, <1>4, <1>5 DEF IInv, SlotsExact, CountsOK
<1>7. SlotsLimited'
  BY <1>4, AdmissionAssumption DEF IInv, SlotsLimited, CountsOK
<1> QED
  BY <1>1, <1>4, <1>5, <1>6, <1>7 DEF IInv, LoopOK, CountsOK

\* The counts are exact and within the limit in every state.
THEOREM IInvAlways == Spec => []IInv
<1>1. Init => IInv
  BY AdmissionAssumption
     DEF Init, IInv, LoopOK, CountsOK, SlotsExact, SlotsLimited, Held
<1>2. IInv /\ [Next]_vars => IInv'
  <2> SUFFICES ASSUME IInv, [Next]_vars PROVE IInv'
    OBVIOUS
  <2>1. CASE UNCHANGED vars
    BY <2>1 DEF vars, IInv, LoopOK, CountsOK, SlotsExact, SlotsLimited, Held
  <2>2. CASE Next
    BY <2>2, ClaimStep, TakePermitStep, NoPermitStep, RefuseStep, LoopAnswersStep,
       TaskEndsStep, DropLaterStep DEF Next, Loop
  <2> QED
    BY <2>1, <2>2
<1> QED
  BY <1>1, <1>2, PTL DEF Spec

\* For any peers and limits, neither an early end nor a refusal nor a late drop of an
\* AuditResponderGuard loses or doubles a slot (admit_audit_responder, mod.rs:1878).
THEOREM SlotsExactAlways == Spec => []SlotsExact
<1>1. IInv => SlotsExact
  BY DEF IInv
<1> QED
  BY <1>1, IInvAlways, PTL

=============================================================================
