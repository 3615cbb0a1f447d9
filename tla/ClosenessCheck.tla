----------------------------- MODULE ClosenessCheck -----------------------------
(***************************************************************************)
(* The check that the candidates of a paid pool are close to its midpoint, *)
(* verify_merkle_candidate_closeness in payment/verifier.rs.  The chunks   *)
(* of a batch share a pool, so that many callers check it at once: one     *)
(* leads and asks the network, the others wait for what it publishes.      *)
(*                                                                         *)
(* There is one pool; the caches it is kept in are bounded and may lose it *)
(* to other pools at any time.  A step is a critical section of a cache,   *)
(* or a step on the slot of a leader, which has no lock.  A caller leads   *)
(* at most once, and so stands for the slot it makes.                      *)
(***************************************************************************)
EXTENDS Naturals

CONSTANTS
    Callers,
    MAX_LEADER_RETRIES,
    None

VARIABLES
    passed,     \* whether the pool is in closeness_pass_cache
    inflight,   \* inflight_closeness: the slot of the pool, or None
    result,     \* ClosenessSlot.result of each slot: "ok", "err", or None
    notified,   \* how often notify_waiters was called on each slot
    caller      \* where each caller is

vars == <<passed, inflight, result, notified, caller>>

\* slot: that of the leader waited for.  seen: the snapshot in Notified.
NoCall == [pc |-> "begin", attempt |-> 0, slot |-> None, seen |-> 0, answer |-> None]

Init ==
    /\ passed = FALSE
    /\ inflight = None
    /\ result = [c \in Callers |-> None]
    /\ notified = [c \in Callers |-> 0]
    /\ caller = [c \in Callers |-> NoCall]

At(c, pc) == caller[c].pc = pc
Goto(c, pc) == caller' = [caller EXCEPT ![c].pc = pc]
Return(c, answer) == caller' = [caller EXCEPT ![c].pc = "returned", ![c].answer = answer]

-----------------------------------------------------------------------------

\* The fast path.
Begin(c) ==
    /\ At(c, "begin")
    /\ IF passed THEN Return(c, "ok") ELSE Goto(c, "claim")
    /\ UNCHANGED <<passed, inflight, result, notified>>

\* Under the lock of inflight_closeness: the slot there is taken, or a new one made.
\* The lock is released before the slot is looked at.
Claim(c) ==
    /\ At(c, "claim")
    /\ IF inflight # None
       THEN /\ caller' = [caller EXCEPT ![c].pc = "found", ![c].slot = inflight]
            /\ UNCHANGED inflight
       ELSE Goto(c, "leading") /\ inflight' = c
    /\ UNCHANGED <<passed, result, notified>>

\* notified_owned
Register(c) ==
    /\ At(c, "found")
    /\ caller' = [caller EXCEPT ![c].pc = "waiting", ![c].seen = notified[caller[c].slot]]
    /\ UNCHANGED <<passed, inflight, result, notified>>

\* notified.await ends when notify_waiters was called since.  A leader that left
\* nothing is replaced, up to MAX_LEADER_RETRIES times.
Wake(c) ==
    /\ At(c, "waiting")
    /\ notified[caller[c].slot] # caller[c].seen
    /\ LET published == result[caller[c].slot]
       IN  IF published # None THEN Return(c, published)
           ELSE IF caller[c].attempt = MAX_LEADER_RETRIES THEN Return(c, "err")
           ELSE caller' = [caller EXCEPT ![c].pc = "claim", ![c].attempt = @ + 1]
    /\ UNCHANGED <<passed, inflight, result, notified>>

\* verify_merkle_candidate_closeness_inner ends, by its timeout at the latest, and the
\* outcome is published.
Publish(c) ==
    /\ At(c, "leading")
    /\ \E outcome \in {"ok", "err"} :
         /\ result' = [result EXCEPT ![c] = outcome]
         /\ Goto(c, IF outcome = "ok" THEN "pass" ELSE "drop")
    /\ UNCHANGED <<passed, inflight, notified>>

\* It panics, or the future is cancelled.
Vanish(c) ==
    /\ At(c, "leading")
    /\ Goto(c, "drop")
    /\ UNCHANGED <<passed, inflight, result, notified>>

\* A success goes into closeness_pass_cache.
Pass(c) ==
    /\ At(c, "pass")
    /\ passed' = TRUE
    /\ Goto(c, "drop")
    /\ UNCHANGED <<inflight, result, notified>>

\* InflightGuard::drop: the slot goes if it is this one, then the waiters are woken.
DropSlot(c) ==
    /\ At(c, "drop")
    /\ inflight' = IF inflight = c THEN None ELSE inflight
    /\ Goto(c, "notify")
    /\ UNCHANGED <<passed, result, notified>>

NotifyWaiters(c) ==
    /\ At(c, "notify")
    /\ notified' = [notified EXCEPT ![c] = @ + 1]
    /\ Return(c, result[c])
    /\ UNCHANGED <<passed, inflight, result>>

\* Other pools push this one out of a cache.
Evict ==
    /\ \/ inflight # None /\ inflight' = None /\ UNCHANGED passed
       \/ passed /\ passed' = FALSE /\ UNCHANGED inflight
    /\ UNCHANGED <<result, notified, caller>>

Call(c) ==
    \/ Begin(c) \/ Claim(c) \/ Register(c) \/ Wake(c)
    \/ Publish(c) \/ Pass(c) \/ DropSlot(c) \/ NotifyWaiters(c)

Next == Evict \/ \E c \in Callers : Call(c) \/ Vanish(c)

\* A caller that can go on does: the runtime polls it, and a lookup has a timeout.
Fairness == \A c \in Callers : WF_vars(Call(c))

Spec == Init /\ [][Next]_vars /\ Fairness

-----------------------------------------------------------------------------
(* Properties *)

\* Every variable has its type.
TypeOK ==
    /\ passed \in BOOLEAN
    /\ inflight \in Callers \cup {None}
    /\ result \in [Callers -> {"ok", "err", None}]
    /\ notified \in [Callers -> {0, 1}]
    /\ caller \in [Callers ->
         [pc : {"begin", "claim", "found", "waiting", "leading", "pass", "drop", "notify",
                "returned"},
          attempt : 0..MAX_LEADER_RETRIES, slot : Callers \cup {None}, seen : {0, 1},
          answer : {"ok", "err", None}]]

\* "The slot already existed when we locked, so the leader is either running or
\* finished; in both cases the snapshot + counter check ensures we wake up correctly"
\* (verifier.rs:1952): every caller gets an answer.
CallersReturn == \A c \in Callers : <>At(c, "returned")

=============================================================================
