---------------------------- MODULE CommitmentState ----------------------------
(***************************************************************************)
(* ResponderCommitmentState, replication/commitment_state.rs: the storage  *)
(* commitments a node still answers for.  The current one is advertised in *)
(* gossip and quotes; one that was advertised stays answerable for         *)
(* GOSSIP_ANSWERABILITY_TTL after the last time it was.                    *)
(*                                                                         *)
(* Only slots[0] of the vector of slots matters, and only while            *)
(* has_current: "current" names it and "slots" is a set.  An instant is    *)
(* kept as the time left until it, 0 when it passed; Tick moves the clock. *)
(* A commitment is identified by its hash, fresh at each signing.          *)
(***************************************************************************)
EXTENDS Integers, FiniteSets

CONSTANTS
    Hashes,                        \* commitment hashes
    Keys,
    None,
    GOSSIP_ANSWERABILITY_TTL,
    MAX_RETAINED_GOSSIPED_SLOTS

ASSUME CommitmentAssumption ==
    /\ IsFiniteSet(Hashes)
    /\ None \notin Hashes
    /\ GOSSIP_ANSWERABILITY_TTL \in Nat \ {0}
    /\ MAX_RETAINED_GOSSIPED_SLOTS \in Nat \ {0}

VARIABLES
    slots,       \* the retained commitments
    current,     \* slots[0] while has_current, otherwise None
    leaves,      \* the keys each retained commitment commits to
    expires,     \* recently_gossiped: time left of the record of a hash, or 0
    promised     \* history: time left in which a peer may hold the node to a
                 \* commitment it advertised

commitmentVars == <<slots, current, leaves, expires, promised>>

TTL == GOSSIP_ANSWERABILITY_TTL

CommitmentInit ==
    /\ slots = {}
    /\ current = None
    /\ leaves = [h \in Hashes |-> {}]
    /\ expires = [h \in Hashes |-> 0]
    /\ promised = [h \in Hashes |-> 0]

\* A hash no signature produced before, as far as anyone remembers.
Fresh(h) == h \notin slots /\ expires[h] = 0 /\ promised[h] = 0

\* Defect: only the advertised commitment is looked at.
IsHeldByCurrent(k) == current # None /\ k \in leaves[current]

\* is_held
IsHeld(k) == \E h \in slots : k \in leaves[h]

\* prune_slots: what stays of the slots s when c is current and e the records.
PruneSlots(s, c, e) == {h \in s : h = c \/ e[h] > 0}

\* The key sets go with their slots.
LeavesOf(s) == [h \in Hashes |-> IF h \in s THEN leaves[h] ELSE {}]

\* rotate
Rotate(h, keys) ==
    /\ current' = h
    /\ slots' = PruneSlots(slots \cup {h}, h, expires)
    /\ leaves' = [LeavesOf(slots') EXCEPT ![h] = keys]
    /\ UNCHANGED <<expires, promised>>

\* Defect: the slot is dropped with the advertisement.
RetireCurrentDrops ==
    /\ current' = None
    /\ slots' = slots \ {current}
    /\ leaves' = LeavesOf(slots')
    /\ UNCHANGED <<expires, promised>>

\* retire_current
RetireCurrent ==
    /\ current' = None
    /\ slots' = PruneSlots(slots, None, expires)
    /\ leaves' = LeavesOf(slots')
    /\ UNCHANGED <<expires, promised>>

\* The records that truncate() may leave: all while they fit, the one just
\* stamped in any case.  Which of the others go depends on their order.
Truncated(e, h) ==
    LET live == {x \in Hashes : e[x] > 0}
    IN  {[x \in Hashes |-> IF x \in kept THEN e[x] ELSE 0] :
            kept \in {s \in SUBSET live :
                        /\ h \in s
                        /\ Cardinality(s) = IF Cardinality(live) <= MAX_RETAINED_GOSSIPED_SLOTS
                                            THEN Cardinality(live)
                                            ELSE MAX_RETAINED_GOSSIPED_SLOTS}}

\* current_for_gossip and current_for_quote: the current commitment goes on the
\* wire and is stamped (mark_gossiped_locked) in one critical section.
EmitCurrent ==
    /\ current # None
    /\ \E e \in Truncated([expires EXCEPT ![current] = TTL], current) :
         /\ expires' = e
         /\ slots' = PruneSlots(slots, current, e)
    /\ leaves' = LeavesOf(slots')
    /\ promised' = [promised EXCEPT ![current] = TTL]
    /\ UNCHANGED current

\* age_out
AgeOut ==
    /\ slots' = PruneSlots(slots, current, expires)
    /\ leaves' = LeavesOf(slots')
    /\ UNCHANGED <<current, expires, promised>>

\* clear_all: "the one sanctioned escape" from what was promised
ClearAll ==
    /\ slots' = {}
    /\ current' = None
    /\ expires' = [h \in Hashes |-> 0]
    /\ promised' = [h \in Hashes |-> 0]
    /\ leaves' = LeavesOf({})

\* A remaining time saturates at zero.
Less(n) == IF n > 0 THEN n - 1 ELSE 0

\* A unit of time passes.
TimePasses ==
    /\ expires' = [h \in Hashes |-> Less(expires[h])]
    /\ promised' = [h \in Hashes |-> Less(promised[h])]
    /\ UNCHANGED <<slots, current, leaves>>

CommitmentNext ==
    \/ \E h \in Hashes, keys \in SUBSET Keys : Fresh(h) /\ Rotate(h, keys)
    \/ RetireCurrent
    \/ EmitCurrent
    \/ AgeOut
    \/ ClearAll
    \/ TimePasses

CommitmentSpec == CommitmentInit /\ [][CommitmentNext]_commitmentVars

-----------------------------------------------------------------------------
(* Properties *)

\* Every variable has the shape of the code's.
CommitmentTypeOK ==
    /\ slots \subseteq Hashes
    /\ current \in Hashes \cup {None}
    /\ leaves \in [Hashes -> SUBSET Keys]
    /\ expires \in [Hashes -> Nat]
    /\ promised \in [Hashes -> 0..TTL]

\* "Anything emitted is simultaneously retained for its answerability TTL"
\* (commitment_state.rs:521): whatever is rotated, retired, re-advertised and
\* aged out since, lookup_by_hash finds an advertised commitment for the whole
\* of its window.
Answerable == \A h \in Hashes : promised[h] > 0 => h \in slots

\* The live records, with the one the next advertisement makes, fit: truncate()
\* "must never drop an unexpired (still-in-window) record"
\* (commitment_state.rs:809).
InWindowFits ==
    Cardinality({h \in Hashes : h = current \/ expires[h] > 0})
        <= MAX_RETAINED_GOSSIPED_SLOTS

=============================================================================
