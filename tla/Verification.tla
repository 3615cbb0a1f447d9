----------------------------- MODULE Verification -----------------------------
(***************************************************************************)
(* How a node that has no proof of payment for a record decides to list it *)
(* as paid and to store it: it asks the nodes close to the key.  The       *)
(* targets and the evaluation of the answers, replication/quorum.rs, the   *)
(* cycle that runs a round and applies its outcome, replication/mod.rs,    *)
(* and the nodes asked, which may be doing the same.                       *)
(*                                                                         *)
(* There is one key.  What a node sees of the routing table is chosen      *)
(* freely for every round.  Some nodes are faulty: they say anything, but  *)
(* among the nodes of a round they are no majority.  A node answers from   *)
(* what it has at the time, so that the answers of a round need not fit    *)
(* together.                                                               *)
(***************************************************************************)
EXTENDS Integers, FiniteSets

CONSTANTS
    Nodes,
    Faulty,
    Thresholds,           \* the values of quorum_threshold
    MaxRounds,            \* bound on the rounds under way at once
    MaxTargets            \* bound on the targets of a round, those asked for both twice

ASSUME VerificationAssumption ==
    /\ IsFiniteSet(Nodes)
    /\ Faulty \subseteq Nodes
    /\ Thresholds \subseteq Nat \ {0}
    /\ MaxRounds \in Nat /\ MaxTargets \in Nat

VARIABLES
    stored,     \* the nodes that store the record
    paid,       \* the nodes that have the key in their PaidForList
    proven,     \* history: a proof of payment has been verified
    round,      \* the verification of the key under way at a node
    quorumThreshold   \* ReplicationConfig.quorum_threshold, which never changes

vars == <<stored, paid, proven, round, quorumThreshold>>

Honest == Nodes \ Faulty

\* VerificationTargets, and the evidence of the answers so far; an answer that is
\* missing in the last four sets is unresolved.
NewRound(pc, pipeline, quorum, group, inGroup) ==
    [pc |-> pc, pipeline |-> pipeline,
     quorum |-> quorum, group |-> group, inGroup |-> inGroup, awaiting |-> quorum \cup group,
     present |-> {}, absent |-> {}, confirmed |-> {}, notFound |-> {}]

NoRound == NewRound("idle", "Replica", {}, {}, FALSE)

Init ==
    /\ stored = {}
    /\ paid = {}
    /\ proven = FALSE
    /\ round = [n \in Honest |-> NoRound]
    /\ quorumThreshold \in Thresholds

-----------------------------------------------------------------------------
(* quorum.rs *)

\* quorum_needed
QuorumNeeded(count) ==
    IF count = 0 THEN 0
    ELSE IF quorumThreshold < count \div 2 + 1 THEN quorumThreshold
    ELSE count \div 2 + 1

\* confirm_needed
ConfirmNeeded(size) == size \div 2 + 1

\* Defect: this node, which is not asked, is not counted either.
GroupSizeOthers(r) == Cardinality(r.group)

\* paid_group_sizes: the group with this node, if it is in it.
GroupSize(r) == Cardinality(r.group) + IF r.inGroup THEN 1 ELSE 0

\* The quorum targets that count as holders, and those that may turn out to be:
\* a claim without holder credit is one of the latter.
Holders(r, credited) == r.quorum \cap r.present \cap credited
Undecided(r, credited) == r.quorum \ (r.absent \cup Holders(r, credited))

Confirmed(r) == r.group \cap r.confirmed
Unconfirmed(r) == r.group \ (r.confirmed \cup r.notFound)

\* Defect: a claim without holder credit counts as a denial.
EvaluateUncreditedAbsent(r, credited) ==
    LET needed == QuorumNeeded(Cardinality(r.quorum))
        positive == Cardinality(Holders(r, credited))
        open == Cardinality(r.quorum \ (r.absent \cup r.present))
        confirmed == Cardinality(Confirmed(r))
    IN  IF needed > 0 /\ positive >= needed THEN "QuorumVerified"
        ELSE IF confirmed >= ConfirmNeeded(GroupSize(r)) THEN "PaidListVerified"
        ELSE IF confirmed + Cardinality(Unconfirmed(r)) < ConfirmNeeded(GroupSize(r))
                /\ positive + open < needed
        THEN "QuorumFailed" ELSE "QuorumInconclusive"

\* evaluate_key_evidence_with_holder_check; no targets are no quorum.
Evaluate(r, credited) ==
    LET needed == QuorumNeeded(Cardinality(r.quorum))
        positive == Cardinality(Holders(r, credited))
        open == Cardinality(Undecided(r, credited))
        size == GroupSize(r)
        confirmed == Cardinality(Confirmed(r))
        unconfirmed == Cardinality(Unconfirmed(r))
    IN  IF needed > 0 /\ positive >= needed THEN "QuorumVerified"
        ELSE IF size > 0 /\ confirmed >= ConfirmNeeded(size) THEN "PaidListVerified"
        ELSE IF /\ ~(size > 0 /\ confirmed + unconfirmed >= ConfirmNeeded(size))
                /\ ~(needed > 0 /\ positive + open >= needed)
        THEN "QuorumFailed" ELSE "QuorumInconclusive"

\* collect_present_sources
Sources(r) == r.present \cap (r.quorum \cup r.group)

-----------------------------------------------------------------------------
(* What needs a proof, and pruning *)

\* A proof is verified and the record stored, if the disk allows it.  A failure to
\* list the key is logged and nothing else.
HandlePut(n) ==
    /\ n \notin stored
    /\ proven' = TRUE
    /\ stored' \in {stored, stored \cup {n}}
    /\ UNCHANGED <<paid, round>>

HandleFreshOffer(n) ==
    /\ proven' = TRUE
    /\ paid' \in {paid, paid \cup {n}}
    /\ stored' \in {stored, stored \cup {n}}
    /\ UNCHANGED round

HandlePaidNotify(n) ==
    /\ proven' = TRUE
    /\ paid' \in {paid, paid \cup {n}}
    /\ UNCHANGED <<stored, round>>

\* replicate_fresh: some time after a PUT with a proof the key is listed.
ReplicateFresh(n) ==
    /\ proven
    /\ paid' = paid \cup {n}
    /\ UNCHANGED <<stored, proven, round>>

PruneRecord(n) ==
    /\ n \in stored
    /\ stored' = stored \ {n}
    /\ UNCHANGED <<paid, proven, round>>

PruneEntry(n) ==
    /\ n \in paid
    /\ paid' = paid \ {n}
    /\ UNCHANGED <<stored, proven, round>>

-----------------------------------------------------------------------------
(* A round, run_verification_cycle *)

\* The faulty are neither a majority of the quorum targets nor as many as the
\* threshold, and no majority of the paid group.
SoundQuorum(quorum) ==
    /\ 2 * Cardinality(quorum \cap Faulty) <= Cardinality(quorum)
    /\ Cardinality(quorum \cap Faulty) < quorumThreshold
SoundGroup(group, inGroup) ==
    2 * Cardinality(group \cap Faulty) <= Cardinality(group) + IF inGroup THEN 1 ELSE 0

\* A hint was admitted and is found among the pending keys.  A key in the
\* PaidForList is authorized and needs nodes to fetch from only; a paid-only hint
\* at it is done unless this node should store the record and does not.  For the
\* others the targets are asked for the record, and the paid group for its list.
Start(n) ==
    /\ round[n].pc = "idle"
    /\ Cardinality({m \in Honest : round[m].pc # "idle"}) < MaxRounds
    /\ \E pipeline \in {"Replica", "PaidOnly"}, quorum \in SUBSET (Nodes \ {n}) :
         /\ SoundQuorum(quorum)
         /\ pipeline = "Replica" => n \notin stored
         /\ Cardinality(quorum) <= MaxTargets
         /\ \/ /\ n \in paid /\ n \notin stored
               /\ round' = [round EXCEPT ![n] = NewRound("probe", pipeline, quorum, {}, FALSE)]
            \/ /\ n \notin paid
               /\ \E group \in SUBSET (Nodes \ {n}), inGroup \in BOOLEAN :
                    /\ SoundGroup(group, inGroup)
                    /\ Cardinality(quorum) + Cardinality(group) <= MaxTargets
                    /\ round' = [round EXCEPT ![n] =
                                  NewRound("network", pipeline, quorum, group, inGroup)]
    /\ UNCHANGED <<stored, paid, proven>>

PaidListEvidence == {"Confirmed", "NotFound", "Unresolved"}

\* The evidence with the answer of p to whether it has the record and, asked of the
\* paid group only, the key in its list: process_verification_response.  An answer
\* that leaves the list out is unresolved there.
Answered(r, p, present, listed) ==
    [r EXCEPT !.awaiting = @ \ {p},
              !.present = IF present THEN @ \cup {p} ELSE @,
              !.absent = IF present THEN @ ELSE @ \cup {p},
              !.confirmed = IF p \in r.group /\ listed = "Confirmed" THEN @ \cup {p} ELSE @,
              !.notFound = IF p \in r.group /\ listed = "NotFound" THEN @ \cup {p} ELSE @]

\* handle_verification_request at p; a faulty node says anything.
Answer(n, p) ==
    /\ p \in round[n].awaiting
    /\ \E present \in BOOLEAN, listed \in PaidListEvidence :
         /\ p \in Honest => /\ present <=> p \in stored
                            /\ listed = IF p \in paid THEN "Confirmed" ELSE "NotFound"
         /\ round' = [round EXCEPT ![n] = Answered(round[n], p, present, listed)]
    /\ UNCHANGED <<stored, paid, proven>>

\* No answer, or one that does not mention the key or cannot be decoded:
\* mark_peer_unresolved.
NoAnswer(n, p) ==
    /\ p \in round[n].awaiting
    /\ round' = [round EXCEPT ![n].awaiting = @ \ {p}]
    /\ UNCHANGED <<stored, paid, proven>>

\* The nodes with credit for the key: those of earlier versions, and those that
\* proved lately to store it; and all, if this node does not store it itself.
Credits(n) == IF n \in stored THEN SUBSET Nodes ELSE {Nodes}

\* The round goes on to a fetch if there is a node to fetch from; of the evidence the
\* fetch candidate keeps the sources only.
ToFetch(n) ==
    IF Sources(round[n]) = {} THEN NoRound
    ELSE [NoRound EXCEPT !.pc = "fetch", !.quorum = Sources(round[n]),
                         !.present = Sources(round[n])]

ProbeEnds(n) ==
    /\ round[n].pc = "probe" /\ round[n].awaiting = {}
    /\ round' = [round EXCEPT ![n] = IF n \in stored THEN NoRound ELSE ToFetch(n)]
    /\ UNCHANGED <<stored, paid, proven>>

\* A verified key is listed, which may fail with the database and is ignored; it is
\* fetched unless the hint was paid-only and this node need not store the record
\* or does.
NetworkEnds(n) ==
    /\ round[n].pc = "network" /\ round[n].awaiting = {}
    /\ \E credited \in Credits(n) :
         IF Evaluate(round[n], credited) \in {"QuorumVerified", "PaidListVerified"}
         THEN /\ paid' \in {paid, paid \cup {n}}
              /\ \/ /\ round[n].pipeline = "PaidOnly" => n \notin stored
                    /\ round' = [round EXCEPT ![n] = ToFetch(n)]
                 \/ /\ round[n].pipeline = "PaidOnly"
                    /\ round' = [round EXCEPT ![n] = NoRound]
         ELSE /\ round' = [round EXCEPT ![n] = NoRound]
              /\ UNCHANGED paid
    /\ UNCHANGED <<stored, proven>>

\* execute_single_fetch, from the sources in turn: a node that has the record by
\* then provides it.
Fetch(n) ==
    /\ round[n].pc = "fetch"
    /\ \/ Sources(round[n]) \cap (stored \cup Faulty) # {} /\ stored' = stored \cup {n}
       \/ UNCHANGED stored
    /\ round' = [round EXCEPT ![n] = NoRound]
    /\ UNCHANGED <<paid, proven>>

Next ==
    /\ \E n \in Honest :
         \/ HandlePut(n) \/ HandleFreshOffer(n) \/ HandlePaidNotify(n) \/ ReplicateFresh(n)
         \/ PruneRecord(n) \/ PruneEntry(n)
         \/ Start(n)
         \/ \E p \in Nodes : Answer(n, p) \/ NoAnswer(n, p)
         \/ ProbeEnds(n) \/ NetworkEnds(n) \/ Fetch(n)
    /\ UNCHANGED quorumThreshold

Spec == Init /\ [][Next]_vars

-----------------------------------------------------------------------------
(* Properties *)

Round ==
    [pc : {"idle", "probe", "network", "fetch"}, pipeline : {"Replica", "PaidOnly"},
     quorum : SUBSET Nodes, group : SUBSET Nodes, inGroup : BOOLEAN,
     awaiting : SUBSET Nodes, present : SUBSET Nodes, absent : SUBSET Nodes,
     confirmed : SUBSET Nodes, notFound : SUBSET Nodes]

\* Every variable has the shape of the code's.
TypeOK ==
    /\ stored \subseteq Honest /\ paid \subseteq Honest
    /\ proven \in BOOLEAN
    /\ quorumThreshold \in Thresholds
    /\ round \in [Honest -> Round]

\* Nodes convince each other without seeing a proof of payment, in rounds that
\* overlap and on answers that are out of date; yet as long as the faulty are no
\* majority of those asked, no honest node lists or stores a record nobody paid for.
OnlyPaidKept == ~proven => stored = {} /\ paid = {}

QuorumMet(r, holders) ==
    \/ Cardinality(holders) >= quorumThreshold
    \/ 2 * Cardinality(holders) > Cardinality(r.quorum)
PaidMet(r, listing) == 2 * Cardinality(listing) > GroupSize(r)

\* The verdict on a round with every combination of answers, timeouts and credit is
\* what the answers mean: "verified" if those who count are a quorum or a majority
\* of the paid group, "failed" only if no later answer or proof of those who do not
\* count yet could have changed it ("fail fast when both paths are impossible",
\* quorum.rs:199), and otherwise "inconclusive".
VerdictExact ==
    \A n \in Honest : round[n].pc = "network" /\ round[n].awaiting = {} =>
      \A credited \in Credits(n) :
        LET r == round[n]
            holders == Holders(r, credited)
            verdict == Evaluate(r, credited)
        IN  /\ verdict = "QuorumVerified" <=> QuorumMet(r, holders)
            /\ verdict = "PaidListVerified" <=>
                 ~QuorumMet(r, holders) /\ PaidMet(r, Confirmed(r))
            /\ verdict = "QuorumFailed" <=>
                 /\ \A more \in SUBSET (r.quorum \ (r.absent \cup holders)) :
                      ~QuorumMet(r, holders \cup more)
                 /\ \A more \in SUBSET Unconfirmed(r) :
                      ~PaidMet(r, Confirmed(r) \cup more)

=============================================================================
