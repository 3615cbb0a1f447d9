-------------------------- MODULE VerificationProofs --------------------------
(***************************************************************************)
(* Proof that no honest node lists or stores a record nobody paid for, for *)
(* every number of nodes and rounds, every threshold and every size of the *)
(* groups, as long as the faulty are no majority of those a round asks.    *)
(*                                                                         *)
(* As long as no proof of payment was verified, honest nodes have nothing  *)
(* to tell: what speaks for the key in the evidence of a round is said by  *)
(* faulty nodes, and those are too few for either kind of verdict.         *)
(***************************************************************************)
EXTENDS Verification, FiniteSetTheorems, TLAPS

\* The round has heard only faulty nodes speak for the key, has asked few of them,
\* and neither verified the key nor found it listed.
Unswayed(r) ==
    /\ r.pc \in {"idle", "network"}
    /\ r.present \subseteq Faulty /\ r.confirmed \subseteq Faulty
    /\ SoundQuorum(r.quorum) /\ SoundGroup(r.group, r.inGroup)

\* The inductive invariant.
IInv ==
    /\ TypeOK
    /\ OnlyPaidKept
    /\ ~proven => \A n \in Honest : Unswayed(round[n])

-----------------------------------------------------------------------------
(* The evidence *)

\* A round that begins is one, with nothing in its evidence.
LEMMA NewRoundType ==
  ASSUME NEW pc \in {"idle", "probe", "network", "fetch"}, NEW pipeline \in {"Replica", "PaidOnly"},
         NEW quorum \in SUBSET Nodes, NEW group \in SUBSET Nodes, NEW inGroup \in BOOLEAN
  PROVE  NewRound(pc, pipeline, quorum, group, inGroup) \in Round
  BY DEF NewRound, Round

\* So is the round of a node that runs none.
LEMMA NoRoundType == NoRound \in Round
  BY NewRoundType DEF NoRound

\* A round that begins with sound targets has not been swayed.
LEMMA NewRoundUnswayed ==
  ASSUME NEW pc \in {"idle", "network"}, NEW pipeline, NEW quorum, NEW group, NEW inGroup,
         SoundQuorum(quorum), SoundGroup(group, inGroup)
  PROVE  Unswayed(NewRound(pc, pipeline, quorum, group, inGroup))
  BY DEF NewRound, Unswayed

\* A round that asked nobody is not swayed.
LEMMA NoRoundUnswayed ==
  ASSUME quorumThreshold \in Thresholds PROVE Unswayed(NoRound)
<1>1. Cardinality({}) = 0
  BY FS_EmptySet
<1>2. quorumThreshold \in Nat \ {0}
  BY VerificationAssumption
<1>3. \A s : {} \cap s = {}
  OBVIOUS
<1>4. SoundQuorum({})
  BY <1>1, <1>2, <1>3 DEF SoundQuorum
<1>5. SoundGroup({}, FALSE)
  BY <1>1, <1>3 DEF SoundGroup
<1> QED
  BY <1>4, <1>5, NewRoundUnswayed DEF NoRound

\* Adding an answer (process_verification_response) yields a round.
LEMMA AnsweredType ==
  ASSUME NEW r \in Round, NEW p \in Nodes, NEW present \in BOOLEAN,
         NEW listed \in PaidListEvidence
  PROVE  Answered(r, p, present, listed) \in Round
<1>1. /\ r.awaiting \ {p} \subseteq Nodes
      /\ r.present \cup {p} \subseteq Nodes /\ r.absent \cup {p} \subseteq Nodes
      /\ r.confirmed \cup {p} \subseteq Nodes /\ r.notFound \cup {p} \subseteq Nodes
  BY DEF Round
<1> QED
  BY <1>1 DEF Answered, Round

\* An answer that does not speak for the key, or is of a faulty node, sways nobody.
LEMMA AnsweredUnswayed ==
  ASSUME NEW r \in Round, NEW p \in Nodes, NEW present \in BOOLEAN,
         NEW listed \in PaidListEvidence,
         Unswayed(r),
         p \in Faulty \/ (~present /\ listed # "Confirmed")
  PROVE  Unswayed(Answered(r, p, present, listed))
<1> DEFINE a == Answered(r, p, present, listed)
<1>1. /\ a.pc = r.pc /\ a.quorum = r.quorum /\ a.group = r.group /\ a.inGroup = r.inGroup
      /\ a.present = IF present THEN r.present \cup {p} ELSE r.present
      /\ a.confirmed = IF p \in r.group /\ listed = "Confirmed" THEN r.confirmed \cup {p} ELSE r.confirmed
  BY DEF Answered, Round
<1>2. a.present \subseteq Faulty /\ a.confirmed \subseteq Faulty
  BY <1>1 DEF Unswayed
<1> HIDE DEF a
<1>3. Unswayed(a)
  BY <1>1, <1>2 DEF Unswayed
<1> QED
  BY <1>3 DEF a

\* The verdict on such a round is not "verified" (evaluate_key_evidence).
LEMMA UnswayedVerdict ==
  ASSUME NEW r \in Round, NEW credited, quorumThreshold \in Thresholds, Unswayed(r)
  PROVE  Evaluate(r, credited) \notin {"QuorumVerified", "PaidListVerified"}
<1> DEFINE liars == r.quorum \cap Faulty
           listers == r.group \cap Faulty
           positive == Cardinality(Holders(r, credited))
           confirmed == Cardinality(Confirmed(r))
           q == Cardinality(r.quorum)
           size == GroupSize(r)
<1>1. r.quorum \subseteq Nodes /\ r.group \subseteq Nodes /\ r.inGroup \in BOOLEAN
  BY DEF Round
<1>2. IsFiniteSet(Nodes)
  BY VerificationAssumption
<1>3. IsFiniteSet(r.quorum) /\ IsFiniteSet(r.group) /\ IsFiniteSet(liars) /\ IsFiniteSet(listers)
  BY <1>1, <1>2, FS_Subset
<1>4. Holders(r, credited) \subseteq liars /\ Confirmed(r) \subseteq listers
  BY DEF Holders, Confirmed, Unswayed
<1>5. /\ positive \in Nat /\ confirmed \in Nat
      /\ positive <= Cardinality(liars) /\ confirmed <= Cardinality(listers)
  BY <1>3, <1>4, FS_Subset, FS_CardinalityType
<1>6. q \in Nat /\ Cardinality(r.group) \in Nat /\ Cardinality(liars) \in Nat /\ Cardinality(listers) \in Nat
  BY <1>3, FS_CardinalityType
<1>7. size \in Nat /\ 2 * Cardinality(listers) <= size
  BY <1>1, <1>6 DEF GroupSize, SoundGroup, Unswayed
<1>8. 2 * Cardinality(liars) <= q /\ Cardinality(liars) < quorumThreshold
  BY DEF SoundQuorum, Unswayed
<1>9. quorumThreshold \in Nat
  BY VerificationAssumption
<1> HIDE DEF liars, listers, positive, confirmed, q, size
<1>10. QuorumNeeded(q) > 0 => positive < QuorumNeeded(q)
  BY <1>5, <1>6, <1>8, <1>9 DEF QuorumNeeded
<1>11. confirmed < ConfirmNeeded(size)
  BY <1>5, <1>6, <1>7 DEF ConfirmNeeded
<1>12. QuorumNeeded(q) \in Nat /\ ConfirmNeeded(size) \in Nat
  BY <1>6, <1>7, <1>9 DEF QuorumNeeded, ConfirmNeeded
<1>13. ~(QuorumNeeded(q) > 0 /\ positive >= QuorumNeeded(q)) /\ ~(confirmed >= ConfirmNeeded(size))
  BY <1>5, <1>10, <1>11, <1>12
<1> QED
  BY <1>13, Zenon DEF Evaluate, positive, confirmed, q, size

-----------------------------------------------------------------------------
(* The steps *)

\* Replacing the round of one node keeps the invariant if the new one is a round,
\* and not swayed before a proof; what is stored and listed is as before.
LEMMA RoundReplaced ==
  ASSUME IInv, NEW n \in Honest, NEW r \in Round,
         ~proven => Unswayed(r),
         round' = [round EXCEPT ![n] = r],
         UNCHANGED <<stored, paid, proven, quorumThreshold>>
  PROVE  IInv'
<1>1. TypeOK'
  BY DEF IInv, TypeOK
<1>2. OnlyPaidKept'
  BY DEF IInv, OnlyPaidKept
<1>3. ASSUME ~proven', NEW m \in Honest PROVE Unswayed(round[m])'
  <2>1. round'[m] = IF m = n THEN r ELSE round[m]
    BY DEF IInv, TypeOK
  <2>2. Unswayed(round'[m])
    BY <1>3, <2>1 DEF IInv
  <2> QED
    BY <2>2 DEF Unswayed, SoundQuorum, SoundGroup
<1> QED
  BY <1>1, <1>2, <1>3 DEF IInv

\* A step that goes with a proof keeps the invariant whatever it stores and lists.
LEMMA ProvenStep ==
  ASSUME IInv, proven' = TRUE, UNCHANGED quorumThreshold,
         stored' \subseteq Honest, paid' \subseteq Honest, round' \in [Honest -> Round]
  PROVE  IInv'
  BY DEF IInv, TypeOK, OnlyPaidKept

\* A hint is taken up: the evidence is empty, and a listed key is proven.
LEMMA StartStep ==
  ASSUME IInv, NEW n \in Honest, Start(n), UNCHANGED quorumThreshold
  PROVE  IInv'
<1>1. PICK pipeline \in {"Replica", "PaidOnly"}, quorum \in SUBSET (Nodes \ {n}) :
        /\ SoundQuorum(quorum)
        /\ \/ /\ n \in paid
              /\ round' = [round EXCEPT ![n] = NewRound("probe", pipeline, quorum, {}, FALSE)]
           \/ \E group \in SUBSET (Nodes \ {n}), inGroup \in BOOLEAN :
                /\ SoundGroup(group, inGroup)
                /\ round' = [round EXCEPT ![n] =
                              NewRound("network", pipeline, quorum, group, inGroup)]
  BY DEF Start
<1>2. UNCHANGED <<stored, paid, proven, quorumThreshold>>
  BY DEF Start
<1>3. CASE /\ n \in paid
           /\ round' = [round EXCEPT ![n] = NewRound("probe", pipeline, quorum, {}, FALSE)]
  <2>1. NewRound("probe", pipeline, quorum, {}, FALSE) \in Round
    BY NewRoundType
  <2>2. proven
    BY <1>3 DEF IInv, OnlyPaidKept
  <2> QED
    BY <1>2, <1>3, <2>1, <2>2, RoundReplaced
<1>4. ASSUME NEW group \in SUBSET (Nodes \ {n}), NEW inGroup \in BOOLEAN,
             SoundGroup(group, inGroup),
             round' = [round EXCEPT ![n] = NewRound("network", pipeline, quorum, group, inGroup)]
      PROVE  IInv'
  <2>1. NewRound("network", pipeline, quorum, group, inGroup) \in Round
    BY NewRoundType
  <2>2. Unswayed(NewRound("network", pipeline, quorum, group, inGroup))
    BY <1>1, <1>4, NewRoundUnswayed
  <2> QED
    BY <1>2, <1>4, <2>1, <2>2, RoundReplaced
<1> QED
  BY <1>1, <1>3, <1>4

\* An answer arrives: an honest node has nothing to tell before a proof.
LEMMA AnswerStep ==
  ASSUME IInv, NEW n \in Honest, NEW p \in Nodes, Answer(n, p), UNCHANGED quorumThreshold
  PROVE  IInv'
<1>1. PICK present \in BOOLEAN, listed \in PaidListEvidence :
        /\ p \in Honest => /\ present <=> p \in stored
                           /\ listed = IF p \in paid THEN "Confirmed" ELSE "NotFound"
        /\ round' = [round EXCEPT ![n] = Answered(round[n], p, present, listed)]
  BY DEF Answer
<1>2. round[n] \in Round
  BY DEF IInv, TypeOK
<1>3. Answered(round[n], p, present, listed) \in Round
  BY <1>2, AnsweredType
<1>4. ASSUME ~proven PROVE Unswayed(Answered(round[n], p, present, listed))
  <2>1. p \in Faulty \/ (~present /\ listed # "Confirmed")
    BY <1>1, <1>4 DEF IInv, OnlyPaidKept, Honest
  <2>2. Unswayed(round[n])
    BY <1>4 DEF IInv
  <2> QED
    BY <1>2, <2>1, <2>2, AnsweredUnswayed
<1>5. UNCHANGED <<stored, paid, proven, quorumThreshold>>
  BY DEF Answer
<1> QED
  BY <1>1, <1>3, <1>4, <1>5, RoundReplaced

\* No answer arrives: the evidence stays.
LEMMA NoAnswerStep ==
  ASSUME IInv, NEW n \in Honest, NEW p \in Nodes, NoAnswer(n, p), UNCHANGED quorumThreshold
  PROVE  IInv'
<1> DEFINE r == [round[n] EXCEPT !.awaiting = @ \ {p}]
<1>1. round[n] \in Round
  BY DEF IInv, TypeOK
<1>2. r \in Round
  <2>1. round[n].awaiting \ {p} \subseteq Nodes
    BY <1>1 DEF Round
  <2> QED
    BY <1>1, <2>1 DEF Round
<1>3. /\ r.pc = round[n].pc /\ r.present = round[n].present /\ r.confirmed = round[n].confirmed
      /\ r.quorum = round[n].quorum /\ r.group = round[n].group /\ r.inGroup = round[n].inGroup
  BY <1>1 DEF Round
<1>4. round' = [round EXCEPT ![n] = r] /\ UNCHANGED <<stored, paid, proven, quorumThreshold>>
  BY DEF NoAnswer, IInv, TypeOK
<1> HIDE DEF r
<1>5. ~proven => Unswayed(r)
  BY <1>3 DEF IInv, Unswayed
<1> QED
  BY <1>2, <1>4, <1>5, RoundReplaced

\* What ToFetch yields is a round.
LEMMA ToFetchType ==
  ASSUME NEW n \in Honest, round[n] \in Round
  PROVE  ToFetch(n) \in Round
<1>1. Sources(round[n]) \subseteq Nodes
  BY DEF Sources, Round
<1>2. [NoRound EXCEPT !.pc = "fetch", !.quorum = Sources(round[n]),
                       !.present = Sources(round[n])] \in Round
  BY <1>1, NoRoundType DEF Round
<1> QED
  BY <1>2, NoRoundType DEF ToFetch

\* The end of a probe, which there is none of before a proof.
LEMMA ProbeEndsStep ==
  ASSUME IInv, NEW n \in Honest, ProbeEnds(n), UNCHANGED quorumThreshold
  PROVE  IInv'
<1>1. proven
  BY DEF IInv, ProbeEnds, Unswayed
<1>2. (IF n \in stored THEN NoRound ELSE ToFetch(n)) \in Round
  BY NoRoundType, ToFetchType DEF IInv, TypeOK
<1> QED
  BY <1>1, <1>2, RoundReplaced DEF ProbeEnds

\* The end of a round: before a proof it verifies nothing.
LEMMA NetworkEndsStep ==
  ASSUME IInv, NEW n \in Honest, NetworkEnds(n), UNCHANGED quorumThreshold
  PROVE  IInv'
<1>1. round[n] \in Round /\ quorumThreshold \in Thresholds
  BY DEF IInv, TypeOK
<1>2. CASE proven
  <2>1. ToFetch(n) \in Round
    BY <1>1, ToFetchType
  <2>2. round' = [round EXCEPT ![n] = NoRound] \/ round' = [round EXCEPT ![n] = ToFetch(n)]
    BY DEF NetworkEnds
  <2>3. round' \in [Honest -> Round]
    BY <2>1, <2>2, NoRoundType DEF IInv, TypeOK
  <2>4. stored' \subseteq Honest /\ paid' \subseteq Honest /\ proven' = TRUE
    BY <1>2 DEF NetworkEnds, IInv, TypeOK
  <2> QED
    BY <2>3, <2>4, ProvenStep
<1>3. CASE ~proven
  <2>1. Unswayed(round[n])
    BY <1>3 DEF IInv
  <2>2. \A credited : Evaluate(round[n], credited) \notin {"QuorumVerified", "PaidListVerified"}
    BY <1>1, <2>1, UnswayedVerdict
  <2>3. round' = [round EXCEPT ![n] = NoRound] /\ UNCHANGED <<stored, paid, proven>>
    BY <2>2 DEF NetworkEnds
  <2> QED
    BY <1>1, <2>3, NoRoundType, NoRoundUnswayed, RoundReplaced
<1> QED
  BY <1>2, <1>3

\* A fetch ends, which there is none of before a proof.
LEMMA FetchStep ==
  ASSUME IInv, NEW n \in Honest, Fetch(n), UNCHANGED quorumThreshold
  PROVE  IInv'
<1>1. proven' = TRUE
  BY DEF IInv, TypeOK, Fetch, Unswayed
<1>2. round' \in [Honest -> Round]
  BY NoRoundType DEF Fetch, IInv, TypeOK
<1>3. stored' \subseteq Honest /\ paid' \subseteq Honest
  BY DEF Fetch, IInv, TypeOK
<1> QED
  BY <1>1, <1>2, <1>3, ProvenStep

\* Every step keeps the invariant.
LEMMA StepKeepsIInv ==
  ASSUME IInv, [Next]_vars PROVE IInv'
<1>1. CASE UNCHANGED vars
  BY <1>1 DEF vars, IInv, TypeOK, OnlyPaidKept, Unswayed, SoundQuorum, SoundGroup
<1>2. ASSUME NEW n \in Honest, UNCHANGED quorumThreshold,
             HandlePut(n) \/ HandleFreshOffer(n) \/ HandlePaidNotify(n) \/ ReplicateFresh(n)
      PROVE  IInv'
  <2>1. proven' = TRUE
    BY <1>2 DEF HandlePut, HandleFreshOffer, HandlePaidNotify, ReplicateFresh, IInv, TypeOK
  <2>2. stored' \subseteq Honest /\ paid' \subseteq Honest /\ round' \in [Honest -> Round]
    BY <1>2 DEF HandlePut, HandleFreshOffer, HandlePaidNotify, ReplicateFresh, IInv, TypeOK
  <2> QED
    BY <1>2, <2>1, <2>2, ProvenStep
<1>3. ASSUME NEW n \in Honest, UNCHANGED quorumThreshold, PruneRecord(n) \/ PruneEntry(n)
      PROVE  IInv'
  <2>1. proven' = TRUE
    BY <1>3 DEF PruneRecord, PruneEntry, IInv, TypeOK, OnlyPaidKept
  <2>2. stored' \subseteq Honest /\ paid' \subseteq Honest /\ round' \in [Honest -> Round]
    BY <1>3 DEF PruneRecord, PruneEntry, IInv, TypeOK
  <2> QED
    BY <1>3, <2>1, <2>2, ProvenStep
<1>4. CASE Next
  BY <1>2, <1>3, <1>4, StartStep, AnswerStep, NoAnswerStep, ProbeEndsStep, NetworkEndsStep,
     FetchStep DEF Next
<1> QED
  BY <1>1, <1>4

\* The inductive invariant holds in every state of every behaviour.
THEOREM IInvAlways == Spec => []IInv
<1>1. Init => IInv
  <2> SUFFICES ASSUME Init PROVE IInv
    OBVIOUS
  <2>1. TypeOK
    BY NoRoundType DEF Init, TypeOK
  <2>2. OnlyPaidKept
    BY DEF Init, OnlyPaidKept
  <2>3. \A n \in Honest : Unswayed(round[n])
    BY NoRoundUnswayed DEF Init
  <2> QED
    BY <2>1, <2>2, <2>3 DEF IInv
<1>2. IInv /\ [Next]_vars => IInv'
  BY StepKeepsIInv
<1> QED
  BY <1>1, <1>2, PTL DEF Spec

\* For every set of nodes, every threshold and any number of concurrent rounds: as
\* long as the faulty are no majority of those a round asks, no honest node lists
\* or stores a record for which no proof of payment was verified
\* (run_verification_cycle, evaluate_key_evidence_with_holder_check).
THEOREM OnlyPaidKeptAlways == Spec => []OnlyPaidKept
<1>1. IInv => OnlyPaidKept
  BY DEF IInv
<1> QED
  BY <1>1, IInvAlways, PTL

=============================================================================
