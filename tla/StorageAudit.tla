----------------------------- MODULE StorageAudit -----------------------------
(***************************************************************************)
(* The storage audit of one peer by this node.  The peer gossips and       *)
(* quotes its storage commitment (CommitmentState); this node remembers    *)
(* the commitment it received last (ingest_peer_commitment in              *)
(* replication/mod.rs), audits it now and then, and audits once each one a *)
(* client paid for (start_first_audit_drainer).  An audit, in              *)
(* replication/storage_commitment_audit.rs, asks for a subtree of the      *)
(* commitment and then for the bytes of a sample, in batches.              *)
(*                                                                         *)
(* The peer runs this code too, but for an answer that shows another       *)
(* commitment than the one asked for.  Its disk may lose records; its      *)
(* clock differs by up to MaxSkew; its answers may be lost or refused for  *)
(* want of a slot (AuditAdmission).  A sync message, and an audit from its *)
(* first request to its last answer, take up to MaxDelay: requests time    *)
(* out after seconds, the TTL is hours.                                    *)
(***************************************************************************)
EXTENDS CommitmentState

CONSTANTS
    AUDIT_COOLDOWN,             \* AUDIT_ON_GOSSIP_COOLDOWN_SECS
    SKEW_MARGIN,                \* MONETIZED_AUDIT_SKEW_MARGIN
    MAX_BYTE_CHALLENGE_KEYS,
    MaxSkew,                    \* between the clocks of the two nodes
    MaxDelay,                   \* of a sync message, and of an audit
    MaxAudits,                  \* bound on the audits under way
    MaxOffers                   \* bound on the commitments quoted, or paid for and
                                \* not audited yet

ASSUME AuditAssumption ==
    /\ IsFiniteSet(Keys)
    /\ AUDIT_COOLDOWN \in Nat \ {0}
    /\ MaxSkew \in Nat /\ MaxDelay \in Nat
    /\ SKEW_MARGIN \in Nat /\ MaxSkew + MaxDelay <= SKEW_MARGIN
    /\ SKEW_MARGIN < GOSSIP_ANSWERABILITY_TTL
    /\ 2 * MaxDelay < GOSSIP_ANSWERABILITY_TTL
    /\ MAX_BYTE_CHALLENGE_KEYS \in Nat \ {0}
    /\ MaxAudits \in Nat \ {0} /\ MaxOffers \in Nat \ {0}

VARIABLES
    damaged,         \* the keys whose bytes the peer's disk lost
    boot,            \* is_bootstrapping of the peer
    sync,            \* a sync message of the peer
    quotes,          \* age of the last quote for a commitment clients have
    known,           \* PeerCommitmentRecord: the commitment, its age
    clearing,        \* handle_commitment_downgrade found it too old
    cooldown,        \* audit_on_gossip_cooldown: time until the next audit
    pending,         \* the monetized pin that awaits its first audit
    firstAudited,    \* pins that had it
    audits,          \* the audits under way
    credit,          \* recent_provers: the commitments proven by audits
    claim            \* the peer's bootstrap claim: none was seen, one is active,
                     \* or only its history is left

peerVars == <<damaged, boot>>
auditVars == <<cooldown, audits>>
firstVars == <<pending, firstAudited>>
vars == <<commitmentVars, peerVars, sync, quotes, known, clearing,
          auditVars, firstVars, credit, claim>>

NoMessage == [sent |-> FALSE, pin |-> None, boot |-> FALSE, late |-> 0]
NoRecord == [pin |-> None, age |-> 0]
NoPin == [pin |-> None, age |-> 0]

Init ==
    /\ CommitmentInit
    /\ damaged = {}
    /\ boot = TRUE
    /\ sync = NoMessage
    /\ quotes = [h \in Hashes |-> None]
    /\ known = NoRecord
    /\ clearing = FALSE
    /\ cooldown = 0
    /\ pending = NoPin /\ firstAudited = {}
    /\ audits = {}
    /\ credit = {}
    /\ claim = "none"

-----------------------------------------------------------------------------
(* The peer *)

\* A hash nobody remembers.
Unused(h) ==
    /\ Fresh(h)
    /\ h \notin {known.pin, pending.pin, sync.pin} \cup credit \cup {a.pin : a \in audits}
    /\ quotes[h] = None

\* rebuild_and_rotate_commitment over the records that are left; a commitment is
\* signed anew only if they changed.  A node without records clears everything.
PeerRotates ==
    /\ IF damaged = Keys
       THEN ClearAll /\ UNCHANGED firstAudited
       ELSE \/ (RetireCurrent \/ AgeOut) /\ UNCHANGED firstAudited
            \/ /\ current # None => leaves[current] # Keys \ damaged
               /\ \E h \in Hashes : /\ Unused(h)
                                    /\ Rotate(h, Keys \ damaged)
                                    /\ firstAudited' = firstAudited \ {h}
    /\ UNCHANGED <<peerVars, sync, quotes, known, clearing, auditVars, pending,
                   credit, claim>>

PeerLosesRecord(k) ==
    /\ k \notin damaged
    /\ damaged' = damaged \cup {k}
    /\ UNCHANGED <<commitmentVars, boot, sync, quotes, known, clearing,
                   auditVars, firstVars, credit, claim>>

\* complete_bootstrap at the peer, once
PeerBootstrapped ==
    /\ boot
    /\ boot' = FALSE
    /\ UNCHANGED <<commitmentVars, damaged, sync, quotes, known, clearing,
                   auditVars, firstVars, credit, claim>>

\* The peer's sync request or response, with its commitment if it has one.
PeerSyncs ==
    /\ ~sync.sent
    /\ sync' = [sent |-> TRUE, pin |-> current, boot |-> boot, late |-> 0]
    /\ IF current = None THEN UNCHANGED commitmentVars ELSE EmitCurrent
    /\ UNCHANGED <<peerVars, quotes, known, clearing, auditVars, firstVars, credit,
                   claim>>

\* The peer's quote to a client.
PeerQuotes ==
    /\ EmitCurrent
    /\ Cardinality({h \in Hashes \ {current} : quotes[h] # None})
         + (IF pending.pin = None THEN 0 ELSE 1) < MaxOffers
    /\ quotes' = [quotes EXCEPT ![current] = 0]
    /\ UNCHANGED <<peerVars, sync, known, clearing, auditVars, firstVars, credit,
                   claim>>

-----------------------------------------------------------------------------
(* Bootstrap claims.  The age of a claim is left out: past its grace period an *)
(* active one is reported, which changes nothing here.                         *)

\* observe_bootstrap_claim: with only history left, the claim is a repeated one.
ObserveClaim == claim' = IF claim = "none" THEN "active" ELSE claim

\* clear_active_bootstrap_claim
ClearClaim == claim' = IF claim = "active" THEN "cleared" ELSE claim

\* Answers to the challenges of the other tasks: responsible-chunk audits, prune
\* audits and possession checks.
OtherTaskAnswered ==
    /\ IF boot THEN ObserveClaim ELSE ClearClaim
    /\ UNCHANGED <<commitmentVars, peerVars, sync, quotes, known, clearing, auditVars,
                   firstVars, credit>>

-----------------------------------------------------------------------------
(* Gossip *)

\* cooldown_allows_audit, audit_launch_decision: a lost lottery uses the window up.
NewAudit(pin, via) ==
    [pin |-> pin, via |-> via, shown |-> None, todo |-> {}, round |-> 1, late |-> 0]

MaybeTriggerGossipAudit(pin, via) ==
    IF cooldown > 0 THEN UNCHANGED auditVars
    ELSE /\ cooldown' = AUDIT_COOLDOWN
         /\ \/ UNCHANGED audits
            \/ Cardinality(audits) < MaxAudits /\ audits' = audits \cup {NewAudit(pin, via)}

\* handle_commitment_downgrade: the commitment received last is still answerable.
Auditable(record) == record.pin # None /\ record.age < TTL

\* The commitment in a sync message, or that there is none: ingest_peer_commitment.
IngestPeerCommitment ==
    IF sync.pin # None
    THEN /\ known' = [pin |-> sync.pin, age |-> 0]
         /\ MaybeTriggerGossipAudit(sync.pin, "gossip")
         /\ UNCHANGED clearing
    ELSE /\ UNCHANGED known
         /\ IF Auditable(known) THEN MaybeTriggerGossipAudit(known.pin, "downgrade")
                                ELSE UNCHANGED auditVars
         /\ clearing' = (clearing \/ (known.pin # None /\ ~Auditable(known)))

\* A sync request is handled; or a response, which also tells whether the peer
\* bootstraps.
HandleSync ==
    /\ sync.sent
    /\ sync' = NoMessage
    /\ IngestPeerCommitment
    /\ \/ UNCHANGED claim
       \/ IF sync.boot THEN ObserveClaim ELSE ClearClaim
    /\ UNCHANGED <<commitmentVars, peerVars, quotes, firstVars, credit>>

\* It is lost, or its commitment dropped: the peer is not in the routing table, or
\* sent another less than COMMITMENT_SIG_VERIFY_MIN_INTERVAL ago.
DropSync ==
    /\ sync.sent
    /\ sync' = NoMessage
    /\ UNCHANGED <<commitmentVars, peerVars, quotes, known, clearing, auditVars,
                   firstVars, credit, claim>>

\* Defect: the age is not looked at again.
StillStaleAlways == TRUE

\* The age of the record once it is locked.
StillStale == known.age >= TTL

\* The commitment found too old is forgotten, under a second lock.
ClearStale ==
    /\ clearing
    /\ clearing' = FALSE
    /\ known' = IF StillStale THEN NoRecord ELSE known
    /\ UNCHANGED <<commitmentVars, peerVars, sync, quotes, auditVars, firstVars, credit,
                   claim>>

\* PeerRemoved, when the peer leaves the routing table
PeerRemoved ==
    /\ known' = NoRecord
    /\ credit' = {}
    /\ cooldown' = 0
    /\ UNCHANGED <<commitmentVars, peerVars, sync, quotes, clearing, audits, firstVars,
                   claim>>

-----------------------------------------------------------------------------
(* The first audit of a commitment that was paid for *)

\* Defect: a pin that had its audit replaces one that has not.
QueuedAgain(pin) == TRUE

Queued(pin) == pin \notin firstAudited

\* A client pays for a quote, which may be old; the newest pin is the one pending.
Monetize(h) ==
    /\ quotes[h] # None
    /\ quotes' = [quotes EXCEPT ![h] = None]
    /\ pending' = IF Queued(h) THEN [pin |-> h, age |-> quotes[h]] ELSE pending
    /\ UNCHANGED <<commitmentVars, peerVars, sync, known, clearing, auditVars,
                   firstAudited, credit, claim>>

\* Defect: no margin is left for the clocks and the audit.
QuoteWithinAuditWindowExact(age, skew) == age + skew < TTL

\* quote_within_audit_window, by the clock of this node, which is ahead of the
\* peer's by skew
QuoteWithinAuditWindow(age, skew) ==
    age + skew >= -SKEW_MARGIN /\ age + skew < TTL - SKEW_MARGIN

\* The drainer looks at the pending pin: it had its audit, or is too old, or waits
\* for the cooldown, or is audited.
DrainPending ==
    /\ pending.pin # None
    /\ \E skew \in -MaxSkew..MaxSkew :
       IF pending.pin \in firstAudited \/ ~QuoteWithinAuditWindow(pending.age, skew)
       THEN pending' = NoPin /\ UNCHANGED <<auditVars, firstAudited>>
       ELSE /\ cooldown = 0 /\ Cardinality(audits) < MaxAudits
            /\ cooldown' = AUDIT_COOLDOWN
            /\ firstAudited' = firstAudited \cup {pending.pin}
            /\ audits' = audits \cup {NewAudit(pending.pin, "quote")}
            /\ pending' = NoPin
    /\ UNCHANGED <<commitmentVars, peerVars, sync, quotes, known, clearing, credit,
                   claim>>

-----------------------------------------------------------------------------
(* The audit *)

End(a) == audits' = audits \ {a} /\ UNCHANGED cooldown

\* handle_subtree_failed_audit: a confirmed failure
Confirmed(a) == End(a) /\ credit' = {} /\ ClearClaim

\* Defect: a timeout, too, ends the claim.
NoAnswerClears(a) == End(a) /\ UNCHANGED credit /\ ClearClaim

\* The timeout lane: the answer is late or lost, or the peer has no slot for it.
NoAnswer(a) == End(a) /\ UNCHANGED <<credit, claim>>

\* A read failed over and over: the credit for the commitment goes.
TransientReject(a) == End(a) /\ credit' = credit \ {a.pin} /\ UNCHANGED claim

\* The peer says that it bootstraps.
BootstrapClaim(a) == End(a) /\ UNCHANGED credit /\ ObserveClaim

\* get_raw_retrying, for every key: the bytes, or one is missing, or a read failed.
Reads(keys) == {IF keys \cap damaged = {} THEN "bytes" ELSE "missing", "error"}

\* The leaves a nonce may select (SubtreeProof says which); there are none left of
\* a commitment the peer dropped.
Selections(pin) == IF pin \in slots THEN SUBSET leaves[pin] \ {{}} ELSE {{}}

\* handle_subtree_challenge at the peer
SubtreeAnswers(pin, selected) ==
    IF boot THEN {"bootstrapping"}
    ELSE IF pin \notin slots THEN {"unknown"}
    ELSE Reads(selected)

\* handle_subtree_byte_challenge at the peer
ByteAnswers(pin, batch) ==
    IF boot THEN {"bootstrapping"}
    ELSE IF pin \notin slots THEN {"unknown"}
    ELSE IF Cardinality(batch) > MAX_BYTE_CHALLENGE_KEYS THEN {"rejected"}
    ELSE IF ~(batch \subseteq leaves[pin]) THEN {"missing"}
    ELSE Reads(batch)

\* grade_reject, and a key the peer says is missing: what counts as a failure.
IsConfirmed(answer) == answer \in {"unknown", "rejected", "missing"}

\* Defect: the hash of the commitment shown is not compared.
StructureOKAny(a, c) == TRUE

\* evaluate_subtree_structure: the commitment shown is the one asked for.
StructureOK(a, c) == c = a.pin

\* random_spotcheck_leaves: a sample of the proven leaves is opened next.
SecondRound(a, c, selected) ==
    /\ \E sample \in SUBSET selected \ {{}} :
         audits' = (audits \ {a}) \cup {[a EXCEPT !.round = 2, !.shown = c, !.todo = sample]}
    /\ UNCHANGED <<cooldown, credit, claim>>

\* The first round.  A peer that does not run this code may show another of its
\* commitments, once it does not bootstrap.
AuditStructure(a) ==
    /\ a.round = 1
    /\ \/ NoAnswer(a)
       \/ \E selected \in Selections(a.pin) : \E answer \in SubtreeAnswers(a.pin, selected) :
            \/ answer = "bootstrapping" /\ BootstrapClaim(a)
            \/ IsConfirmed(answer) /\ Confirmed(a)
            \/ answer = "error" /\ TransientReject(a)
            \/ answer = "bytes" /\ StructureOK(a, a.pin) /\ SecondRound(a, a.pin, selected)
       \/ \E c \in slots \ {a.pin} :
            /\ ~boot
            /\ \/ ~StructureOK(a, c) /\ Confirmed(a)
               \/ StructureOK(a, c) /\ \E selected \in Selections(c) : SecondRound(a, c, selected)

\* record_proof, for the leaves of the commitment shown
Proven(a) == {a.shown}

\* The batches of a sample, in any order.
Batches(todo) ==
    {batch \in SUBSET todo :
        Cardinality(batch) = IF Cardinality(todo) < MAX_BYTE_CHALLENGE_KEYS
                             THEN Cardinality(todo) ELSE MAX_BYTE_CHALLENGE_KEYS}

\* The second round, verify_subtree_response: one batch of the sample.
AuditBytes(a) ==
    /\ a.round = 2
    /\ \/ NoAnswer(a)
       \/ \E batch \in Batches(a.todo) : \E answer \in ByteAnswers(a.pin, batch) :
            \/ IsConfirmed(answer) /\ Confirmed(a)
            \/ answer = "error" /\ TransientReject(a)
            \/ /\ answer = "bytes" /\ batch # a.todo
               /\ audits' = (audits \ {a}) \cup {[a EXCEPT !.todo = @ \ batch]}
               /\ UNCHANGED <<cooldown, credit, claim>>
            \/ /\ answer = "bytes" /\ batch = a.todo
               /\ End(a)
               /\ credit' = credit \cup Proven(a)
               /\ ClearClaim

Audit(a) ==
    /\ AuditStructure(a) \/ AuditBytes(a)
    /\ UNCHANGED <<commitmentVars, peerVars, sync, quotes, known, clearing, firstVars>>

-----------------------------------------------------------------------------

\* An age counts up to the end of the answerability window; that of a quote, until it
\* is out of the audit window by any clock.
Older(age, limit) == IF age = None \/ age >= limit THEN age ELSE age + 1
QuoteLimit == TTL - SKEW_MARGIN + MaxSkew

\* A unit of time passes, while what is on its way is not overdue.  The two locks of
\* handle_commitment_downgrade compare with one reading of the clock.
Tick ==
    /\ ~clearing
    /\ sync.sent => sync.late < MaxDelay
    /\ \A a \in audits : a.late < MaxDelay
    /\ TimePasses
    /\ sync' = [sync EXCEPT !.late = IF sync.sent THEN @ + 1 ELSE 0]
    /\ audits' = {[a EXCEPT !.late = @ + 1] : a \in audits}
    /\ quotes' = [h \in Hashes |-> Older(quotes[h], QuoteLimit)]
    /\ known' = [known EXCEPT !.age = IF known.pin = None THEN 0 ELSE Older(@, TTL)]
    /\ pending' = [pending EXCEPT !.age = IF pending.pin = None THEN 0 ELSE Older(@, QuoteLimit)]
    /\ cooldown' = Less(cooldown)
    /\ UNCHANGED <<peerVars, clearing, firstAudited, credit, claim>>

Next ==
    \/ PeerRotates \/ PeerBootstrapped \/ PeerSyncs \/ PeerQuotes \/ OtherTaskAnswered
    \/ \E k \in Keys : PeerLosesRecord(k)
    \/ HandleSync \/ DropSync \/ ClearStale \/ PeerRemoved
    \/ \E h \in Hashes : Monetize(h)
    \/ DrainPending
    \/ \E a \in audits : Audit(a)
    \/ Tick

Spec == Init /\ [][Next]_vars

-----------------------------------------------------------------------------
(* Properties *)

\* Every variable has the shape of the code's.
TypeOK ==
    /\ CommitmentTypeOK
    /\ damaged \subseteq Keys
    /\ known.pin \in Hashes \cup {None} /\ known.age \in 0..TTL
    /\ cooldown \in 0..AUDIT_COOLDOWN
    /\ firstAudited \subseteq Hashes /\ credit \subseteq Hashes
    /\ claim \in {"none", "active", "cleared"}
    /\ audits \subseteq [pin : Hashes, via : {"gossip", "downgrade", "quote"},
                         shown : Hashes \cup {None}, todo : SUBSET Keys,
                         round : {1, 2}, late : 0..MaxDelay]

\* The peer has the records of a commitment, or at least some record when it
\* dropped the commitment.
Intact(pin) == damaged # Keys /\ leaves[pin] \cap damaged = {}

\* What the peer would answer to an audit now counts as a failure.
WouldFail(a) ==
    IF a.round = 1
    THEN \E selected \in Selections(a.pin) : \E answer \in SubtreeAnswers(a.pin, selected) :
           IsConfirmed(answer)
    ELSE \E batch \in Batches(a.todo) : \E answer \in ByteAnswers(a.pin, batch) :
           IsConfirmed(answer)

\* "An honest node can always answer a pin it could be challenged on"
\* (storage_commitment_audit.rs:393): no audit fails a peer that has the records it
\* committed to.
HonestAlwaysAnswers == \A a \in audits : WouldFail(a) => ~Intact(a.pin)

\* The same of the audits that gossip or a payment launched, however the commitments
\* rotate, the clocks differ and messages and answers are delayed; and of those the
\* end of a peer's gossip launched, as long as the peer answers by its own clock.
HonestNotPenalized ==
    \A a \in audits : WouldFail(a) /\ Intact(a.pin) =>
        a.via = "downgrade" /\ promised[a.pin] = 0

\* "A Timeout does not [clear the claim] (the peer may still be legitimately
\* bootstrapping)" (mod.rs:4225): whatever tasks ask a bootstrapping peer, and
\* however many answers are lost, its next claim is not counted as a repeated one.
ClaimNotRepeated == boot => claim # "cleared"

\* A commitment is credited only by an audit of that commitment, whatever the peer
\* shows or gossiped since; and a stale audit "cannot erase credit re-earned for a
\* newer one" (storage_commitment_audit.rs:411), short of a confirmed failure.
CreditFromAudit ==
    [][/\ \A h \in credit' \ credit : \E a \in audits : a.pin = h /\ a.round = 2
       /\ \A h \in credit \ credit' : credit' = {} \/ \E a \in audits : a.pin = h]_vars

\* A commitment that can still be audited is not forgotten when an older one was
\* found too old, between the two locks (mod.rs:4632).
FreshPinKept ==
    [][known.pin # None /\ known'.pin = None => known.age >= TTL \/ PeerRemoved]_vars

\* "An unaudited monetized pin is never silently forgotten" (mod.rs:832): it is
\* audited, or too old, or a client pays for another one of the peer that was not
\* audited either.
FirstAuditOwed ==
    [][pending.pin # None /\ pending'.pin # pending.pin =>
         \/ pending.pin \in firstAudited'
         \/ pending'.pin # None /\ pending'.pin \notin firstAudited
         \/ ~QuoteWithinAuditWindow(pending.age, MaxSkew)]_vars

=============================================================================
