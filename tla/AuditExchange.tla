----------------------------- MODULE AuditExchange -----------------------------
(***************************************************************************)
(* Nodes that sync with and audit each other: the serial message loop      *)
(* (start_message_handler, handle_replication_message), the sync loop and  *)
(* the audit loop of every node, around its sync_history lock.             *)
(*                                                                         *)
(* The audit loop holds sync_history for reading while it waits for the    *)
(* answer; the handler of a sync request and the sync loop take it for     *)
(* writing.  Audit challenges are answered by a task of their own, but     *)
(* have to get to the front of the loop first.  Nothing is lost and all    *)
(* that can go on does so before time passes: a node is slow only because  *)
(* it waits.                                                               *)
(***************************************************************************)
EXTENDS Integers, Sequences, SequencesExt

CONSTANTS
    Nodes,
    None,
    AUDIT_RESPONSE_TIMEOUT,
    MaxInbox                    \* bound on the messages that await a loop

VARIABLES
    inbox,      \* messages that await the loop of a node
    loop,       \* the loop is "idle" or awaits "history"
    tasks,      \* the nodes whose challenges are being answered
    syncing,    \* the sync loop is "idle", awaits the "answer" or "history"
    audit,      \* the audit a node waits for: peer and time left, or None
    failed      \* history: auditor and peer of the audits that timed out

vars == <<inbox, loop, tasks, syncing, audit, failed>>

Init ==
    /\ inbox = [n \in Nodes |-> <<>>]
    /\ loop = [n \in Nodes |-> "idle"]
    /\ tasks = [n \in Nodes |-> {}]
    /\ syncing = [n \in Nodes |-> "idle"]
    /\ audit = [n \in Nodes |-> None]
    /\ failed = {}

Sync(n) == [kind |-> "sync", from |-> n]
Challenge(n) == [kind |-> "challenge", from |-> n]

Send(to, message) ==
    /\ Len(inbox[to]) < MaxInbox
    /\ inbox' = [inbox EXCEPT ![to] = Append(@, message)]

AwaitsHistory(n) == loop[n] = "history" \/ syncing[n] = "history"

-----------------------------------------------------------------------------

\* run_neighbor_sync_round sends a request.
SyncStart(n, p) ==
    /\ syncing[n] = "idle"
    /\ Send(p, Sync(n))
    /\ syncing' = [syncing EXCEPT ![n] = "answer"]
    /\ UNCHANGED <<loop, tasks, audit, failed>>

\* handle_neighbor_sync_request: the answer is sent, then the history is due.
HandleSync(n) ==
    /\ loop[n] = "idle" /\ inbox[n] # <<>>
    /\ LET message == Head(inbox[n])
       IN  /\ message.kind = "sync"
           /\ syncing' = [syncing EXCEPT ![message.from] = "history"]
    /\ loop' = [loop EXCEPT ![n] = "history"]
    /\ inbox' = [inbox EXCEPT ![n] = Tail(@)]
    /\ UNCHANGED <<tasks, audit, failed>>

\* Once no audit holds the history it is written, and the loop goes on.
LoopWrites(n) ==
    /\ loop[n] = "history" /\ audit[n] = None
    /\ loop' = [loop EXCEPT ![n] = "idle"]
    /\ UNCHANGED <<inbox, tasks, syncing, audit, failed>>

\* handle_sync_response
SyncWrites(n) ==
    /\ syncing[n] = "history" /\ audit[n] = None
    /\ syncing' = [syncing EXCEPT ![n] = "idle"]
    /\ UNCHANGED <<inbox, loop, tasks, audit, failed>>

\* The history is locked for reading, which waits for the writers before it, and
\* a peer is challenged.
AuditStart(n, p) ==
    /\ audit[n] = None /\ ~AwaitsHistory(n)
    /\ Send(p, Challenge(n))
    /\ audit' = [audit EXCEPT ![n] = [peer |-> p, left |-> AUDIT_RESPONSE_TIMEOUT]]
    /\ UNCHANGED <<loop, tasks, syncing, failed>>

\* A challenge is handed to a task.
HandleChallenge(n) ==
    /\ loop[n] = "idle" /\ inbox[n] # <<>>
    /\ Head(inbox[n]).kind = "challenge"
    /\ tasks' = [tasks EXCEPT ![n] = @ \cup {Head(inbox[n]).from}]
    /\ inbox' = [inbox EXCEPT ![n] = Tail(@)]
    /\ UNCHANGED <<loop, syncing, audit, failed>>

\* handle_audit_challenge_msg: the answer ends the audit.
AnswerChallenge(n, from) ==
    /\ from \in tasks[n]
    /\ tasks' = [tasks EXCEPT ![n] = @ \ {from}]
    /\ audit' = [audit EXCEPT ![from] = None]
    /\ UNCHANGED <<inbox, loop, syncing, failed>>

\* handle_audit_timeout.  A challenge that was not answered goes with it: its
\* answer would reach nobody.
AuditTimesOut(n) ==
    /\ audit[n] # None /\ audit[n].left = 0
    /\ LET p == audit[n].peer
       IN  /\ failed' = failed \cup {<<n, p>>}
           /\ inbox' = [inbox EXCEPT ![p] = SelectSeq(@, LAMBDA m : m # Challenge(n))]
           /\ tasks' = [tasks EXCEPT ![p] = @ \ {n}]
    /\ audit' = [audit EXCEPT ![n] = None]
    /\ UNCHANGED <<loop, syncing>>

\* A node could do something now.
Busy(n) ==
    \/ loop[n] = "idle" /\ inbox[n] # <<>>
    \/ tasks[n] # {}
    \/ AwaitsHistory(n) /\ audit[n] = None
    \/ audit[n] # None /\ audit[n].left = 0

Tick ==
    /\ \A n \in Nodes : ~Busy(n)
    /\ \E n \in Nodes : audit[n] # None
    /\ audit' = [n \in Nodes |-> IF audit[n] = None THEN None
                                 ELSE [audit[n] EXCEPT !.left = @ - 1]]
    /\ UNCHANGED <<inbox, loop, tasks, syncing, failed>>

Step(n) ==
    \/ HandleSync(n) \/ LoopWrites(n) \/ SyncWrites(n)
    \/ HandleChallenge(n) \/ \E from \in Nodes : AnswerChallenge(n, from)
    \/ AuditTimesOut(n)

Next ==
    \/ \E n \in Nodes : Step(n) \/ \E p \in Nodes \ {n} : SyncStart(n, p) \/ AuditStart(n, p)
    \/ Tick

Spec == Init /\ [][Next]_vars

-----------------------------------------------------------------------------
(* Properties *)

\* Every variable has its type, a node waits only for what was sent: an audit has
\* its challenge under way, and a sync its request.
TypeOK ==
    /\ loop \in [Nodes -> {"idle", "history"}]
    /\ syncing \in [Nodes -> {"idle", "answer", "history"}]
    /\ tasks \in [Nodes -> SUBSET Nodes]
    /\ \A n, p \in Nodes :
         /\ (Challenge(n) \in Range(inbox[p]) \/ n \in tasks[p])
              <=> audit[n] # None /\ audit[n].peer = p
         /\ Sync(n) \in Range(inbox[p]) => syncing[n] = "answer"

\* "Nodes that advertise audit support MUST produce valid responses within
\* AUDIT_RESPONSE_TIMEOUT" (docs/REPLICATION_DESIGN.md:470).
AnsweredInTime == failed = {}

=============================================================================
