----------------------------- MODULE NeighborSync -----------------------------
(***************************************************************************)
(* The round-robin of neighbor sync: NeighborSyncState in types.rs, the    *)
(* batch selection of neighbor_sync.rs and run_neighbor_sync_round in      *)
(* replication/mod.rs, against the routing events the message handler      *)
(* applies to the same state.                                              *)
(*                                                                         *)
(* The routing table is external: it announces each change of the close    *)
(* peers to the handler, which gets to it later and may miss it (a         *)
(* broadcast receiver that lags).  One step is one critical section of     *)
(* sync_state, so a routing event falls anywhere between two steps of a    *)
(* round.  Whether a sync succeeds, and when a cooldown ends, is open.     *)
(***************************************************************************)
EXTENDS Integers, Sequences, SequencesExt, FiniteSets

CONSTANTS
    ByDistance,                 \* the peers, from the closest on
    None,
    NEIGHBOR_SYNC_PEER_COUNT,   \* peers synced in a round
    MaxEvents,                  \* bound on the events not yet handled
    MaxChurn                    \* bound on the changes of the close peers, or
                                \* None if they never cease

Peers == Range(ByDistance)

ASSUME NeighborSyncAssumption ==
    /\ ByDistance \in Seq(Peers) /\ IsInjective(ByDistance)
    /\ None \notin Peers
    /\ NEIGHBOR_SYNC_PEER_COUNT \in Nat \ {0}
    /\ MaxEvents \in Nat \ {0}

VARIABLES
    close,      \* the close peers, as the routing table has them
    events,     \* announced and not yet handled
    churn,      \* changes still to come, or None
    sync,       \* NeighborSyncState: priority_order, order and cursor
    resting,    \* peers whose last successful sync is within the cooldown
    round,      \* where the round is, its batch, its snapshot of the
                \* close peers, the replacement of a peer that failed
    owed,       \* history: peers this cycle has neither tried nor excused
    tried,      \* history: peers this cycle tried, unless they came back since
    asked       \* history: the peers this round sent a request to

vars == <<close, events, churn, sync, resting, round, owed, tried, asked>>

NewCycle(order) == [priority |-> <<>>, order |-> order, cursor |-> 0]
NoRound == [pc |-> "idle", batch |-> <<>>, snapshot |-> <<>>, replacement |-> None]

\* snapshot_close_neighbors
Snapshot(s) == SelectSeq(ByDistance, LAMBDA p : p \in s)

Init ==
    /\ close \in SUBSET Peers
    /\ events = <<>>
    /\ churn = MaxChurn
    /\ sync = NewCycle(<<>>)
    /\ resting = {}
    /\ round = NoRound
    /\ owed = {}
    /\ tried = {}
    /\ asked = {}

-----------------------------------------------------------------------------
(* NeighborSyncState *)

\* Defect: a departed peer that was scanned moves the cursor past another.
RetainSyncPeersKeepsCursor(st, peers) ==
    LET keep(p) == p \in peers
        order == SelectSeq(st.order, keep)
    IN  [priority |-> SelectSeq(st.priority, keep),
         order |-> order,
         cursor |-> IF st.cursor <= Len(order) THEN st.cursor ELSE Len(order)]

\* retain_sync_peers
RetainSyncPeers(st, peers) ==
    LET keep(p) == p \in peers
    IN  [priority |-> SelectSeq(st.priority, keep),
         order |-> SelectSeq(st.order, keep),
         cursor |-> Len(SelectSeq(SubSeq(st.order, 1, st.cursor), keep))]

\* Defect: a removal at the cursor moves it, too.
RemovePeerAtCursor(st, p) ==
    LET before == 1..(IF st.cursor < Len(st.order) THEN st.cursor + 1 ELSE st.cursor)
    IN  [RetainSyncPeers(st, Peers \ {p}) EXCEPT
            !.cursor = IF st.cursor > 0 /\ \E i \in before : st.order[i] = p
                       THEN st.cursor - 1 ELSE st.cursor]

\* remove_peer: an order holds a peer at most once, so that this is the same as
\* retaining the others.
RemovePeer(st, p) == RetainSyncPeers(st, Peers \ {p})

\* queue_priority_peers
QueuePriorityPeers(st, peers) ==
    LET new(p) == p \notin Range(st.priority)
    IN  [st EXCEPT !.priority = @ \o SelectSeq(peers, new)]

\* Defect: the end is passed only beyond the last peer.
IsCycleCompleteLate(st) == st.priority = <<>> /\ st.cursor > Len(st.order)

\* is_cycle_complete
IsCycleComplete(st) == st.priority = <<>> /\ st.cursor >= Len(st.order)

\* The peers a cycle has yet to come to.
Ahead(st) == SubSeq(st.order, st.cursor + 1, Len(st.order))
Pending(st) == Range(st.priority) \cup Range(Ahead(st))

\* History: the peers on cooldown that a scan comes to on its way to p, or to the
\* end if it finds nobody.
MetResting(st, p) ==
    LET schedule == st.priority \o Ahead(st)
        found == {i \in 1..Len(schedule) : schedule[i] = p}
    IN  resting \cap {schedule[i] : i \in {j \in 1..Len(schedule) :
                                             \A k \in found : j < k}}

-----------------------------------------------------------------------------
(* Selection, neighbor_sync.rs *)

\* The peers on cooldown at the front of s.
RestingInFront(s) ==
    {s[i] : i \in {j \in 1..Len(s) : \A k \in 1..j : s[k] \in resting}}

\* Defect: a peer on cooldown stops the scan.
SelectNextSyncPeerStops(st) ==
    LET queue == st.priority
        ahead == Ahead(st)
    IN  IF queue # <<>> THEN [st |-> RemovePeer(st, Head(queue)), peer |-> Head(queue)]
        ELSE IF ahead = <<>> \/ ahead[1] \in resting THEN [st |-> st, peer |-> None]
        ELSE [st |-> [st EXCEPT !.cursor = @ + 1], peer |-> Head(ahead)]

\* Defect: the cursor moves on even from the end.
SelectNextSyncPeerPastEnd(st) ==
    IF st.priority # <<>>
    THEN [st |-> RemovePeer(st, Head(st.priority)), peer |-> Head(st.priority)]
    ELSE [st |-> [st EXCEPT !.cursor = @ + 1],
          peer |-> IF Ahead(st) = <<>> THEN None ELSE Head(Ahead(st))]

\* select_next_sync_peer: the first peer in the priority queue, then from the
\* cursor on, that is not on cooldown.  The peers on cooldown before it are taken
\* out altogether, and so is a peer the queue provides.
SelectNextSyncPeer(st) ==
    LET awake(p) == p \notin resting
        queued == SelectSeq(st.priority, awake)
        drained == RetainSyncPeers(st, Peers \ RestingInFront(st.priority))
        ahead == SelectSeq(Ahead(drained), awake)
        scanned == RetainSyncPeers(drained, Peers \ RestingInFront(Ahead(drained)))
    IN  IF queued # <<>> THEN [st |-> RemovePeer(drained, Head(queued)), peer |-> Head(queued)]
        ELSE IF ahead = <<>> THEN [st |-> scanned, peer |-> None]
        ELSE [st |-> [scanned EXCEPT !.cursor = @ + 1], peer |-> Head(ahead)]

\* select_sync_batch
SelectSyncBatch(st) ==
    LET chosen[n \in 0..NEIGHBOR_SYNC_PEER_COUNT] ==
          IF n = 0 THEN [st |-> st, batch |-> <<>>]
          ELSE LET before == chosen[n - 1]
                   next == SelectNextSyncPeer(before.st)
               IN  [st |-> next.st,
                    batch |-> IF next.peer = None THEN before.batch
                              ELSE Append(before.batch, next.peer)]
    IN  chosen[NEIGHBOR_SYNC_PEER_COUNT]

-----------------------------------------------------------------------------
(* Routing events *)

\* The close peers change: KClosestPeersChanged, and PeerRemoved if one left
\* the table altogether.
RoutingChange ==
    /\ churn # 0
    /\ Len(events) < MaxEvents
    /\ \E new \in SUBSET Peers \ {close} :
         /\ close' = new
         /\ \/ events' = Append(events, [kind |-> "changed", old |-> close, new |-> new])
            \/ \E p \in close \ new :
                 events' = Append(Append(events, [kind |-> "changed", old |-> close, new |-> new]),
                                  [kind |-> "removed", peer |-> p])
    /\ churn' = IF churn = None THEN None ELSE churn - 1
    /\ UNCHANGED <<sync, resting, round, owed, tried, asked>>

HandleKClosestPeersChanged ==
    /\ events # <<>> /\ Head(events).kind = "changed"
    /\ LET new == Head(events).new
           entrants == Snapshot(new \ Head(events).old)
       IN  /\ sync' = QueuePriorityPeers(RetainSyncPeers(sync, new), entrants)
           /\ owed' = (owed \cap new) \cup Range(entrants)
           /\ tried' = tried \ Range(entrants)
    /\ events' = Tail(events)
    /\ UNCHANGED <<close, churn, resting, round, asked>>

HandlePeerRemoved ==
    /\ events # <<>> /\ Head(events).kind = "removed"
    /\ sync' = RemovePeer(sync, Head(events).peer)
    /\ owed' = owed \ {Head(events).peer}
    /\ events' = Tail(events)
    /\ UNCHANGED <<close, churn, resting, round, tried, asked>>

\* The receiver lagged: the event is never seen.
MissEvent ==
    /\ Len(events) > 1
    /\ events' = Tail(events)
    /\ UNCHANGED <<close, churn, sync, resting, round, owed, tried, asked>>

CooldownEnds(p) ==
    /\ p \in resting
    /\ resting' = resting \ {p}
    /\ UNCHANGED <<close, events, churn, sync, round, owed, tried, asked>>

-----------------------------------------------------------------------------
(* run_neighbor_sync_round *)

\* The cycle is found complete, or goes on.
RoundStart ==
    /\ round.pc = "idle"
    /\ round' = [NoRound EXCEPT !.pc = IF IsCycleComplete(sync) THEN "prune" ELSE "select"]
    /\ asked' = {}
    /\ UNCHANGED <<close, events, churn, sync, resting, owed, tried>>

\* After the prune pass the close neighbors are read.
RoundSnapshot ==
    /\ round.pc = "prune"
    /\ round' = [round EXCEPT !.pc = "swap", !.snapshot = Snapshot(close)]
    /\ UNCHANGED <<close, events, churn, sync, resting, owed, tried, asked>>

\* The next cycle begins, unless peers were queued meanwhile.
RoundSwap ==
    /\ round.pc = "swap"
    /\ \/ /\ IsCycleComplete(sync)
          /\ sync' = NewCycle(round.snapshot)
          /\ owed' = Range(round.snapshot)
          /\ tried' = {}
       \/ ~IsCycleComplete(sync) /\ UNCHANGED <<sync, owed, tried>>
    /\ round' = [round EXCEPT !.pc = "select", !.snapshot = <<>>]
    /\ UNCHANGED <<close, events, churn, resting, asked>>

RoundSelect ==
    /\ round.pc = "select"
    /\ LET selected == SelectSyncBatch(sync)
       IN  /\ sync' = selected.st
           /\ owed' = owed \ (Range(selected.batch) \cup MetResting(sync,
                        IF Len(selected.batch) < NEIGHBOR_SYNC_PEER_COUNT THEN None
                        ELSE Last(selected.batch)))
           /\ tried' = tried \cup Range(selected.batch)
           /\ round' = IF selected.batch = <<>> THEN NoRound
                       ELSE [round EXCEPT !.pc = "sync", !.batch = selected.batch]
    /\ UNCHANGED <<close, events, churn, resting, asked>>

\* The next peer of the batch, or the end of the round.
NextInBatch ==
    IF Len(round.batch) = 1 THEN NoRound
    ELSE [round EXCEPT !.pc = "sync", !.batch = Tail(@)]

\* A peer answers: handle_sync_response.
SyncSucceeds ==
    /\ round.pc = "sync"
    /\ resting' = resting \cup {Head(round.batch)}
    /\ asked' = asked \cup {Head(round.batch)}
    /\ round' = NextInBatch
    /\ UNCHANGED <<close, events, churn, sync, owed, tried>>

\* It does not: handle_sync_failure selects a replacement.
SyncFails ==
    /\ round.pc = "sync"
    /\ LET rest == RemovePeer(sync, Head(round.batch))
           next == SelectNextSyncPeer(rest)
       IN  /\ sync' = next.st
           /\ owed' = owed \ ({Head(round.batch), next.peer} \cup MetResting(rest, next.peer))
           /\ tried' = tried \cup ({next.peer} \ {None})
           /\ round' = IF next.peer = None THEN NextInBatch
                       ELSE [round EXCEPT !.pc = "replace", !.replacement = next.peer]
    /\ asked' = asked \cup {Head(round.batch)}
    /\ UNCHANGED <<close, events, churn, resting>>

\* The replacement answers or does not.
SyncReplacement ==
    /\ round.pc = "replace"
    /\ resting' \in {resting, resting \cup {round.replacement}}
    /\ asked' = asked \cup {round.replacement}
    /\ round' = [NextInBatch EXCEPT !.replacement = None]
    /\ UNCHANGED <<close, events, churn, sync, owed, tried>>

Round ==
    \/ RoundStart
    \/ RoundSnapshot
    \/ RoundSwap
    \/ RoundSelect
    \/ SyncSucceeds
    \/ SyncFails
    \/ SyncReplacement

HandleEvent == HandleKClosestPeersChanged \/ HandlePeerRemoved

Next ==
    \/ Round
    \/ HandleEvent
    \/ RoutingChange
    \/ MissEvent
    \/ \E p \in Peers : CooldownEnds(p)

\* The loop starts a round again and again, a round goes on, and the handler
\* handles what was announced.  Nothing is promised of peers or cooldowns.  Some
\* step of a round is always enabled, so that its weak fairness is []<>.
Fairness == []<><<Round>>_vars /\ WF_vars(HandleEvent)

Spec == Init /\ [][Next]_vars
FairSpec == Spec /\ Fairness

-----------------------------------------------------------------------------
(* Properties *)

\* Every variable has the shape of the code's; no peer is queued or scheduled
\* twice, and the cursor stays in the order.
TypeOK ==
    /\ close \subseteq Peers
    /\ sync.priority \in Seq(Peers) /\ IsInjective(sync.priority)
    /\ sync.order \in Seq(Peers) /\ IsInjective(sync.order)
    /\ sync.cursor \in 0..Len(sync.order)
    /\ resting \subseteq Peers
    /\ round.pc \in {"idle", "prune", "swap", "select", "sync", "replace"}
    /\ round.pc \in {"sync", "replace"} <=> round.batch # <<>>
    /\ owed \cup tried \cup asked \subseteq Peers

\* Whatever comes and goes and fails, the cursor never passes over a peer: one
\* that is in this cycle's snapshot or entered since, and stayed, is still ahead
\* until it was tried, or the scan came to it and found it on cooldown (a peer on
\* cooldown that the scan has not come to may be awake by then).
NobodySkipped == owed \subseteq Pending(sync)

\* "Already-scanned retained peers are not selected again" (types.rs:616): what
\* this cycle tried is ahead again only if it left and came back.
NobodyScannedTwice == tried \cap Pending(sync) = {}

\* A cycle ends again and again, however peers fail and rest.
CycleCompletes == []<>IsCycleComplete(sync)

\* A peer that stays close is tried, or has been synced a while ago, again and
\* again.
EveryPeerReached ==
    \A p \in Peers : <>[](p \in close) => []<>(p \in resting \cup Range(round.batch) \cup asked)

\* "[The node] does not sync P twice in the same round"
\* (docs/REPLICATION_DESIGN.md:619).
NobodyTwiceInARound ==
    [][/\ SyncSucceeds \/ SyncFails => Head(round.batch) \notin asked
       /\ SyncReplacement => round.replacement \notin asked]_vars

=============================================================================
