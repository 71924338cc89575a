---------------------------- MODULE RouterSystem -----------------------------
(***************************************************************************)
(* The router together with what every endpoint promises it.  An endpoint  *)
(* gets a fresh id, announces it, then sends frames and empties its        *)
(* transmit queue; a sub-endpoint (an accepted tcps: client or a learned   *)
(* udps: peer) ends by announcing its removal.  How a transport gets there *)
(* is left open: this is the abstract specification the transports         *)
(* implement.                                                              *)
(***************************************************************************)
EXTENDS Router

CONSTANT
    Reasons                \* the PeerRemovedReasons the transports give

ASSUME SystemAssumption ==
    Reasons \subseteq {"Idle", "LruEvicted", "Disconnected", "ListenerShutdown"}

VARIABLES
    next_id,               \* EndpointIdAllocator (ids count from 1 here)
    spawned,               \* how many configured endpoints have been allocated
    who,                   \* id -> [kind, spec]: what the id was allocated for
    life,                  \* id -> where the endpoint is in its life
    sent,                  \* frames sent to the router so far
    writing,               \* ids whose writer has a frame in hand and counts it if lost
    mirror                 \* the registry mirror of the stats task

envVars == <<next_id, spawned, who, life, sent, writing, mirror>>
vars == <<routerVars, envVars>>

Unallocated == [kind |-> "none", spec |-> 0]

Init ==
    /\ RouterInit
    /\ next_id = 1
    /\ spawned = 0
    /\ who = [id \in Ids |-> Unallocated]
    /\ life = [id \in Ids |-> "none"]
    /\ sent = 0
    /\ writing = {}
    /\ mirror = {}

Peer(id) == who[id].kind = "peer"
Listener(id) == who[id].kind = "listener"

\* Whoever allocates an id awaits its announcement before it goes on.
Announcing(kinds, spec) ==
    \E id \in Ids : life[id] = "announce" /\ who[id].kind \in kinds /\ who[id].spec = spec

Alloc(kind, spec) ==
    /\ next_id <= MaxId
    /\ next_id' = next_id + 1
    /\ who' = [who EXCEPT ![next_id] = [kind |-> kind, spec |-> spec]]
    /\ life' = [life EXCEPT ![next_id] = "announce"]

\* spawn_endpoint: the configured endpoints come up one after the other.
SpawnEndpoint ==
    /\ spawned < Len(Endpoints)
    /\ ~Announcing({"leaf", "listener"}, spawned)
    /\ Alloc(IF Endpoints[spawned + 1].listener THEN "listener" ELSE "leaf", spawned + 1)
    /\ spawned' = spawned + 1
    /\ UNCHANGED <<routerVars, sent, writing, mirror>>

\* A listener admits a client or a peer: Connected from the start.
AdmitPeer(l) ==
    /\ Listener(l) /\ life[l] = "live"
    /\ ~Announcing({"peer"}, who[l].spec)
    /\ Alloc("peer", who[l].spec)
    /\ stats' = [stats EXCEPT ![next_id].state = "Connected"]
    /\ UNCHANGED <<channels, cancelled, pc, registry, tx, stats_events_dropped,
                   spawned, sent, writing, mirror>>

Added(id) ==
    [type |-> IF Peer(id) THEN "PeerAdded" ELSE "EndpointAdded", id |-> id,
     spec |-> who[id].spec, routable |-> ~Listener(id)]

\* Mutant: the announcement is a try_send, lost when the channel is full.
Announce_TrySend(id) ==
    /\ life[id] = "announce"
    /\ ~RouterClosed
    /\ event_ch' = IF Len(event_ch) < EventQCap THEN Append(event_ch, Added(id)) ELSE event_ch
    /\ life' = [life EXCEPT ![id] = "live"]
    /\ UNCHANGED <<frame_ch, stats_ch, stats_open, cancelled, pc, registry, tx, stats,
                   stats_events_dropped, next_id, spawned, who, sent, writing, mirror>>

\* event_tx.send(..).await completes: there is room in the channel.
Announce(id) ==
    /\ life[id] = "announce"
    /\ ~RouterClosed /\ Len(event_ch) < EventQCap
    /\ event_ch' = Append(event_ch, Added(id))
    /\ life' = [life EXCEPT ![id] = "live"]
    /\ UNCHANGED <<frame_ch, stats_ch, stats_open, cancelled, pc, registry, tx, stats,
                   stats_events_dropped, next_id, spawned, who, sent, writing, mirror>>

\* The router is gone: the endpoint is never started.
AnnounceFails(id) ==
    /\ life[id] = "announce" /\ RouterClosed
    /\ life' = [life EXCEPT ![id] = "gone"]
    /\ UNCHANGED <<routerVars, next_id, spawned, who, sent, writing, mirror>>

\* A frame that passed the source's in-filter enters the frame channel.
Forward(id, frame) ==
    /\ life[id] = "live" /\ ~Listener(id)
    /\ passes_in_filter(Identity(who[id].spec).filters, frame)
    /\ ~RouterClosed /\ Len(frame_ch) < INGRESS_QUEUE_FRAMES
    /\ frame_ch' = Append(frame_ch, [endpoint_id |-> id, frame |-> frame])
    /\ sent' = sent + 1
    /\ UNCHANGED <<event_ch, stats_ch, stats_open, cancelled, pc, registry, tx, stats,
                   stats_events_dropped, next_id, spawned, who, life, writing, mirror>>

\* The writer takes the oldest frame of its queue.  A udps: peer's writer is a task
\* of its own, may outlive the peer's removal and counts what it fails to send; the
\* other writers do not count the frame in hand.
Pop(id) ==
    /\ life[id] \in {"live", "gone"} /\ tx[id] # <<>> /\ id \notin writing
    /\ tx' = [tx EXCEPT ![id] = Tail(@)]
    /\ UNCHANGED writing \/ (Peer(id) /\ writing' = writing \cup {id})
    /\ UNCHANGED <<channels, cancelled, pc, registry, stats, stats_events_dropped,
                   next_id, spawned, who, life, sent, mirror>>

\* The frame in hand is out.
Sent(id) ==
    /\ id \in writing /\ writing' = writing \ {id}
    /\ UNCHANGED <<routerVars, next_id, spawned, who, life, sent, mirror>>

\* Mutant: what is drained is counted and stays.
Drain_KeepsQueue(id) ==
    /\ life[id] \in {"live", "gone"} /\ tx[id] # <<>>
    /\ stats' = [stats EXCEPT ![id].dropped_tx = @ + Len(tx[id])]
    /\ UNCHANGED <<channels, cancelled, pc, registry, tx, stats_events_dropped, envVars>>

\* drain_and_discard: the whole queue is counted as dropped.
Drain(id) ==
    /\ life[id] \in {"live", "gone"}
    /\ tx' = [tx EXCEPT ![id] = <<>>]
    /\ stats' = [stats EXCEPT ![id].dropped_tx = @ + Len(tx[id])]
    /\ UNCHANGED <<channels, cancelled, pc, registry, stats_events_dropped, envVars>>

\* The send of the frame in hand failed and is counted, as a udps: writer does.
SendFails(id) ==
    /\ id \in writing /\ writing' = writing \ {id}
    /\ stats' = [stats EXCEPT ![id].dropped_tx = @ + 1]
    /\ UNCHANGED <<channels, cancelled, pc, registry, tx, stats_events_dropped,
                   next_id, spawned, who, life, sent, mirror>>

\* Leaves and listeners publish their transport state; sub-endpoints never do.
StoreState(id, state) ==
    /\ life[id] = "live" /\ ~Peer(id)
    /\ stats' = [stats EXCEPT ![id].state = state]
    /\ UNCHANGED <<channels, cancelled, pc, registry, tx, stats_events_dropped, envVars>>

\* Mutant: a session torn down before its PeerAdded was sent reports its removal.
Depart_BeforeAnnounce(id, reason) ==
    /\ Peer(id) /\ life[id] \in {"announce", "live"}
    /\ RouterClosed \/ Len(event_ch) < EventQCap
    /\ event_ch' = IF RouterClosed THEN event_ch
                   ELSE Append(event_ch,
                               [type |-> "PeerRemoved", id |-> id, reason |-> reason])
    /\ life' = [life EXCEPT ![id] = "gone"]
    /\ UNCHANGED <<frame_ch, stats_ch, stats_open, cancelled, pc, registry, tx, stats,
                   stats_events_dropped, next_id, spawned, who, sent, writing, mirror>>

\* A sub-endpoint ends: its removal is announced unless the router is gone.
Depart(id, reason) ==
    /\ Peer(id) /\ life[id] = "live"
    /\ RouterClosed \/ Len(event_ch) < EventQCap
    /\ event_ch' = IF RouterClosed THEN event_ch
                   ELSE Append(event_ch,
                               [type |-> "PeerRemoved", id |-> id, reason |-> reason])
    /\ life' = [life EXCEPT ![id] = "gone"]
    /\ UNCHANGED <<frame_ch, stats_ch, stats_open, cancelled, pc, registry, tx, stats,
                   stats_events_dropped, next_id, spawned, who, sent, writing, mirror>>

\* A leaf ends, or a listener whose sub-endpoints have all ended.
Exit(id) ==
    /\ ~Peer(id) /\ life[id] = "live"
    /\ cancelled
    /\ Listener(id) => \A c \in Ids : Peer(c) /\ who[c].spec = who[id].spec
                                        => life[c] = "gone"
    /\ life' = [life EXCEPT ![id] = "gone"]
    /\ UNCHANGED <<routerVars, next_id, spawned, who, sent, writing, mirror>>

Cancel ==
    /\ ~cancelled /\ cancelled' = TRUE
    /\ UNCHANGED <<channels, pc, registry, tx, stats, stats_events_dropped, envVars>>

\* The stats task takes one event into its mirror.
StatsRecv ==
    /\ stats_open /\ stats_ch # <<>>
    /\ mirror' = IF Head(stats_ch).type = "Register" THEN mirror \cup {Head(stats_ch).id}
                 ELSE mirror \ {Head(stats_ch).id}
    /\ stats_ch' = Tail(stats_ch)
    /\ UNCHANGED <<event_ch, frame_ch, stats_open, cancelled, pc, registry, tx, stats,
                   stats_events_dropped, next_id, spawned, who, life, sent, writing>>

\* It stops when its post-cancel drain ends or times out.
StatsExit ==
    /\ stats_open /\ cancelled
    /\ stats_open' = FALSE /\ stats_ch' = <<>>
    /\ UNCHANGED <<event_ch, frame_ch, cancelled, pc, registry, tx, stats,
                   stats_events_dropped, envVars>>

Route == RouterNext /\ UNCHANGED envVars

Endpoint(id) ==
    \/ AdmitPeer(id)
    \/ Announce(id)
    \/ AnnounceFails(id)
    \/ \E frame \in Frames : Forward(id, frame)
    \/ Pop(id)
    \/ Drain(id)
    \/ Sent(id)
    \/ SendFails(id)
    \/ \E state \in {"Connected", "Reconnecting"} : StoreState(id, state)
    \/ \E reason \in Reasons : Depart(id, reason)
    \/ Exit(id)

Next ==
    \/ Route
    \/ SpawnEndpoint
    \/ \E id \in Ids : Endpoint(id)
    \/ Cancel
    \/ StatsRecv
    \/ StatsExit

Spec == Init /\ [][Next]_vars

=============================================================================
