---------------------------- MODULE RouterSafety -----------------------------
(***************************************************************************)
(* What the router and its endpoints guarantee together: the properties of *)
(* RouterSystem.                                                           *)
(***************************************************************************)
EXTENDS RouterSystem

Nodes == {Source(frame) : frame \in Frames}
States == {"Reconnecting", "Connected", "Idle", "Down"}
Specs == 1..Len(Endpoints)

EventType ==
    [type : {"EndpointAdded", "PeerAdded"}, id : Ids, spec : Specs, routable : BOOLEAN]
    \cup [type : {"PeerRemoved"}, id : Ids, reason : Reasons]

RouterFrame == [endpoint_id : Ids, frame : Frames]
StatsEvent == [type : {"Register", "Finalize"}, id : Ids]
Queued == [src : Ids, frame : Frames]
Slot == [routable : BOOLEAN, spec : Specs, learn : Seq(Nodes)]
Group == [learn : Seq(Nodes), members : Nat]
EndpointStats == [state : States, learn_entries : Nat, out_filter_drops : Nat,
                  dedup_drops : Nat, dropped_tx : Nat]

ControlOK ==
    /\ cancelled \in BOOLEAN
    /\ pc \in {"events", "frames", "drain", "sweep", "done"}
EventsOK == event_ch \in Seq(EventType) /\ Len(event_ch) <= EventQCap
FramesOK ==
    /\ frame_ch \in Seq(RouterFrame)
    /\ Len(frame_ch) <= INGRESS_QUEUE_FRAMES
    /\ sent \in Nat
StatsChOK ==
    /\ stats_ch \in Seq(StatsEvent)
    /\ Len(stats_ch) <= StatsQCap
    /\ stats_open \in BOOLEAN
    /\ stats_events_dropped \in Nat
    /\ mirror \subseteq Ids
RoutingOK ==
    /\ DOMAIN routing \subseteq Ids
    /\ routing \in [DOMAIN routing -> Slot]
    /\ \A id \in DOMAIN routing : Len(routing[id].learn) <= LEARN_CAPACITY
GroupsOK ==
    /\ groups \in [DOMAIN groups -> Group]
    /\ \A g \in DOMAIN groups : Len(groups[g].learn) <= LEARN_CAPACITY
DedupOK == dedup \in Seq(Frames) /\ Len(dedup) <= DedupCapacity
TxOK ==
    /\ tx \in [Ids -> Seq(Queued)]
    /\ \A id \in Ids : Len(tx[id]) <= TX_QUEUE_FRAMES
StatsOK == stats \in [Ids -> EndpointStats]
WritingOK == writing \subseteq Ids
EndpointsOK ==
    /\ next_id \in 1..(MaxId + 1) /\ spawned \in 0..Len(Endpoints)
    /\ who \in [Ids -> [kind : {"none", "leaf", "listener", "peer"},
                        spec : 0..Len(Endpoints)]]
    /\ \A id \in Ids : who[id].kind # "none" => who[id].spec \in Specs
    /\ life \in [Ids -> {"none", "announce", "live", "gone"}]
    /\ \A id \in Ids : life[id] = "none" <=> who[id].kind = "none"

\* Every variable has its type, and no channel, queue, table or window exceeds
\* its capacity.
TypeOK ==
    /\ ControlOK
    /\ EventsOK /\ FramesOK /\ StatsChOK
    /\ RoutingOK /\ GroupsOK /\ DedupOK
    /\ TxOK /\ StatsOK /\ WritingOK
    /\ EndpointsOK

Members(g) == {id \in DOMAIN routing : routing[id].routable /\ GroupOf(id) = g}

\* Until the sweep, a group exists exactly as long as it has a registered
\* routable member, and its refcount is the number of those members: the
\* debug_assert in dispatch_to_destinations ("group entry vanished mid-dispatch")
\* cannot fail, and a table never outlives its last member.
GroupRefcount ==
    pc \notin {"sweep", "done"} =>
        /\ \A g \in DOMAIN groups :
              /\ g # NoGroup
              /\ Members(g) # {}
              /\ groups[g].members = Cardinality(Members(g))
        /\ \A id \in DOMAIN routing :
              routing[id].routable /\ GroupOf(id) # NoGroup
                  => GroupOf(id) \in DOMAIN groups

Settled(id) == life[id] \in {"live", "gone"}

\* Ids are fresh when allocated; the registry and the event channel speak only of
\* endpoints whose announcement went through, under the spec they were allocated
\* for; a removal is queued only by an endpoint that is gone; and, until the
\* sweep, an endpoint that runs is registered or its registration is queued.
LifecycleInv ==
    /\ \A id \in Ids : id >= next_id => life[id] = "none"
    /\ \A id \in DOMAIN routing : Settled(id) /\ routing[id].spec = who[id].spec
    /\ \A i \in 1..Len(event_ch) :
          /\ Settled(event_ch[i].id)
          /\ IsAdded(event_ch[i]) => event_ch[i].spec = who[event_ch[i].id].spec
          /\ ~IsAdded(event_ch[i]) => life[event_ch[i].id] = "gone"
    /\ pc \notin {"sweep", "done"} =>
          \A id \in Ids : life[id] = "live" =>
              \/ id \in DOMAIN routing
              \/ \E i \in 1..Len(event_ch) : event_ch[i].id = id /\ IsAdded(event_ch[i])

\* A queued registration never overwrites a live registry slot, and a queued
\* PeerRemoved always finds the slot it is to remove, whatever the order in which
\* endpoints come and go: handle_event never takes its `entry absent' path.  (Once
\* the router sweeps, what is still queued is never handled.)
RegistrationsPair ==
    pc \notin {"sweep", "done"} =>
        /\ \A i \in 1..Len(event_ch) :
              IF IsAdded(event_ch[i])
              THEN event_ch[i].id \notin DOMAIN routing
              ELSE \/ event_ch[i].id \in DOMAIN routing
                   \/ \E j \in 1..(i - 1) : /\ event_ch[j].id = event_ch[i].id
                                            /\ IsAdded(event_ch[j])
        /\ \A i, j \in 1..Len(event_ch) :
              i < j /\ event_ch[i].id = event_ch[j].id
                  => IsAdded(event_ch[i]) /\ ~IsAdded(event_ch[j])

\* No frame waits to be sent back where it came from: not to its own source and,
\* unless the destination is a sniffer, not to another member of its group.
NoEcho ==
    \A d \in Ids : \A i \in DOMAIN tx[d] :
        LET src == tx[d][i].src
            g == Identity(who[d].spec).group
        IN  /\ src # d
            /\ \/ Identity(who[d].spec).sniffer
               \/ g = NoGroup
               \/ Identity(who[src].spec).group # g

\* The frame a writer has in hand, as a number.
InHand(id) == IF id \in writing THEN 1 ELSE 0

\* No frame is counted twice: what an endpoint has queued, has in hand and ever counted
\* as dropped (displaced by a newer frame, drained, or lost in a failed send) is at
\* most what the router has taken.
DropsCountedOnce ==
    \A id \in Ids :
        stats[id].dropped_tx + Len(tx[id]) + InHand(id) <= sent - Len(frame_ch)

\* Will the stats task's mirror hold id once it has read what is in its channel?
MirroredAfterDrain(id) ==
    LET about == {i \in DOMAIN stats_ch : stats_ch[i].id = id}
    IN  IF about = {} THEN id \in mirror
        ELSE \E i \in about : /\ \A j \in about : j <= i
                              /\ stats_ch[i].type = "Register"

\* As long as no StatsEvent was lost to a full channel and the stats task runs,
\* its mirror agrees with the registry once it has caught up: every endpoint that
\* leaves the registry, by removal or by the sweep, is finalised.
MirrorTracksRegistry ==
    stats_open /\ stats_events_dropped = 0
        => \A id \in Ids : MirroredAfterDrain(id) <=> id \in DOMAIN routing

=============================================================================
