------------------------------- MODULE Router --------------------------------
(***************************************************************************)
(* The router task (src/src/router/mod.rs, group.rs): one task that owns   *)
(* the endpoint registry, the group registry and the dedup window, fed by  *)
(* two bounded channels and polled by a biased select.                     *)
(*                                                                         *)
(* The runtime has several threads, so the select is not atomic: it polls  *)
(* the event channel, and only then the frame channel; other tasks run in  *)
(* between.  `pc' holds where the router is in run_inner.                  *)
(***************************************************************************)
EXTENDS Routing, FiniteSets

CONSTANTS
    Endpoints,             \* the configured endpoints, in order: a sequence of
                           \* [listener, identity]; the index stands for the name
    Frames,                \* the frames that can arrive (records, see Routing)
    MaxId,                 \* bound on the number of endpoint ids ever allocated
    EventQCap,             \* capacity of the event channel
    INGRESS_QUEUE_FRAMES,  \* capacity of the frame channel
    StatsQCap,             \* capacity of the channel to the stats task
    LEARN_CAPACITY,        \* size of a learn table
    TX_QUEUE_FRAMES,       \* size of a transmit queue
    DedupEnabled,          \* dedup_ms > 0
    DedupCapacity          \* size of the dedup window

ASSUME RouterAssumption ==
    /\ \A e \in 1..Len(Endpoints) :
          /\ Endpoints[e].listener \in BOOLEAN
          /\ Endpoints[e].identity.group \in STRING
          /\ Endpoints[e].identity.sniffer \in BOOLEAN
    /\ Endpoints \in Seq({Endpoints[e] : e \in 1..Len(Endpoints)})
    /\ MaxId \in Nat
    /\ EventQCap \in Nat \ {0}
    /\ INGRESS_QUEUE_FRAMES \in Nat \ {0}
    /\ StatsQCap \in Nat \ {0}
    /\ LEARN_CAPACITY \in Nat \ {0}
    /\ TX_QUEUE_FRAMES \in Nat \ {0}
    /\ DedupCapacity \in Nat \ {0}
    /\ DedupEnabled \in BOOLEAN

VARIABLES
    event_ch,              \* EndpointEvents sent and not yet received
    frame_ch,              \* RouterFrames sent and not yet received
    stats_ch,              \* StatsEvents sent and not yet received
    stats_open,            \* the stats task still holds its receiver
    cancelled,             \* the CancellationToken
    pc,                    \* the router's position in run_inner
    routing,               \* id -> [routable, spec, learn], the registry
    groups,                \* group name -> [learn, members]
    dedup,                 \* the dedup ring, oldest first
    tx,                    \* id -> its TxQueue, oldest first
    stats,                 \* id -> its EndpointStats
    stats_events_dropped   \* StatsEvents lost to a full channel

registry == <<routing, groups, dedup>>
channels == <<event_ch, frame_ch, stats_ch, stats_open>>
routerVars == <<channels, cancelled, pc, registry, tx, stats, stats_events_dropped>>

Ids == 1..MaxId
NoGroup == ""
Identity(e) == Endpoints[e].identity
GroupOf(id) == Identity(routing[id].spec).group

\* Has the router dropped its receivers?
RouterClosed == pc = "done"

InitialStats == [state |-> "Reconnecting", learn_entries |-> 0,
                 out_filter_drops |-> 0, dedup_drops |-> 0, dropped_tx |-> 0]

RouterInit ==
    /\ event_ch = <<>> /\ frame_ch = <<>> /\ stats_ch = <<>>
    /\ stats_open = TRUE
    /\ cancelled = FALSE
    /\ pc = "events"
    /\ routing = [id \in {} |-> <<>>]
    /\ groups = [g \in {} |-> <<>>]
    /\ dedup = <<>>
    /\ tx = [id \in Ids |-> <<>>]
    /\ stats = [id \in Ids |-> InitialStats]
    /\ stats_events_dropped = 0

-----------------------------------------------------------------------------
(* Maps and queues. *)

Insert(f, k, v) == [x \in DOMAIN f \cup {k} |-> IF x = k THEN v ELSE f[x]]
Delete(f, k) == [x \in DOMAIN f \ {k} |-> f[x]]

\* TxQueue::push: drop-oldest when full.
push(queue, frame) ==
    Append(IF Len(queue) >= TX_QUEUE_FRAMES THEN Tail(queue) ELSE queue, frame)

\* Mutant: the channel to the stats task has no bound.
forward_stats_Unbounded(event) ==
    /\ stats_ch' = IF stats_open THEN Append(stats_ch, event) ELSE stats_ch
    /\ UNCHANGED stats_events_dropped

\* forward_stats is a try_send: a full channel drops the event and counts it, a
\* closed one drops it silently.
forward_stats(event) ==
    LET full == Len(stats_ch) >= StatsQCap
    IN  /\ stats_ch' = IF stats_open /\ ~full THEN Append(stats_ch, event) ELSE stats_ch
        /\ stats_events_dropped' = IF stats_open /\ full THEN stats_events_dropped + 1
                                   ELSE stats_events_dropped

\* GroupRegistry::join and leave.
join(g) ==
    IF g \in DOMAIN groups
    THEN [groups EXCEPT ![g].members = @ + 1]
    ELSE Insert(groups, g, [learn |-> <<>>, members |-> 1])

\* Mutant: the table goes while one member is left.
leave_OffByOne(g) ==
    IF g \notin DOMAIN groups THEN groups
    ELSE IF groups[g].members <= 2 THEN Delete(groups, g)
    ELSE [groups EXCEPT ![g].members = @ - 1]

leave(g) ==
    IF g \notin DOMAIN groups THEN groups
    ELSE IF groups[g].members <= 1 THEN Delete(groups, g)
    ELSE [groups EXCEPT ![g].members = @ - 1]

-----------------------------------------------------------------------------
(* handle_event *)

\* The events that register an endpoint.
IsAdded(ev) == ev.type \in {"EndpointAdded", "PeerAdded"}

\* EndpointAdded and PeerAdded: join the group, insert the registry slot with an
\* empty learn table, announce the endpoint to the stats task.
HandleAdded(ev) ==
    LET g == Identity(ev.spec).group
    IN  /\ ev.type \in {"EndpointAdded", "PeerAdded"}
        /\ groups' = IF ev.routable /\ g # NoGroup THEN join(g) ELSE groups
        /\ routing' = Insert(routing, ev.id,
                [routable |-> ev.routable, spec |-> ev.spec, learn |-> <<>>])
        /\ forward_stats([type |-> "Register", id |-> ev.id])
        /\ UNCHANGED stats

FinalState(reason) == IF reason = "Idle" THEN "Idle" ELSE "Down"

\* Mutant: a removal is not finalised with the stats task.
HandleRemoved_NoFinalize(ev) ==
    /\ ev.type = "PeerRemoved"
    /\ IF ev.id \in DOMAIN routing
       THEN /\ groups' = IF routing[ev.id].routable /\ GroupOf(ev.id) # NoGroup
                         THEN leave(GroupOf(ev.id)) ELSE groups
            /\ routing' = Delete(routing, ev.id)
            /\ stats' = [stats EXCEPT ![ev.id].state = FinalState(ev.reason)]
       ELSE UNCHANGED <<groups, routing, stats>>
    /\ UNCHANGED <<stats_ch, stats_events_dropped>>

\* PeerRemoved: leave the group and store the final state if the slot exists;
\* the Finalize is forwarded either way.
HandleRemoved(ev) ==
    /\ ev.type = "PeerRemoved"
    /\ IF ev.id \in DOMAIN routing
       THEN /\ groups' = IF routing[ev.id].routable /\ GroupOf(ev.id) # NoGroup
                         THEN leave(GroupOf(ev.id)) ELSE groups
            /\ routing' = Delete(routing, ev.id)
            /\ stats' = [stats EXCEPT ![ev.id].state = FinalState(ev.reason)]
       ELSE UNCHANGED <<groups, routing, stats>>
    /\ forward_stats([type |-> "Finalize", id |-> ev.id])

handle_event(ev) ==
    /\ HandleAdded(ev) \/ HandleRemoved(ev)
    /\ UNCHANGED <<dedup, tx>>

-----------------------------------------------------------------------------
(* handle_frame *)

Routable(id) == id \in DOMAIN routing /\ routing[id].routable

\* The dedup window without its k oldest entries.  Deadlines grow along the ring,
\* so what expire_stale drops is a prefix; which one depends on the clock.
Unexpired(k) == SubSeq(dedup, k + 1, Len(dedup))

\* An unknown source, or a listener, is dropped before anything else.
FrameFromNowhere(rf) ==
    /\ ~Routable(rf.endpoint_id)
    /\ UNCHANGED <<registry, tx, stats>>

FrameDuplicate(rf) ==
    /\ Routable(rf.endpoint_id)
    /\ DedupEnabled
    /\ \E k \in 0..Len(dedup) :
          /\ contains(Unexpired(k), rf.frame)
          /\ dedup' = Unexpired(k)
    /\ stats' = [stats EXCEPT ![rf.endpoint_id].dedup_drops = @ + 1]
    /\ UNCHANGED <<routing, groups, tx>>

\* What dispatch_to_destinations decides for d, with group tables gr.
Verdict(d, rf, gr) ==
    LET e == routing[d].spec
        g == Identity(e).group
    IN  IF d = rf.endpoint_id \/ ~Routable(d) \/ (g # NoGroup /\ g \notin DOMAIN gr)
        THEN "Skipped"
        ELSE decide(rf.frame, IF g = NoGroup THEN routing[d].learn ELSE gr[g].learn,
                    Identity(e), routing[rf.endpoint_id].spec)

\* A queue holds Bytes in the code; the model keeps the source id beside them.
Delivered(rf, gr) ==
    [d \in Ids |-> IF Verdict(d, rf, gr) = "Admit"
                   THEN push(tx[d], [src |-> rf.endpoint_id, frame |-> rf.frame])
                   ELSE tx[d]]

Counted(rf, gr, learned) ==
    [d \in Ids |->
        [stats[d] EXCEPT
            !.learn_entries = IF d = rf.endpoint_id THEN learned ELSE @,
            !.out_filter_drops =
                IF Verdict(d, rf, gr) = "OutFilterBlocked" THEN @ + 1 ELSE @,
            !.dropped_tx =
                IF Verdict(d, rf, gr) = "Admit" /\ Len(tx[d]) >= TX_QUEUE_FRAMES
                THEN @ + 1 ELSE @]]

\* Learn the source, in its own table or in its group's, and dispatch.
LearnAndDispatch(rf) ==
    LET src == rf.endpoint_id
        g == GroupOf(src)
        learned == touch(IF g = NoGroup THEN routing[src].learn ELSE groups[g].learn,
                         Source(rf.frame), LEARN_CAPACITY)
    IN  IF g # NoGroup /\ g \notin DOMAIN groups
        THEN UNCHANGED <<routing, groups, tx, stats>>
        ELSE /\ routing' = IF g = NoGroup THEN [routing EXCEPT ![src].learn = learned]
                           ELSE routing
             /\ groups' = IF g = NoGroup THEN groups
                          ELSE [groups EXCEPT ![g].learn = learned]
             /\ tx' = Delivered(rf, groups')
             /\ stats' = Counted(rf, groups', Len(learned))

FrameFresh(rf) ==
    /\ Routable(rf.endpoint_id)
    /\ \E k \in 0..Len(dedup) :
          LET ring == Unexpired(k)
          IN  /\ ~(DedupEnabled /\ contains(ring, rf.frame))
              /\ dedup' = IF ~DedupEnabled THEN dedup
                          ELSE Append(IF Len(ring) >= DedupCapacity THEN Tail(ring)
                                      ELSE ring, rf.frame)
    /\ LearnAndDispatch(rf)

handle_frame(rf) ==
    /\ FrameFromNowhere(rf) \/ FrameDuplicate(rf) \/ FrameFresh(rf)
    /\ UNCHANGED <<stats_ch, stats_events_dropped>>

-----------------------------------------------------------------------------
(* run_inner: the biased select, the final drain, the sweep. *)

\* Cancel and events are polled first.  The two polls are one step: an event
\* taken just after the token fired would be taken by the drain all the same.
PollCancel ==
    /\ pc = "events" /\ cancelled
    /\ pc' = "drain"
    /\ UNCHANGED <<channels, cancelled, registry, tx, stats, stats_events_dropped>>

TakeEvent ==
    /\ pc = "drain" \/ (pc = "events" /\ ~cancelled)
    /\ event_ch # <<>>
    /\ handle_event(Head(event_ch))
    /\ event_ch' = Tail(event_ch)
    /\ UNCHANGED <<frame_ch, stats_open, cancelled, pc>>

NoEvent ==
    /\ pc = "events" /\ ~cancelled /\ event_ch = <<>>
    /\ pc' = "frames"
    /\ UNCHANGED <<channels, cancelled, registry, tx, stats, stats_events_dropped>>

TakeFrame ==
    /\ pc = "frames" /\ frame_ch # <<>>
    /\ handle_frame(Head(frame_ch))
    /\ frame_ch' = Tail(frame_ch)
    /\ pc' = "events"
    /\ UNCHANGED <<event_ch, stats_open, cancelled>>

\* Nothing ready: poll again when woken.  The cancel branch is never disabled, so
\* `else => break' is not taken even when every sender is gone.
NoFrame ==
    /\ pc = "frames" /\ frame_ch = <<>>
    /\ pc' = "events"
    /\ UNCHANGED <<channels, cancelled, registry, tx, stats, stats_events_dropped>>

\* try_recv finds the channel empty; an event sent from here on is lost.
DrainedEvents ==
    /\ pc = "drain" /\ event_ch = <<>>
    /\ pc' = "sweep"
    /\ UNCHANGED <<channels, cancelled, registry, tx, stats, stats_events_dropped>>

\* Every remaining endpoint, in the order of a HashMap, goes Down and is
\* finalised; the stats task may take events in between.
SweepOne(id) ==
    /\ pc = "sweep" /\ id \in DOMAIN routing
    /\ routing' = Delete(routing, id)
    /\ stats' = [stats EXCEPT ![id].state = "Down"]
    /\ forward_stats([type |-> "Finalize", id |-> id])
    /\ UNCHANGED <<event_ch, frame_ch, stats_open, cancelled, pc, groups, dedup, tx>>

\* run_inner returns: the receivers are dropped with whatever they hold.
SweepDone ==
    /\ pc = "sweep" /\ DOMAIN routing = {}
    /\ pc' = "done"
    /\ event_ch' = <<>> /\ frame_ch' = <<>>
    /\ UNCHANGED <<stats_ch, stats_open, cancelled, registry, tx, stats,
                   stats_events_dropped>>

RouterNext ==
    \/ PollCancel
    \/ TakeEvent
    \/ NoEvent
    \/ TakeFrame
    \/ NoFrame
    \/ DrainedEvents
    \/ \E id \in Ids : SweepOne(id)
    \/ SweepDone

=============================================================================
