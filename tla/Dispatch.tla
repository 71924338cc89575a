------------------------------- MODULE Dispatch -------------------------------
(***************************************************************************)
(* The router at work on a set of registered endpoints, with a history of  *)
(* the frames it took.  The leaves stay; a listener's peer may leave, and  *)
(* its removal overtakes the frames it still has in the channel.  What the *)
(* learn tables, the groups and the dedup window make of a frame is        *)
(* compared with what the history says should become of it.                *)
(***************************************************************************)
EXTENDS RouterSystem

CONSTANT MaxFrames         \* bound on the frames sent to the router

VARIABLE
    log                    \* frames taken: [src, frame, up, dup, to], oldest first

Listeners == {e \in 1..Len(Endpoints) : Endpoints[e].listener}

Leaves == {e \in 1..Len(Endpoints) : ~Endpoints[e].listener}

ASSUME DispatchAssumption ==
    /\ MaxId = Len(Endpoints) + Cardinality(Listeners)
    /\ Cardinality(Listeners) <= 1
    /\ \A l \in Listeners :                 \* a peer's group outlives the peer
          Identity(l).group \in {NoGroup} \cup {Identity(e).group : e \in Leaves}
    /\ MaxFrames \in Nat
    /\ TX_QUEUE_FRAMES >= MaxFrames    \* so that a queue shows all it was given

GroupNames == {Identity(e).group : e \in 1..Len(Endpoints)} \ {NoGroup}

\* Each endpoint has its own position as its id; the listener's peer comes last.
InitialWho(id) ==
    IF id \in Leaves THEN [kind |-> "leaf", spec |-> id]
    ELSE IF id \in Listeners THEN [kind |-> "listener", spec |-> id]
    ELSE [kind |-> "peer", spec |-> CHOOSE l \in Listeners : TRUE]

\* All are up: spawned, registered, and mirrored by the stats task.
DispatchInit ==
    /\ event_ch = <<>> /\ frame_ch = <<>> /\ stats_ch = <<>>
    /\ stats_open = TRUE
    /\ cancelled = FALSE
    /\ pc = "events"
    /\ who = [id \in Ids |-> InitialWho(id)]
    /\ routing = [id \in Ids |-> [routable |-> id \notin Listeners, spec |-> who[id].spec,
                                 learn |-> <<>>]]
    /\ groups = [g \in GroupNames |->
                    [learn |-> <<>>,
                     members |-> Cardinality({id \in Ids \ Listeners :
                                                Identity(who[id].spec).group = g})]]
    /\ dedup = <<>>
    /\ tx = [id \in Ids |-> <<>>]
    /\ stats = [id \in Ids |-> [InitialStats EXCEPT !.state = "Connected"]]
    /\ stats_events_dropped = 0
    /\ next_id = MaxId + 1
    /\ spawned = Len(Endpoints)
    /\ life = [id \in Ids |-> "live"]
    /\ sent = 0
    /\ writing = {}
    /\ mirror = Ids
    /\ log = <<>>

Logged ==
    log' = IF frame_ch # <<>> /\ pc = "frames"
           THEN Append(log, [src |-> Head(frame_ch).endpoint_id,
                             frame |-> Head(frame_ch).frame,
                             up |-> {id \in Ids : Routable(id)},
                             dup |-> \E id \in Ids :
                                        stats'[id].dedup_drops > stats[id].dedup_drops,
                             to |-> {d \in Ids : Len(tx'[d]) > Len(tx[d])}])
           ELSE log

DispatchNext ==
    \/ Route /\ Logged
    \/ \E id \in Ids, frame \in Frames :
           sent < MaxFrames /\ Forward(id, frame) /\ UNCHANGED log
    \/ \E id \in Ids, reason \in Reasons : Depart(id, reason) /\ UNCHANGED log

DispatchSpec == DispatchInit /\ [][DispatchNext]_<<vars, log>>

-----------------------------------------------------------------------------
(* Properties. *)

Group(id) == Identity(who[id].spec).group

\* The link of an endpoint: the endpoint itself, or its whole group.
SameLink(a, b) == a = b \/ (Group(a) # NoGroup /\ Group(a) = Group(b))

\* The positions, up to n, of the frames the router let in: their source was still
\* registered when they were taken, and they were no copies.
LetIn(n) == {i \in 1..n : log[i].src \in log[i].up /\ ~log[i].dup}

\* Those of them that d's link brought in.
Heard(d, n) == {i \in LetIn(n) : SameLink(log[i].src, d)}

\* The LEARN_CAPACITY nodes d's link heard last: fewer others were heard since.
Recent(d, n) ==
    LET heard == Heard(d, n)
    IN  {Source(log[i].frame) : i \in {h \in heard :
            Cardinality({Source(log[j].frame) : j \in {k \in heard : k > h}}) < LEARN_CAPACITY}}

Learn(d) == IF Group(d) = NoGroup THEN routing[d].learn ELSE groups[Group(d)].learn

\* A learn table holds exactly the LEARN_CAPACITY nodes its link heard last, however
\* the frames of a group's members interleave (touch, evict_oldest).  A suppressed
\* duplicate teaches nothing, nor does a frame whose peer was removed before the
\* router came to it, although the group it belonged to lives on.
LearnsMostRecent ==
    \A d \in Ids : Routable(d) =>
        {Learn(d)[i] : i \in DOMAIN Learn(d)} = Recent(d, Len(log))

\* The frame taken last: the others were the last one in an earlier state.
Latest == {Len(log)} \ {0}

\* Does a node of the link answer to the frame's target?
Addressed(frame, nodes) ==
    \/ frame.target_system \in {None, 0}
    \/ \E node \in nodes :
          /\ node.sys = frame.target_system
          /\ frame.target_component \in {None, 0, node.comp}

\* Frame n is a copy of one of the last DedupCapacity frames that were let in, from
\* whatever endpoint; a copy does not prolong the window.
RecentCopy(n) ==
    \E i \in LetIn(n - 1) :
        /\ log[i].frame = log[n].frame
        /\ Cardinality({j \in LetIn(n - 1) : j > i}) < DedupCapacity

\* Each frame went to exactly the sniffers, and to the links that did not recently
\* hear its sender, that take it, and that recently heard its target: once per
\* frame, never to its source, and nowhere if it is a duplicate, which only a recent
\* copy can be (check_and_insert inserts, but does not refresh), or if its source
\* is gone.  A frame that is dropped for that never suppresses a copy of it.
RoutedByHistory ==
    \A n \in Latest :
        /\ log[n].dup => RecentCopy(n)
        /\ log[n].to =
              {d \in log[n].up \ {log[n].src} :
                  LET recent == Recent(d, n)
                  IN  /\ n \in LetIn(n)
                      /\ \/ Identity(who[d].spec).sniffer
                         \/ /\ passes_out_filter(Identity(who[d].spec).filters, log[n].frame,
                                                 who[log[n].src].spec)
                            /\ Source(log[n].frame) \notin recent
                            /\ Addressed(log[n].frame, recent)}

=============================================================================
