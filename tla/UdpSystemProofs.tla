--------------------------- MODULE UdpSystemProofs ---------------------------
(***************************************************************************)
(* A udps: listener and its writers within the system: they implement      *)
(* RouterSystem, and the listener's table and the router's registry agree. *)
(***************************************************************************)
EXTENDS UdpRefinement, UdpProofs

-----------------------------------------------------------------------------
(* What the abstract specification sees. *)

View(id) ==
    IF task[id] \in {"none", "announce"} THEN task[id]
    ELSE IF Over(id) THEN "gone" ELSE "live"

\* The same of a listener, which depends on its position alone.
LifeAt(position) ==
    IF position \in {"none", "announce"} THEN position
    ELSE IF position = "ended" THEN "gone" ELSE "live"

LEMMA LifeIs == Life = [id \in Ids |-> View(id)]
BY Zenon DEF Life, View

-----------------------------------------------------------------------------
(* The refinement. *)

\* Every step of the listener, its writers and the router is a step of RouterSystem or a
\* stutter: first the steps of a listener alone, then those with a peer, then a writer's.
LEMMA StepRefines == Inv /\ Ownership /\ [Next]_vars => [RS!Next]_(RS!vars)
<1>LifePrimed.      Life' = [id \in Ids |-> View(id)']
  BY Zenon DEF Life, View
<1>LifeSet.
    ASSUME NEW id \in Ids, NEW seen, View(id)' = seen, \A x \in Ids : x # id => View(x)' = View(x)
    PROVE  /\ Life[id] = View(id) /\ Life' = [Life EXCEPT ![id] = seen]
           /\ View(id) = seen => Life' = Life
  BY <1>LifeSet, LifeIs, <1>LifePrimed, ZenonT(60)
<1>ViewKept.
    ASSUME NEW x \in Ids, task'[x] = task[x], who'[x] = who[x],
           x \in removed' <=> x \in removed
    PROVE  View(x)' = View(x)
  BY <1>ViewKept, Zenon DEF View, Over, Peer, At
<1>WritingKept.
    ASSUME \A x \in Ids : task'[x] = "send" <=> task[x] = "send"
    PROVE  Writing' = Writing
  BY <1>WritingKept, Zenon DEF Writing, At
<1>EndpointNext.
    ASSUME NEW id \in Ids, RS!Endpoint(id)
    PROVE  RS!Next
  BY <1>EndpointNext, Zenon DEF RS!Next, RS!Ids, Ids
\* A step that no task takes.
<1>SameLife.
    ASSUME UNCHANGED <<task, who, removed>>
    PROVE  Life' = Life /\ Writing' = Writing
  BY <1>SameLife, ZenonT(60) DEF Life, Over, Peer, At, Writing
\* The router is the same in both.
<1>RouteNext.      Route /\ UNCHANGED udpVars => RS!Next
  <2>1. RouterNext <=> RS!RouterNext
    BY Zenon
       DEF RouterNext, PollCancel, TakeEvent, NoEvent, TakeFrame, NoFrame, DrainedEvents,
           SweepOne, SweepDone, handle_event, HandleAdded, HandleRemoved, forward_stats, join,
           leave, Insert, Delete, Identity, GroupOf, NoGroup, FinalState, handle_frame,
           FrameFromNowhere, FrameDuplicate, FrameFresh, LearnAndDispatch, Delivered, Counted,
           Verdict, decide, contains, Source, passes_out_filter, PassAxis, target_match,
           contains_sys, None, touch, Without, push, Routable, Unexpired, channels, registry,
           Ids, RS!RouterNext, RS!PollCancel, RS!TakeEvent, RS!NoEvent, RS!TakeFrame, RS!NoFrame,
           RS!DrainedEvents, RS!SweepOne, RS!SweepDone, RS!handle_event, RS!HandleAdded,
           RS!HandleRemoved, RS!forward_stats, RS!join, RS!leave, RS!Insert, RS!Delete,
           RS!Identity, RS!GroupOf, RS!NoGroup, RS!FinalState, RS!handle_frame,
           RS!FrameFromNowhere, RS!FrameDuplicate, RS!FrameFresh, RS!LearnAndDispatch,
           RS!Delivered, RS!Counted, RS!Verdict, RS!decide, RS!contains, RS!Source,
           RS!passes_out_filter, RS!PassAxis, RS!target_match, RS!contains_sys, RS!None,
           RS!touch, RS!Without, RS!push, RS!Routable, RS!Unexpired, RS!channels, RS!registry,
           RS!Ids
  <2>2. ASSUME Route, UNCHANGED udpVars PROVE RS!Route
    <3>1. UNCHANGED <<next_id, spawned, who, sent, task, removed>>
      BY <2>2, Zenon DEF Route, transportVars, allocVars, udpVars
    <3>2. Life' = Life /\ Writing' = Writing
      BY <3>1, <1>SameLife, Zenon
    <3> QED
      BY <2>1, <2>2, <3>1, <3>2, ZenonT(60) DEF Route, RS!Route, RS!envVars
  <2> QED
    BY <2>2, ZenonT(60) DEF RS!Next
<1>CancelNext.      Cancel /\ UNCHANGED udpVars => RS!Next
  <2> SUFFICES ASSUME Cancel, UNCHANGED udpVars PROVE RS!Cancel
    BY Zenon DEF RS!Next
  <2>1. Life' = Life /\ Writing' = Writing
    BY <1>SameLife, Zenon DEF Cancel, transportVars, allocVars, udpVars
  <2> QED
    BY <2>1, Zenon DEF Cancel, RS!Cancel, RS!envVars, transportVars, allocVars, channels, registry,
                RS!channels, RS!registry
<1>SpawnNext.
    ASSUME Inv, Ownership, SpawnEndpoint, UNCHANGED udpVars
    PROVE  RS!Next
  <2> USE <1>SpawnNext
  <2>0. next_id <= MaxId /\ next_id \in Ids
    BY FreshId, Zenon DEF SpawnEndpoint, Alloc
  <2> PICK n \in Ids : n = next_id
    BY <2>0, Zenon
  <2>1. /\ task' = [task EXCEPT ![n] = "announce"] /\ task[n] = "none"
        /\ removed' = removed /\ \A x \in Ids : x # n => who'[x] = who[x]
    BY FreshId, Zenon DEF SpawnEndpoint, Alloc, Goto, udpVars, Ownership
  <2>2. task'[n] = "announce" /\ \A x \in Ids : x # n => task'[x] = task[x]
    BY <2>1, Zenon DEF Inv, TypeOK
  <2>3. View(n)' = "announce" /\ \A x \in Ids : x # n => View(x)' = View(x)
    BY <2>1, <2>2, <1>ViewKept, ZenonT(60) DEF View
  <2>4. Life' = [Life EXCEPT ![n] = "announce"]
    BY <2>3, <1>LifeSet, Zenon
  <2>5. Writing' = Writing
    BY <2>1, <2>2, <1>WritingKept, ZenonT(60)
  <2>6. ~RS!Announcing({"leaf", "listener"}, spawned)
    <3> SUFFICES ASSUME NEW id \in Ids, Life[id] = "announce", who[id].kind \in {"leaf", "listener"}
                 PROVE  FALSE
      BY Zenon DEF RS!Announcing, RS!Ids, Ids
    <3>1. task[id] = "announce"
      BY LifeIs, Zenon DEF View
    <3>2. ~Peer(id)
      BY Zenon DEF Peer
    <3> QED
      BY <3>1, <3>2, Zenon DEF SpawnEndpoint, At
  <2>7. RS!SpawnEndpoint
    BY <2>4, <2>5, <2>6, ZenonT(60)
       DEF SpawnEndpoint, Alloc, RS!SpawnEndpoint, RS!Alloc, routerVars, RS!routerVars, channels,
           registry, RS!channels, RS!registry
  <2> QED
    BY <2>7, Zenon DEF RS!Next
\* A listener goes on; nothing happens to its peers.
<1>ListenerLife.
    ASSUME TypeOK, NEW l \in Ids, Listener(l), NEW to, task' = [task EXCEPT ![l] = to],
           UNCHANGED <<who, removed>>
    PROVE  /\ Life[l] = LifeAt(task[l]) /\ Life' = [Life EXCEPT ![l] = LifeAt(to)]
           /\ LifeAt(task[l]) = LifeAt(to) => Life' = Life
           /\ task[l] # "send" /\ to # "send" => Writing' = Writing
  <2> USE <1>ListenerLife
  <2>1. task'[l] = to /\ \A x \in Ids : x # l => task'[x] = task[x]
    BY Zenon DEF TypeOK
  <2>2. View(l) = LifeAt(task[l]) /\ View(l)' = LifeAt(to)
    BY <2>1, Zenon DEF View, LifeAt, Over, Listener, Peer, At
  <2>3. \A x \in Ids : x # l => View(x)' = View(x)
    BY <2>1, <1>ViewKept, Zenon
  <2>4. task[l] # "send" /\ to # "send" => Writing' = Writing
    BY <2>1, <1>WritingKept, Zenon
  <2>5. Life[l] = View(l) /\ Life' = [Life EXCEPT ![l] = LifeAt(to)]
        /\ (View(l) = LifeAt(to) => Life' = Life)
    BY <2>2, <2>3, <1>LifeSet, Zenon
  <2> QED
    BY <2>2, <2>4, <2>5, ZenonT(60)
\* A step of a listener between two positions that look alike to the router.
<1>ListenerStutters.
    ASSUME TypeOK, NEW l \in Ids, Listener(l), NEW from, NEW to, Local(l, from, to),
           removed' = removed, LifeAt(to) = LifeAt(from), from # "send", to # "send"
    PROVE  UNCHANGED RS!vars
  <2> USE <1>ListenerStutters
  <2>1. task[l] = from /\ task' = [task EXCEPT ![l] = to] /\ who' = who
    BY Zenon DEF Local, At, Goto, allocVars
  <2>2. Life' = Life /\ Writing' = Writing
    BY <2>1, <1>ListenerLife, Zenon
  <2> QED
    BY <2>2, Zenon DEF Local, RS!vars, RS!envVars, routerVars, RS!routerVars, allocVars, channels,
                registry, RS!channels, RS!registry
<1>HeadNext.
    ASSUME Inv, NEW l \in Ids, Listener(l),
           Announce(l) \/ AnnounceFails(l) \/ (Listening(l) /\ UNCHANGED udpVars)
    PROVE  RS!Next
  <2> USE <1>HeadNext
  <2>0. /\ TypeOK /\ LifeAt("announce") = "announce" /\ LifeAt("ended") = "gone"
        /\ LifeAt("bind") = "live" /\ LifeAt("bound") = "live" /\ LifeAt("listen") = "live"
    BY Zenon DEF Inv, LifeAt
  <2>1. CASE Announce(l)
    <3>1. /\ task[l] = "announce" /\ task' = [task EXCEPT ![l] = "bind"]
          /\ who' = who /\ removed' = removed
      BY <2>1, Zenon DEF Announce, SendAdded, Goto, At, udpVars, allocVars
    <3>2. Life[l] = "announce" /\ Life' = [Life EXCEPT ![l] = "live"] /\ Writing' = Writing
      BY <2>0, <3>1, <1>ListenerLife, ZenonT(60)
    <3>3. RS!Announce(l)
      BY <2>1, <3>2, Zenon
         DEF Announce, SendAdded, RS!Announce, RS!Added, RS!Peer, RS!Listener, Peer, Listener,
             RouterClosed, RS!RouterClosed, allocVars, channels, registry, RS!channels,
             RS!registry
    <3> QED
      BY <3>3, <1>EndpointNext, Zenon DEF RS!Endpoint
  <2>2. CASE AnnounceFails(l)
    <3>1. /\ task[l] = "announce" /\ task' = [task EXCEPT ![l] = "ended"]
          /\ who' = who /\ removed' = removed
      BY <2>2, Zenon DEF AnnounceFails, Move, Local, Goto, At, udpVars, allocVars
    <3>2. Life[l] = "announce" /\ Life' = [Life EXCEPT ![l] = "gone"] /\ Writing' = Writing
      BY <2>0, <3>1, <1>ListenerLife, ZenonT(60)
    <3>3. RS!AnnounceFails(l)
      BY <2>2, <3>2, Zenon DEF AnnounceFails, Move, Local, RS!AnnounceFails, RouterClosed,
                        RS!RouterClosed, allocVars, routerVars, RS!routerVars, channels, registry,
                        RS!channels, RS!registry
    <3> QED
      BY <3>3, <1>EndpointNext, Zenon DEF RS!Endpoint
  <2>3. CASE Listening(l) /\ UNCHANGED udpVars
    <3>1. /\ task[l] = "bound" /\ task' = [task EXCEPT ![l] = "listen"]
          /\ who' = who /\ removed' = removed
      BY <2>3, Zenon DEF Listening, StoreState, Goto, At, udpVars, allocVars
    <3>2. Life[l] = "live" /\ Life' = Life /\ Writing' = Writing
      BY <2>0, <3>1, <1>ListenerLife, ZenonT(60)
    <3>3. ~RS!Peer(l)
      BY Zenon DEF Listener, RS!Peer
    <3>4. RS!StoreState(l, "Connected")
      BY <2>3, <3>2, <3>3, Zenon
         DEF Listening, StoreState, RS!StoreState, RS!envVars, allocVars, channels, registry,
             RS!channels, RS!registry
    <3> QED
      BY <3>4, <1>EndpointNext, Zenon DEF RS!Endpoint
  <2> QED
    BY <2>1, <2>2, <2>3, Zenon
\* A listener returns: the token is set and the router was told of the end of each peer.
<1>ExitNext.
    ASSUME Inv, cancelled, NEW l \in Ids, Listener(l), NEW from, Local(l, from, "ended"),
           from \in {"bind", "join"}, removed' = removed,
           \A c \in Children(l) : View(c) = "gone"
    PROVE  RS!Next
  <2> USE <1>ExitNext
  <2>1. /\ task[l] = from /\ task' = [task EXCEPT ![l] = "ended"] /\ who' = who
        /\ TypeOK
    BY Zenon DEF Local, At, Goto, allocVars, Inv
  <2>2. Life[l] = "live" /\ Life' = [Life EXCEPT ![l] = "gone"] /\ Writing' = Writing
    BY <2>1, <1>ListenerLife, Zenon DEF LifeAt
  <2>3. ~RS!Peer(l)
    BY Zenon DEF Listener, RS!Peer
  <2>4. \A c \in Ids : RS!Peer(c) /\ who[c].spec = who[l].spec => Life[c] = "gone"
    BY LifeIs, Zenon DEF Children, Peer, RS!Peer
  <2>5. RS!Exit(l)
    BY <2>2, <2>3, <2>4, Zenon DEF Local, RS!Exit, allocVars, routerVars, RS!routerVars, channels,
                            registry, RS!channels, RS!registry, Ids, RS!Ids
  <2> QED
    BY <2>5, <1>EndpointNext, Zenon DEF RS!Endpoint
<1>EndsNext.
    ASSUME Inv, Ownership, NEW l \in Ids, Listener(l),
           (BindCancelled(l) /\ UNCHANGED udpVars) \/ JoinWriters(l)
    PROVE  RS!Next
  <2> USE <1>EndsNext
  <2>1. Owned(l)
    BY ListenerFacts, Zenon
  <2>2. CASE BindCancelled(l) /\ UNCHANGED udpVars
    <3>1. cancelled /\ Local(l, "bind", "ended") /\ removed' = removed /\ task[l] = "bind"
      BY <2>2, Zenon DEF BindCancelled, Local, At, udpVars
    <3>2. Children(l) = {}
      BY <2>1, <3>1, Zenon DEF Owned, Preparing
    <3> QED
      BY <3>1, <3>2, <1>ExitNext, Zenon
  <2>3. CASE JoinWriters(l)
    <3>1. Local(l, "join", "ended") /\ removed' = removed /\ task[l] = "join"
      BY <2>3, Zenon DEF JoinWriters, Move, Local, At, udpVars
    <3>2. cancelled /\ Roster(l) = {} /\ ~At(l, "admit") /\ ~At(l, "admitted") /\ ~Evicting(l)
      BY <2>1, <3>1, Zenon DEF Owned, Removals, At, Roster, Leaving, Evicting
    <3>3. ASSUME NEW c \in Children(l) PROVE View(c) = "gone"
      <4>1. Status(l, c) /\ Peer(c)
        BY <2>1, Zenon DEF Owned, Children
      <4>2. \/ c \in removed /\ task[c] \in Started
            \/ task[c] = "refused"
        BY <3>2, <4>1, Zenon DEF Status
      <4> QED
        BY <4>1, <4>2, Zenon DEF View, Over, At, Started
    <3> QED
      BY <3>1, <3>2, <3>3, <1>ExitNext, Zenon
  <2> QED
    BY <2>2, <2>3, Zenon
<1>StrangerNext.
    ASSUME Inv, Ownership, NEW l \in Ids, Listener(l), NEW src, NEW frames,
           PacketFromStranger(l, src, frames)
    PROVE  RS!Next
  <2> USE <1>StrangerNext
  <2>0. next_id <= MaxId /\ next_id \in Ids
    BY FreshId, Zenon DEF PacketFromStranger, AdmitPeer, Alloc
  <2> PICK n \in Ids : n = next_id
    BY <2>0, Zenon
  <2>1. /\ task' = [task EXCEPT ![l] = "admit", ![n] = "announce"] /\ task[n] = "none"
        /\ task[l] = "listen" /\ n # l
        /\ removed' = removed /\ \A x \in Ids : x # n => who'[x] = who[x]
    BY FreshId, Zenon DEF PacketFromStranger, AdmitPeer, Alloc, At, Ownership
  <2>2. /\ task'[n] = "announce" /\ task'[l] = "admit"
        /\ \A x \in Ids : x # n /\ x # l => task'[x] = task[x]
    BY <2>1, Zenon DEF Inv, TypeOK
  <2>3. View(l) = "live" /\ View(l)' = "live"
    BY <2>1, <2>2, Zenon DEF View, Over, Listener, Peer, At
  <2>4. View(n)' = "announce" /\ \A x \in Ids : x # n => View(x)' = View(x)
    BY <2>1, <2>2, <2>3, <1>ViewKept, ZenonT(60) DEF View
  <2>5. Life' = [Life EXCEPT ![n] = "announce"] /\ Life[l] = "live"
    BY <2>3, <2>4, <1>LifeSet, LifeIs, ZenonT(60)
  <2>6. Writing' = Writing
    BY <2>1, <2>2, <1>WritingKept, ZenonT(60)
  <2>7. ~RS!Announcing({"peer"}, who[l].spec)
    <3> SUFFICES ASSUME NEW c \in Ids, Life[c] = "announce", who[c].kind = "peer",
                        who[c].spec = who[l].spec
                 PROVE  FALSE
      BY Zenon DEF RS!Announcing, RS!Ids, Ids
    <3>1. task[c] = "announce" /\ c \in Children(l)
      BY LifeIs, Zenon DEF View, Children, Peer
    <3>2. Status(l, c)
      BY <3>1, ListenerFacts, Zenon DEF Owned
    <3> QED
      BY <2>1, <3>1, <3>2, ZenonT(60) DEF Status, Started, At
  <2>8. RS!AdmitPeer(l)
    BY <2>5, <2>6, <2>7, ZenonT(60) DEF PacketFromStranger, AdmitPeer, Alloc, Listener, RS!Listener,
          RS!AdmitPeer, RS!Alloc, channels, registry, RS!channels, RS!registry
  <2> QED
    BY <2>8, <1>EndpointNext, Zenon DEF RS!Endpoint
\* A listener and one of its peers go on.
<1>PairLife.
    ASSUME NEW l \in Ids, Listener(l), NEW c \in Ids, Peer(c), UNCHANGED <<who, removed>>,
           LifeAt(task[l]) = "live", LifeAt(task'[l]) = "live",
           task[l] # "send", task'[l] # "send", task[c] # "send", task'[c] # "send",
           \A x \in Ids : x # l /\ x # c => task'[x] = task[x]
    PROVE  /\ Writing' = Writing
           /\ Life[c] = View(c) /\ Life' = [Life EXCEPT ![c] = View(c)']
           /\ View(c)' = View(c) => Life' = Life
  <2> USE <1>PairLife
  <2>2. View(l)' = View(l)
    BY Zenon DEF View, LifeAt, Over, Listener, Peer, At
  <2>3. \A x \in Ids : x # c => View(x)' = View(x)
    BY <2>2, <1>ViewKept, Zenon
  <2>4. PICK seen : seen = View(c)'
    BY Zenon
  <2>5. Life[c] = View(c) /\ Life' = [Life EXCEPT ![c] = seen] /\ (View(c) = seen => Life' = Life)
    BY <2>3, <2>4, <1>LifeSet, Zenon
  <2>6. Writing' = Writing
    BY <1>WritingKept, Zenon
  <2> QED
    BY <2>4, <2>5, <2>6, ZenonT(60)
<1>AnnouncedNext.
    ASSUME Inv, Ownership, NEW l \in Ids, Listener(l), NEW c \in Ids,
           SendPeerAdded(l, c) \/ AdmitFails(l, c)
    PROVE  RS!Next
  <2> USE <1>AnnouncedNext
  <2>1. /\ TypeOK /\ task[l] = "admit" /\ task[c] = "announce" /\ c \in Children(l) /\ Peer(c)
        /\ who' = who /\ removed' = removed
    BY Zenon
       DEF Inv, SendPeerAdded, AdmitFails, Admitted, SendAdded, At, Children, udpVars, allocVars
  <2>2. c \notin removed
    BY <2>1, ListenerFacts, AdmissionFacts, Zenon DEF InAdmission
  <2>3. /\ LifeAt(task[l]) = "live" /\ LifeAt("admitted") = "live" /\ LifeAt("listen") = "live"
        /\ task[l] # "send" /\ task[c] # "send" /\ l # c
    BY <2>1, Zenon DEF LifeAt, Peer, Listener
  <2>4. CASE SendPeerAdded(l, c)
    <3>1. task' = [task EXCEPT ![l] = "admitted", ![c] = "pending"]
      BY <2>4, Zenon DEF SendPeerAdded
    <3>2. /\ task'[c] = "pending" /\ task'[l] = "admitted"
          /\ \A x \in Ids : x # l /\ x # c => task'[x] = task[x]
      BY <2>1, <2>3, <3>1, ZenonT(60) DEF TypeOK
    <3>3. /\ Writing' = Writing
          /\ Life[c] = View(c) /\ Life' = [Life EXCEPT ![c] = View(c)']
      BY <2>1, <2>3, <3>2, <1>PairLife, ZenonT(60)
    <3>4. View(c) = "announce" /\ View(c)' = "live"
      BY <2>1, <2>2, <3>2, Zenon DEF View, Over, Peer, At
    <3>5. RS!Announce(c)
      BY <2>4, <3>3, <3>4, Zenon DEF SendPeerAdded, SendAdded, RS!Announce, RS!Added, RS!Peer,
            RS!Listener, Peer, Listener, RouterClosed, RS!RouterClosed, allocVars, channels,
            registry, RS!channels, RS!registry
    <3> QED
      BY <3>5, <1>EndpointNext, Zenon DEF RS!Endpoint
  <2>5. CASE AdmitFails(l, c)
    <3>1. task' = [task EXCEPT ![l] = "listen", ![c] = "refused"]
      BY <2>5, Zenon DEF AdmitFails
    <3>2. /\ task'[c] = "refused" /\ task'[l] = "listen"
          /\ \A x \in Ids : x # l /\ x # c => task'[x] = task[x]
      BY <2>1, <2>3, <3>1, ZenonT(60) DEF TypeOK
    <3>3. /\ Writing' = Writing
          /\ Life[c] = View(c) /\ Life' = [Life EXCEPT ![c] = View(c)']
      BY <2>1, <2>3, <3>2, <1>PairLife, ZenonT(60)
    <3>4. View(c) = "announce" /\ View(c)' = "gone"
      BY <2>1, <2>2, <3>2, Zenon DEF View, Over, Peer, At
    <3>5. RS!AnnounceFails(c)
      BY <2>5, <3>3, <3>4, ZenonT(60) DEF AdmitFails, RS!AnnounceFails, RouterClosed,
                        RS!RouterClosed, allocVars, routerVars, RS!routerVars, channels, registry,
                        RS!channels, RS!registry
    <3> QED
      BY <3>5, <1>EndpointNext, Zenon DEF RS!Endpoint
  <2> QED
    BY <2>4, <2>5, Zenon
<1>InsertStutters.
    ASSUME Inv, Ownership, NEW l \in Ids, Listener(l), NEW c \in Ids, InsertPeer(l, c)
    PROVE  UNCHANGED RS!vars
  <2> USE <1>InsertStutters
  <2>1. /\ TypeOK /\ task[l] \in {"admitted", "evicted"} /\ task[c] = "pending"
        /\ c \in Children(l) /\ Peer(c) /\ who' = who /\ removed' = removed
        /\ task' = [task EXCEPT ![l] = "forward", ![c] = "wait"]
    BY Zenon DEF Inv, InsertPeer, At, Children, allocVars
  <2>2. /\ LifeAt(task[l]) = "live" /\ LifeAt("forward") = "live" /\ task[l] # "send"
        /\ task[c] # "send" /\ l # c
    BY <2>1, Zenon DEF LifeAt, Peer, Listener
  <2>3. /\ task'[c] = "wait" /\ task'[l] = "forward"
        /\ \A x \in Ids : x # l /\ x # c => task'[x] = task[x]
    BY <2>1, <2>2, Zenon DEF TypeOK
  <2>4. Writing' = Writing /\ (View(c)' = View(c) => Life' = Life)
    BY <2>1, <2>2, <2>3, <1>PairLife, ZenonT(60)
  <2>5. View(c)' = View(c)
    BY <2>1, <2>3, Zenon DEF View, Over, Peer, At
  <2> QED
    BY <2>4, <2>5, ZenonT(60) DEF InsertPeer, RS!vars, RS!envVars, routerVars, RS!routerVars, allocVars,
                      channels, registry, RS!channels, RS!registry
<1>RemovedNext.
    ASSUME Inv, Ownership, NEW l \in Ids, Listener(l), NEW c \in Ids, SendPeerRemoved(l, c)
    PROVE  RS!Next
  <2> USE <1>RemovedNext
  <2> DEFINE to == IF reason[l] = "LruEvicted" THEN "evicted" ELSE "reap"
  <2>1. /\ task[l] = "removing" /\ task' = [task EXCEPT ![l] = to] /\ who' = who
        /\ removed' = removed \cup {c} /\ c \in victims[l] \ IdsOf(l)
    BY Zenon DEF SendPeerRemoved, SendRemoved, Goto, At, allocVars
  <2>2. to # "send" /\ LifeAt(to) = "live" /\ LifeAt("removing") = "live"
    BY Zenon DEF LifeAt
  <2> HIDE DEF to
  <2>3. c \in Roster(l) /\ Owned(l)
    BY <2>1, ListenerFacts, Zenon DEF Roster, Leaving, At
  <2>4. Peer(c) /\ c \notin removed /\ task[c] \in Started /\ reason[l] \in Reasons
    BY <2>1, <2>3, Zenon DEF Owned, Children, Status, Removals, At
  <2>5. c # l
    BY <2>4, Zenon DEF Peer, Listener
  <2>6. task'[l] = to /\ \A x \in Ids : x # l => task'[x] = task[x]
    BY <2>1, Zenon DEF Inv, TypeOK
  <2>7. View(l)' = View(l)
    BY <2>1, <2>2, <2>5, <2>6, ZenonT(60) DEF View, LifeAt, Over, Listener, Peer, At
  <2>8. \A x \in Ids : x # c => View(x)' = View(x)
    BY <2>1, <2>6, <2>7, <1>ViewKept, ZenonT(60)
  <2>9. View(c) = "live" /\ View(c)' = "gone"
    BY <2>1, <2>4, <2>5, <2>6, ZenonT(60) DEF View, Over, Peer, At, Started
  <2>10. Life[c] = "live" /\ Life' = [Life EXCEPT ![c] = "gone"]
    BY <2>8, <2>9, <1>LifeSet, Zenon
  <2>11. Writing' = Writing
    BY <2>1, <2>2, <2>6, <1>WritingKept, ZenonT(60)
  <2>12. RS!Depart(c, reason[l])
    BY <2>4, <2>10, <2>11, ZenonT(60)
       DEF SendPeerRemoved, SendRemoved, RS!Depart, Peer, RS!Peer, RouterClosed, RS!RouterClosed,
           allocVars, channels, registry, RS!channels, RS!registry
  <2> QED
    BY <2>4, <2>12, <1>EndpointNext, Zenon DEF RS!Endpoint
\* The peer whose datagram is in hand is in the table, hence live.
<1>ForwardNext.
    ASSUME Inv, Ownership, NEW l \in Ids, Listener(l), ForwardFrame(l)
    PROVE  RS!Next
  <2> USE <1>ForwardNext
  <2>1. /\ task[l] = "forward" /\ packet[l].frames # <<>> /\ PassesIn(l)
        /\ UNCHANGED <<task, who, removed>>
    BY Zenon DEF ForwardFrame, SendFrame, At, allocVars
  <2>2. Life' = Life /\ Writing' = Writing
    BY <2>1, <1>SameLife, Zenon
  <2>3. /\ Owned(l) /\ Table(l) /\ peers[l] \in Seq(Entry) /\ IdsOf(l) \subseteq Children(l)
    BY ListenerFacts, Zenon
  <2>4. Place(l, packet[l].src) \in DOMAIN peers[l]
    <3>1. packet[l].src \in AddrsIn(peers[l])
      BY <2>1, <2>3, Zenon DEF Table, At
    <3>2. \E i \in DOMAIN peers[l] : peers[l][i].addr = packet[l].src
      BY <2>3, <3>1, Seq_Len, Zenon DEF AddrsIn
    <3> QED
      BY <3>2, Zenon DEF Place
  <2>5. PICK c \in IdsOf(l) : c = PeerOf(l, packet[l].src)
    BY <2>4, Zenon DEF PeerOf, IdsOf
  <2>6. /\ c \in Ids /\ Peer(c) /\ who[c].spec = who[l].spec
        /\ c \notin removed /\ task[c] \in Started
    BY <2>3, <2>5, Zenon DEF Children, Owned, Status, Roster
  <2>7. Life[c] = "live" /\ ~RS!Listener(c)
    BY <2>6, LifeIs, Zenon DEF View, Over, Peer, At, Started, RS!Listener
  <2>8. PICK frame \in Frames : frame = Head(packet[l].frames)
    <3>1. packet[l].frames \in Seq(Frames)
      BY Zenon DEF Inv, TypeOK, Packet
    <3> QED
      BY <2>1, <3>1, Seq_HeadTail, ZenonT(60)
  <2>9. passes_in_filter(Identity(who[c].spec).filters, frame)
    BY <2>1, <2>6, <2>8, ZenonT(60) DEF PassesIn
  <2>10. RS!passes_in_filter(RS!Identity(who[c].spec).filters, frame)
    BY <2>9, Zenon
       DEF passes_in_filter, Identity, PassAxis, RS!passes_in_filter, RS!Identity, RS!PassAxis
  <2>11. SendFrame(c, frame)
    BY <2>5, <2>8, ZenonT(60) DEF ForwardFrame
  <2>12. RS!Forward(c, frame)
    BY <2>2, <2>7, <2>10, <2>11, ZenonT(60)
    DEF SendFrame, RS!Forward, RouterClosed, RS!RouterClosed, allocVars, channels,
        registry, RS!channels, RS!registry
  <2> QED
    BY <2>6, <2>12, <1>EndpointNext, ZenonT(60) DEF RS!Endpoint
<1>WriterNext.
    ASSUME Inv, Ownership, NEW c \in Ids, Peer(c),
           WriterEnds(c) \/ PopFrame(c) \/ Sent(c) \/ SendFails(c)
    PROVE  RS!Next
  <2> USE <1>WriterNext
  <2>1. /\ task[c] \in Started /\ who' = who /\ removed' = removed
    BY Zenon
       DEF WriterEnds, PopFrame, Sent, SendFails, drain_and_discard, PopTx, Move, Local, At,
           Started, allocVars, udpVars
  <2>2. PICK to \in Started : task' = [task EXCEPT ![c] = to]
    BY Zenon DEF WriterEnds, PopFrame, Sent, SendFails, Move, Local, Goto, Started
  <2>3. task'[c] = to /\ \A x \in Ids : x # c => task'[x] = task[x]
    BY <2>2, Zenon DEF Inv, TypeOK
  <2>4. View(c) \in {"live", "gone"} /\ View(c)' = View(c)
    BY <2>1, <2>2, <2>3, ZenonT(60) DEF View, Over, Peer, At, Started
  <2>5. \A x \in Ids : View(x)' = View(x)
    BY <2>1, <2>3, <2>4, <1>ViewKept, ZenonT(60)
  <2>6. Life[c] \in {"live", "gone"} /\ Life' = Life
    BY <2>4, <2>5, LifeIs, <1>LifePrimed, ZenonT(60)
  <2>7. CASE WriterEnds(c)
    <3>1. Writing' = Writing
      BY <2>3, <2>7, <1>WritingKept, ZenonT(60) DEF WriterEnds, At, Goto, Inv, TypeOK
    <3>2. RS!Drain(c)
      BY <2>6, <2>7, <3>1, ZenonT(60)
         DEF WriterEnds, drain_and_discard, RS!Drain, RS!envVars, allocVars, channels, registry,
             RS!channels, RS!registry
    <3> QED
      BY <3>2, <1>EndpointNext, ZenonT(60) DEF RS!Endpoint
  <2>8. CASE PopFrame(c)
    <3>1. c \notin Writing /\ Writing' = Writing \cup {c}
      BY <2>3, <2>8, Zenon DEF PopFrame, Writing, At, Goto, Inv, TypeOK
    <3>2. RS!Pop(c)
      BY <2>6, <2>8, <3>1, ZenonT(60)
         DEF PopFrame, PopTx, RS!Pop, Peer, RS!Peer, allocVars, channels, registry, RS!channels,
             RS!registry
    <3> QED
      BY <3>2, <1>EndpointNext, ZenonT(60) DEF RS!Endpoint
  <2>9. CASE Sent(c)
    <3>1. c \in Writing /\ Writing' = Writing \ {c}
      BY <2>3, <2>9, ZenonT(60) DEF Sent, Move, Local, Writing, At, Goto, Inv, TypeOK
    <3>2. RS!Sent(c)
      BY <2>6, <2>9, <3>1, ZenonT(60)
         DEF Sent, Move, Local, RS!Sent, allocVars, routerVars, RS!routerVars, channels,
             registry, RS!channels, RS!registry
    <3> QED
      BY <3>2, <1>EndpointNext, ZenonT(60) DEF RS!Endpoint
  <2>10. CASE SendFails(c)
    <3>1. c \in Writing /\ Writing' = Writing \ {c}
      BY <2>3, <2>10, ZenonT(60) DEF SendFails, Writing, At, Goto, Inv, TypeOK
    <3>2. RS!SendFails(c)
      BY <2>6, <2>10, <3>1, ZenonT(60) DEF SendFails, RS!SendFails, allocVars, channels, registry,
            RS!channels, RS!registry
    <3> QED
      BY <3>2, <1>EndpointNext, Zenon DEF RS!Endpoint
  <2> QED
    BY <2>7, <2>8, <2>9, <2>10, ZenonT(60)
<1>NetworkRefines.
    ASSUME Inv, Ownership, NEW id \in Ids, Network(id)
    PROVE  RS!Next \/ UNCHANGED RS!vars
  <2> USE <1>NetworkRefines
  <2>1. TypeOK
    BY Zenon DEF Inv
  <2>2. CASE Listener(id) /\ Bind(id) /\ UNCHANGED udpVars
    BY <2>1, <2>2, <1>ListenerStutters, Zenon DEF Bind, udpVars, LifeAt
  <2>3. ASSUME NEW src, NEW frames, Listener(id), PacketFromPeer(id, src, frames)
        PROVE  UNCHANGED RS!vars
    BY <2>1, <2>3, <1>ListenerStutters, Zenon DEF PacketFromPeer, LifeAt
  <2>4. ASSUME NEW src, NEW frames, Listener(id), PacketFromStranger(id, src, frames)
        PROVE  RS!Next
    BY <2>4, <1>StrangerNext, Zenon
  <2>5. ASSUME NEW n, Listener(id), reap_idle_peers(id, n)
        PROVE  UNCHANGED RS!vars
    BY <2>1, <2>5, <1>ListenerStutters, ZenonT(60) DEF reap_idle_peers, LifeAt
  <2>6. CASE Peer(id) /\ (Sent(id) \/ SendFails(id))
    BY <2>6, <1>WriterNext, ZenonT(60)
  <2> QED
    BY <2>2, <2>3, <2>4, <2>5, <2>6, ZenonT(60) DEF Network
<1>TaskRefines.
    ASSUME Inv, Ownership, NEW id \in Ids, Task(id)
    PROVE  RS!Next \/ UNCHANGED RS!vars
  <2> USE <1>TaskRefines
  <2>1. TypeOK
    BY Zenon DEF Inv
  <2>2. CASE Peer(id) /\ (WriterEnds(id) \/ PopFrame(id))
    BY <2>2, <1>WriterNext, Zenon
  <2> SUFFICES ASSUME Listener(id) PROVE RS!Next \/ UNCHANGED RS!vars
    BY <2>2, Zenon DEF Task
  <2>3. CASE Announce(id) \/ AnnounceFails(id) \/ (Listening(id) /\ UNCHANGED udpVars)
    BY <2>3, <1>HeadNext, Zenon
  <2>4. CASE (BindCancelled(id) /\ UNCHANGED udpVars) \/ JoinWriters(id)
    BY <2>4, <1>EndsNext, Zenon
  <2>5. ASSUME NEW c \in Ids, SendPeerAdded(id, c) \/ AdmitFails(id, c) PROVE RS!Next
    BY <2>5, <1>AnnouncedNext, Zenon
  <2>6. ASSUME NEW c \in Ids, InsertPeer(id, c) PROVE UNCHANGED RS!vars
    BY <2>6, <1>InsertStutters, Zenon
  <2>7. ASSUME NEW c \in Ids, SendPeerRemoved(id, c) PROVE RS!Next
    BY <2>7, <1>RemovedNext, Zenon
  <2>8. ASSUME NEW c \in Ids, Remove(id, c) PROVE UNCHANGED RS!vars
    BY <2>1, <2>8, <1>ListenerStutters, ZenonT(60) DEF Remove, LifeAt
  <2>9. CASE evict_lru_peer(id)
    BY <2>1, <2>9, <1>ListenerStutters, ZenonT(60) DEF evict_lru_peer, LifeAt
  <2>10. CASE FilterFrame(id) \/ PacketDone(id) \/ ForwardFails(id)
    <3>1. PICK to \in {"forward", "listen"} : Local(id, "forward", to) /\ removed' = removed
      BY <2>10, Zenon DEF FilterFrame, PacketDone, ForwardFails
    <3> QED
      BY <2>1, <3>1, <1>ListenerStutters, ZenonT(60) DEF LifeAt
  <2>11. CASE ForwardFrame(id)
    BY <2>11, <1>ForwardNext, ZenonT(60)
  <2>12. CASE shutdown_all_peers(id)
    BY <2>1, <2>12, <1>ListenerStutters, ZenonT(60) DEF shutdown_all_peers, LifeAt
  <2>13. CASE Reaped(id)
    <3>1. PICK to \in {"listen", "join"} : Local(id, "reap", to) /\ removed' = removed
      BY <2>13, Zenon DEF Reaped, udpVars
    <3> QED
      BY <2>1, <3>1, <1>ListenerStutters, ZenonT(60) DEF LifeAt
  <2>14. ~(Peer(id) /\ (WriterEnds(id) \/ PopFrame(id)))
    BY Zenon DEF Peer, Listener
  <2> QED
    BY <2>3, <2>4, <2>5, <2>6, <2>7, <2>8, <2>9, <2>10, <2>11, <2>12, <2>13, <2>14, ZenonT(60)
       DEF Task
<1> SUFFICES ASSUME Inv, Ownership, [Next]_vars PROVE RS!Next \/ UNCHANGED RS!vars
  BY Zenon
<1>1. CASE UNCHANGED vars
  <2>1. UNCHANGED <<routerVars, next_id, spawned, who, sent, task, removed>>
    BY <1>1, Zenon DEF vars, transportVars, allocVars, udpVars
  <2> QED
    BY <2>1, <1>SameLife, ZenonT(60)
       DEF RS!vars, RS!envVars, routerVars, RS!routerVars, channels, registry, RS!channels,
           RS!registry
<1>2. CASE (Route \/ SpawnEndpoint \/ Cancel) /\ UNCHANGED udpVars
  BY <1>2, <1>RouteNext, <1>SpawnNext, <1>CancelNext, ZenonT(60)
<1> QED
  BY <1>1, <1>2, <1>NetworkRefines, <1>TaskRefines, ZenonT(60) DEF Next

\* What the router relies on holds of udps: listeners and their peers: each is an
\* endpoint as RouterSystem describes it, for any configuration, table and queue sizes
\* and datagrams.  A peer is announced before a frame of it is forwarded or it is
\* evicted, it is removed once and for a reason, also when the listener reaps or evicts
\* it while its writer is in send_to, and a listener returns only when the token is set
\* and every peer it admitted was removed or refused.
THEOREM UdpServerRefines == Spec => RefinesRouterSystem
<1>1. Init => RS!Init
  <2> SUFFICES ASSUME Init PROVE RS!Init
    BY Zenon
  <2>1. Life = [id \in Ids |-> "none"] /\ Writing = {}
    BY LifeIs, Zenon DEF Init, TransportInit, View, Writing, At
  <2> QED
    BY <2>1, Zenon DEF Init, TransportInit, RouterInit, RS!Init, RS!RouterInit, RS!Unallocated,
                InitialStats, RS!InitialStats, Ids, RS!Ids
<1>2. Spec => [](Inv /\ Ownership)
  BY InitInv, NextInv, InitOwnership, NextOwnership, PTL DEF Spec
<1> QED
  BY <1>1, <1>2, StepRefines, PTL DEF Spec, RefinesRouterSystem, RS!Spec

-----------------------------------------------------------------------------
(* What the router was told of a peer. *)

Running == pc \notin {"sweep", "done"}

Event ==
    [type : {"EndpointAdded", "PeerAdded"}, id : Ids, spec : Nat, routable : BOOLEAN]
    \cup [type : {"PeerRemoved"}, id : Ids, reason : Reasons]

Added(ev) == ev.type \in {"EndpointAdded", "PeerAdded"}

\* With q queued and R registered: the router does not know c; it will hold it once the
\* queue is empty; it will not, and nothing follows c's PeerRemoved.
Absent(q, R, c) == c \notin R /\ \A i \in 1..Len(q) : q[i].id # c
Held(q, R, c) ==
    /\ c \in R \/ \E i \in 1..Len(q) : q[i].id = c
    /\ \A i \in 1..Len(q) : q[i].id = c => Added(q[i])
Dropped(q, R, c) ==
    /\ ~Held(q, R, c)
    /\ \A i, j \in 1..Len(q) : i < j /\ q[i].id = c /\ q[j].id = c => Added(q[i])

Told(c) ==
    IF who[c].kind = "none" \/ (Peer(c) /\ At(c, "announce"))
    THEN Absent(event_ch, DOMAIN routing, c)
    ELSE Peer(c) => /\ ~At(c, "refused")
                    /\ IF c \in removed THEN Dropped(event_ch, DOMAIN routing, c)
                       ELSE Held(event_ch, DOMAIN routing, c)

Telling ==
    /\ event_ch \in Seq(Event)
    /\ Running => \A c \in Ids : Told(c)

-----------------------------------------------------------------------------
Enlisted == {"pending"} \cup Started

LEMMA InitTelling == Init => Telling
<1> SUFFICES ASSUME Init PROVE Telling
  BY Zenon
<1>1. event_ch = <<>> /\ routing = [id \in {} |-> <<>>] /\ \A c \in Ids : who[c].kind = "none"
  BY Zenon DEF Init, TransportInit, RouterInit
<1>2. event_ch \in Seq(Event) /\ Len(event_ch) = 0
  BY <1>1, Seq_Empty, Zenon
<1>3. DOMAIN routing = {}
  BY <1>1, Zenon
<1>4. \A c \in Ids : Told(c)
  BY <1>1, <1>2, <1>3, SMTT(60), Z3T(60) DEF Told, Absent
<1> QED
  BY <1>2, <1>4, ZenonT(60) DEF Telling

LEMMA NextTelling == Inv /\ Ownership /\ Telling /\ [Next]_vars => Telling'
\* The next event is handled.
<1>TakeFacts.
    ASSUME NEW q \in Seq(Event), q # <<>>, NEW R, NEW S, NEW c,
           S = IF Added(Head(q)) THEN R \cup {Head(q).id} ELSE R \ {Head(q).id}
    PROVE  /\ Tail(q) \in Seq(Event)
           /\ Absent(q, R, c) => Absent(Tail(q), S, c)
           /\ Held(q, R, c) => Held(Tail(q), S, c)
           /\ Dropped(q, R, c) => Dropped(Tail(q), S, c)
  <2> USE <1>TakeFacts
  <2>1. PICK t \in Seq(Event) : t = Tail(q)
    BY Seq_HeadTail, Zenon
  <2>2. /\ Len(q) \in Nat \ {0} /\ Len(t) = Len(q) - 1 /\ Head(q) = q[1]
        /\ \A i \in 1..Len(t) : t[i] = q[i + 1]
    BY <2>1, Seq_HeadTail, Seq_Empty, SMTT(60), Z3T(60)
  <2>3. \A i \in 1..Len(t) : i + 1 \in 1..Len(q) /\ i + 1 # 1 /\ t[i] = q[i + 1]
    BY <2>2, SMTT(60), Z3T(60)
  <2>4. \A i \in 1..Len(q) : i # 1 => i - 1 \in 1..Len(t) /\ t[i - 1] = q[i]
    BY <2>2, <2>3, SMTT(60), Z3T(60)
  <2>5. \A i, j \in 1..Len(t) : i < j => i + 1 < j + 1
    BY <2>2, SMTT(60), Z3T(60)
  <2>6. 1 \in 1..Len(q) /\ \A i \in 1..Len(q) : i # 1 => 1 < i
    BY <2>2, SMTT(60), Z3T(60)
  <2>7. Absent(q, R, c) => Absent(t, S, c)
    BY <2>2, <2>3, <2>6, ZenonT(60) DEF Absent
  <2>8. ASSUME Held(q, R, c) PROVE Held(t, S, c)
    <3>1. \A i \in 1..Len(t) : t[i].id = c => Added(t[i])
      BY <2>3, <2>8, Zenon DEF Held
    <3>2. CASE Head(q).id = c
      BY <2>2, <2>6, <2>8, <3>1, <3>2, ZenonT(60) DEF Held
    <3>3. CASE Head(q).id # c
      BY <2>2, <2>4, <2>8, <3>1, <3>3, ZenonT(60) DEF Held
    <3> QED
      BY <3>2, <3>3, Zenon
  <2>9. ASSUME Dropped(q, R, c) PROVE Dropped(t, S, c)
    <3>1. \A i, j \in 1..Len(t) : i < j /\ t[i].id = c /\ t[j].id = c => Added(t[i])
      BY <2>3, <2>5, <2>9, Zenon DEF Dropped
    <3>2. ASSUME Held(t, S, c) PROVE FALSE
      <4>1. CASE Head(q).id = c /\ ~Added(Head(q))
        <5>1. c \notin S
          BY <4>1, Zenon
        <5>2. PICK i \in 1..Len(t) : t[i].id = c
          BY <3>2, <5>1, Zenon DEF Held
        <5> QED
          BY <2>2, <2>3, <2>6, <2>9, <4>1, <5>2, ZenonT(60) DEF Dropped
      <4>2. CASE Head(q).id = c /\ Added(Head(q))
        <5>1. \A i \in 1..Len(q) : q[i].id = c => Added(q[i])
          BY <2>2, <2>4, <3>2, <4>2, ZenonT(60) DEF Held
        <5>2. Held(q, R, c)
          BY <2>2, <2>6, <4>2, <5>1, ZenonT(60) DEF Held
        <5> QED
          BY <2>9, <5>2, Zenon DEF Dropped
      <4>3. CASE Head(q).id # c
        <5>1. \A i \in 1..Len(q) : q[i].id = c => Added(q[i])
          BY <2>2, <2>4, <3>2, <4>3, ZenonT(60) DEF Held
        <5>2. c \in R \/ \E i \in 1..Len(q) : q[i].id = c
          BY <2>3, <3>2, <4>3, ZenonT(60) DEF Held
        <5> QED
          BY <2>9, <5>1, <5>2, ZenonT(60) DEF Dropped, Held
      <4> QED
        BY <4>1, <4>2, <4>3, ZenonT(60)
    <3> QED
      BY <3>1, <3>2, Zenon DEF Dropped
  <2> QED
    BY <2>1, <2>7, <2>8, <2>9, ZenonT(60)
\* An event is queued.
<1>TellFacts.
    ASSUME NEW q \in Seq(Event), NEW ev \in Event, NEW R, NEW c
    PROVE  /\ Append(q, ev) \in Seq(Event)
           /\ ev.id # c => /\ Absent(q, R, c) => Absent(Append(q, ev), R, c)
                           /\ Held(q, R, c) => Held(Append(q, ev), R, c)
                           /\ Dropped(q, R, c) => Dropped(Append(q, ev), R, c)
           /\ ev.id = c /\ Added(ev) /\ Absent(q, R, c) => Held(Append(q, ev), R, c)
           /\ ev.id = c /\ ~Added(ev) /\ Held(q, R, c) => Dropped(Append(q, ev), R, c)
  <2> USE <1>TellFacts
  <2>0. Append(q, ev) \in Seq(Event)
    BY SMTT(60), Z3T(60)
  <2>1. PICK a \in Seq(Event) : a = Append(q, ev)
    BY <2>0, Zenon
  <2>2. /\ Len(q) \in Nat /\ Len(a) = Len(q) + 1 /\ a[Len(q) + 1] = ev
        /\ \A i \in 1..Len(q) : a[i] = q[i]
    BY <2>1, Seq_Len, SMTT(60), Z3T(60)
  <2>3. /\ Len(q) + 1 \in 1..Len(a)
        /\ \A i \in 1..Len(a) : i # Len(q) + 1 => i \in 1..Len(q) /\ a[i] = q[i] /\ i < Len(q) + 1
        /\ \A i \in 1..Len(q) : i \in 1..Len(a)
    BY <2>2, SMTT(60), Z3T(60)
  <2>4. ASSUME ev.id # c
        PROVE  /\ Absent(q, R, c) => Absent(a, R, c)
               /\ Held(q, R, c) <=> Held(a, R, c)
    BY <2>2, <2>3, <2>4, ZenonT(60) DEF Absent, Held
  <2>5. ASSUME ev.id # c, Dropped(q, R, c) PROVE Dropped(a, R, c)
    <3>1. ~Held(a, R, c)
      BY <2>4, <2>5, ZenonT(60) DEF Dropped
    <3>2. \A i, j \in 1..Len(a) : i < j /\ a[i].id = c /\ a[j].id = c => Added(a[i])
      BY <2>2, <2>3, <2>5, ZenonT(60) DEF Dropped
    <3> QED
      BY <3>1, <3>2, Zenon DEF Dropped
  <2>6. ASSUME ev.id = c, Added(ev), Absent(q, R, c) PROVE Held(a, R, c)
    BY <2>2, <2>3, <2>6, ZenonT(60) DEF Absent, Held
  <2>7. ASSUME ev.id = c, ~Added(ev), Held(q, R, c) PROVE Dropped(a, R, c)
    <3>1. ~Held(a, R, c)
      BY <2>2, <2>3, <2>7, ZenonT(60) DEF Held
    <3>2. \A i, j \in 1..Len(a) : i < j /\ a[i].id = c /\ a[j].id = c => Added(a[i])
      <4>1. \A i, j \in 1..Len(a) : i < j => i # Len(q) + 1
        BY <2>2, SMTT(60), Z3T(60)
      <4> QED
        BY <2>3, <2>7, <4>1, ZenonT(60) DEF Held
    <3> QED
      BY <3>1, <3>2, Zenon DEF Dropped
  <2> QED
    BY <2>1, <2>4, <2>5, <2>6, <2>7, ZenonT(60)
\* What a step does not tell about c.
<1>ToldKept.
    ASSUME NEW c \in Ids, Told(c), who'[c] = who[c], c \in removed' <=> c \in removed,
           Peer(c) => task'[c] = task[c] \/ (task[c] \in Enlisted /\ task'[c] \in Enlisted),
           Absent(event_ch, DOMAIN routing, c) => Absent(event_ch', DOMAIN routing', c),
           Held(event_ch, DOMAIN routing, c) => Held(event_ch', DOMAIN routing', c),
           Dropped(event_ch, DOMAIN routing, c) => Dropped(event_ch', DOMAIN routing', c)
    PROVE  Told(c)'
  <2> USE <1>ToldKept
  <2>1. Told(c)' <=>
          IF who'[c].kind = "none" \/ (who'[c].kind = "peer" /\ task'[c] = "announce")
          THEN Absent(event_ch', DOMAIN routing', c)
          ELSE who'[c].kind = "peer" =>
                  /\ task'[c] # "refused"
                  /\ IF c \in removed' THEN Dropped(event_ch', DOMAIN routing', c)
                     ELSE Held(event_ch', DOMAIN routing', c)
    BY Zenon DEF Told, Absent, Held, Dropped, Peer, At
  <2>2. Peer(c) => /\ task'[c] = "announce" <=> task[c] = "announce"
                   /\ task'[c] = "refused" <=> task[c] = "refused"
    BY Zenon DEF Enlisted, Started
  <2> QED
    BY <2>1, <2>2, ZenonT(60) DEF Told, Peer, At
\* The router's steps, as far as the registrations go.
<1>RouteRegisters.
    ASSUME RouterNext, Running'
    PROVE  /\ Running
           /\ \/ event_ch' = event_ch /\ DOMAIN routing' = DOMAIN routing
              \/ /\ event_ch # <<>> /\ event_ch' = Tail(event_ch)
                 /\ Added(Head(event_ch)) => DOMAIN routing' = DOMAIN routing \cup {Head(event_ch).id}
                 /\ ~Added(Head(event_ch)) => DOMAIN routing' = DOMAIN routing \ {Head(event_ch).id}
  <2> USE <1>RouteRegisters
  <2> DEFINE told == event_ch' = event_ch /\ DOMAIN routing' = DOMAIN routing
  <2>1. CASE PollCancel \/ NoEvent \/ NoFrame
    BY <2>1, Zenon DEF PollCancel, NoEvent, NoFrame, Running, channels, registry
  <2>2. CASE TakeFrame
    <3>1. Running /\ event_ch' = event_ch
      BY <2>2, Zenon DEF TakeFrame, Running
    <3>2. DOMAIN routing' = DOMAIN routing
      BY <2>2, Zenon DEF TakeFrame, handle_frame, FrameFromNowhere, FrameDuplicate, FrameFresh,
                  LearnAndDispatch, registry
    <3> QED
      BY <3>1, <3>2, Zenon
  <2>3. CASE TakeEvent
    <3> DEFINE ev == Head(event_ch)
    <3>1. /\ Running /\ event_ch # <<>> /\ event_ch' = Tail(event_ch)
          /\ HandleAdded(ev) \/ HandleRemoved(ev)
      BY <2>3, Zenon DEF TakeEvent, Running, handle_event
    <3> HIDE DEF ev
    <3>2. CASE HandleAdded(ev)
      <4>1. Added(ev) /\ DOMAIN routing' = DOMAIN routing \cup {ev.id}
        BY <3>2, Zenon DEF HandleAdded, Added, Insert
      <4> QED
        BY <3>1, <4>1, Zenon DEF ev
    <3>3. CASE HandleRemoved(ev)
      <4>1. ~Added(ev)
        BY <3>3, Zenon DEF HandleRemoved, Added
      <4>2. DOMAIN routing' = DOMAIN routing \ {ev.id}
        BY <3>3, Zenon DEF HandleRemoved, Delete
      <4> QED
        BY <3>1, <4>1, <4>2, ZenonT(60) DEF ev
    <3> QED
      BY <3>1, <3>2, <3>3, ZenonT(60)
  <2>4. CASE DrainedEvents \/ SweepDone \/ \E id \in Ids : SweepOne(id)
    BY <2>4, Zenon DEF DrainedEvents, SweepDone, SweepOne, Running
  <2> QED
    BY <2>1, <2>2, <2>3, <2>4, ZenonT(60) DEF RouterNext
<1>RouteChannel.
    ASSUME RouterNext
    PROVE  event_ch' \in {event_ch, <<>>} \/ (event_ch # <<>> /\ event_ch' = Tail(event_ch))
  BY <1>RouteChannel, ZenonT(60)
     DEF RouterNext, PollCancel, TakeEvent, NoEvent, TakeFrame, NoFrame, DrainedEvents, SweepOne,
         SweepDone, channels
<1>RouteTelling.
    ASSUME Telling, Route, UNCHANGED udpVars
    PROVE  Telling'
  <2> USE <1>RouteTelling
  <2>1. RouterNext /\ UNCHANGED <<who, task, removed>>
    BY Zenon DEF Route, transportVars, allocVars, udpVars
  <2>2. event_ch \in Seq(Event)
    BY Zenon DEF Telling
  <2>3. event_ch' \in Seq(Event)
    BY <2>1, <2>2, <1>RouteChannel, Seq_Empty, Seq_HeadTail, ZenonT(60)
  <2>4. ASSUME Running', NEW c \in Ids PROVE Told(c)'
    <3>1. Running /\ Told(c)
      BY <2>1, <2>4, <1>RouteRegisters, ZenonT(60) DEF Telling
    <3>2. CASE event_ch' = event_ch /\ DOMAIN routing' = DOMAIN routing
      BY <2>1, <3>1, <3>2, <1>ToldKept, ZenonT(60)
    <3>3. CASE /\ event_ch # <<>> /\ event_ch' = Tail(event_ch)
               /\ Added(Head(event_ch)) => DOMAIN routing' = DOMAIN routing \cup {Head(event_ch).id}
               /\ ~Added(Head(event_ch)) => DOMAIN routing' = DOMAIN routing \ {Head(event_ch).id}
      <4>1. DOMAIN routing' = IF Added(Head(event_ch)) THEN DOMAIN routing \cup {Head(event_ch).id}
                              ELSE DOMAIN routing \ {Head(event_ch).id}
        BY <3>3, Zenon
      <4>2. /\ Absent(event_ch, DOMAIN routing, c) => Absent(event_ch', DOMAIN routing', c)
            /\ Held(event_ch, DOMAIN routing, c) => Held(event_ch', DOMAIN routing', c)
            /\ Dropped(event_ch, DOMAIN routing, c) => Dropped(event_ch', DOMAIN routing', c)
        BY <2>2, <3>3, <4>1, <1>TakeFacts, ZenonT(60)
      <4> QED
        BY <2>1, <3>1, <4>2, <1>ToldKept, ZenonT(60)
    <3> QED
      BY <2>1, <2>4, <3>2, <3>3, <1>RouteRegisters, ZenonT(60)
  <2> QED
    BY <2>3, <2>4, ZenonT(60) DEF Telling
\* Nothing is sent to the router, and the router does nothing.
<1>QuietTelling.
    ASSUME Telling, UNCHANGED <<event_ch, routing, pc, who, removed>>,
           \A c \in Ids : Peer(c) => task'[c] = task[c] \/ (task[c] \in Enlisted /\ task'[c] \in Enlisted)
    PROVE  Telling'
  <2> USE <1>QuietTelling
  <2>1. ASSUME Running, NEW c \in Ids PROVE Told(c)'
    <3>1. Told(c)
      BY <2>1, Zenon DEF Telling
    <3> QED
      BY <3>1, <1>ToldKept, Zenon
  <2> QED
    BY <2>1, ZenonT(60) DEF Telling, Running
\* An event is sent.
<1>SendTelling.
    ASSUME Telling, NEW ev \in Event, event_ch' = Append(event_ch, ev),
           UNCHANGED <<routing, pc, who>>,
           \A c \in Ids : c # ev.id =>
              /\ c \in removed' <=> c \in removed
              /\ Peer(c) => task'[c] = task[c],
           Running => Told(ev.id)'
    PROVE  Telling'
  <2> USE <1>SendTelling
  <2>1. event_ch \in Seq(Event)
    BY Zenon DEF Telling
  <2>2. event_ch' \in Seq(Event)
    BY <2>1, <1>TellFacts, Zenon
  <2>3. ASSUME Running, NEW c \in Ids, c # ev.id PROVE Told(c)'
    <3>1. Told(c)
      BY <2>3, Zenon DEF Telling
    <3>2. /\ Absent(event_ch, DOMAIN routing, c) => Absent(event_ch', DOMAIN routing', c)
          /\ Held(event_ch, DOMAIN routing, c) => Held(event_ch', DOMAIN routing', c)
          /\ Dropped(event_ch, DOMAIN routing, c) => Dropped(event_ch', DOMAIN routing', c)
      BY <2>1, <2>3, <1>TellFacts, ZenonT(60)
    <3> QED
      BY <2>3, <3>1, <3>2, <1>ToldKept, ZenonT(60)
  <2>4. Running' <=> Running
    BY Zenon DEF Running
  <2> QED
    BY <2>2, <2>3, <2>4, ZenonT(60) DEF Telling
\* A listener goes on by itself.
<1>MoveTelling.
    ASSUME Inv, Telling, NEW l \in Ids, Listener(l), NEW from, NEW to, Local(l, from, to),
           removed' = removed
    PROVE  Telling'
  <2> USE <1>MoveTelling
  <2>1. /\ UNCHANGED <<event_ch, routing, pc, who, removed>> /\ task' = [task EXCEPT ![l] = to]
    BY Zenon DEF Local, Goto, routerVars, channels, registry, allocVars
  <2>2. \A c \in Ids : Peer(c) => task'[c] = task[c]
    BY <2>1, ZenonT(60) DEF Inv, TypeOK, Peer, Listener
  <2> QED
    BY <2>1, <2>2, <1>QuietTelling, ZenonT(60)
<1>WriterTelling.
    ASSUME Inv, Telling, NEW id \in Ids, Peer(id),
           WriterEnds(id) \/ PopFrame(id) \/ Sent(id) \/ SendFails(id)
    PROVE  Telling'
  <2> USE <1>WriterTelling
  <2>1. UNCHANGED <<event_ch, routing, pc, who, removed>>
    BY Zenon
       DEF WriterEnds, PopFrame, Sent, SendFails, drain_and_discard, PopTx, Move, Local,
           routerVars, channels, registry, allocVars, udpVars
  <2>2. task[id] \in Enlisted /\ \E to \in Enlisted : task' = [task EXCEPT ![id] = to]
    BY Zenon DEF WriterEnds, PopFrame, Sent, SendFails, Move, Local, Goto, At, Enlisted, Started
  <2>3. \A x \in Ids : \/ task'[x] = task[x]
                       \/ task[x] \in Enlisted /\ task'[x] \in Enlisted
    BY <2>2, ZenonT(60) DEF Inv, TypeOK
  <2> QED
    BY <2>1, <2>3, <1>QuietTelling, ZenonT(60)
\* An id is allocated: nobody was told of it.
<1>AllocTelling.
    ASSUME Inv, Ownership, Telling, NEW n \in Ids, n = next_id, next_id <= MaxId,
           UNCHANGED <<event_ch, routing, pc, removed>>,
           \A x \in Ids : x # n => who'[x] = who[x] /\ (Peer(x) => task'[x] = task[x]),
           task'[n] = "announce"
    PROVE  Telling'
  <2> USE <1>AllocTelling
  <2>1. ASSUME Running, NEW c \in Ids PROVE Told(c)'
    <3>1. Told(c)
      BY <2>1, Zenon DEF Telling
    <3>2. CASE c # n
      BY <3>1, <3>2, <1>ToldKept, ZenonT(60)
    <3>3. CASE c = n
      <4>1. Absent(event_ch, DOMAIN routing, c) /\ c \notin removed
        BY <3>1, <3>3, FreshId, ZenonT(60) DEF Told
      <4>2. Absent(event_ch, DOMAIN routing, c)'
        BY <4>1, ZenonT(60) DEF Absent
      <4> QED
        BY <3>3, <4>2, ZenonT(60) DEF Told, Peer, At
    <3> QED
      BY <3>2, <3>3, ZenonT(60)
  <2> QED
    BY <2>1, ZenonT(60) DEF Telling, Running
<1>SpawnTelling.
    ASSUME Inv, Ownership, Telling, SpawnEndpoint, UNCHANGED udpVars
    PROVE  Telling'
  <2> USE <1>SpawnTelling
  <2>1. next_id <= MaxId /\ next_id \in Ids
    BY FreshId, ZenonT(60) DEF SpawnEndpoint, Alloc
  <2> PICK n \in Ids : n = next_id
    BY <2>1, ZenonT(60)
  <2>2. /\ UNCHANGED <<event_ch, routing, pc, removed>> /\ task' = [task EXCEPT ![n] = "announce"]
        /\ \A x \in Ids : x # n => who'[x] = who[x]
    BY Zenon DEF SpawnEndpoint, Alloc, Goto, routerVars, channels, registry, udpVars, Ownership
  <2>3. task'[n] = "announce" /\ \A x \in Ids : x # n => task'[x] = task[x]
    BY <2>2, ZenonT(60) DEF Inv, TypeOK
  <2> QED
    BY <2>1, <2>2, <2>3, <1>AllocTelling, ZenonT(60)
<1>StrangerTelling.
    ASSUME Inv, Ownership, Telling, NEW l \in Ids, Listener(l), NEW src, NEW frames,
           PacketFromStranger(l, src, frames)
    PROVE  Telling'
  <2> USE <1>StrangerTelling
  <2>1. next_id <= MaxId /\ next_id \in Ids
    BY FreshId, Zenon DEF PacketFromStranger, AdmitPeer, Alloc
  <2> PICK n \in Ids : n = next_id
    BY <2>1, Zenon
  <2>2. /\ UNCHANGED <<event_ch, routing, pc, removed>>
        /\ task' = [task EXCEPT ![l] = "admit", ![n] = "announce"] /\ n # l
        /\ \A x \in Ids : x # n => who'[x] = who[x]
    BY FreshId, Zenon
       DEF PacketFromStranger, AdmitPeer, Alloc, channels, registry, Ownership, Listener
  <2>3. task'[n] = "announce" /\ \A x \in Ids : x # n /\ x # l => task'[x] = task[x]
    BY <2>2, Zenon DEF Inv, TypeOK
  <2>4. ~Peer(l)
    BY Zenon DEF Peer, Listener
  <2> QED
    BY <2>1, <2>2, <2>3, <2>4, <1>AllocTelling, ZenonT(60)
<1>HeadTelling.
    ASSUME Inv, Ownership, Telling, NEW l \in Ids, Listener(l),
           Announce(l) \/ (Listening(l) /\ UNCHANGED udpVars) \/ ForwardFrame(l)
    PROVE  Telling'
  <2> USE <1>HeadTelling
  <2>1. CASE Announce(l)
    <3>1. PICK ev : ev = [type |-> IF Peer(l) THEN "PeerAdded" ELSE "EndpointAdded", id |-> l,
                          spec |-> who[l].spec, routable |-> ~Listener(l)]
      BY Zenon
    <3>2. /\ event_ch' = Append(event_ch, ev) /\ UNCHANGED <<routing, pc, who, removed>>
          /\ task' = [task EXCEPT ![l] = "bind"]
      BY <2>1, <3>1, ZenonT(60) DEF Announce, SendAdded, Goto, registry, allocVars, udpVars
    <3>3. ev \in Event /\ ev.id = l
      <4>1. who[l].spec \in Nat /\ (IF Peer(l) THEN "PeerAdded" ELSE "EndpointAdded") = "EndpointAdded"
        BY Zenon DEF Ownership, Peer, Listener
      <4> QED
        BY <3>1, <4>1, ZenonT(60) DEF Event
    <3>4. \A c \in Ids : c # l => task'[c] = task[c]
      BY <3>2, Zenon DEF Inv, TypeOK
    <3>5. Told(l)'
      BY <3>2, Zenon DEF Told, Listener, Peer
    <3> QED
      BY <3>2, <3>3, <3>4, <3>5, <1>SendTelling, ZenonT(60)
  <2>2. CASE Listening(l) /\ UNCHANGED udpVars
    <3>1. /\ UNCHANGED <<event_ch, routing, pc, who, removed>> /\ task' = [task EXCEPT ![l] = "listen"]
      BY <2>2, Zenon DEF Listening, StoreState, Goto, channels, registry, allocVars, udpVars
    <3>2. \A c \in Ids : Peer(c) => task'[c] = task[c]
      BY <3>1, ZenonT(60) DEF Inv, TypeOK, Peer, Listener
    <3> QED
      BY <3>1, <3>2, <1>QuietTelling, ZenonT(60)
  <2>3. CASE ForwardFrame(l)
    <3>1. UNCHANGED <<event_ch, routing, pc, who, removed, task>>
      BY <2>3, ZenonT(60) DEF ForwardFrame, SendFrame, registry, allocVars
    <3> QED
      BY <3>1, <1>QuietTelling, ZenonT(60)
  <2> QED
    BY <2>1, <2>2, <2>3, ZenonT(60)
<1>AnnouncedTelling.
    ASSUME Inv, Ownership, Telling, NEW l \in Ids, Listener(l), NEW c \in Ids,
           SendPeerAdded(l, c) \/ AdmitFails(l, c)
    PROVE  Telling'
  <2> USE <1>AnnouncedTelling
  <2>1. /\ task[c] = "announce" /\ c \in Children(l) /\ Peer(c) /\ ~Listener(c) /\ c # l
        /\ UNCHANGED <<routing, pc, who, removed>>
    BY Zenon
       DEF SendPeerAdded, AdmitFails, Admitted, SendAdded, At, Children, Peer, Listener, udpVars,
           allocVars, routerVars, registry
  <2>2. c \notin removed
    BY <2>1, ListenerFacts, AdmissionFacts, ZenonT(60) DEF InAdmission
  <2>3. CASE SendPeerAdded(l, c)
    <3>1. PICK ev : ev = [type |-> IF Peer(c) THEN "PeerAdded" ELSE "EndpointAdded", id |-> c,
                          spec |-> who[c].spec, routable |-> ~Listener(c)]
      BY Zenon
    <3>2. /\ event_ch' = Append(event_ch, ev)
          /\ task' = [task EXCEPT ![l] = "admitted", ![c] = "pending"]
      BY <2>3, <3>1, ZenonT(60) DEF SendPeerAdded, SendAdded
    <3>3. ev \in Event /\ ev.id = c /\ Added(ev)
      <4>1. who[c].spec \in Nat /\ (IF Peer(c) THEN "PeerAdded" ELSE "EndpointAdded") = "PeerAdded"
        BY <2>1, Zenon DEF Ownership
      <4> QED
        BY <3>1, <4>1, ZenonT(60) DEF Event, Added
    <3>4. task'[c] = "pending" /\ \A x \in Ids : x # l /\ x # c => task'[x] = task[x]
      BY <2>1, <3>2, ZenonT(60) DEF Inv, TypeOK
    <3>5. ~Peer(l)
      BY Zenon DEF Peer, Listener
    <3>6. ASSUME Running PROVE Told(c)'
      <4>1. Absent(event_ch, DOMAIN routing, c) /\ event_ch \in Seq(Event)
        BY <2>1, <3>6, ZenonT(60) DEF Telling, Told, At
      <4>2. Held(event_ch', DOMAIN routing', c)
        BY <2>1, <3>2, <3>3, <4>1, <1>TellFacts, ZenonT(60)
      <4>3. Held(event_ch, DOMAIN routing, c)'
        BY <4>2, ZenonT(60) DEF Held
      <4> QED
        BY <2>1, <2>2, <3>4, <4>3, ZenonT(60) DEF Told, Peer, At
    <3> QED
      BY <2>1, <3>2, <3>3, <3>4, <3>5, <3>6, <1>SendTelling, ZenonT(60)
  <2>4. CASE AdmitFails(l, c)
    <3>1. ~Running' /\ event_ch' = event_ch
      BY <2>1, <2>4, ZenonT(60) DEF AdmitFails, RouterClosed, Running, routerVars, channels
    <3> QED
      BY <3>1, ZenonT(60) DEF Telling
  <2> QED
    BY <2>3, <2>4, ZenonT(60)
<1>InsertTelling.
    ASSUME Inv, Telling, NEW l \in Ids, Listener(l), NEW c \in Ids, InsertPeer(l, c)
    PROVE  Telling'
  <2> USE <1>InsertTelling
  <2>1. /\ UNCHANGED <<event_ch, routing, pc, who, removed>> /\ task[c] = "pending" /\ Peer(c)
        /\ task' = [task EXCEPT ![l] = "forward", ![c] = "wait"]
    BY Zenon DEF InsertPeer, At, Children, routerVars, channels, registry, allocVars
  <2>2. c # l /\ ~Peer(l)
    BY <2>1, ZenonT(60) DEF Peer, Listener
  <2>3. task'[c] = "wait" /\ \A x \in Ids : x # l /\ x # c => task'[x] = task[x]
    BY <2>1, <2>2, ZenonT(60) DEF Inv, TypeOK
  <2>4. \A x \in Ids : Peer(x) => task'[x] = task[x] \/ (task[x] \in Enlisted /\ task'[x] \in Enlisted)
    BY <2>1, <2>2, <2>3, ZenonT(60) DEF Enlisted, Started
  <2> QED
    BY <2>1, <2>4, <1>QuietTelling, ZenonT(60)
<1>RemovedTelling.
    ASSUME Inv, Ownership, Telling, NEW l \in Ids, Listener(l), NEW c \in Ids, SendPeerRemoved(l, c)
    PROVE  Telling'
  <2> USE <1>RemovedTelling
  <2> DEFINE to == IF reason[l] = "LruEvicted" THEN "evicted" ELSE "reap"
  <2>1. /\ task[l] = "removing" /\ task' = [task EXCEPT ![l] = to] /\ removed' = removed \cup {c}
        /\ c \in victims[l] \ IdsOf(l) /\ UNCHANGED <<routing, pc, who>>
    BY Zenon DEF SendPeerRemoved, SendRemoved, Goto, At, allocVars, registry
  <2> HIDE DEF to
  <2>2. c \in Roster(l) /\ Owned(l)
    BY <2>1, ListenerFacts, ZenonT(60) DEF Roster, Leaving, At
  <2>3. Peer(c) /\ c \notin removed /\ task[c] \in Started /\ reason[l] \in Reasons
    BY <2>1, <2>2, ZenonT(60) DEF Owned, Children, Status, Removals, At
  <2>4. c # l /\ ~Peer(l)
    BY <2>3, ZenonT(60) DEF Peer, Listener
  <2>5. \A x \in Ids : x # l => task'[x] = task[x]
    BY <2>1, Zenon DEF Inv, TypeOK
  <2>6. CASE RouterClosed
    <3>1. ~Running' /\ event_ch' = event_ch
      BY <2>1, <2>6, ZenonT(60) DEF SendPeerRemoved, SendRemoved, RouterClosed, Running
    <3> QED
      BY <3>1, Zenon DEF Telling
  <2>7. CASE ~RouterClosed
    <3>1. PICK ev \in Event : ev = [type |-> "PeerRemoved", id |-> c, reason |-> reason[l]]
      BY <2>3, ZenonT(60) DEF Event
    <3>2. event_ch' = Append(event_ch, ev)
      BY <2>7, <3>1, ZenonT(60) DEF SendPeerRemoved, SendRemoved
    <3>3. ev.id = c /\ ~Added(ev)
      BY <3>1, ZenonT(60) DEF Added
    <3>4. ASSUME Running PROVE Told(c)'
      <4>1. Held(event_ch, DOMAIN routing, c) /\ event_ch \in Seq(Event)
        BY <2>3, <3>4, ZenonT(60) DEF Telling, Told, At, Started, Peer
      <4>2. Dropped(event_ch', DOMAIN routing', c)
        BY <2>1, <3>2, <3>3, <4>1, <1>TellFacts, ZenonT(60)
      <4>3. Dropped(event_ch, DOMAIN routing, c)'
        BY <4>2, ZenonT(60) DEF Dropped, Held
      <4>4. task'[c] # "announce" /\ task'[c] # "refused" /\ who'[c].kind = "peer" /\ c \in removed'
        BY <2>1, <2>3, <2>4, <2>5, ZenonT(60) DEF Started, Peer
      <4> QED
        BY <4>3, <4>4, ZenonT(60) DEF Told, Peer, At
    <3>5. \A x \in Ids : x # ev.id =>
             /\ x \in removed' <=> x \in removed
             /\ Peer(x) => task'[x] = task[x]
      BY <2>1, <2>4, <2>5, <3>3, ZenonT(60)
    <3> QED
      BY <2>1, <3>2, <3>3, <3>4, <3>5, <1>SendTelling, ZenonT(60)
  <2> QED
    BY <2>6, <2>7, ZenonT(60)
<1> SUFFICES ASSUME Inv, Ownership, Telling, [Next]_vars PROVE Telling'
  BY Zenon
<1>1. CASE UNCHANGED vars
  <2>1. UNCHANGED <<event_ch, routing, pc, who, removed, task>>
    BY <1>1, ZenonT(60) DEF vars, routerVars, channels, registry, transportVars, allocVars, udpVars
  <2> QED
    BY <2>1, <1>QuietTelling, ZenonT(60)
<1>2. CASE Cancel /\ UNCHANGED udpVars
  <2>1. UNCHANGED <<event_ch, routing, pc, who, removed, task>>
    BY <1>2, ZenonT(60) DEF Cancel, channels, registry, transportVars, allocVars, udpVars
  <2> QED
    BY <2>1, <1>QuietTelling, Zenon
<1>3. CASE (Route \/ SpawnEndpoint) /\ UNCHANGED udpVars
  BY <1>3, <1>RouteTelling, <1>SpawnTelling, ZenonT(60)
<1>4. ASSUME NEW id \in Ids, Network(id) PROVE Telling'
  <2>1. CASE Peer(id) /\ (Sent(id) \/ SendFails(id))
    BY <2>1, <1>WriterTelling, ZenonT(60)
  <2> SUFFICES ASSUME Listener(id) PROVE Telling'
    BY <1>4, <2>1, ZenonT(60) DEF Network
  <2>2. CASE Bind(id) /\ UNCHANGED udpVars
    BY <2>2, <1>MoveTelling, ZenonT(60) DEF Bind, udpVars
  <2>3. ASSUME NEW src, NEW frames, PacketFromPeer(id, src, frames) PROVE Telling'
    BY <2>3, <1>MoveTelling, ZenonT(60) DEF PacketFromPeer
  <2>4. ASSUME NEW src, NEW frames, PacketFromStranger(id, src, frames) PROVE Telling'
    BY <2>4, <1>StrangerTelling, ZenonT(60)
  <2>5. ASSUME NEW n, reap_idle_peers(id, n) PROVE Telling'
    BY <2>5, <1>MoveTelling, ZenonT(60) DEF reap_idle_peers
  <2> QED
    BY <1>4, <2>1, <2>2, <2>3, <2>4, <2>5, ZenonT(60) DEF Network
<1>5. ASSUME NEW id \in Ids, Task(id) PROVE Telling'
  <2>1. CASE Peer(id) /\ (WriterEnds(id) \/ PopFrame(id))
    BY <2>1, <1>WriterTelling, ZenonT(60)
  <2> SUFFICES ASSUME Listener(id) PROVE Telling'
    BY <1>5, <2>1, ZenonT(60) DEF Task
  <2>2. CASE Announce(id) \/ (Listening(id) /\ UNCHANGED udpVars) \/ ForwardFrame(id)
    BY <2>2, <1>HeadTelling, ZenonT(60)
  <2>3. ASSUME NEW c \in Ids, SendPeerAdded(id, c) \/ AdmitFails(id, c) PROVE Telling'
    BY <2>3, <1>AnnouncedTelling, Zenon
  <2>4. ASSUME NEW c \in Ids, InsertPeer(id, c) PROVE Telling'
    BY <2>4, <1>InsertTelling, ZenonT(60)
  <2>5. ASSUME NEW c \in Ids, SendPeerRemoved(id, c) PROVE Telling'
    BY <2>5, <1>RemovedTelling, ZenonT(60)
  <2>6. ASSUME NEW c \in Ids, Remove(id, c) PROVE Telling'
    BY <2>6, <1>MoveTelling, ZenonT(60) DEF Remove
  <2>7. ASSUME \/ AnnounceFails(id) \/ (BindCancelled(id) /\ UNCHANGED udpVars) \/ JoinWriters(id)
               \/ evict_lru_peer(id) \/ FilterFrame(id) \/ PacketDone(id) \/ ForwardFails(id)
               \/ shutdown_all_peers(id) \/ Reaped(id)
        PROVE  Telling'
    <3>1. \E from, to : Local(id, from, to) /\ removed' = removed
      BY <2>7, ZenonT(60)
      DEF AnnounceFails, BindCancelled, JoinWriters, evict_lru_peer, FilterFrame, PacketDone,
             ForwardFails, shutdown_all_peers, Reaped, Move, udpVars
    <3> QED
      BY <3>1, <1>MoveTelling, ZenonT(60)
  <2> QED
    BY <1>5, <2>1, <2>2, <2>3, <2>4, <2>5, <2>6, <2>7, ZenonT(60) DEF Task
<1> QED
  BY <1>1, <1>2, <1>3, <1>4, <1>5, ZenonT(60) DEF Next

-----------------------------------------------------------------------------
Pending(l) == {c \in Children(l) : task[c] = "pending"}

\* What the router will hold of l: its table, the peer on its way out and the one on its
\* way in.
LEMMA RegisteredIs ==
    ASSUME Inv, Ownership, Telling, Running, NEW l \in Ids, Listener(l)
    PROVE  RegisteredAfterEvents(l) = Roster(l) \cup Pending(l)
<1>1. DOMAIN event_ch = 1..Len(event_ch)
  BY SMTT(60), Z3T(60) DEF Telling
<1>2. RegisteredAfterEvents(l) = {c \in Children(l) : Held(event_ch, DOMAIN routing, c)}
  BY <1>1, Zenon DEF RegisteredAfterEvents, Held, Added, IsAdded
<1>3. ASSUME NEW c \in Children(l)
      PROVE  Held(event_ch, DOMAIN routing, c) <=> c \in Roster(l) \cup Pending(l)
  <2>1. c \in Ids /\ Peer(c) /\ Told(c) /\ Status(l, c)
    BY ListenerFacts, Zenon DEF Children, Telling, Owned
  <2>2. Absent(event_ch, DOMAIN routing, c) \/ Dropped(event_ch, DOMAIN routing, c)
           => ~Held(event_ch, DOMAIN routing, c)
    BY Zenon DEF Absent, Dropped, Held
  <2>3. who[c].kind # "none"
    BY <2>1, Zenon DEF Peer
  <2>4. c \in Pending(l) <=> task[c] = "pending"
    BY Zenon DEF Pending
  <2>5. CASE task[c] = "announce"
    BY <2>1, <2>2, <2>4, <2>5, ZenonT(60) DEF Told, Status, Started, At
  <2>6. CASE task[c] # "announce"
    <3>1. /\ task[c] # "refused"
          /\ IF c \in removed THEN Dropped(event_ch, DOMAIN routing, c)
             ELSE Held(event_ch, DOMAIN routing, c)
      BY <2>1, <2>3, <2>6, ZenonT(60) DEF Told, At
    <3>2. c \in Roster(l) \cup Pending(l) <=> c \notin removed
      BY <2>1, <2>4, <2>6, <3>1, ZenonT(60) DEF Status, Started
    <3> QED
      BY <2>2, <3>1, <3>2, ZenonT(60)
  <2> QED
    BY <2>5, <2>6, ZenonT(60)
<1>4. Roster(l) \subseteq Children(l)
  BY ListenerFacts, ZenonT(60) DEF Owned
<1> QED
  BY <1>2, <1>3, <1>4, ZenonT(60) DEF Pending

INSTANCE FiniteSetTheorems

LEMMA IdsCount ==
    ASSUME NEW s \in Seq(Entry)
    PROVE  IsFiniteSet(IdsIn(s)) /\ Cardinality(IdsIn(s)) \in Nat /\ Cardinality(IdsIn(s)) <= Len(s)
<1>1. Len(s) \in Nat
  BY SMTT(60), Z3T(60)
<1>2. IsFiniteSet(1..Len(s)) /\ Cardinality(1..Len(s)) = Len(s)
  BY <1>1, FS_Interval, SMTT(60), Z3T(60)
<1> DEFINE f == [i \in 1..Len(s) |-> s[i].id]
<1>3. f \in Surjection(1..Len(s), IdsIn(s))
  BY Zenon DEF Surjection, IdsIn
<1> HIDE DEF f
<1>4. IsFiniteSet(IdsIn(s)) /\ Cardinality(IdsIn(s)) <= Cardinality(1..Len(s))
  BY <1>2, <1>3, FS_Surjection, ZenonT(60)
<1> QED
  BY <1>2, <1>4, FS_CardinalityType, ZenonT(60)

LEMMA OneMore ==
    ASSUME NEW S, IsFiniteSet(S), NEW x, NEW k \in Nat, Cardinality(S) <= k
    PROVE  IsFiniteSet(S \cup {x}) /\ Cardinality(S \cup {x}) <= k + 1
<1>1. PICK n \in Nat : n = Cardinality(S)
  BY FS_CardinalityType, ZenonT(60)
<1>2. IsFiniteSet(S \cup {x}) /\ Cardinality(S \cup {x}) = IF x \in S THEN n ELSE n + 1
  BY <1>1, FS_AddElement, ZenonT(60)
<1> QED
  BY <1>1, <1>2, SMTT(60), Z3T(60)

LEMMA NoMore ==
    ASSUME NEW S, IsFiniteSet(S), NEW T, T \subseteq S, NEW k \in Nat, Cardinality(S) <= k,
           NEW m \in Nat, k <= m
    PROVE  Cardinality(T) <= m
<1>1. PICK n \in Nat : n = Cardinality(S)
  BY FS_CardinalityType, ZenonT(60)
<1>2. IsFiniteSet(T) /\ Cardinality(T) <= n
  BY <1>1, FS_Subset, ZenonT(60)
<1>3. Cardinality(T) \in Nat
  BY <1>2, FS_CardinalityType, ZenonT(60)
<1> QED
  BY <1>1, <1>2, <1>3, SMTT(60), Z3T(60)

LEMMA TableAgrees == Inv /\ Ownership /\ Telling => TableMatchesRegistry
<1> SUFFICES ASSUME Inv, Ownership, Telling, NEW l \in Ids, Listener(l), Running
             PROVE  /\ Cardinality(RegisteredAfterEvents(l)) <= peer_capacity + 1
                    /\ task[l] \in {"listen", "forward"} => RegisteredAfterEvents(l) = IdsOf(l)
  BY ZenonT(60) DEF TableMatchesRegistry, Running
<1>1. RegisteredAfterEvents(l) = Roster(l) \cup Pending(l)
  BY RegisteredIs, ZenonT(60)
<1>2. /\ peers[l] \in Seq(Entry) /\ IdsOf(l) = IdsIn(peers[l]) /\ Owned(l) /\ Table(l)
  BY ListenerFacts, ZenonT(60)
<1>3. PICK n \in Nat : n = Len(peers[l]) /\ IsFiniteSet(IdsOf(l)) /\ Cardinality(IdsOf(l)) <= n
  BY <1>2, IdsCount, SMTT(60), Z3T(60)
<1>4. peer_capacity \in Nat /\ n <= peer_capacity
  BY <1>2, <1>3, UdpAssumption, ZenonT(60) DEF Table
<1>5. \A c \in Pending(l) : At(l, "admitted") \/ Evicting(l)
  BY <1>2, ZenonT(60) DEF Pending, Owned, Status, Started
<1>6. \E d : Pending(l) \subseteq {d}
  BY <1>2, ZenonT(60) DEF Owned, InAdmission, Pending
<1>7. task[l] \in {"listen", "forward"} => RegisteredAfterEvents(l) = IdsOf(l)
  <2>1. ASSUME task[l] \in {"listen", "forward"} PROVE Pending(l) = {} /\ Leaving(l) = {}
    BY <1>5, <2>1, ZenonT(60) DEF Evicting, Leaving, At
  <2> QED
    BY <1>1, <2>1, ZenonT(60) DEF Roster
<1>8. Cardinality(RegisteredAfterEvents(l)) <= peer_capacity + 1
  <2>1. PICK d : Pending(l) \subseteq {d}
    BY <1>6, ZenonT(60)
  <2>2. IsFiniteSet(IdsOf(l) \cup {d}) /\ Cardinality(IdsOf(l) \cup {d}) <= n + 1
    BY <1>3, OneMore, ZenonT(60)
  <2>3. CASE ~At(l, "removing")
    <3>1. RegisteredAfterEvents(l) \subseteq IdsOf(l) \cup {d}
      BY <1>1, <2>1, <2>3, ZenonT(60) DEF Roster, Leaving
    <3> QED
      BY <1>4, <2>2, <3>1, NoMore, SMTT(60), Z3T(60)
  <2>4. CASE At(l, "removing")
    <3>1. PICK v \in Ids : Leaving(l) = {v}
      BY <1>2, <2>4, ZenonT(60) DEF Owned, Removals
    <3>2. CASE Evicting(l)
      <4>1. n + 1 <= peer_capacity
        BY <1>2, <1>3, <1>4, <3>2, SMTT(60), Z3T(60) DEF Table
      <4>2. /\ IsFiniteSet(IdsOf(l) \cup {d} \cup {v})
            /\ Cardinality(IdsOf(l) \cup {d} \cup {v}) <= n + 1 + 1
        <5>1. n + 1 \in Nat
          BY SMTT(60), Z3T(60)
        <5> QED
          BY <2>2, <5>1, OneMore, ZenonT(60)
      <4>3. RegisteredAfterEvents(l) \subseteq IdsOf(l) \cup {d} \cup {v}
        BY <1>1, <2>1, <3>1, ZenonT(60) DEF Roster
      <4> QED
        BY <1>4, <4>1, <4>2, <4>3, NoMore, SMTT(60), Z3T(60)
    <3>3. CASE ~Evicting(l)
      <4>1. Pending(l) = {}
        BY <1>5, <2>4, <3>3, ZenonT(60) DEF At
      <4>2. IsFiniteSet(IdsOf(l) \cup {v}) /\ Cardinality(IdsOf(l) \cup {v}) <= n + 1
        BY <1>3, OneMore, ZenonT(60)
      <4>3. RegisteredAfterEvents(l) \subseteq IdsOf(l) \cup {v}
        BY <1>1, <3>1, <4>1, ZenonT(60) DEF Roster
      <4> QED
        BY <1>4, <4>2, <4>3, NoMore, SMTT(60), Z3T(60)
    <3> QED
      BY <3>2, <3>3, ZenonT(60)
  <2> QED
    BY <2>3, <2>4, ZenonT(60)
<1> QED
  BY <1>7, <1>8, ZenonT(60)

\* The peer table and the router's registry agree, whatever the number of listeners, ids and
\* addresses and however the two tasks interleave: a listener waiting in its select, or
\* forwarding a datagram, has in its table exactly the peers the router holds once it has
\* handled the queued PeerAdded and PeerRemoved, and during an eviction the router holds at
\* most one more than peer_capacity.
THEOREM TableMatchesRegistryHolds == Spec => []TableMatchesRegistry
<1>1. Init => Inv /\ Ownership /\ Telling
  BY InitInv, InitOwnership, InitTelling, ZenonT(60)
<1>2. Inv /\ Ownership /\ Telling /\ [Next]_vars => (Inv /\ Ownership /\ Telling)'
  BY NextInv, NextOwnership, NextTelling, ZenonT(60)
<1>3. Inv /\ Ownership /\ Telling => TableMatchesRegistry
  BY TableAgrees, ZenonT(60)
<1> QED
  BY <1>1, <1>2, <1>3, PTL DEF Spec

=============================================================================
