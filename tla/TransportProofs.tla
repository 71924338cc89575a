--------------------------- MODULE TransportProofs ----------------------------
(***************************************************************************)
(* StreamSystem and UdpClient implement RouterSystem, for any number of    *)
(* leaves, listeners and clients.  Every step of a task is a step of an    *)
(* endpoint there or changes nothing the router sees.                      *)
(*                                                                         *)
(* For the stream transports one has to know where a task of each kind can *)
(* be, that what ends does so only once the token is set, and that a       *)
(* listener which is not accepting has no client left.                     *)
(*                                                                         *)
(* For udpc: leaves one invariant gives both the refinement and that a     *)
(* leaf keeps its target: before its first lookup a leaf has neither       *)
(* addresses nor a latch, and a latch is only ever put on top of known     *)
(* addresses, so that dropping it leaves somewhere to send.                *)
(***************************************************************************)
EXTENDS StreamSystem, UdpClient, TLAPS

\* The length, the domain and the range of a sequence.
LEMMA Seq_Len ==
  ASSUME NEW S, NEW s \in Seq(S)
  PROVE  /\ Len(s) \in Nat
         /\ s \in [1..Len(s) -> S]
         /\ DOMAIN s = 1..Len(s)
BY SMTT(60), Z3T(60)

\* The empty sequence, and that every other one has an element.
LEMMA Seq_Empty ==
  ASSUME NEW S
  PROVE  /\ <<>> \in Seq(S)
         /\ Len(<<>>) = 0
         /\ \A s \in Seq(S) : s # <<>> => Len(s) \in Nat \ {0}
BY SMTT(60), Z3T(60)

\* The two parts of a queue that is popped.
LEMMA Seq_HeadTail ==
  ASSUME NEW S, NEW s \in Seq(S), s # <<>>
  PROVE  /\ Head(s) \in S
         /\ Tail(s) \in Seq(S)
         /\ Len(Tail(s)) = Len(s) - 1
         /\ \A i \in 1..Len(Tail(s)) : Tail(s)[i] = s[i + 1]
BY SMTT(60), Z3T(60)

-----------------------------------------------------------------------------
(* What the abstract specification sees of a task, whatever its transport. *)

TaskOK == next_id \in Nat \ {0} /\ DOMAIN task = Ids

LifeAt(position) ==
    IF position \in {"none", "announce"} THEN position
    ELSE IF position = "ended" THEN "gone" ELSE "live"

LEMMA LifeIs == Life = [id \in Ids |-> LifeAt(task[id])]
BY Zenon DEF Life, LifeAt

LEMMA LifeGoto ==
    ASSUME TaskOK, NEW id \in Ids, NEW to, Goto(id, to)
    PROVE  /\ Life' = [Life EXCEPT ![id] = LifeAt(to)]
           /\ Life[id] = LifeAt(task[id])
           /\ LifeAt(to) = LifeAt(task[id]) => Life' = Life
<1>1. Life = [i \in Ids |-> LifeAt(task[i])]
  BY LifeIs, Zenon
<1>2. Life' = [i \in Ids |-> LifeAt(task'[i])]
  BY Zenon DEF Life, LifeAt
<1>3. DOMAIN task = Ids /\ task' = [task EXCEPT ![id] = to]
  BY Zenon DEF TaskOK, Goto
<1>4. \A i \in Ids : task'[i] = IF i = id THEN to ELSE task[i]
  BY <1>3, Zenon
<1> QED
  BY <1>1, <1>2, <1>4, Zenon

LEMMA SameLife ==
    ASSUME task' = task
    PROVE  Life' = Life
BY Zenon DEF Life

LEMMA EndpointNext ==
    ASSUME NEW id \in Ids, RS!Endpoint(id)
    PROVE  RS!Next
BY Zenon DEF RS!Next, RS!Ids, Ids

\* The router is the same in both.
LEMMA RouteNext == Route => RS!Next
<1>1. RouterNext <=> RS!RouterNext
  BY ZenonT(60)
     DEF RouterNext, PollCancel, TakeEvent, NoEvent, TakeFrame, NoFrame, DrainedEvents, SweepOne,
         SweepDone, handle_event, HandleAdded, HandleRemoved, forward_stats, join, leave, Insert,
         Delete, Identity, GroupOf, NoGroup, FinalState, handle_frame, FrameFromNowhere,
         FrameDuplicate, FrameFresh, LearnAndDispatch, Delivered, Counted, Verdict, decide,
         contains, Source, passes_out_filter, PassAxis, target_match, contains_sys, None, touch,
         Without, push, Routable, Unexpired, channels, registry, Ids, RS!RouterNext,
         RS!PollCancel, RS!TakeEvent, RS!NoEvent, RS!TakeFrame, RS!NoFrame, RS!DrainedEvents,
         RS!SweepOne, RS!SweepDone, RS!handle_event, RS!HandleAdded, RS!HandleRemoved,
         RS!forward_stats, RS!join, RS!leave, RS!Insert, RS!Delete, RS!Identity, RS!GroupOf,
         RS!NoGroup, RS!FinalState, RS!handle_frame, RS!FrameFromNowhere, RS!FrameDuplicate,
         RS!FrameFresh, RS!LearnAndDispatch, RS!Delivered, RS!Counted, RS!Verdict, RS!decide,
         RS!contains, RS!Source, RS!passes_out_filter, RS!PassAxis, RS!target_match,
         RS!contains_sys, RS!None, RS!touch, RS!Without, RS!push, RS!Routable, RS!Unexpired,
         RS!channels, RS!registry, RS!Ids
<1>2. ASSUME Route PROVE RS!Route
  <2>1. UNCHANGED <<next_id, spawned, who, sent, task>>
    BY <1>2, Zenon DEF Route, transportVars, allocVars
  <2> QED
    BY <1>1, <1>2, <2>1, SameLife, ZenonT(60) DEF Route, RS!Route, RS!envVars
<1> QED
  BY <1>2, Zenon DEF RS!Next

\* A step of a task between two positions that look alike to the router.
LEMMA LocalStutters ==
    ASSUME TaskOK, NEW id \in Ids, NEW from, NEW to, Local(id, from, to),
           LifeAt(to) = LifeAt(from)
    PROVE  UNCHANGED RS!vars
<1>1. Life' = Life
  BY LifeGoto, Zenon DEF Local, At
<1> QED
  BY <1>1, Zenon DEF Local, RS!vars, RS!envVars, routerVars, RS!routerVars, allocVars, channels,
              registry, RS!channels, RS!registry

LEMMA StoreStateNext ==
    ASSUME TaskOK, NEW id \in Ids, NEW from, NEW to, NEW state \in {"Connected", "Reconnecting"},
           StoreState(id, state, from, to), LifeAt(from) = "live", LifeAt(to) = "live", ~Peer(id)
    PROVE  RS!Next
<1>1. Life' = Life /\ Life[id] = "live"
  BY LifeGoto, Zenon DEF StoreState, At
<1>2. ~RS!Peer(id)
  BY Zenon DEF Peer, RS!Peer
<1>3. RS!StoreState(id, state)
  BY <1>1, <1>2, Zenon DEF StoreState, RS!StoreState, RS!envVars, allocVars, channels, registry,
                    RS!channels, RS!registry
<1>4. RS!Endpoint(id)
  BY <1>3, Zenon DEF RS!Endpoint
<1> QED
  BY <1>4, EndpointNext, Zenon

LEMMA SpawnNext == TaskOK /\ SpawnEndpoint => RS!Next
<1> SUFFICES ASSUME TaskOK, SpawnEndpoint PROVE RS!SpawnEndpoint
  BY Zenon DEF RS!Next
<1>1. next_id \in Ids
  BY RouterAssumption, SMTT(60), Z3T(60) DEF TaskOK, SpawnEndpoint, Alloc, Ids
<1>2. Life' = [Life EXCEPT ![next_id] = "announce"]
  BY <1>1, LifeGoto, Zenon DEF SpawnEndpoint, LifeAt
<1>3. ~RS!Announcing({"leaf", "listener"}, spawned)
  <2> SUFFICES ASSUME NEW id \in Ids, Life[id] = "announce", who[id].kind \in {"leaf", "listener"}
               PROVE  FALSE
    BY Zenon DEF RS!Announcing, RS!Ids, Ids
  <2>1. task[id] = "announce"
    BY LifeIs, Zenon DEF LifeAt
  <2>2. ~Peer(id)
    BY Zenon DEF Peer
  <2> QED
    BY <2>1, <2>2, Zenon DEF SpawnEndpoint, At
<1> QED
  BY <1>2, <1>3, Zenon
     DEF SpawnEndpoint, Alloc, RS!SpawnEndpoint, RS!Alloc, routerVars, RS!routerVars, channels,
         registry, RS!channels, RS!registry

LEMMA CancelNext == Cancel => RS!Next
<1> SUFFICES ASSUME Cancel PROVE RS!Cancel
  BY Zenon DEF RS!Next
<1>1. Life' = Life
  BY SameLife, Zenon DEF Cancel, transportVars
<1> QED
  BY <1>1, Zenon DEF Cancel, RS!Cancel, RS!envVars, transportVars, allocVars, channels, registry,
              RS!channels, RS!registry

LEMMA AnnounceNext ==
    ASSUME TaskOK, NEW id \in Ids, NEW to, SendAdded(id), Goto(id, to), LifeAt(to) = "live"
    PROVE  RS!Next
<1>1. Life[id] = "announce" /\ Life' = [Life EXCEPT ![id] = "live"]
  BY LifeGoto, Zenon DEF SendAdded, At, LifeAt
<1>2. RS!Announce(id)
  BY <1>1, Zenon DEF SendAdded, RS!Announce, RS!Added, RS!Peer, RS!Listener, Peer, Listener,
              RouterClosed, RS!RouterClosed, allocVars, channels, registry, RS!channels,
              RS!registry
<1> QED
  BY <1>2, EndpointNext, Zenon DEF RS!Endpoint

LEMMA AnnounceFailsNext ==
    ASSUME TaskOK, NEW id \in Ids, RouterClosed, Local(id, "announce", "ended")
    PROVE  RS!Next
<1>1. Life[id] = "announce" /\ Life' = [Life EXCEPT ![id] = "gone"]
  BY LifeGoto, Zenon DEF Local, At, LifeAt
<1>2. RS!AnnounceFails(id)
  BY <1>1, Zenon DEF Local, RS!AnnounceFails, RouterClosed, RS!RouterClosed, allocVars, routerVars,
              RS!routerVars, channels, registry, RS!channels, RS!registry
<1> QED
  BY <1>2, EndpointNext, Zenon DEF RS!Endpoint

\* A leaf or a listener ends: the token is set, and no client of a listener runs.
LEMMA ExitNext ==
    ASSUME TaskOK, cancelled, NEW id \in Ids, NEW from, Local(id, from, "ended"),
           LifeAt(from) = "live", ~Peer(id),
           Listener(id) =>
              \A c \in Ids : Peer(c) /\ who[c].spec = who[id].spec => task[c] = "ended"
    PROVE  RS!Next
<1>1. Life[id] = "live" /\ Life' = [Life EXCEPT ![id] = "gone"]
  BY LifeGoto, Zenon DEF Local, At, LifeAt
<1>2. ~RS!Peer(id)
  BY Zenon DEF Peer, RS!Peer
<1>3. RS!Listener(id) =>
        \A c \in Ids : RS!Peer(c) /\ who[c].spec = who[id].spec => Life[c] = "gone"
  BY LifeIs, Zenon DEF Peer, Listener, RS!Peer, RS!Listener, LifeAt
<1>4. RS!Exit(id)
  BY <1>1, <1>2, <1>3, ZenonT(60) DEF Local, RS!Exit, allocVars, routerVars, RS!routerVars, channels,
                          registry, RS!channels, RS!registry, Ids, RS!Ids
<1> QED
  BY <1>4, EndpointNext, Zenon DEF RS!Endpoint

LEMMA DrainNext ==
    ASSUME TaskOK, NEW id \in Ids, NEW to, drain_and_discard(id), Goto(id, to),
           LifeAt(task[id]) = "live", LifeAt(to) = "live"
    PROVE  RS!Next
<1>1. Life[id] = "live" /\ Life' = Life
  BY LifeGoto, Zenon
<1>2. RS!Drain(id)
  BY <1>1, Zenon DEF drain_and_discard, RS!Drain, RS!envVars, allocVars, channels, registry,
              RS!channels, RS!registry
<1> QED
  BY <1>2, EndpointNext, Zenon DEF RS!Endpoint

LEMMA PopNext ==
    ASSUME TaskOK, NEW id \in Ids, NEW to, PopTx(id), Goto(id, to),
           LifeAt(task[id]) = "live", LifeAt(to) = "live"
    PROVE  RS!Next
<1>1. Life[id] = "live" /\ Life' = Life
  BY LifeGoto, Zenon
<1>2. RS!Pop(id)
  BY <1>1, Zenon
     DEF PopTx, RS!Pop, RS!envVars, allocVars, channels, registry, RS!channels, RS!registry
<1> QED
  BY <1>2, EndpointNext, ZenonT(60) DEF RS!Endpoint

\* A task that is not a listener's forwards a frame that passes its in-filter.
LEMMA ForwardNext ==
    ASSUME NEW id \in Ids, Life[id] = "live", Life' = Life, ~Listener(id),
           Head(inbox[id]) \in Frames, PassesIn(id), SendFrame(id, Head(inbox[id]))
    PROVE  RS!Next
<1> DEFINE frame == Head(inbox[id])
<1>1. ~RS!Listener(id)
  BY Zenon DEF Listener, RS!Listener
<1>2. passes_in_filter(Identity(who[id].spec).filters, frame)
  BY Zenon DEF PassesIn
<1>3. RS!passes_in_filter(RS!Identity(who[id].spec).filters, frame)
  BY <1>2, Zenon
  DEF passes_in_filter, Identity, PassAxis, RS!passes_in_filter, RS!Identity, RS!PassAxis
<1>4. RS!Forward(id, frame)
  BY <1>1, <1>3, Zenon
  DEF SendFrame, RS!Forward, RouterClosed, RS!RouterClosed, allocVars, channels, registry,
      RS!channels, RS!registry
<1> QED
  BY <1>4, EndpointNext, Zenon DEF RS!Endpoint

LEMMA InitNext ==
    ASSUME TransportInit
    PROVE  RS!Init
<1>1. Life = [id \in Ids |-> "none"]
  BY LifeIs, Zenon DEF TransportInit, LifeAt
<1> QED
  BY <1>1, Zenon DEF TransportInit, RouterInit, RS!Init, RS!RouterInit, RS!Unallocated,
              InitialStats, RS!InitialStats, Ids, RS!Ids

LEMMA IdleStutters ==
    ASSUME UNCHANGED <<routerVars, transportVars>>
    PROVE  UNCHANGED RS!vars
BY SameLife, Zenon DEF transportVars, allocVars, RS!vars, RS!envVars, routerVars, RS!routerVars,
                channels, registry, RS!channels, RS!registry

-----------------------------------------------------------------------------
(* The stream transports. *)

LeafPositions == {"announce", "dial", "resolve", "connect", "open", "up", "ready", "session",
                  "forward", "write", "returned", "closing", "lost", "retry", "finished", "ended"}
PeerPositions == {"announce", "session", "forward", "write", "returned", "closing", "removing",
                  "ended"}
ListenerPositions == {"announce", "bind", "bound", "listen", "ended"}
Positions == {"none"} \cup LeafPositions \cup PeerPositions \cup ListenerPositions

TypeOK ==
    /\ next_id \in Nat \ {0} /\ spawned \in Nat /\ sent \in Nat /\ cancelled \in BOOLEAN
    /\ task \in [Ids -> Positions]
    /\ who \in [Ids -> [kind : {"none", "leaf", "listener", "peer"}, spec : Nat]]
    /\ outcome \in [Ids -> {"none", "Terminated", "Disconnected"}]
    /\ inbox \in [Ids -> Seq(Frames)]

\* A task is only ever where its kind takes it.
Placed(id) ==
    \/ who[id].kind = "none" /\ task[id] = "none"
    \/ Leaf(id) /\ task[id] \in LeafPositions
    \/ Peer(id) /\ task[id] \in PeerPositions
    \/ Listener(id) /\ task[id] \in ListenerPositions

\* A leaf ends, and a session returns Terminated, only once the token is set.
Ending(id) ==
    \/ task[id] = "finished"
    \/ Leaf(id) /\ task[id] = "closing"
    \/ outcome[id] = "Terminated"

\* Only a task in the loop over a batch has frames in hand.
Batch(id) == inbox[id] # <<>> <=> task[id] = "forward"

\* Before a listener accepts, and after it has joined, none of its clients runs.
Childless(l) ==
    Listener(l) /\ task[l] \in {"announce", "bind", "bound"} =>
        \A c \in Ids : Peer(c) /\ who[c].spec = who[l].spec => task[c] = "ended"

\* Ids are fresh, and each configured endpoint has at most one of them.
Allocated ==
    /\ \A id \in Ids : id >= next_id => who[id].kind = "none"
    /\ \A id \in Ids : who[id].kind # "none" => who[id].spec <= spawned
    /\ \A l, m \in Ids : Listener(l) /\ Listener(m) /\ who[l].spec = who[m].spec => l = m

Inv ==
    /\ TypeOK
    /\ \A id \in Ids : /\ Placed(id) /\ Batch(id) /\ Childless(id)
                       /\ Ending(id) => cancelled
    /\ Allocated
    /\ pc \in {"drain", "sweep", "done"} => cancelled

-----------------------------------------------------------------------------
LEMMA TaskTyped == TypeOK => TaskOK
BY Zenon DEF TypeOK, TaskOK

-----------------------------------------------------------------------------
\* What a position tells about the kind of the task.
LEMMA KindOf ==
    ASSUME NEW id \in Ids, Placed(id)
    PROVE  /\ task[id] \in {"dial", "resolve", "connect", "open", "up", "ready", "lost", "retry",
                            "finished"} => Leaf(id)
           /\ task[id] = "removing" => Peer(id)
           /\ task[id] \in {"session", "forward", "write", "returned", "closing"} => ~Listener(id)
           /\ Leaf(id) => ~Peer(id) /\ ~Listener(id)
           /\ Listener(id) => ~Peer(id)
BY ZenonT(60) DEF Placed, Leaf, Peer, Listener, LeafPositions, PeerPositions, ListenerPositions

LEMMA StepRefines == Inv /\ [Next]_vars => [RS!Next]_(RS!vars)
\* A listener waits for the announcement of one client before it accepts the next.
<1>AdmitNext.
    ASSUME TaskOK, NEW l \in Ids, accept_one_client(l)
    PROVE  RS!Next
  <2> USE <1>AdmitNext
  <2>1. next_id \in Ids
    BY RouterAssumption, SMTT(60), Z3T(60) DEF TaskOK, accept_one_client, AdmitPeer, Alloc, Ids
  <2>2. Life' = [Life EXCEPT ![next_id] = "announce"] /\ Life[l] = "live"
    BY <2>1, LifeGoto, LifeIs, Zenon DEF accept_one_client, Accepting, At, LifeAt
  <2>3. ~RS!Announcing({"peer"}, who[l].spec)
    <3> SUFFICES ASSUME NEW c \in Ids, Life[c] = "announce", who[c].kind = "peer",
                        who[c].spec = who[l].spec
                 PROVE  FALSE
      BY Zenon DEF RS!Announcing, RS!Ids, Ids
    <3>1. task[c] = "announce"
      BY LifeIs, Zenon DEF LifeAt
    <3>2. c \in Children(l)
      BY Zenon DEF Children, Peer
    <3> QED
      BY <3>1, <3>2, Zenon DEF accept_one_client, Accepting, At
  <2>4. RS!AdmitPeer(l)
    BY <2>2, <2>3, Zenon DEF accept_one_client, Accepting, AdmitPeer, Alloc, Listener, RS!Listener,
          RS!AdmitPeer, RS!Alloc, channels, registry, RS!channels, RS!registry
  <2> QED
    BY <2>4, EndpointNext, ZenonT(60) DEF RS!Endpoint
<1>DepartNext.
    ASSUME TaskOK, NEW id \in Ids, RemovePeer(id), Peer(id)
    PROVE  RS!Next
  <2> USE <1>DepartNext
  <2>1. Life[id] = "live" /\ Life' = [Life EXCEPT ![id] = "gone"]
    BY LifeGoto, Zenon DEF RemovePeer, At, LifeAt
  <2>2. RS!Depart(id, Reason(id))
    BY <2>1, Zenon
       DEF RemovePeer, SendRemoved, RS!Depart, Peer, RS!Peer, RouterClosed, RS!RouterClosed,
           allocVars, channels, registry, RS!channels, RS!registry
  <2>3. Reason(id) \in Reasons
    BY Zenon DEF Reason, Reasons
  <2> QED
    BY <2>2, <2>3, EndpointNext, Zenon DEF RS!Endpoint
<1>ForwardFrameNext.
    ASSUME Inv, NEW id \in Ids, ForwardFrame(id)
    PROVE  RS!Next
  <2> USE <1>ForwardFrameNext
  <2>1. TypeOK /\ TaskOK /\ Placed(id) /\ Batch(id) /\ task[id] = "forward"
    BY TaskTyped, Zenon DEF Inv, ForwardFrame, At
  <2>2. Life[id] = "live" /\ Life' = Life
    BY <2>1, LifeGoto, SMTT(60), Z3T(60) DEF ForwardFrame, NextFrame, LifeAt
  <2>3. ~Listener(id)
    BY <2>1, KindOf, Zenon
  <2>4. inbox[id] \in Seq(Frames) /\ inbox[id] # <<>>
    BY <2>1, Zenon DEF TypeOK, Batch
  <2>5. Head(inbox[id]) \in Frames
    BY <2>4, Seq_HeadTail, Zenon
  <2>6. PassesIn(id) /\ SendFrame(id, Head(inbox[id]))
    BY Zenon DEF ForwardFrame
  <2> QED
    BY <2>2, <2>3, <2>5, <2>6, ForwardNext, ZenonT(60)
<1>NetworkRefines.
    ASSUME Inv, NEW id \in Ids, Network(id)
    PROVE  RS!Next \/ UNCHANGED RS!vars
  <2> USE <1>NetworkRefines
  <2>1. TaskOK
    BY TaskTyped, Zenon DEF Inv
  <2> USE DEF LifeAt
  <2>2. CASE Bind(id) /\ UNCHANGED sessionVars
    BY <2>1, <2>2, LocalStutters, ZenonT(60) DEF Bind
  <2>3. CASE accept_one_client(id)
    BY <2>1, <2>3, <1>AdmitNext, ZenonT(60)
  <2>4. CASE resolve_to_socket_addrs(id) \/ Connect(id) \/ ConnectFails(id)
    BY <2>1, <2>4, LocalStutters, ZenonT(60) DEF resolve_to_socket_addrs, Connect, ConnectFails, Move
  <2>5. CASE ReadFails(id) \/ WriteDone(id) \/ WriteFails(id)
    BY <2>1, <2>5, LocalStutters, ZenonT(60) DEF ReadFails, WriteDone, WriteFails, Return, Move
  <2>6. ASSUME NEW batch, Read(id, batch) PROVE UNCHANGED RS!vars
    BY <2>1, <2>6, LocalStutters, ZenonT(60) DEF Read
  <2> QED
    BY <2>2, <2>3, <2>4, <2>5, <2>6, ZenonT(60) DEF Network
<1>TaskRefines.
    ASSUME Inv, NEW id \in Ids, Task(id)
    PROVE  RS!Next \/ UNCHANGED RS!vars
  <2> USE <1>TaskRefines
  <2>1. TaskOK /\ Placed(id) /\ Childless(id) /\ (Ending(id) => cancelled)
    BY TaskTyped, Zenon DEF Inv
  <2>2. /\ task[id] \in {"dial", "resolve", "connect", "open", "up", "ready", "lost", "retry",
                         "finished"} => Leaf(id)
        /\ task[id] = "removing" => Peer(id)
        /\ Leaf(id) => ~Peer(id) /\ ~Listener(id)
        /\ Listener(id) => ~Peer(id)
    BY <2>1, KindOf, Zenon
  <2> USE DEF LifeAt
  <2>3. CASE Announce(id)
    <3>1. LifeAt(Start(id)) = "live"
      BY Zenon DEF Start
    <3> QED
      BY <2>1, <2>3, <3>1, AnnounceNext, Zenon DEF Announce
  <2>21. CASE AnnounceFails(id)
    BY <2>1, <2>21, AnnounceFailsNext, Zenon DEF AnnounceFails, Move
  <2>4. CASE BindCancelled(id)
    <3>1. cancelled /\ Local(id, "bind", "ended") /\ ~Peer(id) /\ Listener(id) /\ task[id] = "bind"
      BY <2>2, <2>4, Zenon DEF BindCancelled, Local, At
    <3>2. \A c \in Ids : Peer(c) /\ who[c].spec = who[id].spec => task[c] = "ended"
      BY <2>1, <3>1, ZenonT(60) DEF Childless
    <3> QED
      BY <2>1, <3>1, <3>2, ExitNext, ZenonT(60)
  <2>5. CASE Listening(id)
    <3>1. ~Peer(id)
      BY <2>2, <2>5, ZenonT(60) DEF Listening
    <3> QED
      BY <2>1, <2>5, <3>1, StoreStateNext, ZenonT(60) DEF Listening
  <2>6. CASE JoinClients(id)
    BY <2>1, <2>6, LocalStutters, ZenonT(60) DEF JoinClients, Move
  <2>7. CASE Dial(id) \/ DialCancelled(id) \/ ConnectCancelled(id) \/ open_until_cancel(id)
    <3>1. PICK from \in {"dial", "connect", "open"}, to \in {"open", "resolve", "closing", "up", "dial"} :
            Local(id, from, to)
      BY <2>7, Zenon DEF Dial, DialCancelled, ConnectCancelled, open_until_cancel, Move
    <3> QED
      BY <2>1, <3>1, LocalStutters, ZenonT(60)
  <2>8. CASE DrainStale(id)
    BY <2>1, <2>8, DrainNext, ZenonT(60) DEF DrainStale, At
  <2>9. CASE Connected(id)
    <3>1. ~Peer(id)
      BY <2>2, <2>9, ZenonT(60) DEF Connected, StoreState, At
    <3> QED
      BY <2>1, <2>9, <3>1, StoreStateNext, ZenonT(60) DEF Connected
  <2>10. CASE SessionCancelled(id) \/ ForwardFails(id)
    BY <2>1, <2>10, LocalStutters, ZenonT(60) DEF SessionCancelled, ForwardFails, Return
  <2>11. CASE FilterFrame(id)
    <3>1. PICK to \in {"session", "forward"} : Local(id, "forward", to)
      BY <2>11, Zenon DEF FilterFrame, NextFrame, Local
    <3> QED
      BY <2>1, <3>1, LocalStutters, ZenonT(60)
  <2>12. CASE ForwardFrame(id)
    BY <2>12, <1>ForwardFrameNext, ZenonT(60)
  <2>13. CASE PopFrame(id)
    BY <2>1, <2>13, PopNext, ZenonT(60) DEF PopFrame, At
  <2>14. CASE LinkLost(id)
    BY <2>1, <2>14, DrainNext, ZenonT(60) DEF LinkLost, At
  <2>15. CASE Reconnect(id)
    <3>1. ~Peer(id)
      BY <2>2, <2>15, ZenonT(60) DEF Reconnect, Tcpc, StoreState, At
    <3> QED
      BY <2>1, <2>15, <3>1, StoreStateNext, ZenonT(60) DEF Reconnect
  <2>16. CASE Retry(id)
    <3>1. CASE cancelled
      <4>1. Local(id, "retry", "ended") /\ ~Peer(id) /\ ~Listener(id)
        BY <2>2, <2>16, <3>1, ZenonT(60) DEF Retry, Move, Local, At
      <4> QED
        BY <2>1, <3>1, <4>1, ExitNext, ZenonT(60)
    <3>2. CASE ~cancelled
      BY <2>1, <2>16, <3>2, LocalStutters, ZenonT(60) DEF Retry, Move
    <3> QED
      BY <3>1, <3>2, ZenonT(60)
  <2>17. CASE EndLeaf(id) \/ EndClient(id)
    BY <2>1, <2>17, LocalStutters, ZenonT(60) DEF EndLeaf, EndClient, Move
  <2>18. CASE DrainAtEnd(id)
    <3>1. PICK to \in {"removing", "finished"} : Goto(id, to)
      BY <2>18, Zenon DEF DrainAtEnd
    <3> QED
      BY <2>1, <2>18, <3>1, DrainNext, ZenonT(60) DEF DrainAtEnd, At
  <2>19. CASE LeafEnds(id)
    <3>1. Local(id, "finished", "ended") /\ cancelled /\ ~Peer(id) /\ ~Listener(id)
      BY <2>1, <2>2, <2>19, ZenonT(60) DEF LeafEnds, Move, Local, At, Ending
    <3> QED
      BY <2>1, <3>1, ExitNext, ZenonT(60)
  <2>20. CASE RemovePeer(id)
    BY <2>1, <2>2, <2>20, <1>DepartNext, ZenonT(60) DEF RemovePeer, At
  <2> QED
    BY <2>3, <2>4, <2>5, <2>6, <2>7, <2>8, <2>9, <2>10, <2>11, <2>12, <2>13, <2>14, <2>15, <2>16,
       <2>17, <2>18, <2>19, <2>20, <2>21, ZenonT(60) DEF Task
<1> SUFFICES ASSUME Inv, [Next]_vars PROVE RS!Next \/ UNCHANGED RS!vars
  BY Zenon
<1>1. TaskOK
  BY TaskTyped, Zenon DEF Inv
<1>2. CASE UNCHANGED vars
  BY <1>2, IdleStutters, ZenonT(60) DEF vars
<1>3. CASE (Route \/ SpawnEndpoint \/ Cancel) /\ UNCHANGED sessionVars
  BY <1>1, <1>3, RouteNext, SpawnNext, CancelNext, ZenonT(60)
<1> QED
  BY <1>2, <1>3, <1>NetworkRefines, <1>TaskRefines, ZenonT(60) DEF Next

-----------------------------------------------------------------------------
(* The invariant. *)

Outcomes == {"none", "Terminated", "Disconnected"}
Preparing == {"announce", "bind", "bound"}

\* A position the task may move to.
MayBe(id, to) ==
    \/ Leaf(id) /\ to \in LeafPositions
    \/ Peer(id) /\ to \in PeerPositions
    \/ Listener(id) /\ to \in ListenerPositions

NoClientRuns(l) == \A c \in Ids : Peer(c) /\ who[c].spec = who[l].spec => task[c] = "ended"

-----------------------------------------------------------------------------
LEMMA InitInv == Init => Inv
<1> SUFFICES ASSUME Init PROVE Inv
  BY Zenon
<1> USE DEF Init, TransportInit, RouterInit
<1>1. TypeOK
  <2>1. who \in [Ids -> [kind : {"none", "leaf", "listener", "peer"}, spec : Nat]]
    BY Zenon
  <2>2. task \in [Ids -> Positions]
    BY Zenon DEF Positions
  <2>3. inbox \in [Ids -> Seq(Frames)]
    BY Seq_Empty, Zenon
  <2>4. outcome \in [Ids -> {"none", "Terminated", "Disconnected"}]
    BY Zenon
  <2>5. next_id \in Nat \ {0} /\ spawned \in Nat /\ sent \in Nat
    BY SMTT(60), Z3T(60)
  <2>6. cancelled \in BOOLEAN
    BY Zenon
  <2> HIDE DEF Init
  <2> QED
    BY <2>1, <2>2, <2>3, <2>4, <2>5, <2>6, ZenonT(60) DEF TypeOK
<1>2. \A id \in Ids : /\ who[id].kind = "none" /\ task[id] = "none" /\ inbox[id] = <<>>
                      /\ outcome[id] = "none"
  BY Zenon
<1>3. pc \notin {"drain", "sweep", "done"}
  BY Zenon
<1> HIDE DEF Init
<1>4. \A id \in Ids : /\ Placed(id) /\ Batch(id) /\ Childless(id)
                      /\ Ending(id) => cancelled
  BY <1>2, Zenon DEF Placed, Batch, Childless, Ending, Leaf, Listener
<1>5. Allocated
  BY <1>2, Zenon DEF Allocated, Listener
<1> QED
  BY <1>1, <1>3, <1>4, <1>5, ZenonT(60) DEF Inv

LEMMA NextInv == Inv /\ [Next]_vars => Inv'
\* A step of one task.
<1>MoveInv.
    ASSUME Inv, NEW id \in Ids, NEW to, Goto(id, to), MayBe(id, to),
           UNCHANGED <<next_id, spawned, who, cancelled, pc>>,
           NEW o \in Outcomes, outcome' = [outcome EXCEPT ![id] = o],
           NEW b \in Seq(Frames), inbox' = [inbox EXCEPT ![id] = b],
           sent' \in Nat,
           to = "finished" \/ (Leaf(id) /\ to = "closing") \/ o = "Terminated" => cancelled,
           b # <<>> <=> to = "forward",
           task[id] # "ended",
           Listener(id) /\ to \in Preparing => NoClientRuns(id)
    PROVE  Inv'
  <2> USE <1>MoveInv
  <2>1. /\ task \in [Ids -> Positions] /\ outcome \in [Ids -> Outcomes]
        /\ inbox \in [Ids -> Seq(Frames)] /\ to \in Positions
    BY Zenon DEF Inv, TypeOK, Outcomes, MayBe, Positions
  <2>2. /\ task' \in [Ids -> Positions] /\ outcome' \in [Ids -> Outcomes]
        /\ inbox' \in [Ids -> Seq(Frames)]
        /\ task'[id] = to /\ outcome'[id] = o /\ inbox'[id] = b
        /\ \A x \in Ids : x # id => /\ task'[x] = task[x] /\ outcome'[x] = outcome[x]
                                    /\ inbox'[x] = inbox[x]
    BY <2>1, Zenon DEF Goto
  <2>3. TypeOK'
    BY <2>2, Zenon DEF Inv, TypeOK, Outcomes
  <2>4. \A x \in Ids : /\ Leaf(x)' <=> Leaf(x)
                       /\ Peer(x)' <=> Peer(x)
                       /\ Listener(x)' <=> Listener(x)
    BY Zenon DEF Leaf, Peer, Listener
  <2>5. ASSUME NEW x \in Ids PROVE Placed(x)' /\ Batch(x)' /\ (Ending(x)' => cancelled')
    <3>1. CASE x = id
      BY <2>2, <2>4, <3>1, ZenonT(60) DEF Placed, Batch, Ending, MayBe
    <3>2. CASE x # id
      <4>1. Placed(x) /\ Batch(x) /\ (Ending(x) => cancelled)
        BY Zenon DEF Inv
      <4> QED
        BY <2>2, <2>4, <3>2, <4>1, ZenonT(60) DEF Placed, Batch, Ending
    <3> QED
      BY <3>1, <3>2, ZenonT(60)
  <2>6. ASSUME NEW x \in Ids PROVE Childless(x)'
    <3> SUFFICES ASSUME Listener(x), task'[x] \in Preparing, NEW c \in Ids, Peer(c),
                        who[c].spec = who[x].spec
                 PROVE  task'[c] = "ended"
      BY <2>4, Zenon DEF Childless, Preparing
    <3>1. task[c] = "ended"
      <4>1. CASE x = id
        BY <2>2, <4>1, ZenonT(60) DEF NoClientRuns
      <4>2. CASE x # id
        <5>1. task[x] \in Preparing /\ Childless(x)
          BY <2>2, <4>2, ZenonT(60) DEF Inv
        <5> QED
          BY <5>1, Zenon DEF Childless, Preparing
      <4> QED
        BY <4>1, <4>2, ZenonT(60)
    <3> QED
      BY <2>2, <3>1, ZenonT(60)
  <2>7. Allocated'
    BY <2>4, Zenon DEF Inv, Allocated
  <2>8. pc' \in {"drain", "sweep", "done"} => cancelled'
    BY Zenon DEF Inv
  <2> QED
    BY <2>3, <2>5, <2>6, <2>7, <2>8, ZenonT(60) DEF Inv
<1>TypesOf.
    ASSUME Inv, NEW id \in Ids
    PROVE  /\ TypeOK /\ sent \in Nat
           /\ inbox[id] \in Seq(Frames) /\ inbox = [inbox EXCEPT ![id] = inbox[id]]
           /\ outcome[id] \in Outcomes /\ outcome = [outcome EXCEPT ![id] = outcome[id]]
           /\ inbox[id] # <<>> <=> task[id] = "forward"
           /\ outcome[id] = "Terminated" => cancelled
           /\ Leaf(id) /\ task[id] = "closing" => cancelled
           /\ task[id] = "finished" => cancelled
           /\ pc = "done" => cancelled
           /\ Placed(id)
           /\ Listener(id) /\ task[id] \in Preparing => NoClientRuns(id)
  BY <1>TypesOf, ZenonT(60)
     DEF Inv, TypeOK, Batch, Ending, Outcomes, Childless, Preparing, NoClientRuns
\* A step that leaves the frames in hand alone.
<1>MoveKeeps.
    ASSUME Inv, NEW id \in Ids, NEW to, Goto(id, to), MayBe(id, to),
           UNCHANGED <<next_id, spawned, who, cancelled, pc, sent, inbox>>,
           NEW o \in Outcomes, outcome' = [outcome EXCEPT ![id] = o],
           to = "finished" \/ (Leaf(id) /\ to = "closing") \/ o = "Terminated" => cancelled,
           to # "forward", task[id] \notin {"forward", "ended"},
           Listener(id) /\ to \in Preparing => NoClientRuns(id)
    PROVE  Inv'
  <2> USE <1>MoveKeeps
  <2>1. /\ sent \in Nat
        /\ inbox[id] \in Seq(Frames) /\ inbox = [inbox EXCEPT ![id] = inbox[id]]
        /\ inbox[id] # <<>> <=> task[id] = "forward"
    BY <1>TypesOf, Zenon
  <2>2. sent' \in Nat /\ inbox' = [inbox EXCEPT ![id] = inbox[id]]
    BY <2>1, Zenon
  <2>3. inbox[id] # <<>> <=> to = "forward"
    BY <2>1, Zenon
  <2> QED
    BY <2>1, <2>2, <2>3, <1>MoveInv, Zenon
\* A leaf comes up, goes down or starts over.
<1>LeafInv.
    ASSUME Inv, NEW id \in Ids,
           \/ resolve_to_socket_addrs(id) \/ Connect(id) \/ ConnectFails(id)
           \/ Dial(id) \/ DialCancelled(id) \/ ConnectCancelled(id) \/ open_until_cancel(id)
           \/ DrainStale(id) \/ Connected(id) \/ LinkLost(id) \/ Reconnect(id) \/ Retry(id)
           \/ EndLeaf(id) \/ LeafEnds(id)
    PROVE  Inv'
  <2> USE <1>LeafInv
  <2>1. /\ outcome[id] \in Outcomes /\ outcome = [outcome EXCEPT ![id] = outcome[id]]
        /\ outcome[id] = "Terminated" => cancelled
        /\ task[id] = "finished" => cancelled
        /\ Placed(id)
    BY <1>TypesOf, Zenon
  <2>2. /\ task[id] \in {"dial", "resolve", "connect", "open", "up", "ready", "lost", "retry",
                         "finished"} => Leaf(id)
        /\ Leaf(id) => ~Listener(id)
    BY <2>1, KindOf, ZenonT(60)
  <2>3. UNCHANGED <<next_id, spawned, who, cancelled, pc, sent, inbox>>
    BY Zenon
       DEF resolve_to_socket_addrs, Connect, ConnectFails, Dial, DialCancelled, ConnectCancelled,
           open_until_cancel, DrainStale, Connected, LinkLost, Reconnect, Retry, EndLeaf,
           LeafEnds, Move, Local, StoreState, drain_and_discard, Consume, routerVars, allocVars,
           sessionVars
  <2>4. /\ task[id] \in {"dial", "resolve", "connect", "open", "up", "ready", "lost", "retry",
                         "finished"} \/ (task[id] = "returned" /\ Leaf(id))
        /\ \E to \in {"resolve", "connect", "open", "up", "ready", "session", "dial", "lost",
                      "retry", "ended"} \cup (IF cancelled THEN {"closing"} ELSE {}) : Goto(id, to)
    BY <2>1, ZenonT(60)
    DEF resolve_to_socket_addrs, Connect, ConnectFails, Dial, DialCancelled, ConnectCancelled,
        open_until_cancel, DrainStale, Connected, LinkLost, Reconnect, Retry, EndLeaf, LeafEnds,
        Serial, Tcpc, Move, Local, StoreState, At
  <2>5. PICK o \in Outcomes : outcome' = [outcome EXCEPT ![id] = o] /\ (o = "Terminated" => cancelled)
    <3>1. outcome' = outcome \/ outcome' = [outcome EXCEPT ![id] = "none"]
      BY Zenon
         DEF resolve_to_socket_addrs, Connect, ConnectFails, Dial, DialCancelled,
             ConnectCancelled, open_until_cancel, DrainStale, Connected, LinkLost, Reconnect,
             Retry, EndLeaf, LeafEnds, Move, Consume, sessionVars
    <3> QED
      BY <2>1, <3>1, ZenonT(60) DEF Outcomes
  <2>6. PICK to \in LeafPositions : /\ Goto(id, to) /\ to \notin {"forward", "finished"}
                                    /\ to = "closing" => cancelled
    BY <2>4, Zenon DEF LeafPositions
  <2>7. MayBe(id, to) /\ ~Listener(id) /\ task[id] \notin {"forward", "ended"}
    BY <2>2, <2>4, <2>6, ZenonT(60) DEF MayBe
  <2> QED
    BY <2>3, <2>5, <2>6, <2>7, <1>MoveKeeps, ZenonT(60)
\* The steps of a session that do not touch its batch, and the end of a client.
<1>SessionInv.
    ASSUME Inv, NEW id \in Ids,
           \/ SessionCancelled(id) \/ ReadFails(id) \/ WriteDone(id) \/ WriteFails(id)
           \/ PopFrame(id) \/ EndClient(id) \/ DrainAtEnd(id) \/ RemovePeer(id)
    PROVE  Inv'
  <2> USE <1>SessionInv
  <2>1. /\ outcome[id] \in Outcomes /\ outcome = [outcome EXCEPT ![id] = outcome[id]]
        /\ outcome[id] = "Terminated" => cancelled
        /\ Leaf(id) /\ task[id] = "closing" => cancelled
        /\ Placed(id)
    BY <1>TypesOf, Zenon
  <2>2. UNCHANGED <<next_id, spawned, who, cancelled, pc, sent, inbox>>
    BY Zenon
       DEF SessionCancelled, ReadFails, WriteDone, WriteFails, PopFrame, EndClient, DrainAtEnd,
           RemovePeer, Return, Move, Local, PopTx, drain_and_discard, SendRemoved, Consume,
           routerVars, allocVars, sessionVars
  <2>3. /\ task[id] \in {"session", "write", "returned", "closing", "removing"}
        /\ \/ \E to \in {"session", "write", "returned"} : Goto(id, to) /\ task[id] # "removing"
           \/ Goto(id, "closing") /\ Peer(id)
           \/ Goto(id, "removing") /\ Peer(id)
           \/ Goto(id, "finished") /\ ~Peer(id) /\ task[id] = "closing"
           \/ Goto(id, "ended")
    BY Zenon
       DEF SessionCancelled, ReadFails, WriteDone, WriteFails, PopFrame, EndClient, DrainAtEnd,
           RemovePeer, Return, Move, Local, At
  <2>4. ~Listener(id) /\ (Leaf(id) \/ Peer(id)) /\ ~(Leaf(id) /\ Peer(id))
    BY <2>1, <2>3, ZenonT(60) DEF Placed, Leaf, Peer, Listener, ListenerPositions
  <2>5. PICK o \in Outcomes : outcome' = [outcome EXCEPT ![id] = o] /\ (o = "Terminated" => cancelled)
    <3>1. \/ outcome' = outcome
          \/ outcome' = [outcome EXCEPT ![id] = "none"]
          \/ outcome' = [outcome EXCEPT ![id] = "Disconnected"]
          \/ outcome' = [outcome EXCEPT ![id] = "Terminated"] /\ cancelled
      BY Zenon
         DEF SessionCancelled, ReadFails, WriteDone, WriteFails, PopFrame, EndClient, DrainAtEnd,
             RemovePeer, Return, Move, Consume, sessionVars
    <3> QED
      BY <2>1, <3>1, ZenonT(60) DEF Outcomes
  <2>6. \E to : /\ Goto(id, to) /\ MayBe(id, to) /\ to # "forward"
                /\ to = "finished" \/ (Leaf(id) /\ to = "closing") => cancelled
    BY <2>1, <2>3, <2>4, SMTT(60), Z3T(60) DEF MayBe, LeafPositions, PeerPositions
  <2>7. task[id] \notin {"forward", "ended"}
    BY <2>3, Zenon
  <2> QED
    BY <2>2, <2>4, <2>5, <2>6, <2>7, <1>MoveKeeps, ZenonT(60)
\* A task is announced; a listener binds, accepts and joins its clients.
<1>ListenerInv.
    ASSUME Inv, NEW id \in Ids,
           \/ Announce(id) \/ AnnounceFails(id) \/ JoinClients(id)
           \/ (Bind(id) \/ BindCancelled(id) \/ Listening(id)) /\ UNCHANGED sessionVars
    PROVE  Inv'
  <2> USE <1>ListenerInv
  <2>1. /\ outcome[id] \in Outcomes /\ outcome = [outcome EXCEPT ![id] = outcome[id]]
        /\ outcome[id] = "Terminated" => cancelled
        /\ Listener(id) /\ task[id] \in Preparing => NoClientRuns(id)
        /\ Placed(id)
    BY <1>TypesOf, Zenon
  <2>2. UNCHANGED <<next_id, spawned, who, cancelled, pc, sent, inbox, outcome>>
    BY Zenon
       DEF Announce, AnnounceFails, JoinClients, Bind, BindCancelled, Listening, SendAdded, Move,
           Local, StoreState, routerVars, allocVars, sessionVars
  <2>3. CASE Announce(id)
    <3>1. Goto(id, Start(id)) /\ task[id] = "announce"
      BY <2>3, Zenon DEF Announce, SendAdded, At
    <3>2. MayBe(id, Start(id)) /\ Start(id) \in {"dial", "bind", "session"}
      BY <2>1, <3>1, ZenonT(60)
         DEF Placed, MayBe, Start, Leaf, Peer, Listener, LeafPositions, PeerPositions,
             ListenerPositions
    <3>3. Listener(id) => NoClientRuns(id)
      BY <2>1, <3>1, ZenonT(60) DEF Preparing
    <3> HIDE DEF Start
    <3>4. Start(id) \notin {"finished", "closing", "forward"}
      BY <3>2, Zenon
    <3> QED
      BY <2>1, <2>2, <3>1, <3>2, <3>3, <3>4, <1>MoveKeeps, ZenonT(60)
  <2>4. CASE AnnounceFails(id)
    <3>1. Goto(id, "ended") /\ task[id] = "announce" /\ "ended" \notin Preparing
      BY <2>4, Zenon DEF AnnounceFails, Move, Local, At, Preparing
    <3>2. MayBe(id, "ended")
      BY <2>1, <3>1, ZenonT(60) DEF Placed, MayBe, LeafPositions, PeerPositions, ListenerPositions
    <3> QED
      BY <2>1, <2>2, <3>1, <3>2, <1>MoveKeeps, ZenonT(60)
  <2>5. CASE JoinClients(id)
    <3>1. Goto(id, "bind") /\ task[id] = "listen" /\ Listener(id)
      BY <2>5, Zenon DEF JoinClients, Accepting, Move, Local, At
    <3>2. NoClientRuns(id)
      BY <2>5, Zenon DEF JoinClients, Children, At, NoClientRuns
    <3>3. MayBe(id, "bind")
      BY <3>1, Zenon DEF MayBe, ListenerPositions
    <3> QED
      BY <2>1, <2>2, <3>1, <3>2, <3>3, <1>MoveKeeps, SMTT(60), Z3T(60) DEF Leaf, Listener
  <2>6. CASE Bind(id) \/ BindCancelled(id) \/ Listening(id)
    <3>1. Listener(id) /\ task[id] \in {"bind", "bound"}
      BY <2>6, ZenonT(60) DEF Bind, BindCancelled, Listening, Local, StoreState, At
    <3>2. PICK to \in {"bound", "ended", "listen"} : Goto(id, to)
      BY <2>6, Zenon DEF Bind, BindCancelled, Listening, Local, StoreState
    <3>3. MayBe(id, to) /\ NoClientRuns(id)
      BY <2>1, <3>1, <3>2, ZenonT(60) DEF MayBe, ListenerPositions, Preparing
    <3> QED
      BY <2>1, <2>2, <3>1, <3>2, <3>3, <1>MoveKeeps, ZenonT(60)
  <2> QED
    BY <2>3, <2>4, <2>5, <2>6, ZenonT(60)
\* A read completes a batch.
<1>ReadInv.
    ASSUME Inv, NEW id \in Ids, NEW n \in 1..MaxBatch, NEW batch \in [1..n -> Frames],
           Read(id, batch)
    PROVE  Inv'
  <2> USE <1>ReadInv
  <2>1. /\ TypeOK /\ sent \in Nat /\ Placed(id)
        /\ outcome[id] \in Outcomes /\ outcome = [outcome EXCEPT ![id] = outcome[id]]
        /\ inbox[id] # <<>> <=> task[id] = "forward"
        /\ outcome[id] = "Terminated" => cancelled
    BY <1>TypesOf, Zenon
  <2>2. batch \in Seq(Frames) /\ Len(batch) = n /\ n \in Nat \ {0}
    BY StreamAssumption, SMTT(60), Z3T(60)
  <2>3. batch # <<>>
    BY <2>2, Seq_Empty, ZenonT(60)
  <2>4. /\ UNCHANGED <<next_id, spawned, who, cancelled, pc, sent, outcome>>
        /\ task[id] = "session" /\ Goto(id, "forward")
        /\ inbox' = [inbox EXCEPT ![id] = batch]
    BY Zenon DEF Read, Local, At, routerVars, allocVars
  <2>5. MayBe(id, "forward") /\ "forward" \notin Preparing
    BY <2>1, <2>4, ZenonT(60)
       DEF Placed, MayBe, LeafPositions, PeerPositions, ListenerPositions, Preparing
  <2> QED
    BY <2>1, <2>2, <2>3, <2>4, <2>5, <1>MoveInv, ZenonT(60)
\* The next frame of a batch is filtered, forwarded or, with the rest, lost.
<1>BatchInv.
    ASSUME Inv, NEW id \in Ids, FilterFrame(id) \/ ForwardFrame(id) \/ ForwardFails(id)
    PROVE  Inv'
  <2> USE <1>BatchInv
  <2>1. /\ TypeOK /\ sent \in Nat /\ Placed(id)
        /\ outcome[id] \in Outcomes /\ outcome = [outcome EXCEPT ![id] = outcome[id]]
        /\ inbox[id] \in Seq(Frames)
        /\ inbox[id] # <<>> <=> task[id] = "forward"
        /\ outcome[id] = "Terminated" => cancelled
        /\ pc = "done" => cancelled
    BY <1>TypesOf, Zenon
  <2>2. /\ UNCHANGED <<next_id, spawned, who, cancelled, pc>>
        /\ task[id] = "forward" /\ inbox[id] # <<>>
        /\ sent' = sent \/ sent' = sent + 1
    BY <2>1, ZenonT(60)
       DEF FilterFrame, ForwardFrame, ForwardFails, Return, Local, SendFrame, At, routerVars,
           allocVars
  <2>3. /\ Len(inbox[id]) \in Nat \ {0} /\ Tail(inbox[id]) \in Seq(Frames)
        /\ Len(Tail(inbox[id])) = Len(inbox[id]) - 1
    BY <2>1, <2>2, Seq_Empty, Seq_HeadTail, ZenonT(60)
  <2>4. PICK b \in Seq(Frames) :
          /\ inbox' = [inbox EXCEPT ![id] = b]
          /\ \E to \in {"session", "forward", "returned"} :
                Goto(id, to) /\ (b # <<>> <=> to = "forward")
    <3>1. CASE FilterFrame(id) \/ ForwardFrame(id)
      <4>1. /\ inbox' = [inbox EXCEPT ![id] = Tail(inbox[id])]
            /\ Goto(id, IF Len(inbox[id]) = 1 THEN "session" ELSE "forward")
        BY <3>1, ZenonT(60) DEF FilterFrame, ForwardFrame, NextFrame
      <4>2. Tail(inbox[id]) = <<>> <=> Len(inbox[id]) = 1
        <5>1. Tail(inbox[id]) = <<>> => Len(Tail(inbox[id])) = 0
          BY Seq_Empty, Zenon
        <5>2. Tail(inbox[id]) # <<>> => Len(Tail(inbox[id])) \in Nat \ {0}
          BY <2>3, Seq_Empty, ZenonT(60)
        <5> QED
          BY <2>3, <5>1, <5>2, SMTT(60), Z3T(60)
      <4> DEFINE rest == Tail(inbox[id])
                 to == IF Len(inbox[id]) = 1 THEN "session" ELSE "forward"
      <4>3. rest \in Seq(Frames) /\ inbox' = [inbox EXCEPT ![id] = rest]
        BY <2>3, <4>1, ZenonT(60)
      <4>4. to \in {"session", "forward", "returned"} /\ Goto(id, to) /\ (rest # <<>> <=> to = "forward")
        BY <4>1, <4>2, ZenonT(60)
      <4> HIDE DEF rest, to
      <4> QED
        BY <4>3, <4>4, ZenonT(60)
    <3>2. CASE ForwardFails(id)
      <4>1. inbox' = [inbox EXCEPT ![id] = <<>>] /\ Goto(id, "returned")
        BY <3>2, ZenonT(60) DEF ForwardFails, Return, Local
      <4>2. <<>> \in Seq(Frames)
        BY Seq_Empty, Zenon
      <4>3. \E to \in {"session", "forward", "returned"} :
               Goto(id, to) /\ (<<>> # <<>> <=> to = "forward")
        BY <4>1, Zenon
      <4> QED
        BY <4>1, <4>2, <4>3, ZenonT(60)
    <3> QED
      BY <3>1, <3>2, ZenonT(60)
  <2>5. PICK to \in {"session", "forward", "returned"} : Goto(id, to) /\ (b # <<>> <=> to = "forward")
    BY <2>4, Zenon
  <2>6. PICK o \in Outcomes : outcome' = [outcome EXCEPT ![id] = o] /\ (o = "Terminated" => cancelled)
    <3>1. outcome' = outcome \/ (outcome' = [outcome EXCEPT ![id] = "Terminated"] /\ pc = "done")
      BY Zenon DEF FilterFrame, ForwardFrame, ForwardFails, Return, RouterClosed
    <3> QED
      BY <2>1, <3>1, ZenonT(60) DEF Outcomes
  <2>7. sent' \in Nat
    BY <2>1, <2>2, SMTT(60), Z3T(60)
  <2>8. /\ MayBe(id, to) /\ to \notin Preparing /\ to \notin {"finished", "closing"}
        /\ task[id] # "ended"
    BY <2>1, <2>2, <2>5, ZenonT(60)
       DEF Placed, MayBe, LeafPositions, PeerPositions, ListenerPositions, Preparing
  <2> QED
    BY <2>2, <2>4, <2>5, <2>6, <2>7, <2>8, <1>MoveInv, ZenonT(60)
\* A fresh id: of a configured endpoint, or of a client of a listener that accepts.
<1>AllocInv.
    ASSUME Inv, NEW kind \in {"leaf", "listener", "peer"}, NEW spec \in Nat,
           next_id <= MaxId, next_id' = next_id + 1,
           who' = [who EXCEPT ![next_id] = [kind |-> kind, spec |-> spec]],
           Goto(next_id, "announce"),
           UNCHANGED <<cancelled, pc, sent, sessionVars>>,
           spawned' \in Nat, spawned <= spawned', spec <= spawned',
           kind = "listener" => spec > spawned,
           \A l \in Ids : kind = "peer" /\ Listener(l) /\ who[l].spec = spec
                             => task[l] \notin Preparing
    PROVE  Inv'
  <2> USE <1>AllocInv
  <2>1. next_id \in Nat \ {0} /\ next_id \in Ids /\ spawned \in Nat
    BY RouterAssumption, SMTT(60), Z3T(60) DEF Inv, TypeOK, Ids
  <2>2. /\ task \in [Ids -> Positions]
        /\ who \in [Ids -> [kind : {"none", "leaf", "listener", "peer"}, spec : Nat]]
        /\ UNCHANGED <<outcome, inbox>>
    BY Zenon DEF Inv, TypeOK, sessionVars
  <2>3. who[next_id].kind = "none" /\ task[next_id] = "none"
    <3>1. next_id >= next_id
      BY <2>1, SMTT(60), Z3T(60)
    <3>2. who[next_id].kind = "none" /\ Placed(next_id)
      BY <2>1, <3>1, ZenonT(60) DEF Inv, Allocated
    <3> QED
      BY <3>2, ZenonT(60) DEF Placed, Leaf, Peer, Listener
  <2>4. /\ who' \in [Ids -> [kind : {"none", "leaf", "listener", "peer"}, spec : Nat]]
        /\ task' \in [Ids -> Positions] /\ next_id' \in Nat \ {0}
    BY <2>1, <2>2, SMTT(60), Z3T(60) DEF Goto, Positions, LeafPositions
  <2>5. /\ task'[next_id] = "announce" /\ who'[next_id].kind = kind /\ who'[next_id].spec = spec
        /\ \A x \in Ids : x # next_id => task'[x] = task[x] /\ who'[x] = who[x]
    BY <2>1, <2>2, ZenonT(60) DEF Goto
  <2>6. TypeOK'
    BY <2>2, <2>4, ZenonT(60) DEF Inv, TypeOK
  <2>7. ASSUME NEW x \in Ids PROVE Placed(x)' /\ Batch(x)' /\ (Ending(x)' => cancelled')
    <3>1. Placed(x) /\ Batch(x) /\ (Ending(x) => cancelled)
      BY Zenon DEF Inv
    <3>2. CASE x = next_id
      BY <2>2, <2>3, <2>5, <3>1, <3>2, ZenonT(60)
      DEF Placed, Batch, Ending, Leaf, Peer, Listener, LeafPositions, PeerPositions,
          ListenerPositions
    <3>3. CASE x # next_id
      BY <2>2, <2>5, <3>1, <3>3, ZenonT(60) DEF Placed, Batch, Ending, Leaf, Peer, Listener
    <3> QED
      BY <3>2, <3>3, ZenonT(60)
  <2>8. ASSUME NEW x \in Ids PROVE Childless(x)'
    <3> SUFFICES ASSUME who'[x].kind = "listener", task'[x] \in Preparing, NEW c \in Ids,
                        who'[c].kind = "peer", who'[c].spec = who'[x].spec
                 PROVE  task'[c] = "ended"
      BY ZenonT(60) DEF Childless, Preparing, Listener, Peer
    <3>1. CASE x = next_id
      <4>1. c # next_id /\ kind = "listener" /\ who'[c] = who[c]
        BY <2>5, <3>1, ZenonT(60)
      <4>2. who[c].spec <= spawned /\ who[c].spec = spec
        BY <2>5, <3>1, <4>1, ZenonT(60) DEF Inv, Allocated
      <4> QED
        BY <2>1, <4>1, <4>2, SMTT(60), Z3T(60)
    <3>2. CASE x # next_id
      <4>1. who[x].kind = "listener" /\ task[x] \in Preparing /\ Childless(x)
        BY <2>5, <3>2, Zenon DEF Inv
      <4>2. c # next_id
        BY <2>5, <3>2, <4>1, ZenonT(60) DEF Listener
      <4> QED
        BY <2>5, <3>2, <4>1, <4>2, ZenonT(60) DEF Childless, Listener, Peer, Preparing
    <3> QED
      BY <3>1, <3>2, ZenonT(60)
  <2>9. Allocated'
    <3>1. \A x \in Ids : x >= next_id' => who'[x].kind = "none"
      <4>1. \A x \in Ids : x >= next_id + 1 => x >= next_id /\ x # next_id
        BY <2>1, SMTT(60), Z3T(60) DEF Ids
      <4> QED
        BY <2>5, <4>1, ZenonT(60) DEF Inv, Allocated
    <3>2. ASSUME NEW x \in Ids, who'[x].kind # "none" PROVE who'[x].spec <= spawned'
      <4>1. CASE x = next_id
        BY <2>5, <4>1, ZenonT(60)
      <4>2. CASE x # next_id
        <5>1. who[x].spec <= spawned /\ who'[x].spec = who[x].spec /\ who[x].spec \in Nat
          BY <2>2, <2>5, <3>2, <4>2, ZenonT(60) DEF Inv, Allocated
        <5> QED
          BY <2>1, <5>1, SMTT(60), Z3T(60)
      <4> QED
        BY <4>1, <4>2, Zenon
    <3>3. ASSUME NEW l \in Ids, NEW m \in Ids, who'[l].kind = "listener", who'[m].kind = "listener",
                 who'[l].spec = who'[m].spec
          PROVE  l = m
      <4>1. \A x \in Ids : x # next_id /\ who'[x].kind = "listener" => who'[x].spec <= spawned
        BY <2>5, ZenonT(60) DEF Inv, Allocated
      <4>2. CASE l # next_id /\ m # next_id
        BY <2>5, <3>3, <4>2, SMTT(60), Z3T(60) DEF Inv, Allocated, Listener
      <4>3. CASE l = next_id /\ m # next_id
        BY <2>1, <2>5, <3>3, <4>1, <4>3, SMTT(60), Z3T(60)
      <4>4. CASE l # next_id /\ m = next_id
        BY <2>1, <2>5, <3>3, <4>1, <4>4, SMTT(60), Z3T(60)
      <4> QED
        BY <4>2, <4>3, <4>4, ZenonT(60)
    <3> QED
      BY <3>1, <3>2, <3>3, ZenonT(60) DEF Allocated, Listener
  <2>10. pc' \in {"drain", "sweep", "done"} => cancelled'
    BY Zenon DEF Inv
  <2> QED
    BY <2>6, <2>7, <2>8, <2>9, <2>10, ZenonT(60) DEF Inv
<1>SpawnInv.
    ASSUME Inv, SpawnEndpoint, UNCHANGED sessionVars
    PROVE  Inv'
  <2> USE <1>SpawnInv
  <2> DEFINE kind == IF Endpoints[spawned + 1].listener THEN "listener" ELSE "leaf"
  <2>1. /\ UNCHANGED <<cancelled, pc, sent, sessionVars>>
        /\ Goto(next_id, "announce") /\ next_id <= MaxId /\ next_id' = next_id + 1
        /\ spawned' = spawned + 1
        /\ who' = [who EXCEPT ![next_id] = [kind |-> kind, spec |-> spawned + 1]]
    BY Zenon DEF SpawnEndpoint, Alloc, routerVars
  <2>2. spawned \in Nat
    BY Zenon DEF Inv, TypeOK
  <2>3. kind \in {"leaf", "listener", "peer"} /\ kind # "peer"
    BY Zenon
  <2> HIDE DEF kind
  <2>4. /\ spawned + 1 \in Nat /\ spawned' \in Nat /\ spawned <= spawned' /\ spawned + 1 <= spawned'
        /\ spawned + 1 > spawned
    BY <2>1, <2>2, SMTT(60), Z3T(60)
  <2> QED
    BY <2>1, <2>3, <2>4, <1>AllocInv, ZenonT(60)
<1>AdmitInv.
    ASSUME Inv, NEW l \in Ids, accept_one_client(l)
    PROVE  Inv'
  <2> USE <1>AdmitInv
  <2>1. /\ UNCHANGED <<cancelled, pc, sent, sessionVars>> /\ spawned' = spawned
        /\ Goto(next_id, "announce") /\ next_id <= MaxId /\ next_id' = next_id + 1
        /\ who' = [who EXCEPT ![next_id] = [kind |-> "peer", spec |-> who[l].spec]]
        /\ Listener(l) /\ task[l] = "listen"
    BY Zenon DEF accept_one_client, Accepting, AdmitPeer, Alloc, At
  <2>2. spawned \in Nat /\ who[l].spec \in Nat /\ who[l].spec <= spawned
    BY <2>1, ZenonT(60) DEF Inv, TypeOK, Allocated, Listener
  <2>3. \A m \in Ids : Listener(m) /\ who[m].spec = who[l].spec => task[m] \notin Preparing
    BY <2>1, ZenonT(60) DEF Inv, Allocated, Preparing
  <2>4. spawned' \in Nat /\ spawned <= spawned' /\ who[l].spec <= spawned'
    BY <2>1, <2>2, SMTT(60), Z3T(60)
  <2> QED
    BY <2>1, <2>2, <2>3, <2>4, <1>AllocInv, ZenonT(60)
<1> SUFFICES ASSUME Inv, [Next]_vars PROVE Inv'
  BY Zenon
<1>1. ASSUME UNCHANGED <<transportVars, sessionVars>>, cancelled => cancelled', cancelled' \in BOOLEAN,
             pc' \in {"drain", "sweep", "done"} => cancelled'
      PROVE  Inv'
  <2>1. UNCHANGED <<next_id, spawned, who, sent, task, outcome, inbox>>
    BY <1>1, ZenonT(60) DEF transportVars, allocVars, sessionVars
  <2>2. TypeOK' /\ Allocated'
    BY <1>1, <2>1, ZenonT(60) DEF Inv, TypeOK, Allocated, Listener
  <2>3. \A id \in Ids : /\ Placed(id)' /\ Batch(id)' /\ Childless(id)'
                        /\ Ending(id)' => cancelled'
    BY <1>1, <2>1, ZenonT(60) DEF Inv, Placed, Batch, Childless, Ending, Leaf, Peer, Listener
  <2> QED
    BY <1>1, <2>2, <2>3, ZenonT(60) DEF Inv
<1>2. cancelled \in BOOLEAN /\ (pc \in {"drain", "sweep", "done"} => cancelled)
  BY Zenon DEF Inv, TypeOK
<1>3. CASE Route /\ UNCHANGED sessionVars
  <2>1. /\ UNCHANGED <<transportVars, sessionVars>> /\ cancelled' = cancelled
        /\ pc' \in {"drain", "sweep", "done"} => cancelled
    BY <1>2, <1>3, ZenonT(60)
       DEF Route, RouterNext, PollCancel, TakeEvent, NoEvent, TakeFrame, NoFrame, DrainedEvents,
           SweepOne, SweepDone
  <2> QED
    BY <1>1, <1>2, <2>1, ZenonT(60)
<1>4. CASE Cancel /\ UNCHANGED sessionVars
  BY <1>1, <1>4, ZenonT(60) DEF Cancel
<1>5. CASE UNCHANGED vars
  BY <1>1, <1>2, <1>5, ZenonT(60) DEF vars, routerVars
<1>6. ASSUME NEW id \in Ids, Network(id) PROVE Inv'
  BY <1>6, <1>ListenerInv, <1>AdmitInv, <1>LeafInv, <1>SessionInv, <1>ReadInv, ZenonT(60)
     DEF Network
<1>7. ASSUME NEW id \in Ids, Task(id) PROVE Inv'
  BY <1>7, <1>ListenerInv, <1>LeafInv, <1>SessionInv, <1>BatchInv, ZenonT(60) DEF Task
<1> QED
  BY <1>3, <1>4, <1>5, <1>6, <1>7, <1>SpawnInv, ZenonT(60) DEF Next

-----------------------------------------------------------------------------
\* Each tcpc: and serial: leaf, each tcps: listener and each of its clients is an
\* endpoint as RouterSystem describes it, for any configuration, queue sizes and
\* batches, and whatever the network does: it forwards only what passes its in-filter
\* and only after its announcement, a client departs once and with its announcement
\* behind it, a leaf ends only once the token is set, and a listener only when all its
\* clients have ended.
THEOREM StreamRefines == Spec => RefinesRouterSystem
<1>1. Init => RS!Init
  BY InitNext, Zenon DEF Init
<1>2. Spec => []Inv
  BY InitInv, NextInv, PTL DEF Spec
<1> QED
  BY <1>1, <1>2, StepRefines, PTL DEF Spec, RefinesRouterSystem, RS!Spec

-----------------------------------------------------------------------------
(* udpc: leaves. *)

UdpcPositions == {"none", "announce", "lookup", "bind", "bound", "select", "forward",
                  "send", "resolve", "failed", "revert", "finished", "ended"}

Latches == {NoLatch} \cup {<<src>> : src \in Sources}

UdpcTypeOK ==
    /\ next_id \in Nat \ {0} /\ spawned \in Nat /\ sent \in Nat /\ cancelled \in BOOLEAN
    /\ task \in [Ids -> UdpcPositions]
    /\ who \in [Ids -> [kind : {"none", "leaf"}, spec : Nat]]
    /\ inbox \in [Ids -> Datagrams]
    /\ resolved_ips \in [Ids -> Answers]
    /\ latch \in [Ids -> Latches]

\* A leaf has no addresses before its first lookup, and a latch only on top of some.
Targets(id) ==
    /\ task[id] \in {"none", "announce", "lookup"} =>
          resolved_ips[id] = <<>> /\ latch[id] = NoLatch
    /\ latch[id] # NoLatch => resolved_ips[id] # <<>>

UdpcInv ==
    /\ UdpcTypeOK /\ LeavesOnly
    /\ \A id \in Ids : Targets(id) /\ (task[id] = "finished" => cancelled)
    /\ \A id \in Ids : id >= next_id => task[id] = "none"

-----------------------------------------------------------------------------
LEMMA UdpcTyped ==
    ASSUME UdpcTypeOK
    PROVE  TaskOK /\ \A id \in Ids : ~Peer(id) /\ ~Listener(id)
<1>1. TaskOK
  BY Zenon DEF UdpcTypeOK, TaskOK
<1>2. \A id \in Ids : ~Peer(id) /\ ~Listener(id)
  BY Zenon DEF UdpcTypeOK, Peer, Listener
<1> QED
  BY <1>1, <1>2, ZenonT(60)

LEMMA UdpcStepRefines == UdpcInv /\ [UdpcNext]_udpcVars => [RS!Next]_(RS!vars)
<1>UdpcForwardFrameNext.
    ASSUME UdpcTypeOK, NEW id \in Ids, UdpcForwardFrame(id)
    PROVE  RS!Next
  <2> USE <1>UdpcForwardFrameNext
  <2>1. Life[id] = "live" /\ Life' = Life
    BY SameLife, LifeIs, ZenonT(60) DEF UdpcForwardFrame, At, LifeAt
  <2>2. Head(inbox[id]) \in Frames
    <3>1. inbox[id] \in Datagrams /\ inbox[id] # <<>>
      BY Zenon DEF UdpcTypeOK, UdpcForwardFrame
    <3>2. PICK f \in Frames : inbox[id] = <<f>>
      BY <3>1, Zenon DEF Datagrams
    <3> QED
      BY <3>2, SMTT(60), Z3T(60)
  <2>3. ~Listener(id) /\ PassesIn(id) /\ SendFrame(id, Head(inbox[id]))
    BY UdpcTyped, ZenonT(60) DEF UdpcForwardFrame
  <2> QED
    BY <2>1, <2>2, <2>3, ForwardNext, ZenonT(60)
<1> SUFFICES ASSUME UdpcInv, [UdpcNext]_udpcVars PROVE RS!Next \/ UNCHANGED RS!vars
  BY Zenon
<1>1. /\ TaskOK
      /\ \A id \in Ids : ~Peer(id) /\ ~Listener(id) /\ (task[id] = "finished" => cancelled)
  BY UdpcTyped, ZenonT(60) DEF UdpcInv
<1>2. CASE UNCHANGED udpcVars
  BY <1>2, IdleStutters, Zenon DEF udpcVars
<1>3. CASE (Route \/ SpawnEndpoint \/ Cancel) /\ UNCHANGED udpVars
  BY <1>1, <1>3, RouteNext, SpawnNext, CancelNext, ZenonT(60)
<1>4. ASSUME NEW id \in Ids, UdpcNetwork(id) PROVE RS!Next \/ UNCHANGED RS!vars
  <2> USE DEF LifeAt
  <2>1. ASSUME NEW fresh \in Answers, FirstLookup(id, fresh) PROVE UNCHANGED RS!vars
    BY <1>1, <2>1, LocalStutters, ZenonT(60) DEF FirstLookup
  <2>2. ASSUME NEW fresh \in Answers, Resolved(id, fresh) PROVE RS!Next \/ UNCHANGED RS!vars
    BY <1>1, <2>2, LocalStutters, StoreStateNext, ZenonT(60) DEF Resolved
  <2>3. ASSUME NEW fresh \in Answers, ResolvedAfterFailure(id, fresh) PROVE RS!Next
    BY <1>1, <2>3, StoreStateNext, ZenonT(60) DEF ResolvedAfterFailure
  <2>4. ASSUME NEW fresh \in Answers, Reverted(id, fresh) PROVE UNCHANGED RS!vars
    BY <1>1, <2>4, LocalStutters, ZenonT(60) DEF Reverted
  <2>5. CASE BindLocal(id)
    BY <1>1, <2>5, LocalStutters, ZenonT(60) DEF BindLocal
  <2>6. ASSUME NEW src \in Sources, NEW frames \in Datagrams, handle_inbound(id, src, frames)
        PROVE  RS!Next
    BY <1>1, <2>6, StoreStateNext, ZenonT(60) DEF handle_inbound
  <2>7. CASE Sent(id)
    BY <1>1, <2>7, StoreStateNext, ZenonT(60) DEF Sent
  <2>8. CASE SendFails(id)
    BY <1>1, <2>8, LocalStutters, ZenonT(60) DEF SendFails
  <2>9. CASE check_latch_idle(id)
    BY <1>1, <2>9, LocalStutters, ZenonT(60) DEF check_latch_idle
  <2> QED
    BY <1>4, <2>1, <2>2, <2>3, <2>4, <2>5, <2>6, <2>7, <2>8, <2>9, ZenonT(60) DEF UdpcNetwork
<1>5. ASSUME NEW id \in Ids, UdpcTask(id) PROVE RS!Next \/ UNCHANGED RS!vars
  <2> USE DEF LifeAt
  <2>1. CASE UdpcAnnounce(id) \/ UdpcAnnounceFails(id)
    BY <1>1, <2>1, AnnounceNext, AnnounceFailsNext, ZenonT(60) DEF UdpcAnnounce, UdpcAnnounceFails
  <2>2. CASE BindLocalCancelled(id)
    BY <1>1, <2>2, ExitNext, ZenonT(60) DEF BindLocalCancelled
  <2>3. CASE Bound(id)
    BY <1>1, <2>3, StoreStateNext, ZenonT(60) DEF Bound
  <2>4. CASE LoopCancelled(id)
    BY <1>1, <2>4, DrainNext, ZenonT(60) DEF LoopCancelled, At
  <2>5. CASE UdpcEnds(id)
    <3>1. cancelled
      BY <1>1, <2>5, ZenonT(60) DEF UdpcEnds, Local, At
    <3> QED
      BY <1>1, <2>5, <3>1, ExitNext, ZenonT(60) DEF UdpcEnds
  <2>6. CASE UdpcFilterFrame(id)
    BY <1>1, <2>6, LocalStutters, ZenonT(60) DEF UdpcFilterFrame
  <2>7. CASE UdpcForwardFrame(id)
    BY <2>7, <1>UdpcForwardFrameNext, ZenonT(60) DEF UdpcInv
  <2>8. CASE Forwarded(id) \/ UdpcForwardFails(id)
    BY <1>1, <2>8, LocalStutters, ZenonT(60) DEF Forwarded, UdpcForwardFails
  <2>9. CASE UdpcPopFrame(id)
    <3>1. PICK to \in {"send", "resolve"} : Goto(id, to)
      BY <2>9, Zenon DEF UdpcPopFrame
    <3> QED
      BY <1>1, <2>9, <3>1, PopNext, ZenonT(60) DEF UdpcPopFrame, At
  <2> QED
    BY <1>5, <2>1, <2>2, <2>3, <2>4, <2>5, <2>6, <2>7, <2>8, <2>9, ZenonT(60) DEF UdpcTask
<1> QED
  BY <1>2, <1>3, <1>4, <1>5, ZenonT(60) DEF UdpcNext

-----------------------------------------------------------------------------
(* The invariant. *)

Early == {"none", "announce", "lookup"}

LEMMA UdpcInitInv == UdpcInit => UdpcInv
<1> SUFFICES ASSUME UdpcInit PROVE UdpcInv
  BY Zenon
<1> USE DEF UdpcInit, TransportInit, RouterInit
<1>1. UdpcTypeOK
  <2>1. resolved_ips \in [Ids -> Answers]
    BY UdpClientAssumption, ZenonT(60)
  <2>2. who \in [Ids -> [kind : {"none", "leaf"}, spec : Nat]]
    BY Zenon
  <2>3. task \in [Ids -> UdpcPositions]
    BY Zenon DEF UdpcPositions
  <2>4. inbox \in [Ids -> Datagrams]
    BY Zenon DEF Datagrams
  <2>5. latch \in [Ids -> Latches]
    BY ZenonT(60) DEF Latches
  <2>6. next_id \in Nat \ {0} /\ spawned \in Nat /\ sent \in Nat
    BY SMTT(60), Z3T(60)
  <2>7. cancelled \in BOOLEAN
    BY Zenon
  <2> HIDE DEF UdpcInit
  <2> QED
    BY <2>1, <2>2, <2>3, <2>4, <2>5, <2>6, <2>7, ZenonT(60) DEF UdpcTypeOK
<1>2. \A id \in Ids : Targets(id) /\ (task[id] = "finished" => cancelled)
  BY Zenon DEF Targets
<1>3. \A id \in Ids : id >= next_id => task[id] = "none"
  BY Zenon
<1> QED
  BY <1>1, <1>2, <1>3, ZenonT(60) DEF UdpcInv

LEMMA UdpcNextInv == UdpcInv /\ [UdpcNext]_udpcVars => UdpcInv'
\* A step of one leaf, as far as the types and the targets are concerned.
<1>UdpcMoveInv.
    ASSUME UdpcInv, NEW id \in Ids, NEW to \in UdpcPositions, Goto(id, to),
           UNCHANGED <<next_id, spawned, who, cancelled>>,
           sent' \in Nat, inbox' \in [Ids -> Datagrams],
           NEW r \in Answers, resolved_ips' = [resolved_ips EXCEPT ![id] = r],
           NEW l \in Latches, latch' = [latch EXCEPT ![id] = l],
           to = "finished" => cancelled, task[id] # "none",
           to \in Early => r = <<>> /\ l = NoLatch,
           l # NoLatch => r # <<>>
    PROVE  UdpcInv'
  <2> USE <1>UdpcMoveInv
  <2>1. /\ task \in [Ids -> UdpcPositions] /\ resolved_ips \in [Ids -> Answers]
        /\ latch \in [Ids -> Latches]
    BY Zenon DEF UdpcInv, UdpcTypeOK
  <2>2. /\ task' \in [Ids -> UdpcPositions] /\ resolved_ips' \in [Ids -> Answers]
        /\ latch' \in [Ids -> Latches]
        /\ task'[id] = to /\ resolved_ips'[id] = r /\ latch'[id] = l
        /\ \A x \in Ids : x # id => /\ task'[x] = task[x] /\ latch'[x] = latch[x]
                                    /\ resolved_ips'[x] = resolved_ips[x]
    BY <2>1, Zenon DEF Goto
  <2>3. UdpcTypeOK'
    BY <2>2, Zenon DEF UdpcInv, UdpcTypeOK
  <2>4. ASSUME NEW x \in Ids PROVE Targets(x)' /\ (task'[x] = "finished" => cancelled')
    <3>1. CASE x = id
      BY <2>2, <3>1, Zenon DEF Targets, Early
    <3>2. CASE x # id
      BY <2>2, <3>2, ZenonT(60) DEF UdpcInv, Targets
    <3> QED
      BY <3>1, <3>2, ZenonT(60)
  <2>5. \A x \in Ids : x >= next_id' => task'[x] = "none"
    BY <2>2, Zenon DEF UdpcInv
  <2> QED
    BY <2>3, <2>4, <2>5, ZenonT(60) DEF UdpcInv
<1>UdpcTypesOf.
    ASSUME UdpcInv, NEW id \in Ids
    PROVE  /\ task[id] \in UdpcPositions /\ sent \in Nat /\ inbox \in [Ids -> Datagrams]
           /\ inbox[id] \in Datagrams
           /\ resolved_ips[id] \in Answers /\ latch[id] \in Latches
           /\ resolved_ips = [resolved_ips EXCEPT ![id] = resolved_ips[id]]
           /\ latch = [latch EXCEPT ![id] = latch[id]]
           /\ task[id] \in Early => resolved_ips[id] = <<>> /\ latch[id] = NoLatch
           /\ latch[id] # NoLatch => resolved_ips[id] # <<>>
  BY <1>UdpcTypesOf, Zenon DEF UdpcInv, UdpcTypeOK, Targets, Early
\* A step that leaves its addresses and its datagram alone.
<1>UdpcMoveKeeps.
    ASSUME UdpcInv, NEW id \in Ids, NEW to \in UdpcPositions, Goto(id, to),
           UNCHANGED <<next_id, spawned, who, cancelled, sent, udpVars>>,
           to = "finished" => cancelled, task[id] # "none",
           to \in Early => task[id] \in Early
    PROVE  UdpcInv'
  <2> USE <1>UdpcMoveKeeps
  <2>1. UNCHANGED <<resolved_ips, latch, inbox, sent>>
    BY Zenon DEF udpVars, destVars
  <2>2. /\ task[id] \in UdpcPositions /\ sent \in Nat /\ inbox \in [Ids -> Datagrams]
        /\ resolved_ips[id] \in Answers /\ latch[id] \in Latches
        /\ resolved_ips = [resolved_ips EXCEPT ![id] = resolved_ips[id]]
        /\ latch = [latch EXCEPT ![id] = latch[id]]
        /\ task[id] \in Early => resolved_ips[id] = <<>> /\ latch[id] = NoLatch
        /\ latch[id] # NoLatch => resolved_ips[id] # <<>>
    BY <1>UdpcTypesOf, Zenon
  <2> QED
    BY <2>1, <2>2, <1>UdpcMoveInv, ZenonT(60)
<1>LookupInv.
    ASSUME UdpcInv, NEW id \in Ids, NEW fresh \in Answers,
           \/ FirstLookup(id, fresh) \/ Resolved(id, fresh)
           \/ ResolvedAfterFailure(id, fresh) \/ Reverted(id, fresh)
    PROVE  UdpcInv'
  <2> USE <1>LookupInv
  <2>1. UNCHANGED <<next_id, spawned, who, cancelled, sent, inbox>>
    BY Zenon
       DEF FirstLookup, Resolved, ResolvedAfterFailure, Reverted, Local, StoreState, routerVars,
           allocVars
  <2>2. /\ task[id] \in UdpcPositions /\ sent \in Nat /\ inbox \in [Ids -> Datagrams]
        /\ resolved_ips[id] \in Answers /\ latch[id] \in Latches
        /\ resolved_ips = [resolved_ips EXCEPT ![id] = resolved_ips[id]]
        /\ latch = [latch EXCEPT ![id] = latch[id]]
        /\ task[id] \in Early => resolved_ips[id] = <<>> /\ latch[id] = NoLatch
        /\ latch[id] # NoLatch => resolved_ips[id] # <<>>
    BY <1>UdpcTypesOf, Zenon
  <2>3. CASE FirstLookup(id, fresh)
    <3>1. /\ Goto(id, "bind") /\ resolved_ips' = [resolved_ips EXCEPT ![id] = fresh]
          /\ latch' = latch /\ task[id] \in Early /\ task[id] # "none"
      BY <2>3, ZenonT(60) DEF FirstLookup, Local, At, Early
    <3>2. "bind" \in UdpcPositions /\ "bind" \notin Early
      BY Zenon DEF UdpcPositions, Early
    <3> QED
      BY <2>1, <2>2, <3>1, <3>2, <1>UdpcMoveInv, ZenonT(60)
  <2>4. CASE Resolved(id, fresh) \/ ResolvedAfterFailure(id, fresh) \/ Reverted(id, fresh)
    <3> DEFINE r == IF fresh = <<>> THEN resolved_ips[id] ELSE fresh
               l == IF Reverted(id, fresh) THEN NoLatch ELSE latch[id]
    <3>1. Goto(id, "select") /\ Refresh(id, fresh) /\ task[id] # "none"
      BY <2>4, ZenonT(60) DEF Resolved, ResolvedAfterFailure, Reverted, Local, StoreState, At
    <3>2. resolved_ips' = [resolved_ips EXCEPT ![id] = r] /\ r \in Answers
      BY <2>2, <3>1, ZenonT(60) DEF Refresh
    <3>3. latch' = [latch EXCEPT ![id] = l] /\ l \in Latches
      <4>1. CASE Reverted(id, fresh)
        BY <4>1, ZenonT(60) DEF Reverted, Latches
      <4>2. CASE ~Reverted(id, fresh)
        <5>1. latch' = latch
          BY <2>4, <4>2, ZenonT(60) DEF Resolved, ResolvedAfterFailure
        <5> QED
          BY <2>2, <4>2, <5>1, ZenonT(60)
      <4> QED
        BY <4>1, <4>2, ZenonT(60)
    <3>4. l # NoLatch => r # <<>>
      BY <2>2, ZenonT(60)
    <3>5. "select" \in UdpcPositions /\ "select" \notin Early
      BY Zenon DEF UdpcPositions, Early
    <3> HIDE DEF r, l
    <3>6. /\ sent' \in Nat /\ inbox' \in [Ids -> Datagrams]
          /\ UNCHANGED <<next_id, spawned, who, cancelled>>
      BY <2>1, <2>2, ZenonT(60)
    <3>7. "select" # "finished"
      BY Zenon
    <3> QED
      BY <3>1, <3>2, <3>3, <3>4, <3>5, <3>6, <3>7, <1>UdpcMoveInv, ZenonT(60)
  <2> QED
    BY <2>3, <2>4, ZenonT(60)
\* Accepting a datagram: the sender is an address the host resolves to.
<1>InboundInv.
    ASSUME UdpcInv, NEW id \in Ids, NEW src \in Sources, NEW frames \in Datagrams,
           handle_inbound(id, src, frames)
    PROVE  UdpcInv'
  <2> USE <1>InboundInv
  <2>1. /\ UNCHANGED <<next_id, spawned, who, cancelled, sent, resolved_ips>>
        /\ At(id, "select") /\ Goto(id, "forward") /\ latch' = [latch EXCEPT ![id] = <<src>>]
        /\ inbox' = [inbox EXCEPT ![id] = frames] /\ classify_inbound(id, src.ip)
    BY Zenon DEF handle_inbound, StoreState, allocVars
  <2>2. /\ sent \in Nat /\ inbox \in [Ids -> Datagrams]
        /\ resolved_ips[id] \in Answers
        /\ resolved_ips = [resolved_ips EXCEPT ![id] = resolved_ips[id]]
        /\ latch[id] # NoLatch => resolved_ips[id] # <<>>
    BY <1>UdpcTypesOf, Zenon
  <2>3. resolved_ips[id] # <<>>
    <3>1. CASE latch[id] = NoLatch
      <4>1. \E i \in DOMAIN resolved_ips[id] : TRUE
        BY <2>1, <3>1, Zenon DEF classify_inbound
      <4> QED
        BY <4>1, SMTT(60), Z3T(60)
    <3> QED
      BY <2>2, <3>1, ZenonT(60)
  <2>4. inbox' \in [Ids -> Datagrams]
    BY <2>1, <2>2, ZenonT(60)
  <2>5. /\ "forward" \in UdpcPositions /\ "forward" \notin Early /\ task[id] # "none"
        /\ <<src>> \in Latches /\ sent' \in Nat
    BY <2>1, <2>2, Zenon DEF UdpcPositions, Early, Latches, At
  <2> QED
    BY <2>1, <2>2, <2>3, <2>4, <2>5, <1>UdpcMoveInv, ZenonT(60)
\* The frame in hand is filtered, forwarded or lost.
<1>InboxInv.
    ASSUME UdpcInv, NEW id \in Ids, UdpcFilterFrame(id) \/ UdpcForwardFrame(id) \/ UdpcForwardFails(id)
    PROVE  UdpcInv'
  <2> USE <1>InboxInv
  <2>1. /\ UNCHANGED <<next_id, spawned, who, cancelled, resolved_ips, latch>>
        /\ At(id, "forward") /\ inbox[id] # <<>>
        /\ sent' = sent \/ sent' = sent + 1
    BY Zenon
       DEF UdpcFilterFrame, UdpcForwardFrame, UdpcForwardFails, Local, SendFrame, routerVars,
           allocVars, destVars
  <2>2. /\ sent \in Nat /\ inbox \in [Ids -> Datagrams] /\ task[id] \in UdpcPositions
        /\ inbox[id] \in Datagrams
        /\ resolved_ips[id] \in Answers /\ latch[id] \in Latches
        /\ resolved_ips = [resolved_ips EXCEPT ![id] = resolved_ips[id]]
        /\ latch = [latch EXCEPT ![id] = latch[id]]
        /\ latch[id] # NoLatch => resolved_ips[id] # <<>>
    BY <1>UdpcTypesOf, Zenon
  <2>3. PICK to \in {"forward", "select"} : Goto(id, to)
    <3>1. CASE UdpcFilterFrame(id) \/ UdpcForwardFails(id)
      BY <3>1, Zenon DEF UdpcFilterFrame, UdpcForwardFails, Local
    <3>2. CASE UdpcForwardFrame(id)
      <4>1. task' = [task EXCEPT ![id] = "forward"]
        BY <2>1, <3>2, ZenonT(60) DEF UdpcForwardFrame, At, UdpcInv, UdpcTypeOK
      <4> QED
        BY <4>1, Zenon DEF Goto
    <3> QED
      BY <3>1, <3>2, ZenonT(60)
  <2>4. Tail(inbox[id]) = <<>>
    <3>1. PICK f \in Frames : inbox[id] = <<f>>
      BY <2>1, <2>2, ZenonT(60) DEF Datagrams
    <3> QED
      BY <3>1, SMTT(60), Z3T(60)
  <2>5. inbox' = [inbox EXCEPT ![id] = <<>>]
    BY <2>4, Zenon DEF UdpcFilterFrame, UdpcForwardFrame, UdpcForwardFails
  <2>6. inbox' \in [Ids -> Datagrams]
    <3>1. <<>> \in Datagrams
      BY Zenon DEF Datagrams
    <3> QED
      BY <2>2, <2>5, <3>1, ZenonT(60)
  <2>7. sent' \in Nat
    BY <2>1, <2>2, SMTT(60), Z3T(60)
  <2>8. to \in UdpcPositions /\ to \notin Early /\ to # "finished" /\ task[id] # "none"
    BY <2>1, <2>3, ZenonT(60) DEF UdpcPositions, Early, At
  <2> QED
    BY <2>1, <2>2, <2>3, <2>6, <2>7, <2>8, <1>UdpcMoveInv, ZenonT(60)
<1>UdpcSpawnInv.
    ASSUME UdpcInv, SpawnEndpoint, UNCHANGED udpVars
    PROVE  UdpcInv'
  <2> USE <1>UdpcSpawnInv
  <2>1. /\ UNCHANGED <<cancelled, sent, inbox, resolved_ips, latch>>
        /\ Goto(next_id, "announce") /\ next_id <= MaxId /\ next_id' = next_id + 1
        /\ spawned < Len(Endpoints) /\ spawned' = spawned + 1
        /\ who' = [who EXCEPT ![next_id] =
                     [kind |-> IF Endpoints[spawned + 1].listener THEN "listener" ELSE "leaf",
                      spec |-> spawned + 1]]
    BY ZenonT(60) DEF SpawnEndpoint, Alloc, routerVars, udpVars, destVars
  <2>2. next_id \in Nat \ {0} /\ next_id \in Ids /\ spawned \in Nat
    BY <2>1, RouterAssumption, SMTT(60), Z3T(60) DEF UdpcInv, UdpcTypeOK, Ids
  <2>3. ~Endpoints[spawned + 1].listener
    <3>1. Len(Endpoints) \in Nat
      BY RouterAssumption, Seq_Len, ZenonT(60)
    <3>2. spawned + 1 \in 1..Len(Endpoints)
      BY <2>1, <2>2, <3>1, SMTT(60), Z3T(60)
    <3> QED
      BY <3>2, Zenon DEF UdpcInv, LeavesOnly
  <2>4. who' = [who EXCEPT ![next_id] = [kind |-> "leaf", spec |-> spawned + 1]]
    BY <2>1, <2>3, ZenonT(60)
  <2>5. /\ who' \in [Ids -> [kind : {"none", "leaf"}, spec : Nat]]
        /\ next_id' \in Nat \ {0} /\ spawned' \in Nat
    BY <2>1, <2>2, <2>4, SMTT(60), Z3T(60) DEF UdpcInv, UdpcTypeOK
  <2>6. /\ task' \in [Ids -> UdpcPositions] /\ task'[next_id] = "announce"
        /\ \A x \in Ids : x # next_id => task'[x] = task[x]
    BY <2>1, <2>2, ZenonT(60) DEF Goto, UdpcInv, UdpcTypeOK, UdpcPositions
  <2>7. UdpcTypeOK'
    BY <2>1, <2>5, <2>6, ZenonT(60) DEF UdpcInv, UdpcTypeOK
  <2>8. task[next_id] = "none"
    <3>1. next_id >= next_id
      BY <2>2, SMTT(60), Z3T(60)
    <3> QED
      BY <2>2, <3>1, ZenonT(60) DEF UdpcInv
  <2>9. ASSUME NEW x \in Ids PROVE Targets(x)' /\ (task'[x] = "finished" => cancelled')
    BY <2>1, <2>6, <2>8, ZenonT(60) DEF UdpcInv, Targets
  <2>10. \A x \in Ids : x >= next_id' => task'[x] = "none"
    <3>1. \A x \in Ids : x >= next_id + 1 => x >= next_id /\ x # next_id
      BY <2>2, SMTT(60), Z3T(60) DEF Ids
    <3> QED
      BY <2>1, <2>6, <3>1, ZenonT(60) DEF UdpcInv
  <2> QED
    BY <2>1, <2>7, <2>9, <2>10, ZenonT(60) DEF UdpcInv
<1> SUFFICES ASSUME UdpcInv, [UdpcNext]_udpcVars PROVE UdpcInv'
  BY Zenon
<1>1. CASE Route /\ UNCHANGED udpVars
  <2>1. UNCHANGED <<transportVars, udpVars>> /\ cancelled' = cancelled
    BY <1>1, ZenonT(60) DEF Route, RouterNext, PollCancel, TakeEvent, NoEvent, TakeFrame, NoFrame,
                DrainedEvents, SweepOne, SweepDone
  <2> QED
    BY <2>1, ZenonT(60) DEF UdpcInv, UdpcTypeOK, Targets, transportVars, allocVars, udpVars, destVars
<1>2. CASE Cancel /\ UNCHANGED udpVars
  <2>1. UNCHANGED <<transportVars, udpVars>> /\ cancelled' = TRUE
    BY <1>2, ZenonT(60) DEF Cancel
  <2> QED
    BY <2>1, ZenonT(60) DEF UdpcInv, UdpcTypeOK, Targets, transportVars, allocVars, udpVars, destVars
<1>3. CASE SpawnEndpoint /\ UNCHANGED udpVars
  BY <1>3, <1>UdpcSpawnInv, ZenonT(60)
<1>4. CASE UNCHANGED udpcVars
  BY <1>4, ZenonT(60)
     DEF UdpcInv, UdpcTypeOK, Targets, udpcVars, routerVars, transportVars, allocVars, udpVars,
         destVars
<1>5. ASSUME NEW id \in Ids, UdpcNetwork(id) PROVE UdpcInv'
  <2>1. ASSUME BindLocal(id) \/ Sent(id) \/ SendFails(id) \/ check_latch_idle(id)
        PROVE  UdpcInv'
    <3>1. /\ UNCHANGED <<next_id, spawned, who, cancelled, sent, udpVars>> /\ task[id] # "none"
          /\ \E p \in {"bound", "select", "failed", "revert"} : Goto(id, p)
      BY <2>1, ZenonT(60)
         DEF BindLocal, Sent, SendFails, check_latch_idle, Local, StoreState, routerVars,
             allocVars, At
    <3>2. \A p \in {"bound", "select", "failed", "revert"} :
             p \in UdpcPositions /\ p \notin Early /\ p # "finished"
      BY Zenon DEF UdpcPositions, Early
    <3> QED
      BY <3>1, <3>2, <1>UdpcMoveKeeps, ZenonT(60)
  <2> QED
    BY <1>5, <2>1, <1>LookupInv, <1>InboundInv, ZenonT(60) DEF UdpcNetwork
<1>6. ASSUME NEW id \in Ids, UdpcTask(id) PROVE UdpcInv'
  <2>1. CASE \/ UdpcAnnounce(id) \/ UdpcAnnounceFails(id) \/ BindLocalCancelled(id) \/ Bound(id)
             \/ LoopCancelled(id) \/ UdpcEnds(id) \/ Forwarded(id) \/ UdpcPopFrame(id)
    <3>1. UNCHANGED <<next_id, spawned, who, cancelled, sent, udpVars>>
      BY <2>1, ZenonT(60)
         DEF UdpcAnnounce, UdpcAnnounceFails, BindLocalCancelled, Bound, LoopCancelled, UdpcEnds,
             Forwarded, UdpcPopFrame, SendAdded, Local, StoreState, drain_and_discard, PopTx,
             routerVars, allocVars
    <3>2. /\ task[id] # "none"
          /\ \/ Goto(id, "lookup") /\ task[id] = "announce"
             \/ Goto(id, "finished") /\ cancelled
             \/ \E p \in {"ended", "select", "send", "resolve"} : Goto(id, p)
      BY <2>1, Zenon
         DEF UdpcAnnounce, UdpcAnnounceFails, BindLocalCancelled, Bound, LoopCancelled, UdpcEnds,
             Forwarded, UdpcPopFrame, SendAdded, Local, StoreState, At
    <3>3. /\ \A p \in {"ended", "select", "send", "resolve"} :
                p \in UdpcPositions /\ p \notin Early /\ p # "finished"
          /\ "lookup" \in UdpcPositions /\ "announce" \in Early /\ "lookup" # "finished"
          /\ "finished" \in UdpcPositions /\ "finished" \notin Early
      BY ZenonT(60) DEF UdpcPositions, Early
    <3> QED
      BY <3>1, <3>2, <3>3, <1>UdpcMoveKeeps, ZenonT(60)
  <2> QED
    BY <1>6, <2>1, <1>InboxInv, ZenonT(60) DEF UdpcTask
<1> QED
  BY <1>1, <1>2, <1>3, <1>4, <1>5, <1>6, ZenonT(60) DEF UdpcNext

-----------------------------------------------------------------------------
\* Each udpc: leaf is an endpoint as RouterSystem describes it, for any number of
\* leaves, ids and frames, any queue sizes and whatever the resolver answers: it
\* announces itself before anything else, forwards only what passes its in-filter,
\* stores only states a leaf may have and ends only once the token is set.
THEOREM UdpClientRefines == UdpcSpec => RefinesRouterSystem
<1>1. UdpcInit => RS!Init
  BY InitNext, ZenonT(60) DEF UdpcInit
<1>2. UdpcSpec => []UdpcInv
  BY UdpcInitInv, UdpcNextInv, PTL DEF UdpcSpec
<1> QED
  BY <1>1, <1>2, UdpcStepRefines, PTL DEF UdpcSpec, RefinesRouterSystem, RS!Spec

LEMMA HostOf ==
    ASSUME NEW a \in IpAddr, NEW b \in IpAddr, canonical_ip(a) = canonical_ip(b)
    PROVE  a.host = b.host
<1>1. \A x \in IpAddr : canonical_ip(x).host = x.host
  BY Zenon DEF canonical_ip, IpAddr
<1> QED
  BY <1>1, Zenon

\* Whatever a step does, it takes no leaf its last target, and latches it onto a
\* host its name resolves to, or leaves it with the host it is latched onto.
Scoped(id) ==
    /\ HasTarget(id) => HasTarget(id)'
    /\ latch'[id] # latch[id] /\ latch'[id] # NoLatch =>
          IF latch[id] = NoLatch
          THEN \E i \in DOMAIN resolved_ips[id] :
                  resolved_ips[id][i].host = latch'[id][1].ip.host
          ELSE latch'[id][1].ip.host = latch[id][1].ip.host

LEMMA InboundScoped ==
    ASSUME UdpcInv, NEW id \in Ids, NEW src \in Sources, NEW frames \in Datagrams,
           handle_inbound(id, src, frames)
    PROVE  Scoped(id)
<1>1. /\ latch' = [latch EXCEPT ![id] = <<src>>] /\ classify_inbound(id, src.ip)
  BY Zenon DEF handle_inbound
<1>2. latch \in [Ids -> Latches] /\ resolved_ips[id] \in Answers
  BY Zenon DEF UdpcInv, UdpcTypeOK
<1>3. latch'[id] = <<src>> /\ <<src>>[1] = src /\ <<src>> # NoLatch
  BY <1>1, <1>2, Zenon DEF NoLatch
<1>4. src.ip \in IpAddr
  BY UdpClientAssumption, Zenon
<1>5. HasTarget(id)'
  BY <1>3, Zenon DEF HasTarget
<1>6. CASE latch[id] = NoLatch
  <2>1. PICK i \in DOMAIN resolved_ips[id] :
          canonical_ip(resolved_ips[id][i]) = canonical_ip(src.ip)
    BY <1>1, <1>6, ZenonT(60) DEF classify_inbound
  <2>2. resolved_ips[id] \in Seq(IpAddr)
    BY <1>2, UdpClientAssumption, ZenonT(60)
  <2>3. resolved_ips[id][i] \in IpAddr
    BY <2>2, SMTT(60), Z3T(60)
  <2>4. resolved_ips[id][i].host = src.ip.host
    BY <1>4, <2>1, <2>3, HostOf, ZenonT(60)
  <2> QED
    BY <1>3, <1>5, <1>6, <2>4, ZenonT(60) DEF Scoped
<1>7. CASE latch[id] # NoLatch
  <2>1. PICK old \in Sources : latch[id] = <<old>>
    BY <1>2, <1>7, ZenonT(60) DEF Latches
  <2>2. latch[id][1] = old /\ old.ip \in IpAddr
    BY <2>1, UdpClientAssumption, SMTT(60), Z3T(60)
  <2>3. canonical_ip(latch[id][1].ip) = canonical_ip(src.ip)
    BY <1>1, <1>7, Zenon DEF classify_inbound
  <2>4. old.ip.host = src.ip.host
    BY <1>4, <2>2, <2>3, HostOf, ZenonT(60)
  <2> QED
    BY <1>3, <1>5, <1>7, <2>2, <2>4, ZenonT(60) DEF Scoped
<1> QED
  BY <1>6, <1>7, ZenonT(60)

\* Lookups: none takes the last address away, and none but the end of a latch
\* touches the latch.
LEMMA LookupScoped ==
    ASSUME UdpcInv, NEW id \in Ids, NEW fresh \in Answers,
           \/ FirstLookup(id, fresh) \/ Resolved(id, fresh)
           \/ ResolvedAfterFailure(id, fresh) \/ Reverted(id, fresh)
    PROVE  Scoped(id)
<1>1. /\ resolved_ips \in [Ids -> Answers] /\ latch \in [Ids -> Latches] /\ Targets(id)
  BY Zenon DEF UdpcInv, UdpcTypeOK
<1>2. CASE FirstLookup(id, fresh)
  <2>1. latch' = latch /\ ~HasTarget(id)
    BY <1>1, <1>2, ZenonT(60) DEF FirstLookup, Local, At, Targets, HasTarget
  <2> QED
    BY <2>1, Zenon DEF Scoped
<1>3. CASE Resolved(id, fresh) \/ ResolvedAfterFailure(id, fresh) \/ Reverted(id, fresh)
  <2>1. resolved_ips[id] # <<>> => resolved_ips'[id] # <<>>
    BY <1>1, <1>3, Zenon DEF Resolved, ResolvedAfterFailure, Reverted, Refresh
  <2>2. latch'[id] = latch[id] \/ latch'[id] = NoLatch
    BY <1>1, <1>3, ZenonT(60) DEF Resolved, ResolvedAfterFailure, Reverted
  <2>3. HasTarget(id) => HasTarget(id)'
    BY <1>1, <2>1, <2>2, ZenonT(60) DEF HasTarget, Targets
  <2> QED
    BY <2>2, <2>3, Zenon DEF Scoped
<1> QED
  BY <1>2, <1>3, Zenon

\* Only these steps touch a leaf's addresses and its latch, and only its own.
LEMMA StepScoped ==
    ASSUME UdpcInv, [UdpcNext]_udpcVars, NEW id \in Ids
    PROVE  Scoped(id)
<1>1. ASSUME latch'[id] = latch[id], resolved_ips'[id] = resolved_ips[id] PROVE Scoped(id)
  BY <1>1, Zenon DEF Scoped, HasTarget
<1>2. resolved_ips \in [Ids -> Answers] /\ latch \in [Ids -> Latches]
  BY Zenon DEF UdpcInv, UdpcTypeOK
<1>3. CASE ((Route \/ SpawnEndpoint \/ Cancel) /\ UNCHANGED udpVars) \/ UNCHANGED udpcVars
  BY <1>1, <1>3, ZenonT(60) DEF udpcVars, udpVars, destVars
<1>4. ASSUME NEW x \in Ids, UdpcTask(x) PROVE Scoped(id)
  <2>1. UNCHANGED <<resolved_ips, latch>>
    BY <1>4, Zenon
       DEF UdpcTask, UdpcAnnounce, UdpcAnnounceFails, BindLocalCancelled, Bound, LoopCancelled,
           UdpcEnds, UdpcFilterFrame, UdpcForwardFrame, Forwarded, UdpcForwardFails,
           UdpcPopFrame, udpVars, destVars
  <2> QED
    BY <1>1, <2>1, ZenonT(60)
<1>5. ASSUME NEW x \in Ids, UdpcNetwork(x) PROVE Scoped(id)
  <2>1. CASE x = id
    <3>1. CASE BindLocal(id) \/ Sent(id) \/ SendFails(id) \/ check_latch_idle(id)
      BY <1>1, <3>1, ZenonT(60) DEF BindLocal, Sent, SendFails, check_latch_idle, udpVars, destVars
    <3> QED
      BY <1>5, <2>1, <3>1, InboundScoped, LookupScoped, ZenonT(60) DEF UdpcNetwork
  <2>2. CASE x # id
    <3>1. latch'[id] = latch[id] /\ resolved_ips'[id] = resolved_ips[id]
      BY <1>2, <1>5, <2>2, ZenonT(60)
         DEF UdpcNetwork, FirstLookup, Resolved, ResolvedAfterFailure, Reverted, Refresh,
             BindLocal, handle_inbound, Sent, SendFails, check_latch_idle, udpVars, destVars
    <3> QED
      BY <1>1, <3>1, ZenonT(60)
  <2> QED
    BY <2>1, <2>2, Zenon
<1> QED
  BY <1>3, <1>4, <1>5, ZenonT(60) DEF UdpcNext

\* A udpc: leaf never runs out of targets once it had one, and its latch never
\* moves from one host to another (classify_inbound, check_latch_idle and the
\* lookups of client.rs): for any number of leaves, any answers of the resolver,
\* IPv4-mapped forms included, and any senders.
THEOREM TargetScopedHolds == UdpcSpec => TargetScoped
<1>1. UdpcInv /\ [UdpcNext]_udpcVars => [\A id \in Ids : Scoped(id)]_udpcVars
  BY StepScoped, ZenonT(60)
<1>2. UdpcSpec => []UdpcInv
  BY UdpcInitInv, UdpcNextInv, PTL DEF UdpcSpec
<1>3. TargetScoped <=> [][\A id \in Ids : Scoped(id)]_udpcVars
  BY Zenon DEF TargetScoped, Scoped
<1> QED
  BY <1>1, <1>2, <1>3, PTL DEF UdpcSpec

=============================================================================
