--------------------------- MODULE RegistryProofs ----------------------------
(***************************************************************************)
(* Theorems about the registry of RouterSystem: lifecycle events pair up,  *)
(* the group refcounts are exact, no frame is sent back.                   *)
(***************************************************************************)
EXTENDS RouterProofs, FiniteSetTheorems

Running == pc \notin {"sweep", "done"}

\* What a step that neither adds nor removes an endpoint leaves alone.
SameSlots ==
    /\ DOMAIN routing' = DOMAIN routing
    /\ \A id \in DOMAIN routing : /\ routing'[id].spec = routing[id].spec
                                  /\ routing'[id].routable = routing[id].routable

Quiet ==
    /\ UNCHANGED <<next_id, life, who, event_ch>>
    /\ SameSlots
    /\ Running' => Running

\* The router's steps other than the handling of an event and the sweep.
LEMMA QuietRoute ==
    ASSUME TypeOK, UNCHANGED envVars,
           PollCancel \/ NoEvent \/ NoFrame \/ DrainedEvents \/ TakeFrame
    PROVE  Quiet
<1>1. CASE PollCancel \/ NoEvent \/ NoFrame \/ DrainedEvents
  BY <1>1, Zenon DEF PollCancel, NoEvent, NoFrame, DrainedEvents, Quiet, SameSlots, Running,
              channels, registry, envVars
<1>2. CASE TakeFrame
  <2>1. Running /\ UNCHANGED <<next_id, life, who, event_ch>>
    BY <1>2, Zenon DEF TakeFrame, Running, envVars
  <2>2. PICK rf \in RouterFrame : handle_frame(rf)
    BY <1>2, TailFacts, ZenonT(60) DEF TakeFrame, TypeOK, FramesOK
  <2>3. routing' = routing \/ \E learn : routing' = [routing EXCEPT ![rf.endpoint_id].learn = learn]
    BY <2>2, Zenon
       DEF handle_frame, FrameFromNowhere, FrameDuplicate, FrameFresh, LearnAndDispatch, registry
  <2>4. SameSlots
    <3>1. CASE routing' = routing
      BY <3>1, Zenon DEF SameSlots
    <3>2. ASSUME NEW learn, routing' = [routing EXCEPT ![rf.endpoint_id].learn = learn]
          PROVE  SameSlots
      <4>1. ASSUME NEW id \in DOMAIN routing
            PROVE  /\ routing'[id].spec = routing[id].spec
                   /\ routing'[id].routable = routing[id].routable
        <5>1. routing[id] \in Slot
          BY Zenon DEF TypeOK, RoutingOK
        <5> QED
          BY <3>2, <5>1, ZenonT(60) DEF Slot
      <4> QED
        BY <3>2, <4>1, ZenonT(60) DEF SameSlots
    <3> QED
      BY <2>3, <3>1, <3>2, ZenonT(60)
  <2> QED
    BY <2>1, <2>4, ZenonT(60) DEF Quiet
<1> QED
  BY <1>1, <1>2, ZenonT(60)

LEMMA QuietEnv ==
    ASSUME \/ Cancel \/ StatsRecv \/ StatsExit
           \/ \E id \in Ids : \/ \E frame \in Frames : Forward(id, frame)
                              \/ Pop(id)
                              \/ Drain(id)
                              \/ Sent(id)
                              \/ SendFails(id)
                              \/ \E state \in {"Connected", "Reconnecting"} : StoreState(id, state)
    PROVE  Quiet
  BY ZenonT(60) DEF Cancel, StatsRecv, StatsExit, Forward, Pop, Drain, Sent, SendFails,
         StoreState, Quiet, SameSlots, Running, routerVars, channels, registry, envVars

-----------------------------------------------------------------------------
(* The lifecycle of an endpoint, and the events about it. *)

RInv == LifecycleInv /\ RegistrationsPair

LEMMA QuietInv ==
    ASSUME RInv, Quiet
    PROVE  RInv'
<1>1. LifecycleInv'
  BY ZenonT(60) DEF RInv, LifecycleInv, Quiet, SameSlots, Settled, Running, IsAdded
<1>2. RegistrationsPair'
  BY ZenonT(60) DEF RInv, RegistrationsPair, Quiet, SameSlots, Running, IsAdded
<1> QED
  BY <1>1, <1>2, Zenon DEF RInv

\* An allocation touches only an id nobody has heard of.
LEMMA AllocInv ==
    ASSUME TypeOK, RInv, NEW kind, NEW spec, Alloc(kind, spec),
           UNCHANGED <<event_ch, routing, pc>>
    PROVE  RInv'
<1>1. next_id \in Ids /\ life[next_id] = "none"
  BY ConstantFacts, SMTT(60), Z3T(60) DEF TypeOK, EndpointsOK, Alloc, Ids, RInv, LifecycleInv
<1>2. \A id \in Ids : Settled(id) => id # next_id /\ Settled(id)' /\ UNCHANGED <<who[id], life[id]>>
  BY <1>1, Zenon DEF Settled, Alloc, TypeOK, EndpointsOK
<1>3. DOMAIN routing \subseteq Ids /\ \A i \in 1..Len(event_ch) : event_ch[i].id \in Ids
  <2>1. ASSUME NEW i \in 1..Len(event_ch) PROVE event_ch[i].id \in Ids
    <3>1. event_ch[i] \in EventType
      BY Seq_Element, Zenon DEF TypeOK, EventsOK
    <3> QED
      BY <3>1, Zenon DEF EventType
  <2> QED
    BY <2>1, Zenon DEF TypeOK, RoutingOK
<1>4. \A id \in Ids : id >= next_id' => life'[id] = "none"
  BY <1>1, ConstantFacts, SMTT(60), Z3T(60) DEF Alloc, TypeOK, EndpointsOK, RInv, LifecycleInv, Ids
<1>5. \A id \in Ids : life'[id] = "live" => life[id] = "live"
  BY <1>1, ZenonT(60) DEF Alloc, TypeOK, EndpointsOK
<1>6. LifecycleInv'
  BY <1>2, <1>3, <1>4, <1>5, SMTT(60), Z3T(60) DEF RInv, LifecycleInv, IsAdded
<1>7. RegistrationsPair'
  BY ZenonT(60) DEF RInv, RegistrationsPair, IsAdded
<1> QED
  BY <1>6, <1>7, Zenon DEF RInv

\* Appending a registration of an endpoint nobody has heard of.
LEMMA AnnounceInv ==
    ASSUME TypeOK, RInv, NEW id \in Ids, Announce(id)
    PROVE  RInv'
<1> DEFINE n == Len(event_ch)
<1>1. /\ life[id] = "announce" /\ life' = [life EXCEPT ![id] = "live"]
      /\ UNCHANGED <<next_id, who, routing, pc>>
      /\ event_ch' = Append(event_ch, Added(id))
  BY Zenon DEF Announce, registry
<1>2. Added(id) \in EventType
  BY <1>1, ZenonT(60) DEF Added, EventType, TypeOK, EndpointsOK
<1>3. /\ n \in Nat /\ Len(event_ch') = n + 1
      /\ \A i \in 1..n : event_ch'[i] = event_ch[i]
      /\ event_ch'[n + 1] = Added(id)
  BY <1>1, <1>2, AppendFacts, Seq_Len, SMTT(60), Z3T(60) DEF TypeOK, EventsOK
<1>4. /\ IsAdded(Added(id)) /\ Added(id).id = id /\ Added(id).spec = who[id].spec
  BY Zenon DEF Added, IsAdded
<1>5. \A i \in 1..Len(event_ch') : i \in 1..n \/ i = n + 1
  BY <1>3, SMTT(60), Z3T(60)
<1>6. /\ life' \in [Ids -> {"none", "announce", "live", "gone"}]
      /\ life'[id] = "live" /\ \A x \in Ids : x # id => life'[x] = life[x]
  BY <1>1, ZenonT(60) DEF TypeOK, EndpointsOK
<1>7. id \notin DOMAIN routing /\ \A i \in 1..n : event_ch[i].id # id
  BY <1>1, Zenon DEF RInv, LifecycleInv, Settled
<1>8. \A i \in 1..n : event_ch[i].id \in Ids
  <2>1. ASSUME NEW i \in 1..n PROVE event_ch[i] \in EventType
    BY Seq_Element, ZenonT(60) DEF TypeOK, EventsOK
  <2> QED
    BY <2>1, ZenonT(60) DEF EventType
<1>9. DOMAIN routing \subseteq Ids
  BY Zenon DEF TypeOK, RoutingOK
<1> HIDE DEF n
<1>10. LifecycleInv'
  <2>1. \A x \in Ids : x >= next_id' => life'[x] = "none"
    BY <1>1, <1>6, ZenonT(60) DEF RInv, LifecycleInv
  <2>2. \A x \in DOMAIN routing' : Settled(x)' /\ routing'[x].spec = who'[x].spec
    BY <1>1, <1>6, <1>7, <1>9, ZenonT(60) DEF RInv, LifecycleInv, Settled
  <2>3. ASSUME NEW i \in 1..Len(event_ch')
        PROVE  /\ Settled(event_ch[i].id)'
               /\ IsAdded(event_ch[i])' => event_ch'[i].spec = who'[event_ch'[i].id].spec
               /\ ~IsAdded(event_ch[i])' => life'[event_ch'[i].id] = "gone"
    <3>1. CASE i \in 1..n
      BY <1>1, <1>3, <1>6, <1>7, <1>8, <3>1, SMTT(60), Z3T(60)
         DEF n, RInv, LifecycleInv, Settled, IsAdded
    <3>2. CASE i = n + 1
      BY <1>1, <1>3, <1>4, <1>6, <3>2, ZenonT(60) DEF Settled, IsAdded
    <3> QED
      BY <1>5, <3>1, <3>2, ZenonT(60)
  <2>4. ASSUME Running, NEW x \in Ids, life'[x] = "live"
        PROVE  \/ x \in DOMAIN routing'
               \/ \E i \in 1..Len(event_ch') : event_ch'[i].id = x /\ IsAdded(event_ch'[i])
    <3>1. CASE x = id
      BY <1>3, <1>4, <3>1, SMTT(60), Z3T(60)
    <3>2. CASE x # id
      <4>1. \/ x \in DOMAIN routing
            \/ \E i \in 1..n : event_ch[i].id = x /\ IsAdded(event_ch[i])
        BY <1>6, <2>4, <3>2, SMTT(60), Z3T(60) DEF RInv, LifecycleInv, Running, n
      <4> QED
        BY <1>1, <1>3, <4>1, SMTT(60), Z3T(60)
    <3> QED
      BY <3>1, <3>2, Zenon
  <2> QED
    BY <1>1, <2>1, <2>2, <2>3, <2>4, ZenonT(60) DEF LifecycleInv, Running, IsAdded
<1>11. RegistrationsPair'
  <2> SUFFICES ASSUME Running
               PROVE  /\ \A i \in 1..Len(event_ch') :
                            IF IsAdded(event_ch'[i])
                            THEN event_ch'[i].id \notin DOMAIN routing'
                            ELSE \/ event_ch'[i].id \in DOMAIN routing'
                                 \/ \E j \in 1..(i - 1) : /\ event_ch'[j].id = event_ch'[i].id
                                                          /\ IsAdded(event_ch'[j])
                      /\ \A i, j \in 1..Len(event_ch') :
                            i < j /\ event_ch'[i].id = event_ch'[j].id
                                => IsAdded(event_ch'[i]) /\ ~IsAdded(event_ch'[j])
    BY <1>1, Zenon DEF RegistrationsPair, Running, IsAdded
  <2>1. ASSUME NEW i \in 1..Len(event_ch')
        PROVE  IF IsAdded(event_ch'[i])
               THEN event_ch'[i].id \notin DOMAIN routing'
               ELSE \/ event_ch'[i].id \in DOMAIN routing'
                    \/ \E j \in 1..(i - 1) : /\ event_ch'[j].id = event_ch'[i].id
                                             /\ IsAdded(event_ch'[j])
    <3>1. CASE i \in 1..n
      <4>1. \A j \in 1..(i - 1) : j \in 1..n
        BY <1>3, <3>1, SMTT(60), Z3T(60)
      <4> QED
        BY <1>1, <1>3, <3>1, <4>1, SMTT(60), Z3T(60) DEF RInv, RegistrationsPair, Running, n
    <3>2. CASE i = n + 1
      BY <1>1, <1>3, <1>4, <1>7, <3>2, ZenonT(60)
    <3> QED
      BY <1>5, <3>1, <3>2, ZenonT(60)
  <2>2. ASSUME NEW i \in 1..Len(event_ch'), NEW j \in 1..Len(event_ch'),
               i < j, event_ch'[i].id = event_ch'[j].id
        PROVE  IsAdded(event_ch'[i]) /\ ~IsAdded(event_ch'[j])
    <3>1. i \in 1..n
      BY <1>3, <2>2, SMTT(60), Z3T(60)
    <3>2. CASE j \in 1..n
      BY <1>3, <2>2, <3>1, <3>2, ZenonT(60) DEF RInv, RegistrationsPair, Running, n
    <3>3. CASE j = n + 1
      BY <1>3, <1>4, <1>7, <2>2, <3>1, <3>3, ZenonT(60)
    <3> QED
      BY <1>5, <3>2, <3>3, ZenonT(60)
  <2> QED
    BY <2>1, <2>2, ZenonT(60)
<1> QED
  BY <1>10, <1>11, ZenonT(60) DEF RInv

LEMMA EventIds ==
    ASSUME TypeOK
    PROVE  /\ DOMAIN routing \subseteq Ids
           /\ Len(event_ch) \in Nat
           /\ \A i \in 1..Len(event_ch) : event_ch[i] \in EventType /\ event_ch[i].id \in Ids
<1>1. ASSUME NEW i \in 1..Len(event_ch) PROVE event_ch[i] \in EventType
  BY Seq_Element, ZenonT(60) DEF TypeOK, EventsOK
<1>2. Len(event_ch) \in Nat
  BY Seq_Len, Zenon DEF TypeOK, EventsOK
<1> QED
  BY <1>1, <1>2, ZenonT(60) DEF TypeOK, RoutingOK, EventType

\* An endpoint that ends without an event.
LEMMA GoneInv ==
    ASSUME TypeOK, RInv, NEW id \in Ids, life[id] # "none",
           life' = [life EXCEPT ![id] = "gone"],
           UNCHANGED <<next_id, who, routing, event_ch, pc>>
    PROVE  RInv'
<1>1. life'[id] = "gone" /\ \A x \in Ids : x # id => life'[x] = life[x]
  BY ZenonT(60) DEF TypeOK, EndpointsOK
<1>2. LifecycleInv'
  BY <1>1, EventIds, SMTT(60), Z3T(60) DEF RInv, LifecycleInv, Settled, IsAdded
<1>3. RegistrationsPair'
  BY ZenonT(60) DEF RInv, RegistrationsPair, IsAdded
<1> QED
  BY <1>2, <1>3, ZenonT(60) DEF RInv

\* Appending the removal of an endpoint that is known and not yet removed.
LEMMA DepartInv ==
    ASSUME TypeOK, RInv, NEW id \in Ids, NEW reason \in Reasons, Depart(id, reason)
    PROVE  RInv'
<1>1. CASE RouterClosed
  <2>1. /\ life[id] # "none" /\ life' = [life EXCEPT ![id] = "gone"]
        /\ UNCHANGED <<next_id, who, routing, event_ch, pc>>
    BY <1>1, Zenon DEF Depart, registry
  <2> QED
    BY <2>1, GoneInv, ZenonT(60)
<1>2. CASE ~RouterClosed
  <2> DEFINE n == Len(event_ch)
             ev == [type |-> "PeerRemoved", id |-> id, reason |-> reason]
  <2>1. /\ life[id] = "live" /\ life' = [life EXCEPT ![id] = "gone"]
        /\ UNCHANGED <<next_id, who, routing, pc>>
        /\ event_ch' = Append(event_ch, ev)
    BY <1>2, Zenon DEF Depart, registry
  <2>2. ev \in EventType
    BY ZenonT(60) DEF EventType
  <2>3. /\ n \in Nat /\ Len(event_ch') = n + 1
        /\ \A i \in 1..n : event_ch'[i] = event_ch[i]
        /\ event_ch'[n + 1] = ev
    BY <2>1, <2>2, AppendFacts, Seq_Len, SMTT(60), Z3T(60) DEF TypeOK, EventsOK
  <2>4. ~IsAdded(ev) /\ ev.id = id
    BY Zenon DEF IsAdded
  <2>5. \A i \in 1..Len(event_ch') : i \in 1..n \/ i = n + 1
    BY <2>3, SMTT(60), Z3T(60)
  <2>6. life'[id] = "gone" /\ \A x \in Ids : x # id => life'[x] = life[x]
    BY <2>1, Zenon DEF TypeOK, EndpointsOK
  <2>7. \A i \in 1..n : event_ch[i].id = id => IsAdded(event_ch[i])
    BY <2>1, Zenon DEF RInv, LifecycleInv
  <2> HIDE DEF n, ev
  <2>8. LifecycleInv'
    <3>1. \A x \in Ids : x >= next_id' => life'[x] = "none"
      BY <2>1, <2>6, ZenonT(60) DEF RInv, LifecycleInv
    <3>2. \A x \in DOMAIN routing' : Settled(x)' /\ routing'[x].spec = who'[x].spec
      BY <2>1, <2>6, EventIds, Zenon DEF RInv, LifecycleInv, Settled
    <3>3. ASSUME NEW i \in 1..Len(event_ch')
          PROVE  /\ Settled(event_ch[i].id)'
                 /\ IsAdded(event_ch[i])' => event_ch'[i].spec = who'[event_ch'[i].id].spec
                 /\ ~IsAdded(event_ch[i])' => life'[event_ch'[i].id] = "gone"
      <4>1. CASE i \in 1..n
        BY <2>1, <2>3, <2>6, <4>1, EventIds, SMTT(60), Z3T(60)
           DEF n, RInv, LifecycleInv, Settled, IsAdded
      <4>2. CASE i = n + 1
        BY <2>1, <2>3, <2>4, <2>6, <4>2, ZenonT(60) DEF Settled, IsAdded
      <4> QED
        BY <2>5, <4>1, <4>2, Zenon
    <3>4. ASSUME Running, NEW x \in Ids, life'[x] = "live"
          PROVE  \/ x \in DOMAIN routing'
                 \/ \E i \in 1..Len(event_ch') : event_ch'[i].id = x /\ IsAdded(event_ch'[i])
      <4>1. \/ x \in DOMAIN routing
            \/ \E i \in 1..n : event_ch[i].id = x /\ IsAdded(event_ch[i])
        BY <2>6, <3>4, SMTT(60), Z3T(60) DEF RInv, LifecycleInv, Running, n
      <4> QED
        BY <2>1, <2>3, <4>1, SMTT(60), Z3T(60)
    <3> QED
      BY <2>1, <3>1, <3>2, <3>3, <3>4, ZenonT(60) DEF LifecycleInv, Running, IsAdded
  <2>9. RegistrationsPair'
    <3> SUFFICES ASSUME Running
                 PROVE  /\ \A i \in 1..Len(event_ch') :
                              IF IsAdded(event_ch'[i])
                              THEN event_ch'[i].id \notin DOMAIN routing'
                              ELSE \/ event_ch'[i].id \in DOMAIN routing'
                                   \/ \E j \in 1..(i - 1) : /\ event_ch'[j].id = event_ch'[i].id
                                                            /\ IsAdded(event_ch'[j])
                        /\ \A i, j \in 1..Len(event_ch') :
                              i < j /\ event_ch'[i].id = event_ch'[j].id
                                  => IsAdded(event_ch'[i]) /\ ~IsAdded(event_ch'[j])
      BY <2>1, ZenonT(60) DEF RegistrationsPair, Running, IsAdded
    <3>1. ASSUME NEW i \in 1..Len(event_ch')
          PROVE  IF IsAdded(event_ch'[i])
                 THEN event_ch'[i].id \notin DOMAIN routing'
                 ELSE \/ event_ch'[i].id \in DOMAIN routing'
                      \/ \E j \in 1..(i - 1) : /\ event_ch'[j].id = event_ch'[i].id
                                               /\ IsAdded(event_ch'[j])
      <4>1. CASE i \in 1..n
        <5>1. \A j \in 1..(i - 1) : j \in 1..n
          BY <2>3, <4>1, SMTT(60), Z3T(60)
        <5> QED
          BY <2>1, <2>3, <4>1, <5>1, SMTT(60), Z3T(60) DEF RInv, RegistrationsPair, Running, n
      <4>2. CASE i = n + 1
        <5>1. \/ id \in DOMAIN routing
              \/ \E j \in 1..n : event_ch[j].id = id /\ IsAdded(event_ch[j])
          BY <2>1, ZenonT(60) DEF RInv, LifecycleInv, Running, n
        <5>2. (i - 1) = n
          BY <2>3, <4>2, SMTT(60), Z3T(60)
        <5> QED
          BY <2>1, <2>3, <2>4, <4>2, <5>1, <5>2, ZenonT(60)
      <4> QED
        BY <2>5, <4>1, <4>2, ZenonT(60)
    <3>2. ASSUME NEW i \in 1..Len(event_ch'), NEW j \in 1..Len(event_ch'),
                 i < j, event_ch'[i].id = event_ch'[j].id
          PROVE  IsAdded(event_ch'[i]) /\ ~IsAdded(event_ch'[j])
      <4>1. i \in 1..n
        BY <2>3, <3>2, SMTT(60), Z3T(60)
      <4>2. CASE j \in 1..n
        BY <2>3, <3>2, <4>1, <4>2, ZenonT(60) DEF RInv, RegistrationsPair, Running, n
      <4>3. CASE j = n + 1
        BY <2>3, <2>4, <2>7, <3>2, <4>1, <4>3, ZenonT(60)
      <4> QED
        BY <2>5, <4>2, <4>3, ZenonT(60)
    <3> QED
      BY <3>1, <3>2, ZenonT(60)
  <2> QED
    BY <2>8, <2>9, ZenonT(60) DEF RInv
<1> QED
  BY <1>1, <1>2, Zenon

\* What handling the oldest event does to the registry: by RegistrationsPair a
\* registration adds a slot that was free, a removal frees one that was taken.
LEMMA TakeEventEffect ==
    ASSUME TypeOK, RInv, TakeEvent
    PROVE  LET ev == event_ch[1]
           IN  /\ ev \in EventType /\ Len(event_ch) > 0 /\ Len(event_ch') = Len(event_ch) - 1
               /\ \A i \in 1..Len(event_ch') : event_ch'[i] = event_ch[i + 1]
               /\ Running /\ pc' = pc
               /\ \/ /\ IsAdded(ev) /\ HandleAdded(ev)
                     /\ ev.id \notin DOMAIN routing
                     /\ DOMAIN routing' = DOMAIN routing \cup {ev.id}
                     /\ routing'[ev.id].spec = ev.spec
                     /\ routing'[ev.id].routable = ev.routable
                     /\ \A x \in DOMAIN routing : routing'[x] = routing[x]
                  \/ /\ ~IsAdded(ev) /\ HandleRemoved(ev)
                     /\ ev.id \in DOMAIN routing
                     /\ DOMAIN routing' = DOMAIN routing \ {ev.id}
                     /\ \A x \in DOMAIN routing' : routing'[x] = routing[x]
<1> DEFINE ev == event_ch[1]
<1>1. /\ Head(event_ch) = ev /\ ev \in EventType /\ Len(event_ch) > 0
      /\ Len(event_ch') = Len(event_ch) - 1
      /\ \A i \in 1..Len(event_ch') : event_ch'[i] = event_ch[i + 1]
  BY TailFacts, ZenonT(60) DEF TakeEvent, TypeOK, EventsOK
<1>2. Running /\ pc' = pc /\ handle_event(ev)
  BY <1>1, ZenonT(60) DEF TakeEvent, Running
<1>3. 1 \in 1..Len(event_ch) /\ 1..(1 - 1) = {}
  BY <1>1, EventIds, SMTT(60), Z3T(60)
<1>4. /\ IsAdded(ev) => ev.id \notin DOMAIN routing
      /\ ~IsAdded(ev) => ev.id \in DOMAIN routing
  BY <1>2, <1>3, ZenonT(60) DEF RInv, RegistrationsPair, Running
<1>5. CASE HandleAdded(ev)
  BY <1>1, <1>2, <1>4, <1>5, ZenonT(60) DEF HandleAdded, IsAdded, Insert
<1>6. CASE HandleRemoved(ev)
  BY <1>1, <1>2, <1>4, <1>6, ZenonT(60) DEF HandleRemoved, IsAdded, Delete
<1> QED
  BY <1>2, <1>5, <1>6, ZenonT(60) DEF handle_event

LEMMA TakeEventInv ==
    ASSUME TypeOK, RInv, TakeEvent, UNCHANGED envVars
    PROVE  RInv'
<1> DEFINE ev == event_ch[1]
           n == Len(event_ch')
<1>1. UNCHANGED <<next_id, life, who>>
  BY Zenon DEF envVars
<1>2. /\ ev \in EventType /\ Len(event_ch) > 0 /\ n = Len(event_ch) - 1
      /\ \A i \in 1..n : event_ch'[i] = event_ch[i + 1]
      /\ Running /\ pc' = pc
  BY TakeEventEffect, Zenon
<1>3. \/ /\ IsAdded(ev)
         /\ ev.id \notin DOMAIN routing
         /\ DOMAIN routing' = DOMAIN routing \cup {ev.id}
         /\ routing'[ev.id].spec = ev.spec
         /\ \A x \in DOMAIN routing : routing'[x] = routing[x]
      \/ /\ ~IsAdded(ev)
         /\ ev.id \in DOMAIN routing
         /\ DOMAIN routing' = DOMAIN routing \ {ev.id}
         /\ \A x \in DOMAIN routing' : routing'[x] = routing[x]
  BY TakeEventEffect, ZenonT(60)
<1>4. /\ Len(event_ch) \in Nat /\ n \in Nat /\ 1 \in 1..Len(event_ch)
      /\ \A i \in 1..n : i + 1 \in 1..Len(event_ch) /\ 1 < i + 1
      /\ \A i \in 1..Len(event_ch) : i = 1 \/ (i - 1 \in 1..n /\ event_ch'[i - 1] = event_ch[i])
  <2>1. Len(event_ch) \in Nat /\ n \in Nat
    BY <1>2, EventIds, SMTT(60), Z3T(60)
  <2>2. \A i \in 1..Len(event_ch) : i = 1 \/ (i - 1 \in 1..n /\ (i - 1) + 1 = i)
    BY <1>2, <2>1, SMTT(60), Z3T(60)
  <2> QED
    BY <1>2, <2>1, <2>2, SMTT(60), Z3T(60)
<1>5. /\ Settled(ev.id)
      /\ IsAdded(ev) => ev.spec = who[ev.id].spec
      /\ ~IsAdded(ev) => life[ev.id] = "gone"
  BY <1>4, ZenonT(60) DEF RInv, LifecycleInv
<1>6. \A i \in 1..n : event_ch'[i].id = ev.id => IsAdded(ev) /\ ~IsAdded(event_ch'[i])
  BY <1>2, <1>4, SMTT(60), Z3T(60) DEF RInv, RegistrationsPair, Running
<1> HIDE DEF n
<1>7. LifecycleInv'
  <2>1. \A x \in DOMAIN routing' : Settled(x)' /\ routing'[x].spec = who'[x].spec
    BY <1>1, <1>3, <1>5, SMTT(60), Z3T(60) DEF RInv, LifecycleInv, Settled
  <2>2. \A i \in 1..n : /\ Settled(event_ch[i].id)'
                        /\ IsAdded(event_ch[i])' => event_ch'[i].spec = who'[event_ch'[i].id].spec
                        /\ ~IsAdded(event_ch[i])' => life'[event_ch'[i].id] = "gone"
    BY <1>1, <1>2, <1>4, SMTT(60), Z3T(60) DEF RInv, LifecycleInv, Settled, IsAdded
  <2>3. ASSUME NEW x \in Ids, life'[x] = "live"
        PROVE  \/ x \in DOMAIN routing'
               \/ \E i \in 1..n : event_ch'[i].id = x /\ IsAdded(event_ch'[i])
    <3>1. \/ x \in DOMAIN routing
          \/ \E i \in 1..Len(event_ch) : event_ch[i].id = x /\ IsAdded(event_ch[i])
      BY <1>1, <1>2, <2>3, ZenonT(60) DEF RInv, LifecycleInv, Running
    <3>2. CASE x \in DOMAIN routing
      BY <1>1, <1>3, <1>5, <2>3, <3>2, ZenonT(60)
    <3>3. ASSUME NEW i \in 1..Len(event_ch), event_ch[i].id = x, IsAdded(event_ch[i])
          PROVE  \/ x \in DOMAIN routing'
                 \/ \E k \in 1..n : event_ch'[k].id = x /\ IsAdded(event_ch'[k])
      BY <1>3, <1>4, <3>3, ZenonT(60)
    <3> QED
      BY <3>1, <3>2, <3>3, ZenonT(60)
  <2> QED
    BY <1>1, <2>1, <2>2, <2>3, ZenonT(60) DEF RInv, LifecycleInv, n, IsAdded
<1>8. RegistrationsPair'
  <2>1. ASSUME NEW i \in 1..n, IsAdded(event_ch'[i])
        PROVE  event_ch'[i].id \notin DOMAIN routing'
    BY <1>2, <1>3, <1>4, <1>6, <2>1, SMTT(60), Z3T(60) DEF RInv, RegistrationsPair, Running
  <2>2. ASSUME NEW i \in 1..n, ~IsAdded(event_ch'[i])
        PROVE  \/ event_ch'[i].id \in DOMAIN routing'
               \/ \E j \in 1..(i - 1) : event_ch'[j].id = event_ch'[i].id /\ IsAdded(event_ch'[j])
    <3>1. \/ event_ch'[i].id \in DOMAIN routing
          \/ \E j \in 1..i : event_ch[j].id = event_ch'[i].id /\ IsAdded(event_ch[j])
      <4>1. (i + 1) - 1 = i
        BY <1>4, SMTT(60), Z3T(60)
      <4> QED
        BY <1>2, <1>4, <2>2, <4>1, ZenonT(60) DEF RInv, RegistrationsPair, Running
    <3>2. CASE event_ch'[i].id \in DOMAIN routing
      BY <1>3, <1>6, <3>2, ZenonT(60)
    <3>3. ASSUME NEW j \in 1..i, event_ch[j].id = event_ch'[i].id, IsAdded(event_ch[j])
          PROVE  \/ event_ch'[i].id \in DOMAIN routing'
                 \/ \E k \in 1..(i - 1) : event_ch'[k].id = event_ch'[i].id /\ IsAdded(event_ch'[k])
      <4>1. j = 1 \/ (j - 1 \in 1..(i - 1) /\ event_ch'[j - 1] = event_ch[j])
        BY <1>2, <1>4, SMTT(60), Z3T(60)
      <4> QED
        BY <1>3, <3>3, <4>1, ZenonT(60)
    <3> QED
      BY <3>1, <3>2, <3>3, ZenonT(60)
  <2>3. ASSUME NEW i \in 1..n, NEW j \in 1..n, i < j, event_ch'[i].id = event_ch'[j].id
        PROVE  IsAdded(event_ch'[i]) /\ ~IsAdded(event_ch'[j])
    <3>1. i + 1 < j + 1
      BY <1>4, <2>3, SMTT(60), Z3T(60)
    <3> QED
      BY <1>2, <1>4, <2>3, <3>1, Z3T(60), SMTT(60) DEF RInv, RegistrationsPair, Running
  <2> QED
    BY <2>1, <2>2, <2>3, ZenonT(60) DEF RegistrationsPair, n, IsAdded
<1> QED
  BY <1>7, <1>8, ZenonT(60) DEF RInv

\* During the sweep only what LifecycleInv says of the registry is left to show.
LEMMA SweepInv ==
    ASSUME TypeOK, RInv, UNCHANGED envVars, SweepDone \/ \E id \in Ids : SweepOne(id)
    PROVE  RInv'
<1>1. UNCHANGED <<next_id, life, who>>
  BY Zenon DEF envVars
<1>2. ASSUME NEW id \in Ids, SweepOne(id)
      PROVE  RInv'
  <2>1. /\ DOMAIN routing' \subseteq DOMAIN routing
        /\ \A x \in DOMAIN routing' : routing'[x] = routing[x]
        /\ event_ch' = event_ch /\ pc' = "sweep"
    BY <1>2, Zenon DEF SweepOne, Delete
  <2> QED
    BY <1>1, <2>1, SMTT(60), Z3T(60) DEF RInv, LifecycleInv, RegistrationsPair, Settled, IsAdded
<1>3. CASE SweepDone
  <2>1. event_ch' = <<>> /\ routing' = routing /\ pc' = "done"
    BY <1>3, Zenon DEF SweepDone, registry
  <2>2. 1..Len(event_ch') = {}
    BY <2>1, SMTT(60), Z3T(60)
  <2> QED
    BY <1>1, <2>1, <2>2, Zenon DEF RInv, LifecycleInv, RegistrationsPair, Settled
<1> QED
  BY <1>2, <1>3, Zenon

LEMMA RInvStep == TypeOK /\ RInv /\ [Next]_vars => RInv'
<1> SUFFICES ASSUME TypeOK, RInv, [Next]_vars
             PROVE  RInv'
  BY Zenon
<1>1. CASE UNCHANGED vars
  BY <1>1, QuietInv, Zenon
     DEF vars, routerVars, channels, registry, envVars, Quiet, SameSlots, Running
<1>2. CASE Route
  BY <1>2, QuietRoute, QuietInv, TakeEventInv, SweepInv, Zenon DEF Route, RouterNext
<1>3. CASE SpawnEndpoint
  <2>1. UNCHANGED <<event_ch, routing, pc>> /\ \E kind, spec : Alloc(kind, spec)
    BY <1>3, Zenon DEF SpawnEndpoint, routerVars, channels, registry
  <2> QED
    BY <2>1, AllocInv, Zenon
<1>4. CASE Cancel \/ StatsRecv \/ StatsExit
  BY <1>4, QuietEnv, QuietInv, Zenon
<1>5. ASSUME NEW id \in Ids, Endpoint(id)
      PROVE  RInv'
  <2>1. CASE AdmitPeer(id)
    <3>1. UNCHANGED <<event_ch, routing, pc>> /\ \E kind, spec : Alloc(kind, spec)
      BY <2>1, Zenon DEF AdmitPeer, channels, registry
    <3> QED
      BY <3>1, AllocInv, Zenon
  <2>2. CASE AnnounceFails(id) \/ Exit(id)
    <3>1. /\ life[id] # "none" /\ life' = [life EXCEPT ![id] = "gone"]
          /\ UNCHANGED <<next_id, who, routing, event_ch, pc>>
      BY <2>2, Zenon DEF AnnounceFails, Exit, routerVars, channels, registry
    <3> QED
      BY <3>1, GoneInv, Zenon
  <2> QED
    BY <1>5, <2>1, <2>2, AnnounceInv, DepartInv, QuietEnv, QuietInv, ZenonT(60) DEF Endpoint
<1> QED
  BY <1>1, <1>2, <1>3, <1>4, <1>5, ZenonT(60) DEF Next

LEMMA RInvInit == Init => RInv
<1> SUFFICES ASSUME Init PROVE RInv
  BY Zenon
<1>1. 1..Len(event_ch) = {}
  BY SMTT(60), Z3T(60) DEF Init, RouterInit
<1> QED
  BY <1>1, Zenon DEF Init, RouterInit, RInv, LifecycleInv, RegistrationsPair

\* LifecycleInv holds: ids are fresh, and the registry and the event channel
\* together know every endpoint that runs.
THEOREM LifecycleCorrect == Spec => []LifecycleInv
<1>1. RInv => LifecycleInv
  BY ZenonT(60) DEF RInv
<1> QED
  BY <1>1, TypeCorrect, RInvInit, RInvStep, PTL DEF Spec

\* Lifecycle events pair up: whatever the interleaving of endpoints that come and
\* go and of the router, handle_event never overwrites a live slot and never is
\* asked to remove one that is not there.
THEOREM EventsPair == Spec => []RegistrationsPair
<1>1. RInv => RegistrationsPair
  BY Zenon DEF RInv
<1> QED
  BY <1>1, TypeCorrect, RInvInit, RInvStep, PTL DEF Spec

-----------------------------------------------------------------------------
(* Group refcounts. *)

LEMMA MembersFinite ==
    ASSUME TypeOK, NEW g
    PROVE  /\ IsFiniteSet(Members(g)) /\ Cardinality(Members(g)) \in Nat
           /\ Members(g) \subseteq DOMAIN routing
<1>1. Members(g) \subseteq Ids /\ Members(g) \subseteq DOMAIN routing
  BY Zenon DEF Members, TypeOK, RoutingOK
<1>2. IsFiniteSet(Ids)
  BY ConstantFacts, FS_Interval, SMTT(60), Z3T(60) DEF Ids
<1> QED
  BY <1>1, <1>2, FS_Subset, FS_CardinalityType, Zenon

\* A step that keeps the slots and the refcounts.
LEMMA SameGroupsInv ==
    ASSUME GroupRefcount, SameSlots, Running' => Running,
           DOMAIN groups' = DOMAIN groups,
           \A g \in DOMAIN groups : groups'[g].members = groups[g].members
    PROVE  GroupRefcount'
<1>1. \A id \in DOMAIN routing : GroupOf(id)' = GroupOf(id)
  BY Zenon DEF SameSlots, GroupOf, Identity
<1>2. ASSUME NEW g PROVE Members(g)' = Members(g)
  BY <1>1, Zenon DEF Members, SameSlots
<1> QED
  BY <1>1, <1>2, Zenon DEF GroupRefcount, SameSlots, Running

\* Handling a frame changes learn tables only.
LEMMA TakeFrameGroups ==
    ASSUME TypeOK, TakeFrame
    PROVE  /\ DOMAIN groups' = DOMAIN groups
           /\ \A g \in DOMAIN groups : groups'[g].members = groups[g].members
<1>1. PICK rf \in RouterFrame : handle_frame(rf)
  BY TailFacts, Zenon DEF TakeFrame, TypeOK, FramesOK
<1>2. groups' = groups \/ \E h, learn : groups' = [groups EXCEPT ![h].learn = learn]
  BY <1>1, Zenon
     DEF handle_frame, FrameFromNowhere, FrameDuplicate, FrameFresh, LearnAndDispatch, registry
<1>3. ASSUME NEW h, NEW learn, groups' = [groups EXCEPT ![h].learn = learn]
      PROVE  /\ DOMAIN groups' = DOMAIN groups
             /\ \A g \in DOMAIN groups : groups'[g].members = groups[g].members
  <2>1. ASSUME NEW g \in DOMAIN groups PROVE groups'[g].members = groups[g].members
    <3>1. groups[g] \in Group
      BY Zenon DEF TypeOK, GroupsOK
    <3> QED
      BY <1>3, <3>1, Zenon DEF Group
  <2> QED
    BY <1>3, <2>1, Zenon
<1> QED
  BY <1>2, <1>3, Zenon

\* A registration adds its id to one group at most, and the group counts it.
LEMMA AddedGroups ==
    ASSUME TypeOK, GroupRefcount, Running,
           NEW ev, NEW g, g = Identity(ev.spec).group, HandleAdded(ev),
           ev.id \notin DOMAIN routing,
           DOMAIN routing' = DOMAIN routing \cup {ev.id},
           routing'[ev.id].spec = ev.spec, routing'[ev.id].routable = ev.routable,
           \A x \in DOMAIN routing : routing'[x] = routing[x]
    PROVE  GroupRefcount'
<1>1. /\ ev.id \notin DOMAIN routing
      /\ DOMAIN routing' = DOMAIN routing \cup {ev.id}
      /\ routing'[ev.id].spec = ev.spec /\ routing'[ev.id].routable = ev.routable
      /\ \A x \in DOMAIN routing : routing'[x] = routing[x]
  BY Zenon
<1>2. /\ \A x \in DOMAIN routing : GroupOf(x)' = GroupOf(x)
      /\ GroupOf(ev.id)' = g
  BY <1>1, Zenon DEF GroupOf, Identity
<1>3. ASSUME NEW h, ~(ev.routable /\ h = g) PROVE Members(h)' = Members(h)
  BY <1>1, <1>2, <1>3, Zenon DEF Members
<1>4. ev.routable => Members(g)' = Members(g) \cup {ev.id} /\ ev.id \notin Members(g)
  BY <1>1, <1>2, Zenon DEF Members
<1>5. groups' = IF ev.routable /\ g # NoGroup THEN join(g) ELSE groups
  BY Zenon DEF HandleAdded
<1>6. /\ \A h \in DOMAIN groups : /\ h # NoGroup /\ Members(h) # {}
                                  /\ groups[h].members = Cardinality(Members(h))
      /\ \A id \in DOMAIN routing : routing[id].routable /\ GroupOf(id) # NoGroup
                                       => GroupOf(id) \in DOMAIN groups
  BY Zenon DEF GroupRefcount, Running
<1>7. CASE ~(ev.routable /\ g # NoGroup)
  <2>1. groups' = groups
    BY <1>5, <1>7, Zenon
  <2>2. \A h \in DOMAIN groups : Members(h)' = Members(h)
    BY <1>3, <1>6, <1>7, Zenon
  <2>3. \A id \in DOMAIN routing' : routing'[id].routable /\ GroupOf(id)' # NoGroup
                                       => GroupOf(id)' \in DOMAIN groups
    BY <1>1, <1>2, <1>6, <1>7, ZenonT(60)
  <2> QED
    BY <1>6, <2>1, <2>2, <2>3, ZenonT(60) DEF GroupRefcount
<1>8. CASE ev.routable /\ g # NoGroup
  <2>1. Cardinality(Members(g)') = Cardinality(Members(g)) + 1 /\ Cardinality(Members(g)) \in Nat
    BY <1>4, <1>8, MembersFinite, FS_AddElement, SMTT(60), Z3T(60)
  <2>2. \A h : h # g => Members(h)' = Members(h)
    BY <1>3, ZenonT(60)
  <2>3. CASE g \in DOMAIN groups
    <3>1. groups' = [groups EXCEPT ![g].members = @ + 1]
      BY <1>5, <1>8, <2>3, ZenonT(60) DEF join
    <3>2. groups[g] \in Group
      BY <2>3, ZenonT(60) DEF TypeOK, GroupsOK
    <3>3. DOMAIN groups' = DOMAIN groups /\ groups'[g].members = groups[g].members + 1
      BY <2>3, <3>1, <3>2, ZenonT(60) DEF Group
    <3>4. \A h \in DOMAIN groups : h # g => groups'[h] = groups[h]
      BY <3>1, ZenonT(60)
    <3>5. \A h \in DOMAIN groups' : /\ h # NoGroup /\ Members(h)' # {}
                                    /\ groups'[h].members = Cardinality(Members(h)')
      <4>1. ASSUME NEW h \in DOMAIN groups', h # g
            PROVE  /\ h # NoGroup /\ Members(h)' # {}
                   /\ groups'[h].members = Cardinality(Members(h)')
        <5>1. h \in DOMAIN groups /\ groups'[h] = groups[h] /\ Members(h)' = Members(h)
          BY <2>2, <3>3, <3>4, <4>1, ZenonT(60)
        <5> QED
          BY <1>6, <5>1, ZenonT(60)
      <4>2. Members(g)' # {}
        BY <1>4, <1>8, ZenonT(60)
      <4>3. groups'[g].members = Cardinality(Members(g)')
        BY <1>6, <2>1, <2>3, <3>3, ZenonT(60)
      <4> QED
        BY <1>8, <4>1, <4>2, <4>3, ZenonT(60)
    <3>6. \A id \in DOMAIN routing' : routing'[id].routable /\ GroupOf(id)' # NoGroup
                                         => GroupOf(id)' \in DOMAIN groups'
      BY <1>1, <1>2, <1>6, <2>3, <3>3, ZenonT(60)
    <3> QED
      BY <3>5, <3>6, ZenonT(60) DEF GroupRefcount
  <2>4. CASE g \notin DOMAIN groups
    <3>1. groups' = Insert(groups, g, [learn |-> <<>>, members |-> 1])
      BY <1>5, <1>8, <2>4, ZenonT(60) DEF join
    <3>2. /\ DOMAIN groups' = DOMAIN groups \cup {g} /\ groups'[g].members = 1
          /\ \A h \in DOMAIN groups : groups'[h] = groups[h]
      BY <2>4, <3>1, ZenonT(60) DEF Insert
    <3>3. Members(g) = {}
      BY <1>6, <1>8, <2>4, ZenonT(60) DEF Members
    <3>4. Cardinality(Members(g)') = 1
      <4>1. Cardinality(Members(g)) = 0
        BY <3>3, FS_EmptySet, ZenonT(60)
      <4> QED
        BY <2>1, <4>1, SMTT(60), Z3T(60)
    <3>5. \A h \in DOMAIN groups' : /\ h # NoGroup /\ Members(h)' # {}
                                    /\ groups'[h].members = Cardinality(Members(h)')
      <4>1. ASSUME NEW h \in DOMAIN groups', h # g
            PROVE  /\ h # NoGroup /\ Members(h)' # {}
                   /\ groups'[h].members = Cardinality(Members(h)')
        <5>1. h \in DOMAIN groups /\ groups'[h] = groups[h] /\ Members(h)' = Members(h)
          BY <2>2, <3>2, <4>1, ZenonT(60)
        <5> QED
          BY <1>6, <5>1, Zenon
      <4>2. Members(g)' # {}
        BY <1>4, <1>8, Zenon
      <4>3. groups'[g].members = Cardinality(Members(g)')
        BY <3>2, <3>4, ZenonT(60)
      <4> QED
        BY <1>8, <4>1, <4>2, <4>3, Zenon
    <3>6. \A id \in DOMAIN routing' : routing'[id].routable /\ GroupOf(id)' # NoGroup
                                         => GroupOf(id)' \in DOMAIN groups'
      BY <1>1, <1>2, <1>6, <3>2, ZenonT(60)
    <3> QED
      BY <3>5, <3>6, Zenon DEF GroupRefcount
  <2> QED
    BY <2>3, <2>4, Zenon
<1> QED
  BY <1>7, <1>8, Zenon

\* A removal takes its id out of the group it was counted in, and the table goes
\* with the last member.
LEMMA RemovedGroups ==
    ASSUME TypeOK, GroupRefcount, Running,
           NEW ev, NEW id, id = ev.id, NEW g, g = GroupOf(id), HandleRemoved(ev),
           id \in DOMAIN routing,
           DOMAIN routing' = DOMAIN routing \ {id},
           \A x \in DOMAIN routing' : routing'[x] = routing[x]
    PROVE  GroupRefcount'
<1>1. /\ id \in DOMAIN routing
      /\ DOMAIN routing' = DOMAIN routing \ {id}
      /\ \A x \in DOMAIN routing' : routing'[x] = routing[x]
  BY Zenon
<1>2. \A x \in DOMAIN routing' : GroupOf(x)' = GroupOf(x)
  BY <1>1, ZenonT(60) DEF GroupOf, Identity
<1>3. ASSUME NEW h, ~(routing[id].routable /\ h = g) PROVE Members(h)' = Members(h)
  BY <1>1, <1>2, <1>3, ZenonT(60) DEF Members
<1>4. routing[id].routable => Members(g)' = Members(g) \ {id} /\ id \in Members(g)
  BY <1>1, <1>2, ZenonT(60) DEF Members
<1>5. groups' = IF routing[id].routable /\ g # NoGroup THEN leave(g) ELSE groups
  BY ZenonT(60) DEF HandleRemoved
<1>6. /\ \A h \in DOMAIN groups : /\ h # NoGroup /\ Members(h) # {}
                                  /\ groups[h].members = Cardinality(Members(h))
      /\ \A x \in DOMAIN routing : routing[x].routable /\ GroupOf(x) # NoGroup
                                      => GroupOf(x) \in DOMAIN groups
  BY ZenonT(60) DEF GroupRefcount, Running
<1>7. CASE ~(routing[id].routable /\ g # NoGroup)
  <2>1. groups' = groups
    BY <1>5, <1>7, ZenonT(60)
  <2>2. \A h \in DOMAIN groups : Members(h)' = Members(h)
    BY <1>3, <1>6, <1>7, ZenonT(60)
  <2>3. \A x \in DOMAIN routing' : routing'[x].routable /\ GroupOf(x)' # NoGroup
                                      => GroupOf(x)' \in DOMAIN groups
    BY <1>1, <1>2, <1>6, ZenonT(60)
  <2> QED
    BY <1>6, <2>1, <2>2, <2>3, ZenonT(60) DEF GroupRefcount
<1>8. CASE routing[id].routable /\ g # NoGroup
  <2>1. g \in DOMAIN groups
    BY <1>1, <1>6, <1>8, ZenonT(60)
  <2>2. /\ IsFiniteSet(Members(g)) /\ IsFiniteSet(Members(g)')
        /\ Cardinality(Members(g)') = Cardinality(Members(g)) - 1
        /\ Cardinality(Members(g)) \in Nat /\ Cardinality(Members(g)') \in Nat
    BY <1>4, <1>8, MembersFinite, FS_RemoveElement, FS_CardinalityType, SMTT(60), Z3T(60)
  <2>3. \A h : h # g => Members(h)' = Members(h)
    BY <1>3, ZenonT(60)
  <2>4. CASE groups[g].members <= 1
    <3>1. groups' = Delete(groups, g)
      BY <1>5, <1>8, <2>1, <2>4, ZenonT(60) DEF leave
    <3>2. DOMAIN groups' = DOMAIN groups \ {g} /\ \A h \in DOMAIN groups' : groups'[h] = groups[h]
      BY <3>1, ZenonT(60) DEF Delete
    <3>3. Cardinality(Members(g)') = 0
      BY <1>6, <2>1, <2>2, <2>4, SMTT(60), Z3T(60)
    <3>4. Members(g)' = {}
      BY <2>2, <3>3, FS_EmptySet, ZenonT(60)
    <3>5. \A x \in DOMAIN routing' : routing'[x].routable => GroupOf(x)' # g
      BY <3>4, ZenonT(60) DEF Members
    <3>6. \A x \in DOMAIN routing' : routing'[x].routable /\ GroupOf(x)' # NoGroup
                                        => GroupOf(x)' \in DOMAIN groups'
      BY <1>1, <1>2, <1>6, <3>2, <3>5, ZenonT(60)
    <3>7. \A h \in DOMAIN groups' : /\ h # NoGroup /\ Members(h)' # {}
                                    /\ groups'[h].members = Cardinality(Members(h)')
      BY <1>6, <2>3, <3>2, ZenonT(60)
    <3> QED
      BY <3>6, <3>7, ZenonT(60) DEF GroupRefcount
  <2>5. CASE ~(groups[g].members <= 1)
    <3>1. groups' = [groups EXCEPT ![g].members = @ - 1]
      BY <1>5, <1>8, <2>1, <2>5, ZenonT(60) DEF leave
    <3>2. groups[g] \in Group
      BY <2>1, ZenonT(60) DEF TypeOK, GroupsOK
    <3>3. DOMAIN groups' = DOMAIN groups /\ groups'[g].members = groups[g].members - 1
      BY <2>1, <3>1, <3>2, ZenonT(60) DEF Group
    <3>4. \A h \in DOMAIN groups : h # g => groups'[h] = groups[h]
      BY <3>1, ZenonT(60)
    <3>5. groups'[g].members = Cardinality(Members(g)') /\ Cardinality(Members(g)') # 0
      BY <1>6, <2>1, <2>2, <2>5, <3>3, SMTT(60), Z3T(60)
    <3>6. Members(g)' # {}
      BY <3>5, FS_EmptySet, ZenonT(60)
    <3>7. \A h \in DOMAIN groups' : /\ h # NoGroup /\ Members(h)' # {}
                                    /\ groups'[h].members = Cardinality(Members(h)')
      BY <1>6, <2>3, <3>3, <3>4, <3>5, <3>6, ZenonT(60)
    <3>8. \A x \in DOMAIN routing' : routing'[x].routable /\ GroupOf(x)' # NoGroup
                                        => GroupOf(x)' \in DOMAIN groups'
      BY <1>1, <1>2, <1>6, <3>3, ZenonT(60)
    <3> QED
      BY <3>7, <3>8, ZenonT(60) DEF GroupRefcount
  <2> QED
    BY <2>4, <2>5, ZenonT(60)
<1> QED
  BY <1>7, <1>8, Zenon

LEMMA GroupStep == TypeOK /\ RInv /\ GroupRefcount /\ [Next]_vars => GroupRefcount'
<1> SUFFICES ASSUME TypeOK, RInv, GroupRefcount, [Next]_vars
             PROVE  GroupRefcount'
  BY Zenon
<1>1. CASE UNCHANGED <<routing, groups, pc>>
  BY <1>1, SameGroupsInv, ZenonT(60) DEF SameSlots, Running
<1>2. CASE PollCancel \/ NoEvent \/ NoFrame \/ DrainedEvents
  BY <1>2, SameGroupsInv, ZenonT(60)
  DEF PollCancel, NoEvent, NoFrame, DrainedEvents, registry, SameSlots, Running
<1>3. CASE TakeFrame /\ UNCHANGED envVars
  BY <1>3, QuietRoute, TakeFrameGroups, SameGroupsInv, ZenonT(60) DEF Quiet
<1>4. CASE TakeEvent
  <2>1. PICK ev : ev = event_ch[1]
    BY Zenon
  <2>2. PICK g : g = IF IsAdded(ev) THEN Identity(ev.spec).group ELSE GroupOf(ev.id)
    BY Zenon
  <2>3. CASE IsAdded(ev)
    BY <1>4, <2>1, <2>2, <2>3, TakeEventEffect, AddedGroups, ZenonT(60)
  <2>4. CASE ~IsAdded(ev)
    BY <1>4, <2>1, <2>2, <2>4, TakeEventEffect, RemovedGroups, ZenonT(60)
  <2> QED
    BY <2>3, <2>4, ZenonT(60)
<1>5. CASE SweepDone \/ \E id \in Ids : SweepOne(id)
  BY <1>5, ZenonT(60) DEF SweepDone, SweepOne, GroupRefcount
<1> QED
  <2>1. CASE Route
    BY <1>2, <1>3, <1>4, <1>5, <2>1, ZenonT(60) DEF Route, RouterNext
  <2>2. CASE ~Route
    <3>1. UNCHANGED <<routing, groups, pc>>
      BY <2>2, ZenonT(60)
         DEF Next, vars, routerVars, channels, registry, envVars, SpawnEndpoint, Cancel,
             StatsRecv, StatsExit, Endpoint, AdmitPeer, Announce, AnnounceFails, Forward, Pop,
             Drain, Sent, SendFails, StoreState, Depart, Exit
    <3> QED
      BY <1>1, <3>1, ZenonT(60)
  <2> QED
    BY <2>1, <2>2, ZenonT(60)

\* The group refcounts are exact, for any set of endpoints, groups and queue sizes
\* and any interleaving: join and leave balance, a group's learn table lives from
\* the registration of its first member to the removal of its last.
THEOREM GroupsCounted == Spec => []GroupRefcount
<1>1. Init => GroupRefcount
  BY Zenon DEF Init, RouterInit, GroupRefcount
<1> QED
  BY <1>1, TypeCorrect, RInvInit, RInvStep, GroupStep, PTL DEF Spec

-----------------------------------------------------------------------------
(* No frame is sent back. *)

EntryOK(d, src) ==
    /\ Settled(d) /\ Settled(src)
    /\ src # d
    /\ \/ Identity(who[d].spec).sniffer
       \/ Identity(who[d].spec).group = NoGroup
       \/ Identity(who[src].spec).group # Identity(who[d].spec).group

QInv == \A d \in Ids : \A i \in 1..Len(tx[d]) : EntryOK(d, tx[d][i].src)

LEMMA QueueFacts ==
    ASSUME TypeOK, NEW d \in Ids
    PROVE  /\ tx[d] \in Seq(Queued) /\ Len(tx[d]) \in Nat /\ DOMAIN tx[d] = 1..Len(tx[d])
           /\ Len(tx[d]) <= TX_QUEUE_FRAMES
           /\ \A i \in 1..Len(tx[d]) : tx[d][i] \in Queued /\ tx[d][i].src \in Ids
<1>1. tx[d] \in Seq(Queued) /\ Len(tx[d]) <= TX_QUEUE_FRAMES
  BY Zenon DEF TypeOK, TxOK
<1>2. \A i \in 1..Len(tx[d]) : tx[d][i] \in Queued
  BY <1>1, Seq_Element, ZenonT(60)
<1> QED
  BY <1>1, <1>2, Seq_Len, ZenonT(60) DEF Queued

LEMMA QInvImplies == TypeOK /\ QInv => NoEcho
  BY QueueFacts, ZenonT(60) DEF QInv, NoEcho, EntryOK

\* Once its announcement went through, what an id stands for never changes.
LEMMA SettledKept ==
    ASSUME TypeOK, RInv, [Next]_vars, NEW id \in Ids, Settled(id)
    PROVE  Settled(id)' /\ who'[id] = who[id]
<1>1. CASE UNCHANGED <<life, who>>
  BY <1>1, ZenonT(60) DEF Settled
<1>2. ASSUME NEW kind, NEW spec, Alloc(kind, spec)
      PROVE  Settled(id)' /\ who'[id] = who[id]
  <2>1. next_id \in Ids /\ life[next_id] = "none"
    BY <1>2, ConstantFacts, SMTT(60), Z3T(60)
       DEF TypeOK, EndpointsOK, Alloc, Ids, RInv, LifecycleInv
  <2> QED
    BY <1>2, <2>1, ZenonT(60) DEF Settled, Alloc, TypeOK, EndpointsOK
<1>3. ASSUME NEW x \in Ids, NEW l \in {"live", "gone"}, life' = [life EXCEPT ![x] = l], who' = who
      PROVE  Settled(id)' /\ who'[id] = who[id]
  BY <1>3, ZenonT(60) DEF Settled, TypeOK, EndpointsOK
<1>4. \/ UNCHANGED <<life, who>>
      \/ \E kind, spec : Alloc(kind, spec)
      \/ \E x \in Ids, l \in {"live", "gone"} : life' = [life EXCEPT ![x] = l] /\ who' = who
  BY ZenonT(60)
     DEF Next, vars, Route, envVars, SpawnEndpoint, Cancel, StatsRecv, StatsExit, Endpoint,
         AdmitPeer, Announce, AnnounceFails, Forward, Pop, Drain, Sent, SendFails, StoreState,
         Depart, Exit
<1> QED
  BY <1>1, <1>2, <1>3, <1>4, ZenonT(60)

\* The router queues a frame only where it may go: the group table of the source
\* holds the sender when the destinations are decided.
LEMMA DeliveredOK ==
    ASSUME TypeOK, RInv, NEW rf \in RouterFrame, FrameFresh(rf), tx' # tx,
           NEW d \in Ids, Verdict(d, rf, groups') = "Admit"
    PROVE  EntryOK(d, rf.endpoint_id)
<1>1. PICK src, node : src \in Ids /\ src = rf.endpoint_id /\ node = Source(rf.frame)
  BY Zenon DEF RouterFrame
<1>2. PICK gs, gd : gs = GroupOf(src) /\ gd = GroupOf(d)
  BY Zenon
<1>3. src \in DOMAIN routing /\ d \in DOMAIN routing /\ d # src
  BY <1>1, ZenonT(60) DEF FrameFresh, Routable, Verdict
<1>4. Settled(src) /\ Settled(d) /\ who[d].spec = routing[d].spec /\ who[src].spec = routing[src].spec
  BY <1>3, ZenonT(60) DEF RInv, LifecycleInv
<1>5. CASE Identity(routing[d].spec).sniffer \/ gd = NoGroup \/ gs # gd
  BY <1>1, <1>2, <1>3, <1>4, <1>5, ZenonT(60) DEF EntryOK, GroupOf
<1>6. CASE ~Identity(routing[d].spec).sniffer /\ gd # NoGroup /\ gs = gd
  <2>1. gs \in DOMAIN groups /\ groups' = [groups EXCEPT ![gs].learn = LearnedBy(rf)]
    BY <1>1, <1>2, <1>6, ZenonT(60) DEF FrameFresh, LearnAndDispatch, LearnedBy
  <2>2. contains(LearnedBy(rf), node)
    BY <1>1, <1>2, <2>1, LearnedType, ZenonT(60) DEF FrameFresh
  <2>3. groups[gs] \in Group
    BY <2>1, ZenonT(60) DEF TypeOK, GroupsOK
  <2>4. groups'[gd].learn = LearnedBy(rf)
    BY <1>6, <2>1, <2>3, ZenonT(60) DEF Group
  <2>5. Verdict(d, rf, groups') \in {"Skipped", "LoopBlocked"}
    BY <1>1, <1>2, <1>6, <2>2, <2>4, ZenonT(60) DEF Verdict, decide, GroupOf
  <2> QED
    BY <2>5, ZenonT(60)
<1> QED
  BY <1>5, <1>6, Zenon

\* What a queue holds after a step was there before it, or was put there by the
\* router under DeliveredOK.
LEMMA QueueSources ==
    ASSUME TypeOK, RInv, QInv, [Next]_vars, NEW d \in Ids, NEW i \in 1..Len(tx'[d])
    PROVE  tx'[d][i].src \in Ids /\ EntryOK(d, tx'[d][i].src)
<1>1. CASE tx' = tx
  BY <1>1, QueueFacts, ZenonT(60) DEF QInv
<1>2. ASSUME NEW id \in Ids, Pop(id)
      PROVE  tx'[d][i].src \in Ids /\ EntryOK(d, tx'[d][i].src)
  <2>1. CASE d = id
    <3>1. tx'[d] = Tail(tx[d]) /\ tx[d] # <<>>
      BY <1>2, <2>1, ZenonT(60) DEF Pop, TypeOK, TxOK
    <3>2. Len(tx'[d]) = Len(tx[d]) - 1 /\ tx'[d][i] = tx[d][i + 1]
      BY <3>1, QueueFacts, TailFacts, SMTT(60), Z3T(60)
    <3>3. i + 1 \in 1..Len(tx[d])
      BY <3>2, QueueFacts, SMTT(60), Z3T(60)
    <3> QED
      BY <3>2, <3>3, QueueFacts, ZenonT(60) DEF QInv
  <2>2. CASE d # id
    BY <1>2, <2>2, QueueFacts, ZenonT(60) DEF Pop, TypeOK, TxOK, QInv
  <2> QED
    BY <2>1, <2>2, ZenonT(60)
<1>3. ASSUME NEW id \in Ids, Drain(id)
      PROVE  tx'[d][i].src \in Ids /\ EntryOK(d, tx'[d][i].src)
  <2>1. CASE d = id
    <3>1. tx'[d] = <<>>
      BY <1>3, <2>1, ZenonT(60) DEF Drain, TypeOK, TxOK
    <3>2. Len(tx'[d]) = 0
      BY <3>1, SMTT(60), Z3T(60)
    <3> QED
      BY <3>2, SMTT(60), Z3T(60)
  <2>2. CASE d # id
    BY <1>3, <2>2, QueueFacts, ZenonT(60) DEF Drain, TypeOK, TxOK, QInv
  <2> QED
    BY <2>1, <2>2, Zenon
<1>4. CASE TakeFrame /\ tx' # tx
  <2>1. PICK rf \in RouterFrame : handle_frame(rf)
    BY <1>4, TailFacts, ZenonT(60) DEF TakeFrame, TypeOK, FramesOK
  <2>2. FrameFresh(rf) /\ tx' = Delivered(rf, groups')
    BY <1>4, <2>1, ZenonT(60)
       DEF handle_frame, FrameFromNowhere, FrameDuplicate, FrameFresh, LearnAndDispatch
  <2>3. PICK entry \in Queued : entry = [src |-> rf.endpoint_id, frame |-> rf.frame]
    BY Zenon DEF RouterFrame, Queued
  <2>4. CASE Verdict(d, rf, groups') = "Admit"
    <3>1. tx'[d] = push(tx[d], entry)
      BY <2>2, <2>3, <2>4, ZenonT(60) DEF Delivered
    <3>2. tx'[d][i] = entry \/ \E j \in 1..Len(tx[d]) : tx'[d][i] = tx[d][j]
      <4>1. tx[d] \in Seq(Queued) /\ Len(tx[d]) <= TX_QUEUE_FRAMES
        BY QueueFacts, Zenon
      <4>2. \A k \in 1..Len(push(tx[d], entry)) :
               \/ push(tx[d], entry)[k] = entry
               \/ \E j \in 1..Len(tx[d]) : push(tx[d], entry)[k] = tx[d][j]
        BY <4>1, PushFacts, ZenonT(60)
      <4> QED
        BY <3>1, <4>2, ZenonT(60)
    <3>3. EntryOK(d, rf.endpoint_id) /\ rf.endpoint_id \in Ids /\ entry.src = rf.endpoint_id
      BY <1>4, <2>2, <2>3, <2>4, DeliveredOK, ZenonT(60) DEF RouterFrame
    <3> QED
      BY <3>2, <3>3, QueueFacts, ZenonT(60) DEF QInv
  <2>5. CASE Verdict(d, rf, groups') # "Admit"
    BY <2>2, <2>5, QueueFacts, ZenonT(60) DEF Delivered, QInv
  <2> QED
    BY <2>4, <2>5, ZenonT(60)
<1>5. \/ tx' = tx
      \/ \E id \in Ids : Pop(id) \/ Drain(id)
      \/ TakeFrame
  BY ZenonT(60) DEF Next, vars, routerVars, channels, registry, envVars, SpawnEndpoint, Cancel,
         StatsRecv, StatsExit, Endpoint, AdmitPeer, Announce, AnnounceFails, Forward,
         Sent, SendFails, StoreState, Depart, Exit, Route, RouterNext, PollCancel, TakeEvent,
         handle_event, NoEvent, NoFrame, DrainedEvents, SweepOne, SweepDone
<1> QED
  BY <1>1, <1>2, <1>3, <1>4, <1>5, ZenonT(60)

LEMMA QInvStep == TypeOK /\ RInv /\ QInv /\ [Next]_vars => QInv'
<1> SUFFICES ASSUME TypeOK, RInv, QInv, [Next]_vars,
                    NEW d \in Ids, NEW i \in 1..Len(tx'[d])
             PROVE  EntryOK(d, tx[d][i].src)'
  BY Zenon DEF QInv
<1>1. PICK src \in Ids : src = tx'[d][i].src /\ EntryOK(d, src)
  BY QueueSources, ZenonT(60)
<1>2. Settled(d)' /\ Settled(src)' /\ who'[d] = who[d] /\ who'[src] = who[src]
  BY <1>1, SettledKept, ZenonT(60) DEF EntryOK
<1> QED
  BY <1>1, <1>2, Zenon DEF EntryOK, Identity, Settled

\* Loop prevention, for every configuration: no transmit queue ever holds a frame
\* of its own endpoint or, unless the endpoint is a sniffer, of a member of its
\* group, even while members come and go and learn tables evict.
THEOREM NothingEchoed == Spec => []NoEcho
<1>1. Init => QInv
  <2> SUFFICES ASSUME Init, NEW d \in Ids PROVE 1..Len(tx[d]) = {}
    BY Zenon DEF QInv
  <2> QED
    BY SMTT(60), Z3T(60) DEF Init, RouterInit
<1> QED
  BY <1>1, QInvImplies, QInvStep, TypeCorrect, RInvInit, RInvStep, PTL DEF Spec

=============================================================================
