---------------------------- MODULE RouterProofs -----------------------------
(***************************************************************************)
(* Theorems about RouterSystem, for every value of its constants: its      *)
(* types and capacities, then the drop accounting of the transmit queues   *)
(* and what the channel to the stats task tells its mirror, which are both *)
(* inductive once the types are known.                                     *)
(***************************************************************************)
EXTENDS RouterSafety, TLAPS

-----------------------------------------------------------------------------
(* Sequences. *)

\* The empty sequence, and that every other one has an element.
LEMMA Seq_Empty ==
  ASSUME NEW S
  PROVE  /\ <<>> \in Seq(S)
         /\ Len(<<>>) = 0
         /\ \A s \in Seq(S) : s # <<>> => Len(s) \in Nat \ {0}
BY SMTT(60), Z3T(60)

\* The length, the domain and the range of a sequence.
LEMMA Seq_Len ==
  ASSUME NEW S, NEW s \in Seq(S)
  PROVE  /\ Len(s) \in Nat
         /\ s \in [1..Len(s) -> S]
         /\ DOMAIN s = 1..Len(s)
BY SMTT(60), Z3T(60)

\* An element of a sequence.
LEMMA Seq_Element ==
  ASSUME NEW S, NEW s \in Seq(S), NEW n \in 1..Len(s)
  PROVE  s[n] \in S
BY SMTT(60), Z3T(60)

\* Concatenation, element by element.
LEMMA Seq_Concat ==
  ASSUME NEW S, NEW s \in Seq(S), NEW t \in Seq(S)
  PROVE  /\ s \o t \in Seq(S)
         /\ Len(s \o t) = Len(s) + Len(t)
         /\ \A i \in 1..(Len(s) + Len(t)) :
              (s \o t)[i] = IF i <= Len(s) THEN s[i] ELSE t[i - Len(s)]
BY SMTT(60), Z3T(60)

\* A stretch of a sequence, element by element.
LEMMA Seq_SubSeq ==
  ASSUME NEW S, NEW s, NEW m \in Int, NEW n \in Int, \A i \in m..n : s[i] \in S
  PROVE  /\ SubSeq(s, m, n) \in Seq(S)
         /\ Len(SubSeq(s, m, n)) = IF m <= n THEN n - m + 1 ELSE 0
         /\ \A i \in 1..(n - m + 1) : SubSeq(s, m, n)[i] = s[m + i - 1]
BY SMTT(60), Z3T(60)

\* The two parts of a queue that is popped.
LEMMA Seq_HeadTail ==
  ASSUME NEW S, NEW s \in Seq(S), s # <<>>
  PROVE  /\ Head(s) \in S
         /\ Tail(s) \in Seq(S)
         /\ Len(Tail(s)) = Len(s) - 1
         /\ \A i \in 1..Len(Tail(s)) : Tail(s)[i] = s[i + 1]
BY SMTT(60), Z3T(60)

LEMMA AppendFacts ==
    ASSUME NEW S, NEW s \in Seq(S), NEW x \in S
    PROVE  /\ Append(s, x) \in Seq(S)
           /\ Len(Append(s, x)) = Len(s) + 1
           /\ \A i \in 1..Len(s) : Append(s, x)[i] = s[i]
           /\ Append(s, x)[Len(s) + 1] = x
  BY SMTT(60), Z3T(60)

LEMMA TailFacts ==
    ASSUME NEW S, NEW s \in Seq(S), s # <<>>
    PROVE  /\ Len(s) > 0
           /\ Head(s) = s[1] /\ Head(s) \in S
           /\ Tail(s) \in Seq(S)
           /\ Len(Tail(s)) = Len(s) - 1
           /\ \A i \in 1..Len(Tail(s)) : Tail(s)[i] = s[i + 1]
  BY Seq_HeadTail, Seq_Empty, Seq_Len, SMTT(60), Z3T(60)

\* Removing one element keeps the rest of a sequence.
LEMMA WithoutType ==
    ASSUME NEW S, NEW s \in Seq(S), NEW i \in 1..Len(s)
    PROVE  Without(s, i) \in Seq(S) /\ Len(Without(s, i)) = Len(s) - 1
<1> DEFINE front == SubSeq(s, 1, i - 1)
           back == SubSeq(s, i + 1, Len(s))
<1>1. Len(s) \in Nat /\ i \in Nat /\ i <= Len(s) /\ i > 0
  BY Seq_Len, SMTT(60), Z3T(60)
<1>2. front \in Seq(S) /\ Len(front) = i - 1
  BY Seq_SubSeq, Seq_Len, SMTT(60), Z3T(60)
<1>3. back \in Seq(S) /\ Len(back) = Len(s) - i
  BY Seq_SubSeq, Seq_Len, SMTT(60), Z3T(60)
<1>4. Without(s, i) = front \o back
  BY Zenon DEF Without
<1> HIDE DEF front, back
<1>5. front \o back \in Seq(S) /\ Len(front \o back) = Len(front) + Len(back)
  BY <1>2, <1>3, Seq_Concat, Zenon, ZenonT(60)
<1>6. Len(front) + Len(back) = Len(s) - 1
  BY <1>1, <1>2, <1>3, SMTT(60), Z3T(60)
<1> QED
  BY <1>4, <1>5, <1>6, Zenon, Zenon

\* `touch' keeps a learn table within its capacity, and the table then holds the
\* node: the insertion never evicts the node it inserts.
LEMMA TouchFacts ==
    ASSUME NEW S, NEW learn \in Seq(S), NEW node \in S,
           NEW capacity \in Nat \ {0}, Len(learn) <= capacity
    PROVE  /\ touch(learn, node, capacity) \in Seq(S)
           /\ Len(touch(learn, node, capacity)) <= capacity
           /\ contains(touch(learn, node, capacity), node)
<1> DEFINE last(s) == Append(s, node)
<1>1. ASSUME NEW s \in Seq(S), Len(s) < capacity
      PROVE  last(s) \in Seq(S) /\ Len(last(s)) <= capacity /\ contains(last(s), node)
  <2>1. Len(s) + 1 \in DOMAIN last(s)
    BY <1>1, AppendFacts, Seq_Len, SMTT(60), Z3T(60)
  <2> QED
    BY <1>1, <2>1, AppendFacts, Seq_Len, SMTT(60), Z3T(60) DEF contains
<1>2. CASE contains(learn, node)
  <2> DEFINE i == CHOOSE i \in DOMAIN learn : learn[i] = node
  <2>1. i \in 1..Len(learn)
    BY <1>2, Seq_Len, Zenon DEF contains
  <2>2. Without(learn, i) \in Seq(S) /\ Len(Without(learn, i)) < capacity
    BY <2>1, WithoutType, Seq_Len, SMTT(60), Z3T(60)
  <2>3. touch(learn, node, capacity) = last(Without(learn, i))
    BY <1>2, Zenon DEF touch
  <2> QED
    BY <1>1, <2>2, <2>3, Zenon
<1>3. CASE ~contains(learn, node)
  <2> DEFINE kept == IF Len(learn) >= capacity THEN Tail(learn) ELSE learn
  <2>1. kept \in Seq(S) /\ Len(kept) < capacity
    BY TailFacts, Seq_Len, Seq_Empty, SMTT(60), Z3T(60)
  <2>2. touch(learn, node, capacity) = last(kept)
    BY <1>3, Zenon DEF touch
  <2> QED
    BY <1>1, <2>1, <2>2, Zenon
<1> QED
  BY <1>2, <1>3, Zenon

-----------------------------------------------------------------------------
(* Type correctness. *)

LEMMA ConstantFacts ==
    /\ Len(Endpoints) \in Nat
    /\ MaxId \in Nat
    /\ EventQCap \in Nat \ {0} /\ INGRESS_QUEUE_FRAMES \in Nat \ {0}
    /\ StatsQCap \in Nat \ {0} /\ LEARN_CAPACITY \in Nat \ {0}
    /\ TX_QUEUE_FRAMES \in Nat \ {0} /\ DedupCapacity \in Nat \ {0}
  BY RouterAssumption, SystemAssumption, SMTT(60), Z3T(60)

LEMMA InitType == Init => TypeOK
<1> SUFFICES ASSUME Init PROVE TypeOK
  BY Zenon
<1> USE ConstantFacts DEF Init, RouterInit
<1>1. ControlOK /\ StatsOK
  BY Zenon DEF ControlOK, StatsOK, EndpointStats, InitialStats, States
<1>2. EventsOK /\ FramesOK /\ StatsChOK /\ DedupOK
  BY SMTT(60), Z3T(60) DEF EventsOK, FramesOK, StatsChOK, DedupOK
<1>3. RoutingOK /\ GroupsOK
  BY Zenon DEF RoutingOK, GroupsOK
<1>4. TxOK /\ WritingOK
  BY SMTT(60), Z3T(60) DEF TxOK, WritingOK
<1>5. EndpointsOK
  BY SMTT(60), Z3T(60) DEF EndpointsOK, Unallocated
<1> QED
  BY <1>1, <1>2, <1>3, <1>4, <1>5, Zenon DEF TypeOK

\* Each part of the type invariant is about the variables it names only.
LEMMA TypeFrame ==
    /\ ControlOK /\ UNCHANGED <<cancelled, pc>> => ControlOK'
    /\ EventsOK /\ UNCHANGED event_ch => EventsOK'
    /\ FramesOK /\ UNCHANGED <<frame_ch, sent>> => FramesOK'
    /\ StatsChOK /\ UNCHANGED <<stats_ch, stats_open, stats_events_dropped, mirror>>
          => StatsChOK'
    /\ RoutingOK /\ UNCHANGED routing => RoutingOK'
    /\ GroupsOK /\ UNCHANGED groups => GroupsOK'
    /\ DedupOK /\ UNCHANGED dedup => DedupOK'
    /\ TxOK /\ UNCHANGED tx => TxOK'
    /\ StatsOK /\ UNCHANGED stats => StatsOK'
    /\ WritingOK /\ UNCHANGED writing => WritingOK'
    /\ EndpointsOK /\ UNCHANGED <<next_id, spawned, who, life>> => EndpointsOK'
  BY Zenon DEF ControlOK, EventsOK, FramesOK, StatsChOK, RoutingOK, GroupsOK, DedupOK, TxOK,
         StatsOK, WritingOK, EndpointsOK

\* Allocating an id for a configured endpoint or one of its sub-endpoints.
LEMMA AllocType ==
    ASSUME EndpointsOK, NEW kind \in {"leaf", "listener", "peer"}, NEW spec \in Specs,
           Alloc(kind, spec), spawned' \in 0..Len(Endpoints)
    PROVE  EndpointsOK'
<1>1. next_id \in Ids /\ next_id' \in 1..(MaxId + 1)
  BY ConstantFacts, SMTT(60), Z3T(60) DEF Alloc, EndpointsOK, Ids
<1>2. spec \in 0..Len(Endpoints)
  BY ConstantFacts, SMTT(60), Z3T(60) DEF Specs
<1> QED
  BY <1>1, <1>2, Zenon DEF Alloc, EndpointsOK

\* The steps of the endpoints, the stats task and the operator.
LEMMA EnvType ==
    ASSUME TypeOK,
           \/ SpawnEndpoint \/ Cancel \/ StatsRecv \/ StatsExit
           \/ \E id \in Ids : Endpoint(id)
    PROVE  TypeOK'
<1> USE ConstantFacts DEF TypeOK
<1>1. CASE SpawnEndpoint
  <2>1. EndpointsOK'
    <3>1. spawned + 1 \in Specs /\ spawned' \in 0..Len(Endpoints)
      BY <1>1, SMTT(60), Z3T(60) DEF SpawnEndpoint, EndpointsOK, Specs
    <3> QED
      BY <1>1, <3>1, AllocType, Zenon DEF SpawnEndpoint
  <2> QED
    BY <1>1, <2>1, TypeFrame, Zenon DEF SpawnEndpoint, routerVars, channels, registry
<1>2. CASE Cancel
  <2>1. ControlOK'
    BY <1>2, Zenon DEF Cancel, ControlOK
  <2> QED
    BY <1>2, <2>1, TypeFrame, Zenon DEF Cancel, channels, registry, envVars
<1>3. CASE StatsRecv
  <2>1. StatsChOK'
    <3>1. /\ Tail(stats_ch) \in Seq(StatsEvent) /\ Len(Tail(stats_ch)) = Len(stats_ch) - 1
          /\ Head(stats_ch) \in StatsEvent /\ Len(stats_ch) \in Nat
      BY <1>3, TailFacts, Seq_Len, Zenon DEF StatsRecv, StatsChOK
    <3> QED
      BY <1>3, <3>1, SMTT(60), Z3T(60) DEF StatsRecv, StatsChOK, StatsEvent
  <2> QED
    BY <1>3, <2>1, TypeFrame, Zenon DEF StatsRecv, registry
<1>4. CASE StatsExit
  <2>1. StatsChOK'
    <3>1. /\ stats_ch' = <<>> /\ stats_open' = FALSE
          /\ UNCHANGED <<stats_events_dropped, mirror>>
      BY <1>4, Zenon DEF StatsExit, envVars
    <3>2. stats_ch' \in Seq(StatsEvent) /\ Len(stats_ch') <= StatsQCap
      BY <3>1, Seq_Empty, SMTT(60), Z3T(60)
    <3> QED
      BY <3>1, <3>2, Zenon DEF StatsChOK
  <2> QED
    BY <1>4, <2>1, TypeFrame, Zenon DEF StatsExit, registry, envVars
<1>5. ASSUME NEW id \in Ids, Endpoint(id)
      PROVE  TypeOK'
  <2>1. CASE AdmitPeer(id)
    <3>1. EndpointsOK'
      <4>1. who[id].spec \in Specs
        BY <2>1, Zenon DEF AdmitPeer, Listener, EndpointsOK
      <4>2. spawned' \in 0..Len(Endpoints) /\ Alloc("peer", who[id].spec)
        BY <2>1, Zenon DEF AdmitPeer, EndpointsOK
      <4> QED
        BY <4>1, <4>2, AllocType, Zenon
    <3>2. StatsOK'
      <4>1. next_id \in Ids
        BY <2>1, SMTT(60), Z3T(60) DEF AdmitPeer, Alloc, EndpointsOK, Ids
      <4> QED
        BY <2>1, <4>1, ZenonT(60) DEF AdmitPeer, StatsOK, EndpointStats, States
    <3> QED
      BY <2>1, <3>1, <3>2, TypeFrame, Zenon DEF AdmitPeer, channels, registry
  <2>2. CASE Announce(id)
    <3>1. EndpointsOK'
      BY <2>2, Zenon DEF Announce, EndpointsOK
    <3>2. Added(id) \in EventType
      BY <2>2, Zenon DEF Announce, Added, EventType, EndpointsOK
    <3>3. EventsOK'
      BY <2>2, <3>2, AppendFacts, SMTT(60), Z3T(60) DEF Announce, EventsOK
    <3> QED
      BY <2>2, <3>1, <3>3, TypeFrame, Zenon DEF Announce, registry
  <2>3. CASE AnnounceFails(id)
    <3>1. EndpointsOK'
      BY <2>3, Zenon DEF AnnounceFails, EndpointsOK
    <3> QED
      BY <2>3, <3>1, TypeFrame, Zenon DEF AnnounceFails, routerVars, channels, registry
  <2>4. ASSUME NEW frame \in Frames, Forward(id, frame)
        PROVE  TypeOK'
    <3>1. FramesOK'
      <4>1. [endpoint_id |-> id, frame |-> frame] \in RouterFrame
        BY Zenon DEF RouterFrame
      <4> QED
        BY <2>4, <4>1, AppendFacts, SMTT(60), Z3T(60) DEF Forward, FramesOK
    <3> QED
      BY <2>4, <3>1, TypeFrame, Zenon DEF Forward, registry
  <2>5. CASE Pop(id)
    <3>1. TxOK'
      <4>1. /\ Tail(tx[id]) \in Seq(Queued)
            /\ Len(Tail(tx[id])) <= TX_QUEUE_FRAMES
        BY <2>5, TailFacts, Seq_Len, SMTT(60), Z3T(60) DEF Pop, TxOK
      <4> QED
        BY <2>5, <4>1, Zenon DEF Pop, TxOK
    <3>2. WritingOK'
      BY <2>5, Zenon DEF Pop, WritingOK
    <3> QED
      BY <2>5, <3>1, <3>2, TypeFrame, Zenon DEF Pop, channels, registry
  <2>6. CASE Drain(id)
    <3>1. TxOK'
      <4>1. <<>> \in Seq(Queued) /\ Len(<<>>) = 0
        BY SMTT(60), Z3T(60)
      <4> QED
        BY <2>6, <4>1, SMTT(60), Z3T(60) DEF Drain, TxOK
    <3>2. Len(tx[id]) \in Nat
      BY Seq_Len, Zenon DEF TxOK
    <3>3. StatsOK'
      <4>1. stats[id].dropped_tx + Len(tx[id]) \in Nat
        BY <3>2, SMTT(60), Z3T(60) DEF StatsOK, EndpointStats
      <4>2. [stats[id] EXCEPT !.dropped_tx = @ + Len(tx[id])] \in EndpointStats
        BY <4>1, ZenonT(60) DEF StatsOK, EndpointStats
      <4> QED
        BY <2>6, <4>2, Zenon DEF Drain, StatsOK
    <3> QED
      BY <2>6, <3>1, <3>3, TypeFrame, Zenon DEF Drain, channels, registry, envVars
  <2>7. ASSUME NEW state \in {"Connected", "Reconnecting"}, StoreState(id, state)
        PROVE  TypeOK'
    <3>1. StatsOK'
      BY <2>7, ZenonT(60) DEF StoreState, StatsOK, EndpointStats, States
    <3> QED
      BY <2>7, <3>1, TypeFrame, Zenon DEF StoreState, channels, registry, envVars
  <2>8. ASSUME NEW reason \in Reasons, Depart(id, reason)
        PROVE  TypeOK'
    <3>1. EndpointsOK'
      BY <2>8, Zenon DEF Depart, EndpointsOK
    <3>2. EventsOK'
      BY <2>8, AppendFacts, SMTT(60), Z3T(60) DEF Depart, EventsOK, EventType
    <3> QED
      BY <2>8, <3>1, <3>2, TypeFrame, Zenon DEF Depart, registry
  <2>9. CASE Exit(id)
    <3>1. EndpointsOK'
      BY <2>9, Zenon DEF Exit, EndpointsOK
    <3> QED
      BY <2>9, <3>1, TypeFrame, Zenon DEF Exit, routerVars, channels, registry
  <2>10. CASE SendFails(id)
    <3>1. StatsOK'
      <4>1. stats[id].dropped_tx + 1 \in Nat
        BY SMTT(60), Z3T(60) DEF StatsOK, EndpointStats
      <4>2. [stats[id] EXCEPT !.dropped_tx = @ + 1] \in EndpointStats
        BY <4>1, ZenonT(60) DEF StatsOK, EndpointStats
      <4> QED
        BY <2>10, <4>2, Zenon DEF SendFails, StatsOK
    <3>2. WritingOK'
      BY <2>10, Zenon DEF SendFails, WritingOK
    <3> QED
      BY <2>10, <3>1, <3>2, TypeFrame, Zenon DEF SendFails, channels, registry
  <2>11. CASE Sent(id)
    <3>1. WritingOK'
      BY <2>11, Zenon DEF Sent, WritingOK
    <3> QED
      BY <2>11, <3>1, TypeFrame, Zenon DEF Sent, routerVars, channels, registry
  <2> QED
    BY <1>5, <2>1, <2>2, <2>3, <2>4, <2>5, <2>6, <2>7, <2>8, <2>9, <2>10, <2>11, Zenon DEF Endpoint
<1> QED
  BY <1>1, <1>2, <1>3, <1>4, <1>5, Zenon

\* A push keeps the bound of the queue, and what it holds was there or is new.
LEMMA PushFacts ==
    ASSUME NEW queue \in Seq(Queued), Len(queue) <= TX_QUEUE_FRAMES, NEW entry \in Queued
    PROVE  /\ push(queue, entry) \in Seq(Queued)
           /\ Len(push(queue, entry)) <= TX_QUEUE_FRAMES
           /\ \A i \in 1..Len(push(queue, entry)) :
                 \/ push(queue, entry)[i] = entry
                 \/ \E j \in 1..Len(queue) : push(queue, entry)[i] = queue[j]
<1> DEFINE kept == IF Len(queue) >= TX_QUEUE_FRAMES THEN Tail(queue) ELSE queue
<1>1. /\ kept \in Seq(Queued) /\ Len(kept) < TX_QUEUE_FRAMES
      /\ \A i \in 1..Len(kept) : \E j \in 1..Len(queue) : kept[i] = queue[j]
  <2>1. CASE Len(queue) >= TX_QUEUE_FRAMES
    <3>1. queue # <<>> /\ Len(queue) \in Nat
      BY <2>1, ConstantFacts, Seq_Len, Seq_Empty, SMTT(60), Z3T(60)
    <3>2. /\ Tail(queue) \in Seq(Queued) /\ Len(Tail(queue)) = Len(queue) - 1
          /\ \A i \in 1..Len(Tail(queue)) : Tail(queue)[i] = queue[i + 1]
      BY <3>1, TailFacts, Zenon
    <3>3. \A i \in 1..Len(Tail(queue)) : i + 1 \in 1..Len(queue)
      BY <3>1, <3>2, SMTT(60), Z3T(60)
    <3> QED
      BY <2>1, <3>1, <3>2, <3>3, ConstantFacts, SMTT(60), Z3T(60)
  <2>2. CASE ~(Len(queue) >= TX_QUEUE_FRAMES)
    BY <2>2, ConstantFacts, Seq_Len, SMTT(60), Z3T(60)
  <2> QED
    BY <2>1, <2>2, Zenon
<1>2. push(queue, entry) = Append(kept, entry)
  BY Zenon DEF push
<1> HIDE DEF kept
<1>3. /\ Append(kept, entry) \in Seq(Queued)
      /\ Len(Append(kept, entry)) = Len(kept) + 1
      /\ \A i \in 1..Len(kept) : Append(kept, entry)[i] = kept[i]
      /\ Append(kept, entry)[Len(kept) + 1] = entry
  BY <1>1, AppendFacts, ZenonT(60)
<1>4. Len(kept) \in Nat
  BY <1>1, Seq_Len, Zenon
<1>5. ASSUME NEW i \in 1..Len(Append(kept, entry))
      PROVE  i \in 1..Len(kept) \/ i = Len(kept) + 1
  BY <1>3, <1>4, SMTT(60), Z3T(60)
<1> QED
  BY <1>1, <1>2, <1>3, <1>4, <1>5, ConstantFacts, SMTT(60), Z3T(60)

LEMMA ForwardStatsType ==
    ASSUME StatsChOK, NEW event \in StatsEvent, forward_stats(event),
           UNCHANGED <<stats_open, mirror>>
    PROVE  StatsChOK'
<1>1. CASE stats_open /\ ~(Len(stats_ch) >= StatsQCap)
  BY <1>1, ConstantFacts, AppendFacts, Seq_Len, SMTT(60), Z3T(60) DEF forward_stats, StatsChOK
<1>2. CASE ~(stats_open /\ ~(Len(stats_ch) >= StatsQCap))
  BY <1>2, ConstantFacts, SMTT(60), Z3T(60) DEF forward_stats, StatsChOK
<1> QED
  BY <1>1, <1>2, Zenon

\* Inserting or deleting a slot, and joining or leaving a group.
LEMMA InsertSlotType ==
    ASSUME RoutingOK, NEW id \in Ids, NEW slot \in Slot, Len(slot.learn) <= LEARN_CAPACITY,
           routing' = Insert(routing, id, slot)
    PROVE  RoutingOK'
<1>1. /\ DOMAIN routing' = DOMAIN routing \cup {id}
      /\ routing' \in [DOMAIN routing' -> Slot]
      /\ routing'[id] = slot
      /\ \A x \in DOMAIN routing : x # id => routing'[x] = routing[x]
  BY Zenon DEF RoutingOK, Insert
<1>2. ASSUME NEW x \in DOMAIN routing'
      PROVE  Len(routing'[x].learn) <= LEARN_CAPACITY
  BY <1>1, Zenon DEF RoutingOK
<1> QED
  BY <1>1, <1>2, Zenon DEF RoutingOK

LEMMA DeleteSlotType ==
    ASSUME RoutingOK, NEW id, routing' = Delete(routing, id)
    PROVE  RoutingOK'
  BY Zenon DEF RoutingOK, Delete

LEMMA JoinType ==
    ASSUME GroupsOK, NEW g, groups' = join(g)
    PROVE  GroupsOK'
<1>1. CASE g \in DOMAIN groups
  <2>1. groups[g] \in Group
    BY <1>1, Zenon DEF GroupsOK
  <2>2. [groups[g] EXCEPT !.members = @ + 1] \in Group
    BY <2>1, SMTT(60), Z3T(60) DEF Group
  <2>3. groups' = [groups EXCEPT ![g] = [groups[g] EXCEPT !.members = @ + 1]]
    BY <1>1, Zenon DEF join
  <2>4. groups' \in [DOMAIN groups' -> Group] /\ DOMAIN groups' = DOMAIN groups
    BY <2>2, <2>3, Zenon DEF GroupsOK
  <2>5. \A h \in DOMAIN groups : groups'[h].learn = groups[h].learn
    BY <2>1, <2>3, ZenonT(60) DEF Group
  <2> QED
    BY <2>4, <2>5, Zenon DEF GroupsOK
<1>2. CASE g \notin DOMAIN groups
  <2> DEFINE new == [learn |-> <<>>, members |-> 1]
  <2>1. new \in Group /\ Len(new.learn) <= LEARN_CAPACITY
    BY ConstantFacts, SMTT(60), Z3T(60) DEF Group
  <2>2. groups' = Insert(groups, g, new)
    BY <1>2, Zenon DEF join
  <2> HIDE DEF new
  <2>3. /\ DOMAIN groups' = DOMAIN groups \cup {g}
        /\ groups' \in [DOMAIN groups' -> Group]
        /\ groups'[g] = new
        /\ \A x \in DOMAIN groups : x # g => groups'[x] = groups[x]
    BY <2>1, <2>2, Zenon DEF GroupsOK, Insert
  <2> QED
    BY <2>1, <2>3, Zenon DEF GroupsOK
<1> QED
  BY <1>1, <1>2, Zenon

LEMMA LeaveType ==
    ASSUME GroupsOK, NEW g, groups' = leave(g)
    PROVE  GroupsOK'
<1>1. CASE g \notin DOMAIN groups
  BY <1>1, Zenon DEF leave, GroupsOK
<1>2. CASE g \in DOMAIN groups /\ groups[g].members <= 1
  BY <1>2, Zenon DEF leave, GroupsOK, Delete
<1>3. CASE g \in DOMAIN groups /\ ~(groups[g].members <= 1)
  <2>1. groups[g] \in Group
    BY <1>3, Zenon DEF GroupsOK
  <2>2. [groups[g] EXCEPT !.members = @ - 1] \in Group
    BY <1>3, <2>1, SMTT(60), Z3T(60) DEF Group
  <2>3. groups' = [groups EXCEPT ![g] = [groups[g] EXCEPT !.members = @ - 1]]
    BY <1>3, Zenon DEF leave
  <2>4. groups' \in [DOMAIN groups' -> Group] /\ DOMAIN groups' = DOMAIN groups
    BY <2>2, <2>3, Zenon DEF GroupsOK
  <2>5. \A h \in DOMAIN groups : groups'[h].learn = groups[h].learn
    BY <2>1, <2>3, ZenonT(60) DEF Group
  <2> QED
    BY <2>4, <2>5, Zenon DEF GroupsOK
<1> QED
  BY <1>1, <1>2, <1>3, Zenon

\* Handling a lifecycle event.
LEMMA HandleEventType ==
    ASSUME TypeOK, NEW ev \in EventType, handle_event(ev), UNCHANGED <<stats_open, mirror>>
    PROVE  RoutingOK' /\ GroupsOK' /\ StatsOK' /\ StatsChOK'
<1> USE DEF TypeOK
<1>1. CASE HandleAdded(ev)
  <2>1. ev.id \in Ids /\ ev.spec \in Specs /\ ev.routable \in BOOLEAN
    BY <1>1, Zenon DEF HandleAdded, EventType
  <2> DEFINE slot == [routable |-> ev.routable, spec |-> ev.spec, learn |-> <<>>]
  <2>2. slot \in Slot /\ Len(slot.learn) <= LEARN_CAPACITY
    BY <2>1, ConstantFacts, SMTT(60), Z3T(60) DEF Slot
  <2>3. routing' = Insert(routing, ev.id, slot)
    BY <1>1, Zenon DEF HandleAdded
  <2>4. StatsOK'
    BY <1>1, Zenon DEF HandleAdded, StatsOK
  <2> HIDE DEF slot
  <2>5. RoutingOK'
    BY <2>1, <2>2, <2>3, InsertSlotType, Zenon
  <2>6. groups' = groups \/ \E g : groups' = join(g)
    BY <1>1, Zenon DEF HandleAdded
  <2>7. GroupsOK'
    BY <2>6, JoinType, TypeFrame, Zenon
  <2>8. [type |-> "Register", id |-> ev.id] \in StatsEvent
    BY <2>1, Zenon DEF StatsEvent
  <2>9. StatsChOK'
    BY <1>1, <2>8, ForwardStatsType, Zenon DEF HandleAdded
  <2> QED
    BY <2>4, <2>5, <2>7, <2>9, Zenon
<1>2. CASE HandleRemoved(ev)
  <2>1. ev.id \in Ids /\ FinalState(ev.reason) \in States
    BY <1>2, Zenon DEF HandleRemoved, EventType, FinalState, States
  <2>2. routing' = routing \/ routing' = Delete(routing, ev.id)
    BY <1>2, Zenon DEF HandleRemoved
  <2>3. RoutingOK'
    BY <2>2, DeleteSlotType, TypeFrame, Zenon
  <2>4. groups' = groups \/ \E g : groups' = leave(g)
    BY <1>2, Zenon DEF HandleRemoved
  <2>5. GroupsOK'
    BY <2>4, LeaveType, TypeFrame, Zenon
  <2>6. [stats[ev.id] EXCEPT !.state = FinalState(ev.reason)] \in EndpointStats
    BY <2>1, Zenon DEF StatsOK, EndpointStats
  <2>7. \/ stats' = stats
        \/ stats' = [stats EXCEPT ![ev.id] = [stats[ev.id] EXCEPT !.state = FinalState(ev.reason)]]
    BY <1>2, Zenon DEF HandleRemoved
  <2>8. StatsOK'
    BY <2>6, <2>7, Zenon DEF StatsOK
  <2>9. [type |-> "Finalize", id |-> ev.id] \in StatsEvent
    BY <2>1, Zenon DEF StatsEvent
  <2>10. StatsChOK'
    BY <1>2, <2>9, ForwardStatsType, Zenon DEF HandleRemoved
  <2> QED
    BY <2>3, <2>5, <2>8, <2>10, Zenon
<1> QED
  BY <1>1, <1>2, Zenon DEF handle_event

\* Expiry takes a prefix of the dedup window, and an insertion keeps its bound.
LEMMA UnexpiredType ==
    ASSUME DedupOK, NEW k \in 0..Len(dedup)
    PROVE  Unexpired(k) \in Seq(Frames) /\ Len(Unexpired(k)) <= DedupCapacity
<1>1. Len(dedup) \in Nat /\ Len(dedup) <= DedupCapacity
  BY Seq_Len, Zenon DEF DedupOK
<1>2. \A i \in (k + 1)..Len(dedup) : dedup[i] \in Frames
  BY <1>1, Seq_Len, SMTT(60), Z3T(60) DEF DedupOK
<1>3. /\ SubSeq(dedup, k + 1, Len(dedup)) \in Seq(Frames)
      /\ Len(SubSeq(dedup, k + 1, Len(dedup))) =
            IF k + 1 <= Len(dedup) THEN Len(dedup) - (k + 1) + 1 ELSE 0
  BY <1>1, <1>2, Seq_SubSeq, SMTT(60), Z3T(60)
<1>4. Unexpired(k) = SubSeq(dedup, k + 1, Len(dedup))
  BY Zenon DEF Unexpired
<1> HIDE DEF Unexpired
<1> QED
  BY <1>1, <1>3, <1>4, ConstantFacts, SMTT(60), Z3T(60)

LEMMA DedupInsertType ==
    ASSUME NEW ring \in Seq(Frames), Len(ring) <= DedupCapacity, NEW frame \in Frames,
           dedup' = Append(IF Len(ring) >= DedupCapacity THEN Tail(ring) ELSE ring, frame)
    PROVE  DedupOK'
<1> DEFINE kept == IF Len(ring) >= DedupCapacity THEN Tail(ring) ELSE ring
<1>1. kept \in Seq(Frames) /\ Len(kept) < DedupCapacity
  BY TailFacts, Seq_Len, Seq_Empty, ConstantFacts, SMTT(60), Z3T(60)
<1>2. dedup' = Append(kept, frame)
  BY Zenon
<1> HIDE DEF kept
<1> QED
  BY <1>1, <1>2, AppendFacts, Seq_Len, ConstantFacts, SMTT(60), Z3T(60) DEF DedupOK

\* The table a source learns into, after the touch.
LearnedBy(rf) ==
    touch(IF GroupOf(rf.endpoint_id) = NoGroup THEN routing[rf.endpoint_id].learn
          ELSE groups[GroupOf(rf.endpoint_id)].learn, Source(rf.frame), LEARN_CAPACITY)

LEMMA LearnedType ==
    ASSUME TypeOK, NEW rf \in RouterFrame, Routable(rf.endpoint_id),
           \/ GroupOf(rf.endpoint_id) = NoGroup
           \/ GroupOf(rf.endpoint_id) \in DOMAIN groups
    PROVE  /\ LearnedBy(rf) \in Seq(Nodes)
           /\ Len(LearnedBy(rf)) \in Nat /\ Len(LearnedBy(rf)) <= LEARN_CAPACITY
           /\ contains(LearnedBy(rf), Source(rf.frame))
<1> DEFINE table == IF GroupOf(rf.endpoint_id) = NoGroup THEN routing[rf.endpoint_id].learn
                    ELSE groups[GroupOf(rf.endpoint_id)].learn
<1>1. table \in Seq(Nodes) /\ Len(table) <= LEARN_CAPACITY
  <2>1. CASE GroupOf(rf.endpoint_id) = NoGroup
    BY <2>1, Zenon DEF TypeOK, RoutingOK, Slot, Routable
  <2>2. CASE GroupOf(rf.endpoint_id) # NoGroup
    BY <2>2, Zenon DEF TypeOK, GroupsOK, Group
  <2> QED
    BY <2>1, <2>2, Zenon
<1>2. Source(rf.frame) \in Nodes
  BY Zenon DEF Nodes, RouterFrame
<1>3. LearnedBy(rf) = touch(table, Source(rf.frame), LEARN_CAPACITY)
  BY Zenon DEF LearnedBy
<1> HIDE DEF table
<1> QED
  BY <1>1, <1>2, <1>3, TouchFacts, ConstantFacts, Seq_Len, SMTT(60), Z3T(60)

LEMMA DeliveredType ==
    ASSUME TxOK, NEW rf \in RouterFrame, NEW gr, tx' = Delivered(rf, gr)
    PROVE  TxOK'
<1> DEFINE entry == [src |-> rf.endpoint_id, frame |-> rf.frame]
<1>1. entry \in Queued
  BY Zenon DEF RouterFrame, Queued
<1>2. ASSUME NEW d \in Ids
      PROVE  tx'[d] \in Seq(Queued) /\ Len(tx'[d]) <= TX_QUEUE_FRAMES
  <2>1. tx'[d] = tx[d] \/ tx'[d] = push(tx[d], entry)
    BY Zenon DEF Delivered
  <2>2. tx[d] \in Seq(Queued) /\ Len(tx[d]) <= TX_QUEUE_FRAMES
    BY Zenon DEF TxOK
  <2> QED
    BY <1>1, <2>1, <2>2, PushFacts, Zenon
<1>3. tx' = [d \in Ids |-> tx'[d]]
  BY Zenon DEF Delivered
<1> QED
  BY <1>2, <1>3, Zenon DEF TxOK

LEMMA CountedType ==
    ASSUME StatsOK, NEW rf, NEW gr, NEW learned \in Nat, stats' = Counted(rf, gr, learned)
    PROVE  StatsOK'
<1>1. ASSUME NEW d \in Ids
      PROVE  stats'[d] \in EndpointStats
  <2> DEFINE a == IF d = rf.endpoint_id THEN learned ELSE stats[d].learn_entries
             b == IF Verdict(d, rf, gr) = "OutFilterBlocked"
                  THEN stats[d].out_filter_drops + 1 ELSE stats[d].out_filter_drops
             c == IF Verdict(d, rf, gr) = "Admit" /\ Len(tx[d]) >= TX_QUEUE_FRAMES
                  THEN stats[d].dropped_tx + 1 ELSE stats[d].dropped_tx
  <2>1. stats[d] \in EndpointStats
    BY Zenon DEF StatsOK
  <2>2. a \in Nat /\ b \in Nat /\ c \in Nat
    BY <2>1, SMTT(60), Z3T(60) DEF EndpointStats
  <2>3. stats'[d] = [stats[d] EXCEPT !.learn_entries = a, !.out_filter_drops = b,
                                     !.dropped_tx = c]
    BY Zenon DEF Counted
  <2> HIDE DEF a, b, c
  <2> QED
    BY <2>1, <2>2, <2>3, ZenonT(60) DEF EndpointStats
<1>2. stats' = [d \in Ids |-> stats'[d]]
  BY Zenon DEF Counted
<1> QED
  BY <1>1, <1>2, Zenon DEF StatsOK

\* Handling a frame.
LEMMA HandleFrameType ==
    ASSUME TypeOK, NEW rf \in RouterFrame, handle_frame(rf)
    PROVE  RoutingOK' /\ GroupsOK' /\ DedupOK' /\ TxOK' /\ StatsOK'
<1> USE DEF TypeOK
<1> DEFINE src == rf.endpoint_id
<1>1. CASE FrameFromNowhere(rf)
  BY <1>1, TypeFrame, Zenon DEF FrameFromNowhere, registry
<1>2. CASE FrameDuplicate(rf)
  <2>1. DedupOK'
    BY <1>2, UnexpiredType, Zenon DEF FrameDuplicate, DedupOK
  <2>2. [stats[src] EXCEPT !.dedup_drops = @ + 1] \in EndpointStats /\ src \in Ids
    BY SMTT(60), Z3T(60) DEF StatsOK, EndpointStats, RouterFrame
  <2>3. StatsOK'
    BY <1>2, <2>2, Zenon DEF FrameDuplicate, StatsOK
  <2> QED
    BY <1>2, <2>1, <2>3, TypeFrame, Zenon DEF FrameDuplicate
<1>3. CASE FrameFresh(rf)
  <2>1. rf.frame \in Frames /\ src \in Ids
    BY Zenon DEF RouterFrame
  <2>2. DedupOK'
    <3>1. PICK k \in 0..Len(dedup) :
             dedup' = IF ~DedupEnabled THEN dedup
                      ELSE Append(IF Len(Unexpired(k)) >= DedupCapacity THEN Tail(Unexpired(k))
                                  ELSE Unexpired(k), rf.frame)
      BY <1>3, Zenon DEF FrameFresh
    <3>2. Unexpired(k) \in Seq(Frames) /\ Len(Unexpired(k)) <= DedupCapacity
      BY <3>1, UnexpiredType, Zenon
    <3> QED
      BY <2>1, <3>1, <3>2, DedupInsertType, Zenon DEF DedupOK
  <2>3. CASE GroupOf(src) # NoGroup /\ GroupOf(src) \notin DOMAIN groups
    BY <1>3, <2>2, <2>3, TypeFrame, Zenon DEF FrameFresh, LearnAndDispatch
  <2>4. CASE GroupOf(src) = NoGroup \/ GroupOf(src) \in DOMAIN groups
    <3>1. /\ routing' = IF GroupOf(src) = NoGroup
                        THEN [routing EXCEPT ![src].learn = LearnedBy(rf)] ELSE routing
          /\ groups' = IF GroupOf(src) = NoGroup THEN groups
                       ELSE [groups EXCEPT ![GroupOf(src)].learn = LearnedBy(rf)]
          /\ tx' = Delivered(rf, groups')
          /\ stats' = Counted(rf, groups', Len(LearnedBy(rf)))
      BY <1>3, <2>4, Zenon DEF FrameFresh, LearnAndDispatch, LearnedBy
    <3>2. src \in DOMAIN routing
      BY <1>3, Zenon DEF FrameFresh, Routable
    <3>3. /\ LearnedBy(rf) \in Seq(Nodes)
          /\ Len(LearnedBy(rf)) \in Nat /\ Len(LearnedBy(rf)) <= LEARN_CAPACITY
      BY <1>3, <2>4, LearnedType, Zenon DEF FrameFresh
    <3> HIDE DEF LearnedBy
    <3>4. RoutingOK'
      <4>1. [routing[src] EXCEPT !.learn = LearnedBy(rf)] \in Slot
        BY <3>2, <3>3, ZenonT(60) DEF RoutingOK, Slot
      <4>2. CASE GroupOf(src) = NoGroup
        <5>1. routing' = [routing EXCEPT ![src] = [routing[src] EXCEPT !.learn = LearnedBy(rf)]]
          BY <3>1, <4>2, Zenon
        <5>2. routing'[src].learn = LearnedBy(rf)
          BY <3>2, <5>1, Zenon DEF RoutingOK, Slot
        <5> QED
          BY <3>3, <4>1, <5>1, <5>2, Zenon DEF RoutingOK
      <4> QED
        BY <3>1, <4>2, TypeFrame, Zenon
    <3>5. GroupsOK'
      <4>1. CASE GroupOf(src) # NoGroup
        <5>1. groups[GroupOf(src)] \in Group
          BY <2>4, <4>1, Zenon DEF GroupsOK
        <5>2. [groups[GroupOf(src)] EXCEPT !.learn = LearnedBy(rf)] \in Group
          BY <3>3, <5>1, Zenon DEF Group
        <5>3. groups' = [groups EXCEPT ![GroupOf(src)] =
                            [groups[GroupOf(src)] EXCEPT !.learn = LearnedBy(rf)]]
          BY <3>1, <4>1, Zenon
        <5>4. groups'[GroupOf(src)].learn = LearnedBy(rf)
          BY <2>4, <4>1, <5>1, <5>3, Zenon DEF GroupsOK, Group
        <5> QED
          BY <3>3, <5>2, <5>3, <5>4, Zenon DEF GroupsOK
      <4> QED
        BY <3>1, <4>1, TypeFrame, Zenon
    <3>6. TxOK'
      BY <3>1, DeliveredType, Zenon
    <3>7. StatsOK'
      BY <3>1, <3>3, CountedType, Zenon
    <3> QED
      BY <2>2, <3>4, <3>5, <3>6, <3>7, Zenon
  <2> QED
    BY <2>3, <2>4, Zenon
<1> QED
  BY <1>1, <1>2, <1>3, Zenon DEF handle_frame

\* The steps of the router.
LEMMA RouteType ==
    ASSUME TypeOK, Route
    PROVE  TypeOK'
<1> USE DEF TypeOK
<1>0. RouterNext /\ UNCHANGED envVars
  BY Zenon DEF Route
<1>1. CASE PollCancel \/ NoEvent \/ NoFrame \/ DrainedEvents
  <2>1. ControlOK'
    BY <1>1, Zenon DEF PollCancel, NoEvent, NoFrame, DrainedEvents, ControlOK
  <2> QED
    BY <1>0, <1>1, <2>1, TypeFrame, Zenon
    DEF PollCancel, NoEvent, NoFrame, DrainedEvents, channels, registry, envVars
<1>2. CASE TakeEvent
  <2>1. /\ Head(event_ch) \in EventType /\ Tail(event_ch) \in Seq(EventType)
        /\ Len(Tail(event_ch)) = Len(event_ch) - 1 /\ Len(event_ch) \in Nat
    BY <1>2, TailFacts, Seq_Len, Zenon DEF TakeEvent, EventsOK
  <2>2. EventsOK'
    BY <1>2, <2>1, ConstantFacts, SMTT(60), Z3T(60) DEF TakeEvent, EventsOK
  <2>3. UNCHANGED <<stats_open, mirror, dedup, tx>>
    BY <1>0, <1>2, Zenon DEF TakeEvent, envVars, handle_event
  <2>4. RoutingOK' /\ GroupsOK' /\ StatsOK' /\ StatsChOK'
    BY <1>2, <2>1, <2>3, HandleEventType, Zenon DEF TakeEvent
  <2> QED
    BY <1>0, <1>2, <2>2, <2>3, <2>4, TypeFrame, Zenon DEF TakeEvent, envVars
<1>3. CASE TakeFrame
  <2>1. /\ Head(frame_ch) \in RouterFrame /\ Tail(frame_ch) \in Seq(RouterFrame)
        /\ Len(Tail(frame_ch)) = Len(frame_ch) - 1 /\ Len(frame_ch) \in Nat
    BY <1>3, TailFacts, Seq_Len, Zenon DEF TakeFrame, FramesOK
  <2>2. FramesOK'
    BY <1>0, <1>3, <2>1, ConstantFacts, SMTT(60), Z3T(60) DEF TakeFrame, FramesOK, envVars
  <2>3. ControlOK'
    BY <1>3, Zenon DEF TakeFrame, ControlOK
  <2>4. RoutingOK' /\ GroupsOK' /\ DedupOK' /\ TxOK' /\ StatsOK'
    BY <1>3, <2>1, HandleFrameType, Zenon DEF TakeFrame
  <2> QED
    BY <1>0, <1>3, <2>2, <2>3, <2>4, TypeFrame, Zenon DEF TakeFrame, handle_frame, envVars
<1>4. ASSUME NEW id \in Ids, SweepOne(id)
      PROVE  TypeOK'
  <2>1. RoutingOK'
    BY <1>4, DeleteSlotType, Zenon DEF SweepOne
  <2>2. [stats[id] EXCEPT !.state = "Down"] \in EndpointStats
    BY ZenonT(60) DEF StatsOK, EndpointStats, States
  <2>3. StatsOK'
    BY <1>4, <2>2, Zenon DEF SweepOne, StatsOK
  <2>4. [type |-> "Finalize", id |-> id] \in StatsEvent
    BY Zenon DEF StatsEvent
  <2>5. StatsChOK'
    BY <1>0, <1>4, <2>4, ForwardStatsType, Zenon DEF SweepOne, envVars
  <2> QED
    BY <1>0, <1>4, <2>1, <2>3, <2>5, TypeFrame, Zenon DEF SweepOne, envVars
<1>5. CASE SweepDone
  <2>1. event_ch' = <<>> /\ frame_ch' = <<>> /\ sent' = sent
    BY <1>0, <1>5, Zenon DEF SweepDone, envVars
  <2>2. EventsOK' /\ FramesOK'
    BY <2>1, Seq_Empty, ConstantFacts, SMTT(60), Z3T(60) DEF EventsOK, FramesOK
  <2>3. ControlOK'
    BY <1>5, Zenon DEF SweepDone, ControlOK
  <2> QED
    BY <1>0, <1>5, <2>2, <2>3, TypeFrame, Zenon DEF SweepDone, registry, envVars
<1> QED
  BY <1>0, <1>1, <1>2, <1>3, <1>4, <1>5, Zenon DEF RouterNext

LEMMA TypeStep == TypeOK /\ [Next]_vars => TypeOK'
<1>1. ASSUME TypeOK, UNCHANGED vars
      PROVE  TypeOK'
  BY <1>1, TypeFrame, Zenon DEF vars, routerVars, channels, registry, envVars, TypeOK
<1> QED
  BY <1>1, RouteType, EnvType, Zenon DEF Next

\* Every variable of the router and its environment keeps its type, and every
\* channel, queue, learn table and dedup window its capacity, for any set of
\* endpoints, frames and capacities.
THEOREM TypeCorrect == Spec => []TypeOK
  BY InitType, TypeStep, PTL DEF Spec

-----------------------------------------------------------------------------
(* The queues. *)

Taken == sent - Len(frame_ch)

\* What endpoint id holds or has counted as dropped.
Charged(id) == stats[id].dropped_tx + Len(tx[id]) + InHand(id)

LEMMA ChargeTypes ==
    ASSUME TypeOK, NEW id \in Ids
    PROVE  /\ stats[id].dropped_tx \in Nat
           /\ tx[id] \in Seq(Queued) /\ Len(tx[id]) \in Nat
           /\ frame_ch \in Seq(RouterFrame) /\ Len(frame_ch) \in Nat
           /\ sent \in Nat /\ InHand(id) \in {0, 1}
<1>1. tx[id] \in Seq(Queued) /\ frame_ch \in Seq(RouterFrame) /\ sent \in Nat
  BY ConstantFacts, Zenon DEF TypeOK, TxOK, FramesOK
<1>2. stats[id].dropped_tx \in Nat
  BY Zenon DEF TypeOK, StatsOK, EndpointStats
<1> QED
  BY <1>1, <1>2, Seq_Len, Zenon DEF InHand

\* A push adds one frame, or displaces one.
LEMMA PushLength ==
    ASSUME NEW queue \in Seq(Queued), NEW entry \in Queued
    PROVE  Len(push(queue, entry)) =
             IF Len(queue) >= TX_QUEUE_FRAMES THEN Len(queue) ELSE Len(queue) + 1
<1>1. CASE Len(queue) >= TX_QUEUE_FRAMES
  <2>1. queue # <<>> /\ Len(queue) \in Nat
    BY <1>1, ConstantFacts, Seq_Len, Seq_Empty, SMTT(60), Z3T(60)
  <2>2. Tail(queue) \in Seq(Queued) /\ Len(Tail(queue)) = Len(queue) - 1
    BY <2>1, TailFacts, Zenon
  <2>3. Len(Append(Tail(queue), entry)) = Len(queue) - 1 + 1
    BY <2>2, AppendFacts, SMTT(60), Z3T(60)
  <2>4. push(queue, entry) = Append(Tail(queue), entry)
    BY <1>1, Zenon DEF push
  <2> QED
    BY <1>1, <2>1, <2>3, <2>4, SMTT(60), Z3T(60)
<1>2. CASE ~(Len(queue) >= TX_QUEUE_FRAMES)
  <2>1. push(queue, entry) = Append(queue, entry)
    BY <1>2, Zenon DEF push
  <2> QED
    BY <1>2, <2>1, AppendFacts, SMTT(60), Z3T(60)
<1> QED
  BY <1>1, <1>2, Zenon

\* A frame the router handles charges a destination at most once.
LEMMA FrameCharges ==
    ASSUME TypeOK, NEW rf \in RouterFrame, handle_frame(rf), UNCHANGED writing, NEW id \in Ids
    PROVE  Charged(id)' <= Charged(id) + 1
<1>0. InHand(id)' = InHand(id)
  BY Zenon DEF InHand
<1>1. CASE tx' = tx /\ stats'[id].dropped_tx = stats[id].dropped_tx
  BY <1>0, <1>1, ChargeTypes, SMTT(60), Z3T(60) DEF Charged
<1>2. ASSUME NEW gr, NEW learned, tx' = Delivered(rf, gr), stats' = Counted(rf, gr, learned)
      PROVE  Charged(id)' <= Charged(id) + 1
  <2>1. PICK entry \in Queued : entry = [src |-> rf.endpoint_id, frame |-> rf.frame]
    BY Zenon DEF RouterFrame, Queued
  <2>2. tx'[id] = IF Verdict(id, rf, gr) = "Admit" THEN push(tx[id], entry) ELSE tx[id]
    BY <1>2, <2>1, Zenon DEF Delivered
  <2>3. stats'[id].dropped_tx =
           IF Verdict(id, rf, gr) = "Admit" /\ Len(tx[id]) >= TX_QUEUE_FRAMES
           THEN stats[id].dropped_tx + 1 ELSE stats[id].dropped_tx
    <3>1. stats[id] \in EndpointStats
      BY Zenon DEF TypeOK, StatsOK
    <3> QED
      BY <1>2, <3>1, Zenon DEF Counted, EndpointStats
  <2>4. Len(push(tx[id], entry)) =
           IF Len(tx[id]) >= TX_QUEUE_FRAMES THEN Len(tx[id]) ELSE Len(tx[id]) + 1
    BY <2>1, ChargeTypes, PushLength, Zenon
  <2>5. PICK d \in Nat, n \in Nat, h \in Nat :
           d = stats[id].dropped_tx /\ n = Len(tx[id]) /\ h = InHand(id)
    BY ChargeTypes, Zenon
  <2>6. CASE Verdict(id, rf, gr) = "Admit" /\ n >= TX_QUEUE_FRAMES
    <3>1. stats'[id].dropped_tx = d + 1 /\ Len(tx'[id]) = n
      BY <2>2, <2>3, <2>4, <2>5, <2>6, Zenon
    <3> QED
      BY <1>0, <2>5, <3>1, SMTT(60), Z3T(60) DEF Charged
  <2>7. CASE Verdict(id, rf, gr) = "Admit" /\ ~(n >= TX_QUEUE_FRAMES)
    <3>1. stats'[id].dropped_tx = d /\ Len(tx'[id]) = n + 1
      BY <2>2, <2>3, <2>4, <2>5, <2>7, Zenon
    <3> QED
      BY <1>0, <2>5, <3>1, SMTT(60), Z3T(60) DEF Charged
  <2>8. CASE Verdict(id, rf, gr) # "Admit"
    <3>1. stats'[id].dropped_tx = d /\ Len(tx'[id]) = n
      BY <2>2, <2>3, <2>5, <2>8, Zenon
    <3> QED
      BY <1>0, <2>5, <3>1, SMTT(60), Z3T(60) DEF Charged
  <2> QED
    BY <2>6, <2>7, <2>8, Zenon
<1>3. ASSUME NEW src \in Ids, tx' = tx,
             stats' = [stats EXCEPT ![src].dedup_drops = @ + 1]
      PROVE  tx' = tx /\ stats'[id].dropped_tx = stats[id].dropped_tx
  <2>1. stats[id] \in EndpointStats /\ stats \in [Ids -> EndpointStats]
    BY Zenon DEF TypeOK, StatsOK
  <2> QED
    BY <1>3, <2>1, Zenon DEF EndpointStats
<1>4. rf.endpoint_id \in Ids
  BY Zenon DEF RouterFrame
<1> QED
  BY <1>1, <1>2, <1>3, <1>4, Zenon
  DEF handle_frame, FrameFromNowhere, FrameDuplicate, FrameFresh, LearnAndDispatch

\* A store of the state, or no store at all, charges nothing.
LEMMA StateCharges ==
    ASSUME TypeOK, NEW id \in Ids, tx' = tx, writing' = writing,
           \/ stats' = stats
           \/ \E x \in Ids : \E state : stats' = [stats EXCEPT ![x].state = state]
    PROVE  Charged(id)' = Charged(id)
<1>1. stats[id] \in EndpointStats /\ stats \in [Ids -> EndpointStats]
  BY Zenon DEF TypeOK, StatsOK
<1>2. ASSUME NEW x \in Ids, NEW state, stats' = [stats EXCEPT ![x].state = state]
      PROVE  stats'[id].dropped_tx = stats[id].dropped_tx
  BY <1>1, <1>2, Zenon DEF EndpointStats
<1> QED
  BY <1>2, Zenon DEF Charged, InHand

\* The frames taken never become fewer.
LEMMA TakenGrows ==
    ASSUME TypeOK, [Next]_vars
    PROVE  Taken \in Int /\ Taken' \in Int /\ Taken' >= Taken /\ (TakeFrame => Taken' >= Taken + 1)
<1>1. frame_ch \in Seq(RouterFrame) /\ Len(frame_ch) \in Nat /\ sent \in Nat
  BY Seq_Len, Zenon DEF TypeOK, FramesOK
<1>2. CASE UNCHANGED <<sent, frame_ch>> /\ ~TakeFrame
  BY <1>1, <1>2, SMTT(60), Z3T(60) DEF Taken
<1>3. CASE TakeFrame /\ sent' = sent
  <2>1. Len(frame_ch') = Len(frame_ch) - 1
    BY <1>1, <1>3, TailFacts, Zenon DEF TakeFrame
  <2> QED
    BY <1>1, <1>3, <2>1, SMTT(60), Z3T(60) DEF Taken
<1>4. ASSUME NEW id \in Ids, NEW frame \in Frames, Forward(id, frame)
      PROVE  Taken' = Taken /\ ~TakeFrame
  <2>1. [endpoint_id |-> id, frame |-> frame] \in RouterFrame
    BY Zenon DEF RouterFrame
  <2>2. Len(frame_ch') = Len(frame_ch) + 1 /\ sent' = sent + 1
    BY <1>1, <1>4, <2>1, AppendFacts, ZenonT(60) DEF Forward
  <2>3. pc' = pc
    BY <1>4, Zenon DEF Forward
  <2> QED
    BY <1>1, <2>2, <2>3, SMTT(60), Z3T(60) DEF Taken, TakeFrame
<1>5. CASE SweepDone /\ sent' = sent
  <2>1. Len(frame_ch') = 0
    BY <1>5, Zenon DEF SweepDone
  <2>2. ~TakeFrame
    BY <1>5, Zenon DEF SweepDone, TakeFrame
  <2> QED
    BY <1>1, <1>5, <2>1, <2>2, SMTT(60), Z3T(60) DEF Taken
<1>6. \/ UNCHANGED <<sent, frame_ch>>
      \/ TakeFrame /\ sent' = sent
      \/ \E id \in Ids, frame \in Frames : Forward(id, frame)
      \/ SweepDone /\ sent' = sent
  BY ZenonT(60) DEF Next, vars, routerVars, channels, registry, envVars, SpawnEndpoint, Cancel,
         StatsRecv, StatsExit, Endpoint, AdmitPeer, Announce, AnnounceFails, Pop, Drain,
         Sent, SendFails, StoreState, Depart, Exit, Route, RouterNext, PollCancel, TakeEvent,
         NoEvent, NoFrame, DrainedEvents, SweepOne
<1>7. TakeFrame => sent' = sent
  BY ZenonT(60)
     DEF Next, vars, routerVars, channels, envVars, SpawnEndpoint, Cancel, StatsRecv, StatsExit,
         Endpoint, AdmitPeer, Announce, AnnounceFails, Forward, Pop, Drain, Sent, SendFails,
         StoreState, Depart, Exit, Route, TakeFrame
<1>8. Taken \in Int
  BY <1>1, SMTT(60), Z3T(60) DEF Taken
<1> QED
  BY <1>2, <1>3, <1>4, <1>5, <1>6, <1>7, <1>8, SMTT(60), Z3T(60)

LEMMA DropsStep == TypeOK /\ DropsCountedOnce /\ [Next]_vars => DropsCountedOnce'
<1> SUFFICES ASSUME TypeOK, DropsCountedOnce, [Next]_vars, NEW id \in Ids
             PROVE  Charged(id)' <= Taken'
  BY Zenon DEF DropsCountedOnce, Charged, Taken
<1>1. Charged(id) <= Taken /\ Charged(id) \in Nat
  BY ChargeTypes, SMTT(60), Z3T(60) DEF DropsCountedOnce, Charged, Taken
<1>2. Taken \in Int /\ Taken' \in Int /\ Taken' >= Taken /\ (TakeFrame => Taken' >= Taken + 1)
  BY TakenGrows, Zenon
<1>3. CASE Charged(id)' = Charged(id)
  BY <1>1, <1>2, <1>3, SMTT(60), Z3T(60)
<1>4. CASE TakeFrame /\ UNCHANGED envVars
  <2>0. writing' = writing
    BY <1>4, Zenon DEF envVars
  <2>1. PICK rf \in RouterFrame : handle_frame(rf)
    BY <1>4, TailFacts, Zenon DEF TakeFrame, TypeOK, FramesOK
  <2>2. Charged(id)' <= Charged(id) + 1
    BY <2>0, <2>1, FrameCharges, Zenon
  <2>3. TypeOK'
    BY TypeStep, Zenon
  <2>4. Charged(id)' \in Nat
    <3>1. stats'[id].dropped_tx \in Nat
      BY <2>3, Zenon DEF TypeOK, StatsOK, EndpointStats
    <3>2. tx'[id] \in Seq(Queued)
      BY <2>3, Zenon DEF TypeOK, TxOK
    <3>3. InHand(id)' \in {0, 1}
      BY Zenon DEF InHand
    <3> QED
      BY <3>1, <3>2, <3>3, Seq_Len, SMTT(60), Z3T(60) DEF Charged
  <2> QED
    BY <1>1, <1>2, <1>4, <2>2, <2>4, SMTT(60), Z3T(60)
<1>5. ASSUME NEW x \in Ids, Pop(x)
      PROVE  Charged(id)' <= Charged(id) /\ Charged(id)' \in Nat
  <2>1. /\ stats' = stats /\ tx' = [tx EXCEPT ![x] = Tail(@)] /\ tx[x] # <<>>
        /\ x \notin writing /\ (writing' = writing \/ writing' = writing \cup {x})
    BY <1>5, Zenon DEF Pop
  <2>2. CASE x = id
    <3>1. Len(tx'[id]) = Len(tx[id]) - 1 /\ Len(tx[id]) # 0
      BY <2>1, <2>2, ChargeTypes, TailFacts, Seq_Empty, Zenon DEF TypeOK, TxOK
    <3>2. InHand(id)' \in {0, 1} /\ InHand(id) = 0
      BY <2>1, <2>2, Zenon DEF InHand
    <3>3. stats'[id].dropped_tx = stats[id].dropped_tx
      BY <2>1, Zenon
    <3> QED
      BY <3>1, <3>2, <3>3, ChargeTypes, SMTT(60), Z3T(60) DEF Charged
  <2>3. CASE x # id
    <3>1. tx'[id] = tx[id] /\ stats'[id] = stats[id]
      BY <2>1, <2>3, Zenon DEF TypeOK, TxOK
    <3>2. InHand(id)' = InHand(id)
      BY <2>1, <2>3, Zenon DEF InHand
    <3> QED
      BY <1>1, <3>1, <3>2, SMTT(60), Z3T(60) DEF Charged
  <2> QED
    BY <1>1, <2>2, <2>3, Zenon
<1>6. ASSUME NEW x \in Ids, Drain(x)
      PROVE  Charged(id)' = Charged(id)
  <2>1. /\ stats' = [stats EXCEPT ![x].dropped_tx = @ + Len(tx[x])]
        /\ tx' = [tx EXCEPT ![x] = <<>>]
    BY <1>6, Zenon DEF Drain
  <2>0. InHand(id)' = InHand(id)
    BY <1>6, Zenon DEF Drain, InHand, envVars
  <2>2. stats[id] \in EndpointStats /\ stats \in [Ids -> EndpointStats]
    BY Zenon DEF TypeOK, StatsOK
  <2>3. CASE x = id
    <3>1. Len(tx'[id]) = 0
      BY <2>1, <2>3, Zenon DEF TypeOK, TxOK
    <3>2. stats'[id].dropped_tx = stats[id].dropped_tx + Len(tx[id])
      BY <2>1, <2>2, <2>3, Zenon DEF EndpointStats
    <3> QED
      BY <2>0, <3>1, <3>2, ChargeTypes, SMTT(60), Z3T(60) DEF Charged
  <2>4. CASE x # id
    BY <2>0, <2>1, <2>2, <2>4, ZenonT(60) DEF Charged, TypeOK, TxOK
  <2> QED
    BY <2>3, <2>4, Zenon
<1>7. ASSUME NEW x \in Ids, SendFails(x)
      PROVE  Charged(id)' = Charged(id)
  <2>1. /\ stats' = [stats EXCEPT ![x].dropped_tx = @ + 1] /\ tx' = tx
        /\ x \in writing /\ writing' = writing \ {x}
    BY <1>7, Zenon DEF SendFails
  <2>2. stats[id] \in EndpointStats /\ stats \in [Ids -> EndpointStats]
    BY Zenon DEF TypeOK, StatsOK
  <2>3. CASE x = id
    <3>1. stats'[id].dropped_tx = stats[id].dropped_tx + 1
      BY <2>1, <2>2, <2>3, Zenon DEF EndpointStats
    <3>2. InHand(id) = 1 /\ InHand(id)' = 0
      BY <2>1, <2>3, Zenon DEF InHand
    <3>3. tx'[id] = tx[id]
      BY <2>1, Zenon
    <3>4. stats[id].dropped_tx \in Nat /\ Len(tx[id]) \in Nat
      BY ChargeTypes, Zenon
    <3> QED
      BY <3>1, <3>2, <3>3, <3>4, SMTT(60), Z3T(60) DEF Charged
  <2>4. CASE x # id
    <3>1. stats'[id].dropped_tx = stats[id].dropped_tx
      BY <2>1, <2>2, <2>4, Zenon
    <3>2. InHand(id)' = InHand(id)
      BY <2>1, <2>4, Zenon DEF InHand
    <3> QED
      BY <2>1, <3>1, <3>2, Zenon DEF Charged
  <2> QED
    BY <2>3, <2>4, Zenon
<1>9. ASSUME NEW x \in Ids, Sent(x)
      PROVE  Charged(id)' <= Charged(id) /\ Charged(id)' \in Nat
  <2>1. stats' = stats /\ tx' = tx /\ writing' = writing \ {x}
    BY <1>9, Zenon DEF Sent, routerVars
  <2>2. InHand(id)' \in {0, 1} /\ InHand(id)' <= InHand(id)
    BY <2>1, SMTT(60), Z3T(60) DEF InHand
  <2> QED
    BY <2>1, <2>2, ChargeTypes, SMTT(60), Z3T(60) DEF Charged
<1>8. \/ TakeFrame /\ UNCHANGED envVars
      \/ \E x \in Ids : Pop(x) \/ Drain(x) \/ Sent(x) \/ SendFails(x)
      \/ /\ tx' = tx /\ writing' = writing
         /\ \/ stats' = stats
            \/ \E x \in Ids : \E state : stats' = [stats EXCEPT ![x].state = state]
  <2>1. CASE TakeEvent /\ UNCHANGED envVars
    <3>1. writing' = writing
      BY <2>1, Zenon DEF envVars
    <3>2. /\ tx' = tx
          /\ \/ stats' = stats
             \/ \E x \in Ids : \E state : stats' = [stats EXCEPT ![x].state = state]
      <4> DEFINE ev == Head(event_ch)
      <4>1. event_ch \in Seq(EventType) /\ event_ch # <<>>
        BY <2>1, Zenon DEF TakeEvent, TypeOK, EventsOK
      <4>2. ev \in EventType
        BY <4>1, TailFacts, Zenon
      <4>3. ev.id \in Ids
        BY <4>2, Zenon DEF EventType
      <4>4. tx' = tx /\ (HandleAdded(ev) \/ HandleRemoved(ev))
        BY <2>1, Zenon DEF TakeEvent, handle_event
      <4> HIDE DEF ev
      <4> QED
        BY <4>3, <4>4, Zenon DEF HandleAdded, HandleRemoved
    <3> QED
      BY <3>1, <3>2, Zenon
  <2>2. CASE \E x \in Ids : AdmitPeer(x)
    <3>1. next_id \in Ids
      BY <2>2, SMTT(60), Z3T(60) DEF AdmitPeer, Alloc, TypeOK, EndpointsOK, Ids
    <3>2. /\ tx' = tx /\ writing' = writing
          /\ stats' = [stats EXCEPT ![next_id].state = "Connected"]
      BY <2>2, Zenon DEF AdmitPeer
    <3> QED
      BY <3>1, <3>2, Zenon
  <2> QED
    BY <2>1, <2>2, ZenonT(60)
    DEF Next, vars, routerVars, channels, registry, envVars, SpawnEndpoint, Cancel,
        StatsRecv, StatsExit, Endpoint, Announce, AnnounceFails, Forward, StoreState,
        Depart, Exit, Route, RouterNext, PollCancel, NoEvent, NoFrame, DrainedEvents,
        SweepOne, SweepDone
<1> QED
  BY <1>1, <1>2, <1>3, <1>4, <1>5, <1>6, <1>7, <1>8, <1>9, StateCharges, SMTT(60), Z3T(60)

\* The drop counters are honest for any number of endpoints and any queue size: the
\* overflow of push, the drains and the failed sends never count a frame twice.
THEOREM DropsCounted == Spec => []DropsCountedOnce
<1>1. Init => DropsCountedOnce
  <2> SUFFICES ASSUME Init, NEW id \in Ids
               PROVE  stats[id].dropped_tx + Len(tx[id]) + InHand(id) <= sent - Len(frame_ch)
    BY Zenon DEF DropsCountedOnce
  <2>1. /\ stats[id].dropped_tx = 0 /\ tx[id] = <<>> /\ sent = 0 /\ frame_ch = <<>>
        /\ InHand(id) = 0
    BY Zenon DEF Init, RouterInit, InitialStats, InHand
  <2>2. Len(tx[id]) = 0 /\ Len(frame_ch) = 0
    BY <2>1, Zenon
  <2> QED
    BY <2>1, <2>2, SMTT(60), Z3T(60)
<1> QED
  BY <1>1, TypeCorrect, DropsStep, PTL DEF Spec

-----------------------------------------------------------------------------
(* The channel to the stats task, and the mirror it feeds. *)

\* What a mirror m says of id once the events of ch have been read.
Reads(ch, m, id) ==
    \/ (\A i \in 1..Len(ch) : ch[i].id # id) /\ id \in m
    \/ \E i \in 1..Len(ch) : /\ ch[i].id = id /\ ch[i].type = "Register"
                             /\ \A j \in 1..Len(ch) : ch[j].id = id => j <= i

LEMMA MirrorReads ==
    ASSUME TypeOK, NEW id
    PROVE  MirroredAfterDrain(id) <=> Reads(stats_ch, mirror, id)
<1> DEFINE about == {i \in DOMAIN stats_ch : stats_ch[i].id = id}
<1>1. DOMAIN stats_ch = 1..Len(stats_ch)
  BY SMTT(60), Z3T(60) DEF TypeOK, StatsChOK
<1>2. about = {} <=> \A i \in 1..Len(stats_ch) : stats_ch[i].id # id
  BY <1>1, Zenon
<1>3. MirroredAfterDrain(id) <=>
        IF about = {} THEN id \in mirror
        ELSE \E i \in about : (\A j \in about : j <= i) /\ stats_ch[i].type = "Register"
  BY Zenon DEF MirroredAfterDrain
<1>4. CASE about = {}
  BY <1>2, <1>3, <1>4, Zenon DEF Reads
<1>5. CASE about # {}
  <2>1. (\E i \in about : (\A j \in about : j <= i) /\ stats_ch[i].type = "Register")
          <=> \E i \in 1..Len(stats_ch) :
                 /\ stats_ch[i].id = id /\ stats_ch[i].type = "Register"
                 /\ \A j \in 1..Len(stats_ch) : stats_ch[j].id = id => j <= i
    BY <1>1, Zenon
  <2> QED
    BY <1>2, <1>3, <1>5, <2>1, Zenon DEF Reads
<1> QED
  BY <1>4, <1>5, Zenon

\* The last event about an id decides.
LEMMA ReadsAppend ==
    ASSUME NEW ch \in Seq(StatsEvent), NEW event \in StatsEvent, NEW m, NEW id
    PROVE  Reads(Append(ch, event), m, id)
             <=> IF event.id = id THEN event.type = "Register" ELSE Reads(ch, m, id)
<1> DEFINE new == Append(ch, event)
           n == Len(ch)
<1>1. /\ n \in Nat /\ Len(new) = n + 1 /\ new[n + 1] = event
      /\ \A i \in 1..n : new[i] = ch[i]
  BY AppendFacts, Seq_Len, SMTT(60), Z3T(60)
<1>2. \A i \in 1..Len(new) : i \in 1..n \/ i = n + 1
  BY <1>1, SMTT(60), Z3T(60)
<1>3. 1..n \subseteq 1..Len(new) /\ n + 1 \in 1..Len(new) /\ \A i \in 1..n : ~(n + 1 <= i)
  BY <1>1, SMTT(60), Z3T(60)
<1> HIDE DEF new, n
<1>4. CASE event.id = id
  <2>1. \A i \in 1..Len(new) : (\A j \in 1..Len(new) : new[j].id = id => j <= i) => i = n + 1
    BY <1>1, <1>2, <1>3, <1>4, Zenon
  <2>2. \A j \in 1..Len(new) : j <= n + 1
    BY <1>1, SMTT(60), Z3T(60)
  <2> QED
    BY <1>1, <1>3, <1>4, <2>1, <2>2, Zenon DEF Reads, new
<1>5. CASE event.id # id
  <2>1. (\A i \in 1..Len(new) : new[i].id # id) <=> \A i \in 1..n : ch[i].id # id
    BY <1>1, <1>2, <1>3, <1>5, Zenon
  <2>2. \A i \in 1..n : (\A j \in 1..Len(new) : new[j].id = id => j <= i)
                          <=> \A j \in 1..n : ch[j].id = id => j <= i
    BY <1>1, <1>2, <1>3, <1>5, Zenon
  <2>3. \A i \in 1..Len(new) : new[i].id = id => i \in 1..n
    BY <1>1, <1>2, <1>5, Zenon
  <2>4. ASSUME NEW i \in 1..Len(new), new[i].id = id, new[i].type = "Register",
               \A j \in 1..Len(new) : new[j].id = id => j <= i
        PROVE  \E k \in 1..n : /\ ch[k].id = id /\ ch[k].type = "Register"
                                /\ \A j \in 1..n : ch[j].id = id => j <= k
    <3>1. i \in 1..n /\ new[i] = ch[i]
      BY <1>1, <2>3, <2>4, Zenon
    <3> QED
      BY <2>2, <2>4, <3>1, Zenon
  <2>5. ASSUME NEW i \in 1..n, ch[i].id = id, ch[i].type = "Register",
               \A j \in 1..n : ch[j].id = id => j <= i
        PROVE  \E k \in 1..Len(new) : /\ new[k].id = id /\ new[k].type = "Register"
                                       /\ \A j \in 1..Len(new) : new[j].id = id => j <= k
    <3>1. i \in 1..Len(new) /\ new[i] = ch[i]
      BY <1>1, <1>3, Zenon
    <3> QED
      BY <2>2, <2>5, <3>1, Zenon
  <2>6. Reads(new, m, id) <=> Reads(ch, m, id)
    BY <2>1, <2>4, <2>5, Zenon DEF Reads, n
  <2> QED
    BY <1>5, <2>6, Zenon DEF new
<1> QED
  BY <1>4, <1>5, Zenon DEF new

\* Reading the first event moves it from the channel into the mirror.
LEMMA ReadsTail ==
    ASSUME NEW ch \in Seq(StatsEvent), ch # <<>>, NEW m, NEW id
    PROVE  Reads(Tail(ch), IF Head(ch).type = "Register" THEN m \cup {Head(ch).id}
                           ELSE m \ {Head(ch).id}, id)
             <=> Reads(ch, m, id)
<1> DEFINE rest == Tail(ch)
           n == Len(ch)
           read == IF Head(ch).type = "Register" THEN m \cup {Head(ch).id} ELSE m \ {Head(ch).id}
<1>1. /\ n \in Nat /\ n > 0 /\ Len(rest) = n - 1 /\ Head(ch) = ch[1]
      /\ \A i \in 1..Len(rest) : rest[i] = ch[i + 1]
  BY TailFacts, Seq_Len, Zenon
<1>2. /\ \A i \in 1..Len(rest) : i + 1 \in 1..n
      /\ \A i \in 1..n : i = 1 \/ (i - 1 \in 1..Len(rest) /\ ch[i] = rest[i - 1])
      /\ 1 \in 1..n
  BY <1>1, SMTT(60), Z3T(60)
<1>3. id \in read <=> IF ch[1].id = id THEN ch[1].type = "Register" ELSE id \in m
  BY <1>1, Zenon
<1> HIDE DEF rest, n, read
<1>4. CASE \A i \in 1..Len(rest) : rest[i].id # id
  <2>1. \A i \in 1..n : ch[i].id = id => i = 1
    BY <1>2, <1>4, Zenon
  <2>2. Reads(rest, read, id) <=> id \in read
    BY <1>4, Zenon DEF Reads
  <2>3. Reads(ch, m, id) <=> IF ch[1].id = id THEN ch[1].type = "Register" ELSE id \in m
    BY <1>1, <1>2, <2>1, SMTT(60), Z3T(60) DEF Reads, n
  <2> QED
    BY <1>3, <2>2, <2>3, Zenon DEF rest, read
<1>5. CASE \E i \in 1..Len(rest) : rest[i].id = id
  <2>1. PICK k \in 1..Len(rest) : rest[k].id = id
    BY <1>5, Zenon
  <2>2. ch[k + 1].id = id /\ k + 1 \in 1..n /\ k \in Nat /\ k >= 1
    BY <1>1, <1>2, <2>1, SMTT(60), Z3T(60)
  <2>3. Reads(ch, m, id) => Reads(rest, read, id)
    <3> SUFFICES ASSUME NEW i \in 1..n, ch[i].id = id, ch[i].type = "Register",
                        \A j \in 1..n : ch[j].id = id => j <= i
                 PROVE  Reads(rest, read, id)
      BY <2>2, Zenon DEF Reads, n
    <3>1. i # 1
      BY <2>2, SMTT(60), Z3T(60)
    <3>2. i - 1 \in 1..Len(rest) /\ ch[i] = rest[i - 1]
      BY <1>2, <3>1, Zenon
    <3>3. ASSUME NEW j \in 1..Len(rest), rest[j].id = id PROVE j <= i - 1
      <4>1. j + 1 \in 1..n /\ ch[j + 1].id = id
        BY <1>1, <1>2, <3>3, Zenon
      <4> QED
        BY <1>1, <4>1, SMTT(60), Z3T(60)
    <3> QED
      BY <3>2, <3>3, Zenon DEF Reads
  <2>4. Reads(rest, read, id) => Reads(ch, m, id)
    <3> SUFFICES ASSUME NEW i \in 1..Len(rest), rest[i].id = id, rest[i].type = "Register",
                        \A j \in 1..Len(rest) : rest[j].id = id => j <= i
                 PROVE  Reads(ch, m, id)
      BY <2>1, Zenon DEF Reads
    <3>1. i + 1 \in 1..n /\ ch[i + 1] = rest[i] /\ i \in Nat /\ i >= 1
      BY <1>1, <1>2, SMTT(60), Z3T(60)
    <3>2. ASSUME NEW j \in 1..n, ch[j].id = id PROVE j <= i + 1
      <4>1. CASE j = 1
        BY <3>1, <4>1, SMTT(60), Z3T(60)
      <4>2. CASE j - 1 \in 1..Len(rest) /\ ch[j] = rest[j - 1]
        BY <3>1, <3>2, <4>2, SMTT(60), Z3T(60)
      <4> QED
        BY <1>2, <4>1, <4>2, Zenon
    <3> QED
      BY <3>1, <3>2, Zenon DEF Reads, n
  <2> QED
    BY <2>3, <2>4, Zenon DEF rest, read
<1> QED
  BY <1>4, <1>5, Zenon

\* forward_stats about id, which joins the registry or leaves it.
LEMMA ForwardMirror ==
    ASSUME TypeOK, MirrorTracksRegistry, NEW event \in StatsEvent, forward_stats(event),
           UNCHANGED <<stats_open, mirror>>, TypeOK',
           DOMAIN routing' = IF event.type = "Register" THEN DOMAIN routing \cup {event.id}
                             ELSE DOMAIN routing \ {event.id}
    PROVE  MirrorTracksRegistry'
<1> SUFFICES ASSUME stats_open, stats_events_dropped' = 0, NEW id \in Ids
             PROVE  MirroredAfterDrain(id)' <=> id \in DOMAIN routing'
  BY Zenon DEF MirrorTracksRegistry
<1>1. stats_ch \in Seq(StatsEvent) /\ stats_events_dropped \in Nat /\ event.id \in Ids
  BY Zenon DEF TypeOK, StatsChOK, StatsEvent
<1>2. stats_ch' = Append(stats_ch, event) /\ stats_events_dropped = 0
  BY <1>1, SMTT(60), Z3T(60) DEF forward_stats
<1>3. MirroredAfterDrain(id)' <=> Reads(stats_ch, mirror, id)'
  BY MirrorReads, PTL
<1>4. Reads(stats_ch, mirror, id)'
        <=> IF event.id = id THEN event.type = "Register" ELSE Reads(stats_ch, mirror, id)
  <2>1. Reads(stats_ch, mirror, id)' <=> Reads(Append(stats_ch, event), mirror, id)
    BY <1>2, Zenon DEF Reads
  <2> QED
    BY <1>1, <2>1, ReadsAppend, Zenon
<1>5. Reads(stats_ch, mirror, id) <=> id \in DOMAIN routing
  BY <1>2, MirrorReads, Zenon DEF MirrorTracksRegistry
<1> QED
  BY <1>3, <1>4, <1>5, Zenon

\* A step that leaves the channel, the mirror and the set of registered ids alone.
LEMMA SameMirror ==
    ASSUME MirrorTracksRegistry,
           UNCHANGED <<stats_ch, stats_open, stats_events_dropped, mirror>>,
           DOMAIN routing' = DOMAIN routing
    PROVE  MirrorTracksRegistry'
  BY SMTT(60), Z3T(60) DEF MirrorTracksRegistry, MirroredAfterDrain

LEMMA MirrorStep == TypeOK /\ MirrorTracksRegistry /\ [Next]_vars => MirrorTracksRegistry'
<1> SUFFICES ASSUME TypeOK, MirrorTracksRegistry, [Next]_vars
             PROVE  MirrorTracksRegistry'
  BY Zenon
<1>1. TypeOK'
  BY TypeStep, Zenon
<1>2. CASE TakeEvent /\ UNCHANGED envVars
  <2>1. PICK ev \in EventType : handle_event(ev)
    BY <1>2, TailFacts, Zenon DEF TakeEvent, TypeOK, EventsOK
  <2>2. UNCHANGED <<stats_open, mirror>> /\ ev.id \in Ids
    BY <1>2, <2>1, Zenon DEF TakeEvent, envVars, EventType
  <2>3. CASE HandleAdded(ev)
    <3>1. PICK event \in StatsEvent : event = [type |-> "Register", id |-> ev.id]
      BY <2>2, Zenon DEF StatsEvent
    <3>2. forward_stats(event) /\ DOMAIN routing' = DOMAIN routing \cup {ev.id}
      BY <2>3, <3>1, Zenon DEF HandleAdded, Insert
    <3> QED
      BY <1>1, <2>2, <3>1, <3>2, ForwardMirror, Zenon
  <2>4. CASE HandleRemoved(ev)
    <3>1. PICK event \in StatsEvent : event = [type |-> "Finalize", id |-> ev.id]
      BY <2>2, Zenon DEF StatsEvent
    <3>2. forward_stats(event) /\ DOMAIN routing' = DOMAIN routing \ {ev.id}
      BY <2>4, <3>1, Zenon DEF HandleRemoved, Delete
    <3> QED
      BY <1>1, <2>2, <3>1, <3>2, ForwardMirror, Zenon
  <2> QED
    BY <2>1, <2>3, <2>4, Zenon DEF handle_event
<1>3. ASSUME NEW x \in Ids, SweepOne(x), UNCHANGED envVars
      PROVE  MirrorTracksRegistry'
  <2>1. PICK event \in StatsEvent : event = [type |-> "Finalize", id |-> x]
    BY Zenon DEF StatsEvent
  <2>2. /\ forward_stats(event) /\ UNCHANGED <<stats_open, mirror>>
        /\ DOMAIN routing' = DOMAIN routing \ {x}
    BY <1>3, <2>1, Zenon DEF SweepOne, Delete, envVars
  <2> QED
    BY <1>1, <2>1, <2>2, ForwardMirror, Zenon
<1>4. CASE TakeFrame /\ UNCHANGED envVars
  <2>1. PICK rf \in RouterFrame : handle_frame(rf)
    BY <1>4, TailFacts, Zenon DEF TakeFrame, TypeOK, FramesOK
  <2>2. DOMAIN routing' = DOMAIN routing /\ UNCHANGED <<stats_ch, stats_events_dropped>>
    BY <2>1, Zenon
    DEF handle_frame, FrameFromNowhere, FrameDuplicate, FrameFresh, LearnAndDispatch, registry
  <2> QED
    BY <1>4, <2>2, SameMirror, Zenon DEF TakeFrame, envVars
<1>5. CASE StatsRecv
  <2> SUFFICES ASSUME stats_open, stats_events_dropped = 0, NEW id \in Ids
               PROVE  MirroredAfterDrain(id)' <=> id \in DOMAIN routing
    BY <1>5, Zenon DEF StatsRecv, MirrorTracksRegistry, registry
  <2>1. stats_ch \in Seq(StatsEvent) /\ stats_ch # <<>>
    BY <1>5, Zenon DEF StatsRecv, TypeOK, StatsChOK
  <2>2. MirroredAfterDrain(id)' <=> Reads(stats_ch, mirror, id)'
    BY <1>1, MirrorReads, PTL
  <2>3. Reads(stats_ch, mirror, id)' <=> Reads(stats_ch, mirror, id)
    <3>1. Reads(stats_ch, mirror, id)'
            <=> Reads(Tail(stats_ch),
                      IF Head(stats_ch).type = "Register" THEN mirror \cup {Head(stats_ch).id}
                      ELSE mirror \ {Head(stats_ch).id}, id)
      BY <1>5, Zenon DEF Reads, StatsRecv
    <3> QED
      BY <2>1, <3>1, ReadsTail, Zenon
  <2> QED
    BY <2>2, <2>3, MirrorReads, Zenon DEF MirrorTracksRegistry
<1>6. CASE StatsExit
  BY <1>6, Zenon DEF StatsExit, MirrorTracksRegistry
<1>7. CASE ~(TakeEvent /\ UNCHANGED envVars) /\ ~(\E x \in Ids : SweepOne(x) /\ UNCHANGED envVars)
           /\ ~(TakeFrame /\ UNCHANGED envVars) /\ ~StatsRecv /\ ~StatsExit
  <2>1. UNCHANGED <<stats_ch, stats_open, stats_events_dropped, mirror, routing>>
    BY <1>7, ZenonT(60)
    DEF Next, vars, routerVars, channels, registry, envVars, SpawnEndpoint, Cancel, Endpoint,
        AdmitPeer, Announce, AnnounceFails, Forward, Pop, Drain, Sent, SendFails, StoreState,
        Depart, Exit, Route, RouterNext, PollCancel, NoEvent, NoFrame, DrainedEvents, SweepDone
  <2> QED
    BY <2>1, SameMirror, Zenon
<1> QED
  BY <1>2, <1>3, <1>4, <1>5, <1>6, <1>7, Zenon

\* The stats task's mirror is never wrong about an endpoint, for any number of
\* endpoints and any channel: until a try_send of forward_stats was refused, what it
\* holds and has yet to read is exactly the registry, through every handled event
\* and through the sweep.
THEOREM MirrorCorrect == Spec => []MirrorTracksRegistry
<1>1. Init => MirrorTracksRegistry
  <2> SUFFICES ASSUME Init, NEW id \in Ids
               PROVE  ~MirroredAfterDrain(id) /\ id \notin DOMAIN routing
    BY Zenon DEF MirrorTracksRegistry
  <2> QED
    BY SMTT(60), Z3T(60) DEF Init, RouterInit, MirroredAfterDrain
<1> QED
  BY <1>1, TypeCorrect, MirrorStep, PTL DEF Spec

=============================================================================
