---------------------------- MODULE StatsProofs ------------------------------
(***************************************************************************)
(* What becomes of a terminal line: TerminalAccounted, proved for any set  *)
(* of endpoints, any capacity of the channel and of the line queue (zero   *)
(* included), any budgets and any number of interval ticks.                *)
(*                                                                         *)
(* The invariant that carries it relates three places: as long as no event *)
(* was dropped, a Finalize in the channel has its Register in front of it  *)
(* or already in the registry, there is one Finalize at most for each      *)
(* endpoint, and whenever the loop is at its select the queue is empty, so *)
(* that an interval tick never finds a terminal line to push out.  When    *)
(* the receiver goes, what it takes along is recorded; a task that is not  *)
(* cut short finds nothing to take, for it waits until the router hung up. *)
(*                                                                         *)
(* Then, on top of it: a task that returns in time has reported every      *)
(* endpoint (EndStateReported), only a stalled stdout makes shutdown abort *)
(* it (AbortOnlyIfStalled), and the lines of an endpoint come out in order *)
(* with the terminal one last (OutputOrdered).                             *)
(***************************************************************************)
EXTENDS StatsTask, SequenceTheorems, FiniteSetTheorems, TLAPS

Events == [kind : {"Register", "Finalize"}, id : Ids]
Line == [id : Ids, count : 0..MaxCount, synthetic : BOOLEAN]

Typed ==
  /\ life \in [Ids -> {"new", "live", "gone"}] /\ count \in 0..MaxCount
  /\ channel \in Seq(Events) /\ events_dropped \in Nat
  /\ registry \subseteq Ids /\ IsFiniteSet(registry)
  /\ queue \in Seq(Line) /\ out \in Seq(Line)

Sent(kind, id) == \E i \in 1..Len(channel) : channel[i] = Event(kind, id)

\* What is in the channel fits the endpoints' lives and the registry.
Paired ==
  \A id \in Ids :
    /\ life[id] = "new" => ~Sent("Register", id) /\ ~Sent("Finalize", id)
    /\ life[id] = "live" =>
         ~Sent("Finalize", id) /\ (id \in registry \/ Sent("Register", id))
    /\ \A i \in 1..Len(channel) : channel[i] = Event("Finalize", id) =>
         /\ id \in registry \/ \E j \in 1..i - 1 : channel[j] = Event("Register", id)
         /\ \A j \in 1..Len(channel) : channel[j] = Event("Finalize", id) => j = i

Accounted(id) ==
  \/ Sent("Finalize", id) \/ Terminal(queue, id) \/ Terminal(out, id)
  \/ id \in evicted \/ id \in unwritten \/ id \in discarded

Kept ==
  events_dropped = 0 =>
    /\ StatsOpen => Paired
    /\ Enabled => \A id \in Ids : life[id] = "gone" => Accounted(id)

Inv == Typed /\ Kept /\ (pc = "select" => queue = <<>>)

-----------------------------------------------------------------------------
LEMMA LineFacts ==
  ASSUME Typed, NEW id \in Ids, NEW synthetic \in BOOLEAN
  PROVE  /\ build_line(id, synthetic) \in Line
         /\ build_line(id, synthetic).id = id
         /\ build_line(id, synthetic).synthetic = synthetic
BY Zenon DEF Typed, build_line, Line

LEMMA EventFacts ==
  ASSUME NEW id \in Ids
  PROVE  /\ Event("Register", id) \in Events /\ Event("Finalize", id) \in Events
         /\ Event("Register", id).kind = "Register" /\ Event("Register", id).id = id
         /\ Event("Finalize", id).kind = "Finalize" /\ Event("Finalize", id).id = id
         /\ Event("Register", id) # Event("Finalize", id)
         /\ \A other : /\ Event("Register", other) = Event("Register", id) => other = id
                       /\ Event("Finalize", other) = Event("Finalize", id) => other = id
                       /\ Event("Finalize", other) # Event("Register", id)
                       /\ Event("Register", other) # Event("Finalize", id)
BY Zenon DEF Event, Events

LEMMA EventCases ==
  ASSUME NEW e \in Events
  PROVE  /\ e.id \in Ids
         /\ \/ e.kind = "Register" /\ e = Event("Register", e.id)
            \/ e.kind = "Finalize" /\ e = Event("Finalize", e.id)
BY Zenon DEF Event, Events

LEMMA AppendFacts ==
  ASSUME NEW S, NEW s \in Seq(S), NEW e \in S
  PROVE  /\ Append(s, e) \in Seq(S) /\ Len(s) \in Nat /\ Len(Append(s, e)) = Len(s) + 1
         /\ \A i \in 1..Len(s) : Append(s, e)[i] = s[i] /\ i \in 1..Len(s) + 1
         /\ Append(s, e)[Len(s) + 1] = e /\ Len(s) + 1 \in 1..Len(s) + 1
         /\ \A i \in 1..Len(s) + 1 : i # Len(s) + 1 => i \in 1..Len(s)
BY AppendProperties, LenProperties, SMTT(60), Z3T(60)

LEMMA TailFacts ==
  ASSUME NEW S, NEW s \in Seq(S), s # <<>>
  PROVE  /\ Head(s) \in S /\ Head(s) = s[1] /\ Tail(s) \in Seq(S)
         /\ Len(s) \in Nat \ {0} /\ Len(Tail(s)) = Len(s) - 1
         /\ \A i \in 1..Len(s) - 1 : Tail(s)[i] = s[i + 1] /\ i + 1 \in 1..Len(s)
         /\ \A i \in 1..Len(s) : i # 1 => i - 1 \in 1..Len(s) - 1 /\ Tail(s)[i - 1] = s[i]
<1>1. Len(s) \in Nat \ {0}
  BY EmptySeq, Zenon
<1>2. /\ Head(s) \in S /\ Tail(s) \in Seq(S) /\ Len(Tail(s)) = Len(s) - 1
      /\ \A i \in 1..Len(Tail(s)) : Tail(s)[i] = s[i + 1]
  BY HeadTailProperties, Zenon
<1>3. Head(s) = s[1]
  BY <1>1, SMTT(60), Z3T(60)
<1>4. \A i \in 1..Len(s) - 1 : Tail(s)[i] = s[i + 1] /\ i + 1 \in 1..Len(s)
  BY <1>1, <1>2, SMTT(60), Z3T(60)
<1>5. ASSUME NEW i \in 1..Len(s), i # 1
      PROVE  i - 1 \in 1..Len(s) - 1 /\ Tail(s)[i - 1] = s[i]
  <2>1. i - 1 \in 1..Len(s) - 1 /\ (i - 1) + 1 = i
    BY <1>1, <1>5, SMTT(60), Z3T(60)
  <2> QED
    BY <1>4, <2>1, Zenon
<1> QED
  BY <1>1, <1>2, <1>3, <1>4, <1>5, Zenon

\* Without its i-th element a sequence keeps all others in their order.
LEMMA RemoveExact ==
  ASSUME NEW S, NEW s \in Seq(S), NEW i \in 1..Len(s)
  PROVE  /\ Remove(s, i) \in Seq(S) /\ Len(Remove(s, i)) = Len(s) - 1
         /\ \A k \in 1..Len(s) - 1 : Remove(s, i)[k] = IF k < i THEN s[k] ELSE s[k + 1]
<1> DEFINE front == SubSeq(s, 1, i - 1)
           back  == SubSeq(s, i + 1, Len(s))
           all   == front \o back
<1>1. Len(s) \in Nat /\ i \in Nat /\ i >= 1 /\ i <= Len(s)
      /\ \A j \in 1..Len(s) : s[j] \in S
  BY LenProperties, SMTT(60), Z3T(60)
<1>2. (\A j \in 1..i - 1 : s[j] \in S) /\ (\A j \in i + 1..Len(s) : s[j] \in S)
  BY <1>1, SMTT(60), Z3T(60)
<1>3. /\ front \in Seq(S) /\ Len(front) = IF 1 <= i - 1 THEN (i - 1) - 1 + 1 ELSE 0
      /\ \A j \in 1..(i - 1) - 1 + 1 : front[j] = s[1 + j - 1]
  BY <1>1, <1>2, SubSeqProperties, SMTT(60), Z3T(60)
<1>4. /\ back \in Seq(S) /\ Len(back) = IF i + 1 <= Len(s) THEN Len(s) - (i + 1) + 1 ELSE 0
      /\ \A j \in 1..Len(s) - (i + 1) + 1 : back[j] = s[(i + 1) + j - 1]
  BY <1>1, <1>2, SubSeqProperties, SMTT(60), Z3T(60)
<1> HIDE DEF front, back
<1>5. Len(front) = i - 1 /\ Len(back) = Len(s) - i
  BY <1>1, <1>3, <1>4, SMTT(60), Z3T(60)
<1>6. /\ all \in Seq(S) /\ Len(all) = Len(front) + Len(back)
      /\ \A j \in 1..Len(front) + Len(back) :
           all[j] = IF j <= Len(front) THEN front[j] ELSE back[j - Len(front)]
  BY <1>3, <1>4, ConcatProperties, ZenonT(60)
<1> HIDE DEF all
<1>7. ASSUME NEW k \in 1..Len(s) - 1 PROVE all[k] = IF k < i THEN s[k] ELSE s[k + 1]
  <2>0. k \in 1..Len(front) + Len(back)
    BY <1>1, <1>5, SMTT(60), Z3T(60)
  <2>1. CASE k < i
    <3>1. k <= Len(front) /\ k \in 1..(i - 1) - 1 + 1 /\ 1 + k - 1 = k
      BY <1>1, <1>5, <2>1, SMTT(60), Z3T(60)
    <3> QED
      BY <1>3, <1>6, <2>0, <2>1, <3>1, ZenonT(60)
  <2>2. CASE ~(k < i)
    <3>1. /\ ~(k <= Len(front)) /\ k - Len(front) \in 1..Len(s) - (i + 1) + 1
          /\ (i + 1) + (k - Len(front)) - 1 = k + 1
      BY <1>1, <1>5, <2>2, SMTT(60), Z3T(60)
    <3> QED
      BY <1>4, <1>6, <2>0, <2>2, <3>1, ZenonT(60)
  <2> QED
    BY <2>1, <2>2, Zenon
<1>8. Remove(s, i) = all
  BY Zenon DEF Remove, all, front, back
<1>9. Len(all) = Len(s) - 1
  BY <1>1, <1>5, <1>6, SMTT(60), Z3T(60)
<1> QED
  BY <1>6, <1>7, <1>8, <1>9, Zenon

LEMMA RemoveFacts ==
  ASSUME NEW S, NEW s \in Seq(S), NEW i \in 1..Len(s)
  PROVE  /\ Remove(s, i) \in Seq(S)
         /\ \A j \in 1..Len(s) : j # i =>
              \E k \in 1..Len(Remove(s, i)) : Remove(s, i)[k] = s[j]
<1> DEFINE t == Remove(s, i)
<1>1. /\ t \in Seq(S) /\ Len(t) = Len(s) - 1 /\ Len(s) \in Nat
      /\ \A k \in 1..Len(s) - 1 : t[k] = IF k < i THEN s[k] ELSE s[k + 1]
  BY RemoveExact, LenProperties, Zenon
<1> HIDE DEF t
<1>2. ASSUME NEW j \in 1..Len(s), j # i PROVE \E k \in 1..Len(t) : t[k] = s[j]
  <2>1. CASE j < i
    <3>1. j \in 1..Len(t) /\ j \in 1..Len(s) - 1
      BY <1>1, <2>1, SMTT(60), Z3T(60)
    <3> QED
      BY <1>1, <2>1, <3>1, ZenonT(60)
  <2>2. CASE j > i
    <3>1. j - 1 \in 1..Len(t) /\ j - 1 \in 1..Len(s) - 1 /\ ~(j - 1 < i) /\ (j - 1) + 1 = j
      BY <1>1, <2>2, SMTT(60), Z3T(60)
    <3> QED
      BY <1>1, <3>1, Zenon
  <2> QED
    BY <1>2, <2>1, <2>2, SMTT(60), Z3T(60)
<1> QED
  BY <1>1, <1>2, Zenon DEF t

-----------------------------------------------------------------------------
(* Terminal lines in a queue. *)

LEMMA TerminalAppend ==
  ASSUME NEW s \in Seq(Line), NEW line \in Line
  PROVE  /\ \A id : Terminal(s, id) => Terminal(Append(s, line), id)
         /\ line.synthetic => Terminal(Append(s, line), line.id)
<1>1. /\ Len(s) \in Nat /\ Len(Append(s, line)) = Len(s) + 1
      /\ \A i \in 1..Len(s) : Append(s, line)[i] = s[i] /\ i \in 1..Len(s) + 1
      /\ Append(s, line)[Len(s) + 1] = line /\ Len(s) + 1 \in 1..Len(s) + 1
  BY AppendFacts, SMTT(60), Z3T(60)
<1> QED
  BY <1>1, Zenon DEF Terminal

LEMMA TerminalTail ==
  ASSUME NEW s \in Seq(Line), s # <<>>, NEW id, Terminal(s, id)
  PROVE  Terminal(Tail(s), id) \/ (Head(s).synthetic /\ Head(s).id = id)
<1>1. PICK i \in 1..Len(s) : s[i].id = id /\ s[i].synthetic
  BY Zenon DEF Terminal
<1>2. CASE i = 1
  BY <1>1, <1>2, TailFacts, SMTT(60), Z3T(60)
<1>3. CASE i # 1
  <2>1. i - 1 \in 1..Len(Tail(s)) /\ Tail(s)[i - 1] = s[i]
    BY <1>3, TailFacts, ZenonT(60)
  <2> QED
    BY <1>1, <2>1, Zenon DEF Terminal
<1> QED
  BY <1>2, <1>3, Zenon

LEMMA TerminalRemove ==
  ASSUME NEW s \in Seq(Line), NEW pos \in 1..Len(s), ~s[pos].synthetic, NEW id, Terminal(s, id)
  PROVE  Terminal(Remove(s, pos), id)
<1>1. PICK i \in 1..Len(s) : s[i].id = id /\ s[i].synthetic
  BY Zenon DEF Terminal
<1>2. PICK k \in 1..Len(Remove(s, pos)) : Remove(s, pos)[k] = s[i]
  BY <1>1, RemoveFacts, ZenonT(60)
<1> QED
  BY <1>1, <1>2, Zenon DEF Terminal

\* enqueue_synthetic loses no terminal line without reporting it.
LEMMA EnqueueSynthetic ==
  ASSUME queue \in Seq(Line), NEW line \in Line, line.synthetic, enqueue_synthetic(line)
  PROVE  /\ queue' \in Seq(Line) /\ evicted \subseteq evicted'
         /\ Terminal(queue', line.id) \/ line.id \in evicted'
         /\ \A id : Terminal(queue, id) => Terminal(queue', id) \/ id \in evicted'
<1>1. CASE QueueCapacity = 0
  <2>1. queue' = queue /\ evicted' = evicted \cup {line.id}
    BY <1>1, Zenon DEF enqueue_synthetic
  <2> QED
    BY <2>1, Zenon
<1>2. CASE QueueCapacity # 0 /\ Len(queue) < QueueCapacity
  <2>1. queue' = Append(queue, line) /\ evicted' = evicted
    BY <1>2, Zenon DEF enqueue_synthetic
  <2> QED
    BY <2>1, AppendFacts, TerminalAppend, Zenon
<1>3. CASE QueueCapacity # 0 /\ ~(Len(queue) < QueueCapacity) /\ Regular # {}
  <2>1. PICK pos \in Regular : queue' = Append(Remove(queue, pos), line)
    BY <1>3, Zenon DEF enqueue_synthetic
  <2>2. evicted' = evicted
    BY <1>3, Zenon DEF enqueue_synthetic
  <2>3. pos \in 1..Len(queue) /\ ~queue[pos].synthetic
    BY Zenon DEF Regular
  <2> DEFINE rest == Remove(queue, pos)
  <2>4. rest \in Seq(Line) /\ \A id : Terminal(queue, id) => Terminal(rest, id)
    BY <2>3, RemoveFacts, TerminalRemove, Zenon
  <2> HIDE DEF rest
  <2>5. /\ Append(rest, line) \in Seq(Line) /\ Terminal(Append(rest, line), line.id)
        /\ \A id : Terminal(rest, id) => Terminal(Append(rest, line), id)
    BY <2>4, AppendFacts, TerminalAppend, ZenonT(60)
  <2>6. queue' = Append(rest, line)
    BY <2>1, Zenon DEF rest
  <2> QED
    BY <2>2, <2>4, <2>5, <2>6, ZenonT(60)
<1>4. CASE QueueCapacity # 0 /\ ~(Len(queue) < QueueCapacity) /\ Regular = {}
  <2>1. queue' = Append(Tail(queue), line) /\ evicted' = evicted \cup {Head(queue).id}
    BY <1>4, Zenon DEF enqueue_synthetic
  <2>2. queue # <<>>
    <3>1. Len(queue) \in Nat /\ (queue = <<>> => Len(queue) = 0)
      BY LenProperties, EmptySeq, Zenon
    <3> QED
      BY <1>4, <3>1, StatsAssumption, SMTT(60), Z3T(60)
  <2> DEFINE rest == Tail(queue)
  <2>3. rest \in Seq(Line)
        /\ \A id : Terminal(queue, id) => Terminal(rest, id) \/ id = Head(queue).id
    BY <2>2, TailFacts, TerminalTail, Zenon
  <2> HIDE DEF rest
  <2>4. /\ Append(rest, line) \in Seq(Line) /\ Terminal(Append(rest, line), line.id)
        /\ \A id : Terminal(rest, id) => Terminal(Append(rest, line), id)
    BY <2>3, AppendFacts, TerminalAppend, Zenon
  <2>5. queue' = Append(rest, line)
    BY <2>1, Zenon DEF rest
  <2> QED
    BY <2>1, <2>3, <2>4, <2>5, ZenonT(60)
<1> QED
  BY <1>1, <1>2, <1>3, <1>4, ZenonT(60)

-----------------------------------------------------------------------------
(* The router's end. *)

LEMMA RegistersInv ==
  ASSUME Inv, NEW id \in Ids, RouterRegisters(id)
  PROVE  Inv'
<1> DEFINE e == Event("Register", id)
<1>1. /\ life[id] = "new" /\ life' = [life EXCEPT ![id] = "live"]
      /\ UNCHANGED <<count, registry, queue, out, evicted, unwritten, pc>>
  BY Zenon DEF RouterRegisters, taskVars
<1>2. /\ life \in [Ids -> {"new", "live", "gone"}] /\ channel \in Seq(Events)
      /\ events_dropped \in Nat
  BY Zenon DEF Inv, Typed
<1>3. life' \in [Ids -> {"new", "live", "gone"}]
      /\ life'[id] = "live" /\ \A other \in Ids : other # id => life'[other] = life[other]
  BY <1>1, <1>2, Zenon
<1>4. CASE events_dropped' = events_dropped + 1 /\ channel' = channel
  <2>1. events_dropped' \in Nat /\ events_dropped' # 0
    BY <1>2, <1>4, SMTT(60), Z3T(60)
  <2>2. Typed'
    BY <1>1, <1>3, <1>4, <2>1, ZenonT(60) DEF Inv, Typed
  <2> QED
    BY <1>1, <2>1, <2>2, Zenon DEF Inv, Kept
<1>5. CASE /\ StatsOpen /\ channel' = Append(channel, e)
           /\ events_dropped' = events_dropped /\ discarded' = discarded
  <2>1. e \in Events
    BY EventFacts, Zenon
  <2>2. /\ channel' \in Seq(Events) /\ Len(channel) \in Nat /\ Len(channel') = Len(channel) + 1
        /\ \A i \in 1..Len(channel) : channel'[i] = channel[i] /\ i \in 1..Len(channel')
        /\ channel'[Len(channel) + 1] = e /\ Len(channel) + 1 \in 1..Len(channel')
        /\ \A i \in 1..Len(channel') : i # Len(channel) + 1 => i \in 1..Len(channel)
    BY <1>2, <1>5, <2>1, AppendFacts, SMTT(60), Z3T(60)
  <2>3. Typed'
    BY <1>1, <1>3, <1>5, <2>2, Zenon DEF Inv, Typed
  <2>4. ASSUME events_dropped' = 0
        PROVE  Paired' /\ (Enabled => \A other \in Ids : life'[other] = "gone" => Accounted(other)')
    <3>1. Paired /\ (Enabled => \A other \in Ids : life[other] = "gone" => Accounted(other))
      BY <1>5, <2>4, Zenon DEF Inv, Kept
    <3>2. \A other \in Ids : Sent("Finalize", other)' <=> Sent("Finalize", other)
      BY <2>2, EventFacts, ZenonT(60) DEF Sent
    <3>3. /\ Sent("Register", id)'
          /\ \A other \in Ids : Sent("Register", other) => Sent("Register", other)'
          /\ \A other \in Ids : other # id => (Sent("Register", other)' => Sent("Register", other))
      BY <2>2, EventFacts, ZenonT(60) DEF Sent
    <3>4. ASSUME NEW other \in Ids, NEW i \in 1..Len(channel'),
                 channel'[i] = Event("Finalize", other)
          PROVE  /\ other \in registry' \/ \E j \in 1..i - 1 : channel'[j] = Event("Register", other)
                 /\ \A j \in 1..Len(channel') : channel'[j] = Event("Finalize", other) => j = i
      <4>1. \A j \in 1..Len(channel') : channel'[j] = Event("Finalize", other) =>
              j \in 1..Len(channel) /\ channel[j] = Event("Finalize", other)
        BY <2>2, EventFacts, ZenonT(60)
      <4>2. i \in 1..Len(channel) /\ channel[i] = Event("Finalize", other)
        BY <3>4, <4>1, Zenon
      <4>3. /\ other \in registry \/ \E j \in 1..i - 1 : channel[j] = Event("Register", other)
            /\ \A j \in 1..Len(channel) : channel[j] = Event("Finalize", other) => j = i
        BY <3>1, <4>2, Zenon DEF Paired
      <4>4. \A j \in 1..i - 1 : j \in 1..Len(channel)
        BY <2>2, <4>2, SMTT(60), Z3T(60)
      <4> QED
        BY <1>1, <2>2, <4>1, <4>3, <4>4, ZenonT(60)
    <3>5. Paired'
      <4> SUFFICES ASSUME NEW other \in Ids
                   PROVE  /\ life'[other] = "new" => ~Sent("Register", other)' /\ ~Sent("Finalize", other)'
                          /\ life'[other] = "live" =>
                               /\ ~Sent("Finalize", other)'
                               /\ other \in registry' \/ Sent("Register", other)'
        BY <3>4, Zenon DEF Paired
      <4>1. CASE other = id
        BY <1>1, <1>3, <3>1, <3>2, <3>3, <4>1, ZenonT(60) DEF Paired
      <4>2. CASE other # id
        BY <1>1, <1>3, <3>1, <3>2, <3>3, <4>2, ZenonT(60) DEF Paired
      <4> QED
        BY <4>1, <4>2, Zenon
    <3>6. ASSUME Enabled, NEW other \in Ids, life'[other] = "gone" PROVE Accounted(other)'
      <4>1. life[other] = "gone"
        BY <1>3, <3>6, Zenon
      <4>2. Accounted(other)
        BY <3>1, <3>6, <4>1, ZenonT(60)
      <4> QED
        BY <1>1, <1>5, <3>2, <4>2, ZenonT(60) DEF Accounted
    <3> QED
      BY <3>5, <3>6, Zenon
  <2> QED
    BY <1>1, <2>3, <2>4, Zenon DEF Inv, Kept
<1>6. CASE /\ ~StatsOpen /\ channel' = channel /\ events_dropped' = events_dropped
           /\ discarded' = discarded \cup Finalized(<<e>>)
  <2>1. ~StatsOpen' /\ \A other \in Ids : Accounted(other) => Accounted(other)'
    BY <1>1, <1>6, ZenonT(60) DEF StatsOpen, Accounted, Sent
  <2>2. Typed'
    BY <1>1, <1>3, <1>6, ZenonT(60) DEF Inv, Typed
  <2>4. ASSUME events_dropped' = 0, Enabled, NEW other \in Ids, life'[other] = "gone"
        PROVE  Accounted(other)'
    <3>1. life[other] = "gone"
      BY <1>3, <2>4, ZenonT(60)
    <3> QED
      BY <1>6, <2>1, <2>4, <3>1, ZenonT(60) DEF Inv, Kept
  <2> QED
    BY <1>1, <2>1, <2>2, <2>4, ZenonT(60) DEF Inv, Kept
<1> QED
  BY <1>4, <1>5, <1>6, ZenonT(60) DEF RouterRegisters, forward_stats

LEMMA FinalizesInv ==
  ASSUME Inv, NEW id \in Ids, RouterFinalizes(id)
  PROVE  Inv'
<1> DEFINE e == Event("Finalize", id)
<1>1. /\ life[id] = "live" /\ life' = [life EXCEPT ![id] = "gone"]
      /\ UNCHANGED <<count, registry, queue, out, evicted, unwritten, pc>>
  BY Zenon DEF RouterFinalizes, taskVars
<1>2. /\ life \in [Ids -> {"new", "live", "gone"}] /\ channel \in Seq(Events)
      /\ events_dropped \in Nat
  BY Zenon DEF Inv, Typed
<1>3. life' \in [Ids -> {"new", "live", "gone"}]
      /\ life'[id] = "gone" /\ \A other \in Ids : other # id => life'[other] = life[other]
  BY <1>1, <1>2, Zenon
<1>4. CASE events_dropped' = events_dropped + 1 /\ channel' = channel
  <2>1. events_dropped' \in Nat /\ events_dropped' # 0
    BY <1>2, <1>4, SMTT(60), Z3T(60)
  <2>2. Typed'
    BY <1>1, <1>3, <1>4, <2>1, ZenonT(60) DEF Inv, Typed
  <2> QED
    BY <1>1, <2>1, <2>2, ZenonT(60) DEF Inv, Kept
<1>5. CASE /\ StatsOpen /\ channel' = Append(channel, e)
           /\ events_dropped' = events_dropped /\ discarded' = discarded
  <2>1. e \in Events
    BY EventFacts, Zenon
  <2>2. /\ channel' \in Seq(Events) /\ Len(channel) \in Nat /\ Len(channel') = Len(channel) + 1
        /\ \A i \in 1..Len(channel) : channel'[i] = channel[i] /\ i \in 1..Len(channel')
        /\ channel'[Len(channel) + 1] = e /\ Len(channel) + 1 \in 1..Len(channel')
        /\ \A i \in 1..Len(channel') : i # Len(channel) + 1 => i \in 1..Len(channel)
    BY <1>2, <1>5, <2>1, AppendFacts, SMTT(60), Z3T(60)
  <2>3. Typed'
    BY <1>1, <1>3, <1>5, <2>2, ZenonT(60) DEF Inv, Typed
  <2>4. ASSUME events_dropped' = 0
        PROVE  Paired' /\ (Enabled => \A other \in Ids : life'[other] = "gone" => Accounted(other)')
    <3>1. Paired /\ (Enabled => \A other \in Ids : life[other] = "gone" => Accounted(other))
      BY <1>5, <2>4, Zenon DEF Inv, Kept
    <3>2. \A other \in Ids : Sent("Register", other)' <=> Sent("Register", other)
      BY <2>2, EventFacts, ZenonT(60) DEF Sent
    <3>3. /\ Sent("Finalize", id)'
          /\ \A other \in Ids : Sent("Finalize", other) => Sent("Finalize", other)'
          /\ \A other \in Ids : other # id => (Sent("Finalize", other)' => Sent("Finalize", other))
      BY <2>2, EventFacts, ZenonT(60) DEF Sent
    <3>4. ~Sent("Finalize", id) /\ (id \in registry \/ Sent("Register", id))
      BY <1>1, <3>1, Zenon DEF Paired
    <3>5. ASSUME NEW other \in Ids, NEW i \in 1..Len(channel'),
                 channel'[i] = Event("Finalize", other)
          PROVE  /\ other \in registry' \/ \E j \in 1..i - 1 : channel'[j] = Event("Register", other)
                 /\ \A j \in 1..Len(channel') : channel'[j] = Event("Finalize", other) => j = i
      <4>1. CASE other = id
        <5>1. \A j \in 1..Len(channel') :
                channel'[j] = Event("Finalize", id) => j = Len(channel) + 1
          BY <2>2, <3>4, Zenon DEF Sent
        <5>2. i = Len(channel) + 1
          BY <3>5, <4>1, <5>1, ZenonT(60)
        <5>3. CASE id \in registry
          BY <1>1, <4>1, <5>1, <5>2, <5>3, ZenonT(60)
        <5>4. CASE Sent("Register", id)
          <6>1. PICK j \in 1..Len(channel) : channel[j] = Event("Register", id)
            BY <5>4, Zenon DEF Sent
          <6>2. j \in 1..i - 1 /\ channel'[j] = Event("Register", id)
            BY <2>2, <5>2, <6>1, SMTT(60), Z3T(60)
          <6> QED
            BY <4>1, <5>1, <5>2, <6>2, ZenonT(60)
        <5> QED
          BY <3>4, <5>3, <5>4, ZenonT(60)
      <4>2. CASE other # id
        <5>1. \A j \in 1..Len(channel') : channel'[j] = Event("Finalize", other) =>
                j \in 1..Len(channel) /\ channel[j] = Event("Finalize", other)
          BY <2>2, <4>2, EventFacts, ZenonT(60)
        <5>2. i \in 1..Len(channel) /\ channel[i] = Event("Finalize", other)
          BY <3>5, <5>1, Zenon
        <5>3. /\ other \in registry \/ \E j \in 1..i - 1 : channel[j] = Event("Register", other)
              /\ \A j \in 1..Len(channel) : channel[j] = Event("Finalize", other) => j = i
          BY <3>1, <5>2, Zenon DEF Paired
        <5>4. \A j \in 1..i - 1 : j \in 1..Len(channel)
          BY <2>2, <5>2, SMTT(60), Z3T(60)
        <5> QED
          BY <1>1, <2>2, <5>1, <5>3, <5>4, ZenonT(60)
      <4> QED
        BY <4>1, <4>2, Zenon
    <3>6. Paired'
      <4> SUFFICES ASSUME NEW other \in Ids
                   PROVE  /\ life'[other] = "new" => ~Sent("Register", other)' /\ ~Sent("Finalize", other)'
                          /\ life'[other] = "live" =>
                               /\ ~Sent("Finalize", other)'
                               /\ other \in registry' \/ Sent("Register", other)'
        BY <3>5, Zenon DEF Paired
      <4>1. CASE other = id
        BY <1>3, <4>1, ZenonT(60)
      <4>2. CASE other # id
        BY <1>1, <1>3, <3>1, <3>2, <3>3, <4>2, ZenonT(60) DEF Paired
      <4> QED
        BY <4>1, <4>2, Zenon
    <3>7. ASSUME Enabled, NEW other \in Ids, life'[other] = "gone" PROVE Accounted(other)'
      <4>1. CASE other = id
        BY <3>3, <4>1, Zenon DEF Accounted
      <4>2. CASE other # id
        <5>1. Accounted(other)
          BY <1>3, <3>1, <3>7, <4>2, ZenonT(60)
        <5> QED
          BY <1>1, <1>5, <3>3, <5>1, ZenonT(60) DEF Accounted
      <4> QED
        BY <4>1, <4>2, ZenonT(60)
    <3> QED
      BY <3>6, <3>7, Zenon
  <2> QED
    BY <1>1, <2>3, <2>4, ZenonT(60) DEF Inv, Kept
<1>6. CASE /\ ~StatsOpen /\ channel' = channel /\ events_dropped' = events_dropped
           /\ discarded' = discarded \cup Finalized(<<e>>)
  <2>1. ~StatsOpen' /\ \A other \in Ids : Accounted(other) => Accounted(other)'
    BY <1>1, <1>6, ZenonT(60) DEF StatsOpen, Accounted, Sent
  <2>2. Typed'
    BY <1>1, <1>3, <1>6, ZenonT(60) DEF Inv, Typed
  <2>3. id \in Finalized(<<e>>)
    <3>1. Len(<<e>>) = 1 /\ <<e>>[1] = e /\ 1 \in 1..1
      BY SMTT(60), Z3T(60)
    <3> QED
      BY <3>1, ZenonT(60) DEF Finalized
  <2>4. ASSUME events_dropped' = 0, Enabled, NEW other \in Ids, life'[other] = "gone"
        PROVE  Accounted(other)'
    <3>1. CASE other = id
      BY <1>6, <2>3, <3>1, ZenonT(60) DEF Accounted
    <3>2. CASE other # id
      <4>1. life[other] = "gone"
        BY <1>3, <2>4, <3>2, ZenonT(60)
      <4> QED
        BY <1>6, <2>1, <2>4, <4>1, ZenonT(60) DEF Inv, Kept
    <3> QED
      BY <3>1, <3>2, ZenonT(60)
  <2> QED
    BY <1>1, <2>1, <2>2, <2>4, ZenonT(60) DEF Inv, Kept
<1> QED
  BY <1>4, <1>5, <1>6, ZenonT(60) DEF RouterFinalizes, forward_stats

-----------------------------------------------------------------------------
(* The task's end. *)

\* handle_event of the channel's first event, as ReceiveEvent and PostReceive
\* both take it.
LEMMA HandleEvent ==
  ASSUME Typed, Kept, channel # <<>>, channel' = Tail(channel), handle_event(Head(channel)),
         UNCHANGED <<life, events_dropped, discarded, count, out, unwritten>>, StatsOpen
  PROVE  Typed' /\ Kept'
<1> DEFINE e  == Head(channel)
           id == e.id
<1>1. /\ e \in Events /\ e = channel[1] /\ channel' \in Seq(Events)
      /\ Len(channel) \in Nat \ {0} /\ Len(channel') = Len(channel) - 1
      /\ \A i \in 1..Len(channel') : channel'[i] = channel[i + 1] /\ i + 1 \in 1..Len(channel)
      /\ \A i \in 1..Len(channel) :
           i # 1 => i - 1 \in 1..Len(channel') /\ channel'[i - 1] = channel[i]
  BY TailFacts, ZenonT(60) DEF Typed
<1>2. id \in Ids
  BY <1>1, EventCases, Zenon
<1>3. ASSUME NEW kind, NEW other, Sent(kind, other)' PROVE Sent(kind, other)
  BY <1>1, <1>3, ZenonT(60) DEF Sent
<1>4. ASSUME NEW kind, NEW other, Sent(kind, other), e # Event(kind, other)
      PROVE  Sent(kind, other)'
  BY <1>1, <1>4, ZenonT(60) DEF Sent
<1>5. CASE e.kind = "Register"
  <2>1. /\ registry' = registry \cup {id} /\ UNCHANGED <<queue, evicted>>
        /\ e = Event("Register", id)
    BY <1>1, <1>5, EventCases, EventFacts, ZenonT(60) DEF handle_event
  <2>2. Typed'
    <3>1. IsFiniteSet(registry')
      BY <2>1, FS_AddElement, Zenon DEF Typed
    <3> QED
      BY <1>1, <1>2, <2>1, <3>1, Zenon DEF Typed
  <2>3. ASSUME events_dropped = 0, NEW other \in Ids, NEW i \in 1..Len(channel'),
               channel'[i] = Event("Finalize", other)
        PROVE  /\ other \in registry' \/ \E j \in 1..i - 1 : channel'[j] = Event("Register", other)
               /\ \A j \in 1..Len(channel') : channel'[j] = Event("Finalize", other) => j = i
    <3>1. i + 1 \in 1..Len(channel) /\ channel[i + 1] = Event("Finalize", other)
      BY <1>1, <2>3, Zenon
    <3>2. /\ other \in registry \/ \E j \in 1..(i + 1) - 1 : channel[j] = Event("Register", other)
          /\ \A j \in 1..Len(channel) : channel[j] = Event("Finalize", other) => j = i + 1
      BY <2>3, <3>1, ZenonT(60) DEF Kept, Paired
    <3>3. \A j \in 1..Len(channel') : channel'[j] = Event("Finalize", other) => j = i
      BY <1>1, <3>2, SMTT(60), Z3T(60)
    <3>4. CASE other \in registry
      BY <2>1, <3>3, <3>4, ZenonT(60)
    <3>5. ASSUME NEW j \in 1..(i + 1) - 1, channel[j] = Event("Register", other)
          PROVE  other \in registry' \/ \E k \in 1..i - 1 : channel'[k] = Event("Register", other)
      <4>1. CASE j = 1
        <5>1. other = id
          BY <1>1, <1>2, <2>1, <3>5, <4>1, EventFacts, SMTT(60), Z3T(60)
        <5> QED
          BY <2>1, <5>1, ZenonT(60)
      <4>2. CASE j # 1
        <5>1. j \in 1..Len(channel) /\ j - 1 \in 1..i - 1
          BY <1>1, <3>1, <4>2, SMTT(60), Z3T(60)
        <5> QED
          BY <1>1, <3>5, <4>2, <5>1, ZenonT(60)
      <4> QED
        BY <4>1, <4>2, ZenonT(60)
    <3> QED
      BY <3>2, <3>3, <3>4, <3>5, ZenonT(60)
  <2>4. ASSUME events_dropped = 0, NEW other \in Ids
        PROVE  /\ life[other] = "new" => ~Sent("Register", other)' /\ ~Sent("Finalize", other)'
               /\ life[other] = "live" =>
                    ~Sent("Finalize", other)' /\ (other \in registry' \/ Sent("Register", other)')
    <3>1. /\ life[other] = "new" => ~Sent("Register", other) /\ ~Sent("Finalize", other)
          /\ life[other] = "live" =>
               ~Sent("Finalize", other) /\ (other \in registry \/ Sent("Register", other))
      BY <2>4, Zenon DEF Kept, Paired
    <3>2. other # id => e # Event("Register", other)
      BY <1>2, <2>1, EventFacts, ZenonT(60)
    <3> QED
      BY <1>3, <1>4, <2>1, <3>1, <3>2, ZenonT(60)
  <2>5. ASSUME events_dropped = 0, Enabled, NEW other \in Ids, life[other] = "gone"
        PROVE  Accounted(other)'
    <3>1. Accounted(other)
      BY <2>5, Zenon DEF Kept
    <3>2. e # Event("Finalize", other)
      BY <1>2, <2>1, EventFacts, ZenonT(60)
    <3> QED
      BY <1>4, <2>1, <3>1, <3>2, ZenonT(60) DEF Accounted
  <2>6. Kept'
    BY <2>3, <2>4, <2>5, ZenonT(60) DEF Kept, Paired
  <2> QED
    BY <2>2, <2>6, Zenon
<1>6. CASE e.kind = "Finalize"
  <2> DEFINE line == build_line(id, TRUE)
  <2>1. /\ registry' = registry \ {id} /\ e = Event("Finalize", id)
        /\ IF Enabled /\ id \in registry THEN enqueue_synthetic(line)
                                         ELSE UNCHANGED <<queue, evicted>>
    BY <1>1, <1>6, EventCases, EventFacts, ZenonT(60) DEF handle_event
  <2>2. line \in Line /\ line.synthetic /\ line.id = id
    BY <1>2, LineFacts, Zenon
  <2> HIDE DEF line
  <2>3. /\ queue' \in Seq(Line) /\ evicted \subseteq evicted'
        /\ \A other : Terminal(queue, other) => Terminal(queue', other) \/ other \in evicted'
        /\ Enabled /\ id \in registry => Terminal(queue', id) \/ id \in evicted'
    <3>1. queue \in Seq(Line)
      BY Zenon DEF Typed
    <3>2. CASE Enabled /\ id \in registry
      BY <2>1, <2>2, <3>1, <3>2, EnqueueSynthetic, ZenonT(60)
    <3>3. CASE ~(Enabled /\ id \in registry)
      BY <2>1, <3>1, <3>3, ZenonT(60)
    <3> QED
      BY <3>2, <3>3, Zenon
  <2>4. Typed'
    <3>1. IsFiniteSet(registry')
      BY <2>1, FS_RemoveElement, Zenon DEF Typed
    <3> QED
      BY <1>1, <2>1, <2>3, <3>1, ZenonT(60) DEF Typed
  <2>5. ASSUME events_dropped = 0 PROVE id \in registry
    <3>1. 1 \in 1..Len(channel) /\ channel[1] = Event("Finalize", id)
      BY <1>1, <2>1, SMTT(60), Z3T(60)
    <3>2. id \in registry \/ \E j \in 1..1 - 1 : channel[j] = Event("Register", id)
      BY <1>2, <2>5, <3>1, Zenon DEF Kept, Paired
    <3> QED
      BY <3>2, SMTT(60), Z3T(60)
  <2>6. ASSUME events_dropped = 0, NEW other \in Ids, NEW i \in 1..Len(channel'),
               channel'[i] = Event("Finalize", other)
        PROVE  /\ other \in registry' \/ \E j \in 1..i - 1 : channel'[j] = Event("Register", other)
               /\ \A j \in 1..Len(channel') : channel'[j] = Event("Finalize", other) => j = i
    <3>1. i + 1 \in 1..Len(channel) /\ channel[i + 1] = Event("Finalize", other) /\ i + 1 # 1
      BY <1>1, <2>6, SMTT(60), Z3T(60)
    <3>2. /\ other \in registry \/ \E j \in 1..(i + 1) - 1 : channel[j] = Event("Register", other)
          /\ \A j \in 1..Len(channel) : channel[j] = Event("Finalize", other) => j = i + 1
      BY <2>6, <3>1, ZenonT(60) DEF Kept, Paired
    <3>3. \A j \in 1..Len(channel') : channel'[j] = Event("Finalize", other) => j = i
      BY <1>1, <3>2, SMTT(60), Z3T(60)
    <3>4. other # id
      <4>1. 1 \in 1..Len(channel) /\ channel[1] = Event("Finalize", id)
        BY <1>1, <2>1, SMTT(60), Z3T(60)
      <4> QED
        BY <3>1, <3>2, <4>1, ZenonT(60)
    <3>5. CASE other \in registry
      BY <2>1, <3>3, <3>4, <3>5, ZenonT(60)
    <3>6. ASSUME NEW j \in 1..(i + 1) - 1, channel[j] = Event("Register", other)
          PROVE  \E k \in 1..i - 1 : channel'[k] = Event("Register", other)
      <4>1. j # 1
        BY <1>1, <1>2, <2>1, <3>6, EventFacts, SMTT(60), Z3T(60)
      <4>2. j \in 1..Len(channel) /\ j - 1 \in 1..i - 1
        BY <1>1, <3>1, <4>1, SMTT(60), Z3T(60)
      <4> QED
        BY <1>1, <3>6, <4>1, <4>2, ZenonT(60)
    <3> QED
      BY <3>2, <3>3, <3>5, <3>6, ZenonT(60)
  <2>7. ASSUME events_dropped = 0, NEW other \in Ids
        PROVE  /\ life[other] = "new" => ~Sent("Register", other)' /\ ~Sent("Finalize", other)'
               /\ life[other] = "live" =>
                    ~Sent("Finalize", other)' /\ (other \in registry' \/ Sent("Register", other)')
    <3>1. /\ life[other] = "new" => ~Sent("Register", other) /\ ~Sent("Finalize", other)
          /\ life[other] = "live" =>
               ~Sent("Finalize", other) /\ (other \in registry \/ Sent("Register", other))
      BY <2>7, Zenon DEF Kept, Paired
    <3>2. e # Event("Register", other)
      BY <1>2, <2>1, EventFacts, ZenonT(60)
    <3>3. Sent("Finalize", id)
      BY <1>1, <2>1, SMTT(60), Z3T(60) DEF Sent
    <3> QED
      BY <1>3, <1>4, <2>1, <3>1, <3>2, <3>3, ZenonT(60)
  <2>8. ASSUME events_dropped = 0, Enabled, NEW other \in Ids, life[other] = "gone"
        PROVE  Accounted(other)'
    <3>1. Accounted(other)
      BY <2>8, Zenon DEF Kept
    <3>2. CASE other = id
      BY <2>3, <2>5, <2>8, <3>2, ZenonT(60) DEF Accounted
    <3>3. CASE other # id
      <4>1. e # Event("Finalize", other)
        BY <1>2, <2>1, <3>3, EventFacts, ZenonT(60)
      <4> QED
        BY <1>4, <2>3, <3>1, <4>1, ZenonT(60) DEF Accounted
    <3> QED
      BY <3>2, <3>3, ZenonT(60)
  <2>9. Kept'
    BY <2>6, <2>7, <2>8, Zenon DEF Kept, Paired
  <2> QED
    BY <2>4, <2>9, Zenon
<1> QED
  BY <1>1, <1>5, <1>6, EventCases, Zenon

LEMMA ReceiveInv ==
  ASSUME Inv, ReceiveEvent \/ PostReceive
  PROVE  Inv'
<1>1. /\ channel # <<>> /\ channel' = Tail(channel) /\ handle_event(Head(channel))
      /\ UNCHANGED <<life, events_dropped, discarded, count, out, unwritten>> /\ StatsOpen
  BY ZenonT(60) DEF ReceiveEvent, PostReceive, StatsOpen
<1>2. Typed' /\ Kept'
  BY <1>1, HandleEvent, Zenon DEF Inv
<1>3. pc' = "select" => queue' = <<>>
  BY Zenon DEF ReceiveEvent, PostReceive, StartDrain
<1> QED
  BY <1>2, <1>3, Zenon DEF Inv

\* A function on an initial segment of the positive numbers is a sequence.
LEMMA FunctionIsSeq ==
  ASSUME NEW S, NEW n \in Nat, NEW f \in [1..n -> S]
  PROVE  f \in Seq(S)
BY SeqDef, Zenon

LEMMA SuffixType ==
  ASSUME NEW s \in Seq(Line), NEW n \in Nat
  PROVE  Suffix(s, n) \in Seq(Line)
<1>1. Len(s) \in Nat /\ \A i \in 1..Len(s) : s[i] \in Line
  BY LenProperties, Zenon
<1>2. CASE Len(s) <= n
  BY <1>2, Zenon DEF Suffix
<1>3. CASE ~(Len(s) <= n)
  <2>1. \A i \in Len(s) - n + 1..Len(s) : s[i] \in Line
    BY <1>1, <1>3, SMTT(60), Z3T(60)
  <2>2. SubSeq(s, Len(s) - n + 1, Len(s)) \in Seq(Line)
    BY <1>1, <2>1, SubSeqProperties, SMTT(60), Z3T(60)
  <2> QED
    BY <1>3, <2>2, Zenon DEF Suffix
<1> QED
  BY <1>2, <1>3, Zenon

\* The tick finds the queue empty: it has no line to push out but its own.
LEMMA TickInv ==
  ASSUME Inv, IntervalTick
  PROVE  Inv'
<1>1. /\ pc = "select"
      /\ UNCHANGED <<life, channel, events_dropped, discarded, count, registry, out, evicted,
                     unwritten>>
      /\ pc' = "select" => queue' = <<>>
  BY Zenon DEF IntervalTick, routerVars, StartDrain
<1>2. queue = <<>> /\ queue \in Seq(Line) /\ Typed
  BY <1>1, Zenon DEF Inv, Typed
<1>3. PICK order \in Orders(registry) :
        enqueue_regular([i \in DOMAIN order |-> build_line(order[i], FALSE)])
  BY Zenon DEF IntervalTick
<1> DEFINE n     == Cardinality(registry)
           lines == [i \in DOMAIN order |-> build_line(order[i], FALSE)]
<1>4. n \in Nat /\ registry \subseteq Ids
  BY <1>2, FS_CardinalityType, ZenonT(60) DEF Typed
<1>5. order \in [1..n -> registry]
  BY Zenon DEF Orders
<1>6. \A i \in 1..n : build_line(order[i], FALSE) \in Line
  BY <1>2, <1>4, <1>5, LineFacts, ZenonT(60)
<1>7. lines \in [1..n -> Line]
  BY <1>5, <1>6, Zenon
<1>8. lines \in Seq(Line)
  BY <1>4, <1>7, FunctionIsSeq, ZenonT(60)
<1> HIDE DEF lines
<1>9. queue \o lines \in Seq(Line)
  BY <1>2, <1>8, ConcatProperties, ZenonT(60)
<1>10. queue' \in Seq(Line)
  BY <1>3, <1>9, SuffixType, StatsAssumption, ZenonT(60) DEF enqueue_regular, lines
<1>11. \A id : ~Terminal(queue, id)
  BY <1>2, EmptySeq, SMTT(60), Z3T(60) DEF Terminal
<1>12. Typed'
  BY <1>1, <1>2, <1>10, ZenonT(60) DEF Typed
<1>13. StatsOpen /\ (Paired => Paired')
  BY <1>1, SMTT(60), Z3T(60) DEF StatsOpen, Paired, Sent
<1>14. \A id \in Ids : Accounted(id) => Accounted(id)'
  BY <1>1, <1>11, ZenonT(60) DEF Accounted, Sent
<1>15. Kept'
  BY <1>1, <1>13, <1>14, ZenonT(60) DEF Inv, Kept
<1> QED
  BY <1>1, <1>12, <1>15, ZenonT(60) DEF Inv

LEMMA WriteInv ==
  ASSUME Inv, WriteLine
  PROVE  Inv'
<1> DEFINE line == Head(queue)
<1>1. /\ queue # <<>> /\ queue' = Tail(queue)
      /\ pc \in {"drain", "last"}
      /\ pc' = IF pc = "drain" /\ Tail(queue) = <<>> THEN "select" ELSE pc
      /\ UNCHANGED <<life, channel, events_dropped, discarded, count, registry, evicted>>
  BY Zenon DEF WriteLine, routerVars
<1>2. pc' = "select" => queue' = <<>>
  BY <1>1, Zenon
<1>3. line \in Line /\ queue' \in Seq(Line) /\ queue \in Seq(Line) /\ out \in Seq(Line)
  BY <1>1, TailFacts, Zenon DEF Inv, Typed
<1> HIDE DEF line
<1>4. /\ out' \in Seq(Line) /\ unwritten \subseteq unwritten'
      /\ \A id : Terminal(out, id) => Terminal(out', id)
      /\ line.synthetic => Terminal(out', line.id) \/ line.id \in unwritten'
  <2>1. \/ out' = Append(out, line) /\ unwritten' = unwritten
        \/ out' = out /\ unwritten' = IF line.synthetic THEN unwritten \cup {line.id} ELSE unwritten
    BY Zenon DEF WriteLine, line
  <2>2. CASE out' = Append(out, line) /\ unwritten' = unwritten
    BY <1>3, <2>2, AppendFacts, TerminalAppend, ZenonT(60)
  <2>3. CASE out' = out /\ unwritten' = IF line.synthetic THEN unwritten \cup {line.id} ELSE unwritten
    BY <1>3, <2>3, ZenonT(60)
  <2> QED
    BY <2>1, <2>2, <2>3, Zenon
<1>5. Typed'
  BY <1>1, <1>3, <1>4, ZenonT(60) DEF Inv, Typed
<1>6. ASSUME NEW id, Terminal(queue, id)
      PROVE  Terminal(queue', id) \/ Terminal(out', id) \/ id \in unwritten'
  <2>1. Terminal(Tail(queue), id) \/ (line.synthetic /\ line.id = id)
    BY <1>1, <1>3, <1>6, TerminalTail, ZenonT(60) DEF line
  <2> QED
    BY <1>1, <1>4, <2>1, ZenonT(60)
<1>7. \A id \in Ids : Accounted(id) => Accounted(id)'
  BY <1>1, <1>4, <1>6, ZenonT(60) DEF Accounted, Sent
<1>8. Paired => Paired'
  BY <1>1, SMTT(60), Z3T(60) DEF Paired, Sent
<1>9. StatsOpen
  BY <1>1, ZenonT(60) DEF StatsOpen
<1>10. Kept'
  BY <1>1, <1>7, <1>8, <1>9, ZenonT(60) DEF Inv, Kept
<1> QED
  BY <1>2, <1>5, <1>10, Zenon DEF Inv

\* Every other step leaves all of it alone, but for the counters and pc.
LEMMA OtherInv ==
  ASSUME Inv,
         UNCHANGED <<life, channel, events_dropped, discarded, registry, queue, out, evicted,
                     unwritten>>,
         count' \in 0..MaxCount, pc' = pc \/ (StatsOpen /\ pc' # "select")
  PROVE  Inv'
<1>1. Typed'
  BY ZenonT(60) DEF Inv, Typed
<1>2. Paired => Paired'
  BY SMTT(60), Z3T(60) DEF Paired, Sent
<1>3. \A id \in Ids : Accounted(id) => Accounted(id)'
  BY ZenonT(60) DEF Accounted, Sent
<1>4. StatsOpen' => StatsOpen
  BY ZenonT(60) DEF StatsOpen
<1>5. Kept'
  BY <1>2, <1>3, <1>4, ZenonT(60) DEF Inv, Kept
<1> QED
  BY <1>1, <1>5, ZenonT(60) DEF Inv

\* What is in the channel when the receiver goes is on record as discarded.
LEMMA ClosingInv ==
  ASSUME Inv, DropReceiver, pc' \in {"ended", "aborted"},
         UNCHANGED <<life, events_dropped, count, registry, queue, out, evicted, unwritten>>
  PROVE  Inv'
<1>1. channel' = <<>> /\ discarded' = discarded \cup Finalized(channel)
  BY Zenon DEF DropReceiver
<1>2. channel' \in Seq(Events)
  BY <1>1, EmptySeq, ZenonT(60)
<1>3. Typed'
  BY <1>2, ZenonT(60) DEF Inv, Typed
<1>4. \A id \in Ids : Accounted(id) => Accounted(id)'
  BY <1>1, ZenonT(60) DEF Accounted, Sent, Finalized
<1>5. ~StatsOpen' /\ pc' # "select"
  BY ZenonT(60) DEF StatsOpen
<1>6. Kept'
  BY <1>4, <1>5, ZenonT(60) DEF Inv, Kept
<1> QED
  BY <1>3, <1>5, <1>6, ZenonT(60) DEF Inv

LEMMA InitInv == Init => Inv
<1> SUFFICES ASSUME Init PROVE Inv
  BY Zenon
<1>1. channel = <<>> /\ queue = <<>> /\ out = <<>> /\ registry = {} /\ count = 0
      /\ life = [id \in Ids |-> "new"] /\ events_dropped = 0
  BY Zenon DEF Init
<1>2. <<>> \in Seq(Events) /\ <<>> \in Seq(Line) /\ Len(<<>>) = 0
  BY EmptySeq, ZenonT(60)
<1>3. Typed
  BY <1>1, <1>2, FS_EmptySet, StatsAssumption, SMTT(60), Z3T(60) DEF Typed
<1>4. \A kind, id : ~Sent(kind, id)
  BY <1>1, <1>2, SMTT(60), Z3T(60) DEF Sent
<1>5. Kept
  BY <1>1, <1>2, <1>4, SMTT(60), Z3T(60) DEF Kept, Paired
<1> QED
  BY <1>1, <1>3, <1>5, ZenonT(60) DEF Inv

LEMMA NextInv == Inv /\ [Next]_vars => Inv'
<1> SUFFICES ASSUME Inv, [Next]_vars PROVE Inv'
  BY Zenon
<1>1. count \in 0..MaxCount
  BY Zenon DEF Inv, Typed
<1>2. CASE EndpointsCount
  <2>1. count' \in 0..MaxCount
    BY <1>1, <1>2, StatsAssumption, SMTT(60), Z3T(60) DEF EndpointsCount
  <2> QED
    BY <1>2, <2>1, OtherInv, Zenon DEF EndpointsCount, routerVars, taskVars
<1>3. CASE RouterReturns \/ StdoutChanges \/ Cancel \/ Drained \/ Aborted \/ OthersEnd \/ Tick
           \/ UNCHANGED vars
  <2>1. UNCHANGED <<life, channel, events_dropped, discarded, registry, queue, out, evicted,
                    unwritten, count, pc>>
    BY <1>3, Zenon
       DEF RouterReturns, StdoutChanges, Cancel, Drained, Aborted, OthersEnd, Tick, vars,
           routerVars, taskVars
  <2> QED
    BY <1>1, <2>1, OtherInv, ZenonT(60)
<1>4. CASE LeaveLoop \/ PostEnd
  <2>1. UNCHANGED <<life, channel, events_dropped, discarded, registry, queue, out, evicted,
                    unwritten, count>>
    BY <1>4, Zenon DEF LeaveLoop, PostEnd, routerVars
  <2>2. StatsOpen /\ pc' # "select"
    BY <1>4, Zenon DEF LeaveLoop, PostEnd, StatsOpen
  <2> QED
    BY <1>1, <2>1, <2>2, OtherInv, ZenonT(60)
<1>5. CASE Finish \/ DrainBudgetSpent
  <2>1. UNCHANGED <<life, events_dropped, count, registry, queue, out, evicted, unwritten>>
    BY <1>5, ZenonT(60) DEF Finish, DrainBudgetSpent
  <2>2. CASE DropReceiver /\ pc' \in {"ended", "aborted"}
    BY <2>1, <2>2, ClosingInv, ZenonT(60)
  <2>3. CASE UNCHANGED <<pc, channel, discarded>>
    BY <1>1, <2>1, <2>3, OtherInv, ZenonT(60)
  <2> QED
    BY <1>5, <2>2, <2>3, ZenonT(60) DEF Finish, DrainBudgetSpent
<1> QED
  BY <1>2, <1>3, <1>4, <1>5, RegistersInv, FinalizesInv, TickInv, ReceiveInv, WriteInv, ZenonT(60)
     DEF Next, TaskStep

-----------------------------------------------------------------------------
(* The end of the task. *)

\* The task leaves its drain before the deadline only behind a router that is
\* through, and then nothing comes after it; nothing is discarded otherwise.
Ending ==
  /\ router \in {"serving", "gone", "aborted"}
  /\ router = "gone" => \A id \in Ids : life[id] # "live"
  /\ pc \in {"last", "ended"} /\ ~cut_short => Closed
  /\ discarded # {} => pc = "aborted" \/ (pc = "ended" /\ cut_short)
  /\ pc = "ended" => queue = <<>>

LEMMA EndingNext == Ending /\ [Next]_vars => Ending'
<1> SUFFICES ASSUME Ending, [Next]_vars PROVE Ending'
  BY Zenon
<1> USE DEF Ending
<1>1. ASSUME NEW id \in Ids, RouterRegisters(id) \/ RouterFinalizes(id) PROVE Ending'
  <2>1. /\ router = "serving" /\ router' = router
        /\ UNCHANGED <<cut_short, pc, queue>>
        /\ discarded' = discarded \/ ~StatsOpen
    BY <1>1, ZenonT(60) DEF RouterRegisters, RouterFinalizes, forward_stats, taskVars
  <2>2. pc \in {"last", "ended"} => cut_short
    BY <2>1, ZenonT(60) DEF Closed
  <2>3. ~StatsOpen => pc = "aborted" \/ (pc = "ended" /\ cut_short)
    BY <2>2, ZenonT(60) DEF StatsOpen
  <2> QED
    BY <2>1, <2>2, <2>3, ZenonT(60)
<1>2. CASE RouterReturns
  <2>1. /\ router' = "gone" /\ router = "serving" /\ \A id \in Ids : life[id] # "live"
        /\ UNCHANGED <<life, cut_short, discarded, pc, queue, channel>>
    BY <1>2, ZenonT(60) DEF RouterReturns, taskVars
  <2> QED
    BY <2>1, ZenonT(60) DEF Closed
<1>3. CASE IntervalTick \/ ReceiveEvent \/ PostReceive \/ LeaveLoop
  <2>1. /\ UNCHANGED <<life, router, discarded>> /\ pc \in {"select", "post"}
        /\ pc' \in {"select", "drain", "post"}
    BY <1>3, ZenonT(60)
       DEF IntervalTick, ReceiveEvent, PostReceive, LeaveLoop, StartDrain, routerVars
  <2> QED
    BY <2>1, ZenonT(60)
<1>4. CASE PostEnd
  <2>1. /\ UNCHANGED <<life, router, discarded, channel, queue>> /\ pc = "post" /\ pc' = "last"
        /\ clock >= drain_deadline \/ Closed
    BY <1>4, ZenonT(60) DEF PostEnd, routerVars
  <2>2. ~cut_short' => Closed
    <3>1. cut_short' = (clock >= drain_deadline /\ ~Closed)
      BY <1>4, Zenon DEF PostEnd
    <3> QED
      BY <2>1, <3>1, ZenonT(60), Zenon
  <2> QED
    BY <2>1, <2>2, ZenonT(60) DEF Closed
<1>5. CASE WriteLine
  <2>1. /\ UNCHANGED <<life, router, cut_short, discarded, channel>>
        /\ pc \in {"drain", "last"} /\ pc' \in {"select", "drain", "last"}
        /\ pc' = "last" => pc = "last"
    BY <1>5, ZenonT(60) DEF WriteLine, routerVars
  <2> QED
    BY <2>1, ZenonT(60) DEF Closed
<1>6. CASE Finish
  <2>1. /\ UNCHANGED <<life, router, cut_short>> /\ channel' = <<>>
        /\ discarded' = discarded \cup Finalized(channel)
        /\ pc = "last" /\ pc' = "ended" /\ queue' = <<>>
    BY <1>6, ZenonT(60) DEF Finish, DropReceiver
  <2>2. ~cut_short => Closed /\ discarded' = {}
    <3>1. Finalized(<<>>) = {}
      BY SMTT(60), Z3T(60) DEF Finalized
    <3> QED
      BY <2>1, <3>1, ZenonT(60) DEF Closed
  <2> QED
    BY <2>1, <2>2, ZenonT(60) DEF Closed
<1>7. CASE DrainBudgetSpent
  <2>1. /\ UNCHANGED <<life, cut_short, queue>>
        /\ router' = IF router = "serving" THEN "aborted" ELSE router
        /\ pc' = "aborted" \/ (pc = "ended" /\ UNCHANGED <<pc, channel, discarded>>)
    BY <1>7, ZenonT(60) DEF DrainBudgetSpent
  <2> QED
    BY <2>1, ZenonT(60) DEF Closed
<1>8. CASE EndpointsCount \/ StdoutChanges \/ Cancel \/ Drained \/ Aborted \/ OthersEnd \/ Tick
           \/ UNCHANGED vars
  <2>1. UNCHANGED <<life, router, cut_short, discarded, channel, queue, pc>>
    BY <1>8, ZenonT(60) DEF EndpointsCount, StdoutChanges, Cancel, Drained, Aborted, OthersEnd,
                Tick, vars, routerVars, taskVars
  <2> QED
    BY <2>1, ZenonT(60) DEF Closed
<1> QED
  BY <1>1, <1>2, <1>3, <1>4, <1>5, <1>6, <1>7, <1>8, ZenonT(60) DEF Next, TaskStep

LEMMA Endings == Spec => [](Inv /\ Ending)
<1>1. Spec => []Inv
  BY InitInv, NextInv, PTL DEF Spec
<1>2. Init => Ending
  BY ZenonT(60) DEF Init, Ending
<1>3. Spec => []Ending
  BY <1>2, EndingNext, PTL DEF Spec
<1> QED
  BY <1>1, <1>3, PTL

\* The end state of an endpoint is reported, or its loss is, or the task ran into
\* its deadline: whatever the sizes of the channel and of the queue, as long as the
\* router's try_send found no full channel, handle_event, enqueue_regular,
\* enqueue_synthetic and drain_queue between them lose no terminal line silently,
\* and the closed channel discards a Finalize only behind a drain that was cut short.
THEOREM TerminalAccountedHolds == Spec => []TerminalAccounted
<1>1. Inv /\ Ending => TerminalAccounted
  <2> SUFFICES ASSUME Inv, Ending, Enabled, events_dropped = 0, pc # "aborted",
                      NEW id \in Ids, life[id] = "gone"
               PROVE  \/ id \in Finalized(channel) \/ Terminal(queue, id) \/ Terminal(out, id)
                      \/ id \in evicted \/ id \in unwritten
                      \/ id \in discarded /\ cut_short
    BY ZenonT(60) DEF TerminalAccounted
  <2>1. Accounted(id)
    BY ZenonT(60) DEF Inv, Kept
  <2>2. id \in discarded => cut_short
    BY ZenonT(60) DEF Ending
  <2>3. Sent("Finalize", id) => id \in Finalized(channel)
    BY ZenonT(60) DEF Sent, Finalized
  <2> QED
    BY <2>1, <2>2, <2>3, ZenonT(60) DEF Accounted
<1> QED
  BY <1>1, Endings, PTL

LEMMA EndingReported == Inv /\ Ending => EndStateReported
<1> SUFFICES ASSUME Inv, Ending, pc = "ended", ~cut_short, router # "aborted",
                    Enabled, events_dropped = 0, NEW id \in Ids
             PROVE  /\ life[id] # "live"
                    /\ life[id] = "gone" =>
                         Terminal(out, id) \/ id \in evicted \/ id \in unwritten
  BY Zenon DEF EndStateReported
<1>1. channel = <<>> /\ queue = <<>> /\ router = "gone" /\ discarded = {}
  BY ZenonT(60) DEF Ending, Closed
<1>2. ~Sent("Finalize", id) /\ ~Terminal(queue, id)
  BY <1>1, EmptySeq, SMTT(60), Z3T(60) DEF Sent, Terminal
<1> QED
  BY <1>1, <1>2, ZenonT(60) DEF Inv, Kept, Accounted, Ending

\* "recv().await (not try_recv) is load-bearing": for every capacity and every
\* budget, a task whose drain the deadline did not cut short has waited for the
\* router's sweep, and every endpoint had its terminal line or a report of its loss.
THEOREM EndStateReportedHolds == Spec => []EndStateReported
BY Endings, EndingReported, PTL

-----------------------------------------------------------------------------
(* The budgets. *)

\* Until a write takes time, the clock is where the task's own waits put it.
Prompt ==
  /\ clock \in Nat /\ drain_deadline \in Nat
  /\ pc \in {"select", "drain", "post", "last", "ended", "aborted"}
  /\ delayed \in BOOLEAN
  /\ ~delayed => /\ pc \in {"select", "drain"} => clock = 0
                 /\ pc = "post" => clock <= drain_deadline /\ drain_deadline <= POST_CANCEL_DRAIN
                 /\ pc = "last" => clock <= POST_CANCEL_DRAIN
                 /\ pc # "aborted"

LEMMA PromptNext == Prompt /\ [Next]_vars => Prompt'
<1> SUFFICES ASSUME Prompt, [Next]_vars PROVE Prompt'
  BY Zenon
<1> USE StatsAssumption DEF Prompt
<1>1. CASE IntervalTick \/ ReceiveEvent
  <2>1. /\ UNCHANGED <<clock, drain_deadline, delayed>> /\ pc = "select"
        /\ pc' \in {"select", "drain"}
    BY <1>1, ZenonT(60) DEF IntervalTick, ReceiveEvent, StartDrain, harnessVars
  <2> QED
    BY <2>1, Zenon
<1>2. CASE LeaveLoop
  <2>1. /\ UNCHANGED <<clock, delayed>> /\ drain_deadline' = clock + POST_CANCEL_DRAIN
        /\ pc = "select" /\ pc' = "post"
    BY <1>2, Zenon DEF LeaveLoop, harnessVars
  <2> QED
    BY <2>1, SMTT(60), Z3T(60)
<1>3. CASE PostEnd
  <2>1. UNCHANGED <<clock, drain_deadline, delayed>> /\ pc = "post" /\ pc' = "last"
    BY <1>3, Zenon DEF PostEnd, harnessVars
  <2> QED
    BY <2>1, SMTT(60), Z3T(60)
<1>4. CASE WriteLine \/ Finish
  <2>1. /\ UNCHANGED <<clock, drain_deadline, delayed>>
        /\ \/ pc = "drain" /\ pc' \in {"select", "drain"}
           \/ pc = "last" /\ pc' \in {"last", "ended"}
    BY <1>4, Zenon DEF WriteLine, Finish, harnessVars
  <2> QED
    BY <2>1, Zenon
<1>5. CASE DrainBudgetSpent
  <2>1. /\ UNCHANGED <<clock, drain_deadline, delayed>> /\ clock >= PER_TASK_DRAIN
        /\ pc' = IF pc = "ended" THEN pc ELSE "aborted"
    BY <1>5, ZenonT(60) DEF DrainBudgetSpent
  <2>2. delayed \/ pc = "ended"
    BY <2>1, BudgetAssumption, SMTT(60), Z3T(60)
  <2> QED
    BY <2>1, <2>2, ZenonT(60)
<1>6. CASE Tick
  <2>1. /\ UNCHANGED <<drain_deadline, pc>> /\ clock' = clock + 1
        /\ cancelled /\ ~TaskReady
    BY <1>6, Zenon DEF Tick
  <2>2. delayed' \in BOOLEAN /\ (delayed \/ pc \in {"drain", "last"} => delayed' = TRUE)
    <3>1. delayed' = (delayed \/ pc \in {"drain", "last"})
      BY <1>6, Zenon DEF Tick
    <3> QED
      BY <3>1, ZenonT(60), Zenon
  <2>3. pc # "select" /\ (pc = "post" => ~(clock >= drain_deadline))
    BY <2>1, Zenon DEF TaskReady
  <2>4. CASE delayed \/ pc \in {"drain", "last"}
    <3>1. delayed' = TRUE
      BY <2>2, <2>4, ZenonT(60)
    <3> QED
      BY <2>1, <3>1, SMTT(60), Z3T(60)
  <2>5. CASE ~delayed /\ pc \in {"post", "ended"}
    BY <2>1, <2>2, <2>3, <2>5, SMTT(60), Z3T(60)
  <2> QED
    BY <2>3, <2>4, <2>5, ZenonT(60)
<1>7. CASE PostReceive \/ RouterReturns \/ EndpointsCount \/ StdoutChanges \/ Cancel \/ Drained
           \/ Aborted \/ OthersEnd \/ UNCHANGED vars
           \/ \E id \in Ids : RouterRegisters(id) \/ RouterFinalizes(id)
  <2>1. UNCHANGED <<clock, drain_deadline, delayed, pc>>
    BY <1>7, ZenonT(60) DEF PostReceive, RouterReturns, EndpointsCount, StdoutChanges, Cancel, Drained,
                Aborted, OthersEnd, RouterRegisters, RouterFinalizes, vars, routerVars,
                taskVars, harnessVars
  <2> QED
    BY <2>1, Zenon
<1> QED
  BY <1>1, <1>2, <1>3, <1>4, <1>5, <1>6, <1>7, ZenonT(60) DEF Next, TaskStep

\* Because POST_CANCEL_DRAIN stays below PER_TASK_DRAIN, whatever the two are,
\* shutdown() aborts the stats task only after a write to stdout took time.
THEOREM AbortOnlyIfStalledHolds == Spec => []AbortOnlyIfStalled
<1>1. Init => Prompt
  <2>1. Init => clock = 0 /\ drain_deadline = 0 /\ pc = "select" /\ delayed = FALSE
    BY Zenon DEF Init
  <2>2. delayed = FALSE => delayed \in BOOLEAN
    BY Zenon, Zenon
  <2>3. clock = 0 /\ drain_deadline = 0 => clock \in Nat /\ drain_deadline \in Nat
    BY SMTT(60), Z3T(60)
  <2>4. pc = "select" =>
          /\ pc \in {"select", "drain", "post", "last", "ended", "aborted"}
          /\ pc # "post" /\ pc # "last" /\ pc # "aborted"
    BY Zenon
  <2> QED
    BY <2>1, <2>2, <2>3, <2>4, ZenonT(60), Zenon DEF Prompt
<1>2. Prompt => AbortOnlyIfStalled
  BY ZenonT(60) DEF Prompt, AbortOnlyIfStalled
<1>3. Spec => []Prompt
  BY <1>1, PromptNext, PTL DEF Spec
<1> QED
  BY <1>2, <1>3, PTL

-----------------------------------------------------------------------------
(* The order of the lines. *)

\* Line a may precede line b.
Before(a, b) == a.id = b.id => a.count <= b.count /\ ~a.synthetic

\* The lines o, then the lines q, none of them from a counter above c.
InOrder(o, q, c) ==
  /\ \A i, j \in 1..Len(o) : i < j => Before(o[i], o[j])
  /\ \A i, j \in 1..Len(q) : i < j => Before(q[i], q[j])
  /\ \A i \in 1..Len(o), j \in 1..Len(q) : Before(o[i], q[j])
  /\ \A i \in 1..Len(o) : o[i].count <= c
  /\ \A j \in 1..Len(q) : q[j].count <= c

\* t consists of elements of s in the order of s.
Selected(t, s) ==
  \E f \in [1..Len(t) -> 1..Len(s)] :
    /\ \A i, j \in 1..Len(t) : i < j => f[i] < f[j]
    /\ \A i \in 1..Len(t) : t[i] = s[f[i]]

LEMMA LineTypes ==
  ASSUME NEW s \in Seq(Line)
  PROVE  /\ Len(s) \in Nat
         /\ \A i \in 1..Len(s) : /\ s[i] \in Line /\ s[i].id \in Ids /\ s[i].count \in Nat
                                 /\ s[i].synthetic \in BOOLEAN
<1>1. Len(s) \in Nat /\ \A i \in 1..Len(s) : s[i] \in Line
  BY LenProperties, ZenonT(60)
<1>2. \A l \in Line : l.id \in Ids /\ l.count \in Nat /\ l.synthetic \in BOOLEAN
  BY StatsAssumption, SMTT(60), Z3T(60) DEF Line
<1> QED
  BY <1>1, <1>2, ZenonT(60)

LEMMA SelectedFacts ==
  ASSUME NEW t, NEW s, Selected(t, s), NEW o, NEW c, InOrder(o, s, c)
  PROVE  /\ InOrder(o, t, c)
         /\ \A id : Terminal(t, id) => Terminal(s, id)
<1>1. PICK f \in [1..Len(t) -> 1..Len(s)] :
        /\ \A i, j \in 1..Len(t) : i < j => f[i] < f[j]
        /\ \A i \in 1..Len(t) : t[i] = s[f[i]]
  BY Zenon DEF Selected
<1>2. \A i \in 1..Len(t) : f[i] \in 1..Len(s)
  BY <1>1, Zenon
<1>3. InOrder(o, t, c)
  <2>1. \A i, j \in 1..Len(t) : i < j => Before(t[i], t[j])
    BY <1>1, <1>2, ZenonT(60) DEF InOrder
  <2>2. \A i \in 1..Len(o), j \in 1..Len(t) : Before(o[i], t[j])
    BY <1>1, <1>2, Zenon DEF InOrder
  <2>3. \A j \in 1..Len(t) : t[j].count <= c
    BY <1>1, <1>2, ZenonT(60) DEF InOrder
  <2> QED
    BY <2>1, <2>2, <2>3, ZenonT(60) DEF InOrder
<1>4. \A id : Terminal(t, id) => Terminal(s, id)
  BY <1>1, <1>2, ZenonT(60) DEF Terminal
<1> QED
  BY <1>3, <1>4, ZenonT(60)

LEMMA TailSelected ==
  ASSUME NEW s \in Seq(Line), s # <<>>
  PROVE  Selected(Tail(s), s)
<1> DEFINE f == [i \in 1..Len(s) - 1 |-> i + 1]
<1>1. /\ Len(Tail(s)) = Len(s) - 1 /\ Len(s) \in Nat
      /\ \A i \in 1..Len(s) - 1 : Tail(s)[i] = s[i + 1] /\ i + 1 \in 1..Len(s)
  BY TailFacts, Zenon
<1>2. f \in [1..Len(Tail(s)) -> 1..Len(s)]
  BY <1>1, Zenon
<1>3. \A i, j \in 1..Len(Tail(s)) : i < j => f[i] < f[j]
  BY <1>1, SMTT(60), Z3T(60)
<1>4. \A i \in 1..Len(Tail(s)) : Tail(s)[i] = s[f[i]]
  BY <1>1, Zenon
<1> HIDE DEF f
<1> QED
  BY <1>2, <1>3, <1>4, ZenonT(60) DEF Selected

LEMMA RemoveSelected ==
  ASSUME NEW s \in Seq(Line), NEW pos \in 1..Len(s)
  PROVE  Selected(Remove(s, pos), s)
<1> DEFINE t == Remove(s, pos)
           f == [k \in 1..Len(s) - 1 |-> IF k < pos THEN k ELSE k + 1]
<1>1. /\ Len(t) = Len(s) - 1 /\ Len(s) \in Nat
      /\ \A k \in 1..Len(s) - 1 : t[k] = IF k < pos THEN s[k] ELSE s[k + 1]
  BY RemoveExact, LenProperties, ZenonT(60)
<1> HIDE DEF t
<1>2. f \in [1..Len(t) -> 1..Len(s)]
  BY <1>1, SMTT(60), Z3T(60)
<1>3. \A i, j \in 1..Len(t) : i < j => f[i] < f[j]
  BY <1>1, SMTT(60), Z3T(60)
<1>4. \A i \in 1..Len(t) : t[i] = s[f[i]]
  BY <1>1, Zenon
<1> HIDE DEF f
<1>5. Selected(t, s)
  BY <1>2, <1>3, <1>4, ZenonT(60) DEF Selected
<1> QED
  BY <1>5, Zenon DEF t

LEMMA SuffixSelected ==
  ASSUME NEW s \in Seq(Line), NEW n \in Nat
  PROVE  Selected(Suffix(s, n), s)
<1>1. Len(s) \in Nat /\ \A i \in 1..Len(s) : s[i] \in Line
  BY LenProperties, Zenon
<1>2. CASE Len(s) <= n
  <2> DEFINE f == [i \in 1..Len(s) |-> i]
  <2>1. Suffix(s, n) = s
    BY <1>2, Zenon DEF Suffix
  <2>2. /\ f \in [1..Len(s) -> 1..Len(s)]
        /\ \A i, j \in 1..Len(s) : i < j => f[i] < f[j]
        /\ \A i \in 1..Len(s) : s[i] = s[f[i]]
    BY Zenon
  <2> HIDE DEF f
  <2> QED
    BY <2>1, <2>2, ZenonT(60) DEF Selected
<1>3. CASE ~(Len(s) <= n)
  <2> DEFINE m == Len(s) - n
             t == SubSeq(s, m + 1, Len(s))
             f == [i \in 1..n |-> m + i]
  <2>1. m \in Nat /\ m + 1 \in 1..Len(s) + 1 /\ \A i \in m + 1..Len(s) : s[i] \in Line
    BY <1>1, <1>3, SMTT(60), Z3T(60)
  <2>2. /\ Len(t) = IF m + 1 <= Len(s) THEN Len(s) - (m + 1) + 1 ELSE 0
        /\ \A i \in 1..Len(s) - (m + 1) + 1 : t[i] = s[(m + 1) + i - 1]
    BY <1>1, <2>1, SubSeqProperties, SMTT(60), Z3T(60)
  <2> HIDE DEF t
  <2>3. Len(t) = n /\ \A i \in 1..n : t[i] = s[m + i] /\ m + i \in 1..Len(s)
    <3>1. Len(s) - (m + 1) + 1 = n /\ \A i \in 1..n : (m + 1) + i - 1 = m + i
      BY <1>1, SMTT(60), Z3T(60)
    <3> QED
      BY <1>1, <2>1, <2>2, <3>1, SMTT(60), Z3T(60)
  <2>4. /\ f \in [1..Len(t) -> 1..Len(s)]
        /\ \A i, j \in 1..Len(t) : i < j => f[i] < f[j]
        /\ \A i \in 1..Len(t) : t[i] = s[f[i]]
    BY <2>1, <2>3, SMTT(60), Z3T(60)
  <2> HIDE DEF f
  <2>5. Selected(t, s)
    BY <2>4, Zenon DEF Selected
  <2> QED
    BY <1>3, <2>5, ZenonT(60) DEF Suffix, t
<1> QED
  BY <1>2, <1>3, ZenonT(60)

\* A line with the current counters may follow all others, unless its endpoint
\* already had its terminal line.
LEMMA AppendInOrder ==
  ASSUME NEW o \in Seq(Line), NEW q \in Seq(Line), NEW c \in Nat, InOrder(o, q, c),
         NEW line \in Line, line.count = c, ~Terminal(o, line.id), ~Terminal(q, line.id)
  PROVE  /\ InOrder(o, Append(q, line), c)
         /\ \A id : Terminal(Append(q, line), id) => Terminal(q, id) \/ id = line.id
<1> DEFINE t == Append(q, line)
<1>1. /\ Len(q) \in Nat /\ Len(t) = Len(q) + 1
      /\ \A i \in 1..Len(q) : t[i] = q[i]
      /\ t[Len(q) + 1] = line
      /\ \A i \in 1..Len(q) + 1 : i # Len(q) + 1 => i \in 1..Len(q)
  BY AppendFacts, SMTT(60), Z3T(60)
<1> HIDE DEF t
<1>2. \A i \in 1..Len(o) : Before(o[i], line)
  BY Zenon DEF InOrder, Before, Terminal
<1>3. \A i \in 1..Len(q) : Before(q[i], line)
  BY Zenon DEF InOrder, Before, Terminal
<1>4. \A i, j \in 1..Len(t) : i < j => Before(t[i], t[j])
  <2> SUFFICES ASSUME NEW i \in 1..Len(t), NEW j \in 1..Len(t), i < j
               PROVE  Before(t[i], t[j])
    BY Zenon
  <2>1. i \in 1..Len(q)
    BY <1>1, SMTT(60), Z3T(60)
  <2>2. CASE j = Len(q) + 1
    BY <1>1, <1>3, <2>1, <2>2, ZenonT(60)
  <2>3. CASE j # Len(q) + 1
    <3>1. j \in 1..Len(q) /\ t[i] = q[i] /\ t[j] = q[j]
      BY <1>1, <2>1, <2>3, ZenonT(60)
    <3> QED
      BY <2>1, <3>1, ZenonT(60) DEF InOrder
  <2> QED
    BY <2>2, <2>3, Zenon
<1>5. \A i \in 1..Len(o), j \in 1..Len(t) : Before(o[i], t[j])
  BY <1>1, <1>2, ZenonT(60) DEF InOrder
<1>6. c <= c
  BY SMTT(60), Z3T(60)
<1>7. \A j \in 1..Len(t) : t[j].count <= c
  BY <1>1, <1>6, ZenonT(60) DEF InOrder
<1>8. InOrder(o, t, c)
  BY <1>4, <1>5, <1>7, ZenonT(60) DEF InOrder
<1>9. \A id : Terminal(t, id) => Terminal(q, id) \/ id = line.id
  BY <1>1, Zenon DEF Terminal
<1> QED
  BY <1>8, <1>9, ZenonT(60) DEF t

\* Writing the first line of the queue keeps the order.
LEMMA WriteInOrder ==
  ASSUME NEW o \in Seq(Line), NEW q \in Seq(Line), q # <<>>, NEW c, InOrder(o, q, c)
  PROVE  /\ InOrder(o, Tail(q), c) /\ InOrder(Append(o, Head(q)), Tail(q), c)
         /\ \A id : Terminal(Tail(q), id) => Terminal(q, id)
         /\ \A id : Terminal(Append(o, Head(q)), id) => Terminal(o, id) \/ Terminal(q, id)
<1> DEFINE u == Append(o, Head(q))
           t == Tail(q)
<1>1. /\ Head(q) \in Line /\ Head(q) = q[1] /\ Len(q) \in Nat \ {0} /\ Len(t) = Len(q) - 1
      /\ \A i \in 1..Len(q) - 1 : t[i] = q[i + 1] /\ i + 1 \in 1..Len(q)
  BY TailFacts, ZenonT(60)
<1>2. InOrder(o, t, c) /\ \A id : Terminal(t, id) => Terminal(q, id)
  BY TailSelected, SelectedFacts, ZenonT(60)
<1>3. /\ Len(o) \in Nat /\ Len(u) = Len(o) + 1
      /\ \A i \in 1..Len(o) : u[i] = o[i]
      /\ u[Len(o) + 1] = q[1]
      /\ \A i \in 1..Len(o) + 1 : i # Len(o) + 1 => i \in 1..Len(o)
  BY <1>1, AppendFacts, SMTT(60), Z3T(60)
<1> HIDE DEF u, t
<1>4. 1 \in 1..Len(q)
  BY <1>1, SMTT(60), Z3T(60)
<1>5. ASSUME NEW i \in 1..Len(u), NEW j \in 1..Len(u), i < j PROVE Before(u[i], u[j])
  <2>1. i \in 1..Len(o) /\ u[i] = o[i]
    BY <1>3, <1>5, SMTT(60), Z3T(60)
  <2>2. CASE j = Len(o) + 1
    BY <1>3, <1>4, <2>1, <2>2, ZenonT(60) DEF InOrder
  <2>3. CASE j # Len(o) + 1
    <3>1. j \in 1..Len(o) /\ u[j] = o[j]
      BY <1>3, <2>3, ZenonT(60)
    <3> QED
      BY <1>5, <2>1, <3>1, ZenonT(60) DEF InOrder
  <2> QED
    BY <2>2, <2>3, ZenonT(60)
<1>6. ASSUME NEW i \in 1..Len(u), NEW j \in 1..Len(t) PROVE Before(u[i], t[j])
  <2>1. CASE i = Len(o) + 1
    <3>1. t[j] = q[j + 1] /\ j + 1 \in 1..Len(q) /\ 1 < j + 1
      BY <1>1, SMTT(60), Z3T(60)
    <3> QED
      BY <1>3, <1>4, <2>1, <3>1, ZenonT(60) DEF InOrder
  <2>2. CASE i # Len(o) + 1
    BY <1>2, <1>3, <2>2, ZenonT(60) DEF InOrder
  <2> QED
    BY <2>1, <2>2, ZenonT(60)
<1>7. \A i \in 1..Len(u) : u[i].count <= c
  BY <1>3, <1>4, Zenon DEF InOrder
<1>8. InOrder(u, t, c)
  BY <1>2, <1>5, <1>6, <1>7, ZenonT(60) DEF InOrder
<1>9. \A id : Terminal(u, id) => Terminal(o, id) \/ Terminal(q, id)
  BY <1>3, <1>4, ZenonT(60) DEF Terminal
<1> QED
  BY <1>2, <1>8, <1>9, ZenonT(60) DEF u, t

\* enqueue_synthetic appends its line to a selection of the queue, or leaves
\* the queue alone.
LEMMA SyntheticSelects ==
  ASSUME queue \in Seq(Line), NEW line \in Line, enqueue_synthetic(line)
  PROVE  \/ queue' = queue
         \/ \E rest \in Seq(Line) : Selected(rest, queue) /\ queue' = Append(rest, line)
<1>1. CASE QueueCapacity = 0
  BY <1>1, Zenon DEF enqueue_synthetic
<1>2. CASE QueueCapacity # 0 /\ Len(queue) < QueueCapacity
  <2>1. queue' = Append(queue, line)
    BY <1>2, ZenonT(60) DEF enqueue_synthetic
  <2>2. Suffix(queue, Len(queue)) = queue /\ Len(queue) \in Nat
    BY LenProperties, SMTT(60), Z3T(60) DEF Suffix
  <2>3. Selected(queue, queue)
    BY <2>2, SuffixSelected, ZenonT(60)
  <2> QED
    BY <2>1, <2>3, ZenonT(60)
<1>3. CASE QueueCapacity # 0 /\ ~(Len(queue) < QueueCapacity) /\ Regular # {}
  <2>1. PICK pos \in Regular : queue' = Append(Remove(queue, pos), line)
    BY <1>3, Zenon DEF enqueue_synthetic
  <2>2. pos \in 1..Len(queue)
    BY Zenon DEF Regular
  <2>3. Remove(queue, pos) \in Seq(Line) /\ Selected(Remove(queue, pos), queue)
    BY <2>2, RemoveExact, RemoveSelected, ZenonT(60)
  <2> QED
    BY <2>1, <2>3, ZenonT(60)
<1>4. CASE QueueCapacity # 0 /\ ~(Len(queue) < QueueCapacity) /\ Regular = {}
  <2>1. queue' = Append(Tail(queue), line)
    BY <1>4, Zenon DEF enqueue_synthetic
  <2>2. queue # <<>>
    <3>1. Len(queue) \in Nat /\ (queue = <<>> => Len(queue) = 0)
      BY LenProperties, EmptySeq, Zenon
    <3> QED
      BY <1>4, <3>1, StatsAssumption, SMTT(60), Z3T(60)
  <2>3. Tail(queue) \in Seq(Line) /\ Selected(Tail(queue), queue)
    BY <2>2, TailFacts, TailSelected, ZenonT(60)
  <2> QED
    BY <2>1, <2>3, Zenon
<1> QED
  BY <1>1, <1>2, <1>3, <1>4, ZenonT(60)

-----------------------------------------------------------------------------
(* The endpoints' lives: registered once, and their last line is the last. *)

Unfinished(id) == ~Terminal(queue, id) /\ ~Terminal(out, id)

Once(id) ==
  /\ life[id] = "new" => ~Sent("Register", id) /\ id \notin registry /\ Unfinished(id)
  /\ id \in registry => Unfinished(id)
  /\ \A i \in 1..Len(channel) : channel[i] = Event("Register", id) =>
       /\ id \notin registry /\ Unfinished(id)
       /\ \A j \in 1..Len(channel) : channel[j] = Event("Register", id) => j = i

OrderInv == InOrder(out, queue, count) /\ \A id \in Ids : Once(id)

LEMMA RegistersOrder ==
  ASSUME Inv, OrderInv, NEW id \in Ids, RouterRegisters(id)
  PROVE  OrderInv'
<1> DEFINE e == Event("Register", id)
<1>1. /\ life[id] = "new" /\ life' = [life EXCEPT ![id] = "live"]
      /\ UNCHANGED <<count, registry, queue, out>>
      /\ channel' = channel \/ channel' = Append(channel, e)
  BY Zenon DEF RouterRegisters, taskVars, forward_stats
<1>2. life \in [Ids -> {"new", "live", "gone"}] /\ channel \in Seq(Events)
  BY Zenon DEF Inv, Typed
<1>3. life'[id] = "live" /\ \A other \in Ids : other # id => life'[other] = life[other]
  BY <1>1, <1>2, ZenonT(60)
<1>4. InOrder(out, queue, count)'
  BY <1>1, ZenonT(60) DEF OrderInv
<1>5. \A other : Unfinished(other)' <=> Unfinished(other)
  BY <1>1, ZenonT(60) DEF Unfinished
<1>6. Once(id) /\ \A other \in Ids : Once(other)
  BY ZenonT(60) DEF OrderInv
<1>7. CASE channel' = channel
  BY <1>1, <1>3, <1>4, <1>5, <1>6, <1>7, SMTT(60), Z3T(60) DEF OrderInv, Once, Sent
<1>8. CASE channel' = Append(channel, e)
  <2>1. /\ Len(channel) \in Nat /\ Len(channel') = Len(channel) + 1
        /\ \A i \in 1..Len(channel) : channel'[i] = channel[i] /\ i \in 1..Len(channel')
        /\ channel'[Len(channel) + 1] = e
        /\ \A i \in 1..Len(channel') : i # Len(channel) + 1 => i \in 1..Len(channel)
    BY <1>2, <1>8, AppendFacts, EventFacts, SMTT(60), Z3T(60)
  <2>2. ~Sent("Register", id) /\ id \notin registry /\ Unfinished(id)
    BY <1>1, <1>6, ZenonT(60) DEF Once
  <2>3. Once(id)'
    <3>1. \A j \in 1..Len(channel') : channel'[j] = e => j = Len(channel) + 1
      BY <2>1, <2>2, ZenonT(60) DEF Sent
    <3> QED
      BY <1>1, <1>3, <1>5, <2>2, <3>1, ZenonT(60) DEF Once
  <2>4. ASSUME NEW other \in Ids, other # id PROVE Once(other)'
    <3>1. \A j \in 1..Len(channel') : channel'[j] = Event("Register", other) =>
            j \in 1..Len(channel) /\ channel[j] = Event("Register", other)
      BY <2>1, <2>4, EventFacts, ZenonT(60)
    <3>2. Once(other) /\ life'[other] = life[other]
      BY <1>3, <1>6, <2>4, Zenon
    <3>3. Sent("Register", other)' => Sent("Register", other)
      BY <3>1, ZenonT(60) DEF Sent
    <3>4. ASSUME NEW i \in 1..Len(channel'), channel'[i] = Event("Register", other)
          PROVE  /\ other \notin registry' /\ Unfinished(other)'
                 /\ \A j \in 1..Len(channel') : channel'[j] = Event("Register", other) => j = i
      <4>1. i \in 1..Len(channel) /\ channel[i] = Event("Register", other)
        BY <3>1, <3>4, ZenonT(60)
      <4> QED
        BY <1>1, <1>5, <3>1, <3>2, <4>1, ZenonT(60) DEF Once
    <3> QED
      BY <1>1, <1>5, <3>2, <3>3, <3>4, ZenonT(60) DEF Once
  <2> QED
    BY <1>4, <2>3, <2>4, ZenonT(60) DEF OrderInv
<1> QED
  BY <1>1, <1>7, <1>8, ZenonT(60)

LEMMA FinalizesOrder ==
  ASSUME Inv, OrderInv, NEW id \in Ids, RouterFinalizes(id)
  PROVE  OrderInv'
<1> DEFINE e == Event("Finalize", id)
<1>1. /\ life' = [life EXCEPT ![id] = "gone"]
      /\ UNCHANGED <<count, registry, queue, out>>
      /\ channel' = channel \/ channel' = Append(channel, e)
  BY ZenonT(60) DEF RouterFinalizes, taskVars, forward_stats
<1>2. life \in [Ids -> {"new", "live", "gone"}] /\ channel \in Seq(Events)
  BY Zenon DEF Inv, Typed
<1>3. \A other \in Ids : life'[other] = "new" => life[other] = "new"
  BY <1>1, <1>2, ZenonT(60)
<1>4. InOrder(out, queue, count)'
  BY <1>1, Zenon DEF OrderInv
<1>5. \A other : Unfinished(other)' <=> Unfinished(other)
  BY <1>1, ZenonT(60) DEF Unfinished
<1>6. \A other \in Ids, j \in 1..Len(channel') : channel'[j] = Event("Register", other) =>
        j \in 1..Len(channel) /\ channel[j] = Event("Register", other)
  <2>1. CASE channel' = channel
    BY <2>1, ZenonT(60)
  <2>2. CASE channel' = Append(channel, e)
    <3>1. /\ \A i \in 1..Len(channel) : channel'[i] = channel[i]
          /\ channel'[Len(channel) + 1] = e
          /\ \A i \in 1..Len(channel') : i # Len(channel) + 1 => i \in 1..Len(channel)
      BY <1>2, <2>2, AppendFacts, EventFacts, SMTT(60), Z3T(60)
    <3>2. \A other : e # Event("Register", other)
      BY Zenon DEF Event
    <3> QED
      BY <3>1, <3>2, ZenonT(60)
  <2> QED
    BY <1>1, <2>1, <2>2, ZenonT(60)
<1>7. ASSUME NEW other \in Ids PROVE Once(other)'
  <2>1. Once(other)
    BY Zenon DEF OrderInv
  <2>2. Sent("Register", other)' => Sent("Register", other)
    BY <1>6, Zenon DEF Sent
  <2>3. ASSUME NEW i \in 1..Len(channel'), channel'[i] = Event("Register", other)
        PROVE  /\ other \notin registry' /\ Unfinished(other)'
               /\ \A j \in 1..Len(channel') : channel'[j] = Event("Register", other) => j = i
    <3>1. i \in 1..Len(channel) /\ channel[i] = Event("Register", other)
      BY <1>6, <2>3, ZenonT(60)
    <3> QED
      BY <1>1, <1>5, <1>6, <2>1, <3>1, ZenonT(60) DEF Once
  <2> QED
    BY <1>1, <1>3, <1>5, <2>1, <2>2, <2>3, ZenonT(60) DEF Once
<1> QED
  BY <1>4, <1>7, ZenonT(60) DEF OrderInv

\* Steps of the task that take nothing from the channel.
LEMMA SameOnce ==
  ASSUME NEW id, Once(id), Unfinished(id) => Unfinished(id)', UNCHANGED <<life, channel, registry>>
  PROVE  Once(id)'
<1>1. Sent("Register", id)' <=> Sent("Register", id)
  BY Zenon DEF Sent
<1> QED
  BY <1>1, ZenonT(60) DEF Once

LEMMA WriteOrder ==
  ASSUME Inv, OrderInv, WriteLine
  PROVE  OrderInv'
<1>1. /\ queue # <<>> /\ queue' = Tail(queue)
      /\ out' = out \/ out' = Append(out, Head(queue))
      /\ UNCHANGED <<life, channel, count, registry>>
  BY Zenon DEF WriteLine, routerVars
<1>2. queue \in Seq(Line) /\ out \in Seq(Line) /\ InOrder(out, queue, count)
  BY Zenon DEF Inv, Typed, OrderInv
<1>3. /\ InOrder(out', queue', count)
      /\ \A id : Terminal(queue', id) => Terminal(queue, id)
      /\ \A id : Terminal(out', id) => Terminal(out, id) \/ Terminal(queue, id)
  <2>1. /\ InOrder(out, Tail(queue), count)
        /\ InOrder(Append(out, Head(queue)), Tail(queue), count)
        /\ \A id : Terminal(Tail(queue), id) => Terminal(queue, id)
        /\ \A id : Terminal(Append(out, Head(queue)), id) =>
             Terminal(out, id) \/ Terminal(queue, id)
    BY <1>1, <1>2, WriteInOrder, ZenonT(60)
  <2> QED
    BY <1>1, <2>1, ZenonT(60)
<1>4. \A id : Unfinished(id) => Unfinished(id)'
  BY <1>3, Zenon DEF Unfinished
<1>5. \A id \in Ids : Once(id)'
  BY <1>1, <1>4, SameOnce, ZenonT(60) DEF OrderInv
<1> QED
  BY <1>1, <1>3, <1>5, ZenonT(60) DEF OrderInv

LEMMA TickOrder ==
  ASSUME Inv, OrderInv, IntervalTick
  PROVE  OrderInv'
<1>1. pc = "select" /\ UNCHANGED <<life, channel, count, registry, out>>
  BY Zenon DEF IntervalTick, routerVars
<1>2. /\ queue = <<>> /\ Typed /\ out \in Seq(Line) /\ count \in Nat
      /\ InOrder(out, queue, count)
  BY <1>1, StatsAssumption, SMTT(60), Z3T(60) DEF Inv, Typed, OrderInv
<1>3. PICK order \in Orders(registry) :
        enqueue_regular([i \in DOMAIN order |-> build_line(order[i], FALSE)])
  BY Zenon DEF IntervalTick
<1> DEFINE n     == Cardinality(registry)
           lines == [i \in DOMAIN order |-> build_line(order[i], FALSE)]
<1>4. n \in Nat /\ registry \subseteq Ids
  BY <1>2, FS_CardinalityType, Zenon DEF Typed
<1>5. order \in [1..n -> registry] /\ \A i, j \in 1..n : order[i] = order[j] => i = j
  BY Zenon DEF Orders
<1>6. ASSUME NEW i \in 1..n
      PROVE  /\ lines[i] \in Line /\ lines[i].id = order[i] /\ lines[i].count = count
             /\ ~lines[i].synthetic
  <2>1. lines[i] = build_line(order[i], FALSE) /\ order[i] \in Ids
    BY <1>4, <1>5, ZenonT(60)
  <2>2. FALSE \in BOOLEAN
    BY Zenon
  <2>3. build_line(order[i], FALSE) \in Line /\ build_line(order[i], FALSE).id = order[i]
        /\ build_line(order[i], FALSE).synthetic = FALSE
    BY <1>2, <2>1, <2>2, LineFacts, ZenonT(60)
  <2>4. build_line(order[i], FALSE).count = count
    BY Zenon DEF build_line
  <2> QED
    BY <2>1, <2>3, <2>4, ZenonT(60)
<1>7. lines \in [1..n -> Line]
  <2>1. DOMAIN lines = 1..n /\ lines = [i \in DOMAIN lines |-> lines[i]]
    BY <1>5, ZenonT(60)
  <2> QED
    BY <1>6, <2>1, ZenonT(60)
<1>8. lines \in Seq(Line) /\ Len(lines) = n
  <2>1. lines \in Seq(Line)
    BY <1>4, <1>7, FunctionIsSeq, ZenonT(60)
  <2>2. DOMAIN lines = 1..n
    BY <1>7, ZenonT(60)
  <2> HIDE DEF lines
  <2> QED
    BY <1>4, <2>1, <2>2, LenProperties, SMTT(60), Z3T(60)
<1>9. queue' = Suffix(queue \o lines, QueueCapacity)
  BY <1>3, ZenonT(60) DEF enqueue_regular
<1> HIDE DEF lines
<1>10. queue \o lines = lines
  BY <1>2, <1>8, SMTT(60), Z3T(60)
<1>11. Selected(queue', lines)
  BY <1>8, <1>9, <1>10, SuffixSelected, StatsAssumption, ZenonT(60)
<1>12. ASSUME NEW i \in 1..Len(out), NEW j \in 1..n PROVE Before(out[i], lines[j])
  <2>1. order[j] \in registry /\ order[j] \in Ids
    BY <1>4, <1>5, ZenonT(60)
  <2>2. ~Terminal(out, order[j])
    BY <2>1, ZenonT(60) DEF OrderInv, Once, Unfinished
  <2>3. out[i].id = order[j] => ~out[i].synthetic
    BY <2>2, ZenonT(60) DEF Terminal
  <2>4. out[i].count <= count
    BY <1>2, ZenonT(60) DEF InOrder
  <2> QED
    BY <1>6, <2>3, <2>4, ZenonT(60) DEF Before
<1>13. count <= count
  BY <1>2, SMTT(60), Z3T(60)
<1>14. \A i, j \in 1..n : i < j => Before(lines[i], lines[j])
  <2> SUFFICES ASSUME NEW i \in 1..n, NEW j \in 1..n PROVE Before(lines[i], lines[j])
    BY Zenon
  <2> QED
    BY <1>6, <1>13, ZenonT(60) DEF Before
<1>15. InOrder(out, lines, count)
  BY <1>2, <1>6, <1>8, <1>12, <1>13, <1>14, ZenonT(60) DEF InOrder
<1>16. \A id : ~Terminal(lines, id)
  BY <1>6, <1>8, ZenonT(60) DEF Terminal
<1>17. InOrder(out, queue', count) /\ \A id : ~Terminal(queue', id)
  BY <1>11, <1>15, <1>16, SelectedFacts, ZenonT(60)
<1>18. \A id : Unfinished(id) => Unfinished(id)'
  BY <1>1, <1>17, ZenonT(60) DEF Unfinished
<1>19. \A id \in Ids : Once(id)'
  BY <1>1, <1>18, SameOnce, ZenonT(60) DEF OrderInv
<1> QED
  BY <1>1, <1>17, <1>19, ZenonT(60) DEF OrderInv

LEMMA ReceiveOrder ==
  ASSUME Inv, OrderInv, ReceiveEvent \/ PostReceive
  PROVE  OrderInv'
<1>1. /\ channel # <<>> /\ channel' = Tail(channel) /\ handle_event(Head(channel))
      /\ UNCHANGED <<life, count, out>>
  BY ZenonT(60) DEF ReceiveEvent, PostReceive
<1> DEFINE e  == Head(channel)
           id == e.id
<1>2. /\ channel \in Seq(Events) /\ queue \in Seq(Line) /\ out \in Seq(Line) /\ Typed
      /\ count \in Nat /\ InOrder(out, queue, count) /\ \A other \in Ids : Once(other)
  BY StatsAssumption, SMTT(60), Z3T(60) DEF Inv, Typed, OrderInv
<1>3. /\ e \in Events /\ e = channel[1] /\ 1 \in 1..Len(channel)
      /\ \A i \in 1..Len(channel') : channel'[i] = channel[i + 1] /\ i + 1 \in 1..Len(channel)
      /\ \A i, j \in 1..Len(channel') : i + 1 = j + 1 => i = j
      /\ \A i \in 1..Len(channel') : i + 1 # 1
  BY <1>1, <1>2, TailFacts, SMTT(60), Z3T(60)
<1>4. id \in Ids
  BY <1>3, EventCases, ZenonT(60)
<1>5. ASSUME NEW other \in Ids, NEW i \in 1..Len(channel'), channel'[i] = Event("Register", other)
      PROVE  /\ Sent("Register", other) /\ other \notin registry /\ Unfinished(other)
             /\ e # Event("Register", other)
             /\ \A j \in 1..Len(channel') : channel'[j] = Event("Register", other) => j = i
  <2>1. i + 1 \in 1..Len(channel) /\ channel[i + 1] = Event("Register", other)
    BY <1>3, <1>5, ZenonT(60)
  <2>2. /\ other \notin registry /\ Unfinished(other)
        /\ \A j \in 1..Len(channel) : channel[j] = Event("Register", other) => j = i + 1
    BY <1>2, <2>1, ZenonT(60) DEF Once
  <2> QED
    BY <1>3, <2>1, <2>2, ZenonT(60) DEF Sent
<1>6. \A other \in Ids : Sent("Register", other)' => Sent("Register", other)
  BY <1>5, ZenonT(60) DEF Sent
<1> HIDE DEF e
<1>7. CASE e.kind = "Register"
  <2>1. registry' = registry \cup {id} /\ UNCHANGED queue /\ e = Event("Register", id)
    BY <1>1, <1>3, <1>7, EventCases, EventFacts, ZenonT(60) DEF handle_event, e
  <2>2. Unfinished(id) /\ life[id] # "new"
    BY <1>2, <1>3, <1>4, <2>1, ZenonT(60) DEF Once, Sent
  <2>3. \A other : Unfinished(other)' <=> Unfinished(other)
    BY <1>1, <2>1, ZenonT(60) DEF Unfinished
  <2>4. ASSUME NEW other \in Ids PROVE Once(other)'
    <3>1. \A i \in 1..Len(channel') : channel'[i] = Event("Register", other) =>
            /\ other \notin registry' /\ Unfinished(other)'
            /\ \A j \in 1..Len(channel') : channel'[j] = Event("Register", other) => j = i
      BY <1>5, <2>1, <2>3, ZenonT(60)
    <3>2. other \in registry' => Unfinished(other)'
      BY <1>2, <2>1, <2>2, <2>3, ZenonT(60) DEF Once
    <3>3. life'[other] = "new" => /\ ~Sent("Register", other)' /\ other \notin registry'
                                  /\ Unfinished(other)'
      BY <1>1, <1>2, <1>6, <2>1, <2>2, <2>3, ZenonT(60) DEF Once
    <3> QED
      BY <3>1, <3>2, <3>3, ZenonT(60) DEF Once
  <2> QED
    BY <1>1, <1>2, <2>1, <2>4, ZenonT(60) DEF OrderInv
<1>8. CASE e.kind = "Finalize"
  <2> DEFINE line == build_line(id, TRUE)
  <2>1. /\ registry' = registry \ {id} /\ e = Event("Finalize", id)
        /\ IF Enabled /\ id \in registry THEN enqueue_synthetic(line) ELSE UNCHANGED queue
    BY <1>1, <1>3, <1>8, EventCases, EventFacts, ZenonT(60) DEF handle_event, e
  <2>2. line \in Line /\ line.id = id /\ line.count = count
    <3>1. TRUE \in BOOLEAN
      BY Zenon
    <3>2. line \in Line /\ line.id = id
      BY <1>2, <1>4, <3>1, LineFacts, ZenonT(60)
    <3>3. line.count = count
      BY Zenon DEF build_line
    <3> QED
      BY <3>2, <3>3, ZenonT(60)
  <2> HIDE DEF line
  <2>3. CASE queue' = queue
    <3>1. \A other : Unfinished(other)' <=> Unfinished(other)
      BY <1>1, <2>3, ZenonT(60) DEF Unfinished
    <3>2. ASSUME NEW other \in Ids PROVE Once(other)'
      <4>1. \A i \in 1..Len(channel') : channel'[i] = Event("Register", other) =>
              /\ other \notin registry' /\ Unfinished(other)'
              /\ \A j \in 1..Len(channel') : channel'[j] = Event("Register", other) => j = i
        BY <1>5, <2>1, <3>1, ZenonT(60)
      <4>2. other \in registry' => Unfinished(other)'
        BY <1>2, <2>1, <3>1, ZenonT(60) DEF Once
      <4>3. life'[other] = "new" => /\ ~Sent("Register", other)' /\ other \notin registry'
                                    /\ Unfinished(other)'
        BY <1>1, <1>2, <1>6, <2>1, <3>1, ZenonT(60) DEF Once
      <4> QED
        BY <4>1, <4>2, <4>3, Zenon DEF Once
    <3> QED
      BY <1>1, <1>2, <2>3, <3>2, ZenonT(60) DEF OrderInv
  <2>4. ASSUME id \in registry, NEW rest \in Seq(Line), Selected(rest, queue),
               queue' = Append(rest, line)
        PROVE  OrderInv'
    <3>1. InOrder(out, rest, count) /\ \A other : Terminal(rest, other) => Terminal(queue, other)
      BY <1>2, <2>4, SelectedFacts, ZenonT(60)
    <3>2. ~Terminal(out, id) /\ ~Terminal(queue, id)
      BY <1>2, <1>4, <2>4, ZenonT(60) DEF Once, Unfinished
    <3>3. /\ InOrder(out, queue', count)
          /\ \A other : Terminal(queue', other) => Terminal(rest, other) \/ other = id
      BY <1>2, <2>2, <2>4, <3>1, <3>2, AppendInOrder, ZenonT(60)
    <3>4. \A other : other # id /\ Unfinished(other) => Unfinished(other)'
      BY <1>1, <3>1, <3>3, ZenonT(60) DEF Unfinished
    <3>5. ASSUME NEW other \in Ids PROVE Once(other)'
      <4>1. \A i \in 1..Len(channel') : channel'[i] = Event("Register", other) =>
              /\ other \notin registry' /\ Unfinished(other)'
              /\ \A j \in 1..Len(channel') : channel'[j] = Event("Register", other) => j = i
        BY <1>5, <2>1, <2>4, <3>4, ZenonT(60)
      <4>2. other \in registry' => Unfinished(other)'
        BY <1>2, <2>1, <3>4, ZenonT(60) DEF Once
      <4>3. life'[other] = "new" => /\ ~Sent("Register", other)' /\ other \notin registry'
                                    /\ Unfinished(other)'
        BY <1>1, <1>2, <1>6, <2>1, <2>4, <3>4, ZenonT(60) DEF Once
      <4> QED
        BY <4>1, <4>2, <4>3, ZenonT(60) DEF Once
    <3> QED
      BY <1>1, <3>3, <3>5, ZenonT(60) DEF OrderInv
  <2>5. CASE Enabled /\ id \in registry
    <3>1. \/ queue' = queue
          \/ \E rest \in Seq(Line) : Selected(rest, queue) /\ queue' = Append(rest, line)
      BY <1>2, <2>1, <2>2, <2>5, SyntheticSelects, ZenonT(60)
    <3> QED
      BY <2>3, <2>4, <2>5, <3>1, ZenonT(60)
  <2>6. CASE ~(Enabled /\ id \in registry)
    BY <2>1, <2>3, <2>6, ZenonT(60)
  <2> QED
    BY <2>5, <2>6, ZenonT(60)
<1> QED
  BY <1>3, <1>7, <1>8, EventCases, ZenonT(60)

LEMMA CountOrder ==
  ASSUME Inv, OrderInv, UNCHANGED <<life, channel, registry, queue, out>>,
         count' \in Nat, count <= count'
  PROVE  OrderInv'
<1>1. \A id \in Ids : Once(id)'
  <2>1. \A id : Unfinished(id)' <=> Unfinished(id)
    BY Zenon DEF Unfinished
  <2> QED
    BY <2>1, SameOnce, ZenonT(60) DEF OrderInv
<1>2. count \in Nat /\ queue \in Seq(Line) /\ out \in Seq(Line)
  BY StatsAssumption, SMTT(60), Z3T(60) DEF Inv, Typed
<1>3. \A i \in 1..Len(queue) : queue[i].count \in Nat /\ queue[i].count <= count
  BY <1>2, LineTypes, ZenonT(60) DEF OrderInv, InOrder
<1>4. \A i \in 1..Len(out) : out[i].count \in Nat /\ out[i].count <= count
  BY <1>2, LineTypes, ZenonT(60) DEF OrderInv, InOrder
<1>5. \A i \in 1..Len(queue) : queue[i].count <= count'
  BY <1>2, <1>3, SMTT(60), Z3T(60)
<1>6. \A i \in 1..Len(out) : out[i].count <= count'
  BY <1>2, <1>4, SMTT(60), Z3T(60)
<1>7. InOrder(out, queue, count)'
  BY <1>5, <1>6, ZenonT(60) DEF OrderInv, InOrder
<1> QED
  BY <1>1, <1>7, ZenonT(60) DEF OrderInv

\* The receiver goes: there is nothing left to register.
LEMMA ClosingOrder ==
  ASSUME OrderInv, channel' = <<>>, UNCHANGED <<life, registry, queue, out, count>>
  PROVE  OrderInv'
<1>1. Len(<<>>) = 0 /\ 1..0 = {}
  BY EmptySeq, SMTT(60), Z3T(60)
<1>2. \A id : (Unfinished(id)' <=> Unfinished(id)) /\ ~Sent("Register", id)'
  BY <1>1, ZenonT(60) DEF Unfinished, Sent
<1>3. \A id \in Ids : Once(id)'
  BY <1>1, <1>2, ZenonT(60) DEF OrderInv, Once
<1> QED
  BY <1>3, ZenonT(60) DEF OrderInv

LEMMA InitOrder == Init => OrderInv
<1> SUFFICES ASSUME Init PROVE OrderInv
  BY Zenon
<1>1. channel = <<>> /\ queue = <<>> /\ out = <<>> /\ registry = {}
  BY Zenon DEF Init
<1>2. Len(<<>>) = 0 /\ 1..0 = {}
  BY EmptySeq, SMTT(60), Z3T(60)
<1>3. InOrder(out, queue, count)
  BY <1>1, <1>2, ZenonT(60) DEF InOrder
<1>4. \A id : Unfinished(id) /\ ~Sent("Register", id)
  BY <1>1, <1>2, ZenonT(60) DEF Unfinished, Terminal, Sent
<1>5. \A id : Once(id)
  BY <1>1, <1>2, <1>4, ZenonT(60) DEF Once
<1> QED
  BY <1>3, <1>5, ZenonT(60) DEF OrderInv

LEMMA NextOrder == Inv /\ OrderInv /\ [Next]_vars => OrderInv'
<1> SUFFICES ASSUME Inv, OrderInv, [Next]_vars PROVE OrderInv'
  BY ZenonT(60)
<1>1. count \in Nat /\ count <= count
  BY StatsAssumption, SMTT(60), Z3T(60) DEF Inv, Typed
<1>2. CASE EndpointsCount
  <2>1. count' \in Nat /\ count <= count'
    BY <1>1, <1>2, SMTT(60), Z3T(60) DEF EndpointsCount
  <2>2. UNCHANGED <<life, channel, registry, queue, out>>
    BY <1>2, ZenonT(60) DEF EndpointsCount, routerVars, taskVars
  <2> QED
    BY <2>1, <2>2, CountOrder, ZenonT(60)
<1>3. CASE RouterReturns \/ StdoutChanges \/ Cancel \/ Drained \/ Aborted \/ OthersEnd \/ Tick
           \/ LeaveLoop \/ PostEnd \/ UNCHANGED vars
  <2>1. UNCHANGED <<life, channel, registry, queue, out, count>>
    BY <1>3, ZenonT(60)
       DEF RouterReturns, StdoutChanges, Cancel, Drained, Aborted, OthersEnd, Tick, vars,
           routerVars, taskVars, LeaveLoop, PostEnd
  <2> QED
    BY <1>1, <2>1, CountOrder, ZenonT(60)
<1>4. CASE Finish \/ DrainBudgetSpent
  <2>1. UNCHANGED <<life, registry, queue, out, count>> /\ (channel' = channel \/ channel' = <<>>)
    BY <1>4, ZenonT(60) DEF Finish, DrainBudgetSpent, DropReceiver
  <2> QED
    BY <1>1, <2>1, CountOrder, ClosingOrder, ZenonT(60)
<1> QED
  BY <1>2, <1>3, <1>4, RegistersOrder, FinalizesOrder, TickOrder, ReceiveOrder, WriteOrder, ZenonT(60)
     DEF Next, TaskStep

\* What a reader of stdout sees of an endpoint never goes back and ends with its
\* terminal line, whatever the sizes of the channel and of the queue, whatever
\* they dropped and however the writes failed: enqueue_regular and
\* enqueue_synthetic only leave lines out, drain_queue writes in their order,
\* and handle_event forgets an endpoint with its last line.
THEOREM OutputOrderedHolds == Spec => []OutputOrdered
<1>1. OrderInv => OutputOrdered
  BY ZenonT(60) DEF OrderInv, InOrder, Before, OutputOrdered
<1>2. Spec => []Inv
  BY InitInv, NextInv, PTL DEF Spec
<1>3. Inv /\ OrderInv /\ [Next]_vars => OrderInv'
  BY NextOrder, Zenon
<1> QED
  BY <1>1, <1>2, <1>3, InitOrder, PTL DEF Spec

=============================================================================
