----------------------------- MODULE DedupProofs ------------------------------
(***************************************************************************)
(* The dedup window, proved for every capacity, ttl, set of hashes and     *)
(* length of a run.  RingSetAgree: the ring never holds a hash twice, so   *)
(* that a hash which leaves the set with its entry, by expiry or by        *)
(* eviction, is the hash of no entry that stays.  SuppressedExactly: the   *)
(* entries of the ring stand for the frames that were let through last, in *)
(* their order, so that the deadlines ascend, expiry stops where it        *)
(* should, and as many frames were let through after an entry as there are *)
(* entries behind it (Tracks).                                             *)
(***************************************************************************)
EXTENDS DedupWindow, FiniteSetTheorems, TLAPS

-----------------------------------------------------------------------------
(* Sequences. *)

\* The empty sequence, and that every other one has an element.
LEMMA Seq_Empty ==
  ASSUME NEW S
  PROVE  /\ <<>> \in Seq(S)
         /\ Len(<<>>) = 0
         /\ \A s \in Seq(S) : s # <<>> => Len(s) \in Nat \ {0}
BY SMTT(60), Z3T(60)

\* The length, the domain and the range of a sequence.
LEMMA Seq_Len ==
  ASSUME NEW S, NEW s \in Seq(S)
  PROVE  /\ Len(s) \in Nat
         /\ s \in [1..Len(s) -> S]
         /\ DOMAIN s = 1..Len(s)
BY SMTT(60), Z3T(60)

\* Sequences of one length with the same elements are the same.
LEMMA Seq_Equal ==
  ASSUME NEW S, NEW s \in Seq(S), NEW t \in Seq(S),
         Len(s) = Len(t), \A i \in 1..Len(s) : s[i] = t[i]
  PROVE  s = t
BY SMTT(60), Z3T(60)

\* A stretch of a sequence, element by element.
LEMMA Seq_SubSeq ==
  ASSUME NEW S, NEW s, NEW m \in Int, NEW n \in Int, \A i \in m..n : s[i] \in S
  PROVE  /\ SubSeq(s, m, n) \in Seq(S)
         /\ Len(SubSeq(s, m, n)) = IF m <= n THEN n - m + 1 ELSE 0
         /\ \A i \in 1..(n - m + 1) : SubSeq(s, m, n)[i] = s[m + i - 1]
BY SMTT(60), Z3T(60)

\* The two parts of a queue that is popped.
LEMMA Seq_HeadTail ==
  ASSUME NEW S, NEW s \in Seq(S), s # <<>>
  PROVE  /\ Head(s) \in S
         /\ Tail(s) \in Seq(S)
         /\ Len(Tail(s)) = Len(s) - 1
         /\ \A i \in 1..Len(Tail(s)) : Tail(s)[i] = s[i + 1]
BY SMTT(60), Z3T(60)

\* The tail as a stretch.
LEMMA Seq_TailIsSubSeq ==
  ASSUME NEW S, NEW s \in Seq(S), s # <<>>
  PROVE  Tail(s) = SubSeq(s, 2, Len(s))
BY SMTT(60), Z3T(60)

\* A queue that is pushed to.
LEMMA Seq_Append ==
  ASSUME NEW S, NEW s \in Seq(S), NEW e \in S
  PROVE  /\ Append(s, e) \in Seq(S)
         /\ Append(s, e) # <<>>
         /\ Len(Append(s, e)) = Len(s) + 1
         /\ \A i \in 1..Len(s) : Append(s, e)[i] = s[i]
         /\ Append(s, e)[Len(s) + 1] = e
BY SMTT(60), Z3T(60)

-----------------------------------------------------------------------------
(* The window. *)

\* A set that 1..n numbers without repetition has n elements.
LEMMA Set_Counted ==
  ASSUME NEW S, NEW n \in Nat, NEW f \in [1..n -> S],
         \A i, j \in 1..n : f[i] = f[j] => i = j,
         \A x \in S : \E i \in 1..n : f[i] = x
  PROVE  Cardinality(S) = n
<1>1. f \in Bijection(1..n, S)
  BY Zenon DEF Bijection, Injection, Surjection, IsInjective
<1>2. ExistsBijection(1..n, S)
  BY <1>1, Zenon DEF ExistsBijection
<1> QED
  BY <1>2, FS_CountingElements, Zenon

Entry == [hash : Hashes, deadline : Nat]

HashesIn(r) == {r[i].hash : i \in 1..Len(r)}

Distinct(r) == \A i, j \in 1..Len(r) : r[i].hash = r[j].hash => i = j

\* A ring and a set that go together.
Agree(r, s) == r \in Seq(Entry) /\ Distinct(r) /\ s = HashesIn(r)

Inv ==
    /\ ttl \in Nat /\ now \in Nat
    /\ Agree(ring, set)
    /\ Len(ring) <= capacity

-----------------------------------------------------------------------------
LEMMA CapacityFacts == capacity \in Nat /\ capacity >= 1
  BY DedupAssumption, SMTT(60), Z3T(60) DEF capacity

\* Entries that leave from the head take their hashes with them.
LEMMA DropAgrees ==
    ASSUME NEW r, NEW s, Agree(r, s), NEW k \in 0..Len(r)
    PROVE  LET t == SubSeq(r, k + 1, Len(r))
           IN  /\ Len(t) = Len(r) - k
               /\ Agree(t, s \ {r[i].hash : i \in 1..k})
<1> DEFINE t == SubSeq(r, k + 1, Len(r))
           gone == {r[i].hash : i \in 1..k}
<1>1. /\ r \in Seq(Entry) /\ Distinct(r) /\ s = HashesIn(r)
      /\ Len(r) \in Nat /\ k \in Nat /\ k <= Len(r) /\ \A i \in 1..Len(r) : r[i] \in Entry
  BY Seq_Len, SMTT(60), Z3T(60) DEF Agree
<1>2. \A i \in k + 1..Len(r) : r[i] \in Entry
  BY <1>1, SMTT(60), Z3T(60)
<1>3. /\ t \in Seq(Entry) /\ Len(t) = IF k + 1 <= Len(r) THEN Len(r) - (k + 1) + 1 ELSE 0
      /\ \A i \in 1..Len(r) - (k + 1) + 1 : t[i] = r[(k + 1) + i - 1]
  BY <1>1, <1>2, Seq_SubSeq, SMTT(60), Z3T(60)
<1> HIDE DEF t
<1>4. Len(t) = Len(r) - k
  BY <1>1, <1>3, SMTT(60), Z3T(60)
<1>5. \A i \in 1..Len(t) : t[i] = r[k + i]
  <2> SUFFICES ASSUME NEW i \in 1..Len(t) PROVE t[i] = r[k + i]
    BY Zenon
  <2>1. i \in 1..Len(r) - (k + 1) + 1 /\ (k + 1) + i - 1 = k + i
    BY <1>1, <1>4, SMTT(60), Z3T(60)
  <2> QED
    BY <1>3, <2>1, Zenon
<1>6. \A i \in 1..Len(t) : k + i \in 1..Len(r) /\ ~(k + i \in 1..k)
  BY <1>1, <1>4, SMTT(60), Z3T(60)
<1>7. Distinct(t)
  <2> SUFFICES ASSUME NEW i \in 1..Len(t), NEW j \in 1..Len(t), t[i].hash = t[j].hash
               PROVE  i = j
    BY Zenon DEF Distinct
  <2>1. r[k + i].hash = r[k + j].hash
    BY <1>5, Zenon
  <2>2. k + i = k + j
    BY <1>1, <1>6, <2>1, Zenon DEF Distinct
  <2> QED
    BY <1>1, <2>2, SMTT(60), Z3T(60)
<1>8. s \ gone = HashesIn(t)
  <2>1. ASSUME NEW h \in s \ gone PROVE h \in HashesIn(t)
    <3>1. PICK i \in 1..Len(r) : h = r[i].hash
      BY <1>1, <2>1, Zenon DEF HashesIn
    <3>2. ~(i \in 1..k)
      BY <2>1, <3>1, Zenon
    <3>3. i - k \in 1..Len(t) /\ k + (i - k) = i
      BY <1>1, <1>4, <3>2, SMTT(60), Z3T(60)
    <3>4. t[i - k] = r[i]
      BY <1>5, <3>3, Zenon
    <3> QED
      BY <3>1, <3>3, <3>4, Zenon DEF HashesIn
  <2>2. ASSUME NEW h \in HashesIn(t) PROVE h \in s \ gone
    <3>1. PICK i \in 1..Len(t) : h = t[i].hash
      BY <2>2, Zenon DEF HashesIn
    <3>2. h = r[k + i].hash /\ k + i \in 1..Len(r)
      BY <1>5, <1>6, <3>1, Zenon
    <3>3. h \in s
      BY <1>1, <3>2, Zenon DEF HashesIn
    <3>4. ASSUME NEW j \in 1..k, h = r[j].hash PROVE FALSE
      <4>1. j \in 1..Len(r)
        BY <1>1, SMTT(60), Z3T(60)
      <4>2. j = k + i
        BY <1>1, <3>2, <3>4, <4>1, Zenon DEF Distinct
      <4> QED
        BY <1>6, <4>2, Zenon
    <3> QED
      BY <3>3, <3>4, Zenon
  <2> QED
    BY <2>1, <2>2, Zenon
<1>9. Agree(t, s \ gone)
  BY <1>3, <1>7, <1>8, Zenon DEF Agree
<1> QED
  BY <1>4, <1>9, Zenon DEF t

\* A hash that is not in the set enters both.
LEMMA AppendAgrees ==
    ASSUME NEW r, NEW s, Agree(r, s), NEW e \in Entry, e.hash \notin s
    PROVE  /\ Agree(Append(r, e), s \cup {e.hash})
           /\ Len(Append(r, e)) = Len(r) + 1
<1> DEFINE t == Append(r, e)
<1>1. r \in Seq(Entry) /\ Distinct(r) /\ s = HashesIn(r) /\ Len(r) \in Nat
  BY Seq_Len, Zenon DEF Agree
<1>2. /\ t \in Seq(Entry) /\ Len(t) = Len(r) + 1
      /\ \A i \in 1..Len(r) : t[i] = r[i]
      /\ t[Len(r) + 1] = e
  BY <1>1, Seq_Append, SMTT(60), Z3T(60)
<1> HIDE DEF t
<1>3. \A i \in 1..Len(t) : i \in 1..Len(r) \/ i = Len(r) + 1
  BY <1>1, <1>2, SMTT(60), Z3T(60)
<1>4. \A i \in 1..Len(r) : r[i].hash # e.hash
  BY <1>1, Zenon DEF HashesIn
<1>5. Distinct(t)
  <2> SUFFICES ASSUME NEW i \in 1..Len(t), NEW j \in 1..Len(t), t[i].hash = t[j].hash
               PROVE  i = j
    BY Zenon DEF Distinct
  <2>1. CASE i \in 1..Len(r) /\ j \in 1..Len(r)
    BY <1>1, <1>2, <2>1, Zenon DEF Distinct
  <2>2. CASE i = Len(r) + 1 /\ j = Len(r) + 1
    BY <2>2, Zenon
  <2>3. CASE i \in 1..Len(r) /\ j = Len(r) + 1
    BY <1>2, <1>4, <2>3, Zenon
  <2>4. CASE i = Len(r) + 1 /\ j \in 1..Len(r)
    BY <1>2, <1>4, <2>4, Zenon
  <2> QED
    BY <1>3, <2>1, <2>2, <2>3, <2>4, Zenon
<1>6. s \cup {e.hash} = HashesIn(t)
  <2>1. \A i \in 1..Len(r) : i \in 1..Len(t)
    BY <1>1, <1>2, SMTT(60), Z3T(60)
  <2>2. Len(r) + 1 \in 1..Len(t)
    BY <1>1, <1>2, SMTT(60), Z3T(60)
  <2>3. ASSUME NEW h \in s \cup {e.hash} PROVE h \in HashesIn(t)
    BY <1>1, <1>2, <2>1, <2>2, <2>3, ZenonT(60) DEF HashesIn
  <2>4. ASSUME NEW h \in HashesIn(t) PROVE h \in s \cup {e.hash}
    <3>1. PICK i \in 1..Len(t) : h = t[i].hash
      BY <2>4, Zenon DEF HashesIn
    <3> QED
      BY <1>1, <1>2, <1>3, <3>1, Zenon DEF HashesIn
  <2> QED
    BY <2>3, <2>4, Zenon
<1> QED
  BY <1>2, <1>5, <1>6, Zenon DEF Agree, t

\* The first k entries of a ring are the ones that expire at time t.
ExpiredAt(r, k, t) ==
    /\ \A i \in 1..k : r[i].deadline <= t
    /\ k < Len(r) => ~(r[k + 1].deadline <= t)

\* expire_stale leaves a suffix: the stale entries are the ones before the first
\* that is not expired.
LEMMA ExpireFacts ==
    ASSUME NEW r \in Seq(Entry)
    PROVE  \E k \in 0..Len(r) :
              expire_stale(r) = SubSeq(r, k + 1, Len(r)) /\ ExpiredAt(r, k, now)
<1> DEFINE stale == {i \in DOMAIN r : \A j \in 1..i : r[j].deadline <= now}
           k == Cardinality(stale)
<1>1. DOMAIN r = 1..Len(r) /\ Len(r) \in Nat
  BY Seq_Len, Zenon
<1>2. IsFiniteSet(1..Len(r)) /\ Cardinality(1..Len(r)) = Len(r)
  BY <1>1, FS_Interval, SMTT(60), Z3T(60)
<1>3. stale \in SUBSET (1..Len(r))
  BY <1>1, Zenon
<1>4. ASSUME NEW i \in stale PROVE 1..i \in SUBSET stale
  BY <1>1, SMTT(60), Z3T(60)
<1>5. \A i \in stale : \A j \in 1..i : r[j].deadline <= now
  BY Zenon
<1>6. ASSUME NEW i \in 1..Len(r), \A j \in 1..i : r[j].deadline <= now PROVE i \in stale
  BY <1>1, <1>6, Zenon
<1>7. expire_stale(r) = SubSeq(r, k + 1, Len(r))
  BY Zenon DEF expire_stale
<1> HIDE DEF stale
<1>8. IsFiniteSet(stale) /\ k <= Len(r) /\ k \in Nat
  BY <1>2, <1>3, FS_Subset, FS_CardinalityType, ZenonT(60)
<1> HIDE DEF k
<1>9. stale = 1..k
  <2>1. ASSUME NEW i \in stale PROVE i \in 1..k
    <3>1. i \in Nat /\ i >= 1
      BY <1>1, <1>3, <2>1, SMTT(60), Z3T(60)
    <3>2. Cardinality(1..i) = i
      BY <3>1, FS_Interval, SMTT(60), Z3T(60)
    <3>3. Cardinality(1..i) <= k
      BY <1>4, <1>8, <2>1, FS_Subset, Zenon DEF k
    <3> QED
      BY <1>8, <3>1, <3>2, <3>3, SMTT(60), Z3T(60)
  <2>2. IsFiniteSet(1..k) /\ Cardinality(1..k) = k
    BY <1>8, FS_Interval, SMTT(60), Z3T(60)
  <2>3. stale \in SUBSET (1..k)
    BY <2>1, Zenon
  <2> QED
    BY <2>2, <2>3, FS_Subset, Zenon DEF k
<1>10. \A i \in 1..k : r[i].deadline <= now
  <2> SUFFICES ASSUME NEW i \in 1..k PROVE r[i].deadline <= now
    BY Zenon
  <2>1. i \in 1..i
    BY <1>8, SMTT(60), Z3T(60)
  <2> QED
    BY <1>5, <1>9, <2>1, Zenon
<1>11. ASSUME k < Len(r), r[k + 1].deadline <= now PROVE FALSE
  <2>1. k + 1 \in 1..Len(r) /\ ~(k + 1 \in 1..k)
    BY <1>1, <1>8, <1>11, SMTT(60), Z3T(60)
  <2>2. \A j \in 1..k + 1 : j \in 1..k \/ j = k + 1
    BY <1>8, SMTT(60), Z3T(60)
  <2>3. \A j \in 1..k + 1 : r[j].deadline <= now
    BY <1>10, <1>11, <2>2, Zenon
  <2> QED
    BY <1>6, <1>9, <2>1, <2>3, Zenon
<1> QED
  BY <1>1, <1>7, <1>8, <1>10, <1>11, SMTT(60), Z3T(60) DEF ExpiredAt

-----------------------------------------------------------------------------
LEMMA InvInit == Init => Inv
<1> SUFFICES ASSUME Init PROVE Inv
  BY Zenon
<1>1. ttl \in Nat /\ now \in Nat
  BY DedupAssumption, Zenon DEF Init
<1>2. ring \in Seq(Entry) /\ Len(ring) = 0
  BY Seq_Empty, Zenon DEF Init
<1>3. 1..Len(ring) = {}
  BY <1>2, SMTT(60), Z3T(60)
<1>4. Distinct(ring) /\ set = HashesIn(ring)
  BY <1>3, Zenon DEF Init, Distinct, HashesIn
<1> QED
  BY <1>1, <1>2, <1>4, CapacityFacts, SMTT(60), Z3T(60) DEF Inv, Agree

\* check_and_insert: expiry, then a lookup, then perhaps an eviction and an entry.
LEMMA CheckInv ==
    ASSUME Inv, NEW hash \in Hashes, check_and_insert(hash)
    PROVE  Inv'
<1> DEFINE live == expire_stale(ring)
           kept == set \ {ring[i].hash : i \in 1..(Len(ring) - Len(live))}
           room == IF Len(live) >= capacity THEN evict_oldest(live, kept)
                   ELSE [ring |-> live, set |-> kept]
           entry == [hash |-> hash, deadline |-> now + ttl]
<1>1. /\ IF hash \in kept
         THEN ring' = live /\ set' = kept
         ELSE ring' = Append(room.ring, entry) /\ set' = room.set \cup {hash}
      /\ ttl' = ttl /\ now' = now
  BY Zenon DEF check_and_insert
<1>2. /\ ttl \in Nat /\ now \in Nat /\ Agree(ring, set) /\ ring \in Seq(Entry)
      /\ Len(ring) \in Nat /\ Len(ring) <= capacity
  BY Seq_Len, Zenon DEF Inv, Agree
<1>3. PICK k \in 0..Len(ring) : live = SubSeq(ring, k + 1, Len(ring))
  BY <1>2, ExpireFacts, Zenon
<1>4. Len(live) = Len(ring) - k /\ Agree(live, set \ {ring[i].hash : i \in 1..k})
  BY <1>2, <1>3, DropAgrees, ZenonT(60)
<1> HIDE DEF live
<1>5. Len(ring) - Len(live) = k
  BY <1>2, <1>4, SMTT(60), Z3T(60)
<1>6. Agree(live, kept)
  BY <1>4, <1>5, Zenon
<1>7. Len(live) \in Nat /\ Len(live) <= capacity
  BY <1>2, <1>4, CapacityFacts, SMTT(60), Z3T(60)
<1> HIDE DEF kept
<1>8. Agree(room.ring, room.set) /\ Len(room.ring) <= capacity - 1 /\ Len(room.ring) \in Nat
      /\ room.set \subseteq kept
  <2>1. CASE Len(live) >= capacity
    <3>1. room.ring = Tail(live) /\ room.set = kept \ {Head(live).hash}
      BY <2>1, Zenon DEF evict_oldest
    <3>2. 1 \in 0..Len(live) /\ live # <<>> /\ live \in Seq(Entry)
      BY <1>6, <1>7, <2>1, CapacityFacts, SMTT(60), Z3T(60) DEF Agree
    <3>3. Tail(live) = SubSeq(live, 1 + 1, Len(live)) /\ Head(live) = live[1]
      BY <3>2, Seq_TailIsSubSeq, Seq_HeadTail, SMTT(60), Z3T(60)
    <3>4. {live[i].hash : i \in 1..1} = {Head(live).hash}
      BY <3>3, SMTT(60), Z3T(60)
    <3>5. /\ Len(SubSeq(live, 1 + 1, Len(live))) = Len(live) - 1
          /\ Agree(SubSeq(live, 1 + 1, Len(live)), kept \ {live[i].hash : i \in 1..1})
      BY <1>6, <3>2, DropAgrees, Zenon
    <3>6. Len(Tail(live)) = Len(live) - 1 /\ Agree(Tail(live), kept \ {Head(live).hash})
      BY <3>3, <3>4, <3>5, Zenon
    <3>7. Len(live) - 1 \in Nat /\ Len(live) - 1 <= capacity - 1
      BY <1>7, <2>1, CapacityFacts, SMTT(60), Z3T(60)
    <3> QED
      BY <3>1, <3>6, <3>7, Zenon
  <2>2. CASE ~(Len(live) >= capacity)
    <3>1. room.ring = live /\ room.set = kept
      BY <2>2, Zenon
    <3>2. Len(live) <= capacity - 1
      BY <1>7, <2>2, CapacityFacts, SMTT(60), Z3T(60)
    <3> QED
      BY <1>6, <1>7, <3>1, <3>2, Zenon
  <2> QED
    BY <2>1, <2>2, Zenon
<1> HIDE DEF room
<1>9. Agree(ring', set') /\ Len(ring') <= capacity
  <2>1. CASE hash \in kept
    BY <1>1, <1>6, <1>7, <2>1, Zenon
  <2>2. CASE hash \notin kept
    <3>1. entry \in Entry /\ entry.hash = hash
      BY <1>2, SMTT(60), Z3T(60) DEF Entry
    <3>2. entry.hash \notin room.set
      BY <1>8, <2>2, <3>1, Zenon
    <3> HIDE DEF entry
    <3>3. /\ Agree(Append(room.ring, entry), room.set \cup {entry.hash})
          /\ Len(Append(room.ring, entry)) = Len(room.ring) + 1
      BY <1>8, <3>1, <3>2, AppendAgrees, Zenon
    <3>4. ring' = Append(room.ring, entry) /\ set' = room.set \cup {entry.hash}
      BY <1>1, <2>2, <3>1, Zenon
    <3>5. Len(room.ring) + 1 <= capacity
      BY <1>8, CapacityFacts, SMTT(60), Z3T(60)
    <3> QED
      BY <3>3, <3>4, <3>5, Zenon
  <2> QED
    BY <2>1, <2>2, Zenon
<1>10. capacity' = capacity
  BY Zenon DEF capacity
<1> QED
  BY <1>1, <1>2, <1>9, <1>10, Zenon DEF Inv, Agree, Distinct, HashesIn

LEMMA InvStep == Inv /\ [Next]_vars => Inv'
<1> SUFFICES ASSUME Inv, [Next]_vars PROVE Inv'
  BY Zenon
<1>1. CASE Tick
  BY <1>1, SMTT(60), Z3T(60) DEF Inv, Tick, Agree, Distinct, HashesIn, capacity
<1>2. ASSUME NEW hash \in Hashes, Disabled(hash) PROVE Inv'
  BY <1>2, Zenon DEF Inv, Disabled, Agree, Distinct, HashesIn, capacity
<1>3. ASSUME NEW hash \in Hashes, check_and_insert(hash) PROVE Inv'
  BY <1>3, CheckInv, Zenon
<1>4. CASE UNCHANGED vars
  BY <1>4, Zenon DEF Inv, vars, Agree, Distinct, HashesIn, capacity
<1> QED
  BY <1>1, <1>2, <1>3, <1>4, Zenon DEF Next

\* As many hashes as entries: the ring numbers its hashes.
LEMMA InvAgrees == Inv => RingSetAgree
<1> SUFFICES ASSUME Inv PROVE RingSetAgree
  BY Zenon
<1>1. /\ ring \in Seq(Entry) /\ DOMAIN ring = 1..Len(ring) /\ Len(ring) \in Nat
      /\ Distinct(ring) /\ set = HashesIn(ring) /\ Len(ring) <= capacity
  BY Seq_Len, Zenon DEF Inv, Agree
<1> DEFINE f == [i \in 1..Len(ring) |-> ring[i].hash]
<1>2. f \in [1..Len(ring) -> set]
  BY <1>1, Zenon DEF HashesIn
<1>3. \A a, b \in 1..Len(ring) : f[a] = f[b] => a = b
  BY <1>1, Zenon DEF Distinct
<1>4. \A t \in set : \E a \in 1..Len(ring) : f[a] = t
  BY <1>1, Zenon DEF HashesIn
<1>5. Cardinality(set) = Len(ring)
  <2> HIDE DEF f
  <2> QED
    BY <1>1, <1>2, <1>3, <1>4, Set_Counted, SMTT(60), Z3T(60)
<1> QED
  BY <1>1, <1>5, Zenon DEF RingSetAgree, HashesIn

\* The lookup set of the dedup window is exactly the hashes of the ring, without
\* repetition and within the capacity, after any sequence of checks, expiries and
\* evictions: a hash is never suppressed for ever, nor forgotten while its entry lives.
THEOREM RingSetAgreeHolds == Spec => []RingSetAgree
<1>1. Spec => []Inv
  BY InvInit, InvStep, PTL DEF Spec
<1> QED
  BY <1>1, InvAgrees, PTL

-----------------------------------------------------------------------------
(* The history: which entries of the ring stand for which admitted frames. *)

Check == [hash : Hashes, at : Nat, dup : BOOLEAN]

\* A log of checks up to time t.
LogOK(lg, t) ==
    /\ lg \in Seq(Check)
    /\ \A i \in 1..Len(lg) : lg[i].at <= t
    /\ \A i, j \in 1..Len(lg) : i <= j => lg[i].at <= lg[j].at

AdmittedIn(lg) == {i \in 1..Len(lg) : ~lg[i].dup}

Since(lg, i) == {j \in AdmittedIn(lg) : j > i}

\* The ring stands for the admitted frames src names, in their order; the ones it
\* does not stand for came before all of those, and are expired or crowded out.
Tracks(lg, t, d, r, src) ==
    /\ src \in [1..Len(r) -> AdmittedIn(lg)]
    /\ \A p, q \in 1..Len(r) : p < q => src[p] < src[q]
    /\ \A p \in 1..Len(r) :
          r[p].hash = lg[src[p]].hash /\ r[p].deadline = lg[src[p]].at + d
    /\ \A i \in AdmittedIn(lg) :
          \/ \E p \in 1..Len(r) : i = src[p]
          \/ /\ \A p \in 1..Len(r) : i < src[p]
             /\ lg[i].at + d <= t \/ Cardinality(Since(lg, i)) >= capacity

LEMMA LogTypes ==
    ASSUME NEW lg \in Seq(Check)
    PROVE  /\ Len(lg) \in Nat
           /\ \A i \in 1..Len(lg) : /\ i \in Nat /\ lg[i] \in Check /\ lg[i].at \in Nat
                                    /\ lg[i].dup \in BOOLEAN
           /\ AdmittedIn(lg) \subseteq 1..Len(lg) /\ IsFiniteSet(AdmittedIn(lg))
           /\ \A i : IsFiniteSet(Since(lg, i)) /\ Cardinality(Since(lg, i)) \in Nat
<1>1. Len(lg) \in Nat /\ \A i \in 1..Len(lg) : i \in Nat /\ lg[i] \in Check
  BY Seq_Len, SMTT(60), Z3T(60)
<1>2. \A i \in 1..Len(lg) : lg[i].at \in Nat /\ lg[i].dup \in BOOLEAN
  BY <1>1, Zenon DEF Check
<1>3. AdmittedIn(lg) \in SUBSET (1..Len(lg)) /\ \A i : Since(lg, i) \in SUBSET (1..Len(lg))
  BY Zenon DEF AdmittedIn, Since
<1>4. IsFiniteSet(1..Len(lg))
  BY <1>1, FS_Interval, SMTT(60), Z3T(60)
<1>5. IsFiniteSet(AdmittedIn(lg)) /\ \A i : IsFiniteSet(Since(lg, i))
  BY <1>3, <1>4, FS_Subset, Zenon
<1> QED
  BY <1>1, <1>2, <1>3, <1>5, FS_CardinalityType, Zenon

\* As many frames were admitted after an entry's as there are entries behind it.
LEMMA SinceCounts ==
    ASSUME NEW lg \in Seq(Check), NEW t, NEW d, NEW r \in Seq(Entry), NEW src,
           Tracks(lg, t, d, r, src), NEW p \in 1..Len(r)
    PROVE  Cardinality(Since(lg, src[p])) = Len(r) - p
<1> DEFINE n == Len(r) - p
           S == Since(lg, src[p])
           f == [q \in 1..n |-> src[p + q]]
<1>1. Len(r) \in Nat /\ p \in Nat /\ n \in Nat /\ \A q \in 1..n : p + q \in 1..Len(r) /\ p < p + q
  BY Seq_Len, SMTT(60), Z3T(60)
<1>2. /\ \A q \in 1..Len(r) : src[q] \in AdmittedIn(lg) /\ src[q] \in Nat
      /\ \A a, b \in 1..Len(r) : a < b => src[a] < src[b]
      /\ \A i \in AdmittedIn(lg) :
            (\E q \in 1..Len(r) : i = src[q]) \/ \A q \in 1..Len(r) : i < src[q]
  BY LogTypes, Zenon DEF Tracks
<1>3. \A q \in 1..n : f[q] \in S
  BY <1>1, <1>2, Zenon DEF Since
<1>4. ASSUME NEW a \in 1..n, NEW b \in 1..n, f[a] = f[b] PROVE a = b
  <2>1. src[p + a] = src[p + b]
    BY <1>4, Zenon
  <2>2. CASE a < b
    <3>1. p + a < p + b
      BY <1>1, <2>2, SMTT(60), Z3T(60)
    <3> QED
      BY <1>1, <1>2, <2>1, <3>1, SMTT(60), Z3T(60)
  <2>3. CASE b < a
    <3>1. p + b < p + a
      BY <1>1, <2>3, SMTT(60), Z3T(60)
    <3> QED
      BY <1>1, <1>2, <2>1, <3>1, SMTT(60), Z3T(60)
  <2> QED
    BY <1>1, <2>2, <2>3, SMTT(60), Z3T(60)
<1>5. ASSUME NEW j \in S PROVE \E a \in 1..n : f[a] = j
  <2>1. j \in AdmittedIn(lg) /\ j > src[p] /\ src[p] \in Nat /\ j \in Nat
    BY <1>2, <1>5, LogTypes, Zenon DEF Since
  <2>2. PICK q \in 1..Len(r) : j = src[q]
    BY <1>2, <2>1, SMTT(60), Z3T(60)
  <2>3. p < q
    BY <1>1, <1>2, <2>1, <2>2, SMTT(60), Z3T(60)
  <2>4. q - p \in 1..n /\ p + (q - p) = q
    BY <1>1, <2>3, SMTT(60), Z3T(60)
  <2> QED
    BY <2>2, <2>4, Zenon
<1>6. f \in [1..n -> S]
  BY <1>3, Zenon
<1> HIDE DEF f, S
<1>7. Cardinality(S) = n
  <2> HIDE DEF n
  <2> QED
    BY <1>1, <1>4, <1>5, <1>6, Set_Counted, SMTT(60), Z3T(60)
<1> QED
  BY <1>7, Zenon DEF S

\* Entries that are expired or crowded out may leave from the head.
LEMMA DropTracks ==
    ASSUME NEW lg \in Seq(Check), NEW t \in Nat, NEW d \in Nat, NEW r \in Seq(Entry), NEW src,
           Tracks(lg, t, d, r, src), NEW k \in 0..Len(r),
           \A p \in 1..k : r[p].deadline <= t \/ Cardinality(Since(lg, src[p])) >= capacity
    PROVE  Tracks(lg, t, d, SubSeq(r, k + 1, Len(r)), [p \in 1..Len(r) - k |-> src[k + p]])
<1> DEFINE u == SubSeq(r, k + 1, Len(r))
           new == [p \in 1..Len(r) - k |-> src[k + p]]
<1>1. Len(r) \in Nat /\ k \in Nat /\ k <= Len(r) /\ \A i \in k + 1..Len(r) : r[i] \in Entry
  BY Seq_Len, SMTT(60), Z3T(60)
<1>2. /\ Len(u) = IF k + 1 <= Len(r) THEN Len(r) - (k + 1) + 1 ELSE 0
      /\ \A i \in 1..Len(r) - (k + 1) + 1 : u[i] = r[(k + 1) + i - 1]
  BY <1>1, Seq_SubSeq, SMTT(60), Z3T(60)
<1> HIDE DEF u
<1>3. Len(u) = Len(r) - k
  BY <1>1, <1>2, SMTT(60), Z3T(60)
<1>4. \A p \in 1..Len(u) : /\ k + p \in 1..Len(r) /\ u[p] = r[k + p] /\ new[p] = src[k + p]
                           /\ p \in Nat
  <2> SUFFICES ASSUME NEW p \in 1..Len(u)
               PROVE  k + p \in 1..Len(r) /\ u[p] = r[k + p] /\ new[p] = src[k + p] /\ p \in Nat
    BY Zenon
  <2>1. p \in 1..Len(r) - (k + 1) + 1 /\ (k + 1) + p - 1 = k + p /\ k + p \in 1..Len(r)
    BY <1>1, <1>3, SMTT(60), Z3T(60)
  <2> QED
    BY <1>2, <1>3, <2>1, SMTT(60), Z3T(60)
<1>5. new = [p \in 1..Len(u) |-> src[k + p]]
  BY <1>3, Zenon
<1> HIDE DEF new
<1>6. /\ \A q \in 1..Len(r) : src[q] \in AdmittedIn(lg)
      /\ \A a, b \in 1..Len(r) : a < b => src[a] < src[b]
      /\ \A q \in 1..Len(r) : r[q].hash = lg[src[q]].hash /\ r[q].deadline = lg[src[q]].at + d
      /\ \A i \in AdmittedIn(lg) :
          \/ \E p \in 1..Len(r) : i = src[p]
          \/ /\ \A p \in 1..Len(r) : i < src[p]
             /\ lg[i].at + d <= t \/ Cardinality(Since(lg, i)) >= capacity
  BY Zenon DEF Tracks
<1>7. new \in [1..Len(u) -> AdmittedIn(lg)]
  BY <1>4, <1>5, <1>6, Zenon
<1>8. ASSUME NEW p \in 1..Len(u), NEW q \in 1..Len(u), p < q PROVE new[p] < new[q]
  <2>1. k + p < k + q
    BY <1>1, <1>4, <1>8, SMTT(60), Z3T(60)
  <2> QED
    BY <1>4, <1>6, <2>1, Zenon
<1>9. ASSUME NEW p \in 1..Len(u)
      PROVE  u[p].hash = lg[new[p]].hash /\ u[p].deadline = lg[new[p]].at + d
  BY <1>4, <1>6, Zenon
<1>10. ASSUME NEW i \in AdmittedIn(lg)
       PROVE  \/ \E p \in 1..Len(u) : i = new[p]
              \/ /\ \A p \in 1..Len(u) : i < new[p]
                 /\ lg[i].at + d <= t \/ Cardinality(Since(lg, i)) >= capacity
  <2>1. CASE \E p \in 1..Len(r) : i = src[p]
    <3>1. PICK p \in 1..Len(r) : i = src[p]
      BY <2>1, Zenon
    <3>2. CASE p \in 1..k
      <4>1. \A q \in 1..Len(u) : p < k + q
        BY <1>1, <1>4, <3>2, SMTT(60), Z3T(60)
      <4>2. \A q \in 1..Len(u) : i < new[q]
        BY <1>4, <1>6, <3>1, <4>1, Zenon
      <4>3. lg[i].at + d <= t \/ Cardinality(Since(lg, i)) >= capacity
        BY <1>6, <3>1, <3>2, Zenon
      <4> QED
        BY <4>2, <4>3, Zenon
    <3>3. CASE ~(p \in 1..k)
      <4>1. p - k \in 1..Len(u) /\ k + (p - k) = p
        BY <1>1, <1>3, <3>3, SMTT(60), Z3T(60)
      <4> QED
        BY <1>4, <3>1, <4>1, Zenon
    <3> QED
      BY <3>2, <3>3, Zenon
  <2>2. CASE ~ \E p \in 1..Len(r) : i = src[p]
    BY <1>4, <1>6, <2>2, Zenon
  <2> QED
    BY <2>1, <2>2, Zenon
<1>11. Tracks(lg, t, d, u, new)
  BY <1>7, <1>8, <1>9, <1>10, Zenon DEF Tracks
<1> QED
  BY <1>11, Zenon DEF u, new

\* Time alone changes nothing.
LEMMA LaterTracks ==
    ASSUME NEW lg \in Seq(Check), NEW t \in Nat, NEW u \in Nat, t <= u, NEW d \in Nat,
           NEW r \in Seq(Entry), NEW src, Tracks(lg, t, d, r, src)
    PROVE  Tracks(lg, u, d, r, src)
<1>1. \A i \in AdmittedIn(lg) : lg[i].at + d <= t => lg[i].at + d <= u
  BY LogTypes, SMTT(60), Z3T(60)
<1> QED
  BY <1>1, Zenon DEF Tracks

\* What a check adds to the log.
LEMMA LogAppend ==
    ASSUME NEW lg, NEW t \in Nat, LogOK(lg, t), NEW h \in Hashes, NEW dup \in BOOLEAN
    PROVE  LET c == [hash |-> h, at |-> t, dup |-> dup]
               new == Append(lg, c)
           IN  /\ LogOK(new, t)
               /\ Len(new) = Len(lg) + 1 /\ new[Len(lg) + 1] = c
               /\ \A i \in 1..Len(lg) : new[i] = lg[i]
               /\ AdmittedIn(new) = AdmittedIn(lg) \cup (IF dup THEN {} ELSE {Len(lg) + 1})
<1> DEFINE c == [hash |-> h, at |-> t, dup |-> dup]
           new == Append(lg, c)
           n == Len(lg)
<1>1. lg \in Seq(Check) /\ n \in Nat /\ c \in Check
  BY LogTypes, Zenon DEF LogOK, Check
<1>2. c.hash = h /\ c.at = t /\ c.dup = dup
  BY Zenon
<1> HIDE DEF c
<1>3. new \in Seq(Check) /\ Len(new) = n + 1 /\ new[n + 1] = c /\ \A i \in 1..n : new[i] = lg[i]
  BY <1>1, Seq_Append, SMTT(60), Z3T(60)
<1> HIDE DEF new
<1>4. /\ \A i \in 1..n + 1 : i \in 1..n \/ i = n + 1
      /\ \A i \in 1..n : i \in 1..n + 1 /\ i <= n /\ i < n + 1 /\ ~(n + 1 <= i)
      /\ n + 1 \in 1..n + 1 /\ ~(n + 1 \in 1..n)
  BY <1>1, SMTT(60), Z3T(60)
<1>5. \A i \in 1..n : lg[i].at <= t
  BY Zenon DEF LogOK
<1>6. \A i \in 1..Len(new) : new[i].at <= t
  BY <1>2, <1>3, <1>4, <1>5, SMTT(60), Z3T(60)
<1>7. ASSUME NEW i \in 1..Len(new), NEW j \in 1..Len(new), i <= j PROVE new[i].at <= new[j].at
  <2>1. CASE i \in 1..n /\ j \in 1..n
    BY <1>3, <1>7, <2>1, Zenon DEF LogOK
  <2>2. CASE j = n + 1
    BY <1>2, <1>3, <1>6, <2>2, Zenon
  <2> QED
    BY <1>3, <1>4, <1>7, <2>1, <2>2, Zenon
<1>8. LogOK(new, t)
  BY <1>3, <1>6, <1>7, Zenon DEF LogOK
<1>9. AdmittedIn(new) = AdmittedIn(lg) \cup (IF dup THEN {} ELSE {n + 1})
  BY <1>2, <1>3, <1>4, Zenon DEF AdmittedIn
<1> QED
  BY <1>3, <1>8, <1>9, Zenon DEF new, c

\* A suppressed copy leaves the history of admissions as it is.
LEMMA SuppressTracks ==
    ASSUME NEW lg, NEW t \in Nat, LogOK(lg, t), NEW h \in Hashes, NEW d,
           NEW r, NEW src, Tracks(lg, t, d, r, src)
    PROVE  Tracks(Append(lg, [hash |-> h, at |-> t, dup |-> TRUE]), t, d, r, src)
<1> DEFINE new == Append(lg, [hash |-> h, at |-> t, dup |-> TRUE])
<1>1. /\ \A i \in 1..Len(lg) : new[i] = lg[i]
      /\ AdmittedIn(new) = AdmittedIn(lg)
  <2>1. TRUE \in BOOLEAN
    BY Zenon
  <2>2. /\ \A i \in 1..Len(lg) : new[i] = lg[i]
        /\ AdmittedIn(new) = AdmittedIn(lg) \cup (IF TRUE THEN {} ELSE {Len(lg) + 1})
    BY <2>1, LogAppend, ZenonT(60)
  <2> QED
    BY <2>2, Zenon
<1>2. AdmittedIn(lg) \subseteq 1..Len(lg)
  BY Zenon DEF AdmittedIn
<1> HIDE DEF new
<1>3. \A i : Since(new, i) = Since(lg, i)
  BY <1>1, Zenon DEF Since
<1>4. \A i \in AdmittedIn(lg) : new[i] = lg[i]
  BY <1>1, <1>2, Zenon
<1>5. \A p \in 1..Len(r) : new[src[p]] = lg[src[p]]
  BY <1>4, Zenon DEF Tracks
<1>6. Tracks(new, t, d, r, src)
  BY <1>1, <1>3, <1>4, <1>5, Zenon DEF Tracks
<1> QED
  BY <1>6, Zenon DEF new

\* A frame that is let through becomes the newest entry.
LEMMA AppendTracks ==
    ASSUME NEW lg, NEW t \in Nat, LogOK(lg, t), NEW h \in Hashes, NEW d \in Nat,
           NEW r \in Seq(Entry), NEW src, Tracks(lg, t, d, r, src)
    PROVE  Tracks(Append(lg, [hash |-> h, at |-> t, dup |-> FALSE]), t, d,
                  Append(r, [hash |-> h, deadline |-> t + d]),
                  [p \in 1..Len(r) + 1 |-> IF p = Len(r) + 1 THEN Len(lg) + 1 ELSE src[p]])
<1> DEFINE c == [hash |-> h, at |-> t, dup |-> FALSE]
           e == [hash |-> h, deadline |-> t + d]
           lg2 == Append(lg, c)
           u == Append(r, e)
           m == Len(r)
           n == Len(lg)
           new == [p \in 1..m + 1 |-> IF p = m + 1 THEN n + 1 ELSE src[p]]
<1>1. /\ m \in Nat /\ n \in Nat /\ lg \in Seq(Check) /\ AdmittedIn(lg) \subseteq 1..n
  BY Seq_Len, LogTypes, Zenon DEF LogOK
<1>2. /\ LogOK(lg2, t) /\ Len(lg2) = n + 1 /\ lg2[n + 1] = c
      /\ \A i \in 1..n : lg2[i] = lg[i]
      /\ AdmittedIn(lg2) = AdmittedIn(lg) \cup {n + 1}
  <2>1. FALSE \in BOOLEAN
    BY Zenon
  <2>2. /\ LogOK(lg2, t) /\ Len(lg2) = n + 1 /\ lg2[n + 1] = c
        /\ \A i \in 1..n : lg2[i] = lg[i]
        /\ AdmittedIn(lg2) = AdmittedIn(lg) \cup (IF FALSE THEN {} ELSE {n + 1})
    BY <2>1, LogAppend, ZenonT(60)
  <2> QED
    BY <2>2, Zenon
<1>3. e \in Entry
  BY SMTT(60), Z3T(60) DEF Entry
<1>4. c.hash = h /\ c.at = t /\ e.hash = h /\ e.deadline = t + d
  BY Zenon
<1> HIDE DEF c, e
<1>5. Len(u) = m + 1 /\ u[m + 1] = e /\ \A p \in 1..m : u[p] = r[p]
  BY <1>3, Seq_Append, SMTT(60), Z3T(60)
<1>6. /\ \A p \in 1..m + 1 : p \in 1..m \/ p = m + 1
      /\ \A p \in 1..m : p \in 1..m + 1 /\ p # m + 1 /\ ~(m + 1 < p)
      /\ m + 1 \in 1..m + 1 /\ ~(m + 1 < m + 1)
      /\ \A i \in 1..n : i < n + 1
  BY <1>1, SMTT(60), Z3T(60)
<1>7. new[m + 1] = n + 1 /\ \A p \in 1..m : new[p] = src[p]
  BY <1>6, Zenon
<1> HIDE DEF lg2, u
<1>8. /\ \A q \in 1..m : src[q] \in AdmittedIn(lg) /\ src[q] \in 1..n
      /\ \A a, b \in 1..m : a < b => src[a] < src[b]
      /\ \A q \in 1..m : r[q].hash = lg[src[q]].hash /\ r[q].deadline = lg[src[q]].at + d
      /\ \A i \in AdmittedIn(lg) :
          \/ \E p \in 1..m : i = src[p]
          \/ /\ \A p \in 1..m : i < src[p]
             /\ lg[i].at + d <= t \/ Cardinality(Since(lg, i)) >= capacity
  BY <1>1, Zenon DEF Tracks
<1>9. new \in [1..m + 1 -> AdmittedIn(lg2)]
  BY <1>2, <1>6, <1>8, Zenon
<1> HIDE DEF new
<1>10. ASSUME NEW p \in 1..m + 1, NEW q \in 1..m + 1, p < q PROVE new[p] < new[q]
  <2>1. CASE p \in 1..m /\ q \in 1..m
    BY <1>7, <1>8, <1>10, <2>1, Zenon
  <2>2. CASE p \in 1..m /\ q = m + 1
    BY <1>6, <1>7, <1>8, <2>2, ZenonT(60)
  <2> QED
    BY <1>6, <1>10, <2>1, <2>2, Zenon
<1>11. ASSUME NEW p \in 1..m + 1
       PROVE  u[p].hash = lg2[new[p]].hash /\ u[p].deadline = lg2[new[p]].at + d
  <2>1. CASE p \in 1..m
    BY <1>2, <1>5, <1>7, <1>8, <2>1, ZenonT(60)
  <2>2. CASE p = m + 1
    BY <1>2, <1>4, <1>5, <1>7, <2>2, Zenon
  <2> QED
    BY <1>6, <2>1, <2>2, Zenon
<1>12. \A i \in AdmittedIn(lg) : Cardinality(Since(lg, i)) <= Cardinality(Since(lg2, i))
  <2> SUFFICES ASSUME NEW i \in AdmittedIn(lg)
               PROVE  Cardinality(Since(lg, i)) <= Cardinality(Since(lg2, i))
    BY Zenon
  <2>1. Since(lg, i) \in SUBSET Since(lg2, i)
    BY <1>2, Zenon DEF Since
  <2>2. IsFiniteSet(Since(lg2, i))
    BY <1>2, LogTypes, Zenon DEF LogOK
  <2> QED
    BY <2>1, <2>2, FS_Subset, Zenon
<1>13. ASSUME NEW i \in AdmittedIn(lg2)
       PROVE  \/ \E p \in 1..m + 1 : i = new[p]
              \/ /\ \A p \in 1..m + 1 : i < new[p]
                 /\ lg2[i].at + d <= t \/ Cardinality(Since(lg2, i)) >= capacity
  <2>1. CASE i = n + 1
    BY <1>6, <1>7, <2>1, Zenon
  <2>2. CASE i \in AdmittedIn(lg) /\ \E p \in 1..m : i = src[p]
    BY <1>6, <1>7, <2>2, Zenon
  <2>3. CASE i \in AdmittedIn(lg) /\ ~ \E p \in 1..m : i = src[p]
    <3>1. /\ \A p \in 1..m : i < src[p]
          /\ lg[i].at + d <= t \/ Cardinality(Since(lg, i)) >= capacity
      BY <1>8, <2>3, Zenon
    <3>2. i \in 1..n /\ lg2[i] = lg[i]
      BY <1>1, <1>2, <2>3, Zenon
    <3>3. \A p \in 1..m + 1 : i < new[p]
      BY <1>6, <1>7, <3>1, <3>2, Zenon
    <3>4. Cardinality(Since(lg, i)) \in Nat /\ Cardinality(Since(lg2, i)) \in Nat
      BY <1>1, <1>2, LogTypes, ZenonT(60) DEF LogOK
    <3>5. lg2[i].at + d <= t \/ Cardinality(Since(lg2, i)) >= capacity
      BY <1>12, <2>3, <3>1, <3>2, <3>4, CapacityFacts, SMTT(60), Z3T(60)
    <3> QED
      BY <3>3, <3>5, Zenon
  <2> QED
    BY <1>2, <2>1, <2>2, <2>3, Zenon
<1>14. Tracks(lg2, t, d, u, new)
  BY <1>5, <1>9, <1>10, <1>11, <1>13, Zenon DEF Tracks
<1> QED
  BY <1>14, Zenon DEF lg2, u, new, c, e

\* A frame of hash h checked at time t after the frames of lg is to be suppressed.
Pending(lg, h, t, d) ==
    \E i \in AdmittedIn(lg) : /\ lg[i].hash = h /\ t < lg[i].at + d
                              /\ Cardinality(Since(lg, i)) < capacity

\* The live entries answer exactly for the frames the property speaks of.
LEMMA LookupExact ==
    ASSUME NEW lg, NEW t \in Nat, LogOK(lg, t), NEW d \in Nat, NEW r \in Seq(Entry),
           Len(r) <= capacity, NEW src, Tracks(lg, t, d, r, src), NEW k \in 0..Len(r),
           ExpiredAt(r, k, t), NEW h
    PROVE  (\E p \in k + 1..Len(r) : r[p].hash = h) <=> Pending(lg, h, t, d)
<1>1. /\ Len(r) \in Nat /\ k \in Nat /\ k <= Len(r) /\ lg \in Seq(Check)
      /\ \A i \in AdmittedIn(lg) : lg[i].at \in Nat /\ i \in 1..Len(lg) /\ i \in Nat
  BY Seq_Len, LogTypes, SMTT(60), Z3T(60) DEF LogOK
<1>2. /\ \A q \in 1..Len(r) : src[q] \in AdmittedIn(lg)
      /\ \A a, b \in 1..Len(r) : a < b => src[a] < src[b]
      /\ \A q \in 1..Len(r) : r[q].hash = lg[src[q]].hash /\ r[q].deadline = lg[src[q]].at + d
      /\ \A i \in AdmittedIn(lg) :
          \/ \E p \in 1..Len(r) : i = src[p]
          \/ lg[i].at + d <= t \/ Cardinality(Since(lg, i)) >= capacity
  BY Zenon DEF Tracks
<1>3. ASSUME NEW p \in k + 1..Len(r), r[p].hash = h
      PROVE  \E i \in AdmittedIn(lg) : /\ lg[i].hash = h /\ t < lg[i].at + d
                                       /\ Cardinality(Since(lg, i)) < capacity
  <2>1. p \in 1..Len(r) /\ k + 1 \in 1..Len(r) /\ k < Len(r) /\ p \in Nat /\ p >= 1
    BY <1>1, SMTT(60), Z3T(60)
  <2>2. lg[src[k + 1]].at <= lg[src[p]].at
    <3>1. src[k + 1] <= src[p]
      <4>1. CASE p = k + 1
        BY <1>1, <1>2, <2>1, <4>1, SMTT(60), Z3T(60)
      <4>2. CASE k + 1 < p
        BY <1>1, <1>2, <2>1, <4>2, SMTT(60), Z3T(60)
      <4> QED
        BY <1>1, <4>1, <4>2, SMTT(60), Z3T(60)
    <3> QED
      BY <1>1, <1>2, <2>1, <3>1, ZenonT(60) DEF LogOK
  <2>3. ~(lg[src[k + 1]].at + d <= t)
    BY <1>2, <2>1, Zenon DEF ExpiredAt
  <2>4. t < lg[src[p]].at + d
    <3>1. lg[src[p]].at \in Nat /\ lg[src[k + 1]].at \in Nat
      BY <1>1, <1>2, <2>1, Zenon
    <3>2. \A a, b \in Nat : a <= b /\ ~(a + d <= t) => t < b + d
      BY SMTT(60), Z3T(60)
    <3> QED
      BY <2>2, <2>3, <3>1, <3>2, Zenon
  <2>5. Cardinality(Since(lg, src[p])) = Len(r) - p
    BY <1>1, <2>1, SinceCounts, SMTT(60), Z3T(60)
  <2>6. Len(r) - p < capacity
    BY <1>1, <2>1, CapacityFacts, SMTT(60), Z3T(60)
  <2> QED
    BY <1>2, <1>3, <2>1, <2>4, <2>5, <2>6, ZenonT(60)
<1>4. ASSUME NEW i \in AdmittedIn(lg), lg[i].hash = h, t < lg[i].at + d,
             Cardinality(Since(lg, i)) < capacity
      PROVE  \E p \in k + 1..Len(r) : r[p].hash = h
  <2>1. Cardinality(Since(lg, i)) \in Nat
    BY <1>1, LogTypes, Zenon
  <2>2. PICK p \in 1..Len(r) : i = src[p]
    <3>1. ~(Cardinality(Since(lg, i)) >= capacity)
      BY <1>4, <2>1, CapacityFacts, SMTT(60), Z3T(60)
    <3>2. ~(lg[i].at + d <= t)
      BY <1>1, <1>4, SMTT(60), Z3T(60)
    <3> QED
      BY <1>2, <3>1, <3>2, ZenonT(60)
  <2>3. r[p].hash = h /\ r[p].deadline = lg[i].at + d
    BY <1>2, <1>4, <2>2, ZenonT(60)
  <2>4. ~(p \in 1..k)
    BY <1>1, <1>4, <2>3, SMTT(60), Z3T(60) DEF ExpiredAt
  <2>5. p \in k + 1..Len(r)
    BY <1>1, <2>4, SMTT(60), Z3T(60)
  <2> QED
    BY <2>3, <2>5, Zenon
<1> QED
  BY <1>3, <1>4, Zenon DEF Pending

-----------------------------------------------------------------------------
HistoryInv ==
    /\ LogOK(log, now)
    /\ ttl = 0 => ring = <<>>
    /\ \E src : Tracks(log, now, ttl, ring, src)
    /\ SuppressedExactly

\* One more check with the right answer keeps the log exact.
LEMMA ExactAppend ==
    ASSUME ttl \in Nat, now \in Nat, LogOK(log, now), SuppressedExactly,
           NEW h \in Hashes, NEW dup \in BOOLEAN, dup <=> Pending(log, h, now, ttl),
           log' = Append(log, [hash |-> h, at |-> now, dup |-> dup]), ttl' = ttl
    PROVE  LogOK(log', now) /\ SuppressedExactly'
<1> DEFINE n == Len(log)
           new == Append(log, [hash |-> h, at |-> now, dup |-> dup])
<1>1. log \in Seq(Check) /\ n \in Nat
  BY LogTypes, Zenon DEF LogOK
<1>2. /\ LogOK(new, now) /\ Len(new) = n + 1
      /\ new[n + 1] = [hash |-> h, at |-> now, dup |-> dup]
      /\ \A i \in 1..n : new[i] = log[i]
  BY LogAppend, SMTT(60), Z3T(60)
<1>3. /\ LogOK(log', now) /\ Len(log') = n + 1 /\ log' \in Seq(Check)
      /\ log'[n + 1].hash = h /\ log'[n + 1].at = now /\ log'[n + 1].dup = dup
      /\ \A i \in 1..n : log'[i] = log[i]
  BY <1>2, SMTT(60), Z3T(60) DEF LogOK
<1>4. DOMAIN log = 1..n /\ DOMAIN log' = 1..n + 1
  BY <1>1, <1>3, Seq_Len, Zenon
<1>5. \A m \in 1..n + 1 : Admitted(m - 1)' = Admitted(m - 1)
  <2>1. \A m \in 1..n + 1 : \A i \in 1..m - 1 : i \in 1..n
    BY <1>1, SMTT(60), Z3T(60)
  <2> QED
    BY <1>3, <2>1, Zenon DEF Admitted
<1>6. Admitted(n) = AdmittedIn(log) /\ (n + 1) - 1 = n
  BY <1>1, SMTT(60), Z3T(60) DEF Admitted, AdmittedIn
<1> HIDE DEF n, new
<1>7. ASSUME NEW m \in 1..n + 1
      PROVE  log'[m].dup <=> \E i \in Admitted(m - 1) :
                                /\ log'[i].hash = log'[m].hash
                                /\ log'[m].at < log'[i].at + ttl
                                /\ Cardinality({j \in Admitted(m - 1) : j > i}) < capacity
  <2>1. \A i \in Admitted(m - 1) : i \in 1..n
    BY <1>1, SMTT(60), Z3T(60) DEF Admitted
  <2>2. CASE m \in 1..n
    <3>1. log[m].dup <=> \E i \in Admitted(m - 1) :
                                /\ log[i].hash = log[m].hash
                                /\ log[m].at < log[i].at + ttl
                                /\ Cardinality({j \in Admitted(m - 1) : j > i}) < capacity
      BY <1>4, <2>2, Zenon DEF SuppressedExactly
    <3>2. log'[m] = log[m] /\ \A i \in Admitted(m - 1) : log'[i] = log[i]
      BY <1>3, <2>1, <2>2, Zenon
    <3> QED
      BY <3>1, <3>2, Zenon
  <2>3. CASE m = n + 1
    <3>1. Admitted(m - 1) = AdmittedIn(log)
      BY <1>6, <2>3, Zenon
    <3>2. \A i : Since(log, i) = {j \in Admitted(m - 1) : j > i}
      BY <3>1, Zenon DEF Since
    <3>3. dup <=> \E i \in Admitted(m - 1) :
                    /\ log[i].hash = h /\ now < log[i].at + ttl
                    /\ Cardinality({j \in Admitted(m - 1) : j > i}) < capacity
      BY <3>1, <3>2, ZenonT(60) DEF Pending
    <3>4. /\ log'[m].hash = h /\ log'[m].at = now /\ log'[m].dup = dup
          /\ \A i \in Admitted(m - 1) : log'[i] = log[i]
      BY <1>3, <2>1, <2>3, Zenon
    <3> QED
      BY <3>3, <3>4, ZenonT(60)
  <2>4. m \in 1..n \/ m = n + 1
    BY <1>1, SMTT(60), Z3T(60)
  <2> QED
    BY <2>2, <2>3, <2>4, Zenon
<1>8. capacity' = capacity
  BY Zenon DEF capacity
<1>9. ASSUME NEW m \in DOMAIN log'
      PROVE  (log[m].dup <=> \E i \in Admitted(m - 1) :
                                /\ log[i].hash = log[m].hash
                                /\ log[m].at < log[i].at + ttl
                                /\ Cardinality({j \in Admitted(m - 1) : j > i}) < capacity)'
  <2>1. m \in 1..n + 1 /\ Admitted(m - 1)' = Admitted(m - 1)
    BY <1>4, <1>5, Zenon
  <2> QED
    BY <1>7, <1>8, <2>1, Zenon
<1>10. SuppressedExactly'
  BY <1>9, Zenon DEF SuppressedExactly
<1> QED
  BY <1>3, <1>10, Zenon

LEMMA SameExact ==
    ASSUME SuppressedExactly, log' = log, ttl' = ttl
    PROVE  SuppressedExactly'
<1>1. capacity' = capacity /\ \A m : Admitted(m)' = Admitted(m)
  BY Zenon DEF capacity, Admitted
<1>2. ASSUME NEW m \in DOMAIN log'
      PROVE  (log[m].dup <=> \E i \in Admitted(m - 1) :
                                /\ log[i].hash = log[m].hash
                                /\ log[m].at < log[i].at + ttl
                                /\ Cardinality({j \in Admitted(m - 1) : j > i}) < capacity)'
  <2>1. Admitted(m - 1)' = Admitted(m - 1)
    BY <1>1, Zenon
  <2> QED
    BY <1>1, <2>1, Zenon DEF SuppressedExactly
<1> QED
  BY <1>2, Zenon DEF SuppressedExactly

\* Evicting before the new entry is dropping the head after it.
LEMMA TailAppend ==
    ASSUME NEW r \in Seq(Entry), r # <<>>, NEW e \in Entry
    PROVE  Append(Tail(r), e) = SubSeq(Append(r, e), 1 + 1, Len(Append(r, e)))
<1> DEFINE a == Append(Tail(r), e)
           b == Append(r, e)
           c == SubSeq(b, 1 + 1, Len(b))
           n == Len(r)
<1>1. n \in Nat /\ n >= 1 /\ Tail(r) \in Seq(Entry) /\ Len(Tail(r)) = n - 1
      /\ \A i \in 1..n - 1 : Tail(r)[i] = r[i + 1]
  BY Seq_Len, Seq_Empty, Seq_HeadTail, SMTT(60), Z3T(60)
<1>2. a \in Seq(Entry) /\ Len(a) = n /\ a[n] = e /\ \A i \in 1..n - 1 : a[i] = r[i + 1]
  BY <1>1, Seq_Append, SMTT(60), Z3T(60)
<1>3. b \in Seq(Entry) /\ Len(b) = n + 1 /\ b[n + 1] = e /\ \A i \in 1..n : b[i] = r[i]
  BY Seq_Append, SMTT(60), Z3T(60)
<1> HIDE DEF b
<1>4. \A i \in 1 + 1..Len(b) : b[i] \in Entry
  BY <1>1, <1>3, Seq_Len, SMTT(60), Z3T(60)
<1>5. /\ c \in Seq(Entry) /\ Len(c) = IF 1 + 1 <= Len(b) THEN Len(b) - (1 + 1) + 1 ELSE 0
      /\ \A i \in 1..Len(b) - (1 + 1) + 1 : c[i] = b[(1 + 1) + i - 1]
  BY <1>1, <1>3, <1>4, Seq_SubSeq, SMTT(60), Z3T(60)
<1> HIDE DEF a, c, n
<1>6. Len(c) = n /\ \A i \in 1..n : c[i] = b[i + 1]
  <2>1. Len(b) - (1 + 1) + 1 = n /\ \A i \in 1..n : (1 + 1) + i - 1 = i + 1
    BY <1>1, <1>3, SMTT(60), Z3T(60)
  <2> QED
    BY <1>1, <1>3, <1>5, <2>1, SMTT(60), Z3T(60)
<1>7. \A i \in 1..n : a[i] = c[i]
  <2> SUFFICES ASSUME NEW i \in 1..n PROVE a[i] = c[i]
    BY Zenon
  <2>1. CASE i = n
    BY <1>2, <1>3, <1>6, <2>1, Zenon
  <2>2. CASE i # n
    <3>1. i \in 1..n - 1 /\ i + 1 \in 1..n
      <4>1. n \in Nat /\ n >= 1
        BY <1>1, Zenon
      <4> QED
        BY <2>2, <4>1, SMTT(60), Z3T(60)
    <3>2. a[i] = r[i + 1]
      BY <1>2, <3>1, Zenon
    <3>3. b[i + 1] = r[i + 1]
      BY <1>3, <3>1, Zenon
    <3> QED
      BY <1>6, <3>2, <3>3, Zenon
  <2> QED
    BY <2>1, <2>2, Zenon
<1> QED
  BY <1>2, <1>5, <1>6, <1>7, Seq_Equal, ZenonT(60) DEF a, b, c

LEMMA HistoryInit == Init => HistoryInv
<1> SUFFICES ASSUME Init PROVE HistoryInv
  BY Zenon
<1>1. log = <<>> /\ ring = <<>> /\ Len(log) = 0 /\ Len(ring) = 0 /\ log \in Seq(Check)
  BY Seq_Empty, Zenon DEF Init
<1>2. 1..Len(log) = {} /\ 1..Len(ring) = {} /\ DOMAIN log = {}
  BY <1>1, Seq_Len, SMTT(60), Z3T(60)
<1>3. LogOK(log, now) /\ SuppressedExactly /\ AdmittedIn(log) = {}
  BY <1>1, <1>2, Zenon DEF LogOK, SuppressedExactly, AdmittedIn
<1>4. Tracks(log, now, ttl, ring, [p \in {} |-> 0])
  BY <1>2, <1>3, Zenon DEF Tracks
<1> QED
  BY <1>1, <1>3, <1>4, Zenon DEF HistoryInv

\* With the window disabled nothing is in the ring, and nothing is suppressed.
LEMMA DisabledHistory ==
    ASSUME Inv, HistoryInv, NEW hash \in Hashes, Disabled(hash)
    PROVE  HistoryInv'
<1> DEFINE new == Append(log, [hash |-> hash, at |-> now, dup |-> FALSE])
<1>1. /\ ttl = 0 /\ ring = <<>> /\ log' = new
      /\ ttl' = ttl /\ now' = now /\ ring' = ring
      /\ LogOK(log, now) /\ SuppressedExactly /\ now \in Nat /\ FALSE \in BOOLEAN
  BY Zenon DEF Disabled, is_enabled, Recorded, HistoryInv, Inv
<1>2. ~Pending(log, hash, now, ttl)
  <2>1. \A i \in AdmittedIn(log) : log[i].at \in Nat /\ log[i].at <= now
    BY <1>1, LogTypes, Zenon DEF LogOK
  <2>2. \A i \in AdmittedIn(log) : ~(now < log[i].at + ttl)
    BY <1>1, <2>1, SMTT(60), Z3T(60)
  <2> QED
    BY <2>2, Zenon DEF Pending
<1>3. LogOK(log', now) /\ SuppressedExactly'
  BY <1>1, <1>2, ExactAppend, Zenon
<1>4. Tracks(log', now, ttl, ring, [p \in {} |-> 0])
  <2>1. 1..Len(ring) = {}
    BY <1>1, SMTT(60), Z3T(60)
  <2>2. \A i \in AdmittedIn(log') : log'[i].at + ttl <= now
    <3>1. \A i \in AdmittedIn(log') : log'[i].at \in Nat /\ log'[i].at <= now
      BY <1>3, LogTypes, Zenon DEF LogOK
    <3>2. ttl = 0 /\ now \in Nat
      BY <1>1, Zenon
    <3> QED
      BY <3>1, <3>2, SMTT(60), Z3T(60)
  <2> QED
    BY <2>1, <2>2, Zenon DEF Tracks
<1> QED
  BY <1>1, <1>3, <1>4, Zenon DEF HistoryInv

\* check_and_insert suppresses exactly what it should, and the ring it leaves stands
\* for the admitted frames that can still be found.
LEMMA CheckHistory ==
    ASSUME Inv, HistoryInv, NEW hash \in Hashes, check_and_insert(hash)
    PROVE  HistoryInv'
<1> DEFINE live == expire_stale(ring)
           kept == set \ {ring[i].hash : i \in 1..(Len(ring) - Len(live))}
           entry == [hash |-> hash, deadline |-> now + ttl]
           Check1(dup) == [hash |-> hash, at |-> now, dup |-> dup]
<1>1. /\ ttl # 0 /\ ttl' = ttl /\ now' = now
      /\ log' = Append(log, Check1(hash \in kept))
      /\ hash \in kept => ring' = live
      /\ hash \notin kept =>
            ring' = Append(IF Len(live) >= capacity THEN Tail(live) ELSE live, entry)
  BY Zenon DEF check_and_insert, evict_oldest, is_enabled, Recorded
<1>2. /\ ttl \in Nat /\ now \in Nat /\ Agree(ring, set) /\ ring \in Seq(Entry)
      /\ Len(ring) \in Nat /\ Len(ring) <= capacity
      /\ LogOK(log, now) /\ SuppressedExactly /\ log \in Seq(Check)
  BY Seq_Len, Zenon DEF Inv, Agree, HistoryInv, LogOK
<1>3. PICK src : Tracks(log, now, ttl, ring, src)
  BY Zenon DEF HistoryInv
<1>4. PICK k \in 0..Len(ring) :
         live = SubSeq(ring, k + 1, Len(ring)) /\ ExpiredAt(ring, k, now)
  BY <1>2, ExpireFacts, Zenon
<1>5. Len(live) = Len(ring) - k /\ Agree(live, set \ {ring[i].hash : i \in 1..k})
  <2>1. Agree(ring, set) /\ live = SubSeq(ring, k + 1, Len(ring))
    BY <1>2, <1>4, Zenon
  <2> HIDE DEF live
  <2> QED
    BY <2>1, DropAgrees, Zenon
<1> DEFINE src1 == [p \in 1..Len(ring) - k |-> src[k + p]]
<1>6. Tracks(log, now, ttl, live, src1)
  <2>1. \A i \in 1..k : ring[i].deadline <= now
    BY <1>4, Zenon DEF ExpiredAt
  <2> QED
    BY <1>2, <1>3, <1>4, <2>1, DropTracks, Zenon
<1> HIDE DEF live, src1
<1>7. Len(ring) - Len(live) = k /\ Len(live) \in Nat /\ live \in Seq(Entry)
  BY <1>2, <1>5, SMTT(60), Z3T(60) DEF Agree
<1>8. hash \in kept <=> \E p \in k + 1..Len(ring) : ring[p].hash = hash
  <2>1. kept = HashesIn(ring) \ {ring[i].hash : i \in 1..k}
    BY <1>2, <1>7, Zenon DEF Agree
  <2>2. Distinct(ring)
    BY <1>2, Zenon DEF Agree
  <2>3. /\ \A p \in k + 1..Len(ring) : p \in 1..Len(ring) /\ ~(p \in 1..k)
        /\ \A p \in 1..Len(ring) : p \in 1..k \/ p \in k + 1..Len(ring)
        /\ \A p \in 1..k : p \in 1..Len(ring)
    BY <1>2, SMTT(60), Z3T(60)
  <2> HIDE DEF kept
  <2> QED
    BY <2>1, <2>2, <2>3, ZenonT(60) DEF HashesIn, Distinct
<1>9. hash \in kept <=> Pending(log, hash, now, ttl)
  BY <1>2, <1>3, <1>4, <1>8, LookupExact, SMTT(60), Z3T(60)
<1>10. (hash \in kept) \in BOOLEAN
  BY SMTT(60), Z3T(60)
<1> HIDE DEF kept
<1>11. LogOK(log', now) /\ SuppressedExactly'
  BY <1>1, <1>2, <1>9, <1>10, ExactAppend, ZenonT(60)
<1>12. CASE hash \in kept
  <2>1. log' = Append(log, Check1(TRUE)) /\ ring' = live
    BY <1>1, <1>12, Zenon
  <2>2. Tracks(log', now, ttl, ring', src1)
    BY <1>2, <1>6, <2>1, SuppressTracks, Zenon
  <2> QED
    BY <1>1, <1>11, <2>2, Zenon DEF HistoryInv
<1>13. CASE hash \notin kept
  <2>1. log' = Append(log, Check1(FALSE)) /\ entry \in Entry
    <3>1. (hash \in kept) = FALSE
      BY <1>13, SMTT(60), Z3T(60)
    <3>2. log' = Append(log, Check1(FALSE))
      BY <1>1, <3>1, Zenon
    <3> QED
      BY <1>2, <3>2, SMTT(60), Z3T(60) DEF Entry
  <2> DEFINE full == Append(live, entry)
             src2 == [p \in 1..Len(live) + 1 |-> IF p = Len(live) + 1 THEN Len(log) + 1 ELSE src1[p]]
  <2>2. Tracks(log', now, ttl, full, src2)
    <3>1. Tracks(Append(log, Check1(FALSE)), now, ttl, full, src2)
      BY <1>2, <1>6, <1>7, AppendTracks, SMTT(60), Z3T(60)
    <3> QED
      BY <2>1, <3>1, Zenon
  <2>3. full \in Seq(Entry) /\ Len(full) = Len(live) + 1
    BY <1>7, <2>1, Seq_Append, Zenon
  <2> HIDE DEF full, src2, entry
  <2>4. CASE Len(live) >= capacity
    <3>1. live # <<>>
      BY <2>4, CapacityFacts, SMTT(60), Z3T(60)
    <3>2. ring' = SubSeq(full, 1 + 1, Len(full))
      BY <1>1, <1>7, <1>13, <2>1, <2>4, <3>1, TailAppend, ZenonT(60) DEF full
    <3>3. 1 \in 0..Len(full) /\ 1 \in 1..Len(full) /\ Len(full) - 1 >= capacity
      BY <1>7, <2>3, <2>4, CapacityFacts, SMTT(60), Z3T(60)
    <3>4. log' \in Seq(Check)
      BY <1>11, Zenon DEF LogOK
    <3>5. Cardinality(Since(log', src2[1])) >= capacity
      BY <2>2, <2>3, <3>3, <3>4, SinceCounts, ZenonT(60)
    <3>6. \A p \in 1..1 : p = 1
      BY SMTT(60), Z3T(60)
    <3>7. \E src3 : Tracks(log', now, ttl, ring', src3)
      BY <1>2, <2>2, <2>3, <3>2, <3>3, <3>4, <3>5, <3>6, DropTracks, Zenon
    <3> QED
      BY <1>1, <1>11, <3>7, Zenon DEF HistoryInv
  <2>5. CASE ~(Len(live) >= capacity)
    <3>1. ring' = full
      BY <1>1, <1>13, <2>5, Zenon DEF full
    <3> QED
      BY <1>1, <1>11, <2>2, <3>1, Zenon DEF HistoryInv
  <2> QED
    BY <2>4, <2>5, ZenonT(60)
<1> QED
  BY <1>12, <1>13, Zenon

LEMMA HistoryStep == Inv /\ HistoryInv /\ [Next]_vars => HistoryInv'
<1> SUFFICES ASSUME Inv, HistoryInv, [Next]_vars PROVE HistoryInv'
  BY Zenon
<1>1. CASE Tick
  <2>1. /\ now \in Nat /\ now' \in Nat /\ now <= now' /\ ttl \in Nat /\ ring \in Seq(Entry)
        /\ log \in Seq(Check) /\ UNCHANGED <<ttl, ring, log>>
    BY <1>1, SMTT(60), Z3T(60) DEF Tick, Inv, Agree, HistoryInv, LogOK
  <2>2. LogOK(log, now')
    <3>1. \A i \in 1..Len(log) : log[i].at \in Nat /\ log[i].at <= now
      BY <2>1, LogTypes, Zenon DEF HistoryInv, LogOK
    <3>2. \A i \in 1..Len(log) : log[i].at <= now'
      BY <2>1, <3>1, SMTT(60), Z3T(60)
    <3> QED
      BY <3>2, Zenon DEF HistoryInv, LogOK
  <2>3. \E src : Tracks(log, now', ttl, ring, src)
    BY <2>1, LaterTracks, Zenon DEF HistoryInv
  <2>4. SuppressedExactly'
    BY <2>1, SameExact, Zenon DEF HistoryInv
  <2> QED
    BY <2>1, <2>2, <2>3, <2>4, Zenon DEF HistoryInv
<1>2. ASSUME NEW hash \in Hashes, Disabled(hash) PROVE HistoryInv'
  BY <1>2, DisabledHistory, Zenon
<1>3. ASSUME NEW hash \in Hashes, check_and_insert(hash) PROVE HistoryInv'
  BY <1>3, CheckHistory, Zenon
<1>4. CASE UNCHANGED vars
  <2>1. UNCHANGED <<ttl, now, ring, log>>
    BY <1>4, Zenon DEF vars
  <2>2. SuppressedExactly'
    BY <2>1, SameExact, Zenon DEF HistoryInv
  <2> QED
    BY <2>1, <2>2, Zenon DEF HistoryInv
<1> QED
  BY <1>1, <1>2, <1>3, <1>4, Zenon DEF Next

\* The window suppresses a frame exactly if a copy was let through less than the ttl
\* ago and fewer than `capacity' others since, for any capacity and ttl and however
\* long it runs: expiry from the head, eviction, and copies that do not refresh
\* their entry never make it forget too early or too late.
THEOREM SuppressedExactlyHolds == Spec => []SuppressedExactly
<1>1. Spec => [](Inv /\ HistoryInv)
  BY InvInit, InvStep, HistoryInit, HistoryStep, PTL DEF Spec
<1>2. HistoryInv => SuppressedExactly
  BY Zenon DEF HistoryInv
<1> QED
  BY <1>1, <1>2, PTL

=============================================================================
