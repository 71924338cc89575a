------------------------------ MODULE UdpProofs ------------------------------
(***************************************************************************)
(* A udps: listener and its writers, proved for every capacity, every set  *)
(* of addresses and any number of peers and frames.                        *)
(*                                                                         *)
(* TableBounded becomes inductive with what the listener has in hand while *)
(* it admits a peer: from the datagram of a stranger until the peer is     *)
(* inserted the address is not in the table, and from the eviction on      *)
(* there is room.  That is so because all of admit_new_peer runs in the    *)
(* task that owns the table; the invariant says what its awaits must not   *)
(* break.                                                                  *)
(*                                                                         *)
(* RefinesRouterSystem needs to know whose each peer is: Ownership says    *)
(* that a peer is in its listener's table, on its way in, on its way out,  *)
(* removed or refused, and in one of them only, wherever its writer is.    *)
(***************************************************************************)
EXTENDS UdpServer, TLAPS

-----------------------------------------------------------------------------
(* Sequences. *)

\* The empty sequence, and that every other one has an element.
LEMMA Seq_Empty ==
  ASSUME NEW S
  PROVE  /\ <<>> \in Seq(S)
         /\ Len(<<>>) = 0
         /\ \A s \in Seq(S) : s # <<>> => Len(s) \in Nat \ {0}
BY SMTT(60), Z3T(60)

\* The length, the domain and the range of a sequence.
LEMMA Seq_Len ==
  ASSUME NEW S, NEW s \in Seq(S)
  PROVE  /\ Len(s) \in Nat
         /\ s \in [1..Len(s) -> S]
         /\ DOMAIN s = 1..Len(s)
BY SMTT(60), Z3T(60)

\* What a sequence over S holds is in S.
LEMMA Seq_Element ==
  ASSUME NEW S, NEW s \in Seq(S), NEW n \in 1..Len(s)
  PROVE  s[n] \in S
BY SMTT(60), Z3T(60)

\* Concatenation, element by element.
LEMMA Seq_Concat ==
  ASSUME NEW S, NEW s \in Seq(S), NEW t \in Seq(S)
  PROVE  /\ s \o t \in Seq(S)
         /\ Len(s \o t) = Len(s) + Len(t)
         /\ \A i \in 1..(Len(s) + Len(t)) :
              (s \o t)[i] = IF i <= Len(s) THEN s[i] ELSE t[i - Len(s)]
BY SMTT(60), Z3T(60)

\* A stretch of a sequence, element by element.
LEMMA Seq_SubSeq ==
  ASSUME NEW S, NEW s, NEW m \in Int, NEW n \in Int, \A i \in m..n : s[i] \in S
  PROVE  /\ SubSeq(s, m, n) \in Seq(S)
         /\ Len(SubSeq(s, m, n)) = IF m <= n THEN n - m + 1 ELSE 0
         /\ \A i \in 1..(n - m + 1) : SubSeq(s, m, n)[i] = s[m + i - 1]
BY SMTT(60), Z3T(60)

\* The two parts of a queue that is popped.
LEMMA Seq_HeadTail ==
  ASSUME NEW S, NEW s \in Seq(S), s # <<>>
  PROVE  /\ Head(s) \in S
         /\ Tail(s) \in Seq(S)
         /\ Len(Tail(s)) = Len(s) - 1
         /\ \A i \in 1..Len(Tail(s)) : Tail(s)[i] = s[i + 1]
BY SMTT(60), Z3T(60)

Entry == [addr : Addrs, id : Ids]
Packet == [src : Addrs \cup {"none"}, frames : Seq(Frames)]

\* The positions of which the invariant says something, and the others.
Watched == {"admit", "admitted", "evicted", "removing", "forward", "reap"}
Unwatched == {"none", "announce", "bind", "bound", "listen", "join", "pending", "wait", "send",
              "ended", "refused"}

TypeOK ==
    /\ peers \in [Ids -> Seq(Entry)]
    /\ packet \in [Ids -> Packet]
    /\ task \in [Ids -> Watched \cup Unwatched]
    /\ reason \in [Ids -> Reasons \cup {"none"}]
    /\ next_id \in Nat \ {0}
    /\ \A id \in Ids : id >= next_id => task[id] = "none"

Distinct(s) == \A i, j \in 1..Len(s) : s[i].addr = s[j].addr => i = j

AddrsIn(s) == {s[i].addr : i \in 1..Len(s)}

\* l has removed its least recent peer for the sake of a new one.
Evicting(l) == At(l, "evicted") \/ (At(l, "removing") /\ reason[l] = "LruEvicted")

Table(l) ==
    /\ Distinct(peers[l]) /\ Len(peers[l]) <= peer_capacity
    /\ At(l, "admit") \/ At(l, "admitted") \/ Evicting(l) =>
          packet[l].src \in Addrs /\ packet[l].src \notin AddrsIn(peers[l])
    /\ Evicting(l) => Len(peers[l]) < peer_capacity
    /\ At(l, "forward") => packet[l].src \in AddrsIn(peers[l])
    /\ At(l, "reap") => reason[l] # "LruEvicted"

Inv == TypeOK /\ \A l \in Ids : Table(l)

-----------------------------------------------------------------------------
LEMMA AppendFacts ==
    ASSUME NEW s \in Seq(Entry), NEW e \in Entry
    PROVE  /\ Append(s, e) \in Seq(Entry)
           /\ Len(Append(s, e)) = Len(s) + 1
           /\ \A i \in 1..Len(s) : Append(s, e)[i] = s[i]
           /\ Append(s, e)[Len(s) + 1] = e
  BY SMTT(60), Z3T(60)

LEMMA WithoutFacts ==
    ASSUME NEW s \in Seq(Entry), NEW i \in 1..Len(s)
    PROVE  /\ Without(s, i) \in Seq(Entry)
           /\ Len(Without(s, i)) = Len(s) - 1
           /\ \A j \in 1..Len(s) - 1 : Without(s, i)[j] = s[IF j < i THEN j ELSE j + 1]
<1> DEFINE front == SubSeq(s, 1, i - 1)
           back == SubSeq(s, i + 1, Len(s))
<1>1. Len(s) \in Nat /\ i \in Nat /\ i <= Len(s) /\ i > 0 /\ \A k \in 1..Len(s) : s[k] \in Entry
  BY Seq_Len, SMTT(60), Z3T(60)
<1>2. /\ front \in Seq(Entry) /\ Len(front) = i - 1
      /\ \A k \in 1..i - 1 : front[k] = s[k]
  BY <1>1, Seq_SubSeq, SMTT(60), Z3T(60)
<1>3. /\ back \in Seq(Entry) /\ Len(back) = Len(s) - i
      /\ \A k \in 1..Len(s) - i : back[k] = s[i + k]
  BY <1>1, Seq_SubSeq, SMTT(60), Z3T(60)
<1>4. Without(s, i) = front \o back
  BY Zenon DEF Without
<1>5. /\ front \o back \in Seq(Entry) /\ Len(front \o back) = Len(front) + Len(back)
      /\ \A j \in 1..Len(front) + Len(back) :
            (front \o back)[j] = IF j <= Len(front) THEN front[j] ELSE back[j - Len(front)]
  BY <1>2, <1>3, Seq_Concat, ZenonT(60)
<1>6. Len(front) + Len(back) = Len(s) - 1
  <2>1. Len(front) = i - 1 /\ Len(back) = Len(s) - i
    BY <1>2, <1>3, Zenon
  <2> HIDE DEF front, back
  <2> QED
    BY <1>1, <2>1, SMTT(60), Z3T(60)
<1>7. ASSUME NEW j \in 1..Len(s) - 1
      PROVE  Without(s, i)[j] = s[IF j < i THEN j ELSE j + 1]
  <2>1. CASE j < i
    <3>1. j \in 1..i - 1 /\ j <= Len(front)
      BY <1>1, <1>2, <2>1, SMTT(60), Z3T(60)
    <3> QED
      BY <1>2, <1>4, <1>5, <1>6, <2>1, <3>1, Zenon
  <2>2. CASE ~(j < i)
    <3>1. ~(j <= Len(front)) /\ j - Len(front) \in 1..Len(s) - i /\ i + (j - Len(front)) = j + 1
      BY <1>1, <1>2, <2>2, SMTT(60), Z3T(60)
    <3>2. (front \o back)[j] = back[j - Len(front)]
      BY <1>5, <1>6, <3>1, Zenon
    <3> QED
      BY <1>3, <1>4, <2>2, <3>1, <3>2, Zenon
  <2> QED
    BY <2>1, <2>2, Zenon
<1> QED
  BY <1>4, <1>5, <1>6, <1>7, Zenon

-----------------------------------------------------------------------------
LEMMA InitInv ==
    Init => Inv
<1> SUFFICES ASSUME Init PROVE Inv
  BY Zenon
<1>1. <<>> \in Seq(Entry) /\ Len(<<>>) = 0 /\ <<>> \in Seq(Frames)
  BY Seq_Empty, Zenon
<1>2. NoPacket \in Packet
  BY <1>1, Zenon DEF NoPacket, Packet
<1>3. TypeOK
  <2>1. /\ peers = [id \in Ids |-> <<>>] /\ packet = [id \in Ids |-> NoPacket]
        /\ task = [id \in Ids |-> "none"] /\ reason = [id \in Ids |-> "none"] /\ next_id = 1
    BY Zenon DEF Init, TransportInit
  <2>2. peers \in [Ids -> Seq(Entry)] /\ packet \in [Ids -> Packet]
    BY <1>1, <1>2, <2>1, Zenon
  <2>3. /\ task \in [Ids -> Watched \cup Unwatched] /\ \A id \in Ids : task[id] = "none"
        /\ reason \in [Ids -> Reasons \cup {"none"}]
    BY <2>1, Zenon DEF Unwatched
  <2>4. next_id \in Nat \ {0}
    BY <2>1, SMTT(60), Z3T(60)
  <2> QED
    BY <2>2, <2>3, <2>4, Zenon DEF TypeOK
<1>4. ASSUME NEW l \in Ids PROVE Table(l)
  <2>1. peers[l] = <<>> /\ task[l] = "none" /\ 0 <= peer_capacity
    BY UdpAssumption, SMTT(60), Z3T(60) DEF Init, TransportInit
  <2> QED
    BY <1>1, <2>1, SMTT(60), Z3T(60) DEF Table, Distinct, Evicting, At
<1> QED
  BY <1>3, <1>4, Zenon DEF Inv

LEMMA NextInv ==
    Inv /\ [Next]_vars => Inv'
\* Removing a peer keeps the addresses apart and adds none.
<1>WithoutDistinct.
    ASSUME NEW s \in Seq(Entry), Distinct(s), NEW i \in 1..Len(s)
    PROVE  /\ Distinct(Without(s, i))
           /\ AddrsIn(Without(s, i)) \subseteq AddrsIn(s)
           /\ s[i].addr \notin AddrsIn(Without(s, i))
  <2> USE <1>WithoutDistinct
  <2> DEFINE w == Without(s, i)
             From(j) == IF j < i THEN j ELSE j + 1
  <2>1. Len(s) \in Nat /\ Len(w) = Len(s) - 1 /\ \A j \in 1..Len(w) : w[j] = s[From(j)]
    BY WithoutFacts, Seq_Len, Zenon
  <2>2. \A j \in 1..Len(w) : From(j) \in 1..Len(s) /\ From(j) # i
    BY <2>1, SMTT(60), Z3T(60)
  <2>3. \A j, k \in 1..Len(w) : From(j) = From(k) => j = k
    BY <2>1, SMTT(60), Z3T(60)
  <2> HIDE DEF From
  <2>4. Distinct(w)
    BY <2>1, <2>2, <2>3, ZenonT(60) DEF Distinct
  <2>5. AddrsIn(w) \subseteq AddrsIn(s)
    BY <2>1, <2>2, Zenon DEF AddrsIn
  <2>6. s[i].addr \notin AddrsIn(w)
    BY <2>1, <2>2, Z3T(60), SMTT(60) DEF AddrsIn, Distinct
  <2> QED
    BY <2>4, <2>5, <2>6, Zenon
\* A new address at the end keeps the addresses apart.
<1>AppendDistinct.
    ASSUME NEW s \in Seq(Entry), Distinct(s), NEW e \in Entry, e.addr \notin AddrsIn(s)
    PROVE  /\ Distinct(Append(s, e))
           /\ e.addr \in AddrsIn(Append(s, e))
  <2> USE <1>AppendDistinct
  <2> DEFINE a == Append(s, e)
  <2>1. /\ Len(s) \in Nat /\ Len(a) = Len(s) + 1 /\ a[Len(s) + 1] = e
        /\ \A i \in 1..Len(s) : a[i] = s[i]
    BY AppendFacts, Seq_Len, Zenon
  <2>2. \A i \in 1..Len(a) : i \in 1..Len(s) \/ i = Len(s) + 1
    BY <2>1, SMTT(60), Z3T(60)
  <2> HIDE DEF a
  <2> QED
    BY <2>1, <2>2, SMTT(60), Z3T(60) DEF Distinct, AddrsIn, a
\* A listener is left alone, or goes to a position of which nothing is said.
<1>Untouched.
    ASSUME NEW x \in Ids, Table(x),
           peers'[x] = peers[x], packet'[x].src = packet[x].src, reason'[x] = reason[x],
           task'[x] = task[x] \/ task'[x] \in Unwatched
    PROVE  Table(x)'
  BY <1>Untouched, Zenon DEF Table, Evicting, At, Unwatched
\* The steps that leave the tables, the datagrams and the reasons alone and move a
\* task to a position of which nothing is said.
<1>TaskInv.
    ASSUME Inv, UNCHANGED udpVars,
           next_id' \in Nat \ {0}, next_id' >= next_id,
           \/ task' = task
           \/ \E x \in Ids, to \in Unwatched :
                 task' = [task EXCEPT ![x] = to] /\ (task[x] # "none" \/ x < next_id')
    PROVE  Inv'
  <2> USE <1>TaskInv
  <2>1. TypeOK
    BY Zenon DEF Inv
  <2>2. \A x \in Ids : task'[x] = task[x] \/ (task'[x] \in Unwatched /\ (task[x] # "none" \/ x < next_id'))
    BY <2>1, Zenon DEF TypeOK
  <2>3. task' \in [Ids -> Watched \cup Unwatched]
    BY <2>1, Zenon DEF TypeOK
  <2>4. \A x \in Ids : x >= next_id' => task'[x] = "none"
    BY <2>1, <2>2, SMTT(60), Z3T(60) DEF TypeOK, Ids
  <2>5. TypeOK'
    BY <2>1, <2>3, <2>4, Zenon DEF TypeOK, udpVars
  <2>6. ASSUME NEW x \in Ids PROVE Table(x)'
    BY <2>2, <1>Untouched, Zenon DEF Inv, udpVars
  <2> QED
    BY <2>5, <2>6, Zenon DEF Inv
\* A step of listener l that leaves the other listeners alone; a task it starts or
\* moves on besides its own goes to a position of which nothing is said.
<1>OthersInv.
    ASSUME Inv, NEW l \in Ids, NEW p, NEW k, NEW r,
           peers' = [peers EXCEPT ![l] = p] \/ peers' = peers,
           packet' = [packet EXCEPT ![l] = k] \/ packet' = packet,
           reason' = [reason EXCEPT ![l] = r] \/ reason' = reason,
           \A x \in Ids \ {l} : task'[x] = task[x] \/ task'[x] \in Unwatched
    PROVE  \A x \in Ids \ {l} : Table(x)'
  <2> USE <1>OthersInv
  <2> SUFFICES ASSUME NEW x \in Ids \ {l} PROVE Table(x)'
    BY Zenon
  <2>1. peers'[x] = peers[x] /\ packet'[x] = packet[x] /\ reason'[x] = reason[x]
    BY Zenon DEF Inv, TypeOK
  <2> QED
    BY <2>1, <1>Untouched, Zenon DEF Inv
\* A step that moves only task l, to position `to'.
<1>MoveFacts.
    ASSUME Inv, NEW l \in Ids, NEW to \in Watched \cup Unwatched, ~At(l, "none"),
           task' = [task EXCEPT ![l] = to], next_id' = next_id
    PROVE  /\ task' \in [Ids -> Watched \cup Unwatched] /\ task'[l] = to
           /\ \A x \in Ids \ {l} : task'[x] = task[x]
           /\ next_id' \in Nat \ {0} /\ \A id \in Ids : id >= next_id' => task'[id] = "none"
  BY <1>MoveFacts, Zenon DEF Inv, TypeOK, At
<1>DatagramFacts.
    ASSUME NEW src \in Addrs, NEW frames \in Datagrams
    PROVE  [src |-> src, frames |-> frames] \in Packet
  <2> USE <1>DatagramFacts
  <2>1. frames \in Seq(Frames)
    <3>1. CASE frames = <<>>
      BY <3>1, SMTT(60), Z3T(60)
    <3>2. CASE \E f \in Frames : frames = <<f>>
      BY <3>2, SMTT(60), Z3T(60)
    <3>3. CASE \E f, g \in Frames : frames = <<f, g>>
      BY <3>3, SMTT(60), Z3T(60)
    <3> QED
      BY <3>1, <3>2, <3>3, SMTT(60), Z3T(60) DEF Datagrams
  <2> QED
    BY <2>1, Zenon DEF Packet
\* recv_from: a peer that is heard moves to the end of the table.
<1>PacketFromPeerInv.
    ASSUME Inv, NEW l \in Ids, NEW src \in Addrs, NEW frames \in Datagrams,
           PacketFromPeer(l, src, frames)
    PROVE  Inv'
  <2> USE <1>PacketFromPeerInv
  <2> DEFINE s == peers[l]
             i == Place(l, src)
             k == [src |-> src, frames |-> frames]
  <2>1. s \in Seq(Entry) /\ Len(s) \in Nat /\ DOMAIN s = 1..Len(s) /\ TypeOK /\ Table(l)
    BY Seq_Len, Zenon DEF Inv, TypeOK
  <2>2. i \in 1..Len(s) /\ s[i].addr = src /\ s[i] \in Entry
    <3>1. \E n \in DOMAIN s : s[n].addr = src
      BY Zenon DEF PacketFromPeer, AddrsOf
    <3>2. i \in DOMAIN s /\ s[i].addr = src
      BY <3>1, Zenon DEF Place
    <3> QED
      BY <2>1, <3>2, Seq_Element, Zenon
  <2>3. /\ peers' = [peers EXCEPT ![l] = Append(Without(s, i), s[i])]
        /\ packet' = [packet EXCEPT ![l] = k]
        /\ task' = [task EXCEPT ![l] = "forward"] /\ At(l, "listen")
        /\ reason' = reason /\ next_id' = next_id
    BY Zenon DEF PacketFromPeer, Heard, Local, Goto, allocVars
  <2>4. /\ Without(s, i) \in Seq(Entry) /\ Len(Without(s, i)) = Len(s) - 1
        /\ Distinct(Without(s, i)) /\ src \notin AddrsIn(Without(s, i))
    <3>1. Distinct(s)
      BY <2>1, Zenon DEF Table
    <3> HIDE DEF s, i
    <3> QED
      BY <2>1, <2>2, <3>1, WithoutFacts, <1>WithoutDistinct, Zenon
  <2> DEFINE t == Append(Without(s, i), s[i])
  <2>5. t \in Seq(Entry) /\ Len(t) = Len(s)
    <3>1. t \in Seq(Entry) /\ Len(t) = Len(Without(s, i)) + 1
      BY <2>2, <2>4, AppendFacts, Zenon
    <3> HIDE DEF t, s, i
    <3> QED
      BY <2>1, <2>4, <3>1, SMTT(60), Z3T(60)
  <2>6. Distinct(t) /\ src \in AddrsIn(t)
    BY <2>2, <2>4, <1>AppendDistinct, Zenon
  <2> HIDE DEF t, s, i
  <2>7. k \in Packet
    BY <1>DatagramFacts, Zenon
  <2>8. /\ task' \in [Ids -> Watched \cup Unwatched] /\ task'[l] = "forward"
        /\ \A x \in Ids \ {l} : task'[x] = task[x]
        /\ next_id' \in Nat \ {0} /\ \A id \in Ids : id >= next_id' => task'[id] = "none"
    BY <2>3, <1>MoveFacts, Zenon DEF Watched, At
  <2>9. peers'[l] = t /\ packet'[l] = k /\ peers' \in [Ids -> Seq(Entry)] /\ packet' \in [Ids -> Packet]
    BY <2>1, <2>3, <2>5, <2>7, Zenon DEF TypeOK, t
  <2>10. TypeOK'
    BY <2>1, <2>3, <2>8, <2>9, Zenon DEF TypeOK
  <2>11. Table(l)'
    <3>1. Len(s) <= peer_capacity
      BY <2>1, Zenon DEF Table, s
    <3> QED
      BY <2>5, <2>6, <2>8, <2>9, <3>1, SMTT(60), Z3T(60) DEF Table, Evicting, At
  <2>12. \A x \in Ids \ {l} : Table(x)'
    BY <2>3, <2>8, <1>OthersInv, Zenon
  <2> QED
    BY <2>10, <2>11, <2>12, Zenon DEF Inv
\* recv_from: a stranger, whose address is not in the table; its id is new.
<1>PacketFromStrangerInv.
    ASSUME Inv, NEW l \in Ids, NEW src \in Addrs, NEW frames \in Datagrams,
           PacketFromStranger(l, src, frames)
    PROVE  Inv'
  <2> USE <1>PacketFromStrangerInv
  <2> DEFINE k == [src |-> src, frames |-> frames]
  <2>1. peers[l] \in Seq(Entry) /\ DOMAIN peers[l] = 1..Len(peers[l]) /\ TypeOK /\ Table(l)
    BY Seq_Len, Zenon DEF Inv, TypeOK
  <2>2. /\ packet' = [packet EXCEPT ![l] = k] /\ UNCHANGED <<peers, reason>>
        /\ task' = [task EXCEPT ![l] = "admit", ![next_id] = "announce"]
        /\ At(l, "listen") /\ src \notin AddrsOf(l)
        /\ next_id <= MaxId /\ next_id' = next_id + 1
    BY Zenon DEF PacketFromStranger, AdmitPeer, Alloc
  <2>3. next_id \in Ids /\ task[next_id] = "none" /\ next_id # l
    BY <2>1, <2>2, RouterAssumption, SMTT(60), Z3T(60) DEF TypeOK, Ids, At
  <2>4. /\ task' \in [Ids -> Watched \cup Unwatched] /\ task'[l] = "admit"
        /\ \A x \in Ids \ {l} : task'[x] = task[x] \/ task'[x] \in Unwatched
        /\ next_id' \in Nat \ {0} /\ \A id \in Ids : id >= next_id' => task'[id] = "none"
    <3>1. "admit" \in Watched /\ "announce" \in Unwatched
      BY Zenon DEF Watched, Unwatched
    <3>2. /\ task' \in [Ids -> Watched \cup Unwatched] /\ task'[l] = "admit"
          /\ task'[next_id] = "announce" /\ \A x \in Ids \ {l, next_id} : task'[x] = task[x]
      BY <2>1, <2>2, <2>3, <3>1, Zenon DEF TypeOK
    <3>3. \A id \in Ids : id >= next_id' => id \in Ids \ {l, next_id} /\ id >= next_id
      BY <2>1, <2>2, <2>3, SMTT(60), Z3T(60) DEF TypeOK, Ids, At
    <3>4. next_id \in Nat \ {0} /\ \A id \in Ids : id >= next_id => task[id] = "none"
      BY <2>1, Zenon DEF TypeOK
    <3>5. next_id' \in Nat \ {0}
      BY <2>2, <3>4, SMTT(60), Z3T(60)
    <3>6. \A id \in Ids : id >= next_id' => task'[id] = "none"
      BY <3>2, <3>3, <3>4, Zenon
    <3>7. \A x \in Ids \ {l} : task'[x] = task[x] \/ task'[x] \in Unwatched
      BY <3>1, <3>2, Zenon
    <3> QED
      BY <3>2, <3>5, <3>6, <3>7, Zenon
  <2>5. k \in Packet
    BY <1>DatagramFacts, Zenon
  <2>6. packet'[l] = k /\ packet' \in [Ids -> Packet]
    BY <2>1, <2>2, <2>5, Zenon DEF TypeOK
  <2>7. TypeOK'
    BY <2>1, <2>2, <2>4, <2>6, Zenon DEF TypeOK
  <2>8. Table(l)'
    <3>1. src \notin AddrsIn(peers[l])
      BY <2>1, <2>2, Zenon DEF AddrsOf, AddrsIn
    <3> QED
      BY <2>1, <2>2, <2>4, <2>6, <3>1, Zenon DEF Table, Evicting, At
  <2>9. \A x \in Ids \ {l} : Table(x)'
    BY <2>2, <2>4, <1>OthersInv, Zenon
  <2> QED
    BY <2>7, <2>8, <2>9, Zenon DEF Inv
\* The announcement is out, and admit_new_peer goes on.
<1>SendPeerAddedInv.
    ASSUME Inv, NEW l \in Ids, NEW id \in Ids, SendPeerAdded(l, id)
    PROVE  Inv'
  <2> USE <1>SendPeerAddedInv
  <2>1. TypeOK /\ Table(l)
    BY Zenon DEF Inv
  <2>2. /\ UNCHANGED <<peers, packet, reason, next_id>>
        /\ task' = [task EXCEPT ![l] = "admitted", ![id] = "pending"]
        /\ At(l, "admit") /\ At(id, "announce")
    BY Zenon DEF SendPeerAdded, SendAdded, Admitted, allocVars, udpVars
  <2>3. id # l /\ "admitted" \in Watched /\ "pending" \in Unwatched
    BY <2>2, Zenon DEF At, Watched, Unwatched
  <2>4. /\ task' \in [Ids -> Watched \cup Unwatched] /\ task'[l] = "admitted" /\ task'[id] = "pending"
        /\ \A x \in Ids \ {l, id} : task'[x] = task[x]
    BY <2>1, <2>2, <2>3, Zenon DEF TypeOK
  <2>5. \A x \in Ids : x >= next_id' => x \notin {l, id}
    BY <2>1, <2>2, Zenon DEF TypeOK, At
  <2>6. TypeOK'
    BY <2>1, <2>2, <2>4, <2>5, Zenon DEF TypeOK
  <2>7. Table(l)'
    BY <2>1, <2>2, <2>4, Zenon DEF Table, Evicting, At
  <2>8. \A x \in Ids \ {l} : Table(x)'
    BY <2>2, <2>3, <2>4, <1>OthersInv, Zenon
  <2> QED
    BY <2>6, <2>7, <2>8, Zenon DEF Inv
\* The router is gone: the datagram is dropped.
<1>AdmitFailsInv.
    ASSUME Inv, NEW l \in Ids, NEW id \in Ids, AdmitFails(l, id)
    PROVE  Inv'
  <2> USE <1>AdmitFailsInv
  <2>1. TypeOK /\ Table(l)
    BY Zenon DEF Inv
  <2>2. /\ UNCHANGED <<peers, reason, next_id>> /\ packet' = [packet EXCEPT ![l] = NoPacket]
        /\ task' = [task EXCEPT ![l] = "listen", ![id] = "refused"]
        /\ At(l, "admit") /\ At(id, "announce")
    BY Zenon DEF AdmitFails, Admitted, allocVars
  <2>3. id # l /\ "listen" \in Unwatched /\ "refused" \in Unwatched /\ NoPacket \in Packet
    BY <2>2, SMTT(60), Z3T(60) DEF At, Unwatched, NoPacket, Packet
  <2>4. /\ task' \in [Ids -> Watched \cup Unwatched] /\ task'[l] = "listen" /\ task'[id] = "refused"
        /\ \A x \in Ids \ {l, id} : task'[x] = task[x]
    BY <2>1, <2>2, <2>3, Zenon DEF TypeOK
  <2>5. \A x \in Ids : x >= next_id' => x \notin {l, id}
    BY <2>1, <2>2, Zenon DEF TypeOK, At
  <2>6. packet' \in [Ids -> Packet]
    BY <2>1, <2>2, <2>3, Zenon DEF TypeOK
  <2>7. TypeOK'
    BY <2>1, <2>2, <2>4, <2>5, <2>6, Zenon DEF TypeOK
  <2>8. Table(l)'
    BY <2>1, <2>2, <2>4, Zenon DEF Table, Evicting, At
  <2>9. \A x \in Ids \ {l} : Table(x)'
    BY <2>2, <2>3, <2>4, <1>OthersInv, Zenon
  <2> QED
    BY <2>7, <2>8, <2>9, Zenon DEF Inv
\* What Detach does to the table of l: one peer less, and no address more.
<1>DetachFacts.
    ASSUME Inv, NEW l \in Ids, NEW id \in IdsOf(l), Detach(l, id)
    PROVE  /\ peers' \in [Ids -> Seq(Entry)]
           /\ \E p : peers' = [peers EXCEPT ![l] = p]
           /\ Len(peers'[l]) = Len(peers[l]) - 1 /\ Len(peers[l]) \in Nat
           /\ Distinct(peers'[l]) /\ AddrsIn(peers'[l]) \subseteq AddrsIn(peers[l])
  <2> USE <1>DetachFacts
  <2> DEFINE s == peers[l]
             i == PlaceOfId(l, id)
  <2>1. s \in Seq(Entry) /\ Len(s) \in Nat /\ DOMAIN s = 1..Len(s) /\ TypeOK /\ Distinct(s)
    BY Seq_Len, Zenon DEF Inv, TypeOK, Table
  <2>2. i \in 1..Len(s)
    <3>1. \E n \in DOMAIN s : s[n].id = id
      BY Zenon DEF IdsOf
    <3> QED
      BY <2>1, <3>1, Zenon DEF PlaceOfId
  <2>3. peers' = [peers EXCEPT ![l] = Without(s, i)]
    BY Zenon DEF Detach
  <2>4. peers'[l] = Without(s, i)
    BY <2>1, <2>3, Zenon DEF TypeOK
  <2> HIDE DEF i
  <2>5. /\ Without(s, i) \in Seq(Entry) /\ Len(Without(s, i)) = Len(s) - 1
        /\ Distinct(Without(s, i)) /\ AddrsIn(Without(s, i)) \subseteq AddrsIn(s)
    <3> HIDE DEF s
    <3> QED
      BY <2>1, <2>2, WithoutFacts, <1>WithoutDistinct, Zenon
  <2>6. peers' \in [Ids -> Seq(Entry)]
    BY <2>1, <2>3, <2>5, Zenon DEF TypeOK
  <2> QED
    BY <2>1, <2>3, <2>4, <2>5, <2>6, Zenon
\* A peer leaves the table: the least recent one for the sake of a new one, an idle
\* one, or each of them at shutdown.
<1>DetachInv.
    ASSUME Inv, NEW l \in Ids,
           evict_lru_peer(l) \/ \E id \in Ids : Remove(l, id)
    PROVE  Inv'
  <2> USE <1>DetachInv
  <2>1. /\ TypeOK /\ Table(l) /\ peers[l] \in Seq(Entry)
        /\ Len(peers[l]) \in Nat /\ DOMAIN peers[l] = 1..Len(peers[l])
    BY Seq_Len, Zenon DEF Inv, TypeOK
  <2>2. /\ \E id \in IdsOf(l) : Detach(l, id)
        /\ task' = [task EXCEPT ![l] = "removing"] /\ ~At(l, "none")
        /\ next_id' = next_id /\ packet' = packet
        /\ \/ /\ At(l, "admitted") /\ reason' = [reason EXCEPT ![l] = "LruEvicted"]
           \/ /\ At(l, "reap") /\ reason' = reason
    <3>1. CASE evict_lru_peer(l)
      <4>1. 1 \in DOMAIN peers[l] /\ Head(peers[l]) = peers[l][1]
        BY <2>1, <3>1, UdpAssumption, SMTT(60), Z3T(60) DEF evict_lru_peer
      <4>2. Head(peers[l]).id \in IdsOf(l)
        BY <4>1, Zenon DEF IdsOf
      <4> QED
        BY <3>1, <4>2, Zenon DEF evict_lru_peer, Local, Goto, At, allocVars
    <3>2. CASE \E id \in Ids : Remove(l, id)
      BY <3>2, Zenon DEF Remove, Local, Goto, At, allocVars
    <3> QED
      BY <3>1, <3>2, Zenon
  <2>3. /\ peers' \in [Ids -> Seq(Entry)] /\ \E p : peers' = [peers EXCEPT ![l] = p]
        /\ Len(peers'[l]) = Len(peers[l]) - 1
        /\ Distinct(peers'[l]) /\ AddrsIn(peers'[l]) \subseteq AddrsIn(peers[l])
    BY <2>2, <1>DetachFacts, Zenon
  <2>4. /\ task' \in [Ids -> Watched \cup Unwatched] /\ task'[l] = "removing"
        /\ \A x \in Ids \ {l} : task'[x] = task[x]
        /\ next_id' \in Nat \ {0} /\ \A id \in Ids : id >= next_id' => task'[id] = "none"
    BY <2>2, <1>MoveFacts, Zenon DEF Watched
  <2>5. reason' \in [Ids -> Reasons \cup {"none"}]
    BY <2>1, <2>2, Zenon DEF TypeOK, Reasons
  <2>6. TypeOK'
    BY <2>1, <2>2, <2>3, <2>4, <2>5, Zenon DEF TypeOK
  <2>7. Len(peers'[l]) <= peer_capacity /\ Len(peers'[l]) < peer_capacity
    BY <2>1, <2>3, UdpAssumption, SMTT(60), Z3T(60) DEF Table
  <2>8. Table(l)'
    <3>1. CASE At(l, "admitted")
      BY <2>1, <2>2, <2>3, <2>4, <2>7, <3>1, Zenon DEF Table, Evicting, At
    <3>2. CASE At(l, "reap") /\ reason' = reason
      BY <2>1, <2>2, <2>3, <2>4, <2>7, <3>2, Zenon DEF Table, Evicting, At
    <3> QED
      BY <2>2, <3>1, <3>2, Zenon
  <2>9. \A x \in Ids \ {l} : Table(x)'
    BY <2>2, <2>3, <2>4, <1>OthersInv, ZenonT(60)
  <2> QED
    BY <2>6, <2>8, <2>9, Zenon DEF Inv
\* The new peer enters the table: there is room, and its address is not there.
<1>InsertPeerInv.
    ASSUME Inv, NEW l \in Ids, NEW id \in Ids, InsertPeer(l, id)
    PROVE  Inv'
  <2> USE <1>InsertPeerInv
  <2> DEFINE s == peers[l]
             e == [addr |-> packet[l].src, id |-> id]
  <2>1. TypeOK /\ Table(l) /\ s \in Seq(Entry) /\ Len(s) \in Nat
    BY Seq_Len, Zenon DEF Inv, TypeOK
  <2>2. /\ peers' = [peers EXCEPT ![l] = Append(s, e)] /\ UNCHANGED <<packet, reason, next_id>>
        /\ task' = [task EXCEPT ![l] = "forward", ![id] = "wait"]
        /\ At(l, "evicted") \/ (At(l, "admitted") /\ Len(s) < peer_capacity)
        /\ At(id, "pending")
    BY Zenon DEF InsertPeer, allocVars
  <2>3. /\ packet[l].src \in Addrs /\ packet[l].src \notin AddrsIn(s)
        /\ Len(s) < peer_capacity /\ Distinct(s)
    BY <2>1, <2>2, Zenon DEF Table, Evicting
  <2>4. e \in Entry /\ e.addr = packet[l].src
    BY <2>3, Zenon DEF Entry
  <2> DEFINE t == Append(s, e)
  <2> HIDE DEF s, e
  <2>5. t \in Seq(Entry) /\ Len(t) = Len(s) + 1 /\ Distinct(t) /\ packet[l].src \in AddrsIn(t)
    BY <2>1, <2>3, <2>4, AppendFacts, <1>AppendDistinct, Zenon
  <2> HIDE DEF t
  <2>6. Len(t) <= peer_capacity
    BY <2>1, <2>3, <2>5, UdpAssumption, SMTT(60), Z3T(60)
  <2>7. id # l /\ "forward" \in Watched /\ "wait" \in Unwatched
    BY <2>2, Zenon DEF At, Watched, Unwatched
  <2>8. /\ task' \in [Ids -> Watched \cup Unwatched] /\ task'[l] = "forward" /\ task'[id] = "wait"
        /\ \A x \in Ids \ {l, id} : task'[x] = task[x]
    BY <2>1, <2>2, <2>7, Zenon DEF TypeOK
  <2>9. \A x \in Ids : x >= next_id' => x \notin {l, id}
    BY <2>1, <2>2, Zenon DEF TypeOK, At
  <2>10. peers'[l] = t /\ peers' \in [Ids -> Seq(Entry)]
    BY <2>1, <2>2, <2>5, Zenon DEF TypeOK, t
  <2>11. TypeOK'
    BY <2>1, <2>2, <2>8, <2>9, <2>10, Zenon DEF TypeOK
  <2>12. Table(l)'
    BY <2>2, <2>5, <2>6, <2>8, <2>10, Zenon DEF Table, Evicting, At
  <2>13. \A x \in Ids \ {l} : Table(x)'
    BY <2>2, <2>7, <2>8, <1>OthersInv, Zenon
  <2> QED
    BY <2>11, <2>12, <2>13, Zenon DEF Inv
\* The frames of a datagram: each is taken from it, and the source stays.
<1>NextFrameInv.
    ASSUME Inv, NEW l \in Ids, FilterFrame(l) \/ ForwardFrame(l)
    PROVE  Inv'
  <2> USE <1>NextFrameInv
  <2>1. TypeOK /\ Table(l) /\ packet[l] \in Packet
    BY Zenon DEF Inv, TypeOK
  <2>2. /\ packet' = [packet EXCEPT ![l].frames = Tail(@)] /\ packet[l].frames # <<>>
        /\ UNCHANGED <<peers, reason, next_id>> /\ task' = task
    <3>1. CASE FilterFrame(l)
      BY <2>1, <3>1, Zenon DEF FilterFrame, NextFrame, Local, Goto, At, allocVars, TypeOK
    <3>2. CASE ForwardFrame(l)
      BY <3>2, Zenon DEF ForwardFrame, NextFrame, SendFrame, allocVars
    <3> QED
      BY <3>1, <3>2, Zenon
  <2>3. Tail(packet[l].frames) \in Seq(Frames)
    BY <2>1, <2>2, Seq_HeadTail, Zenon DEF Packet
  <2>4. packet' \in [Ids -> Packet] /\ \A x \in Ids : packet'[x].src = packet[x].src
    BY <2>1, <2>2, <2>3, Zenon DEF TypeOK, Packet
  <2>5. TypeOK'
    BY <2>1, <2>2, <2>4, Zenon DEF TypeOK
  <2>6. \A x \in Ids : Table(x)'
    BY <2>2, <2>4, <1>Untouched, Zenon DEF Inv
  <2> QED
    BY <2>5, <2>6, Zenon DEF Inv
\* The datagram is done with.
<1>PacketOverInv.
    ASSUME Inv, NEW l \in Ids, PacketDone(l) \/ ForwardFails(l)
    PROVE  Inv'
  <2> USE <1>PacketOverInv
  <2>1. TypeOK /\ Table(l)
    BY Zenon DEF Inv
  <2>2. /\ packet' = [packet EXCEPT ![l] = NoPacket] /\ UNCHANGED <<peers, reason, next_id>>
        /\ task' = [task EXCEPT ![l] = "listen"] /\ ~At(l, "none")
    BY Zenon DEF PacketDone, ForwardFails, Local, Goto, At, allocVars
  <2>3. NoPacket \in Packet /\ "listen" \in Unwatched
    BY SMTT(60), Z3T(60) DEF NoPacket, Packet, Unwatched
  <2>4. /\ task' \in [Ids -> Watched \cup Unwatched] /\ task'[l] = "listen"
        /\ \A x \in Ids \ {l} : task'[x] = task[x]
        /\ next_id' \in Nat \ {0} /\ \A id \in Ids : id >= next_id' => task'[id] = "none"
    BY <2>2, <2>3, <1>MoveFacts, Zenon
  <2>5. packet' \in [Ids -> Packet]
    BY <2>1, <2>2, <2>3, Zenon DEF TypeOK
  <2>6. TypeOK'
    BY <2>1, <2>2, <2>4, <2>5, Zenon DEF TypeOK
  <2>7. Table(l)'
    BY <2>1, <2>2, <2>4, Zenon DEF Table, Evicting, At
  <2>8. \A x \in Ids \ {l} : Table(x)'
    BY <2>2, <2>4, <1>OthersInv, Zenon
  <2> QED
    BY <2>6, <2>7, <2>8, Zenon DEF Inv
\* Removals begin, of the idle peers or of all.
<1>ReapInv.
    ASSUME Inv, NEW l \in Ids,
           shutdown_all_peers(l) \/ \E n \in 1..Len(peers[l]) : reap_idle_peers(l, n)
    PROVE  Inv'
  <2> USE <1>ReapInv
  <2>1. TypeOK /\ Table(l)
    BY Zenon DEF Inv
  <2>2. PICK r \in {"Idle", "ListenerShutdown"} :
        /\ reason' = [reason EXCEPT ![l] = r] /\ UNCHANGED <<peers, packet, next_id>>
        /\ task' = [task EXCEPT ![l] = "reap"] /\ ~At(l, "none")
    BY Zenon DEF shutdown_all_peers, reap_idle_peers, Local, Goto, At, allocVars
  <2>3. /\ task' \in [Ids -> Watched \cup Unwatched] /\ task'[l] = "reap"
        /\ \A x \in Ids \ {l} : task'[x] = task[x]
        /\ next_id' \in Nat \ {0} /\ \A id \in Ids : id >= next_id' => task'[id] = "none"
    BY <2>2, <1>MoveFacts, Zenon DEF Watched
  <2>4. reason' \in [Ids -> Reasons \cup {"none"}] /\ reason'[l] # "LruEvicted"
    BY <2>1, <2>2, Zenon DEF TypeOK, Reasons
  <2>5. TypeOK'
    BY <2>1, <2>2, <2>3, <2>4, Zenon DEF TypeOK
  <2>6. Table(l)'
    BY <2>1, <2>2, <2>3, <2>4, Zenon DEF Table, Evicting, At
  <2>7. \A x \in Ids \ {l} : Table(x)'
    BY <2>2, <2>3, <1>OthersInv, ZenonT(60)
  <2> QED
    BY <2>5, <2>6, <2>7, Zenon DEF Inv
\* A removal is out: on with the admission, or with the next victim.
<1>SendPeerRemovedInv.
    ASSUME Inv, NEW l \in Ids, NEW id \in Ids, SendPeerRemoved(l, id)
    PROVE  Inv'
  <2> USE <1>SendPeerRemovedInv
  <2>1. TypeOK /\ Table(l)
    BY Zenon DEF Inv
  <2> DEFINE to == IF reason[l] = "LruEvicted" THEN "evicted" ELSE "reap"
  <2>2. /\ UNCHANGED <<peers, packet, reason, next_id>> /\ At(l, "removing") /\ ~At(l, "none")
        /\ task' = [task EXCEPT ![l] = to]
    BY Zenon DEF SendPeerRemoved, SendRemoved, Goto, At, allocVars
  <2>3. to \in Watched
    BY Zenon DEF Watched
  <2>4. /\ task' \in [Ids -> Watched \cup Unwatched] /\ task'[l] = to
        /\ \A x \in Ids \ {l} : task'[x] = task[x]
        /\ next_id' \in Nat \ {0} /\ \A x \in Ids : x >= next_id' => task'[x] = "none"
    BY <2>2, <2>3, <1>MoveFacts, ZenonT(60)
  <2>5. TypeOK'
    BY <2>1, <2>2, <2>4, Zenon DEF TypeOK
  <2>6. Table(l)'
    BY <2>1, <2>2, <2>4, Zenon DEF Table, Evicting, At
  <2>7. \A x \in Ids \ {l} : Table(x)'
    BY <2>2, <2>4, <1>OthersInv, Zenon
  <2> QED
    BY <2>5, <2>6, <2>7, Zenon DEF Inv
\* The steps in which no table, datagram or reason changes.
<1>PlainInv.
    ASSUME Inv, NEW id \in Ids,
           \/ (Bind(id) \/ BindCancelled(id) \/ Listening(id)) /\ UNCHANGED udpVars
           \/ Sent(id) \/ SendFails(id) \/ Announce(id) \/ AnnounceFails(id) \/ Reaped(id)
           \/ JoinWriters(id) \/ WriterEnds(id) \/ PopFrame(id)
    PROVE  Inv'
  <2> USE <1>PlainInv
  <2>1. UNCHANGED udpVars
    BY Zenon
       DEF Sent, SendFails, Announce, AnnounceFails, Reaped, JoinWriters, WriterEnds, PopFrame,
           Move
  <2>2. next_id' = next_id /\ next_id \in Nat \ {0}
    BY Zenon DEF Inv, TypeOK, Bind, BindCancelled, Listening, StoreState, Sent, SendFails, Announce,
           SendAdded, AnnounceFails, Reaped, JoinWriters, WriterEnds, drain_and_discard, PopFrame,
           PopTx, Move, Local, allocVars
  <2>3. \E to \in Unwatched : task' = [task EXCEPT ![id] = to] /\ task[id] # "none"
    <3>1. CASE Bind(id) \/ BindCancelled(id) \/ Listening(id)
      BY <3>1, Zenon DEF Bind, BindCancelled, Listening, StoreState, Local, Goto, At, Unwatched
    <3>2. CASE Sent(id) \/ SendFails(id) \/ WriterEnds(id) \/ PopFrame(id)
      BY <3>2, Zenon DEF Sent, SendFails, WriterEnds, PopFrame, Move, Local, Goto, At, Unwatched
    <3>3. CASE Announce(id) \/ AnnounceFails(id)
      BY <3>3, Zenon DEF Announce, SendAdded, AnnounceFails, Move, Local, Goto, At, Unwatched
    <3>4. CASE Reaped(id) \/ JoinWriters(id)
      BY <3>4, Zenon DEF Reaped, JoinWriters, Move, Local, Goto, At, Unwatched
    <3> QED
      BY <3>1, <3>2, <3>3, <3>4, Zenon
  <2>4. next_id' >= next_id
    BY <2>2, SMTT(60), Z3T(60)
  <2> QED
    BY <2>1, <2>2, <2>3, <2>4, <1>TaskInv, Zenon
\* The steps of the router, of the spawner and of the operator.
<1>ElsewhereInv.
    ASSUME Inv, (Route \/ SpawnEndpoint \/ Cancel) /\ UNCHANGED udpVars
    PROVE  Inv'
  <2> USE <1>ElsewhereInv
  <2>1. TypeOK /\ next_id \in Nat \ {0} /\ UNCHANGED udpVars
    BY Zenon DEF Inv, TypeOK
  <2>2. CASE Route \/ Cancel
    <3>1. task' = task /\ next_id' = next_id
      BY <2>2, Zenon DEF Route, Cancel, transportVars, allocVars
    <3>2. next_id' >= next_id
      BY <2>1, <3>1, SMTT(60), Z3T(60)
    <3> QED
      BY <2>1, <3>1, <3>2, <1>TaskInv, Zenon
  <2>3. CASE SpawnEndpoint
    <3>1. next_id <= MaxId /\ next_id' = next_id + 1 /\ task' = [task EXCEPT ![next_id] = "announce"]
      BY <2>3, Zenon DEF SpawnEndpoint, Alloc, Goto
    <3>2. next_id \in Ids /\ next_id < next_id' /\ next_id' \in Nat \ {0} /\ next_id' >= next_id
      BY <2>1, <3>1, RouterAssumption, SMTT(60), Z3T(60) DEF Ids
    <3>3. "announce" \in Unwatched
      BY Zenon DEF Unwatched
    <3> QED
      BY <2>1, <3>1, <3>2, <3>3, <1>TaskInv, ZenonT(60)
  <2> QED
    BY <2>2, <2>3, Zenon
<1> SUFFICES ASSUME Inv, [Next]_vars PROVE Inv'
  BY Zenon
<1>1. ASSUME NEW id \in Ids, Network(id)
      PROVE  Inv'
  BY <1>1, <1>PlainInv, <1>PacketFromPeerInv, <1>PacketFromStrangerInv, <1>ReapInv, Zenon
     DEF Network
<1>2. ASSUME NEW id \in Ids, Task(id)
      PROVE  Inv'
  BY <1>2, <1>PlainInv, <1>SendPeerAddedInv, <1>AdmitFailsInv, <1>InsertPeerInv, <1>DetachInv,
     <1>SendPeerRemovedInv, <1>NextFrameInv, <1>PacketOverInv, <1>ReapInv, Zenon
  DEF Task
<1>3. CASE UNCHANGED vars
  <2>1. UNCHANGED udpVars /\ task' = task /\ next_id' = next_id
    BY <1>3, Zenon DEF vars, transportVars, allocVars
  <2>2. next_id' \in Nat \ {0} /\ next_id' >= next_id
    BY <2>1, SMTT(60), Z3T(60) DEF Inv, TypeOK
  <2> QED
    BY <2>1, <2>2, <1>TaskInv, Zenon
<1> QED
  BY <1>1, <1>2, <1>3, <1>ElsewhereInv, Zenon DEF Next

\* The peer table of a udps: listener (run_inner, admit_new_peer, evict_lru_peer) has
\* one peer per address and never more than peer_capacity, at every await: the
\* address being admitted is not in it, the source being forwarded is.
THEOREM TableBoundedHolds ==
    Spec => []TableBounded
<1>1. Inv => TableBounded
  <2> SUFFICES ASSUME Inv, NEW l \in Ids
               PROVE  /\ \A i, j \in DOMAIN peers[l] : peers[l][i].addr = peers[l][j].addr => i = j
                      /\ Len(peers[l]) <= peer_capacity
                      /\ At(l, "admitted") => packet[l].src \notin AddrsOf(l)
                      /\ At(l, "forward") => packet[l].src \in AddrsOf(l)
    BY Zenon DEF TableBounded
  <2>1. DOMAIN peers[l] = 1..Len(peers[l])
    BY Seq_Len, Zenon DEF Inv, TypeOK
  <2> QED
    BY <2>1, Zenon DEF Inv, Table, Distinct, AddrsIn, AddrsOf, Evicting
<1> QED
  BY InitInv, NextInv, <1>1, PTL DEF Spec

-----------------------------------------------------------------------------
(* Whose the peers are. *)

\* The positions of a writer that was spawned, and of a listener that has no peer yet.
Started == {"wait", "send", "ended"}
Preparing == {"announce", "bind", "bound"}

\* The peer that was taken out of the table and whose PeerRemoved is not out yet.
Leaving(l) == IF At(l, "removing") THEN victims[l] \ IdsOf(l) ELSE {}

\* The peers of l that the router was told of and will be told the end of.
Roster(l) == IdsOf(l) \cup Leaving(l)

\* Where a peer of l is between its allocation and its removal.
Status(l, c) ==
    \/ c \in Roster(l) /\ c \notin removed /\ task[c] \in Started
    \/ c \notin Roster(l) /\ c \in removed /\ task[c] \in Started
    \/ c \notin Roster(l) /\ c \notin removed /\ task[c] = "refused"
    \/ c \notin Roster(l) /\ c \notin removed /\ task[c] = "announce" /\ At(l, "admit")
    \/ c \notin Roster(l) /\ c \notin removed /\ task[c] = "pending"
          /\ (At(l, "admitted") \/ Evicting(l))

DistinctIds(s) == \A i, j \in 1..Len(s) : s[i].id = s[j].id => i = j

IdsIn(s) == {s[i].id : i \in 1..Len(s)}

InAdmission(c) == task[c] \in {"announce", "pending"}

\* What the listener is about to remove.
Removals(l) ==
    /\ At(l, "removing") => \E v \in Ids : Leaving(l) = {v}
    /\ At(l, "reap") => victims[l] \subseteq IdsOf(l)
    /\ At(l, "reap") \/ At(l, "removing") =>
          /\ reason[l] \in Reasons
          /\ reason[l] = "ListenerShutdown" => cancelled /\ IdsOf(l) \subseteq victims[l]
    /\ At(l, "join") => cancelled /\ IdsOf(l) = {}

Owned(l) ==
    /\ DistinctIds(peers[l])
    /\ Roster(l) \subseteq Children(l)
    /\ \A c \in Children(l) : Status(l, c)
    /\ \A c, d \in Children(l) : InAdmission(c) /\ InAdmission(d) => c = d
    /\ task[l] \in Preparing => Children(l) = {}
    /\ Removals(l)

\* Ids are fresh, and each configured listener has at most one of them.
Allocated ==
    /\ \A id \in Ids : id >= next_id => who[id].kind = "none"
    /\ \A id \in Ids : who[id].kind # "none" => who[id].spec <= spawned
    /\ \A l, m \in Ids : Listener(l) /\ Listener(m) /\ who[l].spec = who[m].spec => l = m

Ownership ==
    /\ who \in [Ids -> [kind : {"none", "leaf", "listener", "peer"}, spec : Nat]]
    /\ spawned \in Nat
    /\ victims \in [Ids -> SUBSET Ids]
    /\ removed \subseteq Ids /\ \A id \in removed : Peer(id)
    /\ \A id \in Ids : ~Listener(id) => peers[id] = <<>>
    /\ Allocated
    /\ \A l \in Ids : Listener(l) => Owned(l)

-----------------------------------------------------------------------------
(* Allocation. *)

LEMMA FreshId ==
    ASSUME Inv, Ownership, next_id <= MaxId
    PROVE  /\ next_id \in Ids /\ next_id \in Nat \ {0}
           /\ task[next_id] = "none" /\ who[next_id].kind = "none"
           /\ next_id \notin removed
<1>1. next_id \in Ids /\ next_id \in Nat \ {0}
  BY RouterAssumption, SMTT(60), Z3T(60) DEF Inv, TypeOK, Ids
<1>2. next_id >= next_id
  BY <1>1, SMTT(60), Z3T(60)
<1>3. task[next_id] = "none" /\ who[next_id].kind = "none"
  BY <1>1, <1>2, Zenon DEF Inv, TypeOK, Ownership, Allocated
<1> QED
  BY <1>1, <1>3, Zenon DEF Ownership, Peer

-----------------------------------------------------------------------------
(* The table. *)

LEMMA IdsOfIs ==
    ASSUME NEW l \in Ids, peers[l] \in Seq(Entry)
    PROVE  IdsOf(l) = IdsIn(peers[l])
  BY Seq_Len, Zenon DEF IdsOf, IdsIn

-----------------------------------------------------------------------------
(* The steps of a listener. *)

Admitting == {"admit", "admitted", "evicted", "removing"}

LEMMA ListenerFacts ==
    ASSUME Inv, Ownership, NEW l \in Ids, Listener(l)
    PROVE  /\ Owned(l) /\ Table(l) /\ l \notin Children(l)
           /\ peers[l] \in Seq(Entry) /\ IdsOf(l) = IdsIn(peers[l]) /\ DistinctIds(peers[l])
           /\ IdsOf(l) \subseteq Children(l) /\ Children(l) \subseteq Ids
<1>1. Owned(l) /\ Table(l) /\ l \notin Children(l) /\ Children(l) \subseteq Ids
  BY Zenon DEF Inv, Ownership, Children, Listener, Peer
<1>2. peers[l] \in Seq(Entry)
  BY Zenon DEF Inv, TypeOK
<1> QED
  BY <1>1, <1>2, IdsOfIs, Zenon DEF Owned, Roster

\* Of the peers of a listener only one is in admission, and it has this status.
LEMMA AdmissionFacts ==
    ASSUME NEW l \in Ids, Owned(l), NEW c \in Children(l), InAdmission(c)
    PROVE  /\ c \notin Roster(l) /\ c \notin removed
           /\ \A d \in Children(l) : d # c => ~InAdmission(d)
  BY Zenon DEF Owned, Status, InAdmission, Started

-----------------------------------------------------------------------------
LEMMA InitOwnership == Init => Ownership
<1> SUFFICES ASSUME Init PROVE Ownership
  BY Zenon
<1> USE DEF Init, TransportInit
<1>1. /\ who \in [Ids -> [kind : {"none", "leaf", "listener", "peer"}, spec : Nat]]
      /\ spawned \in Nat /\ victims \in [Ids -> SUBSET Ids] /\ removed = {}
  BY Zenon
<1>2. \A id \in Ids : who[id].kind = "none" /\ peers[id] = <<>>
  BY Zenon
<1> HIDE DEF Init
<1> QED
  BY <1>1, <1>2, Zenon DEF Ownership, Allocated, Listener

LEMMA NextOwnership == Inv /\ Ownership /\ [Next]_vars => Ownership'
\* Whose peers a step leaves alone, except that a writer may go on.
<1>OwnedKept.
    ASSUME NEW l \in Ids, Owned(l), Children(l)' = Children(l),
           peers'[l] = peers[l], victims'[l] = victims[l], reason'[l] = reason[l],
           task'[l] = task[l],
           \A c \in Children(l) : /\ c \in removed' <=> c \in removed
                                  /\ \/ task'[c] = task[c]
                                     \/ task[c] \in Started /\ task'[c] \in Started,
           cancelled => cancelled'
    PROVE  Owned(l)'
  <2> USE <1>OwnedKept
  <2>1. /\ IdsOf(l)' = IdsOf(l)
        /\ \A position : At(l, position)' <=> At(l, position)
        /\ Evicting(l)' <=> Evicting(l)
    BY Zenon DEF IdsOf, At, Evicting
  <2>2. Leaving(l)' = Leaving(l)
    BY <2>1, Zenon DEF Leaving
  <2>3. Roster(l)' = Roster(l)
    BY <2>1, <2>2, Zenon DEF Roster
  <2>4. ASSUME NEW c \in Children(l) PROVE Status(l, c)'
    <3>1. Status(l, c)
      BY Zenon DEF Owned
    <3>2. "refused" \notin Started /\ "announce" \notin Started /\ "pending" \notin Started
      BY Zenon DEF Started
    <3> QED
      BY <2>1, <2>3, <3>1, <3>2, Zenon DEF Status
  <2>5. ASSUME NEW c \in Children(l), InAdmission(c)' PROVE InAdmission(c)
    BY <2>5, Zenon DEF InAdmission, Started
  <2>6. Removals(l)'
    <3>1. Removals(l)
      BY Zenon DEF Owned
    <3> QED
      BY <2>1, <2>2, <3>1, Zenon DEF Removals
  <2>7. DistinctIds(peers[l])'
    BY Zenon DEF Owned, DistinctIds
  <2>8. \A c, d \in Children(l) : InAdmission(c)' /\ InAdmission(d)' => c = d
    BY <2>5, Zenon DEF Owned
  <2>9. Roster(l)' \subseteq Children(l) /\ (task'[l] \in Preparing => Children(l) = {})
    BY <2>3, Zenon DEF Owned
  <2> QED
    BY <2>4, <2>6, <2>7, <2>8, <2>9, Zenon DEF Owned
\* A step of listener l, or of one of its peers, and what the others keep.
<1>OthersOwned.
    ASSUME Inv, Ownership, NEW l \in Ids, Listener(l),
           UNCHANGED <<next_id, spawned, who, cancelled>>,
           NEW p, peers' = [peers EXCEPT ![l] = p] \/ peers' = peers,
           NEW v \in SUBSET Ids, victims' = [victims EXCEPT ![l] = v] \/ victims' = victims,
           NEW r, reason' = [reason EXCEPT ![l] = r] \/ reason' = reason,
           \A x \in Ids : x # l /\ x \notin Children(l) => task'[x] = task[x],
           NEW gone \in SUBSET Children(l), removed' = removed \cup gone,
           Owned(l)'
    PROVE  Ownership'
  <2> USE <1>OthersOwned
  <2>1. /\ who' \in [Ids -> [kind : {"none", "leaf", "listener", "peer"}, spec : Nat]]
        /\ spawned' \in Nat
        /\ victims' \in [Ids -> SUBSET Ids]
    BY Zenon DEF Ownership
  <2>2. removed' \subseteq Ids /\ \A id \in removed' : Peer(id)'
    BY Zenon DEF Ownership, Children, Peer
  <2>3. Allocated' /\ \A id \in Ids : ~Listener(id)' => peers'[id] = <<>>
    <3>1. \A id \in Ids : id # l => peers'[id] = peers[id]
      BY Zenon DEF Inv, TypeOK
    <3> QED
      BY <3>1, ZenonT(60) DEF Ownership, Allocated, Listener
  <2>4. ASSUME NEW m \in Ids, Listener(m), m # l PROVE Owned(m)'
    <3>1. Owned(m) /\ who[m].spec # who[l].spec
      BY <2>4, Zenon DEF Ownership, Allocated
    <3>2. m \notin Children(l) /\ \A c \in Children(m) : c \in Ids /\ c # l /\ c \notin Children(l)
      BY <2>4, <3>1, Zenon DEF Children, Listener, Peer
    <3>3. peers'[m] = peers[m] /\ victims'[m] = victims[m] /\ reason'[m] = reason[m]
      BY <2>4, ZenonT(60) DEF Inv, TypeOK, Ownership
    <3>4. task'[m] = task[m] /\ \A c \in Children(m) : task'[c] = task[c]
      BY <2>4, <3>2, Zenon
    <3>5. \A c \in Children(m) : c \in removed' <=> c \in removed
      BY <3>2, Zenon
    <3>6. Children(m)' = Children(m)
      BY Zenon DEF Children, Peer
    <3> QED
      BY <3>1, <3>3, <3>4, <3>5, <3>6, <1>OwnedKept, Zenon
  <2>5. \A m \in Ids : Listener(m)' => Owned(m)'
    BY <2>4, Zenon DEF Listener
  <2> QED
    BY <2>1, <2>2, <2>3, <2>5, Zenon DEF Ownership
\* Nothing of it moves with the router, the operator or a writer.
<1>QuietOwnership.
    ASSUME Inv, Ownership, UNCHANGED <<next_id, spawned, who, udpVars>>, cancelled => cancelled',
           \A x \in Ids : \/ task'[x] = task[x]
                          \/ Peer(x) /\ task[x] \in Started /\ task'[x] \in Started
    PROVE  Ownership'
  <2> USE <1>QuietOwnership
  <2>1. UNCHANGED <<peers, victims, reason, removed>>
    BY Zenon DEF udpVars
  <2>2. ASSUME NEW m \in Ids, Listener(m) PROVE Owned(m)'
    <3>1. task'[m] = task[m] /\ Owned(m)
      BY <2>2, Zenon DEF Listener, Peer, Ownership
    <3>2. \A c \in Children(m) : \/ task'[c] = task[c]
                                 \/ task[c] \in Started /\ task'[c] \in Started
      BY Zenon DEF Children
    <3>3. Children(m)' = Children(m)
      BY Zenon DEF Children, Peer
    <3> QED
      BY <2>1, <3>1, <3>2, <3>3, <1>OwnedKept, Zenon
  <2>3. Allocated'
    BY Zenon DEF Ownership, Allocated, Listener
  <2> QED
    BY <2>1, <2>2, <2>3, Zenon DEF Ownership, Listener, Peer
<1>WriterOwnership.
    ASSUME Inv, Ownership, NEW id \in Ids, Peer(id),
           WriterEnds(id) \/ PopFrame(id) \/ Sent(id) \/ SendFails(id)
    PROVE  Ownership'
  <2> USE <1>WriterOwnership
  <2>1. UNCHANGED <<next_id, spawned, who, udpVars, cancelled>>
    BY Zenon
       DEF WriterEnds, PopFrame, Sent, SendFails, drain_and_discard, PopTx, Move, Local,
           routerVars, allocVars
  <2>2. task[id] \in Started /\ \E to \in Started : task' = [task EXCEPT ![id] = to]
    BY Zenon DEF WriterEnds, PopFrame, Sent, SendFails, Move, Local, Goto, At, Started
  <2>3. \A x \in Ids : \/ task'[x] = task[x]
                       \/ Peer(x) /\ task[x] \in Started /\ task'[x] \in Started
    BY <2>2, Zenon DEF Inv, TypeOK
  <2> QED
    BY <2>1, <2>3, <1>QuietOwnership, Zenon
\* What allocation leaves true of the ids.
<1>AllocFacts.
    ASSUME Inv, Ownership, next_id <= MaxId, next_id' = next_id + 1,
           NEW kind \in {"leaf", "listener", "peer"}, NEW spec \in Nat,
           who' = [who EXCEPT ![next_id] = [kind |-> kind, spec |-> spec]],
           spawned' \in Nat, spawned <= spawned', spec <= spawned',
           kind = "listener" => spec > spawned
    PROVE  /\ who' \in [Ids -> [kind : {"none", "leaf", "listener", "peer"}, spec : Nat]]
           /\ who'[next_id].kind = kind /\ who'[next_id].spec = spec
           /\ \A x \in Ids : x # next_id => who'[x] = who[x]
           /\ Allocated'
  <2> USE <1>AllocFacts
  <2>1. next_id \in Ids /\ next_id \in Nat \ {0} /\ spawned \in Nat
    BY FreshId, Zenon DEF Ownership
  <2>2. who \in [Ids -> [kind : {"none", "leaf", "listener", "peer"}, spec : Nat]]
    BY Zenon DEF Ownership
  <2>3. who' \in [Ids -> [kind : {"none", "leaf", "listener", "peer"}, spec : Nat]]
    BY <2>1, <2>2, Zenon
  <2>4. /\ who'[next_id].kind = kind /\ who'[next_id].spec = spec
        /\ \A x \in Ids : x # next_id => who'[x] = who[x]
    BY <2>1, <2>2, Zenon
  <2>5. \A x \in Ids : x >= next_id' => who'[x].kind = "none"
    <3>1. \A x \in Ids : x >= next_id + 1 => x >= next_id /\ x # next_id
      BY <2>1, SMTT(60), Z3T(60) DEF Ids
    <3> QED
      BY <2>4, <3>1, ZenonT(60) DEF Ownership, Allocated
  <2>6. ASSUME NEW x \in Ids, who'[x].kind # "none" PROVE who'[x].spec <= spawned'
    <3>1. CASE x = next_id
      BY <2>4, <3>1, Zenon
    <3>2. CASE x # next_id
      <4>1. who[x].spec <= spawned /\ who'[x].spec = who[x].spec /\ who[x].spec \in Nat
        BY <2>2, <2>4, <2>6, <3>2, Zenon DEF Ownership, Allocated
      <4> QED
        BY <2>1, <4>1, SMTT(60), Z3T(60)
    <3> QED
      BY <3>1, <3>2, Zenon
  <2>7. ASSUME NEW l \in Ids, NEW m \in Ids, who'[l].kind = "listener", who'[m].kind = "listener",
               who'[l].spec = who'[m].spec
        PROVE  l = m
    <3>1. \A x \in Ids : x # next_id /\ who'[x].kind = "listener" =>
                            who'[x].spec <= spawned /\ who'[x].spec \in Nat
      BY <2>2, <2>4, ZenonT(60) DEF Ownership, Allocated
    <3>2. CASE l # next_id /\ m # next_id
      BY <2>4, <2>7, <3>2, ZenonT(60) DEF Ownership, Allocated, Listener
    <3>3. CASE l = next_id /\ m # next_id
      BY <2>1, <2>4, <2>7, <3>1, <3>3, SMTT(60), Z3T(60)
    <3>4. CASE l # next_id /\ m = next_id
      BY <2>1, <2>4, <2>7, <3>1, <3>4, SMTT(60), Z3T(60)
    <3> QED
      BY <3>2, <3>3, <3>4, Zenon
  <2>8. Allocated'
    BY <2>5, <2>6, <2>7, Zenon DEF Allocated, Listener
  <2> QED
    BY <2>3, <2>4, <2>8, Zenon
<1>SpawnOwnership.
    ASSUME Inv, Ownership, SpawnEndpoint, UNCHANGED udpVars
    PROVE  Ownership'
  <2> USE <1>SpawnOwnership
  <2> DEFINE kind == IF Endpoints[spawned + 1].listener THEN "listener" ELSE "leaf"
  <2>0. next_id <= MaxId /\ next_id \in Ids
    BY FreshId, Zenon DEF SpawnEndpoint, Alloc
  <2> PICK n \in Ids : n = next_id
    BY <2>0, Zenon
  <2>1. /\ n <= MaxId /\ next_id' = n + 1 /\ spawned' = spawned + 1 /\ cancelled' = cancelled
        /\ who' = [who EXCEPT ![n] = [kind |-> kind, spec |-> spawned + 1]]
        /\ task' = [task EXCEPT ![n] = "announce"]
    BY Zenon DEF SpawnEndpoint, Alloc, Goto, routerVars
  <2>2. kind \in {"leaf", "listener", "peer"} /\ kind # "peer"
    BY Zenon
  <2> HIDE DEF kind
  <2>3. /\ n \in Ids /\ task[n] = "none" /\ who[n].kind = "none" /\ n \notin removed
        /\ spawned \in Nat /\ spawned + 1 \in Nat /\ spawned <= spawned' /\ spawned' \in Nat
        /\ spawned + 1 <= spawned' /\ spawned + 1 > spawned
    BY <2>1, FreshId, SMTT(60), Z3T(60) DEF Ownership
  <2>4. /\ who' \in [Ids -> [kind : {"none", "leaf", "listener", "peer"}, spec : Nat]]
        /\ who'[n].kind = kind /\ who'[n].spec = spawned + 1
        /\ \A x \in Ids : x # n => who'[x] = who[x]
        /\ Allocated'
    BY <2>1, <2>2, <2>3, <1>AllocFacts, Zenon
  <2>5. task'[n] = "announce" /\ \A x \in Ids : x # n => task'[x] = task[x]
    BY <2>1, <2>3, Zenon DEF Inv, TypeOK
  <2>6. UNCHANGED <<peers, victims, reason, removed>>
    BY Zenon DEF udpVars
  <2>7. \A id \in removed : Peer(id)'
    BY <2>3, <2>4, Zenon DEF Ownership, Peer
  <2>8. ASSUME NEW m \in Ids, m # n, Listener(m)' PROVE Owned(m)'
    <3>1. Listener(m) /\ Owned(m)
      BY <2>4, <2>8, Zenon DEF Listener, Ownership
    <3>2. Children(m)' = Children(m)
      BY <2>2, <2>3, <2>4, <2>8, ZenonT(60) DEF Children, Peer
    <3>3. task'[m] = task[m] /\ \A c \in Children(m) : task'[c] = task[c]
      BY <2>3, <2>5, <2>8, Zenon DEF Children, Peer
    <3> QED
      BY <2>1, <2>6, <3>1, <3>2, <3>3, <1>OwnedKept, Zenon
  <2>9. ASSUME Listener(n)' PROVE Owned(n)'
    <3>1. peers'[n] = <<>> /\ Len(<<>>) = 0
      BY <2>3, <2>6, Seq_Empty, Zenon DEF Ownership, Listener
    <3>2. IdsOf(n)' = {} /\ DistinctIds(peers[n])'
      <4>1. DOMAIN peers'[n] = {} /\ 1..Len(peers'[n]) = {}
        BY <3>1, SMTT(60), Z3T(60)
      <4> QED
        BY <4>1, Zenon DEF IdsOf, DistinctIds
    <3>3. Children(n)' = {}
      <4>1. ASSUME NEW c \in Ids, who'[c].kind = "peer", who'[c].spec = who'[n].spec PROVE FALSE
        <5>1. c # n /\ who[c] = who'[c]
          BY <2>2, <2>4, <4>1, Zenon
        <5>2. who[c].spec <= spawned /\ who[c].spec = spawned + 1
          BY <2>4, <4>1, <5>1, Zenon DEF Ownership, Allocated
        <5> QED
          BY <2>3, <5>2, SMTT(60), Z3T(60)
      <4> QED
        BY <4>1, Zenon DEF Children, Peer
    <3>4. Roster(n)' = {}
      BY <2>5, <3>2, Zenon DEF Roster, Leaving, At
    <3>5. Removals(n)'
      BY <2>5, Zenon DEF Removals, At
    <3> QED
      BY <3>2, <3>3, <3>4, <3>5, Zenon DEF Owned
  <2>10. \A id \in Ids : ~Listener(id)' => peers'[id] = <<>>
    BY <2>3, <2>4, <2>6, Zenon DEF Ownership, Listener
  <2> QED
    BY <2>3, <2>4, <2>6, <2>7, <2>8, <2>9, <2>10, ZenonT(60) DEF Ownership
\* A stranger: its id is allocated, and nobody else of the listener is in admission.
<1>StrangerOwnership.
    ASSUME Inv, Ownership, NEW l \in Ids, Listener(l), NEW src, NEW frames,
           PacketFromStranger(l, src, frames)
    PROVE  Ownership'
  <2> USE <1>StrangerOwnership
  <2>0. next_id <= MaxId /\ next_id \in Ids
    BY FreshId, Zenon DEF PacketFromStranger, AdmitPeer, Alloc
  <2> PICK n \in Ids : n = next_id
    BY <2>0, Zenon
  <2>1. /\ n <= MaxId /\ next_id' = n + 1 /\ spawned' = spawned /\ cancelled' = cancelled
        /\ who' = [who EXCEPT ![n] = [kind |-> "peer", spec |-> who[l].spec]]
        /\ task' = [task EXCEPT ![l] = "admit", ![n] = "announce"]
        /\ UNCHANGED <<peers, victims, reason, removed>> /\ task[l] = "listen"
    BY Zenon DEF PacketFromStranger, AdmitPeer, Alloc, At
  <2>2. /\ n \in Ids /\ task[n] = "none" /\ who[n].kind = "none" /\ n \notin removed
        /\ spawned \in Nat /\ who[l].spec \in Nat /\ who[l].spec <= spawned /\ n # l
    BY <2>1, FreshId, Zenon DEF Ownership, Allocated, Listener
  <2>3. spawned <= spawned' /\ spawned' \in Nat /\ who[l].spec <= spawned'
    BY <2>1, <2>2, SMTT(60), Z3T(60)
  <2>4. /\ who' \in [Ids -> [kind : {"none", "leaf", "listener", "peer"}, spec : Nat]]
        /\ who'[n].kind = "peer" /\ who'[n].spec = who[l].spec
        /\ \A x \in Ids : x # n => who'[x] = who[x]
        /\ Allocated'
    <3>1. "peer" \in {"leaf", "listener", "peer"} /\ "peer" # "listener"
      BY Zenon
    <3> QED
      BY <2>1, <2>2, <2>3, <3>1, <1>AllocFacts, Zenon
  <2>5. task'[n] = "announce" /\ task'[l] = "admit" /\ \A x \in Ids : x # n /\ x # l => task'[x] = task[x]
    BY <2>1, <2>2, Zenon DEF Inv, TypeOK
  <2>6. \A id \in removed : Peer(id)'
    BY <2>2, <2>4, ZenonT(60) DEF Ownership, Peer
  <2>7. ASSUME NEW m \in Ids, m # l, Listener(m)' PROVE Owned(m)'
    <3>1. m # n /\ Listener(m) /\ Owned(m) /\ who[m].spec # who[l].spec
      BY <2>4, <2>7, ZenonT(60) DEF Listener, Ownership, Allocated
    <3>2. Children(m)' = Children(m)
      BY <2>2, <2>4, <3>1, ZenonT(60) DEF Children, Peer
    <3>3. task'[m] = task[m] /\ \A c \in Children(m) : task'[c] = task[c]
      BY <2>2, <2>5, <2>7, <3>1, Zenon DEF Children, Peer, Listener
    <3> QED
      BY <2>1, <3>1, <3>2, <3>3, <1>OwnedKept, Zenon
  <2>8. Owned(l)'
    <3>1. Owned(l) /\ l \notin Children(l) /\ n \notin Children(l)
      BY <2>2, Zenon DEF Ownership, Children, Listener, Peer
    <3>2. Children(l)' = Children(l) \cup {n}
      BY <2>2, <2>4, ZenonT(60) DEF Children, Peer
    <3>3. IdsOf(l)' = IdsOf(l) /\ Roster(l)' = IdsOf(l) /\ Roster(l) = IdsOf(l)
      BY <2>1, <2>5, Zenon DEF IdsOf, Roster, Leaving, At
    <3>4. Roster(l)' \subseteq Children(l)' /\ n \notin Roster(l)'
      BY <3>1, <3>2, <3>3, Zenon DEF Owned
    <3>5. ASSUME NEW c \in Children(l)
          PROVE  Status(l, c)' /\ ~InAdmission(c)'
      <4>1. task'[c] = task[c] /\ Status(l, c)
        BY <2>5, <3>1, Zenon DEF Owned, Children
      <4> QED
        BY <2>1, <3>3, <4>1, Zenon DEF Status, At, Evicting, InAdmission, Started
    <3>6. Status(l, n)'
      BY <2>1, <2>2, <2>5, <3>4, Zenon DEF Status, At
    <3>7. Removals(l)' /\ task'[l] \notin Preparing /\ DistinctIds(peers[l])'
      BY <2>1, <2>5, <3>1, Zenon DEF Removals, At, Preparing, Owned, DistinctIds
    <3> QED
      BY <3>2, <3>4, <3>5, <3>6, <3>7, Zenon DEF Owned
  <2>9. \A id \in Ids : ~Listener(id)' => peers'[id] = <<>>
    BY <2>1, <2>2, <2>4, ZenonT(60) DEF Ownership, Listener
  <2> QED
    BY <2>1, <2>3, <2>4, <2>6, <2>7, <2>8, <2>9, Zenon DEF Ownership
\* A peer leaves the table with all that is there of its id.
<1>WithoutIds.
    ASSUME NEW s \in Seq(Entry), DistinctIds(s), NEW i \in 1..Len(s)
    PROVE  /\ DistinctIds(Without(s, i))
           /\ IdsIn(Without(s, i)) = IdsIn(s) \ {s[i].id}
  <2> USE <1>WithoutIds
  <2> DEFINE w == Without(s, i)
             From(j) == IF j < i THEN j ELSE j + 1
             To(k) == IF k < i THEN k ELSE k - 1
  <2>1. Len(s) \in Nat /\ Len(w) = Len(s) - 1 /\ \A j \in 1..Len(w) : w[j] = s[From(j)]
    BY WithoutFacts, Seq_Len, ZenonT(60)
  <2>2. \A j \in 1..Len(w) : From(j) \in 1..Len(s) /\ From(j) # i
    BY <2>1, SMTT(60), Z3T(60)
  <2>3. \A j, k \in 1..Len(w) : From(j) = From(k) => j = k
    BY <2>1, SMTT(60), Z3T(60)
  <2>4. \A k \in 1..Len(s) : k # i => To(k) \in 1..Len(w) /\ From(To(k)) = k
    BY <2>1, SMTT(60), Z3T(60)
  <2> HIDE DEF From, To, w
  <2>5. DistinctIds(w)
    BY <2>1, <2>2, <2>3, ZenonT(60) DEF DistinctIds
  <2>6. ASSUME NEW j \in 1..Len(w) PROVE w[j].id \in IdsIn(s) \ {s[i].id}
    BY <2>1, <2>2, ZenonT(60) DEF DistinctIds, IdsIn
  <2>7. ASSUME NEW k \in 1..Len(s), s[k].id # s[i].id PROVE s[k].id \in IdsIn(w)
    <3>1. To(k) \in 1..Len(w) /\ w[To(k)] = s[k]
      BY <2>1, <2>4, <2>7, Zenon
    <3> QED
      BY <3>1, Zenon DEF IdsIn
  <2>8. IdsIn(w) = IdsIn(s) \ {s[i].id}
    <3>1. IdsIn(w) \subseteq IdsIn(s) \ {s[i].id}
      BY <2>6, Zenon DEF IdsIn
    <3>2. IdsIn(s) \ {s[i].id} \subseteq IdsIn(w)
      <4> SUFFICES ASSUME NEW x \in IdsIn(s), x # s[i].id PROVE x \in IdsIn(w)
        BY Zenon
      <4>1. PICK k \in 1..Len(s) : x = s[k].id
        BY Zenon DEF IdsIn
      <4> QED
        BY <2>7, <4>1, Zenon
    <3> QED
      BY <3>1, <3>2, Zenon
  <2> QED
    BY <2>5, <2>8, Zenon DEF w
<1>AppendIds.
    ASSUME NEW s \in Seq(Entry), DistinctIds(s), NEW e \in Entry, e.id \notin IdsIn(s)
    PROVE  /\ DistinctIds(Append(s, e))
           /\ IdsIn(Append(s, e)) = IdsIn(s) \cup {e.id}
  <2> USE <1>AppendIds
  <2> DEFINE a == Append(s, e)
  <2>1. /\ Len(s) \in Nat /\ Len(a) = Len(s) + 1 /\ a[Len(s) + 1] = e
        /\ \A i \in 1..Len(s) : a[i] = s[i]
    BY AppendFacts, Seq_Len, ZenonT(60)
  <2>2. \A i : i \in 1..Len(a) <=> i \in 1..Len(s) \/ i = Len(s) + 1
    BY <2>1, SMTT(60), Z3T(60)
  <2> HIDE DEF a
  <2>3. DistinctIds(a)
    BY <2>1, <2>2, ZenonT(60) DEF DistinctIds, IdsIn
  <2>4. IdsIn(a) = IdsIn(s) \cup {e.id}
    <3>1. \A i \in 1..Len(a) : a[i].id \in IdsIn(s) \cup {e.id}
      BY <2>1, <2>2, Zenon DEF IdsIn
    <3>2. \A i \in 1..Len(s) : s[i].id \in IdsIn(a)
      BY <2>1, <2>2, Zenon DEF IdsIn
    <3>3. e.id \in IdsIn(a)
      BY <2>1, <2>2, Zenon DEF IdsIn
    <3>4. IdsIn(a) \subseteq IdsIn(s) \cup {e.id}
      BY <3>1, Zenon DEF IdsIn
    <3>5. IdsIn(s) \subseteq IdsIn(a)
      BY <3>2, Zenon DEF IdsIn
    <3> QED
      BY <3>3, <3>4, <3>5, Zenon
  <2> QED
    BY <2>3, <2>4, Zenon DEF a
\* A peer that is heard from changes its place only.
<1>HeardIds.
    ASSUME NEW s \in Seq(Entry), DistinctIds(s), NEW i \in 1..Len(s)
    PROVE  /\ DistinctIds(Append(Without(s, i), s[i]))
           /\ IdsIn(Append(Without(s, i), s[i])) = IdsIn(s)
  <2> USE <1>HeardIds
  <2> DEFINE w == Without(s, i)
             e == s[i]
  <2>1. w \in Seq(Entry) /\ DistinctIds(w) /\ IdsIn(w) = IdsIn(s) \ {e.id}
    BY WithoutFacts, <1>WithoutIds, Zenon
  <2>2. e \in Entry /\ e.id \in IdsIn(s)
    BY Seq_Element, Zenon DEF IdsIn
  <2> HIDE DEF w, e
  <2>3. DistinctIds(Append(w, e)) /\ IdsIn(Append(w, e)) = IdsIn(w) \cup {e.id}
    BY <2>1, <2>2, <1>AppendIds, Zenon
  <2>4. IdsIn(Append(w, e)) = IdsIn(s)
    BY <2>1, <2>2, <2>3, Zenon
  <2> QED
    BY <2>3, <2>4, Zenon DEF w, e
\* A step that neither admits nor removes a peer.
<1>OwnedMove.
    ASSUME NEW l \in Ids, Owned(l), l \notin Children(l),
           UNCHANGED <<who, removed>>,
           \A x \in Ids : x # l => task'[x] = task[x],
           task[l] \notin Admitting, task'[l] \notin Admitting,
           IdsOf(l)' = IdsOf(l), DistinctIds(peers'[l]),
           task'[l] \in Preparing => task[l] \in Preparing,
           task'[l] = "reap" =>
              /\ victims'[l] \subseteq IdsOf(l) /\ reason'[l] \in Reasons
              /\ reason'[l] = "ListenerShutdown" => cancelled' /\ IdsOf(l) \subseteq victims'[l],
           task'[l] = "join" => cancelled' /\ IdsOf(l) = {}
    PROVE  Owned(l)'
  <2> USE <1>OwnedMove
  <2>1. Children(l)' = Children(l) /\ \A c \in Children(l) : c \in Ids /\ task'[c] = task[c]
    BY Zenon DEF Children, Peer
  <2>2. Roster(l)' = IdsOf(l) /\ Roster(l) = IdsOf(l)
    BY Zenon DEF Roster, Leaving, At, Admitting
  <2>3. ASSUME NEW c \in Children(l) PROVE Status(l, c)' /\ ~InAdmission(c)'
    <3>1. Status(l, c) /\ task'[c] = task[c]
      BY <2>1, Zenon DEF Owned
    <3>2. ~InAdmission(c)
      BY <3>1, Zenon DEF Status, At, Evicting, InAdmission, Started, Admitting
    <3> QED
      BY <2>2, <3>1, <3>2, Zenon DEF Status, InAdmission
  <2>4. Removals(l)'
    BY Zenon DEF Removals, At, Admitting
  <2>5. Roster(l)' \subseteq Children(l)' /\ (task'[l] \in Preparing => Children(l)' = {})
    BY <2>1, <2>2, Zenon DEF Owned
  <2> QED
    BY <2>1, <2>3, <2>4, <2>5, Zenon DEF Owned
\* The table, the victims and the reason stay.
<1>PlainOwnership.
    ASSUME Inv, Ownership, NEW l \in Ids, Listener(l),
           UNCHANGED <<next_id, spawned, who, cancelled, peers, victims, reason, removed>>,
           NEW to, task' = [task EXCEPT ![l] = to],
           task[l] \notin Admitting, to \notin Admitting \cup {"reap"},
           to \in Preparing => task[l] \in Preparing,
           to = "join" => cancelled /\ IdsOf(l) = {}
    PROVE  Ownership'
  <2> USE <1>PlainOwnership
  <2>1. Owned(l) /\ l \notin Children(l) /\ DistinctIds(peers[l])
    BY ListenerFacts, Zenon
  <2>2. task'[l] = to /\ \A x \in Ids : x # l => task'[x] = task[x]
    BY Zenon DEF Inv, TypeOK
  <2>3. IdsOf(l)' = IdsOf(l)
    BY Zenon DEF IdsOf
  <2>4. Owned(l)'
    BY <2>1, <2>2, <2>3, <1>OwnedMove, Zenon
  <2>5. {} \in SUBSET Children(l) /\ removed' = removed \cup {} /\ {} \in SUBSET Ids
    BY Zenon
  <2> QED
    BY <2>2, <2>4, <2>5, <1>OthersOwned, Zenon
<1>HeadOwnership.
    ASSUME Inv, Ownership, NEW l \in Ids, Listener(l),
           \/ (Bind(l) \/ BindCancelled(l) \/ Listening(l)) /\ UNCHANGED udpVars
           \/ Announce(l) \/ AnnounceFails(l) \/ JoinWriters(l) \/ Reaped(l)
           \/ FilterFrame(l) \/ ForwardFrame(l) \/ PacketDone(l) \/ ForwardFails(l)
    PROVE  Ownership'
  <2> USE <1>HeadOwnership
  <2>1. Owned(l) /\ Table(l)
    BY ListenerFacts, Zenon
  <2>2. UNCHANGED <<next_id, spawned, who, cancelled, peers, victims, reason, removed>>
    BY Zenon
       DEF Bind, BindCancelled, Listening, StoreState, Announce, SendAdded, AnnounceFails,
           JoinWriters, Reaped, FilterFrame, ForwardFrame, SendFrame, PacketDone, ForwardFails,
           Move, Local, routerVars, allocVars, udpVars
  <2>3. CASE Reaped(l)
    <3>1. /\ task[l] = "reap" /\ victims[l] = {} /\ reason[l] \in Reasons
          /\ reason[l] # "LruEvicted"
          /\ task' = [task EXCEPT ![l] = IF reason[l] = "Idle" THEN "listen" ELSE "join"]
      BY <2>1, <2>3, Zenon DEF Reaped, Local, Goto, At, Owned, Removals, Table
    <3>2. CASE reason[l] = "Idle"
      BY <2>2, <3>1, <3>2, <1>PlainOwnership, Zenon DEF Admitting, Preparing
    <3>3. CASE reason[l] # "Idle"
      <4>1. cancelled /\ IdsOf(l) = {}
        BY <2>1, <3>1, <3>3, Zenon DEF Reasons, Owned, Removals, At
      <4> QED
        BY <2>2, <3>1, <3>3, <4>1, <1>PlainOwnership, Zenon DEF Admitting, Preparing
    <3> QED
      BY <3>2, <3>3, Zenon
  <2>4. CASE ~Reaped(l)
    <3>1. /\ task[l] \in {"bind", "bound", "announce", "join", "forward"}
          /\ \/ task' = task /\ task[l] = "forward"
             \/ \E to \in {"bind", "bound", "ended", "listen", "forward"} :
                   /\ task' = [task EXCEPT ![l] = to]
                   /\ to \in Preparing => task[l] \in Preparing
      BY <2>4, Zenon
         DEF Bind, BindCancelled, Listening, StoreState, Announce, SendAdded, AnnounceFails,
             JoinWriters, FilterFrame, ForwardFrame, PacketDone, ForwardFails, Move, Local, Goto,
             At, Preparing
    <3>2. PICK to \in {"bind", "bound", "ended", "listen", "forward"} :
            /\ task' = [task EXCEPT ![l] = to]
            /\ to \in Preparing => task[l] \in Preparing
      <4>1. CASE task' = task /\ task[l] = "forward"
        <5>1. task' = [task EXCEPT ![l] = "forward"] /\ "forward" \notin Preparing
          BY <4>1, Zenon DEF Inv, TypeOK, Preparing
        <5> QED
          BY <5>1, Zenon
      <4> QED
        BY <3>1, <4>1, Zenon
    <3>3. task[l] \notin Admitting /\ to \notin Admitting \cup {"reap"} /\ to # "join"
      BY <3>1, <3>2, Zenon DEF Admitting
    <3> QED
      BY <2>2, <3>2, <3>3, <1>PlainOwnership, Zenon
  <2> QED
    BY <2>3, <2>4, Zenon
<1>HeardOwnership.
    ASSUME Inv, Ownership, NEW l \in Ids, Listener(l), NEW src, NEW frames,
           PacketFromPeer(l, src, frames)
    PROVE  Ownership'
  <2> USE <1>HeardOwnership
  <2> DEFINE s == peers[l]
             i == Place(l, src)
             p == Append(Without(s, i), s[i])
  <2>1. /\ Owned(l) /\ l \notin Children(l) /\ s \in Seq(Entry) /\ IdsOf(l) = IdsIn(s)
        /\ DistinctIds(s)
    BY ListenerFacts, Zenon
  <2>2. i \in 1..Len(s)
    <3>1. \E n \in DOMAIN s : s[n].addr = src
      BY Zenon DEF PacketFromPeer, AddrsOf
    <3> QED
      BY <2>1, <3>1, Seq_Len, Zenon DEF Place
  <2>3. /\ UNCHANGED <<next_id, spawned, who, cancelled, victims, reason, removed>>
        /\ peers' = [peers EXCEPT ![l] = p]
        /\ task[l] = "listen" /\ task' = [task EXCEPT ![l] = "forward"]
    BY Zenon DEF PacketFromPeer, Heard, Local, Goto, At, routerVars, allocVars
  <2> HIDE DEF i
  <2>4. DistinctIds(p) /\ IdsIn(p) = IdsIn(s) /\ p \in Seq(Entry)
    <3>1. s[i] \in Entry
      BY <2>1, <2>2, Seq_Element, Zenon
    <3> QED
      BY <2>1, <2>2, <3>1, <1>HeardIds, WithoutFacts, AppendFacts, ZenonT(60)
  <2> HIDE DEF p
  <2>5. /\ peers'[l] = p /\ task'[l] = "forward"
        /\ \A x \in Ids : x # l => task'[x] = task[x]
    BY <2>3, Zenon DEF Inv, TypeOK
  <2>6. IdsOf(l)' = IdsOf(l)
    <3>1. IdsOf(l)' = IdsIn(p)
      BY <2>4, <2>5, Seq_Len, ZenonT(60) DEF IdsOf, IdsIn
    <3> QED
      BY <2>1, <2>4, <3>1, Zenon
  <2>7. Owned(l)'
    BY <2>1, <2>3, <2>4, <2>5, <2>6, <1>OwnedMove, Zenon DEF Admitting, Preparing
  <2>8. {} \in SUBSET Children(l) /\ removed' = removed \cup {} /\ {} \in SUBSET Ids
    BY <2>3, Zenon
  <2> QED
    BY <2>3, <2>5, <2>7, <2>8, <1>OthersOwned, ZenonT(60)
\* The victims are chosen: the idle peers, or all of them.
<1>ReapOwnership.
    ASSUME Inv, Ownership, NEW l \in Ids, Listener(l),
           (\E n \in 1..Len(peers[l]) : reap_idle_peers(l, n)) \/ shutdown_all_peers(l)
    PROVE  Ownership'
  <2> USE <1>ReapOwnership
  <2>1. /\ Owned(l) /\ l \notin Children(l) /\ peers[l] \in Seq(Entry) /\ IdsOf(l) = IdsIn(peers[l])
        /\ DistinctIds(peers[l]) /\ IdsOf(l) \subseteq Children(l) /\ Children(l) \subseteq Ids
    BY ListenerFacts, Zenon
  <2>2. /\ UNCHANGED <<next_id, spawned, who, cancelled, peers, removed>>
        /\ task[l] = "listen" /\ task' = [task EXCEPT ![l] = "reap"]
    BY Zenon DEF reap_idle_peers, shutdown_all_peers, Local, Goto, At, routerVars, allocVars
  <2>3. PICK v \in SUBSET IdsOf(l), r \in Reasons :
          /\ victims' = [victims EXCEPT ![l] = v] /\ reason' = [reason EXCEPT ![l] = r]
          /\ r = "ListenerShutdown" => cancelled /\ v = IdsOf(l)
    <3>1. CASE shutdown_all_peers(l)
      <4>1. /\ victims' = [victims EXCEPT ![l] = IdsOf(l)] /\ cancelled
            /\ reason' = [reason EXCEPT ![l] = "ListenerShutdown"]
        BY <3>1, Zenon DEF shutdown_all_peers
      <4>2. "ListenerShutdown" \in Reasons /\ IdsOf(l) \in SUBSET IdsOf(l)
        BY Zenon DEF Reasons
      <4> QED
        BY <4>1, <4>2, Zenon
    <3>2. ASSUME NEW n \in 1..Len(peers[l]), reap_idle_peers(l, n)
          PROVE  \E v \in SUBSET IdsOf(l), r \in Reasons :
                   /\ victims' = [victims EXCEPT ![l] = v] /\ reason' = [reason EXCEPT ![l] = r]
                   /\ r = "ListenerShutdown" => cancelled /\ v = IdsOf(l)
      <4> DEFINE v == {peers[l][i].id : i \in 1..n}
      <4>1. 1..n \subseteq 1..Len(peers[l])
        BY <2>1, Seq_Len, SMTT(60), Z3T(60)
      <4>2. v \in SUBSET IdsOf(l)
        BY <2>1, <4>1, Zenon DEF IdsIn
      <4>3. /\ victims' = [victims EXCEPT ![l] = v] /\ reason' = [reason EXCEPT ![l] = "Idle"]
            /\ "Idle" \in Reasons /\ "Idle" # "ListenerShutdown"
        BY <3>2, Zenon DEF reap_idle_peers, Reasons
      <4> HIDE DEF v
      <4> QED
        BY <4>2, <4>3, Zenon
    <3> QED
      BY <3>1, <3>2, Zenon
  <2>4. /\ task'[l] = "reap" /\ \A x \in Ids : x # l => task'[x] = task[x]
        /\ victims'[l] = v /\ reason'[l] = r
    BY <2>2, <2>3, Zenon DEF Inv, TypeOK, Ownership
  <2>5. IdsOf(l)' = IdsOf(l) /\ DistinctIds(peers'[l])
    BY <2>1, <2>2, Zenon DEF IdsOf
  <2>6. Owned(l)'
    <3>1. task'[l] \notin Admitting /\ task'[l] \notin Preparing /\ task[l] \notin Admitting
          /\ task'[l] # "join"
      BY <2>2, <2>4, Zenon DEF Admitting, Preparing
    <3>2. /\ victims'[l] \subseteq IdsOf(l) /\ reason'[l] \in Reasons
          /\ reason'[l] = "ListenerShutdown" => cancelled' /\ IdsOf(l) \subseteq victims'[l]
      BY <2>2, <2>3, <2>4, Zenon
    <3> QED
      BY <2>1, <2>2, <2>4, <2>5, <3>1, <3>2, <1>OwnedMove, ZenonT(60)
  <2>7. {} \in SUBSET Children(l) /\ removed' = removed \cup {} /\ v \in SUBSET Ids
    BY <2>1, <2>2, <2>3, Zenon
  <2> QED
    BY <2>2, <2>3, <2>4, <2>6, <2>7, <1>OthersOwned, ZenonT(60)
\* The announcement is sent, or fails.
<1>AnnouncedOwnership.
    ASSUME Inv, Ownership, NEW l \in Ids, Listener(l), NEW c \in Ids,
           SendPeerAdded(l, c) \/ AdmitFails(l, c)
    PROVE  Ownership'
  <2> USE <1>AnnouncedOwnership
  <2>1. Owned(l) /\ l \notin Children(l) /\ Children(l) \subseteq Ids
    BY ListenerFacts, Zenon
  <2>2. /\ UNCHANGED <<next_id, spawned, who, cancelled, peers, victims, reason, removed>>
        /\ task[l] = "admit" /\ c \in Children(l) /\ task[c] = "announce"
        /\ \/ task' = [task EXCEPT ![l] = "admitted", ![c] = "pending"]
           \/ task' = [task EXCEPT ![l] = "listen", ![c] = "refused"]
    BY Zenon DEF SendPeerAdded, AdmitFails, Admitted, SendAdded, At, routerVars, allocVars, udpVars
  <2>3. /\ \/ task'[l] = "admitted" /\ task'[c] = "pending"
           \/ task'[l] = "listen" /\ task'[c] = "refused"
        /\ \A x \in Ids : x # l /\ x # c => task'[x] = task[x]
    BY <2>1, <2>2, Zenon DEF Inv, TypeOK
  <2>4. /\ c \notin Roster(l) /\ c \notin removed
        /\ \A d \in Children(l) : d # c => ~InAdmission(d)
    BY <2>1, <2>2, AdmissionFacts, Zenon DEF InAdmission
  <2>5. /\ Children(l)' = Children(l) /\ IdsOf(l)' = IdsOf(l)
        /\ Roster(l)' = IdsOf(l) /\ Roster(l) = IdsOf(l)
    BY <2>2, <2>3, ZenonT(60) DEF Children, Peer, IdsOf, Roster, Leaving, At
  <2>6. ASSUME NEW d \in Children(l) PROVE Status(l, d)' /\ (d # c => ~InAdmission(d)')
    <3>1. CASE d = c
      BY <2>2, <2>3, <2>4, <2>5, <3>1, Zenon DEF Status, At
    <3>2. CASE d # c
      <4>1. task'[d] = task[d] /\ Status(l, d) /\ ~InAdmission(d)
        BY <2>1, <2>3, <2>4, <3>2, Zenon DEF Owned
      <4> QED
        BY <2>2, <2>5, <3>2, <4>1, Zenon DEF Status, InAdmission
    <3> QED
      BY <3>1, <3>2, Zenon
  <2>7. Removals(l)' /\ task'[l] \notin Preparing
    BY <2>3, Zenon DEF Removals, At, Preparing
  <2>8. Owned(l)'
    <3>1. DistinctIds(peers'[l]) /\ Roster(l)' \subseteq Children(l)'
      BY <2>1, <2>2, <2>5, Zenon DEF Owned
    <3>2. \A d, f \in Children(l)' : InAdmission(d)' /\ InAdmission(f)' => d = f
      BY <2>5, <2>6, Zenon
    <3> QED
      BY <2>5, <2>6, <2>7, <3>1, <3>2, Zenon DEF Owned
  <2>9. /\ {} \in SUBSET Children(l) /\ removed' = removed \cup {} /\ {} \in SUBSET Ids
        /\ \A x \in Ids : x # l /\ x \notin Children(l) => task'[x] = task[x]
    BY <2>2, <2>3, Zenon
  <2> QED
    BY <2>2, <2>8, <2>9, <1>OthersOwned, Zenon
\* The peer enters the table and its writer starts.
<1>InsertOwnership.
    ASSUME Inv, Ownership, NEW l \in Ids, Listener(l), NEW c \in Ids, InsertPeer(l, c)
    PROVE  Ownership'
  <2> USE <1>InsertOwnership
  <2> DEFINE s == peers[l]
             e == [addr |-> packet[l].src, id |-> c]
             p == Append(s, e)
  <2>1. /\ Owned(l) /\ Table(l) /\ l \notin Children(l) /\ Children(l) \subseteq Ids
        /\ s \in Seq(Entry) /\ IdsOf(l) = IdsIn(s) /\ DistinctIds(s)
        /\ IdsOf(l) \subseteq Children(l)
    BY ListenerFacts, Zenon
  <2>2. /\ UNCHANGED <<next_id, spawned, who, cancelled, victims, reason, removed>>
        /\ peers' = [peers EXCEPT ![l] = p]
        /\ task[l] \in {"admitted", "evicted"} /\ c \in Children(l) /\ task[c] = "pending"
        /\ task' = [task EXCEPT ![l] = "forward", ![c] = "wait"]
    BY Zenon DEF InsertPeer, At, routerVars, allocVars
  <2>3. /\ task'[l] = "forward" /\ task'[c] = "wait" /\ peers'[l] = p
        /\ \A x \in Ids : x # l /\ x # c => task'[x] = task[x]
    BY <2>1, <2>2, Zenon DEF Inv, TypeOK
  <2>4. /\ c \notin Roster(l) /\ c \notin removed
        /\ \A d \in Children(l) : d # c => ~InAdmission(d)
    BY <2>1, <2>2, AdmissionFacts, Zenon DEF InAdmission
  <2>5. Children(l)' = Children(l) /\ Roster(l) = IdsOf(l) /\ Roster(l)' = IdsOf(l)'
    BY <2>2, <2>3, Zenon DEF Children, Peer, Roster, Leaving, At
  <2>6. e \in Entry /\ e.id = c
    BY <2>1, <2>2, Zenon DEF Table, Evicting, At, Entry
  <2> HIDE DEF e
  <2>7. DistinctIds(p) /\ IdsIn(p) = IdsIn(s) \cup {c} /\ p \in Seq(Entry)
    <3>1. e.id \notin IdsIn(s)
      BY <2>1, <2>4, <2>5, <2>6, Zenon
    <3>2. DistinctIds(p) /\ IdsIn(p) = IdsIn(s) \cup {e.id}
      BY <2>1, <2>6, <3>1, <1>AppendIds, Zenon
    <3>3. p \in Seq(Entry)
      BY <2>1, <2>6, AppendFacts, Zenon
    <3> QED
      BY <2>6, <3>2, <3>3, Zenon
  <2> HIDE DEF p
  <2>8. IdsOf(l)' = IdsOf(l) \cup {c}
    <3>1. IdsOf(l)' = IdsIn(p)
      BY <2>3, <2>7, Seq_Len, SMTT(60), Z3T(60) DEF IdsOf, IdsIn
    <3> QED
      BY <2>1, <2>7, <3>1, Zenon
  <2>9. ASSUME NEW d \in Children(l) PROVE Status(l, d)' /\ ~InAdmission(d)'
    <3>1. CASE d = c
      BY <2>2, <2>3, <2>4, <2>5, <2>8, <3>1, ZenonT(60) DEF Status, Started, InAdmission
    <3>2. CASE d # c
      <4>1. task'[d] = task[d] /\ Status(l, d) /\ ~InAdmission(d)
        BY <2>1, <2>3, <2>4, <3>2, Zenon DEF Owned
      <4> QED
        BY <2>2, <2>5, <2>8, <3>2, <4>1, Zenon DEF Status, InAdmission
    <3> QED
      BY <3>1, <3>2, Zenon
  <2>10. Removals(l)' /\ task'[l] \notin Preparing
    BY <2>3, Zenon DEF Removals, At, Preparing
  <2>11. Owned(l)'
    <3>1. DistinctIds(peers'[l]) /\ Roster(l)' \subseteq Children(l)'
      BY <2>1, <2>2, <2>3, <2>5, <2>7, <2>8, Zenon
    <3> QED
      BY <2>5, <2>9, <2>10, <3>1, Zenon DEF Owned
  <2>12. /\ {} \in SUBSET Children(l) /\ removed' = removed \cup {} /\ {} \in SUBSET Ids
         /\ \A x \in Ids : x # l /\ x \notin Children(l) => task'[x] = task[x]
    BY <2>2, <2>3, Zenon
  <2> QED
    BY <2>2, <2>11, <2>12, <1>OthersOwned, Zenon
\* A peer leaves the table and is the listener's to remove.
<1>DetachOwnership.
    ASSUME Inv, Ownership, NEW l \in Ids, Listener(l),
           evict_lru_peer(l) \/ \E id \in Ids : Remove(l, id)
    PROVE  Ownership'
  <2> USE <1>DetachOwnership
  <2> DEFINE s == peers[l]
  <2>1. /\ Owned(l) /\ Table(l) /\ l \notin Children(l) /\ Children(l) \subseteq Ids
        /\ s \in Seq(Entry) /\ IdsOf(l) = IdsIn(s) /\ DistinctIds(s)
        /\ IdsOf(l) \subseteq Children(l)
    BY ListenerFacts, Zenon
  <2>2. PICK id \in IdsOf(l) :
          /\ peers' = [peers EXCEPT ![l] = Without(s, PlaceOfId(l, id))]
          /\ \/ /\ task[l] = "admitted" /\ victims' = [victims EXCEPT ![l] = {id}]
                /\ reason' = [reason EXCEPT ![l] = "LruEvicted"]
             \/ /\ task[l] = "reap" /\ victims' = victims /\ id \in victims[l]
                /\ reason' = reason
    <3>1. CASE evict_lru_peer(l)
      <4>1. Len(s) \in Nat /\ DOMAIN s = 1..Len(s)
        BY <2>1, Seq_Len, ZenonT(60)
      <4>2. 1 \in 1..Len(s) /\ Head(s) = s[1]
        BY <2>1, <3>1, <4>1, UdpAssumption, SMTT(60), Z3T(60) DEF evict_lru_peer
      <4>3. Head(s).id \in IdsOf(l)
        BY <2>1, <4>2, Zenon DEF IdsIn
      <4>4. /\ peers' = [peers EXCEPT ![l] = Without(s, PlaceOfId(l, Head(s).id))]
            /\ task[l] = "admitted" /\ victims' = [victims EXCEPT ![l] = {Head(s).id}]
            /\ reason' = [reason EXCEPT ![l] = "LruEvicted"]
        BY <3>1, Zenon DEF evict_lru_peer, Detach, Local, At
      <4> QED
        BY <4>3, <4>4, Zenon
    <3>2. CASE \E id \in Ids : Remove(l, id)
      <4>1. PICK id \in Ids : Remove(l, id)
        BY <3>2, Zenon
      <4>2. /\ id \in IdsOf(l) /\ id \in victims[l] /\ victims' = victims /\ reason' = reason
            /\ peers' = [peers EXCEPT ![l] = Without(s, PlaceOfId(l, id))] /\ task[l] = "reap"
        BY <4>1, Zenon DEF Remove, Detach, Local, At
      <4> QED
        BY <4>2, Zenon
    <3> QED
      BY <3>1, <3>2, Zenon
  <2>3. /\ UNCHANGED <<next_id, spawned, who, cancelled, removed>>
        /\ task' = [task EXCEPT ![l] = "removing"]
    BY Zenon DEF evict_lru_peer, Remove, Local, Goto, routerVars, allocVars
  <2> DEFINE i == PlaceOfId(l, id)
             p == Without(s, i)
  <2>4. i \in 1..Len(s) /\ s[i].id = id
    <3>1. \E n \in DOMAIN s : s[n].id = id
      BY Zenon DEF IdsOf
    <3> QED
      BY <2>1, <3>1, Seq_Len, Zenon DEF PlaceOfId
  <2>5. peers' = [peers EXCEPT ![l] = p]
    BY <2>2, Zenon
  <2> HIDE DEF i
  <2>6. DistinctIds(p) /\ IdsIn(p) = IdsIn(s) \ {id} /\ p \in Seq(Entry)
    BY <2>1, <2>4, <1>WithoutIds, WithoutFacts, Zenon
  <2> HIDE DEF p
  <2>7. /\ task'[l] = "removing" /\ \A x \in Ids : x # l => task'[x] = task[x]
        /\ peers'[l] = p
    BY <2>3, <2>5, Zenon DEF Inv, TypeOK
  <2>8. IdsOf(l)' = IdsOf(l) \ {id}
    <3>1. IdsOf(l)' = IdsIn(p)
      BY <2>6, <2>7, Seq_Len, SMTT(60), Z3T(60) DEF IdsOf, IdsIn
    <3> QED
      BY <2>1, <2>6, <3>1, Zenon
  <2>9. /\ task[l] = "admitted" => victims'[l] = {id} /\ reason'[l] = "LruEvicted"
        /\ task[l] = "reap" => victims'[l] = victims[l] /\ reason'[l] = reason[l] /\ id \in victims[l]
        /\ task[l] \in {"admitted", "reap"}
    BY <2>2, ZenonT(60) DEF Ownership, Inv, TypeOK
  <2>10. victims'[l] \ (IdsOf(l) \ {id}) = {id}
    <3>1. CASE task[l] = "admitted"
      BY <2>9, <3>1, Zenon
    <3>2. CASE task[l] = "reap"
      <4>1. victims[l] \subseteq IdsOf(l)
        BY <2>1, <3>2, Zenon DEF Owned, Removals, At
      <4> QED
        BY <2>9, <3>2, <4>1, Zenon
    <3> QED
      BY <2>9, <3>1, <3>2, Zenon
  <2>11. Leaving(l)' = {id} /\ Children(l)' = Children(l)
    BY <2>3, <2>7, <2>8, <2>10, Zenon DEF Leaving, At, Children, Peer
  <2>12. Roster(l)' = Roster(l) /\ Roster(l) = IdsOf(l)
    BY <2>8, <2>9, <2>11, Zenon DEF Roster, Leaving, At
  <2>13. ASSUME NEW d \in Children(l) PROVE Status(l, d)' /\ (InAdmission(d)' <=> InAdmission(d))
    <3>1. task'[d] = task[d] /\ Status(l, d)
      BY <2>1, <2>7, Zenon DEF Owned
    <3>2. At(l, "admitted") => Evicting(l)'
      BY <2>7, <2>9, Zenon DEF At, Evicting
    <3>3. ~At(l, "admit") /\ ~Evicting(l)
      BY <2>9, Zenon DEF At, Evicting
    <3> QED
      BY <2>3, <2>12, <3>1, <3>2, <3>3, Zenon DEF Status, InAdmission
  <2>14. Removals(l)' /\ task'[l] \notin Preparing
    <3>1. /\ reason'[l] \in Reasons
          /\ reason'[l] = "ListenerShutdown" => cancelled' /\ IdsOf(l)' \subseteq victims'[l]
      <4>1. CASE task[l] = "admitted"
        BY <2>9, <4>1, Zenon DEF Reasons
      <4>2. CASE task[l] = "reap"
        BY <2>1, <2>3, <2>8, <2>9, <4>2, Zenon DEF Owned, Removals, At
      <4> QED
        BY <2>9, <4>1, <4>2, Zenon
    <3>2. \E v \in Ids : Leaving(l)' = {v}
      BY <2>1, <2>11, Zenon
    <3> QED
      BY <2>7, <3>1, <3>2, Zenon DEF Removals, At, Preparing
  <2>15. Owned(l)'
    <3>1. DistinctIds(peers'[l]) /\ Roster(l)' \subseteq Children(l)'
      BY <2>1, <2>6, <2>7, <2>11, <2>12, Zenon
    <3>2. \A d, f \in Children(l)' : InAdmission(d)' /\ InAdmission(f)' => d = f
      BY <2>1, <2>11, <2>13, Zenon DEF Owned
    <3> QED
      BY <2>11, <2>13, <2>14, <3>1, <3>2, Zenon DEF Owned
  <2>16. /\ {} \in SUBSET Children(l) /\ removed' = removed \cup {} /\ {} \in SUBSET Ids
         /\ {id} \in SUBSET Ids
    BY <2>1, <2>3, Zenon
  <2> QED
    BY <2>2, <2>3, <2>5, <2>7, <2>15, <2>16, <1>OthersOwned, ZenonT(60)
\* The removal is sent: the peer is the listener's no more.
<1>RemovedOwnership.
    ASSUME Inv, Ownership, NEW l \in Ids, Listener(l), NEW id \in Ids, SendPeerRemoved(l, id)
    PROVE  Ownership'
  <2> USE <1>RemovedOwnership
  <2> DEFINE to == IF reason[l] = "LruEvicted" THEN "evicted" ELSE "reap"
  <2>1. /\ Owned(l) /\ l \notin Children(l) /\ Children(l) \subseteq Ids
        /\ IdsOf(l) \subseteq Children(l)
    BY ListenerFacts, Zenon
  <2>2. /\ UNCHANGED <<next_id, spawned, who, cancelled, peers, reason>>
        /\ victims' = [victims EXCEPT ![l] = victims[l] \ {id}]
        /\ removed' = removed \cup {id}
        /\ task[l] = "removing" /\ id \in victims[l] /\ id \notin IdsOf(l)
        /\ task' = [task EXCEPT ![l] = to]
    BY Zenon DEF SendPeerRemoved, SendRemoved, Goto, At, routerVars, allocVars
  <2>3. /\ task'[l] = to /\ \A x \in Ids : x # l => task'[x] = task[x]
        /\ victims'[l] = victims[l] \ {id} /\ victims[l] \subseteq Ids
    BY <2>2, Zenon DEF Inv, TypeOK, Ownership
  <2>4. to \in {"evicted", "reap"} /\ (to = "evicted" <=> reason[l] = "LruEvicted")
    BY Zenon
  <2> HIDE DEF to
  <2>5. Leaving(l) = {id} /\ Roster(l) = IdsOf(l) \cup {id}
    <3>1. Leaving(l) = victims[l] \ IdsOf(l) /\ \E v \in Ids : Leaving(l) = {v}
      BY <2>1, <2>2, ZenonT(60) DEF Leaving, At, Owned, Removals
    <3> QED
      BY <2>2, <3>1, Zenon DEF Roster
  <2>6. /\ Children(l)' = Children(l) /\ IdsOf(l)' = IdsOf(l) /\ Roster(l)' = IdsOf(l)
        /\ id \in Children(l)
    BY <2>1, <2>2, <2>3, <2>4, <2>5, SMTT(60), Z3T(60)
       DEF Children, Peer, IdsOf, Roster, Leaving, At, Owned
  <2>7. ASSUME NEW d \in Children(l) PROVE Status(l, d)' /\ (InAdmission(d)' <=> InAdmission(d))
    <3>1. task'[d] = task[d] /\ Status(l, d)
      BY <2>1, <2>3, Zenon DEF Owned
    <3>2. CASE d = id
      BY <2>2, <2>5, <2>6, <3>1, <3>2, Zenon DEF Status, InAdmission
    <3>3. CASE d # id
      <4>1. Evicting(l) => Evicting(l)'
        BY <2>2, <2>3, <2>4, Zenon DEF Evicting, At
      <4>2. ~At(l, "admit") /\ ~At(l, "admitted")
        BY <2>2, Zenon DEF At
      <4>3. /\ d \in Roster(l)' <=> d \in Roster(l)
            /\ d \in removed' <=> d \in removed
        BY <2>2, <2>5, <2>6, <3>3, Zenon
      <4> QED
        BY <3>1, <4>1, <4>2, <4>3, Zenon DEF Status, InAdmission
    <3> QED
      BY <3>2, <3>3, Zenon
  <2>8. Removals(l)' /\ task'[l] \notin Preparing
    <3>1. CASE to = "evicted"
      BY <2>3, <3>1, Zenon DEF Removals, At, Preparing
    <3>2. CASE to = "reap"
      <4>1. victims'[l] \subseteq IdsOf(l)'
        BY <2>2, <2>3, <2>5, <2>6, Zenon DEF Leaving, At
      <4>2. /\ reason'[l] \in Reasons
            /\ reason'[l] = "ListenerShutdown" => cancelled' /\ IdsOf(l)' \subseteq victims'[l]
        BY <2>1, <2>2, <2>3, <2>6, Zenon DEF Owned, Removals, At
      <4> QED
        BY <2>3, <3>2, <4>1, <4>2, Zenon DEF Removals, At, Preparing
    <3> QED
      BY <2>4, <3>1, <3>2, Zenon
  <2>9. Owned(l)'
    <3>1. DistinctIds(peers'[l]) /\ Roster(l)' \subseteq Children(l)'
      BY <2>1, <2>2, <2>6, Zenon DEF Owned
    <3>2. \A d, f \in Children(l)' : InAdmission(d)' /\ InAdmission(f)' => d = f
      BY <2>1, <2>6, <2>7, Zenon DEF Owned
    <3> QED
      BY <2>6, <2>7, <2>8, <3>1, <3>2, Zenon DEF Owned
  <2>10. {id} \in SUBSET Children(l) /\ victims[l] \ {id} \in SUBSET Ids
    BY <2>3, <2>6, Zenon
  <2> QED
    BY <2>2, <2>3, <2>9, <2>10, <1>OthersOwned, Zenon
<1> SUFFICES ASSUME Inv, Ownership, [Next]_vars PROVE Ownership'
  BY Zenon
<1>1. CASE (Route \/ Cancel) /\ UNCHANGED udpVars
  <2>1. UNCHANGED <<next_id, spawned, who, udpVars, task>>
    BY <1>1, Zenon DEF Route, Cancel, transportVars, allocVars
  <2>2. cancelled => cancelled'
    BY <1>1, Zenon
    DEF Cancel, Route, RouterNext, PollCancel, TakeEvent, NoEvent, TakeFrame, NoFrame,
        DrainedEvents, SweepOne, SweepDone
  <2> QED
    BY <2>1, <2>2, <1>QuietOwnership, Zenon
<1>2. CASE UNCHANGED vars
  BY <1>2, <1>QuietOwnership, Zenon DEF vars, routerVars, transportVars, allocVars
<1>3. ASSUME NEW id \in Ids, Network(id) PROVE Ownership'
  BY <1>3, <1>HeadOwnership, <1>HeardOwnership, <1>StrangerOwnership, <1>ReapOwnership,
     <1>WriterOwnership, Zenon
     DEF Network
<1>4. ASSUME NEW id \in Ids, Task(id) PROVE Ownership'
  BY <1>4, <1>HeadOwnership, <1>AnnouncedOwnership, <1>InsertOwnership, <1>DetachOwnership,
     <1>RemovedOwnership, <1>ReapOwnership, <1>WriterOwnership, Zenon
     DEF Task
<1> QED
  BY <1>1, <1>2, <1>3, <1>4, <1>SpawnOwnership, Zenon DEF Next

=============================================================================
