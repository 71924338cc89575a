--------------------------- MODULE EndpointProofs ----------------------------
(***************************************************************************)
(* The two ways of a frame through an endpoint.                            *)
(*                                                                         *)
(* On the way in, what leaves the framer is what came in: FramesAreSlices, *)
(* proved for every stream and every way of cutting it into reads, every   *)
(* checksum, msgid table and in-filter, over any number of sessions.  The  *)
(* argument: a turn of try_next_frame's loop leaves a suffix of the        *)
(* buffer, and the frame it yields, if any, is the piece right in front of *)
(* that suffix; a read extends the buffer at the end by the stream's next  *)
(* bytes.                                                                  *)
(*                                                                         *)
(* On the way out, the transmit queue of a tcpc: leaf and the task behind  *)
(* it, for every capacity, every backoff and any number of frames,         *)
(* connections and failures: FramesAccounted and LinkIsFresh.  Neither is  *)
(* inductive by itself.  That a frame is counted once needs what the task  *)
(* holds at each of its positions; that a link is fresh needs that the     *)
(* queue holds only frames of the current link from the end of the drain   *)
(* on, and that the numbers in it grow and lie behind the last one taken.  *)
(***************************************************************************)
EXTENDS Ingress, Link, FiniteSetTheorems, TLAPS

-----------------------------------------------------------------------------
(* Sequences. *)

\* The empty sequence, and that every other one has an element.
LEMMA Seq_Empty ==
  ASSUME NEW S
  PROVE  /\ <<>> \in Seq(S)
         /\ Len(<<>>) = 0
         /\ \A s \in Seq(S) : s # <<>> => Len(s) \in Nat \ {0}
BY SMTT(60), Z3T(60)

\* The length, the domain and the range of a sequence.
LEMMA Seq_Len ==
  ASSUME NEW S, NEW s \in Seq(S)
  PROVE  /\ Len(s) \in Nat
         /\ s \in [1..Len(s) -> S]
         /\ DOMAIN s = 1..Len(s)
BY SMTT(60), Z3T(60)

\* What a sequence over S holds is in S.
LEMMA Seq_Element ==
  ASSUME NEW S, NEW s \in Seq(S), NEW n \in 1..Len(s)
  PROVE  s[n] \in S
BY SMTT(60), Z3T(60)

\* A sequence over a set is one over every larger set.
LEMMA Seq_Monotonic ==
  ASSUME NEW S, NEW T, NEW s \in Seq(S), S \subseteq T
  PROVE  s \in Seq(T)
BY SMTT(60), Z3T(60)

\* An update in place.
LEMMA Seq_Except ==
  ASSUME NEW S, NEW s \in Seq(S), NEW i \in 1..Len(s), NEW e \in S
  PROVE  /\ [s EXCEPT ![i] = e] \in Seq(S)
         /\ Len([s EXCEPT ![i] = e]) = Len(s)
         /\ \A j \in 1..Len(s) : [s EXCEPT ![i] = e][j] = IF j = i THEN e ELSE s[j]
BY SMTT(60), Z3T(60)

\* Sequences of one length with the same elements are the same.
LEMMA Seq_Equal ==
  ASSUME NEW S, NEW s \in Seq(S), NEW t \in Seq(S),
         Len(s) = Len(t), \A i \in 1..Len(s) : s[i] = t[i]
  PROVE  s = t
BY SMTT(60), Z3T(60)

\* Concatenation, element by element.
LEMMA Seq_Concat ==
  ASSUME NEW S, NEW s \in Seq(S), NEW t \in Seq(S)
  PROVE  /\ s \o t \in Seq(S)
         /\ Len(s \o t) = Len(s) + Len(t)
         /\ \A i \in 1..(Len(s) + Len(t)) :
              (s \o t)[i] = IF i <= Len(s) THEN s[i] ELSE t[i - Len(s)]
BY SMTT(60), Z3T(60)

\* A stretch of a sequence, element by element.
LEMMA Seq_SubSeq ==
  ASSUME NEW S, NEW s, NEW m \in Int, NEW n \in Int, \A i \in m..n : s[i] \in S
  PROVE  /\ SubSeq(s, m, n) \in Seq(S)
         /\ Len(SubSeq(s, m, n)) = IF m <= n THEN n - m + 1 ELSE 0
         /\ \A i \in 1..(n - m + 1) : SubSeq(s, m, n)[i] = s[m + i - 1]
BY SMTT(60), Z3T(60)

\* The two parts of a queue that is popped.
LEMMA Seq_HeadTail ==
  ASSUME NEW S, NEW s \in Seq(S), s # <<>>
  PROVE  /\ Head(s) \in S
         /\ Tail(s) \in Seq(S)
         /\ Len(Tail(s)) = Len(s) - 1
         /\ \A i \in 1..Len(Tail(s)) : Tail(s)[i] = s[i + 1]
BY SMTT(60), Z3T(60)

\* A queue that is pushed to.
LEMMA Seq_Append ==
  ASSUME NEW S, NEW s \in Seq(S), NEW e \in S
  PROVE  /\ Append(s, e) \in Seq(S)
         /\ Append(s, e) # <<>>
         /\ Len(Append(s, e)) = Len(s) + 1
         /\ \A i \in 1..Len(s) : Append(s, e)[i] = s[i]
         /\ Append(s, e)[Len(s) + 1] = e
BY SMTT(60), Z3T(60)

-----------------------------------------------------------------------------
(* On the way in. *)

Byte == 0..255

FramerOK(f) == f \in [buf : Seq(Byte), resync_bytes : Nat, crc_errors : Nat]

\* t is what is left of s behind its first k elements.
Behind(t, s, k) ==
  /\ t \in Seq(Byte) /\ k \in 0..Len(s) /\ Len(t) = Len(s) - k
  /\ \A i \in 1..Len(t) : t[i] = s[k + i]

\* t is the piece of s that ends with its k-th element.
EndsAt(t, s, k) ==
  /\ t \in Seq(Byte) /\ Len(t) <= k
  /\ \A i \in 1..Len(t) : t[i] = s[k - Len(t) + i]

-----------------------------------------------------------------------------
LEMMA Drop ==
  ASSUME NEW s \in Seq(Byte), NEW k \in 0..Len(s)
  PROVE  Behind(SubSeq(s, k + 1, Len(s)), s, k)
<1> DEFINE t == SubSeq(s, k + 1, Len(s))
<1>1. Len(s) \in Nat /\ k \in Nat /\ k <= Len(s) /\ \A i \in 1..Len(s) : s[i] \in Byte
  BY Seq_Len, SMTT(60), Z3T(60)
<1>2. \A i \in k + 1..Len(s) : s[i] \in Byte
  BY <1>1, SMTT(60), Z3T(60)
<1>3. /\ t \in Seq(Byte) /\ Len(t) = IF k + 1 <= Len(s) THEN Len(s) - (k + 1) + 1 ELSE 0
      /\ \A i \in 1..Len(s) - (k + 1) + 1 : t[i] = s[(k + 1) + i - 1]
  BY <1>1, <1>2, Seq_SubSeq, SMTT(60), Z3T(60)
<1> HIDE DEF t
<1>4. Len(t) = Len(s) - k
  BY <1>1, <1>3, SMTT(60), Z3T(60)
<1>5. \A i \in 1..Len(t) : t[i] = s[k + i]
  <2> SUFFICES ASSUME NEW i \in 1..Len(t) PROVE t[i] = s[k + i]
    BY Zenon
  <2>1. i \in 1..Len(s) - (k + 1) + 1 /\ (k + 1) + i - 1 = k + i
    BY <1>1, <1>4, SMTT(60), Z3T(60)
  <2> QED
    BY <1>3, <2>1, Zenon
<1> QED
  BY <1>1, <1>3, <1>4, <1>5, Zenon DEF Behind, t

LEMMA Take ==
  ASSUME NEW s \in Seq(Byte), NEW n \in 0..Len(s)
  PROVE  EndsAt(SubSeq(s, 1, n), s, n) /\ Len(SubSeq(s, 1, n)) = n
<1> DEFINE t == SubSeq(s, 1, n)
<1>1. Len(s) \in Nat /\ n \in Nat /\ n <= Len(s) /\ \A i \in 1..Len(s) : s[i] \in Byte
  BY Seq_Len, SMTT(60), Z3T(60)
<1>2. \A i \in 1..n : s[i] \in Byte
  BY <1>1, SMTT(60), Z3T(60)
<1>3. /\ t \in Seq(Byte) /\ Len(t) = IF 1 <= n THEN n - 1 + 1 ELSE 0
      /\ \A i \in 1..n - 1 + 1 : t[i] = s[1 + i - 1]
  BY <1>1, <1>2, Seq_SubSeq, SMTT(60), Z3T(60)
<1> HIDE DEF t
<1>4. Len(t) = n
  BY <1>1, <1>3, SMTT(60), Z3T(60)
<1>5. \A i \in 1..Len(t) : t[i] = s[n - Len(t) + i]
  <2> SUFFICES ASSUME NEW i \in 1..Len(t) PROVE t[i] = s[n - Len(t) + i]
    BY Zenon
  <2>1. i \in 1..n - 1 + 1 /\ 1 + i - 1 = i /\ n - Len(t) + i = i
    BY <1>1, <1>4, SMTT(60), Z3T(60)
  <2> QED
    BY <1>3, <2>1, Zenon
<1> QED
  BY <1>1, <1>3, <1>4, <1>5, SMTT(60), Z3T(60) DEF EndsAt, t

\* Dropping twice.
LEMMA DropTwice ==
  ASSUME NEW s \in Seq(Byte), NEW t, NEW u, NEW k, NEW m, Behind(t, s, k), Behind(u, t, m)
  PROVE  Behind(u, s, k + m)
<1>1. Len(s) \in Nat /\ Len(t) \in Nat /\ Len(u) \in Nat /\ t \in Seq(Byte) /\ u \in Seq(Byte)
  BY Seq_Len, Zenon DEF Behind
<1>2. k + m \in 0..Len(s) /\ Len(u) = Len(s) - (k + m) /\ k \in Nat /\ m \in Nat
  BY <1>1, SMTT(60), Z3T(60) DEF Behind
<1>3. ASSUME NEW i \in 1..Len(u) PROVE u[i] = s[k + m + i]
  <2>1. m + i \in 1..Len(t) /\ k + (m + i) = k + m + i
    BY <1>1, <1>2, SMTT(60), Z3T(60) DEF Behind
  <2> QED
    BY <2>1, Zenon DEF Behind
<1> QED
  BY <1>1, <1>2, <1>3, Zenon DEF Behind

\* The first n elements of what is behind the first k are those up to k + n.
LEMMA TakeBehind ==
  ASSUME NEW s \in Seq(Byte), NEW t, NEW u, NEW k, NEW n, Behind(t, s, k), n \in 0..Len(t),
         EndsAt(u, t, n), Len(u) = n
  PROVE  EndsAt(u, s, k + n)
<1>1. Len(s) \in Nat /\ Len(t) \in Nat /\ u \in Seq(Byte) /\ k \in Nat /\ n \in Nat
  BY Seq_Len, SMTT(60), Z3T(60) DEF Behind, EndsAt
<1>2. ASSUME NEW i \in 1..Len(u) PROVE u[i] = s[k + n - Len(u) + i]
  <2>1. i \in 1..Len(t) /\ n - Len(u) + i = i /\ k + n - Len(u) + i = k + i
    BY <1>1, SMTT(60), Z3T(60)
  <2> QED
    BY <2>1, ZenonT(60) DEF Behind, EndsAt
<1> QED
  BY <1>1, <1>2, SMTT(60), Z3T(60) DEF EndsAt

-----------------------------------------------------------------------------
(* One turn of try_next_frame's loop. *)

LEMMA GarbageBound ==
  ASSUME NEW buf \in Seq(Byte)
  PROVE  GarbagePrefix(buf) \in 0..Len(buf)
<1> DEFINE G == {i \in 1..Len(buf) : \A j \in 1..i : ~IsStx(buf[j])}
<1>1. Len(buf) \in Nat
  BY Seq_Len, Zenon
<1>2. IsFiniteSet(1..Len(buf)) /\ Cardinality(1..Len(buf)) = Len(buf)
  BY <1>1, FS_Interval, SMTT(60), Z3T(60)
<1>3. IsFiniteSet(G) /\ Cardinality(G) <= Cardinality(1..Len(buf))
  BY <1>2, FS_Subset, Zenon
<1>4. Cardinality(G) \in Nat
  BY <1>3, FS_CardinalityType, Zenon
<1> QED
  BY <1>1, <1>2, <1>3, <1>4, SMTT(60), Z3T(60) DEF GarbagePrefix

LEMMA DiscardFacts ==
  ASSUME NEW f, FramerOK(f), NEW k \in 0..Len(f.buf)
  PROVE  FramerOK(Discard(f, k)) /\ Behind(Discard(f, k).buf, f.buf, k)
<1> DEFINE rest == SubSeq(f.buf, k + 1, Len(f.buf))
<1>1. f.buf \in Seq(Byte) /\ f.resync_bytes \in Nat /\ k \in Nat
  BY Seq_Len, SMTT(60), Z3T(60) DEF FramerOK
<1>2. Behind(rest, f.buf, k) /\ rest \in Seq(Byte)
  BY <1>1, Drop, Zenon DEF Behind
<1>3. f.resync_bytes + k \in Nat
  BY <1>1, SMTT(60), Z3T(60)
<1> HIDE DEF rest
<1>4. Discard(f, k) = [f EXCEPT !.resync_bytes = f.resync_bytes + k, !.buf = rest]
  BY Zenon DEF Discard, rest
<1> QED
  BY <1>2, <1>3, <1>4, Zenon DEF FramerOK

LEMMA ByteNat == \A b \in Byte : b \in Nat
BY SMTT(60), Z3T(60) DEF Byte

LEMMA FrameLenOf ==
  ASSUME NEW buf, buf[2] \in Nat
  PROVE  decide_frame_len(buf) \in Nat
BY SMTT(60), Z3T(60)
   DEF decide_frame_len, V1_HEADER_LEN, V2_HEADER_LEN, CRC_LEN, V2_SIGNATURE_LEN, STX_V1,
       UnknownIncompatFlag, V2_IFLAG_SIGNED

\* With a complete header the length of the frame is a number.
LEMMA FrameLenType ==
  ASSUME NEW buf \in Seq(Byte), Len(buf) >= header_len(buf[1])
  PROVE  decide_frame_len(buf) \in Nat
<1>1. Len(buf) \in Nat /\ Len(buf) >= 6
  BY Seq_Len, SMTT(60), Z3T(60) DEF header_len, V1_HEADER_LEN, V2_HEADER_LEN
<1>2. buf[2] \in Byte
  BY <1>1, Seq_Element, SMTT(60), Z3T(60)
<1>3. buf[2] \in Nat
  BY <1>2, ByteNat, Zenon
<1> QED
  BY <1>3, FrameLenOf, Zenon

LEMMA CountedFacts ==
  ASSUME NEW f, FramerOK(f)
  PROVE  LET r == [f EXCEPT !.crc_errors = f.crc_errors + 1] IN FramerOK(r) /\ r.buf = f.buf
BY SMTT(60), Z3T(60) DEF FramerOK

LEMMA SplitFacts ==
  ASSUME NEW f, FramerOK(f), NEW n, SubSeq(f.buf, n + 1, Len(f.buf)) \in Seq(Byte)
  PROVE  FramerOK(SplitTo(f, n)) /\ SplitTo(f, n).buf = SubSeq(f.buf, n + 1, Len(f.buf))
<1> DEFINE rest == SubSeq(f.buf, n + 1, Len(f.buf))
<1>1. SplitTo(f, n) = [f EXCEPT !.buf = rest] /\ rest \in Seq(Byte)
  BY Zenon DEF SplitTo
<1> HIDE DEF rest
<1>2. FramerOK(SplitTo(f, n)) /\ SplitTo(f, n).buf = rest
  BY <1>1, Zenon DEF FramerOK
<1> QED
  BY <1>2, Zenon DEF rest

\* A turn leaves what is behind the first k bytes of the buffer, for some k;
\* a frame it yields ends there.
Turned(f, next, k) ==
  /\ FramerOK(next.framer) /\ Behind(next.framer.buf, f.buf, k)
  /\ next.frame # None => EndsAt(next.frame[1], f.buf, k)

LEMMA TurnFacts ==
  ASSUME NEW f, FramerOK(f)
  PROVE  \E k \in Nat : Turned(f, try_next_frame(f), k)
<1> DEFINE aligned   == align_to_stx(f)
           buf       == aligned.buf
           g         == GarbagePrefix(f.buf)
           frame_len == decide_frame_len(buf)
           next      == try_next_frame(f)
<1>1. f.buf \in Seq(Byte) /\ g \in 0..Len(f.buf) /\ Len(f.buf) \in Nat /\ g \in Nat
  BY GarbageBound, Seq_Len, SMTT(60), Z3T(60) DEF FramerOK
<1>2. FramerOK(aligned) /\ Behind(buf, f.buf, g)
  BY <1>1, DiscardFacts, Zenon DEF align_to_stx
<1>3. buf \in Seq(Byte) /\ Len(buf) \in Nat
  BY <1>2, Seq_Len, Zenon DEF Behind
<1>4. ASSUME buf # <<>> PROVE 1 \in 0..Len(buf)
  BY <1>3, <1>4, Seq_Empty, SMTT(60), Z3T(60)
<1>5. CASE next = Incomplete(aligned)
  <2>1. next.framer = aligned /\ ~(next.frame # None)
    BY <1>5, SMTT(60), Z3T(60) DEF Incomplete
  <2> QED
    BY <1>1, <1>2, <2>1, Zenon DEF Turned
<1>6. CASE buf # <<>> /\ next = Again(Discard(aligned, 1))
  <2>1. next.framer = Discard(aligned, 1) /\ ~(next.frame # None)
    BY <1>6, SMTT(60), Z3T(60) DEF Again
  <2>2. FramerOK(Discard(aligned, 1)) /\ Behind(Discard(aligned, 1).buf, buf, 1)
    BY <1>2, <1>4, <1>6, DiscardFacts, Zenon
  <2>3. Behind(Discard(aligned, 1).buf, f.buf, g + 1) /\ g + 1 \in Nat
    BY <1>1, <1>2, <2>2, DropTwice, SMTT(60), Z3T(60)
  <2> QED
    BY <2>1, <2>2, <2>3, Zenon DEF Turned
<1>7. CASE buf # <<>> /\ next = Again(CrcFailed(aligned, frame_len))
  <2> DEFINE d == Discard(aligned, 1)
  <2>1. next.framer = [d EXCEPT !.crc_errors = d.crc_errors + 1] /\ ~(next.frame # None)
    BY <1>7, SMTT(60), Z3T(60) DEF Again, CrcFailed
  <2>2. FramerOK(d) /\ Behind(d.buf, buf, 1)
    BY <1>2, <1>4, <1>7, DiscardFacts, Zenon
  <2>3. Behind(d.buf, f.buf, g + 1) /\ g + 1 \in Nat
    BY <1>1, <1>2, <2>2, DropTwice, SMTT(60), Z3T(60)
  <2> HIDE DEF d
  <2>4. FramerOK(next.framer) /\ next.framer.buf = d.buf
    BY <2>1, <2>2, CountedFacts, Zenon
  <2> QED
    BY <2>1, <2>3, <2>4, Zenon DEF Turned
<1>8. CASE /\ Len(buf) >= header_len(buf[1]) /\ ~(Len(buf) < frame_len)
           /\ next = [framer |-> SplitTo(aligned, frame_len), more |-> FALSE,
                      frame |-> Some(SubSeq(buf, 1, frame_len))]
  <2> DEFINE rest == SubSeq(buf, frame_len + 1, Len(buf))
             out  == SubSeq(buf, 1, frame_len)
  <2>1. frame_len \in 0..Len(buf)
    BY <1>3, <1>8, FrameLenType, SMTT(60), Z3T(60)
  <2>2. Behind(rest, buf, frame_len) /\ EndsAt(out, buf, frame_len) /\ Len(out) = frame_len
    BY <1>3, <2>1, Drop, Take, Zenon
  <2>3. Behind(rest, f.buf, g + frame_len) /\ EndsAt(out, f.buf, g + frame_len)
    BY <1>1, <1>2, <2>1, <2>2, DropTwice, TakeBehind, ZenonT(60)
  <2>4. next.framer = SplitTo(aligned, frame_len)
    BY <1>8, SMTT(60), Z3T(60)
  <2>5. next.frame[1] = out
    <3>1. next.frame = Some(out)
      BY <1>8, SMTT(60), Z3T(60)
    <3>2. Some(out)[1] = out
      BY Zenon DEF Some
    <3> QED
      BY <3>1, <3>2, Zenon, Zenon
  <2>6. g + frame_len \in Nat
    BY <1>1, <1>3, <2>1, SMTT(60), Z3T(60)
  <2>7. FramerOK(SplitTo(aligned, frame_len)) /\ SplitTo(aligned, frame_len).buf = rest
    BY <1>2, <2>2, SplitFacts, Zenon DEF Behind
  <2> HIDE DEF rest, out, aligned, frame_len, g, next
  <2>8. Turned(f, next, g + frame_len)
    BY <2>3, <2>4, <2>5, <2>7, ZenonT(60) DEF Turned
  <2> QED
    BY <2>6, <2>8, Zenon DEF next
<1>9. buf # <<>> /\ ~(Len(buf) < header_len(buf[1])) => Len(buf) >= header_len(buf[1])
  BY <1>3, SMTT(60), Z3T(60) DEF header_len, V1_HEADER_LEN, V2_HEADER_LEN
<1>10. \/ next = Incomplete(aligned)
       \/ buf # <<>> /\ next = Again(Discard(aligned, 1))
       \/ buf # <<>> /\ next = Again(CrcFailed(aligned, frame_len))
       \/ /\ Len(buf) >= header_len(buf[1]) /\ ~(Len(buf) < frame_len)
          /\ next = [framer |-> SplitTo(aligned, frame_len), more |-> FALSE,
                     frame |-> Some(SubSeq(buf, 1, frame_len))]
  BY <1>9, Zenon, Zenon DEF try_next_frame
<1> QED
  BY <1>5, <1>6, <1>7, <1>8, <1>10, ZenonT(60)

-----------------------------------------------------------------------------
(* Pieces of the stream. *)

LEMMA Slice ==
  ASSUME NEW b \in Seq(Byte), NEW t, NEW k \in 0..Len(b), EndsAt(t, b, k)
  PROVE  t = SubSeq(b, k - Len(t) + 1, k)
<1> DEFINE first == k - Len(t) + 1
           piece == SubSeq(b, first, k)
<1>1. /\ Len(b) \in Nat /\ k \in Nat /\ t \in Seq(Byte) /\ Len(t) \in Nat /\ Len(t) <= k
      /\ k <= Len(b)
  BY Seq_Len, SMTT(60), Z3T(60) DEF EndsAt
<1>2. first \in Int /\ first >= 1
  BY <1>1, SMTT(60), Z3T(60)
<1>3. \A i \in first..k : b[i] \in Byte
  BY <1>1, <1>2, Seq_Element, SMTT(60), Z3T(60)
<1>4. /\ piece \in Seq(Byte) /\ Len(piece) = IF first <= k THEN k - first + 1 ELSE 0
      /\ \A i \in 1..k - first + 1 : piece[i] = b[first + i - 1]
  BY <1>1, <1>2, <1>3, Seq_SubSeq, SMTT(60), Z3T(60)
<1>5. Len(piece) = Len(t)
  BY <1>1, <1>4, SMTT(60), Z3T(60)
<1>6. ASSUME NEW i \in 1..Len(t) PROVE t[i] = piece[i]
  <2>1. i \in 1..k - first + 1 /\ first + i - 1 = k - Len(t) + i
    BY <1>1, SMTT(60), Z3T(60)
  <2>2. piece[i] = b[k - Len(t) + i]
    BY <1>4, <2>1, Zenon
  <2> QED
    BY <2>2, Zenon DEF EndsAt
<1> HIDE DEF piece
<1>7. t = piece
  BY <1>1, <1>4, <1>5, <1>6, Seq_Equal, Zenon
<1> QED
  BY <1>7, Zenon DEF piece

\* A read puts the stream's next bytes behind those in the buffer.
LEMMA Extend ==
  ASSUME NEW b \in Seq(Byte), NEW t, NEW k \in Nat, NEW upto \in 1..Len(b), k < upto,
         EndsAt(t, b, k)
  PROVE  LET more == SubSeq(b, k + 1, upto) IN
         EndsAt(t \o more, b, upto) /\ Len(t \o more) = Len(t) + upto - k
<1> DEFINE more == SubSeq(b, k + 1, upto)
           all  == t \o more
<1>1. /\ Len(b) \in Nat /\ upto \in Nat /\ upto <= Len(b) /\ t \in Seq(Byte)
      /\ Len(t) \in Nat /\ Len(t) <= k
  BY Seq_Len, SMTT(60), Z3T(60) DEF EndsAt
<1>2. \A i \in k + 1..upto : b[i] \in Byte
  BY <1>1, Seq_Element, SMTT(60), Z3T(60)
<1>3. /\ more \in Seq(Byte) /\ Len(more) = IF k + 1 <= upto THEN upto - (k + 1) + 1 ELSE 0
      /\ \A i \in 1..upto - (k + 1) + 1 : more[i] = b[(k + 1) + i - 1]
  BY <1>1, <1>2, Seq_SubSeq, SMTT(60), Z3T(60)
<1> HIDE DEF more
<1>4. Len(more) = upto - k
  BY <1>1, <1>3, SMTT(60), Z3T(60)
<1>5. /\ all \in Seq(Byte) /\ Len(all) = Len(t) + Len(more)
      /\ \A i \in 1..Len(t) + Len(more) :
           all[i] = IF i <= Len(t) THEN t[i] ELSE more[i - Len(t)]
  BY <1>1, <1>3, Seq_Concat, ZenonT(60)
<1> HIDE DEF all
<1>6. Len(all) = Len(t) + upto - k /\ Len(all) <= upto
  BY <1>1, <1>4, <1>5, SMTT(60), Z3T(60)
<1>7. ASSUME NEW i \in 1..Len(all) PROVE all[i] = b[upto - Len(all) + i]
  <2>1. upto - Len(all) + i = k - Len(t) + i
    BY <1>1, <1>6, SMTT(60), Z3T(60)
  <2>2. CASE i <= Len(t)
    <3>1. i \in 1..Len(t) /\ all[i] = t[i]
      BY <1>1, <1>4, <1>5, <1>6, <2>2, SMTT(60), Z3T(60)
    <3> QED
      BY <2>1, <3>1, Zenon DEF EndsAt
  <2>3. CASE ~(i <= Len(t))
    <3>1. all[i] = more[i - Len(t)]
      BY <1>5, <2>3, Zenon
    <3>2. i - Len(t) \in 1..upto - (k + 1) + 1 /\ (k + 1) + (i - Len(t)) - 1 = k - Len(t) + i
      BY <1>1, <1>6, <2>3, SMTT(60), Z3T(60)
    <3> QED
      BY <1>3, <2>1, <3>1, <3>2, Zenon
  <2> QED
    BY <2>2, <2>3, Zenon
<1> QED
  BY <1>5, <1>6, <1>7, Zenon DEF EndsAt, all, more

\* A piece of the buffer, and what is left behind one, are pieces of the stream.
LEMMA WithinBuffer ==
  ASSUME NEW b, NEW buf \in Seq(Byte), NEW k \in Nat, EndsAt(buf, b, k),
         NEW n \in 0..Len(buf), NEW t, EndsAt(t, buf, n)
  PROVE  EndsAt(t, b, k - Len(buf) + n)
<1>1. /\ Len(buf) \in Nat /\ n \in Nat /\ t \in Seq(Byte) /\ Len(t) \in Nat /\ Len(t) <= n
      /\ Len(buf) <= k /\ n <= Len(buf)
  BY Seq_Len, SMTT(60), Z3T(60) DEF EndsAt
<1>2. ASSUME NEW i \in 1..Len(t) PROVE t[i] = b[k - Len(buf) + n - Len(t) + i]
  <2>1. /\ n - Len(t) + i \in 1..Len(buf)
        /\ k - Len(buf) + (n - Len(t) + i) = k - Len(buf) + n - Len(t) + i
    BY <1>1, SMTT(60), Z3T(60)
  <2>2. t[i] = buf[n - Len(t) + i]
    BY Zenon DEF EndsAt
  <2>3. buf[n - Len(t) + i] = b[k - Len(buf) + (n - Len(t) + i)]
    BY <2>1, Zenon DEF EndsAt
  <2> QED
    BY <2>1, <2>2, <2>3, Zenon
<1> QED
  BY <1>1, <1>2, SMTT(60), Z3T(60) DEF EndsAt

LEMMA BehindEnds ==
  ASSUME NEW buf \in Seq(Byte), NEW rest, NEW n, Behind(rest, buf, n)
  PROVE  EndsAt(rest, buf, Len(buf))
<1>1. Len(buf) \in Nat /\ n \in Nat /\ Len(rest) = Len(buf) - n /\ rest \in Seq(Byte)
  BY Seq_Len, SMTT(60), Z3T(60) DEF Behind
<1>2. \A i \in 1..Len(rest) : rest[i] = buf[n + i] /\ n + i = Len(buf) - Len(rest) + i
  BY <1>1, SMTT(60), Z3T(60) DEF Behind
<1> QED
  BY <1>1, <1>2, SMTT(60), Z3T(60) DEF EndsAt

-----------------------------------------------------------------------------
(* The emitted frames. *)

\* Every one is a piece of b that ends at or in front of `limit'.
Pieces(frames, b, limit) ==
  \A i \in 1..Len(frames) :
    /\ frames[i].at \in Nat /\ frames[i].at >= 1
    /\ EndsAt(frames[i].frame, b, frames[i].at + Len(frames[i].frame) - 1)
    /\ frames[i].at + Len(frames[i].frame) <= limit + 1

Disjoint(frames) ==
  \A i, j \in 1..Len(frames) : i < j => frames[i].at + Len(frames[i].frame) <= frames[j].at

Emitted(frames, b, limit) ==
  (\E S : frames \in Seq(S)) /\ Pieces(frames, b, limit) /\ Disjoint(frames)

LEMMA AppendAny ==
  ASSUME NEW s, \E S : s \in Seq(S), NEW e
  PROVE  /\ \E S : Append(s, e) \in Seq(S)
         /\ Len(s) \in Nat /\ Len(Append(s, e)) = Len(s) + 1
         /\ \A i \in 1..Len(s) : Append(s, e)[i] = s[i]
         /\ Append(s, e)[Len(s) + 1] = e
<1>1. PICK S : s \in Seq(S)
  BY Zenon
<1>2. s \in Seq(S \cup {e}) /\ e \in S \cup {e} /\ Len(s) \in Nat
  BY <1>1, Seq_Monotonic, Seq_Len, Zenon
<1> DEFINE T == S \cup {e}
<1> HIDE DEF T
<1>3. /\ Append(s, e) \in Seq(T) /\ Len(Append(s, e)) = Len(s) + 1
      /\ \A i \in 1..Len(s) : Append(s, e)[i] = s[i]
      /\ Append(s, e)[Len(s) + 1] = e
  BY <1>2, Seq_Append, SMTT(60), Z3T(60) DEF T
<1> QED
  BY <1>2, <1>3, Zenon

LEMMA NoneEmitted ==
  ASSUME NEW b, NEW limit
  PROVE  Emitted(<<>>, b, limit)
<1>1. <<>> \in Seq({}) /\ Len(<<>>) = 0
  BY Seq_Empty, Zenon
<1> QED
  BY <1>1, SMTT(60), Z3T(60) DEF Emitted, Pieces, Disjoint

LEMMA LimitGrows ==
  ASSUME NEW frames, NEW b, NEW limit \in Nat, NEW k \in Nat, Emitted(frames, b, limit)
  PROVE  Emitted(frames, b, limit + k)
<1>1. ASSUME NEW i \in 1..Len(frames)
      PROVE  frames[i].at + Len(frames[i].frame) <= limit + k + 1
  <2>1. frames[i].at \in Nat /\ Len(frames[i].frame) \in Nat
    BY Seq_Len, Zenon DEF Emitted, Pieces, EndsAt
  <2>2. frames[i].at + Len(frames[i].frame) <= limit + 1
    BY Zenon DEF Emitted, Pieces
  <2> QED
    BY <2>1, <2>2, SMTT(60), Z3T(60)
<1> QED
  BY <1>1, Zenon DEF Emitted, Pieces

LEMMA Position ==
  ASSUME NEW limit \in Nat, NEW k \in Nat, NEW n \in Nat, n <= k, NEW at, at = limit + k - n + 1
  PROVE  /\ at \in Nat /\ at >= limit + 1 /\ at >= 1
         /\ at + n - 1 = limit + k /\ at + n <= limit + k + 1
         /\ \A x \in Nat : x <= limit + 1 => x <= at
BY SMTT(60), Z3T(60)

\* A frame that starts behind the limit and ends at the new one.
LEMMA OneMore ==
  ASSUME NEW frames, NEW b, NEW limit \in Nat, NEW k \in Nat, Emitted(frames, b, limit),
         NEW e, EndsAt(e.frame, b, limit + k), Len(e.frame) <= k,
         e.at = limit + k - Len(e.frame) + 1
  PROVE  Emitted(Append(frames, e), b, limit + k)
<1> DEFINE more == Append(frames, e)
           n    == Len(frames)
<1>1. /\ \E S : more \in Seq(S)
      /\ n \in Nat /\ Len(more) = n + 1
      /\ \A i \in 1..n : more[i] = frames[i]
      /\ more[n + 1] = e
  BY AppendAny, Zenon DEF Emitted
<1>2. Emitted(frames, b, limit + k)
  BY LimitGrows, Zenon
<1>3. /\ Len(e.frame) \in Nat /\ e.at \in Nat /\ e.at >= limit + 1 /\ e.at >= 1
      /\ e.at + Len(e.frame) - 1 = limit + k /\ e.at + Len(e.frame) <= limit + k + 1
      /\ \A x \in Nat : x <= limit + 1 => x <= e.at
  <2>1. e.frame \in Seq(Byte)
    BY Zenon DEF EndsAt
  <2>2. Len(e.frame) \in Nat
    BY <2>1, Seq_Len, Zenon
  <2> DEFINE len == Len(e.frame)
             at  == e.at
  <2>3. len \in Nat /\ len <= k /\ at = limit + k - len + 1
    BY <2>2, ZenonT(60)
  <2> HIDE DEF len, at
  <2>4. /\ at \in Nat /\ at >= limit + 1 /\ at >= 1
        /\ at + len - 1 = limit + k /\ at + len <= limit + k + 1
        /\ \A x \in Nat : x <= limit + 1 => x <= at
    BY <2>3, Position, SMTT(60), Z3T(60)
  <2> QED
    BY <2>2, <2>4, ZenonT(60) DEF len, at
<1>0. n \in Nat /\ Len(more) = n + 1
  BY <1>1, Zenon
<1> HIDE DEF more, n
<1>4. Pieces(more, b, limit + k)
  <2> SUFFICES ASSUME NEW i \in 1..n + 1
               PROVE  /\ more[i].at \in Nat /\ more[i].at >= 1
                      /\ EndsAt(more[i].frame, b, more[i].at + Len(more[i].frame) - 1)
                      /\ more[i].at + Len(more[i].frame) <= limit + k + 1
    BY <1>0, Zenon DEF Pieces
  <2>1. CASE i = n + 1
    BY <1>1, <1>3, <2>1, ZenonT(60)
  <2>2. CASE i # n + 1
    <3>1. i \in 1..n /\ more[i] = frames[i]
      BY <1>1, <2>2, SMTT(60), Z3T(60)
    <3> QED
      BY <1>2, <3>1, ZenonT(60) DEF Emitted, Pieces, n
  <2> QED
    BY <2>1, <2>2, ZenonT(60)
<1>5. Disjoint(more)
  <2> SUFFICES ASSUME NEW i \in 1..n + 1, NEW j \in 1..n + 1, i < j
               PROVE  more[i].at + Len(more[i].frame) <= more[j].at
    BY <1>0, Zenon DEF Disjoint
  <2>1. i \in 1..n /\ more[i] = frames[i]
    <3>1. i \in 1..n
      BY <1>0, SMTT(60), Z3T(60)
    <3> QED
      BY <1>1, <3>1, Zenon
  <2>2. CASE j = n + 1
    <3>1. /\ frames[i].at + Len(frames[i].frame) <= limit + 1
          /\ frames[i].at \in Nat /\ frames[i].frame \in Seq(Byte)
      BY <2>1, ZenonT(60) DEF Emitted, Pieces, EndsAt, n
    <3>2. frames[i].at + Len(frames[i].frame) \in Nat
      BY <3>1, Seq_Len, SMTT(60), Z3T(60)
    <3>3. frames[i].at + Len(frames[i].frame) <= e.at
      BY <1>3, <3>1, <3>2, Zenon
    <3> QED
      BY <1>1, <2>1, <2>2, <3>3, ZenonT(60)
  <2>3. CASE j # n + 1
    <3>1. j \in 1..n /\ more[j] = frames[j]
      BY <1>1, <2>3, SMTT(60), Z3T(60)
    <3> QED
      BY <2>1, <3>1, Zenon DEF Emitted, Disjoint, n
  <2> QED
    BY <2>2, <2>3, Zenon
<1> QED
  BY <1>1, <1>4, <1>5, ZenonT(60) DEF Emitted, more

-----------------------------------------------------------------------------
(* The inductive invariant. *)

Fed == fed[session]

Reading ==
  /\ plan \in Plans /\ session \in 1..Len(plan)
  /\ fed \in Seq(Nat) /\ Len(fed) = session /\ Fed <= Len(stream.bytes)

Buffered ==
  /\ FramerOK(framer) /\ EndsAt(framer.buf, stream.bytes, Fed)
  /\ Emitted(emitted, stream.bytes, Fed - Len(framer.buf))

Inv == Reading /\ Buffered

LEMMA StreamFacts ==
  ASSUME Reading
  PROVE  /\ stream.bytes \in Seq(Byte) /\ stream.cuts \subseteq 1..Len(stream.bytes)
         /\ Len(stream.bytes) \in Nat /\ Fed \in 0..Len(stream.bytes)
         /\ Len(plan) \in Nat /\ session \in Nat
<1>1. plan \in Plans /\ session \in 1..Len(plan) /\ Len(plan) \in Nat
  BY PlansAssumption, ZenonT(60) DEF Reading
<1>2. stream.bytes \in Seq(Byte) /\ stream.cuts \subseteq 1..Len(stream.bytes)
  BY <1>1, PlansAssumption, ZenonT(60) DEF stream, Byte
<1>3. Len(stream.bytes) \in Nat
  BY <1>2, Seq_Len, ZenonT(60)
<1>4. Fed \in Nat
  BY <1>1, Seq_Element, SMTT(60), Z3T(60) DEF Reading, Fed
<1>5. Fed <= Len(stream.bytes)
  BY Zenon DEF Reading
<1> HIDE DEF Fed
<1> QED
  BY <1>1, <1>2, <1>3, <1>4, <1>5, SMTT(60), Z3T(60)

LEMMA NewFramerFacts ==
  /\ FramerOK(NewFramer) /\ NewFramer.buf = <<>> /\ Len(NewFramer.buf) = 0
  /\ \A b : EndsAt(NewFramer.buf, b, 0)
<1>1. <<>> \in Seq(Byte) /\ Len(<<>>) = 0
  BY Seq_Empty, Zenon
<1> QED
  BY <1>1, SMTT(60), Z3T(60) DEF FramerOK, NewFramer, EndsAt

LEMMA InitInv == Init => Inv
<1> SUFFICES ASSUME Init PROVE Inv
  BY Zenon
<1>1. plan \in Plans /\ Len(plan) \in Nat \ {0} /\ session = 1
  BY PlansAssumption, ZenonT(60) DEF Init
<1>2. session \in 1..Len(plan)
  BY <1>1, SMTT(60), Z3T(60)
<1>3. fed \in Seq(Nat) /\ Len(fed) = session /\ Fed = 0
  BY <1>1, SMTT(60), Z3T(60) DEF Init, Fed
<1>4. stream.bytes \in Seq(Byte)
  BY <1>1, <1>2, PlansAssumption, ZenonT(60) DEF stream, Byte
<1>5. Fed <= Len(stream.bytes)
  BY <1>3, <1>4, Seq_Len, SMTT(60), Z3T(60)
<1>6. Reading
  BY <1>1, <1>2, <1>3, <1>5, ZenonT(60) DEF Reading
<1>7. framer = NewFramer /\ emitted = <<>>
  BY Zenon DEF Init
<1>8. Buffered
  BY <1>3, <1>7, NewFramerFacts, NoneEmitted, ZenonT(60) DEF Buffered
<1> QED
  BY <1>6, <1>8, Zenon DEF Inv

LEMMA ReadInv ==
  ASSUME Inv, Read
  PROVE  Inv'
<1> DEFINE buf == framer.buf
           b   == stream.bytes
<1>1. /\ b \in Seq(Byte) /\ stream.cuts \subseteq 1..Len(b) /\ Len(b) \in Nat /\ Fed \in 0..Len(b)
      /\ session \in Nat
  BY StreamFacts, Zenon DEF Inv
<1>2. PICK upto \in stream.cuts :
        /\ upto > fed[session]
        /\ framer' = [framer EXCEPT !.buf = buf \o SubSeq(b, fed[session] + 1, upto)]
        /\ fed' = [fed EXCEPT ![session] = upto]
  BY Zenon DEF Read
<1>3. plan' = plan /\ session' = session /\ emitted' = emitted /\ stream' = stream
  BY ZenonT(60) DEF Read, stream
<1>4. upto \in 1..Len(b) /\ upto \in Nat /\ Fed < upto /\ Fed \in Nat
  BY <1>1, <1>2, SMTT(60), Z3T(60) DEF Fed
<1>5. /\ buf \in Seq(Byte) /\ EndsAt(buf, b, Fed) /\ FramerOK(framer)
      /\ Len(buf) \in Nat /\ Len(buf) <= Fed
  BY Seq_Len, Zenon DEF Inv, Buffered, EndsAt
<1> DEFINE all == buf \o SubSeq(b, Fed + 1, upto)
<1>6. EndsAt(all, b, upto) /\ Len(all) = Len(buf) + upto - Fed
  BY <1>1, <1>4, <1>5, Extend, ZenonT(60)
<1>7. framer' = [framer EXCEPT !.buf = all] /\ all \in Seq(Byte)
  BY <1>2, <1>6, Zenon DEF Fed, EndsAt
<1>8. /\ fed' \in Seq(Nat) /\ Len(fed') = session /\ Fed' = upto
  <2>1. fed \in Seq(Nat) /\ Len(fed) = session /\ session \in 1..Len(fed)
    BY SMTT(60), Z3T(60) DEF Inv, Reading
  <2> QED
    BY <1>2, <1>3, <1>4, <2>1, Seq_Except, SMTT(60), Z3T(60) DEF Fed
<1>9. Reading'
  <2>1. upto <= Len(b)
    BY <1>1, <1>4, SMTT(60), Z3T(60)
  <2> QED
    BY <1>3, <1>8, <2>1, ZenonT(60) DEF Inv, Reading
<1> HIDE DEF all
<1>10. FramerOK(framer') /\ framer'.buf = all
  BY <1>5, <1>7, ZenonT(60) DEF FramerOK
<1>11. upto - Len(all) = Fed - Len(buf)
  BY <1>4, <1>5, <1>6, SMTT(60), Z3T(60)
<1>12. Emitted(emitted', b, upto - Len(all))
  BY <1>3, <1>11, ZenonT(60) DEF Inv, Buffered
<1>13. Buffered'
  BY <1>3, <1>6, <1>8, <1>10, <1>12, ZenonT(60) DEF Buffered, FramerOK
<1> QED
  BY <1>9, <1>13, ZenonT(60) DEF Inv

LEMMA ScanInv ==
  ASSUME Inv, Scan
  PROVE  Inv'
<1> DEFINE buf  == framer.buf
           b    == stream.bytes
           next == try_next_frame(framer)
           rest == next.framer.buf
           out  == next.frame[1]
           limit == Fed - Len(buf)
<1>1. b \in Seq(Byte) /\ Len(b) \in Nat /\ Fed \in 0..Len(b) /\ Fed \in Nat
  BY StreamFacts, SMTT(60), Z3T(60) DEF Inv
<1>2. /\ buf \in Seq(Byte) /\ EndsAt(buf, b, Fed) /\ FramerOK(framer)
      /\ Len(buf) \in Nat /\ Len(buf) <= Fed
  BY Seq_Len, Zenon DEF Inv, Buffered, EndsAt
<1>3. PICK k \in Nat : Turned(framer, next, k)
  BY <1>2, TurnFacts, ZenonT(60)
<1>4. FramerOK(next.framer) /\ Behind(rest, buf, k)
  BY <1>3, Zenon DEF Turned
<1>5. /\ framer' = next.framer /\ plan' = plan /\ session' = session /\ fed' = fed
  BY Zenon DEF Scan
<1>6. stream' = stream /\ Fed' = Fed
  BY <1>5, Zenon DEF stream, Fed
<1>7. Reading'
  BY <1>5, <1>6, ZenonT(60) DEF Inv, Reading
<1>8. rest \in Seq(Byte) /\ k \in 0..Len(buf) /\ Len(rest) = Len(buf) - k
  BY <1>4, Zenon DEF Behind
<1>9. Len(rest) \in Nat
  BY <1>8, Seq_Len, ZenonT(60)
<1>10. limit \in Nat /\ Fed - Len(rest) = limit + k
  BY <1>1, <1>2, <1>8, SMTT(60), Z3T(60)
<1>11. EndsAt(rest, b, Fed)
  <2>1. EndsAt(rest, buf, Len(buf))
    BY <1>2, <1>4, BehindEnds, ZenonT(60)
  <2>2. EndsAt(rest, b, Fed - Len(buf) + Len(buf))
    <3>1. Len(buf) \in 0..Len(buf)
      BY <1>2, SMTT(60), Z3T(60)
    <3> HIDE DEF buf, b, rest
    <3> QED
      BY <1>1, <1>2, <2>1, <3>1, WithinBuffer, ZenonT(60)
  <2>3. Fed - Len(buf) + Len(buf) = Fed
    BY <1>1, <1>2, SMTT(60), Z3T(60)
  <2> QED
    BY <2>2, <2>3, ZenonT(60)
<1>12. Emitted(emitted, b, limit)
  BY Zenon DEF Inv, Buffered
<1>13. Emitted(emitted', b, limit + k)
  <2>1. CASE next.frame = None
    <3>1. emitted' = emitted
      BY <2>1, Zenon DEF Scan
    <3> QED
      BY <1>3, <1>10, <1>12, <3>1, LimitGrows, ZenonT(60)
  <2>2. CASE next.frame # None
    <3> DEFINE e == [at |-> Fed - Len(rest) - Len(out) + 1, frame |-> out,
                     header |-> parse_header(out),
                     targets |-> extract_targets(out, parse_header(out))]
    <3>1. emitted' = Append(emitted, e)
      BY <2>2, ZenonT(60), Zenon DEF Scan, Fed
    <3>2. EndsAt(out, buf, k)
      BY <1>3, <2>2, ZenonT(60) DEF Turned
    <3>3. Len(out) \in Nat /\ Len(out) <= k
      BY <3>2, Seq_Len, ZenonT(60) DEF EndsAt
    <3>4. EndsAt(out, b, limit + k)
      BY <1>1, <1>2, <1>8, <3>2, WithinBuffer, ZenonT(60)
    <3>5. e.frame = out /\ e.at = Fed - Len(rest) - Len(out) + 1
      BY Zenon
    <3> HIDE DEF e, out, limit, rest, next
    <3>6. e.at = limit + k - Len(e.frame) + 1 /\ Len(e.frame) <= k
      BY <1>10, <3>3, <3>5, SMTT(60), Z3T(60)
    <3> QED
      BY <1>3, <1>10, <1>12, <3>1, <3>4, <3>5, <3>6, OneMore, ZenonT(60)
  <2> QED
    BY <2>1, <2>2, ZenonT(60)
<1>14. Emitted(emitted', b, Fed - Len(rest))
  BY <1>10, <1>13, ZenonT(60)
<1>15. Buffered'
  BY <1>4, <1>5, <1>6, <1>11, <1>14, ZenonT(60) DEF Buffered, FramerOK
<1> QED
  BY <1>7, <1>15, ZenonT(60) DEF Inv

LEMMA RunSessionInv ==
  ASSUME Inv, RunSession
  PROVE  Inv'
<1>1. /\ plan' = plan /\ session' = session + 1 /\ fed' = Append(fed, 0)
      /\ framer' = NewFramer /\ emitted' = <<>> /\ session < Len(plan)
  BY Zenon DEF RunSession
<1>2. plan' \in Plans /\ Len(plan) \in Nat /\ session \in Nat /\ fed \in Seq(Nat)
      /\ Len(fed) = session
  <2>1. Len(plan) \in Nat /\ session \in Nat
    BY StreamFacts, ZenonT(60) DEF Inv
  <2> QED
    BY <1>1, <2>1, ZenonT(60) DEF Inv, Reading
<1>3. session' \in 1..Len(plan')
  BY <1>1, <1>2, SMTT(60), Z3T(60)
<1>4. fed' \in Seq(Nat) /\ Len(fed') = session' /\ Fed' = 0
  BY <1>1, <1>2, Seq_Append, SMTT(60), Z3T(60) DEF Fed
<1>5. (stream')["bytes"] \in Seq(Byte)
  BY <1>2, <1>3, PlansAssumption, ZenonT(60) DEF stream, Byte
<1>6. Fed' <= Len((stream')["bytes"])
  BY <1>4, <1>5, Seq_Len, SMTT(60), Z3T(60)
<1>7. Reading'
  BY <1>2, <1>3, <1>4, <1>6, ZenonT(60) DEF Reading
<1>8. Buffered'
  BY <1>1, <1>4, NewFramerFacts, NoneEmitted, ZenonT(60) DEF Buffered
<1> QED
  BY <1>7, <1>8, ZenonT(60) DEF Inv

LEMMA NextInv == Inv /\ [Next]_vars => Inv'
<1> SUFFICES ASSUME Inv, [Next]_vars PROVE Inv'
  BY Zenon
<1>1. CASE Send \/ Disconnect \/ Cancelled \/ UNCHANGED vars
  <2>1. UNCHANGED <<plan, session, fed, framer, emitted>>
    BY <1>1, Zenon DEF Send, Disconnect, Cancelled, vars
  <2> QED
    BY <2>1, Zenon DEF Inv, Reading, Buffered, Fed, stream
<1> QED
  BY <1>1, ReadInv, ScanInv, RunSessionInv, ZenonT(60) DEF Next

LEMMA InvSlices == Inv => FramesAreSlices
<1> SUFFICES ASSUME Inv PROVE FramesAreSlices
  BY Zenon
<1> DEFINE buf   == framer.buf
           b     == stream.bytes
           limit == Fed - Len(buf)
<1>1. b \in Seq(Byte) /\ Len(b) \in Nat /\ Fed \in 0..Len(b) /\ Fed \in Nat
  BY StreamFacts, SMTT(60), Z3T(60) DEF Inv
<1>2. EndsAt(buf, b, Fed) /\ Len(buf) \in Nat /\ Len(buf) <= Fed /\ limit \in Nat
  <2>1. EndsAt(buf, b, Fed) /\ buf \in Seq(Byte) /\ Len(buf) <= Fed
    BY Zenon DEF Inv, Buffered, EndsAt
  <2>2. Len(buf) \in Nat
    BY <2>1, Seq_Len, Zenon
  <2> QED
    BY <1>1, <2>1, <2>2, SMTT(60), Z3T(60)
<1>3. buf = SubSeq(b, limit + 1, Fed)
  BY <1>1, <1>2, Slice, Zenon
<1>4. Pieces(emitted, b, limit) /\ Disjoint(emitted)
  BY Zenon DEF Inv, Buffered, Emitted
<1>5. ASSUME NEW i \in 1..Len(emitted)
      PROVE  /\ emitted[i].at >= 1
             /\ emitted[i].at + Len(emitted[i].frame) <= limit + 1
             /\ emitted[i].frame
                  = SubSeq(b, emitted[i].at, emitted[i].at + Len(emitted[i].frame) - 1)
  <2> DEFINE at    == emitted[i].at
             frame == emitted[i].frame
             end   == at + Len(frame) - 1
  <2>1. at \in Nat /\ at >= 1 /\ EndsAt(frame, b, end) /\ at + Len(frame) <= limit + 1
    BY <1>4, Zenon DEF Pieces
  <2>2. Len(frame) \in Nat
    BY <2>1, Seq_Len, Zenon DEF EndsAt
  <2> HIDE DEF at, frame
  <2>3. limit + 1 <= Len(b) + 1
    <3> HIDE DEF b, buf
    <3>1. Fed <= Len(b) /\ Len(b) \in Nat /\ Fed \in Nat
      BY <1>1, SMTT(60), Z3T(60)
    <3>2. Len(buf) \in Nat
      BY <1>2, Zenon
    <3> QED
      BY <3>1, <3>2, SMTT(60), Z3T(60)
  <2> HIDE DEF limit, b
  <2>4. end \in 0..Len(b) /\ end - Len(frame) + 1 = at
    <3>1. at + Len(frame) <= limit + 1 /\ at >= 1 /\ at \in Nat
      BY <2>1, Zenon
    <3> QED
      BY <1>1, <1>2, <2>2, <2>3, <3>1, SMTT(60), Z3T(60)
  <2>5. frame = SubSeq(b, end - Len(frame) + 1, end)
    BY <1>1, <2>1, <2>4, Slice, ZenonT(60)
  <2> QED
    BY <2>1, <2>4, <2>5, Zenon DEF at, frame, limit, b
<1> QED
  BY <1>3, <1>4, <1>5, ZenonT(60) DEF FramesAreSlices, Disjoint, Fed

\* Whatever the bytes, the reads, the checksum, the table and the filter: the
\* frames forward_inbound_frames is given are disjoint pieces of the stream,
\* in its order, and the framer's buffer is the bytes behind the last of them.
THEOREM FramesAreSlicesHolds == Spec => []FramesAreSlices
<1>1. Spec => []Inv
  BY InitInv, NextInv, PTL DEF Spec
<1> QED
  BY <1>1, InvSlices, PTL

-----------------------------------------------------------------------------
(* On the way out. *)

Frame == [n : Nat, link : Nat]

TypeOK ==
  /\ queue \in Seq(Frame) /\ writing \in Seq(Frame)
  /\ dropped_tx \in Nat /\ tx_frames \in Nat /\ lost \in Nat /\ drained \in Nat
  /\ pushed \in Nat /\ links \in Nat /\ last \in Nat
  /\ push \in {"idle", "evicted", "notify"}
  /\ then \in {"ready", "ended"}

\* What the task holds outside the queue, position by position.
Held ==
  /\ IF task = "write" THEN Len(writing) = 1 ELSE writing = <<>>
  /\ task # "drain" => drained = 0

\* The numbers in queue q grow, from above lo to at most hi.
Sorted(q, lo, hi) ==
  /\ \A i \in 1..Len(q) : lo < q[i].n /\ q[i].n <= hi
  /\ \A i, j \in 1..Len(q) : i < j => q[i].n < q[j].n

\* Frames of the current link only.
Current(q) == \A i \in 1..Len(q) : q[i].link = links

Fresh ==
  /\ task = "write" => writing[1].link = links
  /\ InSession \/ task = "ready" => Current(queue)

LinkInv == TypeOK /\ Held /\ FramesAccounted /\ last <= pushed /\ Sorted(queue, last, pushed) /\ Fresh

-----------------------------------------------------------------------------
LEMMA AppendFacts ==
  ASSUME NEW q \in Seq(Frame), NEW f \in Frame
  PROVE  /\ Append(q, f) \in Seq(Frame)
         /\ Len(Append(q, f)) = Len(q) + 1
         /\ \A i \in 1..Len(q) : Append(q, f)[i] = q[i]
         /\ Append(q, f)[Len(q) + 1] = f
  BY SMTT(60), Z3T(60)

LEMMA TailFacts ==
  ASSUME NEW q \in Seq(Frame), q # <<>>
  PROVE  /\ Len(q) \in Nat /\ Len(q) > 0
         /\ Head(q) = q[1] /\ Head(q) \in Frame
         /\ Tail(q) \in Seq(Frame)
         /\ Len(Tail(q)) = Len(q) - 1
         /\ \A i \in 1..Len(Tail(q)) : Tail(q)[i] = q[i + 1]
  BY Seq_HeadTail, Seq_Empty, Seq_Len, SMTT(60), Z3T(60)

LEMMA FrameFields ==
  ASSUME NEW f \in Frame
  PROVE  f.n \in Nat /\ f.link \in Nat
  BY Zenon DEF Frame

\* What force_push puts at the end keeps the order.
LEMMA SortedAppend ==
  ASSUME NEW q \in Seq(Frame), NEW lo \in Nat, NEW hi \in Nat, lo <= hi, Sorted(q, lo, hi),
         NEW k \in Nat
  PROVE  Sorted(Append(q, [n |-> hi + 1, link |-> k]), lo, hi + 1)
<1> DEFINE f == [n |-> hi + 1, link |-> k]
           r == Append(q, f)
<1>1. f \in Frame /\ f.n = hi + 1
  BY SMTT(60), Z3T(60) DEF Frame
<1>2. /\ Len(q) \in Nat /\ Len(r) = Len(q) + 1
      /\ \A i \in 1..Len(q) : r[i] = q[i] /\ q[i].n \in Nat
      /\ r[Len(q) + 1] = f
  BY <1>1, AppendFacts, Seq_Len, FrameFields, SMTT(60), Z3T(60)
<1>3. \A i \in 1..Len(q) : r[i].n = q[i].n /\ lo < r[i].n /\ r[i].n <= hi
  BY <1>2, ZenonT(60) DEF Sorted
<1>4. \A i \in 1..Len(r) : i \in 1..Len(q) \/ i = Len(q) + 1
  BY <1>2, SMTT(60), Z3T(60)
<1>5. \A i \in 1..Len(r) : lo < r[i].n /\ r[i].n <= hi + 1
  BY <1>1, <1>2, <1>3, <1>4, SMTT(60), Z3T(60)
<1>6. \A i, j \in 1..Len(r) : i < j => r[i].n < r[j].n
  BY <1>1, <1>2, <1>3, <1>4, SMTT(60), Z3T(60) DEF Sorted
<1> QED
  BY <1>5, <1>6, ZenonT(60) DEF Sorted

\* What pop leaves behind is in order and lies behind what it takes.
LEMMA SortedTail ==
  ASSUME NEW q \in Seq(Frame), q # <<>>, NEW lo \in Nat, NEW hi \in Nat, Sorted(q, lo, hi)
  PROVE  /\ Sorted(Tail(q), lo, hi) /\ Sorted(Tail(q), Head(q).n, hi)
         /\ Head(q).n \in Nat /\ Head(q).n <= hi
<1>1. /\ Len(q) \in Nat /\ Len(q) > 0 /\ Head(q) = q[1] /\ Len(Tail(q)) = Len(q) - 1
      /\ \A i \in 1..Len(Tail(q)) : i + 1 \in 1..Len(q) /\ Tail(q)[i] = q[i + 1]
      /\ 1 \in 1..Len(q)
      /\ \A i \in 1..Len(q) : q[i].n \in Nat
  BY TailFacts, Seq_Len, FrameFields, SMTT(60), Z3T(60)
<1> QED
  BY <1>1, SMTT(60), Z3T(60) DEF Sorted

-----------------------------------------------------------------------------
LEMMA LinkInitInv ==
  LinkInit => LinkInv
<1> SUFFICES ASSUME LinkInit PROVE LinkInv
  BY Zenon
<1>1. Len(<<>>) = 0 /\ <<>> \in Seq(Frame)
  BY Seq_Empty, Zenon
<1>2. TypeOK /\ Held /\ Fresh /\ last <= pushed
  BY <1>1, SMTT(60), Z3T(60) DEF LinkInit, TypeOK, Held, Fresh, InSession
<1>3. Sorted(queue, last, pushed) /\ FramesAccounted
  BY <1>1, SMTT(60), Z3T(60) DEF LinkInit, Sorted, FramesAccounted
<1> QED
  BY <1>2, <1>3, Zenon DEF LinkInv

\* A frame joins the queue; a full queue loses its first one, and push says so.
LEMMA ForcePushInv ==
  ASSUME LinkInv, ForcePush
  PROVE  LinkInv'
<1> DEFINE f == [n |-> pushed + 1, link |-> links]
<1>1. TypeOK /\ f \in Frame /\ Len(queue) \in Nat /\ last <= pushed + 1
  BY Seq_Len, SMTT(60), Z3T(60) DEF LinkInv, TypeOK, Frame
<1>2. PICK q \in Seq(Frame) :
         /\ queue' = Append(q, f)
         /\ Sorted(q, last, pushed)
         /\ Current(queue) => Current(q)
         /\ Len(q) + (IF push' = "evicted" THEN 1 ELSE 0) = Len(queue)
         /\ push' \in {"evicted", "notify"}
  <2>1. CASE Len(queue) < TX_QUEUE_FRAMES
    BY <1>1, <2>1, SMTT(60), Z3T(60) DEF ForcePush, LinkInv, TypeOK
  <2>2. CASE ~(Len(queue) < TX_QUEUE_FRAMES)
    <3>1. queue # <<>>
      BY <2>2, Seq_Empty, LinkAssumption, SMTT(60), Z3T(60)
    <3>2. Current(queue) => Current(Tail(queue))
      BY <1>1, <3>1, TailFacts, SMTT(60), Z3T(60) DEF TypeOK, Current
    <3>3. queue' = Append(Tail(queue), f) /\ push' = "evicted"
      BY <2>2, ZenonT(60) DEF ForcePush
    <3>4. /\ Tail(queue) \in Seq(Frame) /\ Len(Tail(queue)) + 1 = Len(queue)
          /\ Sorted(Tail(queue), last, pushed)
      BY <1>1, <3>1, TailFacts, SortedTail, SMTT(60), Z3T(60) DEF LinkInv, TypeOK
    <3> QED
      BY <3>2, <3>3, <3>4, ZenonT(60)
  <2> QED
    BY <2>1, <2>2, ZenonT(60)
<1>3. queue' \in Seq(Frame) /\ Len(queue') = Len(q) + 1 /\ Len(q) \in Nat
  BY <1>1, <1>2, AppendFacts, Seq_Len, ZenonT(60)
<1>4. Sorted(queue, last, pushed)'
  <2>1. Sorted(Append(q, f), last, pushed + 1)
    BY <1>1, <1>2, SortedAppend, ZenonT(60) DEF LinkInv, TypeOK
  <2> QED
    BY <1>2, <2>1, ZenonT(60) DEF ForcePush, writeVars
<1>5. Current(q) => Current(queue)'
  <2>1. links' = links
    BY Zenon DEF ForcePush, dialVars
  <2>2. f.link = links /\ \A i \in 1..Len(queue') : i \in 1..Len(q) \/ i = Len(q) + 1
    BY <1>3, SMTT(60), Z3T(60)
  <2> QED
    BY <1>1, <1>2, <2>1, <2>2, AppendFacts, SMTT(60), Z3T(60) DEF Current
<1>6. (TypeOK /\ Held /\ last <= pushed)'
  BY <1>1, <1>2, <1>3, SMTT(60), Z3T(60) DEF LinkInv, TypeOK, Held, ForcePush, dialVars, writeVars
<1>7. Fresh'
  BY <1>2, <1>5, ZenonT(60) DEF LinkInv, Fresh, InSession, ForcePush, dialVars, writeVars
<1>8. FramesAccounted'
  <2>1. Len(writing) \in Nat /\ push = "idle" /\ push' \in {"evicted", "notify"}
    BY <1>1, <1>2, Seq_Len, ZenonT(60) DEF TypeOK, ForcePush
  <2>2. pushed' = pushed + 1 /\ UNCHANGED <<tx_frames, dropped_tx, lost, writing, drained>>
    BY Zenon DEF ForcePush, writeVars
  <2> QED
    BY <1>1, <1>2, <1>3, <2>1, <2>2, SMTT(60), Z3T(60) DEF LinkInv, TypeOK, FramesAccounted
<1> QED
  BY <1>4, <1>6, <1>7, <1>8, ZenonT(60) DEF LinkInv

\* A frame leaves the queue, for the wire or with the drain.
LEMMA PopInv ==
  ASSUME LinkInv, Pop \/ drain_and_discard_Pop
  PROVE  LinkInv'
<1>1. TypeOK /\ queue \in Seq(Frame) /\ Len(queue) \in Nat /\ Len(writing) \in Nat
  BY Seq_Len, Zenon DEF LinkInv, TypeOK
<1>2. CASE Pop /\ queue = <<>>
  <2>1. /\ task = "pop" /\ task' = "empty"
        /\ UNCHANGED <<queue, writing, last, dropped_tx, push, pushed, links, tx_frames, lost, drained,
                      then>>
    BY <1>2, Zenon DEF Pop, pushVars, dialVars
  <2>2. (TypeOK /\ Held /\ FramesAccounted)'
    BY <2>1, Zenon DEF LinkInv, TypeOK, Held, FramesAccounted
  <2>3. (last <= pushed /\ Sorted(queue, last, pushed) /\ Fresh)'
    BY <2>1, Zenon DEF LinkInv, Sorted, Fresh, InSession, Current
  <2> QED
    BY <2>2, <2>3, ZenonT(60) DEF LinkInv
<1>3. CASE Pop /\ queue # <<>>
  <2>1. /\ task = "pop" /\ task' = "write" /\ writing' = <<Head(queue)>> /\ queue' = Tail(queue)
        /\ last' = Head(queue).n
        /\ UNCHANGED <<dropped_tx, push, pushed, links, tx_frames, lost, drained, then>>
    BY <1>3, ZenonT(60) DEF Pop, pushVars, dialVars
  <2>2. /\ Tail(queue) \in Seq(Frame) /\ Len(Tail(queue)) = Len(queue) - 1
        /\ Head(queue) = queue[1] /\ Head(queue) \in Frame /\ 1 \in 1..Len(queue)
        /\ \A i \in 1..Len(Tail(queue)) : i + 1 \in 1..Len(queue) /\ Tail(queue)[i] = queue[i + 1]
    BY <1>1, <1>3, TailFacts, SMTT(60), Z3T(60)
  <2>3. /\ Sorted(Tail(queue), Head(queue).n, pushed)
        /\ Head(queue).n \in Nat /\ Head(queue).n <= pushed
    BY <1>1, <1>3, SortedTail, ZenonT(60) DEF LinkInv, TypeOK
  <2>4. (last <= pushed /\ Sorted(queue, last, pushed))'
    BY <2>1, <2>3, ZenonT(60)
  <2>5. writing' \in Seq(Frame) /\ Len(writing') = 1 /\ writing'[1] = Head(queue)
    BY <2>1, <2>2, SMTT(60), Z3T(60)
  <2>6. (TypeOK /\ Held)'
    BY <2>1, <2>2, <2>3, <2>5, ZenonT(60) DEF LinkInv, TypeOK, Held
  <2>7. Fresh'
    BY <2>1, <2>2, <2>5, ZenonT(60) DEF LinkInv, Fresh, InSession, Current
  <2>8. FramesAccounted'
    <3>1. Len(writing) = 0
      BY <2>1, Seq_Empty, ZenonT(60) DEF LinkInv, Held
    <3> QED
      BY <1>1, <2>1, <2>2, <2>5, <3>1, SMTT(60), Z3T(60) DEF LinkInv, TypeOK, FramesAccounted
  <2> QED
    BY <2>4, <2>6, <2>7, <2>8, ZenonT(60) DEF LinkInv
<1>4. CASE drain_and_discard_Pop
  <2>1. /\ task = "drain" /\ task' = "drain" /\ queue # <<>> /\ queue' = Tail(queue)
        /\ drained' = drained + 1
        /\ UNCHANGED <<writing, last, dropped_tx, push, pushed, links, tx_frames, lost, then>>
    BY <1>4, ZenonT(60) DEF drain_and_discard_Pop, pushVars, dialVars, writeVars
  <2>2. Tail(queue) \in Seq(Frame) /\ Len(Tail(queue)) = Len(queue) - 1
    BY <1>1, <2>1, TailFacts, ZenonT(60)
  <2>3. Sorted(Tail(queue), last, pushed)
    BY <1>1, <2>1, SortedTail, ZenonT(60) DEF LinkInv, TypeOK
  <2>4. (TypeOK /\ Held /\ Fresh)'
    BY <2>1, <2>2, SMTT(60), Z3T(60) DEF LinkInv, TypeOK, Held, Fresh, InSession
  <2>5. FramesAccounted'
    BY <1>1, <2>1, <2>2, SMTT(60), Z3T(60) DEF LinkInv, TypeOK, FramesAccounted
  <2> QED
    BY <2>1, <2>3, <2>4, <2>5, ZenonT(60) DEF LinkInv
<1> QED
  BY <1>2, <1>3, <1>4, ZenonT(60)

\* The counters that move when nothing enters or leaves the queue.
LEMMA CountInv ==
  ASSUME LinkInv, CountEvicted \/ NotifyOne \/ drain_and_discard \/ write_outbound_frame
  PROVE  LinkInv'
<1>1. TypeOK /\ Len(queue) \in Nat /\ Len(writing) \in Nat /\ Len(<<>>) = 0 /\ <<>> \in Seq(Frame)
  BY Seq_Len, Seq_Empty, Zenon DEF LinkInv, TypeOK
<1>2. UNCHANGED <<queue, last, pushed, links, then>>
  BY Zenon
     DEF CountEvicted, NotifyOne, drain_and_discard, write_outbound_frame, queueVars, pushVars,
         dialVars, writeVars
<1>3. (last <= pushed /\ Sorted(queue, last, pushed))'
  BY <1>2, Zenon DEF LinkInv
<1>4. CASE CountEvicted \/ NotifyOne
  <2>1. /\ UNCHANGED <<writing, drained, task, tx_frames, lost>>
        /\ push \in {"evicted", "notify"} /\ push' \in {"idle", "notify"}
        /\ dropped_tx' = dropped_tx + (IF push = "evicted" THEN 1 ELSE 0)
    BY <1>1, <1>4, SMTT(60), Z3T(60) DEF CountEvicted, NotifyOne, writeVars, TypeOK
  <2>2. (TypeOK /\ Held /\ Fresh)'
    BY <1>1, <1>2, <2>1, SMTT(60), Z3T(60) DEF LinkInv, TypeOK, Held, Fresh, InSession, Current
  <2>3. FramesAccounted'
    <3>1. Len(queue') = Len(queue) /\ Len(writing') = Len(writing) /\ pushed' = pushed
      BY <1>2, <2>1, ZenonT(60)
    <3>2. CASE push = "evicted"
      BY <1>1, <2>1, <3>1, <3>2, SMTT(60), Z3T(60) DEF LinkInv, TypeOK, FramesAccounted
    <3>3. CASE push # "evicted"
      BY <1>1, <2>1, <3>1, <3>3, SMTT(60), Z3T(60) DEF LinkInv, TypeOK, FramesAccounted
    <3> QED
      BY <3>2, <3>3, Zenon
  <2> QED
    BY <1>3, <2>2, <2>3, ZenonT(60) DEF LinkInv
<1>5. CASE drain_and_discard
  <2>1. /\ task = "drain" /\ task' = then /\ queue = <<>>
        /\ dropped_tx' = dropped_tx + drained /\ drained' = 0
        /\ UNCHANGED <<writing, push, tx_frames, lost>>
    BY <1>5, ZenonT(60) DEF drain_and_discard, Goto, pushVars, writeVars
  <2>2. (TypeOK /\ Held)'
    BY <1>1, <1>2, <2>1, SMTT(60), Z3T(60) DEF LinkInv, TypeOK, Held
  <2>4. Fresh'
    BY <1>1, <1>2, <2>1, SMTT(60), Z3T(60) DEF TypeOK, Fresh, InSession, Current
  <2>3. FramesAccounted'
    BY <1>1, <1>2, <2>1, SMTT(60), Z3T(60) DEF LinkInv, TypeOK, FramesAccounted
  <2> QED
    BY <1>3, <2>2, <2>3, <2>4, ZenonT(60) DEF LinkInv
<1>6. CASE write_outbound_frame
  <2>1. /\ task = "write" /\ task' \in {"pop", "lost"} /\ writing' = <<>>
        /\ \/ tx_frames' = tx_frames + 1 /\ lost' = lost
           \/ tx_frames' = tx_frames /\ lost' = lost + 1
        /\ UNCHANGED <<dropped_tx, push, drained>>
    BY <1>1, <1>6, ZenonT(60) DEF write_outbound_frame, queueVars, pushVars, TypeOK
  <2>2. (TypeOK /\ Held /\ Fresh)'
    BY <1>1, <1>2, <2>1, SMTT(60), Z3T(60) DEF LinkInv, TypeOK, Held, Fresh, InSession, Current
  <2>3. Len(writing) = 1 /\ Len(writing') = 0
    BY <1>1, <2>1, Zenon DEF LinkInv, Held
  <2>4. FramesAccounted'
    <3>1. Len(queue') = Len(queue) /\ pushed' = pushed
      BY <1>2, Zenon
    <3>2. PICK e \in Nat : e = IF push = "evicted" THEN 1 ELSE 0
      BY Zenon
    <3>3. pushed = tx_frames + dropped_tx + lost + Len(queue) + Len(writing) + drained + e
      BY <3>2, Zenon DEF LinkInv, FramesAccounted
    <3>4. /\ tx_frames \in Nat /\ dropped_tx \in Nat /\ lost \in Nat /\ drained \in Nat
          /\ Len(queue) \in Nat
      BY <1>1, ZenonT(60) DEF TypeOK
    <3>5. CASE tx_frames' = tx_frames + 1 /\ lost' = lost
      <4>1. pushed = (tx_frames + 1) + dropped_tx + lost + Len(queue) + 0 + drained + e
        BY <2>3, <3>2, <3>3, <3>4, SMTT(60), Z3T(60)
      <4> QED
        BY <2>1, <2>3, <3>1, <3>2, <3>5, <4>1, SMTT(60), Z3T(60) DEF FramesAccounted
    <3>6. CASE tx_frames' = tx_frames /\ lost' = lost + 1
      <4>1. pushed = tx_frames + dropped_tx + (lost + 1) + Len(queue) + 0 + drained + e
        BY <2>3, <3>2, <3>3, <3>4, SMTT(60), Z3T(60)
      <4> QED
        BY <2>1, <2>3, <3>1, <3>2, <3>6, <4>1, SMTT(60), Z3T(60) DEF FramesAccounted
    <3> QED
      BY <2>1, <3>5, <3>6, ZenonT(60)
  <2> QED
    BY <1>3, <2>2, <2>4, Zenon DEF LinkInv
<1> QED
  BY <1>4, <1>5, <1>6, ZenonT(60)

\* The steps that move no frame and count none.
LEMMA MoveInv ==
  ASSUME LinkInv,
         UNCHANGED <<queue, dropped_tx, push, pushed, tx_frames, last, writing, lost, drained>>,
         then' \in {"ready", "ended"},
         links' \in Nat, links' # links => ~InSession' /\ task' # "ready",
         task' = task \/ (task \notin {"write", "drain"} /\ task' # "write"),
         InSession' \/ task' = "ready" => InSession \/ task = "ready"
  PROVE  LinkInv'
<1>1. TypeOK'
  BY Zenon DEF LinkInv, TypeOK
<1>2. Held' /\ FramesAccounted'
  BY Zenon DEF LinkInv, Held, FramesAccounted
<1>3. (last <= pushed /\ Sorted(queue, last, pushed))'
  BY Zenon DEF LinkInv
<1>4. Fresh'
  BY Zenon DEF LinkInv, Fresh, Current, InSession
<1> QED
  BY <1>1, <1>2, <1>3, <1>4, ZenonT(60) DEF LinkInv

LEMMA LinkNextInv ==
  LinkInv /\ [LinkNext]_linkVars => LinkInv'
<1> SUFFICES ASSUME LinkInv, [LinkNext]_linkVars PROVE LinkInv'
  BY Zenon
<1> USE DEF queueVars, pushVars, dialVars, writeVars, InSession, Goto, DrainThen
<1>1. then \in {"ready", "ended"} /\ links \in Nat
  BY Zenon DEF LinkInv, TypeOK
<1>2. CASE Top
  BY <1>1, <1>2, MoveInv, ZenonT(60) DEF Top
<1>3. CASE resolve_to_socket_addrs
  BY <1>1, <1>3, MoveInv, ZenonT(60) DEF resolve_to_socket_addrs
<1>4. CASE connect_one
  BY <1>1, <1>4, MoveInv, SMTT(60), Z3T(60) DEF connect_one
<1>5. CASE next_delay
  BY <1>1, <1>5, MoveInv, ZenonT(60) DEF next_delay
<1>6. CASE wait_or_cancel
  BY <1>1, <1>6, MoveInv, ZenonT(60) DEF wait_or_cancel
<1>7. CASE Up
  BY <1>1, <1>7, MoveInv, ZenonT(60) DEF Up
<1>8. CASE Connected
  BY <1>1, <1>8, MoveInv, ZenonT(60) DEF Connected
<1>9. CASE Disconnected
  BY <1>1, <1>9, MoveInv, ZenonT(60) DEF Disconnected
<1>10. CASE Wait
  BY <1>1, <1>10, MoveInv, ZenonT(60) DEF Wait
<1>11. CASE Woken
  BY <1>1, <1>11, MoveInv, ZenonT(60) DEF Woken
<1>12. CASE ReadReady
  BY <1>1, <1>12, MoveInv, ZenonT(60) DEF ReadReady
<1>13. CASE Forwarded
  BY <1>1, <1>13, MoveInv, ZenonT(60) DEF Forwarded
<1>14. CASE SessionCancelled
  BY <1>1, <1>14, MoveInv, ZenonT(60) DEF SessionCancelled
<1>15. CASE Cancel
  BY <1>1, <1>15, MoveInv, ZenonT(60) DEF Cancel
<1>16. CASE UNCHANGED linkVars
  BY <1>1, <1>16, MoveInv, ZenonT(60) DEF linkVars
<1> QED
  BY <1>2, <1>3, <1>4, <1>5, <1>6, <1>7, <1>8, <1>9, <1>10, <1>11, <1>12, <1>13, <1>14, <1>15,
     <1>16, ForcePushInv, PopInv, CountInv, ZenonT(60)
  DEF LinkNext, PushReturns, Session, Dialling

-----------------------------------------------------------------------------
\* Every frame the router pushes into the queue of a tcpc: leaf (TxQueue::push) is
\* sent, counted in dropped_tx, on its way or lost with a failed write, and none is
\* counted twice by the eviction of push and by drain_and_discard.
THEOREM FramesAccountedHolds ==
  LinkSpec => []FramesAccounted
<1>1. LinkInv => FramesAccounted
  BY ZenonT(60) DEF LinkInv
<1> QED
  BY LinkInitInv, LinkNextInv, <1>1, PTL DEF LinkSpec

\* The drain of run_inner on connecting leaves nothing of an earlier link: whatever
\* is written to a link was pushed after it came up, and frames leave in the order
\* in which the router pushed them.
THEOREM LinkIsFreshHolds ==
  LinkSpec => []LinkIsFresh
<1>1. LinkInv => LinkIsFresh
  BY Zenon DEF LinkInv, LinkIsFresh, Held, Fresh, Sorted
<1> QED
  BY LinkInitInv, LinkNextInv, <1>1, PTL DEF LinkSpec

=============================================================================
