------------------------------ MODULE Ingress -------------------------------
(***************************************************************************)
(* A reader (src/src/endpoint/session.rs): bytes of a transport through    *)
(* the framer, the loss estimator and the in-filter to the router, and the *)
(* endpoint's counters (src/src/endpoint/stats.rs), over the sessions an   *)
(* endpoint has one after the other.                                       *)
(*                                                                         *)
(* The transport hands over a session's bytes in chunks of any length the  *)
(* stream's cuts allow; a datagram is a chunk too.  A stream is            *)
(* [bytes, cuts, frames]: what arrives, where a read may end, and, for the *)
(* properties, the frames the sender put there.                            *)
(***************************************************************************)
EXTENDS Framer, SeqTracker, Functions

CONSTANTS
  Plans,              \* what may arrive: sequences of streams, one for each session
  PassesInFilter(_)   \* Filters::passes_in_filter, of a header

ASSUME PlansAssumption ==
  \A p \in Plans :
    /\ Len(p) \in Nat \ {0}
    /\ \A s \in 1..Len(p) : /\ p[s].bytes \in Seq(0..255)
                           /\ p[s].cuts \subseteq 1..Len(p[s].bytes)

VARIABLES
  plan, session,      \* the streams, and which one is being read
  fed,                \* the bytes read so far of each session's stream
  framer, framer_counters, seq_tracker,
  now,                \* the instant forward_inbound_frames took
  stats,              \* EndpointStats
  hand,               \* the frame waiting for a place in the router's channel
  emitted,            \* the session's frames in order: [at, frame, header, targets]
  forwarded,          \* those of them the router has been given
  pc                  \* "read", "scan", "send"; "over", "ended": no session

vars == <<plan, session, fed, framer, framer_counters, seq_tracker, now, stats, hand,
          emitted, forwarded, pc>>

stream == plan[session]

NoCounts == [rx_frames |-> 0, rx_bytes |-> 0, rx_lost_est |-> 0, in_filter_drops |-> 0,
             resync_bytes |-> 0, crc_errors |-> 0]

NewCounters == [last_resync_total |-> 0, last_crc_total |-> 0]

Init ==
  /\ plan \in Plans /\ session = 1 /\ fed = <<0>>
  /\ framer = NewFramer /\ framer_counters = NewCounters /\ seq_tracker = <<>> /\ now = 0
  /\ stats = NoCounts /\ hand = None /\ emitted = <<>> /\ forwarded = <<>>
  /\ pc = "read"

-----------------------------------------------------------------------------
\* read_buf appends what has arrived to the framer's buffer;
\* forward_inbound_frames starts by taking the time.
Read ==
  /\ pc = "read"
  /\ \E upto \in stream.cuts :
       /\ upto > fed[session]
       /\ framer' = [framer EXCEPT !.buf = @ \o SubSeq(stream.bytes, fed[session] + 1, upto)]
       /\ fed' = [fed EXCEPT ![session] = upto]
  /\ seq_tracker' = Ranked(seq_tracker) /\ now' = Len(seq_tracker)
  /\ pc' = "scan"
  /\ UNCHANGED <<plan, session, framer_counters, stats, hand, emitted, forwarded>>

\* FramerCounters::sync.  The framer's totals do not decrease, so neither
\* saturating_sub saturates.
Sync(f) ==
  /\ stats' = [stats EXCEPT
       !.resync_bytes = @ + f.resync_bytes - framer_counters.last_resync_total,
       !.crc_errors   = @ + f.crc_errors - framer_counters.last_crc_total]
  /\ framer_counters' = [last_resync_total |-> f.resync_bytes,
                         last_crc_total    |-> f.crc_errors]

\* One turn of the framer's loop, and of the loop around it when it yields.
Scan ==
  LET next     == try_next_frame(framer)
      frame    == next.frame[1]
      header   == parse_header(frame)
      observed == observe(seq_tracker, header.source, header.seq, now)
      entry    == [at |-> fed[session] - Len(next.framer.buf) - Len(frame) + 1,
                   frame |-> frame, header |-> header,
                   targets |-> extract_targets(frame, header)]
  IN  /\ pc = "scan"
      /\ framer' = next.framer
      /\ IF next.frame # None
           THEN /\ seq_tracker' = observed.entries
                /\ emitted' = Append(emitted, entry)
                /\ stats' = [stats EXCEPT
                     !.rx_frames = @ + 1, !.rx_bytes = @ + Len(frame),
                     !.rx_lost_est = @ + observed.lost,
                     !.in_filter_drops = IF PassesInFilter(header) THEN @ ELSE @ + 1]
                /\ IF PassesInFilter(header)
                     THEN pc' = "send" /\ hand' = Some(entry)
                     ELSE UNCHANGED <<pc, hand>>
                /\ UNCHANGED framer_counters
           ELSE /\ UNCHANGED <<seq_tracker, emitted, hand>>
                /\ IF next.more THEN UNCHANGED <<stats, framer_counters, pc>>
                                ELSE Sync(next.framer) /\ pc' = "read"
      /\ UNCHANGED <<plan, session, fed, now, forwarded>>

\* frame_tx.send is awaited: it delivers, or finds the channel closed and the
\* session is Terminated as it stands.
Send ==
  /\ pc = "send"
  /\ \/ forwarded' = Append(forwarded, hand[1]) /\ hand' = None /\ pc' = "scan"
     \/ pc' = "ended" /\ UNCHANGED <<forwarded, hand>>
  /\ UNCHANGED <<plan, session, fed, framer, framer_counters, seq_tracker, now, stats, emitted>>

\* EOF or a read error: Disconnected.
Disconnect ==
  /\ pc = "read" /\ pc' = "over"
  /\ UNCHANGED <<plan, session, fed, framer, framer_counters, seq_tracker, now, stats, hand,
                 emitted, forwarded>>

\* The token fires: Terminated.  It is looked at between two reads only.
Cancelled ==
  /\ pc = "read" /\ pc' = "ended"
  /\ UNCHANGED <<plan, session, fed, framer, framer_counters, seq_tracker, now, stats, hand,
                 emitted, forwarded>>

\* Mutant: the counters' memory outlives the session, the framer does not.
RunSession_KeepsCounters ==
  /\ pc = "over" /\ session < Len(plan)
  /\ session' = session + 1 /\ fed' = Append(fed, 0)
  /\ framer' = NewFramer /\ framer_counters' = framer_counters /\ seq_tracker' = <<>>
  /\ emitted' = <<>> /\ forwarded' = <<>> /\ pc' = "read"
  /\ UNCHANGED <<plan, now, stats, hand>>

\* The next session of the endpoint: everything is new but the counters.
RunSession ==
  /\ pc = "over" /\ session < Len(plan)
  /\ session' = session + 1 /\ fed' = Append(fed, 0)
  /\ framer' = NewFramer /\ framer_counters' = NewCounters /\ seq_tracker' = <<>>
  /\ emitted' = <<>> /\ forwarded' = <<>> /\ pc' = "read"
  /\ UNCHANGED <<plan, now, stats, hand>>

Next == Read \/ Scan \/ Send \/ Disconnect \/ Cancelled \/ RunSession

Spec == Init /\ [][Next]_vars

-----------------------------------------------------------------------------
(***************************************************************************)
(* Properties.                                                             *)
(***************************************************************************)
\* What starts at position i of the bytes b, as the wire format has it.
Verdict(b, i) ==
  LET rest == SubSeq(b, i, Len(b))
  IN  IF ~IsStx(b[i]) THEN "garbage"
      ELSE IF Len(rest) < header_len(b[i]) THEN "incomplete"
      ELSE IF decide_frame_len(rest) = UnknownIncompatFlag THEN "garbage"
      ELSE IF Len(rest) < decide_frame_len(rest) THEN "incomplete"
      ELSE IF CrcOk(SubSeq(rest, 1, decide_frame_len(rest))) THEN "frame" ELSE "corrupt"

\* The bytes b parsed in one piece: where its frames are, what is skipped.
Parse(b) ==
  LET P[i \in 1..Len(b) + 1] ==
        IF i > Len(b) THEN [frames |-> <<>>, skipped |-> 0, corrupt |-> 0]
        ELSE LET verdict == Verdict(b, i)
                 n       == decide_frame_len(SubSeq(b, i, Len(b)))
             IN  CASE verdict = "incomplete" -> [frames |-> <<>>, skipped |-> 0, corrupt |-> 0]
                   [] verdict = "frame" ->
                        [P[i + n] EXCEPT !.frames = <<SubSeq(b, i, i + n - 1)>> \o @]
                   [] verdict = "garbage" -> [P[i + 1] EXCEPT !.skipped = @ + 1]
                   [] verdict = "corrupt" ->
                        [P[i + 1] EXCEPT !.skipped = @ + 1, !.corrupt = @ + 1]
  IN  P[1]

Kept(frames) == SelectSeq(frames, LAMBDA frame : PassesInFilter(parse_header(frame)))

\* How the transport cuts the stream into reads makes no difference: whenever
\* the session waits for bytes, the router has been given exactly the frames,
\* in order, that parsing all of its bytes in one piece yields and the in-filter
\* passes.
ChunkingIrrelevant ==
  pc = "read" =>
    [i \in 1..Len(forwarded) |-> forwarded[i].frame]
      = Kept(Parse(SubSeq(stream.bytes, 1, fed[session])).frames)

Lengths(frames) == SumFunction([i \in 1..Len(frames) |-> Len(frames[i])])

\* The endpoint's counters add up over its sessions: whenever a session waits
\* for bytes, they tell what all of the bytes read since the start hold.  The
\* framer keeps totals of its own session and only differences are published.
StatsAddUp ==
  pc = "read" =>
    LET parsed      == [s \in 1..session |-> Parse(SubSeq(plan[s].bytes, 1, fed[s]))]
        Total(F(_)) == SumFunction([s \in 1..session |-> F(parsed[s])])
    IN
    /\ stats.rx_frames = Total(LAMBDA p : Len(p.frames))
    /\ stats.rx_bytes = Total(LAMBDA p : Lengths(p.frames))
    /\ stats.in_filter_drops = Total(LAMBDA p : Len(p.frames) - Len(Kept(p.frames)))
    /\ stats.resync_bytes = Total(LAMBDA p : p.skipped)
    /\ stats.crc_errors = Total(LAMBDA p : p.corrupt)

\* A frame that arrives intact is never a casualty of what surrounds it: when
\* the session waits for bytes it has been emitted as its sender meant it, or is
\* still in the buffer, or lies inside an emitted frame that garbage in front of
\* it made up (a msgid that is not in the table is not checked).
IntactFramesSurvive ==
  pc = "read" =>
    \A k \in 1..Len(stream.frames) :
      LET f == stream.frames[k] IN
      f.at + f.len - 1 <= fed[session] =>
        \/ \E i \in 1..Len(emitted) :
             emitted[i].at = f.at /\ emitted[i].header = f.header /\ emitted[i].targets = f.targets
        \/ f.at > fed[session] - Len(framer.buf)
        \/ \E i \in 1..Len(emitted) :
             emitted[i].at < f.at /\ emitted[i].at + Len(emitted[i].frame) > f.at

\* Frames leave byte for byte as they arrived: each is a piece of the session's
\* stream, they come in the stream's order and no two of them overlap, and what
\* is in the buffer lies behind them.
FramesAreSlices ==
  /\ \A i \in 1..Len(emitted) :
       /\ emitted[i].at >= 1
       /\ emitted[i].at + Len(emitted[i].frame) <= fed[session] - Len(framer.buf) + 1
       /\ emitted[i].frame
            = SubSeq(stream.bytes, emitted[i].at, emitted[i].at + Len(emitted[i].frame) - 1)
  /\ \A i, j \in 1..Len(emitted) :
       i < j => emitted[i].at + Len(emitted[i].frame) <= emitted[j].at
  /\ framer.buf = SubSeq(stream.bytes, fed[session] - Len(framer.buf) + 1, fed[session])

\* The sender's number of each emitted frame: seq is its last eight bits.
Numbers(source) ==
  LET own == SelectSeq(emitted, LAMBDA e : e.header.source = source)
  IN  [i \in 1..Len(own) |->
         (CHOOSE k \in 1..Len(stream.frames) : stream.frames[k].at = own[i].at)]

EmittedSources == {emitted[i].header.source : i \in 1..Len(emitted)}

Missing(source) ==
  LET n == Numbers(source)
  IN  [i \in 1..Len(n) - 1 |-> stream.frames[n[i + 1]].number - stream.frames[n[i]].number - 1]

\* All frames are the sender's, in its order.
Genuine ==
  /\ \A i \in 1..Len(emitted) :
       \E k \in 1..Len(stream.frames) : stream.frames[k].at = emitted[i].at
  /\ \A s \in EmittedSources : \A i \in DOMAIN Missing(s) : Missing(s)[i] >= 0

Lost(source) == SumFunction(Missing(source))

\* The loss estimate on an ordered transport is never more than what is missing
\* between the frames that arrived, whatever sources come and go; it is exact as
\* long as the sources fit the tracker and no gap reaches the threshold, also
\* where the eight bits of seq wrap.
LossEstimate ==
  Genuine /\ session = 1 =>
    LET lost == SumFunction([s \in EmittedSources |-> Lost(s)])
    IN  /\ stats.rx_lost_est <= lost
        /\ Cardinality(EmittedSources) <= SEQ_TRACKER_CAPACITY
           /\ (\A s \in EmittedSources : \A i \in DOMAIN Missing(s) :
                 Missing(s)[i] < DEFAULT_SEQ_GAP_THRESHOLD)
           => stats.rx_lost_est = lost

=============================================================================
