------------------------------- MODULE Framer -------------------------------
(***************************************************************************)
(* The MAVLink framer (src/src/mavlink/framer.rs, frame.rs and             *)
(* msgid_table.rs).  A framer is a record of its buffer and its two        *)
(* counters; bytes are numbers, and Rust's buf[k] is buf[k + 1] here.      *)
(* The checksum and the msgid table are parameters: a table entry is       *)
(* [crc_extra, target_sys_offset, target_comp_offset], an Option a         *)
(* sequence of at most one element.                                        *)
(***************************************************************************)
EXTENDS Integers, Sequences, FiniteSets

CONSTANTS
  crc16(_),     \* Crc16 over a sequence of bytes
  SORTED        \* the msgid table: msgid -> entry

STX_V1 == 254
STX_V2 == 253
V2_IFLAG_SIGNED == 1
V2_SIGNATURE_LEN == 13
V1_HEADER_LEN == 6
V2_HEADER_LEN == 10
CRC_LEN == 2

None == <<>>
Some(x) == <<x>>

\* Stx::from_byte is Some.
IsStx(byte) == byte \in {STX_V1, STX_V2}

header_len(stx) == IF stx = STX_V1 THEN V1_HEADER_LEN ELSE V2_HEADER_LEN

lookup(msgid) == IF msgid \in DOMAIN SORTED THEN Some(SORTED[msgid]) ELSE None

UnknownIncompatFlag == 0

\* The length of the frame whose header starts the buffer; a v2 header with an
\* incompat flag other than the signed bit has none.
decide_frame_len(buf) ==
  IF buf[1] = STX_V1 THEN V1_HEADER_LEN + buf[2] + CRC_LEN
  ELSE IF buf[3] \notin {0, V2_IFLAG_SIGNED} THEN UnknownIncompatFlag
  ELSE V2_HEADER_LEN + buf[2] + CRC_LEN
         + (IF buf[3] = V2_IFLAG_SIGNED THEN V2_SIGNATURE_LEN ELSE 0)

parse_header(frame) ==
  IF frame[1] = STX_V1
    THEN [payload_start |-> V1_HEADER_LEN, payload_len |-> frame[2], seq |-> frame[3],
          source |-> <<frame[4], frame[5]>>, msgid |-> frame[6]]
    ELSE [payload_start |-> V2_HEADER_LEN, payload_len |-> frame[2], seq |-> frame[5],
          source |-> <<frame[6], frame[7]>>,
          msgid |-> frame[8] + 256 * frame[9] + 65536 * frame[10]]

validate_crc(frame, header, crc_extra) ==
  LET payload_end == header.payload_start + header.payload_len
  IN  crc16(Append(SubSeq(frame, 2, payload_end), crc_extra))
        = frame[payload_end + 1] + 256 * frame[payload_end + 2]

\* A msgid that is not in the table is not checked.
CrcOk(frame) ==
  LET header == parse_header(frame)
      entry  == lookup(header.msgid)
  IN  entry # None => validate_crc(frame, header, entry[1].crc_extra)

\* A target past the payload, which v2 trims of trailing zeros, reads as None.
extract_targets(frame, header) ==
  LET entry == lookup(header.msgid)
      read_at(offset) ==
        IF offset # None /\ offset[1] < header.payload_len
          THEN Some(frame[header.payload_start + offset[1] + 1]) ELSE None
  IN  IF entry = None THEN <<None, None>>
      ELSE <<read_at(entry[1].target_sys_offset), read_at(entry[1].target_comp_offset)>>

-----------------------------------------------------------------------------
NewFramer == [buf |-> <<>>, resync_bytes |-> 0, crc_errors |-> 0]

\* add_resync(count) and buf.advance(count).
Discard(f, count) ==
  [f EXCEPT !.resync_bytes = @ + count, !.buf = SubSeq(@, count + 1, Len(@))]

\* The number of bytes in front of the first STX: all of them if there is none.
GarbagePrefix(buf) == Cardinality({i \in 1..Len(buf) : \A j \in 1..i : ~IsStx(buf[j])})

align_to_stx(f) == Discard(f, GarbagePrefix(f.buf))

\* Mutant: a frame that fails its checksum is dropped with all of its bytes.
CrcFailed_DropsFrame(f, frame_len) ==
  [Discard(f, frame_len) EXCEPT !.crc_errors = @ + 1]

\* Mutant: a frame that fails its checksum takes the buffer with it.
CrcFailed_DropsBuffer(f, frame_len) ==
  [Discard(f, Len(f.buf)) EXCEPT !.crc_errors = @ + 1]

\* The failed frame's STX is discarded, and the scan goes on behind it.
CrcFailed(f, frame_len) == [Discard(f, 1) EXCEPT !.crc_errors = @ + 1]

\* Mutant: the buffer keeps the last byte of the frame that was split off.
SplitTo_KeepsByte(f, frame_len) == [f EXCEPT !.buf = SubSeq(@, frame_len, Len(@))]

SplitTo(f, frame_len) == [f EXCEPT !.buf = SubSeq(@, frame_len + 1, Len(@))]

Again(f) == [framer |-> f, more |-> TRUE, frame |-> None]
Incomplete(f) == [framer |-> f, more |-> FALSE, frame |-> None]

\* One turn of try_next_frame's loop: `more' if it goes round again.
try_next_frame(f) ==
  LET aligned   == align_to_stx(f)
      buf       == aligned.buf
      frame_len == decide_frame_len(buf)
  IN  IF buf = <<>> THEN Incomplete(aligned)
      ELSE IF Len(buf) < header_len(buf[1]) THEN Incomplete(aligned)
      ELSE IF frame_len = UnknownIncompatFlag THEN Again(Discard(aligned, 1))
      ELSE IF Len(buf) < frame_len THEN Incomplete(aligned)
      ELSE IF ~CrcOk(SubSeq(buf, 1, frame_len)) THEN Again(CrcFailed(aligned, frame_len))
      ELSE [framer |-> SplitTo(aligned, frame_len), more |-> FALSE,
            frame |-> Some(SubSeq(buf, 1, frame_len))]

=============================================================================
