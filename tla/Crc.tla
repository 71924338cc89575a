-------------------------------- MODULE Crc ---------------------------------
(***************************************************************************)
(* CRC-16-MCRF4XX, the checksum of a MAVLink frame                         *)
(* (src/src/mavlink/crc.rs): u16 and u8 arithmetic on bits.                *)
(***************************************************************************)
EXTENDS Integers, Sequences, Bitwise

CRC_INIT == 65535

\* What the low byte of the sum, combined with the next byte, contributes.
Spread == [x \in 0..255 |->
  LET tmp16 == x ^^ ((x * 16) % 256)
  IN  ((tmp16 * 256) ^^ (tmp16 * 8)) ^^ (tmp16 \div 16)]

crc16_update(crc, byte) == (crc \div 256) ^^ Spread[byte ^^ (crc % 256)]

update_slice(start, bytes) ==
  LET update[i \in 1..Len(bytes) + 1, crc \in 0..65535] ==
        IF i > Len(bytes) THEN crc ELSE update[i + 1, crc16_update(crc, bytes[i])]
  IN  update[1, start]

\* update_slice on a new Crc16, and finalize.
Crc16(bytes) == update_slice(CRC_INIT, bytes)

\* The published test vector, "123456789".
ASSUME CrcVector == Crc16([i \in 1..9 |-> 48 + i]) = 28561

=============================================================================
