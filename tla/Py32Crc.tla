------------------------------ MODULE Py32Crc -------------------------------
(***************************************************************************)
(* py32_crc16: the reflected CRC-16 with polynomial 0xA001 and initial     *)
(* value 0xFFFF, used to instantiate Crc16 for model checking.             *)
(***************************************************************************)
EXTENDS Naturals, Sequences, Bitwise

LOCAL INSTANCE SequencesExt

POLY == 40961   \* 0xA001

\* One round of the inner loop.
CrcBit(crc) == IF crc % 2 = 1 THEN (crc \div 2) ^^ POLY ELSE crc \div 2

\* The eight rounds on each value of the low byte, tabulated, and exclusive or of
\* two bytes: TLC looks a table up where it would evaluate an operator again and
\* again.
CrcByteTable == [b \in 0..255 |->
    CrcBit(CrcBit(CrcBit(CrcBit(CrcBit(CrcBit(CrcBit(CrcBit(b))))))))]

XorByte == [a \in 0..255 |-> [b \in 0..255 |-> a ^^ b]]

\* The upper byte of crc moves down and meets the lower byte of the table's entry.
Shifted(high, entry) == 256 * (entry \div 256) + XorByte[high][entry % 256]

CrcByte(c, crc) == Shifted(crc \div 256, CrcByteTable[XorByte[crc % 256][c]])

\* Bound by a quantifier crc is evaluated once, in ENABLED as well.
py32_crc16(bytes) ==
    FoldLeft(LAMBDA crc, c : CHOOSE next \in {CrcByte(c, v) : v \in {crc}} : TRUE,
             65535, bytes)
=============================================================================
