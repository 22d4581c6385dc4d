----------------------------- MODULE MCPy32Link -----------------------------
(***************************************************************************)
(* Instances of Py32Link for TLC, with the real checksum and real frames.  *)
(***************************************************************************)
EXTENDS Py32Wheel, Py32Crc

LOCAL INSTANCE SequencesExt

Encode(cmd, data) ==
    LET head == <<ADDR_HOST, cmd, Len(data)>> \o data
        crc  == Crc16(head)
    IN  head \o <<crc % 256, crc \div 256>>

SetA == Encode(CMD_COMMON, <<50, 12, 14, 20>>)
SetB == Encode(CMD_COMMON, <<80, 6, 24, 0>>)
SetLoud == Encode(CMD_COMMON, <<101, 12, 12, 20>>)
ShortSet == Encode(CMD_COMMON, <<50, 12>>)
Query == Encode(32, <<>>)

SetQuiet == Encode(CMD_COMMON, <<1, 12, 12, 20>>)

MCFrames == {SetA, SetB, SetLoud, ShortSet, Query}

FewFrames == {SetA, SetB, Query}

OnlyA == {SetA}

OnlyQuiet == {SetQuiet}

\* The line loses a byte, cuts a frame short, corrupts a byte or adds one.
Noise == {ADDR_HOST, 4, 200}

MCDamaged(f) ==
    {RemoveAt(f, i) : i \in 1..Len(f)}
    \cup {SubSeq(f, 1, k) : k \in 1..Len(f) - 1}
    \cup ({ReplaceAt(f, i, b) : i \in 1..Len(f), b \in Noise} \ {f})
    \cup {InsertAt(f, i, b) : i \in 1..Len(f), b \in Noise}

NoDamage(f) == {}

ASSUME \A f \in MCFrames : WellFormed(f) /\ CmdNoLen(f)
=============================================================================
