---------------------------- MODULE FrameFormat ----------------------------
(***************************************************************************)
(* The wire format of the RFID reader: reader_protocol.py.                 *)
(*                                                                         *)
(* A frame is SOF, a two-byte length, four header bytes, the payload and a *)
(* CRC; all numbers are big-endian.  The operators are those of the code.  *)
(* The behaviours transmit one tag frame: the reader builds it, and on the *)
(* way its payload is cut short, or two neighbouring bytes are disturbed,  *)
(* or the bytes are cut off.                                               *)
(***************************************************************************)
EXTENDS ProtocolConstants

CONSTANTS
    TagsSent,     \* the tags a reader may report
    Patterns,     \* error patterns of two bytes
    NoValue,      \* None
    Xor           \* Python's ^ of two bytes

VARIABLES
    tag,      \* the tag the reader reports
    onWire,   \* the bytes that arrive
    damage    \* what happened on the way

lineVars == <<tag, onWire, damage>>

TagCommand == 249

Strings == {s \in Seq(Byte) : Len(s) <= 255}
Int16   == {n \in Int : -32768 <= n /\ n <= 32767}
Int32   == {n \in Int : -2147483647 - 1 <= n /\ n <= 2147483647}

\* What RFIDTagData can say of a tag.
TagRecords ==
    [protocol : Byte, antenna : Byte \cup {NoValue}, pc : Int16 \cup {NoValue},
     epc : Strings, tid : Strings, count : Int32 \cup {NoValue}]

ASSUME LineAssumption ==
    /\ TagsSent \subseteq TagRecords
    /\ Patterns \subseteq (Byte \X Byte) \ {<<0, 0>>}

\* The laws of the exclusive or that the proofs use.
ASSUME XorAssumption ==
    /\ Xor \in [Byte -> [Byte -> Byte]]
    /\ \A a \in Byte : Xor[a][0] = a
    /\ \A a, b \in Byte : Xor[a][b] = Xor[b][a] /\ Xor[Xor[a][b]][b] = a

-----------------------------------------------------------------------------
(* Numbers: struct.unpack of the bytes from i on.                          *)

Unsigned2(bytes, i) == 256 * bytes[i] + bytes[i + 1]

\* ">h" and ">i": two's complement.
Signed2(bytes, i) ==
    LET n == Unsigned2(bytes, i) IN IF n >= 32768 THEN n - 65536 ELSE n

Signed4(bytes, i) == 65536 * Signed2(bytes, i) + Unsigned2(bytes, i + 2)

-----------------------------------------------------------------------------
(* CRC-16, polynomial 0x1021, initial value 0xFFFF.                        *)

\* The values of the register.
Word == 0 .. 65535

CrcShift(crc) ==
    LET double == (2 * crc) % 65536
    IN  IF crc >= 32768 THEN 256 * Xor[double \div 256][16] + Xor[double % 256][33] ELSE double

\* The inner loop: eight shifts.
CrcShifted ==
    [crc \in Word |->
        CrcShift(CrcShift(CrcShift(CrcShift(CrcShift(CrcShift(CrcShift(CrcShift(crc))))))))]

\* The outer loop: a byte enters at the top and is shifted through.
CrcStep(crc, byte) == CrcShifted[256 * Xor[crc \div 256][byte] + (crc % 256)]

\* The register after each byte.
CrcAfter(data) ==
    LET after[n \in 0 .. Len(data)] == IF n = 0 THEN 65535 ELSE CrcStep(after[n - 1], data[n])
    IN  after

\* Mutant: the last byte is not covered.
CrcButLast(data) == CrcAfter(data)[Len(data) - 1]

Crc(data) == CrcAfter(data)[Len(data)]

CrcBytes(data) == <<Crc(data) \div 256, Crc(data) % 256>>

\* The low byte reaches the top unchanged, and the high byte can be told from
\* what eight shifts leave at the bottom: the facts about the polynomial that
\* the proofs use.
ASSUME CrcAssumption ==
    \A high \in Byte :
        /\ \A low \in Byte :
               CrcShifted[256 * high + low] =
                   256 * Xor[CrcShifted[256 * high] \div 256][low] + (CrcShifted[256 * high] % 256)
        /\ CrcShifted[256 * high] \in Word
        /\ \A other \in Byte :
               CrcShifted[256 * high] % 256 = CrcShifted[256 * other] % 256 => high = other

-----------------------------------------------------------------------------
(* Frames.                                                                 *)

\* build_frame, for fields that fit in their bytes.
BuildFrame(f) ==
    LET length == MinFrameLength + Len(f.payload)
        body   == <<SOF, length \div 256, length % 256,
                    f.address, f.sequence, f.command, f.status>> \o f.payload
    IN  body \o CrcBytes(body)

LengthField(raw) == Unsigned2(raw, 2)

\* parse_frame returns a frame instead of raising.
Parses(raw) ==
    /\ Len(raw) >= MinFrameLength
    /\ raw[1] = SOF
    /\ LengthField(raw) = Len(raw)
    /\ Unsigned2(raw, Len(raw) - 1) = Crc(SubSeq(raw, 1, Len(raw) - 2))

\* The frame it returns.
ParseFrame(raw) ==
    [address |-> raw[4], sequence |-> raw[5], command |-> raw[6], status |-> raw[7],
     payload |-> SubSeq(raw, 8, Len(raw) - 2)]

-----------------------------------------------------------------------------
(* Tag payloads: the mask names the fields present, each is taken from     *)
(* where the one before it ended.                                          *)

Malformed == [protocol |-> NoValue]

Has(payload, bit) == (payload[4] \div bit) % 2 = 1

ByteAt(payload, i) == IF i <= Len(payload) THEN payload[i] ELSE 0

AntennaEnd(payload) == 5 + IF Has(payload, 1) THEN 1 ELSE 0
PcEnd(payload)  == AntennaEnd(payload) + IF Has(payload, 2) THEN 2 ELSE 0

\* Mutant: the byte with the length is not counted.
EpcEndUncounted(payload) ==
    PcEnd(payload) + IF Has(payload, 4) THEN ByteAt(payload, PcEnd(payload) + 1) ELSE 0

EpcEnd(payload) ==
    PcEnd(payload) + IF Has(payload, 4) THEN 1 + ByteAt(payload, PcEnd(payload) + 1) ELSE 0
TidEnd(payload) ==
    EpcEnd(payload) + IF Has(payload, 8) THEN 1 + ByteAt(payload, EpcEnd(payload) + 1) ELSE 0
CountEnd(payload) == TidEnd(payload) + IF Has(payload, 16) THEN 4 ELSE 0

\* _take does not raise for a field that ends here.
Taken(payload, end) == end <= Len(payload)

\* parse_tag_data: a field that is not whole is an error.
ParseTag(payload) ==
    IF Len(payload) < 5 \/ ~Taken(payload, CountEnd(payload)) THEN Malformed
    ELSE [protocol |-> payload[5],
          antenna  |-> IF Has(payload, 1) THEN payload[AntennaEnd(payload)] ELSE NoValue,
          pc       |-> IF Has(payload, 2) THEN Signed2(payload, PcEnd(payload) - 1) ELSE NoValue,
          epc      |-> SubSeq(payload, PcEnd(payload) + 2, EpcEnd(payload)),
          tid      |-> SubSeq(payload, EpcEnd(payload) + 2, TidEnd(payload)),
          count    |-> IF Has(payload, 16) THEN Signed4(payload, CountEnd(payload) - 3) ELSE NoValue]

-----------------------------------------------------------------------------
(* The reader (external) and the way to the bridge.                        *)

TwoBytes(n)  == <<(n \div 256) % 256, n % 256>>
FourBytes(n) == TwoBytes(n \div 65536) \o TwoBytes(n)

\* The fields of a tag's report: what a reader does not know it leaves out.
AntennaField(t) == IF t.antenna # NoValue THEN <<t.antenna>> ELSE <<>>
PcField(t)      == IF t.pc # NoValue THEN TwoBytes(t.pc) ELSE <<>>
EpcField(t)     == IF t.epc # <<>> THEN <<Len(t.epc)>> \o t.epc ELSE <<>>
TidField(t)     == IF t.tid # <<>> THEN <<Len(t.tid)>> \o t.tid ELSE <<>>
CountField(t)   == IF t.count # NoValue THEN FourBytes(t.count) ELSE <<>>

\* The mask: a bit for every field that is there.
Mask(t) ==
    (IF t.antenna # NoValue THEN 1 ELSE 0) + (IF t.pc # NoValue THEN 2 ELSE 0)
    + (IF t.epc # <<>> THEN 4 ELSE 0) + (IF t.tid # <<>> THEN 8 ELSE 0)
    + (IF t.count # NoValue THEN 16 ELSE 0)

TagPayload(t) ==
    <<0, 0, 0, Mask(t), t.protocol>>
    \o AntennaField(t) \o PcField(t) \o EpcField(t) \o TidField(t) \o CountField(t)

ReportFrame(payload) ==
    BuildFrame([address |-> 2, sequence |-> 0, command |-> TagCommand, status |-> 0,
                payload |-> payload])

LineInit ==
    /\ tag \in TagsSent
    /\ onWire = ReportFrame(TagPayload(tag))
    /\ damage = "none"

\* Bits of two neighbouring bytes are inverted.
Burst(i, pattern) ==
    /\ damage = "none"
    /\ i + 1 <= Len(onWire)
    /\ onWire' = [onWire EXCEPT ![i] = Xor[@][pattern[1]], ![i + 1] = Xor[@][pattern[2]]]
    /\ damage' = "burst"
    /\ UNCHANGED tag

\* The end of the frame is missing.
CutFrame(n) ==
    /\ damage = "none"
    /\ onWire' = SubSeq(onWire, 1, n)
    /\ damage' = "cut"
    /\ UNCHANGED tag

\* The reader frames a payload that is not whole.
CutPayload(n) ==
    /\ damage = "none"
    /\ n < Len(TagPayload(tag))
    /\ onWire' = ReportFrame(SubSeq(TagPayload(tag), 1, n))
    /\ damage' = "payload"
    /\ UNCHANGED tag

LineNext ==
    \E i \in 1 .. Len(onWire) :
        \/ \E pattern \in Patterns : Burst(i, pattern)
        \/ CutFrame(i - 1)
        \/ CutPayload(i - 1)

LineSpec == LineInit /\ [][LineNext]_lineVars

-----------------------------------------------------------------------------
(* Correctness.                                                            *)

\* What the reader sent is what parse_frame and parse_tag_data return: every
\* optional field, signed numbers and a payload byte that equals SOF included.
TagArrives ==
    damage = "none" => Parses(onWire) /\ ParseTag(ParseFrame(onWire).payload) = tag

\* No frame with two neighbouring bytes disturbed, or cut short, is taken for a
\* frame, the length field and the CRC itself included; and a payload that
\* lacks its last bytes is never taken for a shorter EPC or TID.
DamageDetected ==
    /\ damage \in {"burst", "cut"} => ~Parses(onWire)
    /\ damage = "payload" => ParseTag(ParseFrame(onWire).payload) = Malformed

=============================================================================
