-------------------------- MODULE MCReaderProtocol --------------------------
(***************************************************************************)
(* The three pieces of the reader protocol in one run: the format of a     *)
(* frame, the decoder of a stream, and an active inventory.  A behaviour   *)
(* is one of one piece, the variables of the other two stay as they are.   *)
(***************************************************************************)
EXTENDS FrameDecoder, InventoryScan, FrameFormat

VARIABLE piece                \* whose behaviour it is

Bits == INSTANCE Bitwise

\* Python's ^, as a table.
XorTable == [a \in Byte |-> [b \in Byte |-> Bits!^^(a, b)]]

\* Tags with every optional field present or not, and boundary values.
TagsReported ==
    [protocol : {1}, antenna : {NoValue, 254}, pc : {NoValue, -32768},
     epc : {<<>>, <<226, 0, 254>>}, tid : {<<>>, <<254, 0, 9>>}, count : {NoValue, -1}]

Powers == {0, 1, 16, 128, 255}

\* Bursts of errors.
Bursts == (Powers \X Powers) \ {<<0, 0>>}

\* Streams of frames, damaged frames and noise, with the CRC of the code.
FrameOf(payload) ==
    BuildFrame([address |-> 2, sequence |-> 1, command |-> 249, status |-> 0,
                payload |-> payload])

Short  == FrameOf(<<>>)
Nested == FrameOf(Short)                        \* a frame whose payload is a frame
Bad    == [Short EXCEPT ![9] = (@ + 1) % 256]   \* CRC error
Hidden == [Nested EXCEPT ![18] = (@ + 1) % 256] \* CRC error, an intact frame inside

Pieces ==
    {Short, Nested, Bad, Hidden,
     <<7>>, <<SOF>>, <<SOF, 0, 5>>, <<SOF, 0, 12>>, SubSeq(Short, 1, 8)}

MCStreams == {a \o b \o c : a \in Pieces, b \in Pieces, c \in {Short, Nested, <<>>}}

\* parse_frame for the candidates of these streams, tabulated.
Candidates(sent) ==
    {SubSeq(sent, i, j) : i \in {k \in DOMAIN sent : sent[k] = SOF}, j \in DOMAIN sent}

Intact == {c \in UNION {Candidates(s) : s \in MCStreams} : Parses(c)}

MCAccepts(candidate) == candidate \in Intact

decoderVars == vars
allVars     == <<piece, decoderVars, lineVars, inventoryVars>>

DecoderUnused   == stream = <<>> /\ fed = 0 /\ head = 0 /\ frames = {} /\ scanning = FALSE
LineUnused      == tag = NoValue /\ onWire = <<>> /\ damage = "unused"
InventoryUnused == InventoryInit /\ ~reading

PieceInit ==
    \/ piece = "decoder"   /\ Init           /\ LineUnused /\ InventoryUnused
    \/ piece = "line"      /\ LineInit      /\ DecoderUnused /\ InventoryUnused
    \/ piece = "inventory" /\ InventoryInit /\ DecoderUnused /\ LineUnused

DecoderScan ==
    piece = "decoder" /\ Scan /\ UNCHANGED <<piece, lineVars, inventoryVars>>

DecoderFeed ==
    /\ piece = "decoder"
    /\ \E n \in 1 .. Len(stream) : Feed(n)
    /\ UNCHANGED <<piece, lineVars, inventoryVars>>

LineStep ==
    piece = "line" /\ LineNext /\ UNCHANGED <<piece, decoderVars, inventoryVars>>

InventoryClient ==
    piece = "inventory" /\ ClientStep /\ UNCHANGED <<piece, decoderVars, lineVars>>

InventoryTick ==
    piece = "inventory" /\ Tick /\ UNCHANGED <<piece, decoderVars, lineVars>>

AroundClient ==
    /\ piece = "inventory"
    /\ ReaderStep \/ Interrupt \/ ConnectionBreaks
    /\ UNCHANGED <<piece, decoderVars, lineVars>>

PieceNext ==
    DecoderScan \/ DecoderFeed \/ LineStep \/ InventoryClient \/ InventoryTick \/ AroundClient

\* The fairness of FrameDecoder and InventoryScan.
PieceSpec ==
    /\ PieceInit /\ [][PieceNext]_allVars
    /\ WF_allVars(DecoderScan)
    /\ WF_allVars(InventoryClient) /\ WF_allVars(InventoryTick)

=============================================================================
