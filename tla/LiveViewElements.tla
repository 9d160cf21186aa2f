-------------------------- MODULE LiveViewElements --------------------------
(***************************************************************************)
(* The element tree of one LiveView packet: which elements a field holds,  *)
(* how wide a leaf is, which bytes a leaf accepts and how the multi-byte   *)
(* numbers are read.  LiveViewStreamingParser builds this tree from the    *)
(* constructors of CommonHeader.h, Payloads.h and their leaf classes.      *)
(*                                                                         *)
(* An element is a pair <<name, index>>.  The index tells the four bytes   *)
(* of the start code apart, and the elements of the i-th                   *)
(* FrameInformation; it is 0 for every other element.                      *)
(***************************************************************************)
EXTENDS Integers, SequencesExt

CONSTANTS
    UNDEFINED_SIZE,  \* 0xFFFFFFFF in the code: the size of what is not sized yet
    ImageReserved,   \* length of ImagePayloadHeader::_reserved2, 115 in the code
    FrameReserved,   \* length of FramePayloadHeader::_reserved, 114 in the code
    MaxFrames        \* bound on FrameCount, 65535 in the code

\* No packet is as long as UNDEFINED_SIZE: the data size has three bytes, the
\* padding size one, a frame's information eleven (in the code 2^32 - 1 bytes
\* against at most 2^24 + 65536 + 115 + 114 + 11 * 65535).
ASSUME ElementsAssumption ==
    /\ ImageReserved \in Nat \ {0}
    /\ FrameReserved \in Nat \ {0}
    /\ MaxFrames \in Nat
    /\ UNDEFINED_SIZE \in Nat
    /\ UNDEFINED_SIZE > 256 * 256 * 257 + ImageReserved + FrameReserved + 11 * MaxFrames

Byte == 0..255

-----------------------------------------------------------------------------
(* Names *)

packet        == <<"packet", 0>>
commonHeader  == <<"commonHeader", 0>>
payload       == <<"payload", 0>>
payloadHeader == <<"payloadHeader", 0>>
startCode     == <<"startCode", 0>>
payloadData   == <<"payloadData", 0>>
startByte     == <<"startByte", 0>>
payloadType   == <<"payloadType", 0>>
dataSize      == <<"dataSize", 0>>
paddingSize   == <<"paddingSize", 0>>
frameCount    == <<"frameCount", 0>>
jpeg          == <<"jpeg", 0>>
padding       == <<"padding", 0>>

\* Width of the leaves whose class fixes it.  ImageData's jpeg and padding are
\* not in it: they have no size until the payload header has been read.
Width ==
    [startByte |-> 1, payloadType |-> 1, sequenceNumber |-> 2, timeStamp |-> 4,
     startCodeByte |-> 1, dataSize |-> 3, paddingSize |-> 1,
     imageReserved |-> 4, flag |-> 1, imageReserved2 |-> ImageReserved,
     dataVersion |-> 2, frameCount |-> 2, singleFrameDataSize |-> 2,
     frameReserved |-> FrameReserved,
     topLeft |-> 4, buttomRight |-> 4, category |-> 1, status |-> 1,
     additionalStatus |-> 1, frameDataReserved |-> 5]

FrameLeaf == <<"topLeft", "buttomRight", "category", "status", "additionalStatus">>

Leaf ==
    {jpeg, padding}
        \cup { <<n, 0>> : n \in DOMAIN Width \ ({"startCodeByte"} \cup {FrameLeaf[k] : k \in 1..5}) }
        \cup ({"startCodeByte"} \X (1..4))
        \cup ({FrameLeaf[k] : k \in 1..5} \X (1..MaxFrames))

FrameInformation == {"frameInformation"} \X (1..MaxFrames)

\* Everything that is created once per frame.
FrameElement == FrameInformation \cup ({FrameLeaf[k] : k \in 1..5} \X (1..MaxFrames))

Field ==
    {packet, commonHeader, payload, payloadHeader, startCode, payloadData}
        \cup FrameInformation

Element == Leaf \cup Field

-----------------------------------------------------------------------------
(* Layout *)

NoFrames == -1       \* FrameData before SetFrameNumber: it holds no element

\* The elements a field holds, given what the packet carries ("none" until the
\* common header is read, then "images" or "frames") and the frame count.
Elements(f, kind, frames) ==
    CASE f = packet -> IF kind = "none" THEN <<commonHeader>> ELSE <<commonHeader, payload>>
      [] f = commonHeader -> <<startByte, payloadType, <<"sequenceNumber", 0>>, <<"timeStamp", 0>> >>
      [] f = payload -> <<payloadHeader, payloadData>>
      [] f = payloadHeader ->
            IF kind = "images"
            THEN <<startCode, dataSize, paddingSize,
                   <<"imageReserved", 0>>, <<"flag", 0>>, <<"imageReserved2", 0>> >>
            ELSE <<startCode, dataSize, paddingSize, <<"dataVersion", 0>>, frameCount,
                   <<"singleFrameDataSize", 0>>, <<"frameReserved", 0>> >>
      [] f = startCode -> [k \in 1..4 |-> <<"startCodeByte", k>>]
      [] f = payloadData ->
            IF kind = "images" THEN <<jpeg, padding>>
            ELSE IF frames = NoFrames THEN << >>
            ELSE [k \in 1..(frames + 1) |->
                    IF k <= frames THEN <<"frameInformation", k>> ELSE <<"frameDataReserved", 0>>]
      [] OTHER -> [k \in 1..5 |-> <<FrameLeaf[k], f[2]>>]

\* The field that holds a field: where a Fill that returns goes back to.  The
\* packet has none and stands for its own.
Parent(f) ==
    CASE f \in {packet, commonHeader, payload} -> packet
      [] f \in {payloadHeader, payloadData} -> payload
      [] f = startCode -> payloadHeader
      [] OTHER -> payloadData

\* Sum of f over a sequence of elements.
Total(elements, f) == FoldLeft(LAMBDA sum, e : sum + f[e], 0, elements)

\* BaseField::CalcSize: undefined as soon as one element's size is.
CalcSize(elements, size) ==
    IF \E k \in DOMAIN elements : size[elements[k]] = UNDEFINED_SIZE
    THEN UNDEFINED_SIZE
    ELSE Total(elements, size)

\* Sizes when a packet is created: leaves have their width, StartCode,
\* CommonHeader and FrameInformation are sized by their constructors.
InitialSize ==
    [e \in Element |->
        IF e \in Leaf \ {jpeg, padding} THEN Width[e[1]]
        ELSE IF e = startCode THEN 4
        ELSE IF e = commonHeader
             THEN Width.startByte + Width.payloadType + Width.sequenceNumber + Width.timeStamp
        ELSE IF e \in FrameInformation
             THEN Width.topLeft + Width.buttomRight + Width.category + Width.status
                    + Width.additionalStatus
        ELSE UNDEFINED_SIZE]

-----------------------------------------------------------------------------
(* Bytes *)

kPayloadTypes == [images |-> 1, frames |-> 2]
kPayloadHeaderStartCode == <<36, 53, 104, 121>>    \* 24 35 68 79, hexadecimal
kFrameCategories == 0..5
kFrameStatusWithoutLast == 0..4    \* mutant: the last enumerator is forgotten
kFrameStatus == 0..5    \* the code lists Reserved1 three times: 6 and 7 are missing
kFrameAdditionalStatus == 0..2

\* Does a leaf accept the byte b at the head of the buffer?  ConstByte and
\* ByteEnum compare it, every other leaf takes what comes.  The enumeration
\* FrameAdditionalStatus is as wide as an int, so ByteEnum::Fill compares four
\* bytes: zeros says whether the three bytes after b, wherever they lie, are 0.
Accepts(e, b, zeros) ==
    /\ e = startByte => b = 255
    /\ e = payloadType => \E k \in DOMAIN kPayloadTypes : b = kPayloadTypes[k]
    /\ e[1] = "startCodeByte" => b = kPayloadHeaderStartCode[e[2]]
    /\ e[1] = "category" => b \in kFrameCategories
    /\ e[1] = "status" => b \in kFrameStatus
    /\ e[1] = "additionalStatus" => b \in kFrameAdditionalStatus /\ zeros

\* The leaves whose bytes the parser keeps and reads.
ReadLeaf == {payloadType, dataSize, paddingSize, frameCount}

\* FixedSizeData::Fill copies n new bytes to the START of _data, also when the
\* leaf already holds bytes: s is the buffer, at the index of its head.
\* Mutant: _data is signed, bytes above 127 become negative.
CopySigned(old, s, at, n) ==
    [k \in DOMAIN old |-> IF k > n THEN old[k] ELSE IF s[at + k] > 127 THEN s[at + k] - 256 ELSE s[at + k]]
CopyToStart(old, s, at, n) == [k \in DOMAIN old |-> IF k <= n THEN s[at + k] ELSE old[k]]

SingleByteNumber(d) == d[1]
WByteNumber(d) == d[1] * 256 + d[2]
LittleEndian(d) == d[3] * 256 * 256 + d[2] * 256 + d[1]    \* mutant of TriByteNumber
TriByteNumber(d) == d[1] * 256 * 256 + d[2] * 256 + d[3]
=============================================================================
