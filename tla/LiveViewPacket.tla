---------------------------- MODULE LiveViewPacket ----------------------------
(***************************************************************************)
(* The incremental parser and its caller: StreamDemuxer::Push feeds one    *)
(* buffer after another to LiveViewPacket::Fill, which walks the element   *)
(* tree with BaseField::Fill until the buffer or the packet runs out.      *)
(*                                                                         *)
(* One call of Fill is many steps here, one per iteration of a loop, so    *)
(* that every state between two elements is seen.  Only one chain of calls *)
(* can be open, from the packet down to the field whose loop is running:   *)
(* top is that field, Parent leads back through the callers, and ret is    *)
(* what the call made by top has just returned.                            *)
(***************************************************************************)
EXTENDS LiveViewElements

CONSTANT Wires   \* what a camera may send: its bytes, the places where a buffer may
                 \* end (cuts), and the packets the bytes stand for (sent)

ASSUME WiresAssumption ==
    \A w \in Wires : w.bytes \in Seq(Byte) /\ w.cuts \subseteq 1..Len(w.bytes)

VARIABLES
    wire,        \* the stream of this behaviour, an element of Wires
    rd, wr,      \* the buffer holds bytes rd+1 .. wr of the wire
    beyond,      \* are the bytes of memory after the end of the buffer zero?
    kind,        \* the class of payload_: "none", "images", "frames"
    frames,      \* the number of FrameInformation elements, or NoFrames
    pos, size,   \* IIncrementalFill::_pos and _size of every element
    it,          \* BaseField::_it of every field, as an index into its elements
    data,        \* FixedSizeData::_data of the leaves that are read
    image,       \* VariableSizeData::_data of the jpeg
    top, ret,    \* the field being filled, and what its last call returned
    first,       \* history: index in the wire of the packet's first byte
    refused,     \* history: has this packet refused a byte, or a call?
    out          \* history: the packets pushed downstream

parser == <<kind, frames, pos, size, it, data, image, first, refused>>
vars == <<wire, rd, wr, beyond, parser, top, ret, out>>

Idle == <<"idle", 0>>       \* top, when StreamDemuxer is between two calls of Fill

_elements(f) == Elements(f, kind, frames)
Kid == _elements(top)[it[top]]
Full(e) == size[e] <= pos[e]
Remaining == wr - rd        \* buf.size()
End(f) == it[f] > Len(_elements(f))

FrameCount == WByteNumber(data[frameCount])
DataSize == TriByteNumber(data[dataSize])
PaddingSize == SingleByteNumber(data[paddingSize])

NoData == [e \in ReadLeaf |-> [k \in 1..Width[e[1]] |-> 0]]

\* A new LiveViewPacket, before anything is filled into it.
NewPacket ==
    /\ kind' = "none" /\ frames' = NoFrames
    /\ pos' = [e \in Element |-> 0]
    /\ size' = InitialSize
    /\ it' = [f \in Field |-> 1]
    /\ data' = NoData /\ image' = << >>
    /\ first' = 0 /\ refused' = FALSE

Init ==
    /\ wire \in Wires
    /\ rd = 0 /\ wr = 0 /\ beyond \in BOOLEAN
    /\ kind = "none" /\ frames = NoFrames
    /\ pos = [e \in Element |-> 0]
    /\ size = InitialSize
    /\ it = [f \in Field |-> 1]
    /\ data = NoData /\ image = << >>
    /\ first = 0 /\ refused = FALSE
    /\ top = Idle /\ ret = "none" /\ out = << >>

-----------------------------------------------------------------------------
(* Calls *)

\* Where the loop of f starts: an empty field at its first element, one in
\* progress where _it stands.
ResumeAfter(f) == IF pos[f] = 0 THEN 1 ELSE it[f] + 1    \* mutant: one too far
Resume(f) == IF pos[f] = 0 THEN 1 ELSE it[f]

\* BaseField::Fill of f is entered; a full field refuses.
Enter(f) ==
    /\ top' = f /\ ret' = "none"
    /\ it' = [it EXCEPT ![f] = Resume(f)]
    /\ UNCHANGED refused

CallEvenFull(f) == Enter(f)    \* mutant: without the test of IsFull
Call(f) ==
    IF Full(f)
    THEN top' = Parent(f) /\ ret' = "false" /\ refused' = TRUE /\ UNCHANGED it
    ELSE Enter(f)

\* Mutant: Fill returns without CalcPos.
FinishWithoutPos == UNCHANGED pos /\ top' = Parent(top) /\ ret' = "true"
\* Fill of top leaves its loop, computes its position and returns true.
Finish ==
    /\ pos' = [pos EXCEPT ![top] = Total(_elements(top), pos)]
    /\ top' = Parent(top) /\ ret' = "true"

\* LiveViewPacket::Fill returns to the demuxer.
Return == top' = Idle /\ ret' = "none"

-----------------------------------------------------------------------------
(* StreamDemuxer::Push and LiveViewPacket::Fill *)

\* The stage above hands over the next n bytes, once the last are used up.
Push(n) ==
    /\ top = Idle /\ Remaining = 0
    /\ n \in wire.cuts /\ n > wr
    /\ wr' = n /\ beyond' \in BOOLEAN
    /\ UNCHANGED <<wire, rd, parser, top, ret, out>>

\* SkipUntil: as long as the packet is empty, drop bytes until one is FF.
ToStartByte(k) ==
    /\ \A j \in (rd + 1)..k : wire.bytes[j] # 255
    /\ k < wr => wire.bytes[k + 1] = 255

SkipInPacket(k) == ToStartByte(k)    \* mutant: also inside a packet
Skip(k) == IF pos[packet] = 0 THEN ToStartByte(k) ELSE k = rd

\* The loop of StreamDemuxer::Push calls LiveViewPacket::Fill, which skips and
\* calls Fill of the common header, or of the payload once the header is full.
FillPacket ==
    /\ top = Idle /\ Remaining > 0
    /\ \E k \in rd..wr : Skip(k) /\ rd' = k
    /\ \/ /\ ~Full(commonHeader)
          /\ Call(commonHeader)
       \/ /\ Full(commonHeader)
          /\ Call(payload)
    /\ UNCHANGED <<wire, wr, beyond, kind, frames, pos, size, data, image, first, out>>

\* The common header is not complete: Fill returns what the header returned.
HeaderRefused ==
    /\ top = packet /\ kind = "none" /\ ret = "false"
    /\ Return
    /\ UNCHANGED <<wire, rd, wr, beyond, parser, out>>

HeaderPartial ==
    /\ top = packet /\ kind = "none" /\ ret = "true" /\ ~Full(commonHeader)
    /\ pos' = [pos EXCEPT ![packet] = Total(_elements(packet), pos)]
    /\ Return
    /\ UNCHANGED <<wire, rd, wr, beyond, kind, frames, size, it, data, image, first, refused, out>>

\* The common header is complete: the payload is created and filled.
HeaderFull ==
    /\ top = packet /\ kind = "none" /\ ret = "true" /\ Full(commonHeader)
    /\ pos' = [pos EXCEPT ![packet] = Total(_elements(packet), pos)]
    /\ kind' = IF SingleByteNumber(data[payloadType]) = kPayloadTypes.images
               THEN "images" ELSE "frames"
    /\ size' = [size EXCEPT ![payloadHeader] =
                    CalcSize(Elements(payloadHeader, kind', frames), size)]
    /\ Call(payload)
    /\ UNCHANGED <<wire, rd, wr, beyond, frames, data, image, first, out>>

\* The payload has returned: the packet updates its position, and its size
\* once the payload is full.
PayloadReturned ==
    /\ top = packet /\ kind # "none" /\ ret # "none"
    /\ Return
    /\ UNCHANGED <<wire, rd, wr, beyond>>

PosAfterPayload == Total(_elements(packet), pos)
SizeAfterPayload == IF Full(payload) THEN CalcSize(_elements(packet), size) ELSE size[packet]

PacketPartial ==
    /\ PayloadReturned
    /\ ret = "true" => PosAfterPayload < SizeAfterPayload
    /\ pos' = [pos EXCEPT ![packet] = PosAfterPayload]
    /\ size' = [size EXCEPT ![packet] = SizeAfterPayload]
    /\ UNCHANGED <<kind, frames, it, data, image, first, refused, out>>

\* StreamDemuxer::Push hands a full packet on and starts a new one.
PacketDelivered ==
    /\ PayloadReturned
    /\ ret = "true" /\ PosAfterPayload >= SizeAfterPayload
    /\ out' = Append(out, [kind |-> kind, image |-> image,
                           size |-> SizeAfterPayload, first |-> first, last |-> rd])
    /\ NewPacket

-----------------------------------------------------------------------------
(* The loop of BaseField::Fill, in every field but the packet *)

InLoop == top \in Field \ {packet}

Looping ==
    /\ InLoop /\ ret = "none"
    /\ Remaining > 0 /\ ~End(top)

HeadAccepted ==
    Accepts(Kid, wire.bytes[rd + 1],
            \A k \in 2..4 : IF rd + k <= wr THEN wire.bytes[rd + k] = 0 ELSE beyond)

\* A leaf takes what it lacks, as far as the buffer goes.
AllBytes == Remaining    \* mutant: as much as there is
CopyBytes == IF Remaining < size[Kid] - pos[Kid] THEN Remaining ELSE size[Kid] - pos[Kid]

FillLeaf ==
    /\ Looping /\ Kid \in Leaf /\ HeadAccepted
    /\ LET n == CopyBytes
       IN  /\ rd' = rd + n
           /\ pos' = [pos EXCEPT ![Kid] = @ + n]
           /\ data' = IF Kid \in ReadLeaf
                      THEN [data EXCEPT ![Kid] = CopyToStart(@, wire.bytes, rd, n)]
                      ELSE data
           /\ image' = IF Kid = jpeg THEN image \o SubSeq(wire.bytes, rd + 1, rd + n) ELSE image
           /\ first' = IF Kid = startByte /\ n > 0 THEN rd + 1 ELSE first
    /\ ret' = "true"
    /\ UNCHANGED <<wire, wr, beyond, kind, frames, size, it, top, refused, out>>

RefuseLeaf ==
    /\ Looping /\ Kid \in Leaf /\ ~HeadAccepted
    /\ ret' = "false" /\ refused' = TRUE
    /\ UNCHANGED <<wire, rd, wr, beyond, kind, frames, pos, size, it, data, image, first, top, out>>

CallField ==
    /\ Looping /\ Kid \in Field
    /\ Call(Kid)
    /\ UNCHANGED <<wire, rd, wr, beyond, kind, frames, pos, size, data, image, first, out>>

\* Size of the payload's data once it holds n frames, with the sizes s.
SizeOfOldData(n, s) == CalcSize(_elements(payloadData), s)    \* mutant: sized too early
SizeOfData(n, s) == CalcSize(Elements(payloadData, kind, n), s)

\* The sizes of the payload and its data follow from those of their elements.
SizePayload(n, s) ==
    LET d == [s EXCEPT ![payloadData] = SizeOfData(n, s)]
    IN  [d EXCEPT ![payload] = CalcSize(_elements(payload), d)]

\* ImagePayload and FramePayload size their data when their header is full;
\* SetFrameNumber makes new FrameInformation objects.
SizeImage ==
    /\ kind = "images"
    /\ size' = SizePayload(frames, [size EXCEPT ![jpeg] = DataSize, ![padding] = PaddingSize])
    /\ UNCHANGED <<frames, pos>>

SizeFrames ==
    /\ kind = "frames"
    /\ FrameCount <= MaxFrames
    /\ frames' = FrameCount
    /\ size' = SizePayload(FrameCount, size)
    /\ pos' = [e \in Element |-> IF e \in FrameElement THEN 0 ELSE pos[e]]

DataFulfilled == top = payload /\ it[top] = 2      \* mutant: sized one element late
HeaderFulfilled == top = payload /\ it[top] = 1    \* idx == 0

Fulfilled ==
    IF HeaderFulfilled THEN SizeImage \/ SizeFrames ELSE UNCHANGED <<frames, pos, size>>

\* The element is full: on to the next one.
KidFull ==
    /\ InLoop /\ ret = "true" /\ Full(Kid)
    /\ Fulfilled
    /\ it' = [it EXCEPT ![top] = @ + 1]
    /\ ret' = "none"
    /\ UNCHANGED <<wire, rd, wr, beyond, kind, data, image, first, refused, top, out>>

\* The element is not full: the loop breaks.
KidPartial ==
    /\ InLoop /\ ret = "true" /\ ~Full(Kid)
    /\ Finish
    /\ UNCHANGED <<wire, rd, wr, beyond, kind, frames, size, it, data, image, first, refused, out>>

\* The element refused: return false at once, the position is not computed.
KidRefused ==
    /\ InLoop /\ ret = "false"
    /\ top' = Parent(top)
    /\ UNCHANGED <<wire, rd, wr, beyond, parser, ret, out>>

\* The buffer or the list of elements has run out.
EndLoop ==
    /\ InLoop /\ ret = "none"
    /\ Remaining = 0 \/ End(top)
    /\ Finish
    /\ UNCHANGED <<wire, rd, wr, beyond, kind, frames, size, it, data, image, first, refused, out>>

-----------------------------------------------------------------------------
Camera == \E n \in wire.cuts : Push(n)

Demuxer ==
    \/ FillPacket
    \/ HeaderRefused \/ HeaderPartial \/ HeaderFull
    \/ PacketPartial \/ PacketDelivered
    \/ FillLeaf \/ RefuseLeaf \/ CallField
    \/ KidFull \/ KidPartial \/ KidRefused \/ EndLoop

Next == Camera \/ Demuxer

Spec == Init /\ [][Next]_vars

\* The thread that calls Push keeps running, and the camera sends all it has.
FairSpec == Spec /\ WF_vars(Demuxer) /\ WF_vars(Camera)

-----------------------------------------------------------------------------
(* Properties *)

\* Every variable has its type.  The position and the size of a field are sums
\* over its elements; those of a leaf are numbers of bytes.
TypeOK ==
    /\ wire \in Wires
    /\ rd \in Nat /\ wr \in Nat /\ beyond \in BOOLEAN
    /\ kind \in {"none", "images", "frames"}
    /\ frames \in {NoFrames} \cup 0..MaxFrames
    /\ DOMAIN pos = Element /\ \A e \in Leaf : pos[e] \in Nat
    /\ DOMAIN size = Element /\ \A e \in Leaf : size[e] \in Nat
    /\ it \in [Field -> Nat \ {0}]
    /\ DOMAIN data = ReadLeaf /\ \A e \in ReadLeaf : data[e] \in [1..Width[e[1]] -> Byte]
    /\ image \in Seq(Byte)
    /\ top \in Field \cup {Idle}
    /\ ret \in {"none", "true", "false"}
    /\ refused \in BOOLEAN

\* The fields whose Fill has been called and has not returned.
Open ==
    IF top = Idle THEN {}
    ELSE {top, Parent(top), Parent(Parent(top)), Parent(Parent(Parent(top)))}

\* No leaf ever holds more bytes than its size, so Size() - pos, which every
\* Fill computes without a sign, never wraps around.
LeafBounds == \A e \in Leaf : pos[e] <= size[e]

\* _it never stands behind an element that still lacks bytes, whatever calls
\* were cut short by the end of a buffer or by a refusal, and although a field
\* whose position was never computed starts again at its first element.
PassedElementsFull ==
    \A f \in Field \ {packet} : \A k \in 1..(it[f] - 1) :
        k \in DOMAIN _elements(f) => Full(_elements(f)[k])

\* The image and its padding are filled only with the sizes the header announces,
\* and these stay (EmptyData::Fill asserts that there is one).
ImageSizedFirst ==
    kind = "images" /\ (payloadData \in Open \/ pos[jpeg] > 0 \/ pos[padding] > 0)
        => size[jpeg] = DataSize /\ size[padding] = PaddingSize

\* A field that counts as full, by the sums CalcPos and CalcSize have computed at
\* different times, has every element full.
FullFieldComplete ==
    \A f \in Field :
        Full(f) => \A k \in DOMAIN _elements(f) : Full(_elements(f)[k])

\* A Fill that returns true and leaves its element incomplete has used up the
\* buffer: BaseField::Fill calls "filled, not full, data remaining" an error.
PartialMeansRunOut ==
    /\ InLoop /\ ret = "true" /\ ~Full(Kid) => Remaining = 0
    /\ top = packet /\ ret = "true" /\ ~Full(IF kind = "none" THEN commonHeader ELSE payload)
            => Remaining = 0

\* The size a delivered packet reports is the number of bytes it has taken from
\* the stream, and no byte belongs to two packets.
SizeIsConsumption ==
    /\ \A k \in DOMAIN out : out[k].size = out[k].last - out[k].first + 1
    /\ \A k \in 2..Len(out) : out[k - 1].last < out[k].first

\* A packet that has refused a byte takes no further one and is never delivered:
\* the demuxer has no way to give a packet up, and what the retries compare with
\* the refused byte (every element again, or some) lets it nowhere in.
NoByteAfterRefusal ==
    [][refused => out' = out /\ \A e \in Leaf : pos'[e] = pos[e]]_vars

\* Each packet the camera sends reaches the stage below, in order.
Content == [k \in DOMAIN out |-> [kind |-> out[k].kind, image |-> out[k].image]]

Channel == INSTANCE PacketChannel
    WITH Streams <- {w.sent : w \in Wires}, sent <- wire.sent, delivered <- Content

ImplementsChannel == Channel!Spec

\* A call of Push returns, with the buffer used up.
PushReturns == (top # Idle \/ Remaining > 0) ~> (top = Idle /\ Remaining = 0)

\* The whole stream is delivered in the end.
AllDelivered == <>(Content = wire.sent)

\* BaseField.cpp:24, "not filled, full, data remaining : => fill next elem".
FullElementIsPassed ==
    [][InLoop /\ ret = "false" /\ Full(Kid) /\ Remaining > 0 => top' = top]_vars

\* IIncrementalFill.h:17, Fill returns false when "fill called when full".
FullLeafReturnsFalse ==
    [][Looping /\ Kid \in Leaf /\ Full(Kid) => ret' # "true"]_vars
=============================================================================
