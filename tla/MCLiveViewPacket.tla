---------------------------- MODULE MCLiveViewPacket ----------------------------
(***************************************************************************)
(* Streams for the model checker: packets as the camera encodes them, with *)
(* the reserved blocks cut to one byte, and the places where a read from   *)
(* the socket may end.                                                     *)
(***************************************************************************)
EXTENDS LiveViewPacket

Zeros(n) == [k \in 1..n |-> 0]

Header(type) == <<255, type>> \o Zeros(6)

\* An image of fewer than 256 bytes, followed by pad bytes of padding.
ImagePacket(bytes, pad) ==
    Header(1) \o kPayloadHeaderStartCode \o <<0, 0, Len(bytes), pad>>
        \o Zeros(5 + ImageReserved) \o bytes \o Zeros(pad)

FrameBytes == <<1, 2, 3, 4, 5, 6, 7, 8, 1, 5, 2>>

FramePacket(n) ==
    Header(2) \o kPayloadHeaderStartCode \o <<0, 0, n * 11, 0, 1, 0, 0, n, 0, 11>>
        \o Zeros(FrameReserved) \o [k \in 1..(n * 11) |-> FrameBytes[((k - 1) % 11) + 1]] \o Zeros(5)

ImageItem(bytes) == [kind |-> "images", image |-> bytes]
FrameItem == [kind |-> "frames", image |-> << >>]

\* Where a buffer may end in a packet that begins after byte o, so that no
\* number is split and an additional status has three more bytes after it.
SplitsNumber(o, isFrame, n) ==
    {o + 13, o + 14}
        \cup (IF isFrame THEN {o + 19} ELSE {})
        \cup (IF isFrame THEN {o + 22 + FrameReserved + 11 * i + j : i \in 1..n, j \in 0..2} ELSE {})

-----------------------------------------------------------------------------
(* Streams a camera sends *)

I1 == ImagePacket(<<255, 1>>, 1)
I2 == ImagePacket(<<7>>, 0)
F1 == FramePacket(1)

\* Junk that is skipped before and after the first packet.
Junk == <<0, 13>>

GoodBytes == Junk \o I1 \o Junk \o F1 \o I2

GoodWire ==
    LET o == Len(Junk \o I1 \o Junk) IN
    [bytes |-> GoodBytes,
     cuts |-> (1..Len(GoodBytes)) \ (SplitsNumber(Len(Junk), FALSE, 0)
                                       \cup SplitsNumber(o, TRUE, 1)
                                       \cup SplitsNumber(o + Len(F1), FALSE, 0)),
     sent |-> <<ImageItem(<<255, 1>>), FrameItem, ImageItem(<<7>>)>>]

GoodWires == {GoodWire}

\* The same image packets, cut anywhere.
CutAnywhere == {[bytes |-> I1 \o I2, cuts |-> 1..Len(I1 \o I2),
                 sent |-> <<ImageItem(<<255, 1>>), ImageItem(<<7>>)>>]}

\* An image without bytes or padding between two others.
EmptyImage ==
    LET b == I2 \o ImagePacket(<< >>, 0) \o I2 IN
    {[bytes |-> b, cuts |-> {Len(b)},
      sent |-> <<ImageItem(<<7>>), ImageItem(<< >>), ImageItem(<<7>>)>>]}

-----------------------------------------------------------------------------
(* Streams with one wrong byte *)

Wrong(bytes, at, b) == [bytes EXCEPT ![at] = b]

\* The bytes the parser looks at: start byte, type, start code, the three bytes
\* of the data size, the padding size; the enumerations of the second frame.
F2 == FramePacket(2)
Category2 == 22 + FrameReserved + 11 + 9

BadImages == {Wrong(I1 \o I2, at, b) : at \in {1, 2, 9, 11, 14, 15, 16}, b \in {0, 2, 255}}
BadFrames == {Wrong(F2 \o I2, at, b) : at \in {2, 12} \cup (Category2..(Category2 + 2)), b \in {1, 6, 255}}
                \cup {Wrong(F2 \o I2, 20, n) : n \in 0..MaxFrames}

\* The buffers of an image may end anywhere, those of two frames inside and at
\* the ends of the numbers and of the second frame's enumerations.
BadWires ==
    {[bytes |-> b, cuts |-> 1..Len(b), sent |-> << >>] : b \in BadImages}
        \cup {[bytes |-> b,
               cuts |-> {1, 10, 12, 19, 20, 30, Len(F2), Len(b)} \cup ((Category2 - 1)..(Category2 + 2)),
               sent |-> << >>] : b \in BadFrames}
=============================================================================
