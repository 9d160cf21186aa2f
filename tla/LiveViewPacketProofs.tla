------------------------- MODULE LiveViewPacketProofs -------------------------
(***************************************************************************)
(* Proofs about the parser for every stream, every way to cut it, every    *)
(* length of the reserved blocks and every bound on the frame count.       *)
(*                                                                         *)
(* The positions of fields are sums over their elements.  The argument     *)
(* here needs only that the sum of a field is computed when its Fill       *)
(* returns, and that a field found full is never entered again; what the   *)
(* sums amount to is the subject of LiveViewStreamProofs.                  *)
(***************************************************************************)
EXTENDS LiveViewPacket, TLAPS

(***************************************************************************)
(* The inductive invariant.                                                *)
(***************************************************************************)

InHeader == top \in {payloadHeader, startCode}
InData == top = payloadData \/ top \in FrameInformation

\* Something of the payload's data has been filled, or begun.
Touched ==
    \/ pos[jpeg] > 0 \/ pos[padding] > 0
    \/ it[payloadData] # 1
    \/ \E f \in FrameInformation : it[f] # 1

\* rd and wr bound the buffer, inside the stream.
BufferInv == rd <= wr /\ wr <= Len(wire.bytes)

\* Where the chain of calls stands tells where the payload's loop stands, and
\* the elements it passes through are not full.
ChainInv ==
    /\ InHeader => it[payload] = 1 /\ ~Full(payloadHeader)
    /\ InData => it[payload] = 2 /\ ~Full(payloadData)
    /\ top = startCode => ~Full(startCode)
    /\ top \in FrameInformation => ~Full(top)
    /\ kind = "none" /\ (top \in {Idle, commonHeader} \/ (top = packet /\ ret = "false"))
            => ~Full(commonHeader)
    /\ top \in {payload} \cup FrameInformation \/ InHeader \/ InData => kind # "none"

\* Before the header is known to be full, nothing behind it is touched.
HeaderFirst ==
    /\ kind = "none" =>
            ~Touched /\ it[payload] = 1 /\ it[payloadHeader] = 1
    /\ Touched \/ it[payload] # 1 => Full(payloadHeader)
    /\ top = payload /\ ret = "true" /\ it[payload] = 1 => ~Touched

\* The sizes of the image and its padding are those of the header.
ImageSized ==
    kind = "images" /\ (it[payload] # 1 \/ pos[jpeg] > 0 \/ pos[padding] > 0)
        => size[jpeg] = DataSize /\ size[padding] = PaddingSize

IInv ==
    /\ TypeOK /\ BufferInv /\ LeafBounds
    /\ ChainInv /\ HeaderFirst /\ ImageSized
    /\ PassedElementsFull
-----------------------------------------------------------------------------
(* The layout *)

\* The fields are different elements.
LEMMA FieldNames ==
    /\ packet # commonHeader /\ packet # payload /\ packet # payloadHeader
    /\ packet # startCode /\ packet # payloadData
    /\ commonHeader # payload /\ commonHeader # payloadHeader
    /\ commonHeader # startCode /\ commonHeader # payloadData
    /\ payload # payloadHeader /\ payload # startCode /\ payload # payloadData
    /\ payloadHeader # startCode /\ payloadHeader # payloadData
    /\ startCode # payloadData
    /\ \A f \in FrameInformation : f \notin {packet, commonHeader, payload, payloadHeader,
                                            startCode, payloadData, jpeg, padding}
    /\ Idle \notin Field
  BY DEF packet, commonHeader, payload, payloadHeader, payloadData, startCode, jpeg, padding,
        FrameInformation, Idle, Field

\* The elements of each field, one case of Elements at a time.
LEMMA FieldElements ==
    ASSUME NEW kd, NEW fr
    PROVE  /\ Elements(commonHeader, kd, fr) =
                    <<startByte, payloadType, <<"sequenceNumber", 0>>, <<"timeStamp", 0>> >>
           /\ Elements(payload, kd, fr) = <<payloadHeader, payloadData>>
           /\ Elements(payloadHeader, kd, fr) =
                    IF kd = "images"
                    THEN <<startCode, dataSize, paddingSize,
                           <<"imageReserved", 0>>, <<"flag", 0>>, <<"imageReserved2", 0>> >>
                    ELSE <<startCode, dataSize, paddingSize, <<"dataVersion", 0>>, frameCount,
                           <<"singleFrameDataSize", 0>>, <<"frameReserved", 0>> >>
           /\ Elements(startCode, kd, fr) = [k \in 1..4 |-> <<"startCodeByte", k>>]
<1>1. Elements(commonHeader, kd, fr) =
            <<startByte, payloadType, <<"sequenceNumber", 0>>, <<"timeStamp", 0>> >>
  BY FieldNames, Zenon DEF Elements
<1>2. Elements(payload, kd, fr) = <<payloadHeader, payloadData>>
  BY FieldNames, Zenon DEF Elements
<1>3. Elements(payloadHeader, kd, fr) =
            IF kd = "images"
            THEN <<startCode, dataSize, paddingSize,
                   <<"imageReserved", 0>>, <<"flag", 0>>, <<"imageReserved2", 0>> >>
            ELSE <<startCode, dataSize, paddingSize, <<"dataVersion", 0>>, frameCount,
                   <<"singleFrameDataSize", 0>>, <<"frameReserved", 0>> >>
  BY FieldNames, Zenon DEF Elements
<1>4. Elements(startCode, kd, fr) = [k \in 1..4 |-> <<"startCodeByte", k>>]
  BY FieldNames, Zenon DEF Elements
<1>5. QED
  BY <1>1, <1>2, <1>3, <1>4

\* The two elements of an image's data.
LEMMA ImageElements ==
    ASSUME NEW fr
    PROVE  Elements(payloadData, "images", fr) = <<jpeg, padding>>
  BY FieldNames, Zenon DEF Elements

\* The elements of a frame packet's data, before and after SetFrameNumber.
LEMMA FrameElements ==
    ASSUME NEW kd, kd # "images"
    PROVE  /\ Elements(payloadData, kd, NoFrames) = << >>
           /\ \A fr : fr # NoFrames =>
                Elements(payloadData, kd, fr) =
                    [k \in 1..(fr + 1) |-> IF k <= fr THEN <<"frameInformation", k>>
                                           ELSE <<"frameDataReserved", 0>>]
  BY FieldNames, Zenon DEF Elements

\* The five leaves of a FrameInformation.
LEMMA FrameInformationElements ==
    ASSUME NEW kd, NEW fr, NEW f \in FrameInformation
    PROVE  Elements(f, kd, fr) = [k \in 1..5 |-> <<FrameLeaf[k], f[2]>>]
<1>1. f \notin {packet, commonHeader, payload, payloadHeader, startCode, payloadData}
  BY FieldNames
<1>2. QED
  BY <1>1, Zenon DEF Elements

\* Which field holds an element, and where.
LEMMA Layout ==
    ASSUME NEW f \in Field \ {packet}, NEW kd \in {"none", "images", "frames"},
           NEW fr \in {NoFrames} \cup 0..MaxFrames,
           NEW k \in DOMAIN Elements(f, kd, fr), NEW e, e = Elements(f, kd, fr)[k]
    PROVE  /\ e \notin {packet, commonHeader, payload}
           /\ e = payloadHeader => f = payload /\ k = 1
           /\ e = payloadData => f = payload /\ k = 2
           /\ e = startCode => f = payloadHeader
           /\ e \in FrameInformation => f = payloadData
           /\ e \in {jpeg, padding} => f = payloadData
           /\ e \in {dataSize, paddingSize} => f = payloadHeader
           /\ e \in FrameElement => f \in {payloadData} \cup FrameInformation
<1> USE DEF packet, commonHeader, payload, payloadHeader, payloadData, startCode, startByte,
        payloadType, dataSize, paddingSize, frameCount, jpeg, padding
<1>1. ASSUME NEW x \in FrameElement
      PROVE  x[1] \in {"frameInformation", "topLeft", "buttomRight", "category", "status",
                       "additionalStatus"}
  BY DEF FrameElement, FrameInformation, FrameLeaf
<1>2. ASSUME NEW x \in FrameInformation
      PROVE  x[1] = "frameInformation"
  BY DEF FrameInformation
<1>3. CASE f = commonHeader
  <2>1. Elements(f, kd, fr) = <<startByte, payloadType, <<"sequenceNumber", 0>>, <<"timeStamp", 0>> >>
    BY <1>3, FieldElements
  <2>2. e \in {startByte, payloadType, <<"sequenceNumber", 0>>, <<"timeStamp", 0>>}
    BY <2>1
  <2>3. QED
    BY <2>2, <1>1, <1>2
<1>4. CASE f = payload
  <2>1. Elements(f, kd, fr) = <<payloadHeader, payloadData>>
    BY <1>4, FieldElements
  <2>2. (k = 1 /\ e = payloadHeader) \/ (k = 2 /\ e = payloadData)
    BY <2>1
  <2>3. QED
    BY <1>4, <2>2, <1>1, <1>2
<1>5. CASE f = payloadHeader
  <2>1. CASE kd = "images"
    <3>1. Elements(f, kd, fr) = <<startCode, dataSize, paddingSize,
                   <<"imageReserved", 0>>, <<"flag", 0>>, <<"imageReserved2", 0>> >>
      BY <1>5, <2>1, FieldElements
    <3>2. e \in {startCode, dataSize, paddingSize,
                 <<"imageReserved", 0>>, <<"flag", 0>>, <<"imageReserved2", 0>>}
      BY <3>1
    <3>3. QED
      BY <1>5, <3>2, <1>1, <1>2
  <2>2. CASE kd # "images"
    <3>1. Elements(f, kd, fr) = <<startCode, dataSize, paddingSize, <<"dataVersion", 0>>, frameCount,
                   <<"singleFrameDataSize", 0>>, <<"frameReserved", 0>> >>
      BY <1>5, <2>2, FieldElements
    <3>2. e \in {startCode, dataSize, paddingSize, <<"dataVersion", 0>>, frameCount,
                   <<"singleFrameDataSize", 0>>, <<"frameReserved", 0>>}
      BY <3>1
    <3>3. QED
      BY <1>5, <3>2, <1>1, <1>2
  <2>3. QED
    BY <2>1, <2>2
<1>6. CASE f = startCode
  <2>1. Elements(f, kd, fr) = [n \in 1..4 |-> <<"startCodeByte", n>>]
    BY <1>6, FieldElements
  <2>2. e = <<"startCodeByte", k>>
    BY <2>1
  <2>3. QED
    BY <2>2, <1>1, <1>2
<1>7. CASE f = payloadData
  <2>1. e \in {jpeg, padding} \/ e[1] \in {"frameInformation", "frameDataReserved"}
    <3>1. CASE kd = "images"
      <4>1. Elements(f, kd, fr) = <<jpeg, padding>>
        BY <1>7, <3>1, ImageElements
      <4>2. QED
        BY <4>1
    <3>2. CASE kd # "images" /\ fr = NoFrames
      <4>1. Elements(f, kd, fr) = << >>
        BY <1>7, <3>2, FrameElements
      <4>2. QED
        BY <4>1
    <3>3. CASE kd # "images" /\ fr # NoFrames
      <4>1. Elements(f, kd, fr) = [n \in 1..(fr + 1) |-> IF n <= fr THEN <<"frameInformation", n>>
                                                          ELSE <<"frameDataReserved", 0>>]
        BY <1>7, <3>3, FrameElements
      <4>2. e \in {<<"frameInformation", k>>, <<"frameDataReserved", 0>>}
        BY <4>1
      <4>3. QED
        BY <4>2
    <3>4. QED
      BY <3>1, <3>2, <3>3
  <2>2. QED
    BY <1>7, <2>1, <1>1, <1>2
<1>8. CASE f \in FrameInformation
  <2>1. Elements(f, kd, fr) = [n \in 1..5 |-> <<FrameLeaf[n], f[2]>>]
    BY <1>8, FrameInformationElements
  <2>2. k \in 1..5 /\ e[1] = FrameLeaf[k]
    BY <2>1
  <2>3. e[1] \in {"topLeft", "buttomRight", "category", "status", "additionalStatus"}
    BY <2>2 DEF FrameLeaf
  <2>4. QED
    BY <1>8, <2>3, <1>1, <1>2
<1>9. QED
  BY <1>3, <1>4, <1>5, <1>6, <1>7, <1>8 DEF Field

\* Leaves and fields are elements, and no field is a leaf.
LEMMA Members ==
    /\ jpeg \in Leaf /\ padding \in Leaf /\ ReadLeaf \subseteq Leaf
    /\ packet \in Field /\ commonHeader \in Field /\ payload \in Field
    /\ payloadHeader \in Field /\ startCode \in Field /\ payloadData \in Field
    /\ FrameInformation \subseteq Field
    /\ Leaf \subseteq Element /\ Field \subseteq Element
    /\ Leaf \cap Field = {}
<1>1. ReadLeaf \subseteq Leaf
  BY DEF ReadLeaf, Leaf, Width, FrameLeaf, payloadType, dataSize, paddingSize, frameCount
<1>2. \A e \in Leaf : e \in {jpeg, padding} \/ e[1] \in DOMAIN Width
  BY DEF Leaf, Width, FrameLeaf
<1>3. \A e \in {jpeg, padding} : e \notin Field
  BY DEF Field, FrameInformation, jpeg, padding, packet, commonHeader, payload, payloadHeader,
        startCode, payloadData
<1>4. \A e \in Field : e[1] \notin DOMAIN Width
  BY DEF Field, FrameInformation, Width, packet, commonHeader, payload, payloadHeader,
        startCode, payloadData
<1>5. QED
  BY <1>1, <1>2, <1>3, <1>4 DEF Leaf, Field, Element

\* What a field holds is an element.
LEMMA HeldElements ==
    ASSUME NEW f \in Field \ {packet}, NEW kd \in {"none", "images", "frames"},
           NEW fr \in {NoFrames} \cup 0..MaxFrames,
           NEW k \in DOMAIN Elements(f, kd, fr), NEW e, e = Elements(f, kd, fr)[k]
    PROVE  e \in Element
<1>1. \A n \in DOMAIN Width \ {"startCodeByte", "topLeft", "buttomRight", "category", "status",
                               "additionalStatus"} : <<n, 0>> \in Leaf
  BY DEF Leaf, FrameLeaf
<1>2. CASE f = commonHeader
  <2>1. e \in {startByte, payloadType, <<"sequenceNumber", 0>>, <<"timeStamp", 0>>}
    BY <1>2, FieldElements
  <2>2. QED
    BY <2>1, <1>1, Members DEF startByte, payloadType, Width
<1>3. CASE f = payload
  <2>1. e \in {payloadHeader, payloadData}
    BY <1>3, FieldElements
  <2>2. QED
    BY <2>1, Members
<1>4. CASE f = payloadHeader
  <2>1. CASE kd = "images"
    <3>1. Elements(f, kd, fr) = <<startCode, dataSize, paddingSize,
                   <<"imageReserved", 0>>, <<"flag", 0>>, <<"imageReserved2", 0>> >>
      BY <1>4, <2>1, FieldElements
    <3>2. e \in {startCode, dataSize, paddingSize,
                 <<"imageReserved", 0>>, <<"flag", 0>>, <<"imageReserved2", 0>>}
      BY <3>1
    <3>3. QED
      BY <3>2, <1>1, Members DEF dataSize, paddingSize, Width
  <2>2. CASE kd # "images"
    <3>1. Elements(f, kd, fr) = <<startCode, dataSize, paddingSize, <<"dataVersion", 0>>, frameCount,
                   <<"singleFrameDataSize", 0>>, <<"frameReserved", 0>> >>
      BY <1>4, <2>2, FieldElements
    <3>2. e \in {startCode, dataSize, paddingSize, <<"dataVersion", 0>>, frameCount,
                 <<"singleFrameDataSize", 0>>, <<"frameReserved", 0>>}
      BY <3>1
    <3>3. QED
      BY <3>2, <1>1, Members DEF dataSize, paddingSize, frameCount, Width
  <2>3. QED
    BY <2>1, <2>2
<1>5. CASE f = startCode
  <2>1. Elements(f, kd, fr) = [n \in 1..4 |-> <<"startCodeByte", n>>]
    BY <1>5, FieldElements
  <2>2. k \in 1..4 /\ e = <<"startCodeByte", k>>
    BY <2>1
  <2>3. QED
    BY <2>2, Members DEF Leaf
<1>6. CASE f = payloadData
  <2>1. CASE kd = "images"
    BY <1>6, <2>1, ImageElements, Members
  <2>2. CASE kd # "images" /\ fr = NoFrames
    <3>1. Elements(f, kd, fr) = << >>
      BY <1>6, <2>2, FrameElements
    <3>2. QED
      BY <3>1
  <2>3. CASE kd # "images" /\ fr # NoFrames
    <3>1. Elements(f, kd, fr) = [n \in 1..(fr + 1) |-> IF n <= fr THEN <<"frameInformation", n>>
                                                        ELSE <<"frameDataReserved", 0>>]
      BY <1>6, <2>3, FrameElements
    <3>2. fr \in 0..MaxFrames
      BY <2>3
    <3>3. k \in 1..(fr + 1) /\ e = IF k <= fr THEN <<"frameInformation", k>> ELSE <<"frameDataReserved", 0>>
      BY <3>1
    <3>4. (k \in 1..MaxFrames /\ e = <<"frameInformation", k>>) \/ e = <<"frameDataReserved", 0>>
      BY <3>2, <3>3, ElementsAssumption
    <3>5. QED
      BY <3>4, <1>1, Members DEF FrameInformation, Width
  <2>4. QED
    BY <2>1, <2>2, <2>3
<1>7. CASE f \in FrameInformation
  <2>1. Elements(f, kd, fr) = [n \in 1..5 |-> <<FrameLeaf[n], f[2]>>]
    BY <1>7, FrameInformationElements
  <2>2. k \in 1..5 /\ e = <<FrameLeaf[k], f[2]>> /\ f[2] \in 1..MaxFrames
    BY <2>1, <1>7 DEF FrameInformation
  <2>3. QED
    BY <2>2, Members DEF Leaf
<1>8. QED
  BY <1>2, <1>3, <1>4, <1>5, <1>6, <1>7 DEF Field

\* The elements of a field in a loop are a sequence.
LEMMA ElementsSequence ==
    ASSUME NEW f \in Field \ {packet}, NEW kd \in {"none", "images", "frames"},
           NEW fr \in {NoFrames} \cup 0..MaxFrames
    PROVE  /\ Len(Elements(f, kd, fr)) \in Nat
           /\ DOMAIN Elements(f, kd, fr) = 1..Len(Elements(f, kd, fr))
<1>1. CASE f = commonHeader
  BY <1>1, FieldElements
<1>2. CASE f = payload
  BY <1>2, FieldElements
<1>3. CASE f = payloadHeader
  <2>1. CASE kd = "images"
    <3>1. Elements(f, kd, fr) = <<startCode, dataSize, paddingSize,
                   <<"imageReserved", 0>>, <<"flag", 0>>, <<"imageReserved2", 0>> >>
      BY <1>3, <2>1, FieldElements
    <3>2. QED
      BY <3>1
  <2>2. CASE kd # "images"
    <3>1. Elements(f, kd, fr) = <<startCode, dataSize, paddingSize, <<"dataVersion", 0>>, frameCount,
                   <<"singleFrameDataSize", 0>>, <<"frameReserved", 0>> >>
      BY <1>3, <2>2, FieldElements
    <3>2. QED
      BY <3>1
  <2>3. QED
    BY <2>1, <2>2
<1>4. CASE f = startCode
  <2>1. Elements(f, kd, fr) = [n \in 1..4 |-> <<"startCodeByte", n>>]
    BY <1>4, FieldElements
  <2>2. QED
    BY <2>1
<1>5. CASE f = payloadData
  <2>1. CASE kd = "images"
    BY <1>5, <2>1, ImageElements
  <2>2. CASE kd # "images" /\ fr = NoFrames
    BY <1>5, <2>2, FrameElements
  <2>3. CASE kd # "images" /\ fr # NoFrames
    <3>1. Elements(f, kd, fr) = [n \in 1..(fr + 1) |-> IF n <= fr THEN <<"frameInformation", n>>
                                                        ELSE <<"frameDataReserved", 0>>]
      BY <1>5, <2>3, FrameElements
    <3>2. fr + 1 \in Nat
      BY <2>3, ElementsAssumption
    <3>3. QED
      BY <3>1, <3>2
  <2>4. QED
    BY <2>1, <2>2, <2>3
<1>6. CASE f \in FrameInformation
  <2>1. Elements(f, kd, fr) = [n \in 1..5 |-> <<FrameLeaf[n], f[2]>>]
    BY <1>6, FrameInformationElements
  <2>2. QED
    BY <2>1
<1>7. QED
  BY <1>1, <1>2, <1>3, <1>4, <1>5, <1>6 DEF Field

\* Where a Fill returns to.
LEMMA Parents ==
    /\ Parent(packet) = packet /\ Parent(commonHeader) = packet /\ Parent(payload) = packet
    /\ Parent(payloadHeader) = payload /\ Parent(payloadData) = payload
    /\ Parent(startCode) = payloadHeader
    /\ \A f \in FrameInformation : Parent(f) = payloadData
    /\ \A f \in Field : Parent(f) \in Field
<1>1. /\ Parent(packet) = packet /\ Parent(commonHeader) = packet /\ Parent(payload) = packet
      /\ Parent(payloadHeader) = payload /\ Parent(payloadData) = payload
      /\ Parent(startCode) = payloadHeader
  BY FieldNames, Zenon DEF Parent
<1>2. \A f \in FrameInformation : Parent(f) = payloadData
  <2>1. SUFFICES ASSUME NEW f \in FrameInformation PROVE Parent(f) = payloadData
    OBVIOUS
  <2>2. f \notin {packet, commonHeader, payload, payloadHeader, startCode, payloadData}
    BY FieldNames
  <2>3. QED
    BY <2>2, Zenon DEF Parent
<1>3. QED
  BY <1>1, <1>2 DEF Field

-----------------------------------------------------------------------------
(* The state *)

\* The element a loop stands at, by the field whose loop it is.
LEMMA KidLayout ==
    ASSUME TypeOK, Looping
    PROVE  /\ Kid \notin {packet, commonHeader, payload}
           /\ Kid = payloadHeader => top = payload /\ it[payload] = 1
           /\ Kid = payloadData => top = payload /\ it[payload] = 2
           /\ Kid = startCode => top = payloadHeader
           /\ Kid \in FrameInformation => top = payloadData
           /\ Kid \in {jpeg, padding} => top = payloadData
           /\ Kid \in {dataSize, paddingSize} => top = payloadHeader
           /\ Kid \in Field => Parent(Kid) = top
<1>1. /\ top \in Field \ {packet} /\ kind \in {"none", "images", "frames"}
      /\ frames \in {NoFrames} \cup 0..MaxFrames /\ it[top] \in Nat \ {0}
      /\ it[top] <= Len(Elements(top, kind, frames))
  <2>1. it[top] > Len(Elements(top, kind, frames)) => FALSE
    BY DEF Looping, InLoop, End, _elements
  <2>2. Len(Elements(top, kind, frames)) \in Nat
    BY ElementsSequence DEF TypeOK, Looping, InLoop
  <2>3. QED
    BY <2>1, <2>2 DEF TypeOK, Looping, InLoop
<1>2. it[top] \in DOMAIN Elements(top, kind, frames)
  BY <1>1, ElementsSequence
<1>3. /\ Kid \notin {packet, commonHeader, payload}
      /\ Kid = payloadHeader => top = payload /\ it[top] = 1
      /\ Kid = payloadData => top = payload /\ it[top] = 2
      /\ Kid = startCode => top = payloadHeader
      /\ Kid \in FrameInformation => top = payloadData
      /\ Kid \in {jpeg, padding} => top = payloadData
      /\ Kid \in {dataSize, paddingSize} => top = payloadHeader
  BY <1>1, <1>2, Layout DEF Kid, _elements
<1>4. Kid \in Field => Parent(Kid) = top
  BY <1>3, Parents DEF Field
<1>5. QED
  BY <1>3, <1>4

\* A field whose Fill is running is behind no _it.
LEMMA TopNotPassed ==
    ASSUME IInv, InLoop, NEW f \in Field \ {packet}, NEW k \in 1..(it[f] - 1),
           k \in DOMAIN _elements(f)
    PROVE  _elements(f)[k] # top
<1>1. Full(_elements(f)[k])
  BY DEF IInv, PassedElementsFull
<1>2. kind \in {"none", "images", "frames"} /\ frames \in {NoFrames} \cup 0..MaxFrames
  BY DEF IInv, TypeOK
<1>3. SUFFICES ASSUME _elements(f)[k] = top PROVE FALSE
  OBVIOUS
<1>4. top \notin {packet, commonHeader, payload}
  BY <1>2, <1>3, Layout DEF _elements
<1>5. ~Full(top)
  BY <1>4 DEF InLoop, Field, IInv, ChainInv, InHeader, InData
<1>6. QED
  BY <1>1, <1>3, <1>5

-----------------------------------------------------------------------------
(* The invariant holds initially *)

\* The constructors give every leaf a size.
LEMMA InitialSizes ==
    /\ DOMAIN InitialSize = Element
    /\ \A e \in Leaf : InitialSize[e] \in Nat
    /\ InitialSize[commonHeader] = 8
<1>1. ASSUME NEW e \in Leaf \ {jpeg, padding}
      PROVE  Width[e[1]] \in Nat
  BY ElementsAssumption DEF Leaf, Width, FrameLeaf, jpeg, padding
<1>2. commonHeader \in Element /\ commonHeader \notin Leaf /\ commonHeader # startCode
  BY FieldNames, Members
<1>3. ASSUME NEW e \in Leaf
      PROVE  InitialSize[e] \in Nat
  <2>1. e \in Element /\ e # startCode /\ e # commonHeader /\ e \notin FrameInformation
    BY Members
  <2>2. QED
    BY <1>1, <2>1, ElementsAssumption DEF InitialSize
<1>4. InitialSize[commonHeader] = 8
  BY <1>2 DEF InitialSize, Width
<1>5. QED
  BY <1>3, <1>4 DEF InitialSize

\* The invariant holds before the first call of Fill.
LEMMA InitInv == Init => IInv
<1>1. SUFFICES ASSUME Init PROVE IInv
  OBVIOUS
<1> USE <1>1, FieldNames, Members, InitialSizes DEF Init
<1>2. TypeOK
  <2>1. DOMAIN data = ReadLeaf /\ \A e \in ReadLeaf : data[e] \in [1..Width[e[1]] -> Byte]
    BY DEF NoData, Byte
  <2>2. image \in Seq(Byte)
    OBVIOUS
  <2>3. it \in [Field -> Nat \ {0}]
    OBVIOUS
  <2>4. QED
    BY <2>1, <2>2, <2>3 DEF TypeOK
<1>3. BufferInv
  BY WiresAssumption DEF BufferInv
<1>4. LeafBounds
  BY DEF LeafBounds
<1>5. ChainInv
  <2>1. ~Full(commonHeader)
    BY DEF Full
  <2>2. QED
    BY <2>1 DEF ChainInv, InHeader, InData
<1>6. HeaderFirst
  BY DEF HeaderFirst, Touched
<1>7. ImageSized
  BY DEF ImageSized
<1>8. PassedElementsFull
  BY DEF PassedElementsFull
<1>9. QED
  BY <1>2, <1>3, <1>4, <1>5, <1>6, <1>7, <1>8 DEF IInv

-----------------------------------------------------------------------------
(* Each action keeps it *)

\* A step that moves only along the chain of calls and the buffer.
LEMMA ControlStep ==
    ASSUME IInv, UNCHANGED <<wire, kind, frames, pos, size, it, data, image>>,
           rd' \in Nat, wr' \in Nat, beyond' \in BOOLEAN, refused' \in BOOLEAN, BufferInv',
           top' \in Field \cup {Idle}, ret' \in {"none", "true", "false"}, ChainInv',
           top' = payload /\ ret' = "true" => top = payload /\ ret = "true"
    PROVE  IInv'
<1> USE DEF IInv
<1>1. TypeOK'
  BY DEF TypeOK
<1>2. LeafBounds'
  BY DEF LeafBounds
<1>3. HeaderFirst'
  BY DEF HeaderFirst, Touched, Full
<1>4. ImageSized'
  BY DEF ImageSized, DataSize, PaddingSize
<1>5. PassedElementsFull'
  BY DEF PassedElementsFull, Full, _elements
<1>6. QED
  BY <1>1, <1>2, <1>3, <1>4, <1>5

\* It does not depend on anything but the variables.
LEMMA StutterInv == ASSUME IInv, UNCHANGED vars PROVE IInv'
<1>1. ChainInv'
  BY DEF IInv, ChainInv, InHeader, InData, Full, vars, parser
<1>2. QED
  BY <1>1, ControlStep DEF IInv, TypeOK, BufferInv, vars, parser

\* A new buffer disturbs nothing but the bounds of the buffer.
LEMMA PushInv == ASSUME IInv, NEW n \in wire.cuts, Push(n) PROVE IInv'
<1>1. ChainInv'
  BY DEF IInv, ChainInv, InHeader, InData, Full, Push, parser
<1>2. n \in Nat /\ n <= Len(wire.bytes)
  BY WiresAssumption DEF IInv, TypeOK
<1>3. BufferInv' /\ wr' \in Nat
  BY <1>2 DEF IInv, TypeOK, BufferInv, Push
<1>4. QED
  BY <1>1, <1>3, ControlStep DEF IInv, TypeOK, Push, parser

\* A refused common header leaves the packet as it is.
LEMMA HeaderRefusedInv == ASSUME IInv, HeaderRefused PROVE IInv'
<1>1. ChainInv'
  BY FieldNames DEF IInv, ChainInv, InHeader, InData, Full, HeaderRefused, Return, parser, Field
<1>2. QED
  BY <1>1, FieldNames, ControlStep DEF IInv, TypeOK, BufferInv, HeaderRefused, Return, parser, Field

\* A refusal is passed up the chain of callers.
LEMMA KidRefusedInv == ASSUME IInv, KidRefused PROVE IInv'
<1>1. ChainInv'
  BY FieldNames, Parents
     DEF IInv, ChainInv, InHeader, InData, Full, KidRefused, InLoop, parser, Field
<1>2. QED
  BY <1>1, Parents, ControlStep DEF IInv, TypeOK, BufferInv, KidRefused, InLoop, parser

\* A leaf that refuses takes nothing.
LEMMA RefuseLeafInv == ASSUME IInv, RefuseLeaf PROVE IInv'
<1>1. ChainInv'
  BY FieldNames DEF IInv, ChainInv, InHeader, InData, Full, RefuseLeaf, Looping, InLoop, Field
<1>2. QED
  BY <1>1, ControlStep DEF IInv, TypeOK, BufferInv, RefuseLeaf

\* Entering a field that is not full, from where the code calls it.
LEMMA EnterInv ==
    ASSUME IInv, NEW f \in Field \ {packet}, Enter(f), ~Full(f),
           UNCHANGED <<wire, wr, beyond, kind, frames, pos, size, data, image>>,
           rd' \in Nat, BufferInv',
           f # commonHeader => kind # "none",
           f = payloadHeader => it[payload] = 1,
           f = payloadData => it[payload] = 2,
           f = startCode => InHeader,
           f \in FrameInformation => top = payloadData
    PROVE  IInv'
<1> USE Members, FieldNames DEF IInv, Enter
<1>1. it' \in [Field -> Nat \ {0}] /\ \A g \in Field : it'[g] = it[g] \/ it'[g] = 1
  BY DEF Resume, TypeOK
<1>2. \A g \in Field \ {f} : it'[g] = it[g]
  BY DEF TypeOK
<1>3. TypeOK'
  BY <1>1 DEF TypeOK
<1>4. LeafBounds'
  BY DEF LeafBounds
<1>5. ChainInv'
  BY <1>2 DEF ChainInv, InHeader, InData, Full, Field
<1>6. HeaderFirst'
  BY <1>1, <1>2 DEF HeaderFirst, Touched, Full
<1>7. ImageSized'
  BY <1>1 DEF ImageSized, DataSize, PaddingSize
<1>8. PassedElementsFull'
  BY <1>1 DEF PassedElementsFull, Full, _elements
<1>9. QED
  BY <1>3, <1>4, <1>5, <1>6, <1>7, <1>8

\* The demuxer enters the common header, or the payload behind a full one.
LEMMA FillPacketInv == ASSUME IInv, FillPacket PROVE IInv'
<1>1. rd' \in Nat /\ BufferInv'
  BY DEF FillPacket, IInv, TypeOK, BufferInv
<1>2. CASE ~Full(commonHeader) /\ Call(commonHeader)
  BY <1>1, <1>2, EnterInv, Members, FieldNames DEF FillPacket, Call, IInv
<1>3. CASE Full(commonHeader) /\ Call(payload)
  <2>1. kind # "none"
    BY <1>3 DEF FillPacket, IInv, ChainInv
  <2>2. CASE Full(payload)
    <3>1. ChainInv'
      BY <1>3, <2>1, <2>2, FieldNames, Parents
         DEF FillPacket, Call, IInv, ChainInv, InHeader, InData
    <3>2. QED
      BY <1>1, <1>3, <2>2, <3>1, Parents, Members, FieldNames, ControlStep
         DEF FillPacket, Call, IInv, TypeOK
  <2>3. CASE ~Full(payload)
    BY <1>1, <1>3, <2>1, <2>3, EnterInv, Members, FieldNames DEF FillPacket, Call, IInv
  <2>4. QED
    BY <2>2, <2>3
<1>4. QED
  BY <1>2, <1>3 DEF FillPacket

\* A loop enters the field it stands at, unless that is full.
LEMMA CallFieldInv == ASSUME IInv, CallField PROVE IInv'
<1>1. /\ Kid \in Field \ {packet, commonHeader, payload}
      /\ Kid = payloadHeader => top = payload /\ it[payload] = 1
      /\ Kid = payloadData => top = payload /\ it[payload] = 2
      /\ Kid = startCode => top = payloadHeader
      /\ Kid \in FrameInformation => top = payloadData
      /\ Parent(Kid) = top
  BY KidLayout DEF CallField, IInv
<1>2. top \in Field \ {packet} /\ ret = "none"
  BY DEF CallField, Looping, InLoop
<1>3. CASE Full(Kid)
  <2>1. ChainInv'
    BY <1>1, <1>2, <1>3, FieldNames DEF CallField, Call, IInv, ChainInv, InHeader, InData, Full
  <2>2. QED
    BY <1>1, <1>2, <1>3, <2>1, ControlStep DEF CallField, Call, IInv, TypeOK, BufferInv
<1>4. CASE ~Full(Kid)
  <2>1. Kid # commonHeader => kind # "none"
    BY <1>1, FieldNames DEF IInv, ChainInv, InHeader, InData, Field
  <2>2. QED
    BY <1>1, <1>4, <2>1, EnterInv DEF CallField, Call, InHeader, IInv, TypeOK, BufferInv
<1>5. QED
  BY <1>3, <1>4

\* A Fill that leaves its loop: only the position of its own field changes.
LEMMA FinishInv ==
    ASSUME IInv, InLoop, Finish,
           UNCHANGED <<wire, rd, wr, beyond, kind, frames, size, it, data, image, refused>>
    PROVE  IInv'
<1> USE Members, FieldNames DEF IInv, Finish, InLoop
<1>1. \A e \in Element \ {top} : pos'[e] = pos[e]
  BY DEF TypeOK
<1>2. TypeOK'
  BY <1>1, Parents DEF TypeOK
<1>3. BufferInv'
  BY DEF BufferInv
<1>4. LeafBounds'
  BY <1>1 DEF LeafBounds
<1>5. ChainInv'
  BY <1>1, Parents DEF ChainInv, InHeader, InData, Full, Field
<1>6. HeaderFirst'
  <2>1. Touched' <=> Touched
    BY <1>1 DEF Touched
  <2>2. top # payloadHeader => (Full(payloadHeader)' <=> Full(payloadHeader))
    BY <1>1 DEF Full
  <2>3. top = payloadHeader => ~Touched /\ it[payload] = 1
    BY DEF HeaderFirst, ChainInv, InHeader
  <2>4. top' = payload /\ it[payload] = 1 => top = payloadHeader
    <3>1. top = payloadData => it[payload] = 2
      BY DEF ChainInv, InData
    <3>2. top \in {commonHeader, payload} => top' = packet
      BY Parents
    <3>3. top = startCode => top' = payloadHeader
      BY Parents
    <3>4. top \in FrameInformation => top' = payloadData
      BY Parents
    <3>5. QED
      BY <3>1, <3>2, <3>3, <3>4 DEF Field
  <2>5. QED
    BY <2>1, <2>2, <2>3, <2>4 DEF HeaderFirst
<1>7. ImageSized'
  BY <1>1 DEF ImageSized, DataSize, PaddingSize
<1>8. PassedElementsFull'
  <2>1. SUFFICES ASSUME NEW f \in Field \ {packet}, NEW k \in 1..(it[f] - 1),
                        k \in DOMAIN _elements(f)
                 PROVE  Full(_elements(f)[k])'
    BY DEF PassedElementsFull, _elements
  <2>2. _elements(f)[k] # top /\ Full(_elements(f)[k])
    BY <2>1, TopNotPassed DEF PassedElementsFull
  <2>3. QED
    BY <2>2 DEF Full, TypeOK, _elements
<1>9. QED
  BY <1>2, <1>3, <1>4, <1>5, <1>6, <1>7, <1>8

\* A loop that breaks off leaves _it where it is.
LEMMA KidPartialInv == ASSUME IInv, KidPartial PROVE IInv'
  BY FinishInv DEF KidPartial

\* So does a loop that ends.
LEMMA EndLoopInv == ASSUME IInv, EndLoop PROVE IInv'
  BY FinishInv DEF EndLoop

\* The position and the size of the packet itself concern nobody else.
LEMMA PacketStepInv ==
    ASSUME IInv, top = packet, Return,
           UNCHANGED <<wire, rd, wr, beyond, kind, frames, it, data, image, refused>>,
           DOMAIN pos' = Element, DOMAIN size' = Element,
           \A e \in Element \ {packet} : pos'[e] = pos[e] /\ size'[e] = size[e],
           kind = "none" => ~Full(commonHeader)
    PROVE  IInv'
<1> USE Members, FieldNames DEF IInv, Return
<1>1. TypeOK'
  BY DEF TypeOK
<1>2. BufferInv'
  BY DEF BufferInv
<1>3. LeafBounds'
  BY DEF LeafBounds
<1>4. ChainInv'
  BY DEF ChainInv, InHeader, InData, Full
<1>5. HeaderFirst'
  BY DEF HeaderFirst, Touched, Full
<1>6. ImageSized'
  BY DEF ImageSized, DataSize, PaddingSize
<1>7. PassedElementsFull'
  <2>1. SUFFICES ASSUME NEW f \in Field \ {packet}, NEW k \in 1..(it[f] - 1),
                        k \in DOMAIN Elements(f, kind, frames)
                 PROVE  Full(_elements(f)[k])'
    BY DEF PassedElementsFull, _elements
  <2>2. Full(_elements(f)[k])
    BY <2>1 DEF PassedElementsFull, _elements
  <2>3. _elements(f)[k] \in Element \ {packet}
    BY <2>1, HeldElements, Layout DEF TypeOK, _elements
  <2>4. QED
    BY <2>2, <2>3 DEF Full, _elements
<1>8. QED
  BY <1>1, <1>2, <1>3, <1>4, <1>5, <1>6, <1>7

\* Computing the packet's position touches no leaf.
LEMMA HeaderPartialInv == ASSUME IInv, HeaderPartial PROVE IInv'
  BY PacketStepInv, Members DEF HeaderPartial, IInv, TypeOK

\* Nor does computing its size.
LEMMA PacketPartialInv == ASSUME IInv, PacketPartial PROVE IInv'
  BY PacketStepInv, Members DEF PacketPartial, PayloadReturned, IInv, TypeOK

\* A new packet satisfies the invariant as the first one did.
LEMMA PacketDeliveredInv == ASSUME IInv, PacketDelivered PROVE IInv'
<1> USE FieldNames, Members, InitialSizes DEF PacketDelivered, PayloadReturned, NewPacket, Return, IInv
<1>1. TypeOK'
  <2>1. DOMAIN data' = ReadLeaf /\ \A e \in ReadLeaf : data'[e] \in [1..Width[e[1]] -> Byte]
    BY DEF NoData, Byte
  <2>2. image' \in Seq(Byte)
    OBVIOUS
  <2>3. it' \in [Field -> Nat \ {0}]
    OBVIOUS
  <2>4. QED
    BY <2>1, <2>2, <2>3 DEF TypeOK
<1>2. BufferInv'
  BY DEF BufferInv
<1>3. LeafBounds'
  BY DEF LeafBounds
<1>4. ChainInv'
  <2>1. ~Full(commonHeader)'
    BY DEF Full
  <2>2. QED
    BY <2>1 DEF ChainInv, InHeader, InData
<1>5. HeaderFirst'
  BY DEF HeaderFirst, Touched
<1>6. ImageSized'
  BY DEF ImageSized
<1>7. PassedElementsFull'
  BY DEF PassedElementsFull
<1>8. QED
  BY <1>1, <1>2, <1>3, <1>4, <1>5, <1>6, <1>7

\* The header is complete: the payload is created.  Only its header is sized,
\* and no loop of the payload has begun.
LEMMA HeaderFullInv == ASSUME IInv, HeaderFull PROVE IInv'
<1> USE FieldNames, Members, Parents DEF HeaderFull, IInv
<1>1. /\ kind' \in {"images", "frames"} /\ kind = "none"
      /\ top' \in {packet, payload} /\ ret' \in {"none", "false"}
      /\ \A e \in Element \ {packet} : pos'[e] = pos[e]
      /\ \A e \in Element \ {payloadHeader} : size'[e] = size[e]
      /\ DOMAIN pos' = Element /\ DOMAIN size' = Element
  BY DEF Call, Enter, TypeOK
<1>2. it' \in [Field -> Nat \ {0}] /\ \A g \in Field \ {payload} : it'[g] = it[g]
  <2>1. it \in [Field -> Nat \ {0}] /\ Resume(payload) \in Nat \ {0}
    BY DEF Resume, TypeOK
  <2>2. it' = it \/ it' = [it EXCEPT ![payload] = Resume(payload)]
    BY DEF Call, Enter
  <2>3. QED
    BY <2>1, <2>2
<1>3. it'[payload] = 1 /\ ~Touched /\ it[payloadHeader] = 1
  BY <1>2 DEF Call, Enter, Resume, HeaderFirst, TypeOK
<1>4. TypeOK'
  <2>1. refused' \in BOOLEAN
    BY DEF Call, Enter, TypeOK
  <2>2. QED
    BY <1>1, <1>2, <2>1 DEF TypeOK
<1>5. BufferInv'
  BY DEF BufferInv
<1>6. LeafBounds'
  BY <1>1 DEF LeafBounds
<1>7. ChainInv'
  BY <1>1 DEF ChainInv, InHeader, InData
<1>8. ~Touched'
  BY <1>1, <1>2, <1>3 DEF Touched
<1>9. HeaderFirst'
  BY <1>1, <1>3, <1>8 DEF HeaderFirst
<1>10. ImageSized'
  BY <1>3, <1>8 DEF ImageSized, Touched
<1>11. PassedElementsFull'
  <2>1. SUFFICES ASSUME NEW f \in Field \ {packet}, NEW k \in 1..(it'[f] - 1),
                        k \in DOMAIN Elements(f, kind', frames)
                 PROVE  Full(_elements(f)[k])'
    BY DEF PassedElementsFull, _elements
  <2>2. f \notin {payload, payloadHeader, payloadData}
    BY <1>2, <1>3, <2>1 DEF Touched
  <2>3. Elements(f, kind', frames) = Elements(f, kind, frames)
    BY <2>1, <2>2, FieldElements, FrameInformationElements, SMTT(30) DEF Field
  <2>4. it'[f] = it[f] /\ Full(Elements(f, kind, frames)[k])
    BY <1>2, <2>1, <2>2, <2>3 DEF PassedElementsFull, _elements
  <2>5. Elements(f, kind, frames)[k] \in Element \ {packet, payloadHeader}
    BY <2>1, <2>2, <2>3, HeldElements, Layout DEF TypeOK
  <2>6. QED
    BY <1>1, <2>3, <2>4, <2>5 DEF Full, _elements
<1>12. QED
  BY <1>4, <1>5, <1>6, <1>7, <1>9, <1>10, <1>11

\* A leaf takes bytes: never more than it lacks, and none of the payload's data
\* before the header is full.
LEMMA FillLeafInv == ASSUME IInv, FillLeaf PROVE IInv'
<1> USE FieldNames, Members DEF IInv
<1> DEFINE n == CopyBytes
<1>1. /\ Kid \in Leaf /\ Kid \in Element /\ Kid \notin Field
      /\ top \in Field \ {packet}
      /\ Kid \in {jpeg, padding} => top = payloadData
      /\ Kid \in {dataSize, paddingSize} => top = payloadHeader
  BY KidLayout DEF FillLeaf, Looping, InLoop
<1>2. /\ n \in Nat /\ n <= Remaining /\ pos[Kid] + n <= size[Kid]
      /\ Remaining \in Nat /\ rd \in Nat /\ wr \in Nat /\ rd + n <= wr
  BY <1>1, SMTT(30) DEF CopyBytes, TypeOK, BufferInv, LeafBounds, Remaining
<1>3. wire.bytes \in Seq(Byte)
  BY WiresAssumption DEF TypeOK
<1>4. \A k \in 1..n : wire.bytes[rd + k] \in Byte
  <2>1. SUFFICES ASSUME NEW k \in 1..n PROVE wire.bytes[rd + k] \in Byte
    OBVIOUS
  <2>2. Len(wire.bytes) \in Nat /\ rd + k \in 1..Len(wire.bytes)
    BY <1>2, <1>3, <2>1 DEF BufferInv
  <2>3. QED
    BY <1>3, <2>2
<1>5. /\ pos' = [pos EXCEPT ![Kid] = pos[Kid] + n]
      /\ DOMAIN pos' = Element /\ pos'[Kid] = pos[Kid] + n
      /\ \A e \in Element \ {Kid} : pos'[e] = pos[e]
  BY <1>1 DEF FillLeaf, TypeOK
<1>6. UNCHANGED <<wire, wr, beyond, kind, frames, size, it, top, refused>> /\ ret' = "true"
  BY DEF FillLeaf
<1>7. TypeOK'
  <2>1. rd' \in Nat
    BY <1>2 DEF FillLeaf
  <2>2. \A e \in Leaf : pos'[e] \in Nat
    BY <1>1, <1>2, <1>5 DEF TypeOK
  <2>3. DOMAIN data' = ReadLeaf /\ \A e \in ReadLeaf : data'[e] \in [1..Width[e[1]] -> Byte]
    <3>1. CASE Kid \notin ReadLeaf
      BY <3>1 DEF FillLeaf, TypeOK
    <3>2. CASE Kid \in ReadLeaf
      <4>1. CopyToStart(data[Kid], wire.bytes, rd, n) \in [1..Width[Kid[1]] -> Byte]
        <5>1. data[Kid] \in [1..Width[Kid[1]] -> Byte]
          BY <3>2 DEF TypeOK
        <5>2. Width[Kid[1]] \in Nat
          BY <3>2 DEF ReadLeaf, Width, payloadType, dataSize, paddingSize, frameCount
        <5>3. ASSUME NEW k \in 1..Width[Kid[1]]
              PROVE  (IF k <= n THEN wire.bytes[rd + k] ELSE data[Kid][k]) \in Byte
          <6>1. CASE k <= n
            BY <1>2, <1>4, <5>2, <6>1
          <6>2. CASE ~(k <= n)
            BY <5>1, <6>2
          <6>3. QED
            BY <6>1, <6>2
        <5>4. QED
          BY <5>1, <5>3 DEF CopyToStart
      <4>2. data' = [data EXCEPT ![Kid] = CopyToStart(data[Kid], wire.bytes, rd, n)]
        BY <3>2 DEF FillLeaf
      <4>3. QED
        BY <3>2, <4>1, <4>2 DEF TypeOK
    <3>3. QED
      BY <3>1, <3>2
  <2>4. image' \in Seq(Byte)
    <3>1. SubSeq(wire.bytes, rd + 1, rd + n) \in Seq(Byte)
      <4>1. Len(wire.bytes) \in Nat /\ rd + n <= Len(wire.bytes)
        BY <1>2, <1>3 DEF BufferInv
      <4>2. QED
        BY <1>2, <1>3, <4>1
    <3>2. QED
      BY <3>1 DEF FillLeaf, TypeOK
  <2>5. QED
    BY <1>5, <1>6, <2>1, <2>2, <2>3, <2>4 DEF TypeOK
<1>8. BufferInv'
  BY <1>2, <1>6 DEF FillLeaf, BufferInv
<1>9. LeafBounds'
  BY <1>1, <1>2, <1>5, <1>6 DEF LeafBounds
<1>10. \A f \in Field : Full(f)' <=> Full(f)
  BY <1>1, <1>5, <1>6 DEF Full
<1>11. ChainInv'
  BY <1>1, <1>6, <1>10 DEF ChainInv, InHeader, InData
<1>12. HeaderFirst'
  <2>1. Kid \in {jpeg, padding} => it[payload] = 2 /\ kind # "none" /\ top # payload
    BY <1>1 DEF ChainInv, InData
  <2>2. Kid \notin {jpeg, padding} => (Touched' <=> Touched)
    BY <1>5, <1>6 DEF Touched
  <2>3. top # payload
    <3>1. SUFFICES ASSUME top = payload PROVE FALSE
      OBVIOUS
    <3>2. Len(Elements(payload, kind, frames)) = 2
      BY FieldElements
    <3>3. it[payload] \in Nat \ {0}
      BY DEF TypeOK
    <3>4. ~(it[payload] > Len(Elements(payload, kind, frames)))
      BY <3>1 DEF FillLeaf, Looping, End, _elements
    <3>5. it[payload] \in {1, 2}
      BY <3>2, <3>3, <3>4
    <3>6. Kid \in {payloadHeader, payloadData}
      BY <3>1, <3>5, FieldElements DEF Kid, _elements
    <3>7. QED
      BY <1>1, <3>6
  <2>4. QED
    BY <1>1, <1>6, <1>10, <2>1, <2>2, <2>3 DEF HeaderFirst
<1>13. ImageSized'
  <2>1. CASE Kid \in {jpeg, padding}
    <3>1. it[payload] # 1
      BY <1>1, <2>1 DEF ChainInv, InData
    <3>2. data' = data
      BY <2>1 DEF FillLeaf, ReadLeaf, jpeg, padding, payloadType, dataSize, paddingSize, frameCount
    <3>3. QED
      BY <1>6, <3>1, <3>2 DEF ImageSized, DataSize, PaddingSize
  <2>2. CASE Kid \in {dataSize, paddingSize}
    <3>1. it[payload] = 1 /\ ~Touched
      BY <1>1, <2>2 DEF ChainInv, InHeader, HeaderFirst
    <3>2. Kid \notin {jpeg, padding}
      BY <2>2 DEF jpeg, padding, dataSize, paddingSize
    <3>3. QED
      BY <1>5, <1>6, <3>1, <3>2 DEF ImageSized, Touched
  <2>3. CASE Kid \notin {jpeg, padding, dataSize, paddingSize}
    <3>1. data'[dataSize] = data[dataSize] /\ data'[paddingSize] = data[paddingSize]
      BY <2>3 DEF FillLeaf, TypeOK, ReadLeaf
    <3>2. QED
      BY <1>5, <1>6, <2>3, <3>1 DEF ImageSized, DataSize, PaddingSize
  <2>4. QED
    BY <2>1, <2>2, <2>3
<1>14. PassedElementsFull'
  <2>1. SUFFICES ASSUME NEW f \in Field \ {packet}, NEW k \in 1..(it[f] - 1),
                        k \in DOMAIN Elements(f, kind, frames)
                 PROVE  Full(_elements(f)[k])'
    BY <1>6 DEF PassedElementsFull, _elements
  <2>2. Full(_elements(f)[k])
    BY <2>1 DEF PassedElementsFull, _elements
  <2>3. _elements(f)[k] \in Element
    BY <2>1, HeldElements DEF TypeOK, _elements
  <2>4. size[Kid] <= pos[Kid] => size[Kid] <= pos[Kid] + n
    BY <1>1, <1>2, SMTT(30) DEF TypeOK
  <2>5. QED
    BY <1>5, <1>6, <2>2, <2>3, <2>4 DEF Full, _elements
<1>15. QED
  BY <1>7, <1>8, <1>9, <1>11, <1>12, <1>13, <1>14

\* The numbers the header holds are natural numbers.
LEMMA Numbers ==
    ASSUME TypeOK
    PROVE  DataSize \in Nat /\ PaddingSize \in Nat /\ FrameCount \in Nat
<1>1. \A e \in ReadLeaf : \A k \in 1..Width[e[1]] : data[e][k] \in Nat
  <2>1. SUFFICES ASSUME NEW e \in ReadLeaf, NEW k \in 1..Width[e[1]] PROVE data[e][k] \in Nat
    OBVIOUS
  <2>2. data[e] \in [1..Width[e[1]] -> Byte]
    BY <2>1 DEF TypeOK
  <2>3. data[e][k] \in Byte
    BY <2>1, <2>2
  <2>4. QED
    BY <2>3 DEF Byte
<1>2. /\ Width[dataSize[1]] = 3 /\ Width[paddingSize[1]] = 1 /\ Width[frameCount[1]] = 2
      /\ dataSize \in ReadLeaf /\ paddingSize \in ReadLeaf /\ frameCount \in ReadLeaf
  BY DEF Width, dataSize, paddingSize, frameCount, ReadLeaf
<1>3. data[dataSize][1] \in Nat /\ data[dataSize][2] \in Nat /\ data[dataSize][3] \in Nat
  BY <1>1, <1>2
<1>4. DataSize \in Nat
  <2>1. \A a, b, c \in Nat : a * 256 * 256 + b * 256 + c \in Nat
    OBVIOUS
  <2>2. QED
    BY <1>3, <2>1 DEF DataSize, TriByteNumber
<1>5. PaddingSize \in Nat
  BY <1>1, <1>2 DEF PaddingSize, SingleByteNumber
<1>6. FrameCount \in Nat
  <2>1. data[frameCount][1] \in Nat /\ data[frameCount][2] \in Nat
    BY <1>1, <1>2
  <2>2. \A a, b \in Nat : a * 256 + b \in Nat
    OBVIOUS
  <2>3. QED
    BY <2>1, <2>2 DEF FrameCount, WByteNumber
<1>7. QED
  BY <1>4, <1>5, <1>6

\* What SizePayload changes.
LEMMA SizePayloadSizes ==
    ASSUME NEW n, NEW s, DOMAIN s = Element
    PROVE  /\ DOMAIN SizePayload(n, s) = Element
           /\ \A e \in Element \ {payload, payloadData} : SizePayload(n, s)[e] = s[e]
  BY DEF SizePayload

\* The loop moves on from an element that sizes nothing.
LEMMA NextElementInv == ASSUME IInv, KidFull, ~HeaderFulfilled PROVE IInv'
<1> USE FieldNames, Members DEF IInv, KidFull, InLoop, Fulfilled
<1>1. it' \in [Field -> Nat \ {0}] /\ it'[top] = it[top] + 1
      /\ \A g \in Field \ {top} : it'[g] = it[g]
  BY DEF TypeOK
<1>2. UNCHANGED <<wire, rd, wr, beyond, kind, frames, pos, size, data, image, refused, top>>
  BY DEF parser
<1>3. TypeOK'
  BY <1>1, <1>2 DEF TypeOK
<1>4. BufferInv' /\ LeafBounds'
  BY <1>2 DEF BufferInv, LeafBounds
<1>5. top = payload => it[payload] # 1
  BY DEF HeaderFulfilled
<1>6. ChainInv'
  BY <1>1, <1>2 DEF ChainInv, InHeader, InData, Full
<1>7. HeaderFirst'
  <2>1. CASE top = payload \/ InData
    <3>1. Full(payloadHeader) /\ kind # "none"
      BY <2>1, <1>5 DEF HeaderFirst, ChainInv, InData
    <3>2. QED
      BY <1>2, <3>1 DEF HeaderFirst, Full
  <2>2. CASE ~(top = payload \/ InData)
    <3>1. Touched' <=> Touched
      BY <1>1, <1>2, <2>2 DEF Touched, InData
    <3>2. kind = "none" => top # payloadHeader
      BY DEF ChainInv, InHeader
    <3>3. QED
      BY <1>1, <1>2, <2>2, <3>1, <3>2 DEF HeaderFirst, Full
  <2>3. QED
    BY <2>1, <2>2
<1>8. ImageSized'
  BY <1>1, <1>2, <1>5 DEF ImageSized, DataSize, PaddingSize
<1>9. PassedElementsFull'
  <2>1. SUFFICES ASSUME NEW f \in Field \ {packet}, NEW k \in 1..(it'[f] - 1),
                        k \in DOMAIN _elements(f)
                 PROVE  Full(_elements(f)[k])
    BY <1>2 DEF PassedElementsFull, _elements, Full
  <2>2. CASE f = top /\ k = it[top]
    BY <2>2 DEF Kid
  <2>3. CASE ~(f = top /\ k = it[top])
    <3>1. k \in 1..(it[f] - 1)
      BY <1>1, <2>1, <2>3 DEF TypeOK
    <3>2. QED
      BY <2>1, <3>1 DEF PassedElementsFull
  <2>4. QED
    BY <2>2, <2>3
<1>10. QED
  BY <1>3, <1>4, <1>6, <1>7, <1>8, <1>9

\* The payload's header is full: its data is sized, for the first time.
LEMMA HeaderFulfilledInv == ASSUME IInv, KidFull, HeaderFulfilled PROVE IInv'
<1> USE FieldNames, Members DEF IInv
<1>1. /\ top = payload /\ it[payload] = 1 /\ ret = "true" /\ kind # "none"
      /\ ~Touched
  BY DEF HeaderFulfilled, KidFull, HeaderFirst, ChainInv
<1>2. Full(payloadHeader)
  BY <1>1, FieldElements DEF KidFull, Kid, _elements
<1>3. /\ it' \in [Field -> Nat \ {0}] /\ it'[payload] = 2
      /\ \A g \in Field \ {payload} : it'[g] = it[g]
  BY <1>1 DEF KidFull, TypeOK
<1>4. UNCHANGED <<wire, rd, wr, beyond, kind, data, image, refused, top>> /\ ret' = "none"
  BY DEF KidFull
<1>5. SizeImage \/ SizeFrames
  BY DEF KidFull, Fulfilled
<1>6. /\ DOMAIN size' = Element
      /\ \A e \in Element \ {jpeg, padding, payload, payloadData} : size'[e] = size[e]
      /\ size'[jpeg] \in Nat /\ size'[padding] \in Nat
      /\ kind = "images" => size'[jpeg] = DataSize /\ size'[padding] = PaddingSize
  <2> DEFINE s == [size EXCEPT ![jpeg] = DataSize, ![padding] = PaddingSize]
  <2>1. DOMAIN size = Element /\ size[jpeg] \in Nat /\ size[padding] \in Nat
    BY DEF TypeOK
  <2>2. jpeg # padding /\ jpeg \notin {payload, payloadData} /\ padding \notin {payload, payloadData}
    BY DEF jpeg, padding, payload, payloadData
  <2>3. CASE SizeImage
    <3>1. DOMAIN s = Element /\ s[jpeg] = DataSize /\ s[padding] = PaddingSize
          /\ \A e \in Element \ {jpeg, padding} : s[e] = size[e]
      BY <2>1, <2>2
    <3>2. size' = SizePayload(frames, s)
      BY <2>3 DEF SizeImage
    <3> HIDE DEF s
    <3>3. /\ DOMAIN size' = Element
          /\ \A e \in Element \ {payload, payloadData} : size'[e] = s[e]
      BY <3>1, <3>2, SizePayloadSizes
    <3>4. QED
      BY <2>2, <3>1, <3>3, Numbers
  <2>4. CASE SizeFrames
    <3>1. size' = SizePayload(FrameCount, size) /\ kind # "images"
      BY <2>4 DEF SizeFrames
    <3>2. /\ DOMAIN size' = Element
          /\ \A e \in Element \ {payload, payloadData} : size'[e] = size[e]
      BY <2>1, <3>1, SizePayloadSizes
    <3>3. QED
      BY <2>1, <2>2, <3>1, <3>2
  <2>5. QED
    BY <1>5, <2>3, <2>4
<1>7. /\ DOMAIN pos' = Element
      /\ \A e \in Element : pos'[e] = pos[e] \/ (e \in FrameElement /\ pos'[e] = 0)
      /\ \A e \in Element \ FrameElement : pos'[e] = pos[e]
  BY <1>5 DEF SizeImage, SizeFrames, TypeOK
<1>8. payloadHeader \notin FrameElement /\ jpeg \notin FrameElement /\ padding \notin FrameElement
  BY DEF FrameElement, FrameInformation, FrameLeaf, payloadHeader, jpeg, padding
<1>9. frames' \in {NoFrames} \cup 0..MaxFrames
  BY <1>5, Numbers, ElementsAssumption, SMTT(30) DEF SizeImage, SizeFrames, TypeOK
<1>10. TypeOK'
  <2>1. \A e \in Leaf : pos'[e] \in Nat /\ size'[e] \in Nat
    <3>1. SUFFICES ASSUME NEW e \in Leaf PROVE pos'[e] \in Nat /\ size'[e] \in Nat
      OBVIOUS
    <3>2. e \in Element /\ e \notin {payload, payloadData}
      BY <3>1
    <3>3. pos[e] \in Nat /\ size[e] \in Nat
      BY <3>1 DEF TypeOK
    <3>4. pos'[e] \in Nat
      BY <1>7, <3>2, <3>3
    <3>5. size'[e] \in Nat
      BY <1>6, <3>2, <3>3
    <3>6. QED
      BY <3>4, <3>5
  <2>2. QED
    BY <1>3, <1>4, <1>6, <1>7, <1>9, <2>1 DEF TypeOK
<1>11. BufferInv'
  BY <1>4 DEF BufferInv
<1>12. pos'[jpeg] = 0 /\ pos'[padding] = 0
  BY <1>1, <1>7, <1>8 DEF Touched, TypeOK
<1>13. LeafBounds'
  <2>1. SUFFICES ASSUME NEW e \in Leaf PROVE pos'[e] <= size'[e]
    BY DEF LeafBounds
  <2>2. CASE e \in {jpeg, padding}
    BY <2>2, <1>6, <1>12
  <2>3. CASE e \notin {jpeg, padding}
    BY <2>3, <1>6, <1>7, SMTT(30) DEF LeafBounds, TypeOK
  <2>4. QED
    BY <2>2, <2>3
<1>14. Full(payloadHeader)'
  BY <1>2, <1>6, <1>7, <1>8 DEF Full, jpeg, padding, payloadHeader
<1>15. ChainInv'
  BY <1>1, <1>4 DEF ChainInv, InHeader, InData
<1>16. HeaderFirst'
  BY <1>1, <1>4, <1>14 DEF HeaderFirst
<1>17. ImageSized'
  BY <1>4, <1>6 DEF ImageSized, DataSize, PaddingSize
<1>18. PassedElementsFull'
  <2>1. SUFFICES ASSUME NEW f \in Field \ {packet}, NEW k \in 1..(it'[f] - 1),
                        k \in DOMAIN Elements(f, kind, frames')
                 PROVE  size'[Elements(f, kind, frames')[k]] <= pos'[Elements(f, kind, frames')[k]]
    BY <1>4 DEF PassedElementsFull, _elements, Full
  <2>2. CASE f = payload
    <3>1. k = 1
      BY <1>3, <2>1, <2>2
    <3>2. QED
      BY <1>14, <2>2, <3>1, FieldElements DEF Full
  <2>3. CASE f # payload
    <3>1. f # payloadData /\ f \notin FrameInformation
      BY <1>1, <1>3, <2>1, <2>3 DEF Touched
    <3>2. Elements(f, kind, frames') = Elements(f, kind, frames)
      BY <2>1, <2>3, <3>1, FieldElements DEF Field
    <3>3. Full(Elements(f, kind, frames)[k])
      BY <1>3, <2>1, <2>3, <3>2 DEF PassedElementsFull, _elements
    <3>4. Elements(f, kind, frames)[k] \in
                Element \ ({jpeg, padding, payload, payloadData} \cup FrameElement)
      BY <2>1, <2>3, <3>1, <3>2, HeldElements, Layout DEF TypeOK
    <3>5. QED
      BY <1>6, <1>7, <3>2, <3>3, <3>4 DEF Full
  <2>4. QED
    BY <2>2, <2>3
<1>19. QED
  BY <1>10, <1>11, <1>13, <1>15, <1>16, <1>17, <1>18

-----------------------------------------------------------------------------
(* The theorems *)

\* Every step preserves the invariant.
LEMMA NextInv == IInv /\ [Next]_vars => IInv'
<1>1. SUFFICES ASSUME IInv, [Next]_vars PROVE IInv'
  OBVIOUS
<1>2. CASE Camera
  BY <1>1, <1>2, PushInv DEF Camera
<1>3. CASE FillPacket
  BY <1>1, <1>3, FillPacketInv
<1>4. CASE HeaderRefused \/ HeaderPartial \/ HeaderFull
  BY <1>1, <1>4, HeaderRefusedInv, HeaderPartialInv, HeaderFullInv
<1>5. CASE PacketPartial \/ PacketDelivered
  BY <1>1, <1>5, PacketPartialInv, PacketDeliveredInv
<1>6. CASE FillLeaf \/ RefuseLeaf \/ CallField
  BY <1>1, <1>6, FillLeafInv, RefuseLeafInv, CallFieldInv
<1>7. CASE KidFull
  BY <1>1, <1>7, NextElementInv, HeaderFulfilledInv
<1>8. CASE KidPartial \/ KidRefused \/ EndLoop
  BY <1>1, <1>8, KidPartialInv, KidRefusedInv, EndLoopInv
<1>9. CASE UNCHANGED vars
  BY <1>1, <1>9, StutterInv
<1>10. QED
  BY <1>1, <1>2, <1>3, <1>4, <1>5, <1>6, <1>7, <1>8, <1>9 DEF Next, Demuxer

\* The invariant holds in every reachable state (StreamDemuxer::Push, BaseField::Fill).
THEOREM Invariance == Spec => []IInv
  BY InitInv, NextInv, PTL DEF Spec

\* Every variable keeps its type (LiveViewPacket.cpp, BaseField.cpp).
THEOREM TypeCorrect == Spec => []TypeOK
<1>1. IInv => TypeOK
  BY DEF IInv
<1>2. QED
  BY <1>1, Invariance, PTL

\* The unsigned difference Size() - pos of every leaf's Fill never wraps, for
\* any stream, however it is cut and whatever was refused.
THEOREM LeafNeverOverfull == Spec => []LeafBounds
<1>1. IInv => LeafBounds
  BY DEF IInv
<1>2. QED
  BY <1>1, Invariance, PTL

\* The loop of BaseField::Fill never leaves an incomplete element behind.
THEOREM NothingPassedIncomplete == Spec => []PassedElementsFull
<1>1. IInv => PassedElementsFull
  BY DEF IInv
<1>2. QED
  BY <1>1, Invariance, PTL

\* The image and its padding are filled with the sizes of the header, which stay.
THEOREM ImageHasHeaderSize == Spec => []ImageSizedFirst
<1>1. IInv => ImageSizedFirst
  <2>1. SUFFICES ASSUME IInv PROVE ImageSizedFirst
    OBVIOUS
  <2>2. payloadData \in Open => top = payloadData \/ top \in FrameInformation
    BY <2>1, Parents, FieldNames, Members DEF Open, IInv, TypeOK, Field
  <2>3. payloadData \in Open => it[payload] = 2
    BY <2>1, <2>2 DEF IInv, ChainInv, InData
  <2>4. QED
    BY <2>1, <2>3 DEF ImageSizedFirst, ImageSized, IInv
<1>2. QED
  BY <1>1, Invariance, PTL
=============================================================================
