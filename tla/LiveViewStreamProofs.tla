------------------------- MODULE LiveViewStreamProofs -------------------------
(***************************************************************************)
(* Proofs about what the parser takes from the stream: what the positions  *)
(* and sizes of fields add up to, that a refused packet stays refused, and *)
(* that a delivered packet has the size it reports.  They hold for every   *)
(* stream, every way to cut it and every bound on the frame count.         *)
(***************************************************************************)
EXTENDS LiveViewPacketProofs, WellFoundedInduction

-----------------------------------------------------------------------------
(* The invariants *)

\* What CalcPos of a field computes: the bytes its elements count.
Sum(f) == Total(_elements(f), pos)

sequenceNumber == <<"sequenceNumber", 0>>
timeStamp == <<"timeStamp", 0>>
frameDataReserved == <<"frameDataReserved", 0>>

HeaderElement == {packet, commonHeader, startByte, payloadType, sequenceNumber, timeStamp}
DataElement == {payloadData, jpeg, padding, frameDataReserved} \cup FrameElement

HeaderSize == IF kind = "images" THEN 13 + ImageReserved ELSE 14 + FrameReserved

\* A payload's data is no longer: an image of less than 2^24 bytes and its
\* padding, or eleven bytes for each frame.
DataLimit == 256 * 256 * 256 + 256 + 11 * MaxFrames

\* The payload's data is sized once its header is full.
Sized == size[payloadData] # UNDEFINED_SIZE

\* A position that a refusal has kept from being computed is too small, never
\* too large.
Positions == \A f \in Field : pos[f] \in Nat /\ pos[f] <= Sum(f)

\* A size is undefined, or the sum of the elements' sizes.
Sizes ==
    /\ \A e \in Leaf \ {jpeg, padding} : size[e] = Width[e[1]]
    /\ size[packet] = UNDEFINED_SIZE /\ size[commonHeader] = 8 /\ size[startCode] = 4
    /\ \A f \in FrameInformation : size[f] = 11
    /\ size[payloadHeader] = IF kind = "none" THEN UNDEFINED_SIZE ELSE HeaderSize
    /\ Sized => /\ size[payloadData] = Total(_elements(payloadData), size)
                /\ size[payloadData] \in 0..DataLimit
    /\ size[payload] = IF Sized THEN size[payloadHeader] + size[payloadData] ELSE UNDEFINED_SIZE

\* What a packet without a complete header has not touched.
HeaderOnly ==
    kind = "none" =>
        /\ ~Sized
        /\ top \in {Idle, packet, commonHeader}
        /\ \A e \in Element \ HeaderElement : pos[e] = 0
        /\ ~(top = packet /\ ret = "true") => pos[packet] = pos[commonHeader]

HeaderDone == kind # "none" => top # commonHeader /\ Full(commonHeader) /\ pos[packet] > 0

\* The data is touched only once it is sized, and sized only behind a full header.
DataUntouched ==
    /\ ~Sized => /\ it[payload] = 1
                 /\ \A e \in DataElement : pos[e] = 0
                 /\ pos[payload] < size[payloadHeader]
                 /\ Full(payloadHeader) => top = payload /\ ret = "true"
    /\ Sized => Full(payloadHeader) /\ ~(top = payload /\ ret = "true" /\ it[payload] = 1)

\* The payload is found full only when its Fill returns.
PayloadOpen == ~(top = packet /\ ret = "true") => ~Full(payload)

\* The callers stand at the field they have called.
CallersStand ==
    /\ top = startCode => it[payloadHeader] = 1
    /\ top \in FrameInformation =>
            it[payloadData] \in DOMAIN _elements(payloadData)
                /\ _elements(payloadData)[it[payloadData]] = top

SumInv ==
    /\ Positions /\ Sizes /\ HeaderOnly /\ HeaderDone
    /\ DataUntouched /\ PayloadOpen /\ CallersStand
    /\ PartialMeansRunOut

\* The leaves of the common header are filled one after the other; a packet that
\* has refused nothing has computed the position of its header, and reads its
\* start byte only where there is one.
StartInv ==
    /\ ret = "false" => refused
    /\ pos[startByte] = 0 => pos[payloadType] = 0
    /\ pos[payloadType] = 0 => pos[sequenceNumber] = 0 /\ pos[timeStamp] = 0
    /\ kind = "none" /\ ((it[commonHeader] = 1)
                            \/ (it[commonHeader] = 2 /\ ~(top = commonHeader /\ ret = "true")))
            => pos[payloadType] = 0
    /\ kind = "none" /\ ~refused =>
            /\ top # commonHeader => pos[commonHeader] = Sum(commonHeader)
            /\ it[commonHeader] = 1 =>
                    /\ ~(top = commonHeader /\ ret = "true") => pos[startByte] = 0
                    /\ top = commonHeader /\ ret = "none" /\ Remaining > 0
                            => wire.bytes[rd + 1] = 255

TypeRefused == Remaining > 0 /\ wire.bytes[rd + 1] \notin {1, 2}

\* A common header that has refused a byte has its start byte and nothing more.
\* It stands at its type and at a byte that is none, or starts again and finds
\* another start byte, which is no type either.
HeaderStuck ==
    /\ pos[startByte] = 1 /\ pos[payloadType] = 0
    /\ it[commonHeader] \in {1, 2}
    /\ it[commonHeader] = 2 /\ (pos[commonHeader] > 0 \/ top = commonHeader)
            => TypeRefused /\ ~(top = commonHeader /\ ret = "true")
    /\ top = commonHeader /\ it[commonHeader] = 1 /\ ret = "true"
            => Remaining > 0 /\ wire.bytes[rd + 1] = 255

\* Does e take the byte at the head of the buffer?
Takes(e) ==
    Accepts(e, wire.bytes[rd + 1],
            \A k \in 2..4 : IF rd + k <= wr THEN wire.bytes[rd + k] = 0 ELSE beyond)

\* From its i-th element on, f comes to an element of D with full ones before it.
Blocked(D, f, i) ==
    \E k \in DOMAIN _elements(f) :
        /\ i <= k /\ _elements(f)[k] \in D
        /\ \A j \in i..(k - 1) : Full(_elements(f)[j])

\* The elements that refuse when they are called: leaves by the byte, fields
\* because they are full or by an element they come to.
Refusing(D) ==
    \A e \in D :
        \/ e \in Leaf /\ ~Takes(e)
        \/ e \in Field /\ (Full(e) \/ Blocked(D, e, Resume(e)))

\* The payload is such an element, and so is what the open loops come to.
Stuck(D) ==
    /\ payload \in D /\ Refusing(D)
    /\ InLoop /\ ret = "none" => Blocked(D, top, it[top])
    /\ InLoop /\ ret = "true" => Kid \in Leaf /\ Full(Kid) /\ Blocked(D, top, it[top] + 1)

PayloadStuck ==
    /\ Remaining > 0
    /\ top = packet => ret = "false"
    /\ \E D \in SUBSET (Element \ {packet}) : Stuck(D)

RefusalInv ==
    /\ StartInv
    /\ refused => IF kind = "none" THEN HeaderStuck ELSE PayloadStuck

\* The bytes that the elements of an open field count and its position does not.
Lag(f) == Sum(f) - pos[f]

\* The bytes this packet has taken.
Consumption ==
    Sum(packet) + Lag(commonHeader) + Lag(payload) + Lag(payloadHeader) + Lag(startCode)
        + Lag(payloadData) + (IF top \in FrameInformation THEN Lag(top) ELSE 0)

\* Every field that is not open has computed its position.
Returned == \A f \in Field \ {packet} : f \notin Open => Lag(f) = 0

History ==
    /\ first \in Nat
    /\ out \in Seq([kind : {"images", "frames"}, image : Seq(Byte), size : Int, first : Nat, last : Nat])
    /\ \A k \in DOMAIN out : out[k].last <= rd /\ (pos[startByte] > 0 => out[k].last < first)

ConsumptionInv ==
    /\ History /\ SizeIsConsumption
    /\ ~refused => Returned /\ (pos[startByte] > 0 => Consumption = rd - first + 1)

-----------------------------------------------------------------------------
(* Induction and folds *)

\* Induction on the natural numbers, over a set instead of a predicate.
LEMMA InductiveSet ==
    ASSUME NEW S, 0 \in S, \A n \in Nat : n \in S => n + 1 \in S
    PROVE  Nat \subseteq S
<1>1. SUFFICES ASSUME Nat \ S # {} PROVE FALSE
  OBVIOUS
<1>2. PICK m \in Nat \ S : \A n \in Nat \ S : <<n, m>> \notin OpToRel(<, Nat)
  <2>1. Nat \ S \subseteq Nat
    OBVIOUS
  <2>2. QED
    BY <1>1, <2>1, NatLessThanWellFounded, WFMin, Zenon
<1>3. m # 0 /\ m \in Nat
  OBVIOUS
<1>4. m - 1 \in Nat /\ (m - 1) + 1 = m /\ m - 1 < m
  BY <1>3
<1>5. m - 1 \notin S
  BY <1>4
<1>6. <<m - 1, m>> \in OpToRel(<, Nat)
  BY <1>3, <1>4 DEF OpToRel
<1>7. QED
  BY <1>2, <1>4, <1>5, <1>6

\* The greatest element of a set that ends in n.
LEMMA MaxOf ==
    ASSUME NEW n \in Nat, NEW S \in SUBSET (1..n), n \in S
    PROVE  Max(S) = n
<1>1. \A y \in S : n >= y
  OBVIOUS
<1>2. \A x \in S : (\A y \in S : x >= y) => x = n
  BY <1>1
<1>3. QED
  BY <1>1, <1>2 DEF Max

LEMMA MaxMember ==
    ASSUME NEW n \in Nat
    PROVE  \A S \in SUBSET (1..n) : S # {} => Max(S) \in S
<1> DEFINE P(k) == \A S \in SUBSET (1..k) : S # {} => Max(S) \in S
           I == {k \in Nat : P(k)}
<1>1. 0 \in I
  <2>1. \A S \in SUBSET (1..0) : S = {}
    OBVIOUS
  <2>2. QED
    BY <2>1
<1>2. ASSUME NEW k \in Nat, k \in I PROVE k + 1 \in I
  <2>1. ASSUME NEW S \in SUBSET (1..(k + 1)), S # {} PROVE Max(S) \in S
    <3>1. CASE k + 1 \in S
      BY <3>1, MaxOf
    <3>2. CASE k + 1 \notin S
      <4>1. S \in SUBSET (1..k)
        BY <3>2
      <4>2. QED
        BY <1>2, <2>1, <4>1
    <3>3. QED
      BY <3>1, <3>2
  <2>2. QED
    BY <1>2, <2>1
<1> HIDE DEF I
<1>3. Nat \subseteq I
  BY <1>1, <1>2, InductiveSet
<1>4. n \in I
  BY <1>3
<1>5. QED
  BY <1>4 DEF I

\* The recursive function by which a fold to the left is defined.
Fold(el, f, n, g) ==
    g = [S \in SUBSET (1..n) |-> IF S = {} THEN 0 ELSE g[S \ {Max(S)}] + f[el[Max(S)]]]

LEMMA FoldExists ==
    ASSUME NEW el, NEW f, NEW n \in Nat
    PROVE  \E g : Fold(el, f, n, g)
<1> DEFINE I == {k \in Nat : \E g : Fold(el, f, k, g)}
<1>1. 0 \in I
  <2>1. SUBSET (1..0) = {{}}
    OBVIOUS
  <2>2. Fold(el, f, 0, [S \in SUBSET (1..0) |-> 0])
    BY <2>1 DEF Fold
  <2>3. QED
    BY <2>2
<1>2. ASSUME NEW k \in Nat, k \in I PROVE k + 1 \in I
  <2>1. PICK g : Fold(el, f, k, g)
    BY <1>2
  <2> DEFINE h == [S \in SUBSET (1..(k + 1)) |->
                     IF k + 1 \in S THEN g[S \ {k + 1}] + f[el[k + 1]] ELSE g[S]]
  <2>2. ASSUME NEW S \in SUBSET (1..(k + 1))
        PROVE  h[S] = IF S = {} THEN 0 ELSE h[S \ {Max(S)}] + f[el[Max(S)]]
    <3>1. CASE k + 1 \in S
      <4>1. Max(S) = k + 1
        BY <3>1, MaxOf
      <4>2. S \ {k + 1} \in SUBSET (1..(k + 1)) /\ k + 1 \notin S \ {k + 1}
        OBVIOUS
      <4>3. h[S \ {k + 1}] = g[S \ {k + 1}] /\ h[S] = g[S \ {k + 1}] + f[el[k + 1]]
        BY <3>1, <4>2
      <4>4. QED
        BY <3>1, <4>1, <4>3
    <3>2. CASE k + 1 \notin S
      <4>1. S \in SUBSET (1..k) /\ h[S] = g[S]
        BY <3>2
      <4>2. g[S] = IF S = {} THEN 0 ELSE g[S \ {Max(S)}] + f[el[Max(S)]]
        BY <2>1, <4>1 DEF Fold
      <4>3. S # {} => h[S \ {Max(S)}] = g[S \ {Max(S)}]
        <5>1. S \ {Max(S)} \in SUBSET (1..(k + 1)) /\ k + 1 \notin S \ {Max(S)}
          BY <3>2
        <5>2. QED
          BY <5>1
      <4>4. QED
        BY <4>1, <4>2, <4>3
    <3>3. QED
      BY <3>1, <3>2
  <2>3. DOMAIN h = SUBSET (1..(k + 1)) /\ h = [S \in SUBSET (1..(k + 1)) |-> h[S]]
    OBVIOUS
  <2> HIDE DEF h
  <2>4. Fold(el, f, k + 1, h)
    BY <2>2, <2>3 DEF Fold
  <2>5. QED
    BY <2>4
<1> HIDE DEF I
<1>3. Nat \subseteq I
  BY <1>1, <1>2, InductiveSet
<1>4. n \in I
  BY <1>3
<1>5. QED
  BY <1>4 DEF I

\* A sum is a fold.
LEMMA TotalIsFold ==
    ASSUME NEW el, NEW f, NEW n \in Nat, DOMAIN el = 1..n
    PROVE  Total(el, f) = (CHOOSE g : Fold(el, f, n, g))[1..n]
  BY DEF Total, FoldLeft, MapThenFoldSet, Fold

\* The sums of the first k elements, for every k.
Partial(el, f, n, s) ==
    /\ s[0] = 0
    /\ \A k \in 1..n : s[k] = s[k - 1] + f[el[k]]
    /\ Total(el, f) = s[n]

LEMMA PartialSums ==
    ASSUME NEW el, NEW f, NEW n \in Nat, DOMAIN el = 1..n
    PROVE  \E s : Partial(el, f, n, s)
<1> DEFINE g == CHOOSE g : Fold(el, f, n, g)
<1>1. Fold(el, f, n, g)
  BY FoldExists
<1>2. Total(el, f) = g[1..n]
  BY TotalIsFold
<1> HIDE DEF g
<1> DEFINE s == [k \in 0..n |-> g[1..k]]
<1>3. s[0] = 0
  <2>1. 1..0 = {} /\ 1..0 \in SUBSET (1..n)
    OBVIOUS
  <2>2. g[1..0] = 0
    BY <1>1, <2>1 DEF Fold
  <2>3. QED
    BY <2>2
<1>4. ASSUME NEW k \in 1..n PROVE s[k] = s[k - 1] + f[el[k]]
  <2>1. 1..k \in SUBSET (1..n) /\ 1..k # {} /\ k \in Nat /\ k \in 1..k
    OBVIOUS
  <2>2. Max(1..k) = k
    BY <2>1, MaxOf
  <2>3. (1..k) \ {k} = 1..(k - 1)
    OBVIOUS
  <2>4. g[1..k] = g[1..(k - 1)] + f[el[k]]
    BY <1>1, <2>1, <2>2, <2>3 DEF Fold
  <2>5. k \in 0..n /\ k - 1 \in 0..n
    OBVIOUS
  <2>6. QED
    BY <2>4, <2>5
<1>5. s[n] = g[1..n]
  OBVIOUS
<1>6. Partial(el, f, n, s)
  BY <1>2, <1>3, <1>4, <1>5 DEF Partial
<1>7. QED
  BY <1>6

-----------------------------------------------------------------------------
(* Sums over the elements of a field *)

\* Elements that all count natural numbers.
Counts(el, f) == \A k \in DOMAIN el : f[el[k]] \in Nat

\* The sum grows with the elements, by as much as one of them does at least.
LEMMA TotalMonotone ==
    ASSUME NEW el, NEW n \in Nat, DOMAIN el = 1..n, NEW f, NEW g,
           Counts(el, f), Counts(el, g),
           \A k \in DOMAIN el : f[el[k]] <= g[el[k]]
    PROVE  /\ Total(el, f) \in Nat /\ Total(el, g) \in Nat
           /\ Total(el, f) <= Total(el, g)
           /\ \A k \in DOMAIN el : Total(el, g) - Total(el, f) >= g[el[k]] - f[el[k]]
<1>1. PICK s : Partial(el, f, n, s)
  BY PartialSums
<1>2. PICK t : Partial(el, g, n, t)
  BY PartialSums
<1> DEFINE P(k) == /\ s[k] \in Nat /\ t[k] \in Nat /\ s[k] <= t[k]
                   /\ \A j \in 1..k : t[k] - s[k] >= g[el[j]] - f[el[j]]
           I == {k \in Nat : k <= n => P(k)}
<1>3. 0 \in I
  BY <1>1, <1>2 DEF Partial
<1>4. ASSUME NEW k \in Nat, k \in I PROVE k + 1 \in I
  <2>1. SUFFICES ASSUME k + 1 <= n PROVE P(k + 1)
    OBVIOUS
  <2>2. P(k) /\ k + 1 \in 1..n /\ (k + 1) - 1 = k
    BY <1>4, <2>1
  <2>3. s[k + 1] = s[k] + f[el[k + 1]] /\ t[k + 1] = t[k] + g[el[k + 1]]
    BY <1>1, <1>2, <2>2 DEF Partial
  <2>4. \A j \in 1..(k + 1) : f[el[j]] \in Nat /\ g[el[j]] \in Nat /\ f[el[j]] <= g[el[j]]
    BY <2>1 DEF Counts
  <2>5. s[k + 1] \in Nat /\ t[k + 1] \in Nat /\ s[k + 1] <= t[k + 1]
    BY <2>2, <2>3, <2>4
  <2>6. ASSUME NEW j \in 1..(k + 1) PROVE t[k + 1] - s[k + 1] >= g[el[j]] - f[el[j]]
    <3>1. CASE j = k + 1
      BY <2>2, <2>3, <2>4, <3>1
    <3>2. CASE j \in 1..k
      <4>1. t[k] - s[k] >= g[el[j]] - f[el[j]]
        BY <2>2, <3>2
      <4>2. /\ f[el[j]] \in Nat /\ g[el[j]] \in Nat /\ s[k] \in Nat /\ t[k] \in Nat
            /\ f[el[k + 1]] \in Nat /\ g[el[k + 1]] \in Nat /\ f[el[k + 1]] <= g[el[k + 1]]
        BY <2>2, <2>4, <3>2
      <4>3. \A a, b, c, d, x, y \in Nat : b - a >= y - x /\ c <= d => (b + d) - (a + c) >= y - x
        OBVIOUS
      <4>4. QED
        BY <2>3, <4>1, <4>2, <4>3
    <3>3. QED
      BY <3>1, <3>2
  <2>7. QED
    BY <2>5, <2>6
<1> HIDE DEF I
<1>5. n \in I
  BY <1>3, <1>4, InductiveSet
<1>6. QED
  BY <1>1, <1>2, <1>5 DEF I, Partial

\* A sum counts each of its elements.
LEMMA TotalNat ==
    ASSUME NEW el, NEW n \in Nat, DOMAIN el = 1..n, NEW f, Counts(el, f)
    PROVE  Total(el, f) \in Nat
  BY TotalMonotone DEF Counts

\* Elements that count nothing.
LEMMA TotalZero ==
    ASSUME NEW el, NEW n \in Nat, DOMAIN el = 1..n, NEW f, \A k \in DOMAIN el : f[el[k]] = 0
    PROVE  Total(el, f) = 0
<1>1. PICK s : Partial(el, f, n, s)
  BY PartialSums
<1> DEFINE I == {k \in Nat : k <= n => s[k] = 0}
<1>2. 0 \in I
  BY <1>1 DEF Partial
<1>3. ASSUME NEW k \in Nat, k \in I PROVE k + 1 \in I
  <2>1. SUFFICES ASSUME k + 1 <= n PROVE s[k + 1] = 0
    OBVIOUS
  <2>2. s[k] = 0 /\ k + 1 \in 1..n /\ (k + 1) - 1 = k /\ f[el[k + 1]] = 0
    BY <1>3, <2>1
  <2>3. QED
    BY <1>1, <2>2 DEF Partial
<1> HIDE DEF I
<1>4. n \in I
  BY <1>2, <1>3, InductiveSet
<1>5. QED
  BY <1>1, <1>4 DEF I, Partial

\* A sum is at least each of its elements.
LEMMA TotalElement ==
    ASSUME NEW el, NEW n \in Nat, DOMAIN el = 1..n, NEW f, Counts(el, f), NEW k \in DOMAIN el
    PROVE  f[el[k]] <= Total(el, f)
<1> DEFINE z == [e \in {el[j] : j \in DOMAIN el} |-> 0]
<1>1. \A j \in DOMAIN el : z[el[j]] = 0
  OBVIOUS
<1> HIDE DEF z
<1>2. Total(el, z) = 0
  BY <1>1, TotalZero
<1>3. Counts(el, z) /\ \A j \in DOMAIN el : z[el[j]] <= f[el[j]]
  BY <1>1 DEF Counts
<1>4. Total(el, f) - Total(el, z) >= f[el[k]] - z[el[k]]
  BY <1>3, TotalMonotone
<1>5. Total(el, f) \in Nat /\ f[el[k]] \in Nat
  BY TotalNat DEF Counts
<1>6. QED
  BY <1>1, <1>2, <1>4, <1>5

\* Equal elements have equal sums.
LEMMA TotalSame ==
    ASSUME NEW el, NEW n \in Nat, DOMAIN el = 1..n, NEW f, NEW g, Counts(el, f),
           \A k \in DOMAIN el : g[el[k]] = f[el[k]]
    PROVE  Total(el, g) = Total(el, f)
<1>1. Counts(el, g) /\ \A k \in DOMAIN el : g[el[k]] <= f[el[k]] /\ f[el[k]] <= g[el[k]]
  BY DEF Counts
<1>2. Total(el, g) <= Total(el, f) /\ Total(el, f) \in Nat /\ Total(el, g) \in Nat
  BY <1>1, TotalMonotone
<1>3. Total(el, f) <= Total(el, g)
  BY <1>1, TotalMonotone
<1>4. QED
  BY <1>2, <1>3

\* A sum of which one element changes.
LEMMA TotalChange ==
    ASSUME NEW el, NEW n \in Nat, DOMAIN el = 1..n, NEW f, NEW g, Counts(el, f), Counts(el, g),
           NEW i \in DOMAIN el, \A k \in DOMAIN el \ {i} : g[el[k]] = f[el[k]]
    PROVE  Total(el, g) = Total(el, f) + (g[el[i]] - f[el[i]])
<1>1. PICK s : Partial(el, f, n, s)
  BY PartialSums
<1>2. PICK t : Partial(el, g, n, t)
  BY PartialSums
<1> DEFINE d == g[el[i]] - f[el[i]]
           P(k) == s[k] \in Int /\ t[k] = s[k] + (IF i <= k THEN d ELSE 0)
           I == {k \in Nat : k <= n => P(k)}
<1>3. i \in 1..n /\ d \in Int
  BY DEF Counts
<1> HIDE DEF d
<1>4. 0 \in I
  <2>1. s[0] = 0 /\ t[0] = 0 /\ ~(i <= 0)
    BY <1>1, <1>2, <1>3 DEF Partial
  <2>2. QED
    BY <1>3, <2>1
<1>5. ASSUME NEW k \in Nat, k \in I PROVE k + 1 \in I
  <2>1. SUFFICES ASSUME k + 1 <= n PROVE P(k + 1)
    OBVIOUS
  <2>2. P(k) /\ k + 1 \in 1..n /\ (k + 1) - 1 = k
    BY <1>5, <2>1
  <2>3. s[k + 1] = s[k] + f[el[k + 1]] /\ t[k + 1] = t[k] + g[el[k + 1]]
    BY <1>1, <1>2, <2>2 DEF Partial
  <2>4. f[el[k + 1]] \in Nat /\ g[el[k + 1]] \in Nat
    BY <2>2 DEF Counts
  <2>5. CASE i = k + 1
    <3>1. g[el[k + 1]] = f[el[k + 1]] + d
      BY <2>4, <2>5 DEF d
    <3>2. QED
      BY <1>3, <2>2, <2>3, <2>4, <2>5, <3>1
  <2>6. CASE i # k + 1
    <3>1. g[el[k + 1]] = f[el[k + 1]]
      BY <2>2, <2>6
    <3>2. i <= k + 1 <=> i <= k
      BY <1>3, <2>6
    <3>3. QED
      BY <1>3, <2>2, <2>3, <2>4, <3>1, <3>2
  <2>7. QED
    BY <2>5, <2>6
<1> HIDE DEF I
<1>6. n \in I
  BY <1>4, <1>5, InductiveSet
<1>7. QED
  BY <1>1, <1>2, <1>3, <1>6 DEF I, d, Partial

\* A sum of elements that count no more than eleven each.
LEMMA TotalOfElevens ==
    ASSUME NEW el, NEW n \in Nat, DOMAIN el = 1..n, NEW f, Counts(el, f),
           \A k \in DOMAIN el : f[el[k]] <= 11
    PROVE  Total(el, f) <= 11 * n
<1>1. PICK s : Partial(el, f, n, s)
  BY PartialSums
<1> DEFINE I == {k \in Nat : k <= n => s[k] \in Nat /\ s[k] <= 11 * k}
<1>2. 0 \in I
  BY <1>1 DEF Partial
<1>3. ASSUME NEW k \in Nat, k \in I PROVE k + 1 \in I
  <2>1. SUFFICES ASSUME k + 1 <= n PROVE s[k + 1] \in Nat /\ s[k + 1] <= 11 * (k + 1)
    OBVIOUS
  <2>2. s[k] \in Nat /\ s[k] <= 11 * k /\ k + 1 \in 1..n /\ (k + 1) - 1 = k
    BY <1>3, <2>1
  <2>3. s[k + 1] = s[k] + f[el[k + 1]] /\ f[el[k + 1]] \in Nat /\ f[el[k + 1]] <= 11
    BY <1>1, <2>2 DEF Counts, Partial
  <2>4. QED
    BY <2>2, <2>3
<1> HIDE DEF I
<1>4. n \in I
  BY <1>2, <1>3, InductiveSet
<1>5. QED
  BY <1>1, <1>4 DEF I, Partial

\* Sums of one, two, four, five, six and seven elements, written out.
LEMMA ShortTotals ==
    ASSUME NEW f
    PROVE  /\ \A a : f[a] \in Nat => Total(<<a>>, f) = f[a]
           /\ \A a, b : f[a] \in Nat /\ f[b] \in Nat => Total(<<a, b>>, f) = f[a] + f[b]
<1>1. ASSUME NEW a, f[a] \in Nat PROVE Total(<<a>>, f) = f[a]
  <2>1. DOMAIN <<a>> = 1..1 /\ <<a>>[1] = a
    OBVIOUS
  <2>2. PICK s : Partial(<<a>>, f, 1, s)
    BY <2>1, PartialSums
  <2>3. s[1] = s[0] + f[a]
    BY <2>1, <2>2 DEF Partial
  <2>4. QED
    BY <1>1, <2>2, <2>3 DEF Partial
<1>2. ASSUME NEW a, NEW b, f[a] \in Nat, f[b] \in Nat PROVE Total(<<a, b>>, f) = f[a] + f[b]
  <2> DEFINE el == <<a, b>>
  <2>1. DOMAIN el = 1..2 /\ el[1] = a /\ el[2] = b
    OBVIOUS
  <2> HIDE DEF el
  <2>2. PICK s : Partial(el, f, 2, s)
    BY <2>1, PartialSums
  <2>3. s[1] = s[0] + f[a] /\ s[2] = s[1] + f[b]
    BY <2>1, <2>2 DEF Partial
  <2>4. QED
    BY <1>2, <2>2, <2>3 DEF el, Partial
<1>3. QED
  BY <1>1, <1>2

\* Sums of four to seven elements.
LEMMA LongerTotals ==
    ASSUME NEW f, NEW n \in 4..7, NEW el, DOMAIN el = 1..n, Counts(el, f)
    PROVE  Total(el, f) = f[el[1]] + f[el[2]] + f[el[3]] + f[el[4]]
                            + (IF n >= 5 THEN f[el[5]] ELSE 0) + (IF n >= 6 THEN f[el[6]] ELSE 0)
                            + (IF n >= 7 THEN f[el[7]] ELSE 0)
<1>1. PICK s : Partial(el, f, n, s)
  BY PartialSums
<1>2. \A k \in 1..n : f[el[k]] \in Nat /\ s[k] = s[k - 1] + f[el[k]]
  BY <1>1 DEF Counts, Partial
<1>3. s[0] = 0 /\ Total(el, f) = s[n]
  BY <1>1 DEF Partial
<1>4. /\ f[el[1]] \in Nat /\ f[el[2]] \in Nat /\ f[el[3]] \in Nat /\ f[el[4]] \in Nat
      /\ s[1] = s[0] + f[el[1]] /\ s[2] = s[1] + f[el[2]] /\ s[3] = s[2] + f[el[3]]
      /\ s[4] = s[3] + f[el[4]]
  BY <1>2
<1>5. s[4] = f[el[1]] + f[el[2]] + f[el[3]] + f[el[4]]
  BY <1>3, <1>4
<1>6. n >= 5 => f[el[5]] \in Nat /\ s[5] = s[4] + f[el[5]]
  BY <1>2
<1>7. n >= 6 => f[el[6]] \in Nat /\ s[6] = s[5] + f[el[6]]
  BY <1>2
<1>8. n >= 7 => f[el[7]] \in Nat /\ s[7] = s[6] + f[el[7]]
  BY <1>2
<1>9. n \in {4, 5, 6, 7}
  OBVIOUS
<1>10. s[4] \in Nat /\ (n >= 5 => s[5] \in Nat)
  <2>1. s[1] \in Nat /\ s[2] \in Nat
    BY <1>3, <1>4
  <2>2. s[3] \in Nat
    BY <1>4, <2>1
  <2>3. s[4] \in Nat
    BY <1>4, <2>2
  <2>4. QED
    BY <1>6, <2>3
<1>11. n >= 6 => s[6] = s[5] + f[el[6]] /\ s[6] \in Nat
  BY <1>7, <1>9, <1>10
<1>12. CASE n = 4
  BY <1>3, <1>4, <1>5, <1>12
<1>13. CASE n = 5
  BY <1>3, <1>4, <1>5, <1>6, <1>13
<1>14. CASE n = 6
  BY <1>3, <1>4, <1>5, <1>6, <1>7, <1>10, <1>14
<1>15. CASE n = 7
  BY <1>3, <1>4, <1>5, <1>6, <1>7, <1>8, <1>10, <1>11, <1>15
<1>16. QED
  BY <1>9, <1>12, <1>13, <1>14, <1>15

-----------------------------------------------------------------------------
(* Where an element is held *)

\* The name of the field that holds an element, by the element's name.
HolderName ==
    [commonHeader |-> "packet", payload |-> "packet",
     startByte |-> "commonHeader", payloadType |-> "commonHeader",
     sequenceNumber |-> "commonHeader", timeStamp |-> "commonHeader",
     payloadHeader |-> "payload", payloadData |-> "payload",
     startCode |-> "payloadHeader", dataSize |-> "payloadHeader", paddingSize |-> "payloadHeader",
     imageReserved |-> "payloadHeader", flag |-> "payloadHeader", imageReserved2 |-> "payloadHeader",
     dataVersion |-> "payloadHeader", frameCount |-> "payloadHeader",
     singleFrameDataSize |-> "payloadHeader", frameReserved |-> "payloadHeader",
     startCodeByte |-> "startCode",
     jpeg |-> "payloadData", padding |-> "payloadData", frameInformation |-> "payloadData",
     frameDataReserved |-> "payloadData",
     topLeft |-> "frameInformation", buttomRight |-> "frameInformation",
     category |-> "frameInformation", status |-> "frameInformation",
     additionalStatus |-> "frameInformation"]

\* The elements of the packet itself.
LEMMA PacketElements ==
    ASSUME NEW kd, NEW fr
    PROVE  Elements(packet, kd, fr) = IF kd = "none" THEN <<commonHeader>> ELSE <<commonHeader, payload>>
  BY FieldNames, Zenon DEF Elements

\* Only the payload's data depends on the frame count.
LEMMA FramesOnlyInData ==
    ASSUME NEW f \in Field, f # payloadData, NEW kd, NEW fr, NEW fs
    PROVE  Elements(f, kd, fr) = Elements(f, kd, fs)
<1>1. CASE f = packet
  BY <1>1, PacketElements
<1>2. CASE f = commonHeader
  BY <1>2, FieldElements
<1>3. CASE f = payload
  BY <1>3, FieldElements
<1>4. CASE f = payloadHeader
  BY <1>4, FieldElements
<1>5. CASE f = startCode
  BY <1>5, FieldElements
<1>6. CASE f \in FrameInformation
  BY <1>6, FrameInformationElements
<1>7. QED
  BY <1>1, <1>2, <1>3, <1>4, <1>5, <1>6 DEF Field

\* Every field holds a sequence of elements, never the packet.
LEMMA FieldSequence ==
    ASSUME NEW f \in Field, NEW kd \in {"none", "images", "frames"},
           NEW fr \in {NoFrames} \cup 0..MaxFrames
    PROVE  /\ Len(Elements(f, kd, fr)) \in Nat
           /\ DOMAIN Elements(f, kd, fr) = 1..Len(Elements(f, kd, fr))
           /\ \A k \in DOMAIN Elements(f, kd, fr) :
                Elements(f, kd, fr)[k] \in Element \ {packet}
<1>1. CASE f = packet
  BY <1>1, PacketElements, Members, FieldNames
<1>2. CASE f # packet
  BY <1>2, ElementsSequence, HeldElements, Layout
<1>3. QED
  BY <1>1, <1>2

\* An element is held by one field, at one place.
LEMMA Holders ==
    ASSUME NEW f \in Field, NEW kd \in {"none", "images", "frames"},
           NEW fr \in {NoFrames} \cup 0..MaxFrames,
           NEW k \in DOMAIN Elements(f, kd, fr), NEW e, e = Elements(f, kd, fr)[k]
    PROVE  /\ HolderName[e[1]] = f[1]
           /\ f[1] = "frameInformation" => e[2] = f[2]
           /\ \A j \in DOMAIN Elements(f, kd, fr) : Elements(f, kd, fr)[j] = e => j = k
<1> USE DEF HolderName
<1>1. CASE f = packet
  BY <1>1, PacketElements DEF packet, commonHeader, payload
<1>2. CASE f = commonHeader
  <2>1. Elements(f, kd, fr) = <<startByte, payloadType, <<"sequenceNumber", 0>>, <<"timeStamp", 0>> >>
    BY <1>2, FieldElements
  <2>2. QED
    BY <1>2, <2>1 DEF commonHeader, startByte, payloadType
<1>3. CASE f = payload
  BY <1>3, FieldElements DEF payload, payloadHeader, payloadData
<1>4. CASE f = payloadHeader
  <2>1. CASE kd = "images"
    <3>1. Elements(f, kd, fr) = <<startCode, dataSize, paddingSize,
                   <<"imageReserved", 0>>, <<"flag", 0>>, <<"imageReserved2", 0>> >>
      BY <1>4, <2>1, FieldElements
    <3>2. QED
      BY <1>4, <3>1 DEF payloadHeader, startCode, dataSize, paddingSize
  <2>2. CASE kd # "images"
    <3>1. Elements(f, kd, fr) = <<startCode, dataSize, paddingSize, <<"dataVersion", 0>>, frameCount,
                   <<"singleFrameDataSize", 0>>, <<"frameReserved", 0>> >>
      BY <1>4, <2>2, FieldElements
    <3>2. QED
      BY <1>4, <3>1 DEF payloadHeader, startCode, dataSize, paddingSize, frameCount
  <2>3. QED
    BY <2>1, <2>2
<1>5. CASE f = startCode
  <2>1. Elements(f, kd, fr) = [m \in 1..4 |-> <<"startCodeByte", m>>]
    BY <1>5, FieldElements
  <2>2. QED
    BY <1>5, <2>1 DEF startCode
<1>6. CASE f = payloadData
  <2>1. CASE kd = "images"
    BY <1>6, <2>1, ImageElements DEF payloadData, jpeg, padding
  <2>2. CASE kd # "images" /\ fr = NoFrames
    <3>1. Elements(f, kd, fr) = << >>
      BY <1>6, <2>2, FrameElements
    <3>2. QED
      BY <3>1
  <2>3. CASE kd # "images" /\ fr # NoFrames
    <3>1. Elements(f, kd, fr) = [m \in 1..(fr + 1) |-> IF m <= fr THEN <<"frameInformation", m>>
                                                        ELSE <<"frameDataReserved", 0>>]
      BY <1>6, <2>3, FrameElements
    <3>2. fr \in Nat
      BY <2>3, ElementsAssumption
    <3>3. \A j \in 1..(fr + 1) :
            /\ j <= fr => Elements(f, kd, fr)[j] = <<"frameInformation", j>>
            /\ ~(j <= fr) => Elements(f, kd, fr)[j] = <<"frameDataReserved", 0>>
      BY <3>1
    <3>4. DOMAIN Elements(f, kd, fr) = 1..(fr + 1)
      BY <3>1
    <3>5. e[1] \in {"frameInformation", "frameDataReserved"}
      BY <3>3, <3>4
    <3>6. ASSUME NEW j \in 1..(fr + 1), Elements(f, kd, fr)[j] = e PROVE j = k
      <4>1. k \in 1..(fr + 1)
        BY <3>4
      <4>2. CASE j <= fr
        <5>1. e = <<"frameInformation", j>> /\ e[1] = "frameInformation"
          BY <3>3, <3>6, <4>2
        <5>2. ~(k <= fr) => e[1] = "frameDataReserved"
          BY <3>3, <4>1
        <5>3. k <= fr
          BY <5>1, <5>2
        <5>4. e = <<"frameInformation", k>>
          BY <3>3, <4>1, <5>3
        <5>5. QED
          BY <5>1, <5>4
      <4>3. CASE ~(j <= fr)
        <5>1. e[1] = "frameDataReserved"
          BY <3>3, <3>6, <4>3
        <5>2. k <= fr => e = <<"frameInformation", k>>
          BY <3>3, <4>1
        <5>3. k <= fr => e[1] = "frameInformation"
          BY <5>2
        <5>4. ~(k <= fr)
          BY <5>1, <5>3
        <5>5. QED
          BY <3>2, <3>6, <4>1, <4>3, <5>4
      <4>4. QED
        BY <4>2, <4>3
    <3>7. QED
      BY <1>6, <3>4, <3>5, <3>6 DEF payloadData
  <2>4. QED
    BY <2>1, <2>2, <2>3
<1>7. CASE f \in FrameInformation
  <2>1. Elements(f, kd, fr) = [m \in 1..5 |-> <<FrameLeaf[m], f[2]>>]
    BY <1>7, FrameInformationElements
  <2>2. k \in 1..5 /\ e = <<FrameLeaf[k], f[2]>> /\ f[1] = "frameInformation"
    BY <2>1, <1>7 DEF FrameInformation
  <2>3. HolderName[FrameLeaf[k]] = "frameInformation"
    BY <2>2 DEF FrameLeaf
  <2>4. \A j \in 1..5 : FrameLeaf[j] = FrameLeaf[k] => j = k
    BY <2>2 DEF FrameLeaf
  <2>5. ASSUME NEW j \in 1..5, Elements(f, kd, fr)[j] = e PROVE j = k
    <3>1. <<FrameLeaf[j], f[2]>> = <<FrameLeaf[k], f[2]>>
      BY <2>1, <2>2, <2>5
    <3>2. QED
      BY <2>4, <3>1
  <2>6. DOMAIN Elements(f, kd, fr) = 1..5
    BY <2>1
  <2> HIDE DEF HolderName
  <2>7. QED
    BY <2>2, <2>3, <2>5, <2>6
<1>8. QED
  BY <1>1, <1>2, <1>3, <1>4, <1>5, <1>6, <1>7 DEF Field

\* The name and the index tell fields apart.
LEMMA FieldByName ==
    ASSUME NEW f \in Field, NEW g \in Field, f[1] = g[1],
           f[1] = "frameInformation" => f[2] = g[2]
    PROVE  f = g
  BY DEF Field, FrameInformation, packet, commonHeader, payload, payloadHeader, startCode, payloadData

LEMMA HeldOnce ==
    ASSUME NEW f \in Field, NEW g \in Field, NEW kd \in {"none", "images", "frames"},
           NEW fr \in {NoFrames} \cup 0..MaxFrames,
           NEW k \in DOMAIN Elements(f, kd, fr), NEW j \in DOMAIN Elements(g, kd, fr),
           Elements(f, kd, fr)[k] = Elements(g, kd, fr)[j]
    PROVE  f = g /\ k = j
<1> DEFINE e == Elements(f, kd, fr)[k]
<1>1. HolderName[e[1]] = f[1] /\ (f[1] = "frameInformation" => e[2] = f[2])
  BY Holders
<1>2. HolderName[e[1]] = g[1] /\ (g[1] = "frameInformation" => e[2] = g[2])
  BY Holders
<1>3. f = g
  BY <1>1, <1>2, FieldByName
<1>4. QED
  BY <1>3, Holders

\* The sum of a field, when what its elements count changes.
LEMMA SumsGrow ==
    ASSUME NEW f \in Field, NEW kd \in {"none", "images", "frames"},
           NEW fr \in {NoFrames} \cup 0..MaxFrames, NEW p, NEW q,
           \A e \in Element \ {packet} : p[e] \in Nat /\ q[e] \in Nat /\ p[e] <= q[e]
    PROVE  /\ Total(Elements(f, kd, fr), p) \in Nat /\ Total(Elements(f, kd, fr), q) \in Nat
           /\ Total(Elements(f, kd, fr), p) <= Total(Elements(f, kd, fr), q)
<1>1. /\ Len(Elements(f, kd, fr)) \in Nat
      /\ DOMAIN Elements(f, kd, fr) = 1..Len(Elements(f, kd, fr))
      /\ \A k \in DOMAIN Elements(f, kd, fr) : Elements(f, kd, fr)[k] \in Element \ {packet}
  BY FieldSequence
<1>2. \A k \in DOMAIN Elements(f, kd, fr) :
        /\ p[Elements(f, kd, fr)[k]] \in Nat /\ q[Elements(f, kd, fr)[k]] \in Nat
        /\ p[Elements(f, kd, fr)[k]] <= q[Elements(f, kd, fr)[k]]
  BY <1>1
<1>3. Counts(Elements(f, kd, fr), p) /\ Counts(Elements(f, kd, fr), q)
  BY <1>2 DEF Counts
<1>4. QED
  BY <1>1, <1>2, <1>3, TotalMonotone

LEMMA SumsStay ==
    ASSUME NEW f \in Field, NEW kd \in {"none", "images", "frames"},
           NEW fr \in {NoFrames} \cup 0..MaxFrames, NEW p, NEW q,
           \A k \in DOMAIN Elements(f, kd, fr) :
                p[Elements(f, kd, fr)[k]] \in Nat /\ q[Elements(f, kd, fr)[k]] = p[Elements(f, kd, fr)[k]]
    PROVE  Total(Elements(f, kd, fr), q) = Total(Elements(f, kd, fr), p)
<1>1. /\ Len(Elements(f, kd, fr)) \in Nat
      /\ DOMAIN Elements(f, kd, fr) = 1..Len(Elements(f, kd, fr))
  BY FieldSequence
<1>2. Counts(Elements(f, kd, fr), p)
  BY DEF Counts
<1>3. QED
  BY <1>1, <1>2, TotalSame

\* What changes in one element changes in the sum of the field that holds it.
LEMMA SumsChange ==
    ASSUME NEW p, NEW q, NEW f \in Field, NEW kd \in {"none", "images", "frames"},
           NEW fr \in {NoFrames} \cup 0..MaxFrames,
           NEW i \in DOMAIN Elements(f, kd, fr), NEW e, e = Elements(f, kd, fr)[i],
           \A x \in Element \ {packet} : p[x] \in Nat /\ q[x] \in Nat,
           \A x \in Element \ {packet, e} : q[x] = p[x]
    PROVE  /\ Total(Elements(f, kd, fr), q) = Total(Elements(f, kd, fr), p) + (q[e] - p[e])
           /\ \A g \in Field \ {f} : Total(Elements(g, kd, fr), q) = Total(Elements(g, kd, fr), p)
<1>1. /\ Len(Elements(f, kd, fr)) \in Nat
      /\ DOMAIN Elements(f, kd, fr) = 1..Len(Elements(f, kd, fr))
      /\ \A k \in DOMAIN Elements(f, kd, fr) : Elements(f, kd, fr)[k] \in Element \ {packet}
  BY FieldSequence
<1>2. Counts(Elements(f, kd, fr), p) /\ Counts(Elements(f, kd, fr), q)
  BY <1>1 DEF Counts
<1>3. \A k \in DOMAIN Elements(f, kd, fr) \ {i} : q[Elements(f, kd, fr)[k]] = p[Elements(f, kd, fr)[k]]
  BY <1>1, HeldOnce
<1>4. Total(Elements(f, kd, fr), q) = Total(Elements(f, kd, fr), p) + (q[e] - p[e])
  BY <1>1, <1>2, <1>3, TotalChange
<1>5. ASSUME NEW g \in Field \ {f}
      PROVE  Total(Elements(g, kd, fr), q) = Total(Elements(g, kd, fr), p)
  <2>1. \A k \in DOMAIN Elements(g, kd, fr) : Elements(g, kd, fr)[k] \in Element \ {packet, e}
    BY FieldSequence, HeldOnce
  <2>2. QED
    BY <2>1, SumsStay
<1>6. QED
  BY <1>4, <1>5

-----------------------------------------------------------------------------
(* What follows from the invariant *)

LEMMA States ==
    ASSUME IInv
    PROVE  kind \in {"none", "images", "frames"} /\ frames \in {NoFrames} \cup 0..MaxFrames
  BY DEF IInv, TypeOK

\* The widths of the leaves.
LEMMA Widths ==
    ASSUME NEW e \in Leaf \ {jpeg, padding}
    PROVE  Width[e[1]] \in Nat
  BY ElementsAssumption DEF Leaf, Width, FrameLeaf, jpeg, padding

\* UNDEFINED_SIZE is more than a packet can be long.
LEMMA Limits ==
    /\ DataLimit \in Nat /\ UNDEFINED_SIZE \in Nat
    /\ 22 + ImageReserved + FrameReserved + DataLimit < UNDEFINED_SIZE
<1>1. \A m, i, f, x \in Nat : x > m * 257 + i + f /\ m >= 300 => 278 + i + f + m * 256 < x
  OBVIOUS
<1>2. 256 * 256 \in Nat /\ 256 * 256 >= 300 /\ 11 * MaxFrames \in Nat
  BY ElementsAssumption
<1>3. DataLimit = (256 * 256) * 256 + 256 + 11 * MaxFrames /\ 256 * 256 * 257 = (256 * 256) * 257
  BY DEF DataLimit
<1>4. (256 * 256) * 256 \in Nat
  BY <1>2
<1>5. QED
  BY <1>1, <1>2, <1>3, <1>4, ElementsAssumption

LEMMA HeaderSizes == HeaderSize \in 14..(14 + ImageReserved + FrameReserved)
  BY ElementsAssumption DEF HeaderSize

\* Every element counts a natural number.
LEMMA PosNat ==
    ASSUME TypeOK, Positions
    PROVE  \A e \in Element : pos[e] \in Nat
  BY Members DEF TypeOK, Positions, Element

LEMMA SizeNat ==
    ASSUME TypeOK, Sizes
    PROVE  \A e \in Element : size[e] \in Nat
<1>1. \A e \in Leaf : size[e] \in Nat
  BY DEF TypeOK
<1>2. UNDEFINED_SIZE \in Nat /\ HeaderSize \in Nat /\ DataLimit \in Nat
  BY ElementsAssumption, Limits, HeaderSizes
<1>3. size[payloadHeader] \in Nat
  BY <1>2 DEF Sizes
<1>4. size[payloadData] \in Nat
  BY <1>2, ElementsAssumption DEF Sizes, Sized
<1>5. size[payload] \in Nat
  BY <1>2, <1>3, <1>4 DEF Sizes
<1>6. size[packet] \in Nat /\ size[commonHeader] \in Nat /\ size[startCode] \in Nat
  BY <1>2 DEF Sizes
<1>7. \A f \in FrameInformation : size[f] \in Nat
  BY DEF Sizes
<1>8. QED
  BY <1>1, <1>3, <1>4, <1>5, <1>6, <1>7 DEF Element, Field

\* The sizes of the fields are the sums of those of their elements.
LEMMA HeaderTotal ==
    ASSUME NEW s, \A e \in Leaf \ {jpeg, padding} : s[e] = Width[e[1]], NEW kd, NEW fr
    PROVE  /\ Total(Elements(commonHeader, kd, fr), s) = 8
           /\ Total(Elements(startCode, kd, fr), s) = 4
<1> DEFINE h == Elements(commonHeader, kd, fr)
           c == Elements(startCode, kd, fr)
<1>1. /\ DOMAIN h = 1..4 /\ h[1] = startByte /\ h[2] = payloadType
      /\ h[3] = <<"sequenceNumber", 0>> /\ h[4] = <<"timeStamp", 0>>
  <2>1. h = <<startByte, payloadType, <<"sequenceNumber", 0>>, <<"timeStamp", 0>> >>
    BY FieldElements
  <2>2. QED
    BY <2>1
<1>2. DOMAIN c = 1..4 /\ \A k \in 1..4 : c[k] = <<"startCodeByte", k>>
  <2>1. c = [k \in 1..4 |-> <<"startCodeByte", k>>]
    BY FieldElements
  <2>2. QED
    BY <2>1
<1>3. \A k \in 1..4 : h[k] \in Leaf \ {jpeg, padding}
  <2>1. startByte \in Leaf /\ payloadType \in Leaf
    BY DEF Leaf, Width, FrameLeaf, startByte, payloadType
  <2>2. <<"sequenceNumber", 0>> \in Leaf /\ <<"timeStamp", 0>> \in Leaf
    BY DEF Leaf, Width, FrameLeaf
  <2>3. h[1] \in Leaf /\ h[2] \in Leaf /\ h[3] \in Leaf /\ h[4] \in Leaf
    BY <1>1, <2>1, <2>2
  <2>4. h[1] \notin {jpeg, padding} /\ h[2] \notin {jpeg, padding}
    BY <1>1 DEF startByte, payloadType, jpeg, padding
  <2>5. h[3] \notin {jpeg, padding} /\ h[4] \notin {jpeg, padding}
    BY <1>1 DEF jpeg, padding
  <2>6. \A k \in 1..4 : k = 1 \/ k = 2 \/ k = 3 \/ k = 4
    OBVIOUS
  <2> HIDE DEF h
  <2>7. QED
    BY <2>3, <2>4, <2>5, <2>6
<1>4. s[h[1]] = 1 /\ s[h[2]] = 1 /\ s[h[3]] = 2 /\ s[h[4]] = 4
  BY <1>1, <1>3 DEF Width, startByte, payloadType
<1>5. \A k \in 1..4 : c[k] \in Leaf \ {jpeg, padding} /\ s[c[k]] = 1
  BY <1>2 DEF Leaf, Width, jpeg, padding
<1> HIDE DEF h, c
<1>6. Counts(h, s) /\ Counts(c, s)
  <2>1. \A k \in 1..4 : k = 1 \/ k = 2 \/ k = 3 \/ k = 4
    OBVIOUS
  <2>2. \A k \in 1..4 : s[h[k]] \in Nat
    BY <1>4, <2>1
  <2>3. QED
    BY <1>1, <1>2, <1>5, <2>2 DEF Counts
<1>7. Total(h, s) = 8
  <2>1. Total(h, s) = s[h[1]] + s[h[2]] + s[h[3]] + s[h[4]] + 0 + 0 + 0
    BY <1>1, <1>6, LongerTotals
  <2>2. QED
    BY <1>4, <2>1
<1>8. Total(c, s) = 4
  <2>1. Total(c, s) = s[c[1]] + s[c[2]] + s[c[3]] + s[c[4]] + 0 + 0 + 0
    BY <1>2, <1>6, LongerTotals
  <2>2. QED
    BY <1>5, <2>1
<1>9. QED
  BY <1>7, <1>8 DEF h, c

LEMMA FrameTotal ==
    ASSUME NEW s, \A e \in Leaf \ {jpeg, padding} : s[e] = Width[e[1]], NEW kd, NEW fr,
           NEW f \in FrameInformation
    PROVE  Total(Elements(f, kd, fr), s) = 11
<1> DEFINE l == Elements(f, kd, fr)
<1>1. l = [k \in 1..5 |-> <<FrameLeaf[k], f[2]>>]
  BY FrameInformationElements
<1>2. DOMAIN l = 1..5 /\ \A k \in 1..5 : l[k] = <<FrameLeaf[k], f[2]>>
  BY <1>1
<1>3. f[2] \in 1..MaxFrames
  BY DEF FrameInformation
<1>4. \A k \in 1..5 : FrameLeaf[k] \notin {"jpeg", "padding"}
  BY DEF FrameLeaf
<1> HIDE DEF l
<1>5. \A k \in 1..5 : l[k] \in Leaf \ {jpeg, padding}
  <2>1. \A k \in 1..5 : l[k] \in Leaf
    BY <1>2, <1>3 DEF Leaf
  <2>2. \A k \in 1..5 : l[k][1] \notin {"jpeg", "padding"}
    BY <1>2, <1>4
  <2>3. QED
    BY <2>1, <2>2 DEF jpeg, padding
<1>6. \A k \in 1..5 : s[l[k]] = Width[FrameLeaf[k]]
  BY <1>2, <1>5
<1>7. /\ s[l[1]] = 4 /\ s[l[2]] = 4 /\ s[l[3]] = 1 /\ s[l[4]] = 1 /\ s[l[5]] = 1
  BY <1>6 DEF Width, FrameLeaf
<1>8. Counts(l, s)
  <2>1. \A k \in 1..5 : k = 1 \/ k = 2 \/ k = 3 \/ k = 4 \/ k = 5
    OBVIOUS
  <2>2. QED
    BY <1>2, <1>7, <2>1 DEF Counts
<1>9. Total(l, s) = s[l[1]] + s[l[2]] + s[l[3]] + s[l[4]] + s[l[5]] + 0 + 0
  BY <1>2, <1>8, LongerTotals
<1>10. Total(l, s) = 11
  BY <1>7, <1>9
<1>11. QED
  BY <1>10 DEF l

LEMMA PayloadHeaderTotal ==
    ASSUME NEW s, \A e \in Leaf \ {jpeg, padding} : s[e] = Width[e[1]], s[startCode] = 4,
           NEW kd, NEW fr
    PROVE  Total(Elements(payloadHeader, kd, fr), s) =
                IF kd = "images" THEN 13 + ImageReserved ELSE 14 + FrameReserved
<1> DEFINE h == Elements(payloadHeader, kd, fr)
           names == {"dataSize", "paddingSize", "imageReserved", "flag", "imageReserved2",
                     "dataVersion", "frameCount", "singleFrameDataSize", "frameReserved"}
<1>1. \A n \in names : <<n, 0>> \in Leaf \ {jpeg, padding}
  <2>1. \A n \in names : <<n, 0>> \in Leaf
    BY DEF Leaf, Width, FrameLeaf
  <2>2. QED
    BY <2>1 DEF jpeg, padding
<1>2. \A n \in names : s[<<n, 0>>] = Width[n]
  BY <1>1
<1>3. dataSize = <<"dataSize", 0>> /\ paddingSize = <<"paddingSize", 0>> /\ frameCount = <<"frameCount", 0>>
  BY DEF dataSize, paddingSize, frameCount
<1>4. ImageReserved \in Nat /\ FrameReserved \in Nat
  BY ElementsAssumption
<1>5. CASE kd = "images"
  <2>1. h = <<startCode, dataSize, paddingSize,
              <<"imageReserved", 0>>, <<"flag", 0>>, <<"imageReserved2", 0>> >>
    BY <1>5, FieldElements
  <2>2. /\ DOMAIN h = 1..6 /\ h[1] = startCode /\ h[2] = <<"dataSize", 0>> /\ h[3] = <<"paddingSize", 0>>
        /\ h[4] = <<"imageReserved", 0>> /\ h[5] = <<"flag", 0>> /\ h[6] = <<"imageReserved2", 0>>
    BY <1>3, <2>1
  <2> HIDE DEF h
  <2>3. /\ s[h[1]] = 4 /\ s[h[2]] = 3 /\ s[h[3]] = 1
        /\ s[h[4]] = 4 /\ s[h[5]] = 1 /\ s[h[6]] = ImageReserved
    BY <1>2, <2>2 DEF Width
  <2>4. \A k \in 1..6 : k = 1 \/ k = 2 \/ k = 3 \/ k = 4 \/ k = 5 \/ k = 6
    OBVIOUS
  <2>5. Counts(h, s)
    BY <1>4, <2>2, <2>3, <2>4 DEF Counts
  <2>6. Total(h, s) = s[h[1]] + s[h[2]] + s[h[3]] + s[h[4]] + s[h[5]] + s[h[6]] + 0
    BY <2>2, <2>5, LongerTotals
  <2>7. Total(h, s) = 13 + ImageReserved
    BY <1>4, <2>3, <2>6
  <2>8. QED
    BY <1>5, <2>7 DEF h
<1>6. CASE kd # "images"
  <2>1. h = <<startCode, dataSize, paddingSize, <<"dataVersion", 0>>, frameCount,
              <<"singleFrameDataSize", 0>>, <<"frameReserved", 0>> >>
    BY <1>6, FieldElements
  <2>2. /\ DOMAIN h = 1..7 /\ h[1] = startCode /\ h[2] = <<"dataSize", 0>> /\ h[3] = <<"paddingSize", 0>>
        /\ h[4] = <<"dataVersion", 0>> /\ h[5] = <<"frameCount", 0>>
        /\ h[6] = <<"singleFrameDataSize", 0>> /\ h[7] = <<"frameReserved", 0>>
    BY <1>3, <2>1
  <2> HIDE DEF h
  <2>3. /\ s[h[1]] = 4 /\ s[h[2]] = 3 /\ s[h[3]] = 1
        /\ s[h[4]] = 2 /\ s[h[5]] = 2 /\ s[h[6]] = 2 /\ s[h[7]] = FrameReserved
    BY <1>2, <2>2 DEF Width
  <2>4. \A k \in 1..7 : k = 1 \/ k = 2 \/ k = 3 \/ k = 4 \/ k = 5 \/ k = 6 \/ k = 7
    OBVIOUS
  <2>5. Counts(h, s)
    BY <1>4, <2>2, <2>3, <2>4 DEF Counts
  <2>6. Total(h, s) = s[h[1]] + s[h[2]] + s[h[3]] + s[h[4]] + s[h[5]] + s[h[6]] + s[h[7]]
    BY <2>2, <2>5, LongerTotals
  <2>7. Total(h, s) = 14 + FrameReserved
    BY <1>4, <2>3, <2>6
  <2>8. QED
    BY <1>6, <2>7 DEF h
<1>7. QED
  BY <1>5, <1>6

LEMMA SizeTotals ==
    ASSUME IInv, Sizes
    PROVE  /\ \A f \in {commonHeader, startCode} \cup FrameInformation :
                    size[f] = Total(_elements(f), size)
           /\ kind # "none" => size[payloadHeader] = Total(_elements(payloadHeader), size)
           /\ Sized => size[payloadData] = Total(_elements(payloadData), size)
                        /\ size[payload] = Total(_elements(payload), size)
<1>1. \A f \in {commonHeader, startCode} \cup FrameInformation : size[f] = Total(_elements(f), size)
  BY HeaderTotal, FrameTotal DEF Sizes, _elements
<1>2. kind # "none" => size[payloadHeader] = Total(_elements(payloadHeader), size)
  BY PayloadHeaderTotal DEF Sizes, _elements, HeaderSize
<1>3. Total(_elements(payload), size) = size[payloadHeader] + size[payloadData]
  <2>1. size[payloadHeader] \in Nat /\ size[payloadData] \in Nat
    BY SizeNat, Members DEF IInv
  <2>2. _elements(payload) = <<payloadHeader, payloadData>>
    BY FieldElements DEF _elements
  <2>3. QED
    BY <2>1, <2>2, ShortTotals
<1>4. QED
  BY <1>1, <1>2, <1>3 DEF Sizes

\* What CalcPos and CalcSize compute for the packet.
LEMMA PacketTotals ==
    ASSUME NEW kd, NEW fr, NEW p, p[commonHeader] \in Nat, p[payload] \in Nat
    PROVE  Total(Elements(packet, kd, fr), p) =
                IF kd = "none" THEN p[commonHeader] ELSE p[commonHeader] + p[payload]
  BY PacketElements, ShortTotals

\* A field counts no more than its size, and with the size all its elements are full.
LEMMA FieldBound ==
    ASSUME IInv, Positions, Sizes, NEW f \in Field, size[f] = Total(_elements(f), size),
           \A k \in DOMAIN _elements(f) : pos[_elements(f)[k]] <= size[_elements(f)[k]]
    PROVE  /\ pos[f] <= size[f]
           /\ Full(f) => \A k \in DOMAIN _elements(f) : Full(_elements(f)[k])
<1> DEFINE el == _elements(f)
<1>1. /\ Len(el) \in Nat /\ DOMAIN el = 1..Len(el)
      /\ \A k \in DOMAIN el : el[k] \in Element \ {packet}
  BY States, FieldSequence DEF _elements
<1>2. pos[f] \in Nat /\ pos[f] <= Total(el, pos)
  BY DEF Positions, Sum
<1>3. \A k \in DOMAIN el : pos[el[k]] \in Nat /\ size[el[k]] \in Nat
  BY <1>1, PosNat, SizeNat DEF IInv
<1>4. Counts(el, pos) /\ Counts(el, size)
  BY <1>3 DEF Counts
<1>5. /\ Total(el, pos) \in Nat /\ Total(el, size) \in Nat /\ Total(el, pos) <= Total(el, size)
      /\ \A k \in DOMAIN el : Total(el, size) - Total(el, pos) >= size[el[k]] - pos[el[k]]
  BY <1>1, <1>4, TotalMonotone
<1>6. pos[f] <= size[f]
  BY <1>2, <1>5
<1>7. ASSUME Full(f), NEW k \in DOMAIN el PROVE Full(el[k])
  <2>1. Total(el, size) - Total(el, pos) <= 0
    BY <1>2, <1>5, <1>7 DEF Full
  <2>2. size[el[k]] - pos[el[k]] <= 0
    BY <1>3, <1>5, <1>7, <2>1
  <2>3. QED
    BY <1>3, <1>7, <2>2 DEF Full
<1>8. QED
  BY <1>6, <1>7

\* No element counts more than its size, and what counts as full is.
LEMMA Bounds ==
    ASSUME IInv, SumInv
    PROVE  /\ \A e \in Element : pos[e] <= size[e]
           /\ FullFieldComplete
<1> USE DEF IInv, SumInv
<1>1. /\ \A e \in Element : pos[e] \in Nat /\ size[e] \in Nat
      /\ \A e \in Leaf : pos[e] <= size[e]
  BY PosNat, SizeNat DEF LeafBounds
<1>2. \A f \in Field : \A k \in DOMAIN _elements(f) : _elements(f)[k] \in Element
  BY States, FieldSequence DEF _elements
<1> DEFINE B(f) == pos[f] <= size[f] /\ (Full(f) => \A k \in DOMAIN _elements(f) : Full(_elements(f)[k]))
<1>3. ASSUME NEW f \in {commonHeader, startCode} \cup FrameInformation PROVE B(f)
  <2>1. f \in Field /\ f # packet /\ f # payload /\ f # payloadHeader /\ f # payloadData
    BY Members, FieldNames
  <2>2. ASSUME NEW k \in DOMAIN _elements(f) PROVE _elements(f)[k] \in Leaf
    <3>1. _elements(f)[k] \in Element \ {packet, commonHeader, payload}
      BY <1>2, <2>1, <2>2, Layout, States DEF _elements
    <3>2. f \notin {payload, payloadHeader, payloadData}
      BY <2>1
    <3>3. _elements(f)[k] \notin {payloadHeader, payloadData, startCode} \cup FrameInformation
      BY <2>1, <2>2, <3>2, Layout, States DEF _elements
    <3>4. QED
      BY <3>1, <3>3 DEF Element, Field
  <2>3. size[f] = Total(_elements(f), size)
    BY SizeTotals
  <2>4. QED
    BY <1>1, <2>1, <2>2, <2>3, FieldBound
<1>4. B(payloadHeader)
  <2>1. CASE kind = "none"
    <3>1. pos[payloadHeader] = 0
      BY <2>1, Members, FieldNames DEF HeaderOnly, HeaderElement, payloadHeader, startByte, payloadType,
            sequenceNumber, timeStamp
    <3>2. size[payloadHeader] > 0
      BY <2>1, ElementsAssumption DEF Sizes
    <3>3. QED
      BY <1>1, <3>1, <3>2, Members DEF Full
  <2>2. CASE kind # "none"
    <3>1. ASSUME NEW k \in DOMAIN _elements(payloadHeader)
          PROVE  _elements(payloadHeader)[k] \in Leaf \cup {startCode}
      <4>1. _elements(payloadHeader)[k] \in Element \ {packet, commonHeader, payload}
        BY <1>2, <3>1, Layout, States, Members, FieldNames DEF _elements
      <4>2. _elements(payloadHeader)[k] \notin {payloadHeader, payloadData} \cup FrameInformation
        BY <3>1, Layout, States, Members, FieldNames DEF _elements
      <4>3. QED
        BY <4>1, <4>2 DEF Element, Field
    <3>2. size[payloadHeader] = Total(_elements(payloadHeader), size)
      BY <2>2, SizeTotals
    <3>3. QED
      BY <1>1, <1>3, <3>1, <3>2, FieldBound, Members
  <2>3. QED
    BY <2>1, <2>2
<1>5. B(payloadData)
  <2>1. CASE ~Sized
    <3>1. pos[payloadData] = 0
      BY <2>1, Members DEF DataUntouched, DataElement
    <3>2. size[payloadData] > 0
      BY <2>1, ElementsAssumption DEF Sized
    <3>3. QED
      BY <1>1, <3>1, <3>2, Members DEF Full
  <2>2. CASE Sized
    <3>1. ASSUME NEW k \in DOMAIN _elements(payloadData)
          PROVE  _elements(payloadData)[k] \in Leaf \cup FrameInformation
      <4>1. _elements(payloadData)[k] \in Element \ {packet, commonHeader, payload}
        BY <1>2, <3>1, Layout, States, Members, FieldNames DEF _elements
      <4>2. _elements(payloadData)[k] \notin {payloadHeader, payloadData, startCode}
        BY <3>1, Layout, States, Members, FieldNames DEF _elements
      <4>3. QED
        BY <4>1, <4>2 DEF Element, Field
    <3>2. size[payloadData] = Total(_elements(payloadData), size)
      BY <2>2, SizeTotals
    <3>3. QED
      BY <1>1, <1>3, <3>1, <3>2, FieldBound, Members
  <2>3. QED
    BY <2>1, <2>2
<1>6. B(payload)
  <2>1. CASE ~Sized
    <3>1. pos[payload] < size[payloadHeader] /\ size[payload] = UNDEFINED_SIZE
      BY <2>1 DEF DataUntouched, Sizes
    <3>2. size[payloadHeader] <= UNDEFINED_SIZE
      BY HeaderSizes, ElementsAssumption DEF Sizes
    <3>3. pos[payload] < size[payload]
      BY <1>1, <3>1, <3>2, Members, ElementsAssumption
    <3>4. QED
      BY <1>1, <3>3, Members DEF Full
  <2>2. CASE Sized
    <3>1. \A k \in DOMAIN _elements(payload) : _elements(payload)[k] \in {payloadHeader, payloadData}
      BY FieldElements DEF _elements
    <3>2. size[payload] = Total(_elements(payload), size)
      BY <2>2, SizeTotals
    <3>3. QED
      BY <1>4, <1>5, <3>1, <3>2, FieldBound, Members
  <2>3. QED
    BY <2>1, <2>2
<1>7. pos[packet] < size[packet]
  <2>1. pos[packet] <= pos[commonHeader] + (IF kind = "none" THEN 0 ELSE pos[payload])
    <3>1. pos[packet] <= Sum(packet)
      BY Members DEF Positions
    <3>2. Sum(packet) = IF kind = "none" THEN pos[commonHeader] ELSE pos[commonHeader] + pos[payload]
      BY <1>1, Members, PacketTotals DEF Sum, _elements
    <3>3. QED
      BY <1>1, <3>1, <3>2, Members
  <2>2. pos[commonHeader] <= 8 /\ size[packet] = UNDEFINED_SIZE
    BY <1>3 DEF Sizes
  <2>3. kind # "none" => pos[payload] <= 14 + ImageReserved + FrameReserved + DataLimit
    <3>1. SUFFICES ASSUME kind # "none"
                   PROVE  pos[payload] <= 14 + ImageReserved + FrameReserved + DataLimit
      OBVIOUS
    <3>2. size[payloadHeader] \in Nat /\ size[payloadHeader] <= 14 + ImageReserved + FrameReserved
      BY <3>1, HeaderSizes, ElementsAssumption DEF Sizes
    <3>3. CASE ~Sized
      <4>1. pos[payload] < size[payloadHeader]
        BY <3>3 DEF DataUntouched
      <4>2. QED
        BY <1>1, <3>2, <4>1, Limits, ElementsAssumption, Members
    <3>4. CASE Sized
      <4>1. size[payloadData] \in 0..DataLimit
            /\ size[payload] = size[payloadHeader] + size[payloadData]
        BY <3>4 DEF Sizes
      <4>2. pos[payload] <= size[payload] /\ pos[payload] \in Nat
        BY <1>1, <1>6, Members
      <4>3. QED
        BY <3>2, <4>1, <4>2, Limits, ElementsAssumption
    <3>5. QED
      BY <3>3, <3>4
  <2>4. pos[packet] \in Nat /\ pos[commonHeader] \in Nat /\ pos[payload] \in Nat
    BY <1>1, Members
  <2>5. QED
    BY <2>1, <2>2, <2>3, <2>4, Limits, ElementsAssumption
<1>8. \A f \in Field : B(f)
  <2>1. B(packet)
    BY <1>1, <1>7, Members DEF Full
  <2>2. QED
    BY <2>1, <1>3, <1>4, <1>5, <1>6 DEF Field
<1> HIDE DEF B
<1>9. \A f \in Field : pos[f] <= size[f]
  BY <1>8 DEF B
<1>10. FullFieldComplete
  BY <1>8 DEF B, FullFieldComplete
<1>11. QED
  BY <1>1, <1>9, <1>10 DEF Element

-----------------------------------------------------------------------------
(* The sums, initially and in a new packet *)

\* The sizes of a new packet.
LEMMA NewSizes ==
    /\ \A e \in Leaf \ {jpeg, padding} : InitialSize[e] = Width[e[1]]
    /\ \A f \in {packet, payload, payloadHeader, payloadData} : InitialSize[f] = UNDEFINED_SIZE
    /\ InitialSize[commonHeader] = 8 /\ InitialSize[startCode] = 4
    /\ \A f \in FrameInformation : InitialSize[f] = 11
<1> USE Members, FieldNames
<1>1. \A e \in Leaf \ {jpeg, padding} : InitialSize[e] = Width[e[1]]
  BY DEF InitialSize
<1>2. \A f \in {packet, payload, payloadHeader, payloadData} : InitialSize[f] = UNDEFINED_SIZE
  <2>1. \A f \in {packet, payload, payloadHeader, payloadData} :
            f \in Element /\ f \notin Leaf /\ f # startCode /\ f # commonHeader /\ f \notin FrameInformation
    OBVIOUS
  <2>2. QED
    BY <2>1 DEF InitialSize
<1>3. InitialSize[startCode] = 4
  <2>1. startCode \in Element /\ startCode \notin Leaf
    OBVIOUS
  <2>2. QED
    BY <2>1 DEF InitialSize
<1>4. \A f \in FrameInformation : InitialSize[f] = 11
  <2>1. \A f \in FrameInformation : f \in Element /\ f \notin Leaf /\ f # startCode /\ f # commonHeader
    OBVIOUS
  <2>2. QED
    BY <2>1 DEF InitialSize, Width
<1>5. QED
  BY <1>1, <1>2, <1>3, <1>4, InitialSizes

\* A packet that has taken nothing counts nothing.
LEMMA NewSums ==
    ASSUME NEW f \in Field, NEW p, p = [e \in Element |-> 0]
    PROVE  Total(Elements(f, "none", NoFrames), p) = 0
<1>1. /\ Len(Elements(f, "none", NoFrames)) \in Nat
      /\ DOMAIN Elements(f, "none", NoFrames) = 1..Len(Elements(f, "none", NoFrames))
      /\ \A k \in DOMAIN Elements(f, "none", NoFrames) : Elements(f, "none", NoFrames)[k] \in Element
  BY FieldSequence
<1>2. \A k \in DOMAIN Elements(f, "none", NoFrames) : p[Elements(f, "none", NoFrames)[k]] = 0
  BY <1>1
<1>3. QED
  BY <1>1, <1>2, TotalZero

LEMMA InitSum == Init => SumInv
<1>1. SUFFICES ASSUME Init PROVE SumInv
  OBVIOUS
<1> USE <1>1, FieldNames, Members, NewSizes DEF Init
<1>2. \A f \in Field : pos[f] = 0 /\ Sum(f) = 0
  BY NewSums DEF Sum, _elements
<1>3. Positions
  BY <1>2 DEF Positions
<1>4. ~Sized
  BY DEF Sized
<1>5. Sizes
  BY <1>4 DEF Sizes
<1>6. HeaderOnly
  BY <1>4 DEF HeaderOnly
<1>7. DataUntouched
  <2>1. DataElement \subseteq Element
    BY DEF DataElement, FrameElement, Element, Leaf, Field, FrameLeaf, Width, frameDataReserved
  <2>2. pos[payload] < size[payloadHeader] /\ ~Full(payloadHeader)
    BY ElementsAssumption DEF Full
  <2>3. QED
    BY <1>4, <2>1, <2>2 DEF DataUntouched
<1>8. PayloadOpen
  BY ElementsAssumption DEF PayloadOpen, Full
<1>9. HeaderDone /\ CallersStand
  BY DEF HeaderDone, CallersStand
<1>10. PartialMeansRunOut
  BY DEF PartialMeansRunOut, InLoop
<1>11. QED
  BY <1>3, <1>5, <1>6, <1>7, <1>8, <1>9, <1>10 DEF SumInv

LEMMA PacketDeliveredSum == ASSUME IInv, SumInv, PacketDelivered PROVE SumInv'
<1> USE FieldNames, Members, NewSizes DEF PacketDelivered, PayloadReturned, NewPacket, Return
<1>2. \A f \in Field : pos'[f] = 0 /\ Sum(f)' = 0
  BY NewSums DEF Sum, _elements
<1>3. Positions'
  BY <1>2 DEF Positions
<1>4. ~Sized'
  BY DEF Sized
<1>5. Sizes'
  BY <1>4 DEF Sizes
<1>6. HeaderOnly'
  BY <1>4 DEF HeaderOnly
<1>7. DataUntouched'
  <2>1. DataElement \subseteq Element
    BY DEF DataElement, FrameElement, Element, Leaf, Field, FrameLeaf, Width, frameDataReserved
  <2>2. pos'[payload] < size'[payloadHeader] /\ ~Full(payloadHeader)'
    BY ElementsAssumption DEF Full
  <2>3. QED
    BY <1>4, <2>1, <2>2 DEF DataUntouched
<1>8. PayloadOpen'
  BY ElementsAssumption DEF PayloadOpen, Full
<1>9. HeaderDone' /\ CallersStand'
  BY DEF HeaderDone, CallersStand
<1>10. PartialMeansRunOut'
  BY DEF PartialMeansRunOut, InLoop
<1>11. QED
  BY <1>3, <1>5, <1>6, <1>7, <1>8, <1>9, <1>10 DEF SumInv

-----------------------------------------------------------------------------
(* Steps along the chain of calls *)

\* The sums depend on the tree, not on where the calls are.
LEMMA SameSums ==
    ASSUME SumInv, UNCHANGED <<kind, frames, pos, size>>
    PROVE  Positions' /\ Sizes' /\ (Sized' <=> Sized)
  BY DEF SumInv, Positions, Sizes, Sized, Sum, _elements, HeaderSize

\* A step in which the chain of calls grows by nothing.
LEMMA ShrinkSum ==
    ASSUME IInv, SumInv, UNCHANGED <<kind, frames, pos, size, it>>,
           top' \in {Idle, packet} \/ top' = top \/ (InLoop /\ top' = Parent(top)),
           top' = packet => ret' = "false" \/ (top = packet /\ ret' = ret),
           ret' = "false" \/ (ret' = ret /\ top' = top) \/ top' = Idle,
           ~Sized /\ Full(payloadHeader) => top' = payload /\ ret' = "true",
           PartialMeansRunOut',
           top = packet /\ ret = "true" => top' = packet /\ ret' = "true"
    PROVE  SumInv'
<1> USE FieldNames, Members, Parents DEF SumInv
<1>1. Positions' /\ Sizes' /\ (Sized' <=> Sized)
  BY SameSums
<1>2. HeaderOnly'
  BY <1>1 DEF HeaderOnly, InLoop
<1>3. HeaderDone'
  <2>1. kind # "none" => top' # commonHeader
    BY DEF HeaderDone, InLoop, Field
  <2>2. QED
    BY <2>1 DEF HeaderDone, Full
<1>4. DataUntouched'
  BY <1>1 DEF DataUntouched, Full
<1>5. PayloadOpen'
  BY DEF PayloadOpen, Full
<1>6. CallersStand'
  <2>1. top' = startCode \/ top' \in FrameInformation => top' = top
    BY DEF InLoop, Field
  <2>2. QED
    BY <2>1 DEF CallersStand, _elements
<1>7. QED
  BY <1>1, <1>2, <1>3, <1>4, <1>5, <1>6

LEMMA StutterSum == ASSUME IInv, SumInv, UNCHANGED vars PROVE SumInv'
<1>1. PartialMeansRunOut'
  BY DEF SumInv, PartialMeansRunOut, InLoop, Full, Kid, _elements, Remaining, vars, parser
<1>2. QED
  BY <1>1, ShrinkSum DEF SumInv, DataUntouched, vars, parser

LEMMA PushSum == ASSUME IInv, SumInv, NEW n \in wire.cuts, Push(n) PROVE SumInv'
<1>1. PartialMeansRunOut'
  BY FieldNames, Members DEF PartialMeansRunOut, InLoop, Push
<1>2. ~(~Sized /\ Full(payloadHeader))
  BY FieldNames, Members DEF SumInv, DataUntouched, Push
<1>3. QED
  BY <1>1, <1>2, ShrinkSum, FieldNames, Members DEF Push, parser

LEMMA HeaderRefusedSum == ASSUME IInv, SumInv, HeaderRefused PROVE SumInv'
<1>1. PartialMeansRunOut'
  BY FieldNames, Members DEF PartialMeansRunOut, InLoop, HeaderRefused, Return
<1>2. ~(~Sized /\ Full(payloadHeader))
  BY FieldNames, Members DEF SumInv, DataUntouched, HeaderRefused
<1>3. QED
  BY <1>1, <1>2, ShrinkSum, FieldNames, Members DEF HeaderRefused, Return, parser

LEMMA KidRefusedSum == ASSUME IInv, SumInv, KidRefused PROVE SumInv'
<1>1. PartialMeansRunOut'
  BY DEF PartialMeansRunOut, KidRefused
<1>2. ~(~Sized /\ Full(payloadHeader))
  BY DEF SumInv, DataUntouched, KidRefused
<1>3. QED
  BY <1>1, <1>2, ShrinkSum, FieldNames, Members DEF KidRefused, parser, InLoop

LEMMA RefuseLeafSum == ASSUME IInv, SumInv, RefuseLeaf PROVE SumInv'
<1>1. PartialMeansRunOut'
  BY DEF PartialMeansRunOut, RefuseLeaf
<1>2. ~(~Sized /\ Full(payloadHeader))
  BY DEF SumInv, DataUntouched, RefuseLeaf, Looping
<1>3. QED
  BY <1>1, <1>2, ShrinkSum, FieldNames, Members DEF RefuseLeaf, Looping, InLoop

\* A field is entered where it stood, or at its first element.
LEMMA EnterSum ==
    ASSUME IInv, SumInv, NEW f \in Field \ {packet}, Enter(f),
           UNCHANGED <<kind, frames, pos, size>>, ~Full(payload),
           f = commonHeader <=> kind = "none",
           kind = "none" => pos[packet] = pos[commonHeader],
           ~(~Sized /\ Full(payloadHeader)),
           f = startCode => it[payloadHeader] = 1,
           f \in FrameInformation => it[payloadData] \in DOMAIN _elements(payloadData)
                                        /\ _elements(payloadData)[it[payloadData]] = f
    PROVE  SumInv'
<1> USE FieldNames, Members DEF SumInv, Enter
<1>1. Positions' /\ Sizes' /\ (Sized' <=> Sized)
  BY SameSums
<1>2. \A g \in Field : it'[g] = IF g = f THEN Resume(f) ELSE it[g]
  BY DEF IInv, TypeOK
<1>3. HeaderOnly'
  BY <1>1 DEF HeaderOnly
<1>4. HeaderDone'
  BY DEF HeaderDone, Full
<1>5. DataUntouched'
  <2>1. ~Sized => it'[payload] = 1
    BY <1>2 DEF DataUntouched, Resume
  <2>2. QED
    BY <1>1, <2>1 DEF DataUntouched, Full
<1>6. PayloadOpen'
  BY DEF PayloadOpen, Full
<1>7. CallersStand'
  BY <1>2 DEF CallersStand, _elements
<1>8. PartialMeansRunOut'
  BY DEF PartialMeansRunOut
<1>9. QED
  BY <1>1, <1>3, <1>4, <1>5, <1>6, <1>7, <1>8

LEMMA FillPacketSum == ASSUME IInv, SumInv, FillPacket PROVE SumInv'
<1> USE FieldNames, Members DEF FillPacket
<1>1. top = Idle /\ ~Full(payload) /\ ~(~Sized /\ Full(payloadHeader))
  BY DEF SumInv, PayloadOpen, DataUntouched
<1>2. CASE ~Full(commonHeader) /\ Call(commonHeader)
  <2>1. kind = "none" /\ Enter(commonHeader) /\ pos[packet] = pos[commonHeader]
    BY <1>1, <1>2 DEF SumInv, HeaderDone, HeaderOnly, Call
  <2>2. QED
    BY <1>1, <2>1, EnterSum
<1>3. CASE Full(commonHeader) /\ Call(payload)
  <2>1. kind # "none" /\ Enter(payload)
    BY <1>1, <1>3 DEF IInv, ChainInv, Call
  <2>2. QED
    BY <1>1, <2>1, EnterSum
<1>4. QED
  BY <1>2, <1>3

\* The loop stands at a place of its field.
LEMMA KidPlace ==
    ASSUME IInv, Looping
    PROVE  /\ it[top] \in DOMAIN _elements(top) /\ Kid = _elements(top)[it[top]]
           /\ Kid \in Element \ {packet}
<1>1. top \in Field \ {packet} /\ it[top] \in Nat \ {0} /\ ~(it[top] > Len(_elements(top)))
  BY DEF Looping, InLoop, End, IInv, TypeOK
<1>2. Len(_elements(top)) \in Nat /\ DOMAIN _elements(top) = 1..Len(_elements(top))
  BY <1>1, States, FieldSequence DEF _elements
<1>3. it[top] \in DOMAIN _elements(top)
  BY <1>1, <1>2
<1>4. QED
  BY <1>1, <1>3, States, FieldSequence DEF Kid, _elements

LEMMA CallFieldSum == ASSUME IInv, SumInv, CallField PROVE SumInv'
<1> USE FieldNames, Members
<1>1. /\ Kid \in Field \ {packet, commonHeader, payload}
      /\ Kid = startCode => top = payloadHeader
      /\ Kid \in FrameInformation => top = payloadData
      /\ Parent(Kid) = top /\ top \in Field \ {packet} /\ ret = "none"
  BY KidLayout DEF CallField, IInv, Looping, InLoop
<1>2. ~Full(payload) /\ ~(~Sized /\ Full(payloadHeader)) /\ kind # "none"
  <2>1. top # commonHeader
    BY <1>1, Parents DEF Field
  <2>2. QED
    BY <1>1, <2>1 DEF SumInv, PayloadOpen, DataUntouched, HeaderOnly
<1>3. UNCHANGED <<kind, frames, pos, size>> /\ Call(Kid)
  BY DEF CallField
<1>4. CASE Full(Kid)
  <2>1. top' = top /\ ret' = "false" /\ UNCHANGED it
    BY <1>1, <1>3, <1>4 DEF Call
  <2>2. PartialMeansRunOut'
    BY <2>1 DEF PartialMeansRunOut
  <2>3. QED
    BY <1>1, <1>2, <1>3, <2>1, <2>2, ShrinkSum
<1>5. CASE ~Full(Kid)
  <2>1. Enter(Kid)
    BY <1>3, <1>5 DEF Call
  <2>2. it[top] \in DOMAIN _elements(top) /\ Kid = _elements(top)[it[top]]
    BY KidPlace DEF CallField
  <2>3. Kid = startCode => it[payloadHeader] = 1
    <3>1. SUFFICES ASSUME Kid = startCode PROVE it[payloadHeader] = 1
      OBVIOUS
    <3>2. 1 \in DOMAIN _elements(payloadHeader) /\ _elements(payloadHeader)[1] = startCode
      BY FieldElements DEF _elements
    <3>3. top = payloadHeader /\ payloadHeader \in Field
      BY <1>1, <3>1
    <3>4. it[payloadHeader] \in DOMAIN _elements(payloadHeader)
          /\ _elements(payloadHeader)[it[payloadHeader]] = _elements(payloadHeader)[1]
      BY <2>2, <3>1, <3>2, <3>3
    <3>5. QED
      BY <3>2, <3>3, <3>4, States, HeldOnce DEF _elements
  <2>4. Kid # commonHeader /\ (Kid \in FrameInformation => it[payloadData] \in DOMAIN _elements(payloadData)
                                        /\ _elements(payloadData)[it[payloadData]] = Kid)
    BY <1>1, <2>2
  <2> HIDE DEF Kid
  <2>5. QED
    BY <1>1, <1>2, <1>3, <2>1, <2>3, <2>4, EnterSum
<1>6. QED
  BY <1>4, <1>5

\* On to the next element.
LEMMA NextElementSum == ASSUME IInv, SumInv, KidFull, ~HeaderFulfilled PROVE SumInv'
<1> USE FieldNames, Members DEF SumInv
<1>1. /\ UNCHANGED <<kind, frames, pos, size, top>> /\ ret' = "none"
      /\ top \in Field \ {packet} /\ ret = "true"
  BY DEF KidFull, Fulfilled, InLoop
<1>2. it'[top] = it[top] + 1 /\ \A g \in Field \ {top} : it'[g] = it[g]
  BY <1>1 DEF KidFull, IInv, TypeOK
<1>3. Positions' /\ Sizes' /\ (Sized' <=> Sized)
  BY <1>1, SameSums
<1>4. top = payload => it[payload] # 1
  BY DEF HeaderFulfilled
<1>5. HeaderOnly' /\ HeaderDone' /\ PayloadOpen'
  BY <1>1, <1>3 DEF HeaderOnly, HeaderDone, PayloadOpen, Full
<1>6. DataUntouched'
  BY <1>1, <1>2, <1>3, <1>4 DEF DataUntouched, Full
<1>7. CallersStand'
  BY <1>1, <1>2 DEF CallersStand, _elements
<1>8. PartialMeansRunOut'
  BY <1>1 DEF PartialMeansRunOut
<1>9. QED
  BY <1>3, <1>5, <1>6, <1>7, <1>8

-----------------------------------------------------------------------------
(* A leaf takes bytes *)

LEMMA LeafTakes ==
    ASSUME IInv, FillLeaf
    PROVE  /\ Kid \in Leaf /\ Kid \in Element \ Field /\ top \in Field \ {packet}
           /\ ret = "none" /\ ret' = "true" /\ Remaining \in Nat /\ Remaining > 0
           /\ CopyBytes \in Nat /\ rd' = rd + CopyBytes /\ pos'[Kid] = pos[Kid] + CopyBytes
           /\ \A e \in Element \ {Kid} : pos'[e] = pos[e]
           /\ CopyBytes = Remaining \/ pos'[Kid] = size[Kid]
           /\ UNCHANGED <<wire, wr, beyond, kind, frames, size, it, top, refused, out>>
<1>1. Kid \in Leaf /\ Kid \in Element \ Field /\ top \in Field \ {packet} /\ Remaining > 0 /\ ret = "none"
  BY Members DEF FillLeaf, Looping, InLoop
<1>2. pos[Kid] \in Nat /\ size[Kid] \in Nat /\ pos[Kid] <= size[Kid] /\ rd \in Nat /\ wr \in Nat
  BY <1>1 DEF IInv, TypeOK, LeafBounds
<1>3. Remaining \in Nat
  BY <1>1, <1>2 DEF Remaining
<1>4. CopyBytes \in Nat /\ (CopyBytes = Remaining \/ pos[Kid] + CopyBytes = size[Kid])
  <2> HIDE DEF Remaining, Kid
  <2>1. QED
    BY <1>2, <1>3 DEF CopyBytes
<1>5. pos'[Kid] = pos[Kid] + CopyBytes /\ \A e \in Element \ {Kid} : pos'[e] = pos[e]
  BY <1>1 DEF FillLeaf, IInv, TypeOK
<1>6. rd' = rd + CopyBytes /\ ret' = "true"
      /\ UNCHANGED <<wire, wr, beyond, kind, frames, size, it, top, refused, out>>
  BY DEF FillLeaf
<1>7. QED
  BY <1>1, <1>3, <1>4, <1>5, <1>6

\* The data's elements are held by the data, or by a frame.
LEMMA DataHolder ==
    ASSUME IInv, Looping, Kid \in DataElement
    PROVE  InData \/ top = payload
<1>1. HolderName[Kid[1]] = top[1] /\ top \in Field
  BY KidPlace, States, Holders DEF _elements, Looping, InLoop
<1>2. Kid[1] \in {"payloadData", "jpeg", "padding", "frameDataReserved", "frameInformation",
                  "topLeft", "buttomRight", "category", "status", "additionalStatus"}
  BY DEF DataElement, FrameElement, FrameInformation, FrameLeaf, payloadData, jpeg, padding,
        frameDataReserved
<1>3. top[1] \in {"payloadData", "frameInformation", "payload"}
  BY <1>1, <1>2 DEF HolderName
<1>4. QED
  BY <1>1, <1>3 DEF InData, Field, FrameInformation, packet, commonHeader, payload, payloadHeader,
        startCode, payloadData

\* The payload holds two fields, the common header four leaves.
LEMMA PayloadKid ==
    ASSUME IInv, Looping
    PROVE  /\ top = payload => Kid \in {payloadHeader, payloadData}
           /\ top = commonHeader => Kid \in {startByte, payloadType, sequenceNumber, timeStamp}
<1>1. it[top] \in DOMAIN _elements(top) /\ Kid = _elements(top)[it[top]]
  BY KidPlace
<1>2. top = payload => _elements(top) = <<payloadHeader, payloadData>>
  BY FieldElements DEF _elements
<1>3. top = commonHeader => _elements(top) = <<startByte, payloadType, sequenceNumber, timeStamp>>
  BY FieldElements DEF _elements, sequenceNumber, timeStamp
<1>4. QED
  BY <1>1, <1>2, <1>3

LEMMA FillLeafSum == ASSUME IInv, SumInv, FillLeaf PROVE SumInv'
<1> USE FieldNames, Members DEF SumInv
<1>1. /\ Kid \in Leaf /\ Kid \in Element \ Field /\ top \in Field \ {packet}
      /\ ret = "none" /\ ret' = "true" /\ Remaining \in Nat /\ Remaining > 0
      /\ CopyBytes \in Nat /\ rd' = rd + CopyBytes /\ pos'[Kid] = pos[Kid] + CopyBytes
      /\ \A e \in Element \ {Kid} : pos'[e] = pos[e]
      /\ CopyBytes = Remaining \/ pos'[Kid] = size[Kid]
      /\ UNCHANGED <<wire, wr, kind, frames, size, it, top>>
  BY LeafTakes
<1> HIDE DEF Kid
<1>2. \A e \in Element : pos[e] \in Nat /\ pos'[e] \in Nat /\ pos[e] <= pos'[e]
  BY <1>1, PosNat DEF IInv
<1>3. \A f \in Field : pos'[f] = pos[f] /\ f \in Element
  BY <1>1
<1>4. Positions'
  <2>1. SUFFICES ASSUME NEW f \in Field
                 PROVE  pos'[f] \in Nat /\ pos'[f] <= Total(Elements(f, kind, frames), pos')
    BY <1>1 DEF Positions, Sum, _elements
  <2>2. /\ Total(Elements(f, kind, frames), pos) \in Nat
        /\ Total(Elements(f, kind, frames), pos') \in Nat
        /\ Total(Elements(f, kind, frames), pos) <= Total(Elements(f, kind, frames), pos')
    BY <1>2, States, SumsGrow
  <2>3. pos[f] \in Nat /\ pos[f] <= Total(Elements(f, kind, frames), pos)
    BY DEF Positions, Sum, _elements
  <2>4. QED
    BY <1>3, <2>2, <2>3
<1>5. Sizes' /\ (Sized' <=> Sized)
  BY <1>1 DEF Sizes, Sized, _elements, HeaderSize
<1>6. Looping
  BY DEF FillLeaf
<1>7. top # payload
  BY <1>1, <1>6, PayloadKid
<1>8. HeaderOnly'
  <2>1. kind = "none" => Kid \in HeaderElement
    BY <1>1, <1>6, PayloadKid DEF HeaderOnly, HeaderElement
  <2>2. QED
    BY <1>1, <1>3, <1>5, <2>1 DEF HeaderOnly
<1>9. HeaderDone' /\ PayloadOpen' /\ CallersStand'
  BY <1>1, <1>3 DEF HeaderDone, PayloadOpen, CallersStand, Full, _elements
<1>10. DataUntouched'
  <2>1. ~Sized => Kid \notin DataElement
    BY <1>6, <1>7, DataHolder DEF IInv, ChainInv, DataUntouched
  <2>2. DataElement \subseteq Element
    BY DEF DataElement, FrameElement, Element, Leaf, Field, FrameLeaf, Width, frameDataReserved
  <2>3. QED
    BY <1>1, <1>3, <1>5, <1>7, <2>1, <2>2 DEF DataUntouched, Full
<1>11. PartialMeansRunOut'
  <2>1. Kid' = Kid
    BY <1>1 DEF Kid, _elements
  <2>2. CopyBytes = Remaining => Remaining' = 0
    BY <1>1 DEF Remaining, IInv, TypeOK
  <2>3. pos'[Kid] = size[Kid] => Full(Kid)'
    BY <1>1, <1>2, <2>1 DEF Full
  <2>4. QED
    BY <1>1, <2>2, <2>3 DEF PartialMeansRunOut
<1>12. QED
  BY <1>4, <1>5, <1>8, <1>9, <1>10, <1>11

-----------------------------------------------------------------------------
(* A field computes its position *)

\* A loop that has passed all its elements has counted all of them.
LEMMA Completed ==
    ASSUME IInv, SumInv, InLoop, End(top)
    PROVE  size[top] <= Sum(top)
<1> USE FieldNames, Members DEF IInv, SumInv
<1> DEFINE el == _elements(top)
<1>1. top \in Field \ {packet} /\ it[top] \in Nat \ {0}
  BY DEF InLoop, TypeOK
<1>2. /\ Len(el) \in Nat /\ DOMAIN el = 1..Len(el)
      /\ \A k \in DOMAIN el : el[k] \in Element \ {packet}
  BY <1>1, States, FieldSequence DEF _elements
<1>3. it[top] > Len(el)
  BY DEF End
<1> HIDE DEF el
<1>4. \A k \in DOMAIN el : k \in 1..(it[top] - 1)
  BY <1>1, <1>2, <1>3
<1>5. \A k \in DOMAIN el : Full(el[k])
  BY <1>1, <1>4 DEF PassedElementsFull, el
<1>6. \A k \in DOMAIN el : pos[el[k]] \in Nat /\ size[el[k]] \in Nat /\ size[el[k]] <= pos[el[k]]
  BY <1>2, <1>5, PosNat, SizeNat DEF Full
<1>7. Counts(el, pos) /\ Counts(el, size)
  BY <1>6 DEF Counts
<1>8. Total(el, size) <= Total(el, pos)
  BY <1>2, <1>6, <1>7, TotalMonotone
<1>9. top = payload => it[payload] # 1
  <2>1. Len(<<payloadHeader, payloadData>>) = 2
    OBVIOUS
  <2>2. top = payload => Len(el) = 2
    BY <2>1, FieldElements DEF el, _elements
  <2>3. QED
    BY <1>3, <2>2
<1>10. size[top] = Total(el, size)
  <2>1. top \in {payload, payloadData} => Sized
    BY <1>9 DEF ChainInv, InData, DataUntouched
  <2>2. top = payloadHeader => kind # "none"
    BY DEF ChainInv, InHeader
  <2>3. QED
    BY <1>1, <2>1, <2>2, SizeTotals DEF el, Field
<1>11. QED
  BY <1>8, <1>10 DEF Sum, el

\* Where the callers stand while top is filled.
LEMMA CallerStands ==
    ASSUME IInv, SumInv, InLoop, Parent(top) # packet
    PROVE  _elements(Parent(top))[it[Parent(top)]] = top
<1> USE FieldNames, Members, Parents DEF IInv, SumInv
<1>1. CASE top = payloadHeader
  BY <1>1, FieldElements DEF ChainInv, InHeader, _elements
<1>2. CASE top = payloadData
  BY <1>2, FieldElements DEF ChainInv, InData, _elements
<1>3. CASE top = startCode
  <2>1. _elements(payloadHeader)[1] = startCode
    BY FieldElements DEF _elements
  <2>2. QED
    BY <1>3, <2>1 DEF CallersStand
<1>4. CASE top \in FrameInformation
  BY <1>4 DEF CallersStand
<1>5. QED
  BY <1>1, <1>2, <1>3, <1>4 DEF InLoop, Field

LEMMA FinishSum ==
    ASSUME IInv, SumInv, InLoop, Finish, UNCHANGED <<wire, rd, wr, kind, frames, size, it>>,
           \/ ret = "true" /\ ~Full(Kid) /\ Remaining = 0
           \/ ret = "none" /\ (Remaining = 0 \/ End(top))
    PROVE  SumInv'
<1> USE FieldNames, Members DEF SumInv
<1>1. /\ top \in Field \ {packet} /\ top \in Element /\ top' = Parent(top) /\ ret' = "true"
      /\ pos'[top] = Sum(top) /\ \A e \in Element \ {top} : pos'[e] = pos[e]
  BY DEF Finish, InLoop, Sum, IInv, TypeOK
<1>2. \A e \in Element : pos[e] \in Nat
  BY PosNat DEF IInv
<1>3. \A e \in Element : pos[e] \in Nat /\ pos'[e] \in Nat /\ pos[e] <= pos'[e]
  <2>1. Sum(top) \in Nat
    BY <1>1, <1>2, States, SumsGrow DEF Sum, _elements
  <2>2. pos[top] <= Sum(top)
    BY <1>1 DEF Positions
  <2>3. QED
    BY <1>1, <1>2, <2>1, <2>2
<1>4. Positions'
  <2>1. SUFFICES ASSUME NEW f \in Field
                 PROVE  pos'[f] \in Nat /\ pos'[f] <= Total(Elements(f, kind, frames), pos')
    BY DEF Positions, Sum, _elements
  <2>2. /\ Total(Elements(f, kind, frames), pos) \in Nat
        /\ Total(Elements(f, kind, frames), pos') \in Nat
        /\ Total(Elements(f, kind, frames), pos) <= Total(Elements(f, kind, frames), pos')
    BY <1>3, States, SumsGrow
  <2>3. pos[f] \in Nat /\ pos[f] <= Total(Elements(f, kind, frames), pos)
    BY DEF Positions, Sum, _elements
  <2>4. pos'[f] = pos[f] \/ pos'[f] = Total(Elements(f, kind, frames), pos)
    BY <1>1 DEF Sum, _elements
  <2>5. QED
    BY <2>2, <2>3, <2>4
<1>5. Sizes' /\ (Sized' <=> Sized)
  BY DEF Sizes, Sized, _elements, HeaderSize
<1>6. /\ kind = "none" => top = commonHeader
      /\ kind # "none" => top # commonHeader
  BY <1>1 DEF HeaderOnly, HeaderDone, Idle, Field
<1>7. /\ top \in {commonHeader, payload} <=> Parent(top) = packet
      /\ Parent(top) \notin {commonHeader, startCode} \cup FrameInformation
      /\ Parent(top) = payload => top \in {payloadHeader, payloadData}
  BY <1>1, Parents DEF Field
<1>8. HeaderOnly'
  BY <1>1, <1>5, <1>6, <1>7 DEF HeaderOnly, HeaderElement
<1>9. HeaderDone'
  BY <1>1, <1>6, <1>7 DEF HeaderDone, Full
<1>10. ~Sized => ~Full(payloadHeader)
  <2>1. ~Sized /\ top = payload => Kid = payloadHeader
    BY FieldElements DEF DataUntouched, Kid, _elements
  <2> HIDE DEF Kid
  <2>2. QED
    BY <2>1 DEF DataUntouched
<1>11. DataUntouched'
  <2>1. ~Sized => it[payload] = 1 /\ \A e \in DataElement : e \in Element /\ pos'[e] = 0
    <3>1. ~Sized => top # payloadData /\ top \notin FrameInformation
      BY DEF IInv, ChainInv, InData, DataUntouched
    <3>2. ~Sized => top \notin DataElement
      BY <1>1, <3>1 DEF DataElement, FrameElement, Leaf, FrameLeaf, Width, frameDataReserved
    <3>3. DataElement \subseteq Element
      BY DEF DataElement, FrameElement, Element, Leaf, Field, FrameLeaf, Width, frameDataReserved
    <3>4. QED
      BY <1>1, <3>2, <3>3 DEF DataUntouched
  <2>2. ~Sized => pos'[payload] < size[payloadHeader]
    <3>1. SUFFICES ASSUME ~Sized PROVE pos'[payload] < size[payloadHeader]
      OBVIOUS
    <3>2. CASE top = payload
      <4>1. Sum(payload) = pos[payloadHeader] + pos[payloadData]
        BY <1>3, FieldElements, ShortTotals DEF Sum, _elements
      <4>2. pos[payloadData] = 0
        BY <3>1 DEF DataUntouched, DataElement
      <4>3. ~(size[payloadHeader] <= pos[payloadHeader]) /\ size[payloadHeader] \in Nat
        BY <1>10, <3>1, SizeNat DEF Full, IInv
      <4>4. QED
        BY <1>1, <1>3, <3>2, <4>1, <4>2, <4>3
    <3>3. CASE top # payload
      BY <1>1, <3>1, <3>3 DEF DataUntouched
    <3>4. QED
      BY <3>2, <3>3
  <2>3. ~Sized => (Full(payloadHeader)' => top' = payload /\ ret' = "true")
    <3>1. CASE top = payloadHeader
      BY <1>1, <3>1, Parents
    <3>2. CASE top # payloadHeader
      BY <1>1, <1>10, <3>2 DEF Full
    <3>3. QED
      BY <3>1, <3>2
  <2>4. Sized => Full(payloadHeader)'
    <3>1. size[payloadHeader] \in Nat
      BY SizeNat DEF IInv
    <3>2. QED
      BY <1>3, <3>1 DEF DataUntouched, Full
  <2>5. Sized => ~(top' = payload /\ it[payload] = 1)
    BY <1>1, <1>7 DEF IInv, ChainInv, InHeader, InData, DataUntouched
  <2>6. QED
    BY <1>5, <2>1, <2>2, <2>3, <2>4, <2>5 DEF DataUntouched
<1>12. PayloadOpen'
  BY <1>1, <1>7 DEF PayloadOpen, Full
<1>13. CallersStand'
  BY <1>1, <1>7 DEF CallersStand
<1>14. PartialMeansRunOut'
  <2>1. CASE Remaining = 0
    BY <2>1 DEF PartialMeansRunOut, Remaining
  <2>2. CASE ret = "none" /\ End(top)
    <3>2. size[top] <= pos'[top]
      BY <1>1, <2>2, Completed
    <3>3. top' # packet => Kid' = top
      BY <1>1, CallerStands DEF Kid, _elements
    <3>4. top' = packet => top = IF kind = "none" THEN commonHeader ELSE payload
      BY <1>1, <1>6, <1>7
    <3>5. QED
      BY <1>1, <3>2, <3>3, <3>4 DEF PartialMeansRunOut, InLoop, Full
  <2>3. QED
    BY <2>1, <2>2
<1>15. QED
  BY <1>4, <1>5, <1>8, <1>9, <1>11, <1>12, <1>13, <1>14

\* The loop breaks off where the buffer has run out.
LEMMA KidPartialSum == ASSUME IInv, SumInv, KidPartial PROVE SumInv'
<1>1. ret = "true" /\ ~Full(Kid) /\ Remaining = 0 /\ InLoop
  BY DEF KidPartial, SumInv, PartialMeansRunOut
<1> HIDE DEF Kid
<1>2. QED
  BY <1>1, FinishSum DEF KidPartial

LEMMA EndLoopSum == ASSUME IInv, SumInv, EndLoop PROVE SumInv'
  BY FinishSum DEF EndLoop

-----------------------------------------------------------------------------
(* The packet computes its position *)

\* The packet is an element of nothing.
LEMMA PacketAlone ==
    ASSUME IInv, NEW f \in Field, NEW p, NEW q, \A e \in Element \ {packet} : p[e] \in Nat /\ q[e] = p[e]
    PROVE  Total(_elements(f), q) = Total(_elements(f), p)
<1>1. \A k \in DOMAIN _elements(f) : _elements(f)[k] \in Element \ {packet}
  BY States, FieldSequence DEF _elements
<1>2. QED
  BY <1>1, States, SumsStay DEF _elements

LEMMA PacketSum ==
    ASSUME IInv, SumInv
    PROVE  Sum(packet) = IF kind = "none" THEN pos[commonHeader] ELSE pos[commonHeader] + pos[payload]
<1>1. pos[commonHeader] \in Nat /\ pos[payload] \in Nat
  BY PosNat, Members DEF IInv, SumInv
<1>2. QED
  BY <1>1, PacketTotals DEF Sum, _elements

LEMMA PacketStepSum ==
    ASSUME IInv, SumInv, top = packet, Return, UNCHANGED <<kind, frames, it>>,
           pos' = [pos EXCEPT ![packet] = Sum(packet)],
           \A e \in Element : size'[e] = size[e], ~Full(payload)
    PROVE  SumInv'
<1> USE FieldNames, Members DEF SumInv, Return
<1>1. \A e \in Element : pos[e] \in Nat
  BY PosNat DEF IInv
<1>2. pos'[packet] = Sum(packet) /\ \A e \in Element \ {packet} : pos'[e] = pos[e]
  BY DEF IInv, TypeOK
<1>3. \A f \in Field : Total(_elements(f), pos') = Sum(f) /\ Sum(f) \in Nat
  <2>1. \A f \in Field : Total(_elements(f), pos') = Sum(f)
    BY <1>1, <1>2, PacketAlone DEF Sum
  <2>2. \A f \in Field : Sum(f) \in Nat
    BY <1>1, States, SumsGrow DEF Sum, _elements
  <2>3. QED
    BY <2>1, <2>2
<1>4. Positions'
  <2>1. \A f \in Field : Sum(f)' = Total(_elements(f), pos')
    BY DEF Sum, _elements
  <2>2. SUFFICES ASSUME NEW f \in Field PROVE pos'[f] \in Nat /\ pos'[f] <= Sum(f)
    BY <1>3, <2>1 DEF Positions
  <2>3. pos'[f] = Sum(f) \/ pos'[f] = pos[f]
    BY <1>2
  <2>4. pos[f] \in Nat /\ pos[f] <= Sum(f) /\ Sum(f) \in Nat
    BY <1>3 DEF Positions
  <2>5. QED
    BY <2>3, <2>4
<1>5. Sizes' /\ (Sized' <=> Sized)
  <2>1. \A e \in Element : size[e] \in Nat
    BY SizeNat DEF IInv
  <2>2. Total(_elements(payloadData), size') = Total(_elements(payloadData), size)
    BY <2>1, PacketAlone
  <2>3. _elements(payloadData)' = _elements(payloadData)
    BY DEF _elements
  <2> HIDE DEF SumInv
  <2>4. Sized' <=> Sized
    BY DEF Sized
  <2>5. Sizes
    BY DEF SumInv
  <2>6. Sizes'
    BY <2>2, <2>3, <2>4, <2>5 DEF Sizes, HeaderSize
  <2>7. QED
    BY <2>4, <2>6
<1>6. Sum(packet) = IF kind = "none" THEN pos[commonHeader] ELSE pos[commonHeader] + pos[payload]
  BY PacketSum
<1>7. HeaderOnly'
  BY <1>2, <1>5, <1>6 DEF HeaderOnly, HeaderElement
<1>8. HeaderDone'
  <2>1. kind # "none" => Full(commonHeader) /\ size[commonHeader] = 8
    BY DEF HeaderDone, Sizes
  <2>2. kind # "none" => Sum(packet) > 0
    BY <1>1, <1>6, <2>1 DEF Full
  <2>3. QED
    BY <1>2, <2>1, <2>2 DEF HeaderDone, Full
<1>9. DataUntouched'
  <2>1. packet \notin DataElement
    BY DEF DataElement, FrameElement, FrameLeaf, FrameInformation, Leaf, Width, frameDataReserved,
          packet, payloadData, jpeg, padding
  <2>2. DataElement \subseteq Element
    BY DEF DataElement, FrameElement, Element, Leaf, Field, FrameLeaf, Width, frameDataReserved
  <2>3. ~Sized => ~Full(payloadHeader)
    BY DEF DataUntouched
  <2>4. QED
    BY <1>2, <1>5, <2>1, <2>2, <2>3 DEF DataUntouched, Full
<1>10. PayloadOpen'
  BY <1>2 DEF PayloadOpen, Full
<1>11. CallersStand' /\ PartialMeansRunOut'
  BY DEF CallersStand, PartialMeansRunOut, InLoop
<1>12. QED
  BY <1>4, <1>5, <1>7, <1>8, <1>9, <1>10, <1>11

LEMMA HeaderPartialSum == ASSUME IInv, SumInv, HeaderPartial PROVE SumInv'
<1>1. pos[payload] = 0 /\ size[payload] = UNDEFINED_SIZE
  <2>1. payload \notin HeaderElement
    BY DEF HeaderElement, packet, commonHeader, startByte, payloadType, sequenceNumber, timeStamp, payload
  <2>2. QED
    BY <2>1, Members DEF HeaderPartial, SumInv, HeaderOnly, Sizes
<1>2. ~Full(payload)
  BY <1>1, ElementsAssumption DEF Full
<1>3. QED
  BY <1>2, PacketStepSum DEF HeaderPartial, Sum

\* The size of the payload, once its data is sized.
LEMMA PayloadSize ==
    ASSUME IInv, SumInv
    PROVE  /\ Sized => size[payload] \in Nat
                        /\ size[payload] <= 14 + ImageReserved + FrameReserved + DataLimit
           /\ Full(payload) => Sized
           /\ kind = "none" => ~Full(payload)
<1> USE FieldNames, Members DEF SumInv
<1>1. Sized => size[payloadData] \in 0..DataLimit
                /\ size[payload] = size[payloadHeader] + size[payloadData]
  BY DEF Sizes
<1>2. Sized => kind # "none"
  BY DEF HeaderOnly
<1>3. kind # "none" => size[payloadHeader] \in Nat
                        /\ size[payloadHeader] <= 14 + ImageReserved + FrameReserved
  BY HeaderSizes, ElementsAssumption DEF Sizes
<1>4. Sized => size[payload] \in Nat
                /\ size[payload] <= 14 + ImageReserved + FrameReserved + DataLimit
  BY <1>1, <1>2, <1>3, Limits, ElementsAssumption
<1>5. ~Sized => ~Full(payload)
  <2>1. SUFFICES ASSUME ~Sized PROVE ~Full(payload)
    OBVIOUS
  <2>2. pos[payload] < size[payloadHeader] /\ size[payload] = UNDEFINED_SIZE
    BY <2>1 DEF DataUntouched, Sizes
  <2>3. size[payloadHeader] <= UNDEFINED_SIZE /\ size[payloadHeader] \in Nat
    BY HeaderSizes, SizeNat, Limits, ElementsAssumption DEF Sizes, IInv
  <2>4. pos[payload] \in Nat
    BY PosNat DEF IInv
  <2>5. QED
    BY <2>2, <2>3, <2>4, ElementsAssumption DEF Full
<1>6. QED
  BY <1>2, <1>4, <1>5

\* A packet whose payload is full is full itself, with the sizes of both.
LEMMA PacketFull ==
    ASSUME IInv, SumInv, Full(payload)
    PROVE  /\ PosAfterPayload = pos[commonHeader] + pos[payload]
           /\ SizeAfterPayload = PosAfterPayload
           /\ pos[commonHeader] = size[commonHeader] /\ pos[payload] = size[payload]
<1> USE FieldNames, Members
<1>1. kind # "none" /\ Sized
  BY PayloadSize
<1>2. _elements(packet) = <<commonHeader, payload>>
  BY <1>1, PacketElements DEF _elements
<1>3. /\ pos[commonHeader] \in Nat /\ pos[payload] \in Nat
      /\ size[commonHeader] \in Nat /\ size[payload] \in Nat
  BY PosNat, SizeNat DEF IInv, SumInv
<1>4. PosAfterPayload = pos[commonHeader] + pos[payload]
  BY <1>2, <1>3, ShortTotals DEF PosAfterPayload
<1>5. size[commonHeader] # UNDEFINED_SIZE /\ size[payload] # UNDEFINED_SIZE
  <2>1. size[commonHeader] = 8
    BY DEF SumInv, Sizes
  <2>2. QED
    BY <1>1, <2>1, PayloadSize, Limits, ElementsAssumption
<1>6. \A k \in DOMAIN _elements(packet) : size[_elements(packet)[k]] # UNDEFINED_SIZE
  BY <1>2, <1>5
<1>7. SizeAfterPayload = Total(_elements(packet), size)
  BY <1>6 DEF SizeAfterPayload, CalcSize
<1>8. SizeAfterPayload = size[commonHeader] + size[payload]
  BY <1>2, <1>3, <1>7, ShortTotals
<1>9. Full(commonHeader) /\ Full(payload)
  BY <1>1 DEF SumInv, HeaderDone
<1>10. pos[commonHeader] <= size[commonHeader] /\ pos[payload] <= size[payload]
  BY Bounds
<1>11. QED
  BY <1>3, <1>4, <1>8, <1>9, <1>10 DEF Full

LEMMA PacketPartialSum == ASSUME IInv, SumInv, PacketPartial PROVE SumInv'
<1>1. ~Full(payload)
  <2>1. SUFFICES ASSUME Full(payload) PROVE FALSE
    OBVIOUS
  <2>2. ret = "true"
    BY <2>1 DEF PacketPartial, PayloadReturned, SumInv, PayloadOpen
  <2>3. SizeAfterPayload = PosAfterPayload /\ PosAfterPayload \in Nat
    BY <2>1, PacketFull, PosNat, Members DEF IInv, SumInv
  <2>4. QED
    BY <2>2, <2>3 DEF PacketPartial
<1>2. \A e \in Element : size'[e] = size[e]
  <2>1. SizeAfterPayload = size[packet] /\ DOMAIN size = Element
    BY <1>1 DEF SizeAfterPayload, IInv, TypeOK
  <2>2. QED
    BY <2>1 DEF PacketPartial
<1>3. pos' = [pos EXCEPT ![packet] = Sum(packet)]
  BY DEF PacketPartial, PosAfterPayload, Sum
<1>4. QED
  BY <1>1, <1>2, <1>3, PacketStepSum DEF PacketPartial, PayloadReturned

-----------------------------------------------------------------------------
(* The payload is created *)

\* What belongs to the payload's data, and what to neither it nor the header.
LEMMA DataNames ==
    /\ DataElement \subseteq Element \ HeaderElement
    /\ {payload, payloadHeader, startCode} \subseteq Element \ (HeaderElement \cup DataElement)
    /\ HeaderElement \subseteq Element
<1> USE DEF packet, commonHeader, payload, payloadHeader, startCode, payloadData, startByte,
        payloadType, sequenceNumber, timeStamp, jpeg, padding, frameDataReserved
<1>1. DataElement \subseteq Element
  BY DEF DataElement, FrameElement, Element, Leaf, Field, FrameLeaf, Width
<1>2. \A e \in FrameElement : e[1] \in {"frameInformation", "topLeft", "buttomRight", "category",
                                        "status", "additionalStatus"}
  BY DEF FrameElement, FrameInformation, FrameLeaf
<1>3. HeaderElement \cap DataElement = {}
  BY <1>2 DEF HeaderElement, DataElement
<1>4. {payload, payloadHeader, startCode} \cap (HeaderElement \cup DataElement) = {}
  BY <1>2 DEF HeaderElement, DataElement
<1>5. HeaderElement \subseteq Element
  BY DEF HeaderElement, Element, Leaf, Field, FrameLeaf, Width
<1>6. {payload, payloadHeader, startCode} \subseteq Element
  BY DEF Element, Field
<1>7. QED
  BY <1>1, <1>3, <1>4, <1>5, <1>6

\* CalcSize of elements that have sizes, and one sum below UNDEFINED_SIZE.
LEMMA CalcSizeTotal ==
    ASSUME NEW f \in Field, NEW kd \in {"none", "images", "frames"},
           NEW fr \in {NoFrames} \cup 0..MaxFrames, NEW s,
           \A k \in DOMAIN Elements(f, kd, fr) : s[Elements(f, kd, fr)[k]] \in Nat,
           Total(Elements(f, kd, fr), s) < UNDEFINED_SIZE
    PROVE  CalcSize(Elements(f, kd, fr), s) = Total(Elements(f, kd, fr), s)
<1>1. /\ Len(Elements(f, kd, fr)) \in Nat
      /\ DOMAIN Elements(f, kd, fr) = 1..Len(Elements(f, kd, fr))
  BY FieldSequence
<1>2. Counts(Elements(f, kd, fr), s)
  BY DEF Counts
<1>3. Total(Elements(f, kd, fr), s) \in Nat
  BY <1>1, <1>2, TotalNat
<1>4. ASSUME NEW k \in DOMAIN Elements(f, kd, fr)
      PROVE  s[Elements(f, kd, fr)[k]] # UNDEFINED_SIZE
  <2>1. s[Elements(f, kd, fr)[k]] <= Total(Elements(f, kd, fr), s)
    BY <1>1, <1>2, TotalElement
  <2>2. s[Elements(f, kd, fr)[k]] \in Nat
    OBVIOUS
  <2>3. QED
    BY <1>3, <2>1, <2>2, ElementsAssumption
<1>5. QED
  BY <1>4 DEF CalcSize

LEMMA HeaderFullSum == ASSUME IInv, SumInv, HeaderFull PROVE SumInv'
<1> USE FieldNames, Members DEF SumInv
<1>1. /\ top = packet /\ kind = "none" /\ Full(commonHeader) /\ ~Sized /\ size[commonHeader] = 8
      /\ \A e \in Element \ HeaderElement : pos[e] = 0
      /\ kind' \in {"images", "frames"} /\ frames' = frames
  BY DEF HeaderFull, HeaderOnly, Sizes
<1>2. \A e \in Element : pos[e] \in Nat /\ size[e] \in Nat
  BY PosNat, SizeNat DEF IInv
<1>3. /\ pos'[packet] = pos[commonHeader]
      /\ \A e \in Element \ {packet} : pos'[e] = pos[e]
  <2>1. pos' = [pos EXCEPT ![packet] = Sum(packet)] /\ DOMAIN pos = Element
    BY DEF HeaderFull, Sum, IInv, TypeOK
  <2>2. Sum(packet) = pos[commonHeader]
    BY <1>1, PacketSum
  <2>3. QED
    BY <2>1, <2>2
<1>4. /\ size'[payloadHeader] = CalcSize(Elements(payloadHeader, kind', frames), size)
      /\ \A e \in Element \ {payloadHeader} : size'[e] = size[e]
  BY DEF HeaderFull, IInv, TypeOK
<1>5. top' = payload /\ ret' = "none" /\ it'[payload] = 1
  <2>1. Enter(payload)
    BY <1>1, PayloadSize DEF HeaderFull, Call
  <2>2. pos[payload] = 0
    BY <1>1, DataNames
  <2>3. QED
    BY <2>1, <2>2 DEF Enter, Resume, IInv, TypeOK
<1>6. size'[payloadHeader] = HeaderSize'
  <2>1. Total(Elements(payloadHeader, kind', frames), size)
            = IF kind' = "images" THEN 13 + ImageReserved ELSE 14 + FrameReserved
    BY PayloadHeaderTotal DEF Sizes
  <2>2. Total(Elements(payloadHeader, kind', frames), size) < UNDEFINED_SIZE
    BY <2>1, ElementsAssumption
  <2>3. \A k \in DOMAIN Elements(payloadHeader, kind', frames) :
            size[Elements(payloadHeader, kind', frames)[k]] \in Nat
    BY <1>1, <1>2, States, FieldSequence
  <2>4. QED
    BY <1>1, <1>4, <2>1, <2>2, <2>3, States, CalcSizeTotal DEF HeaderSize
<1>7. HeaderSize' \in Nat /\ HeaderSize' > 0 /\ HeaderSize' # UNDEFINED_SIZE
  BY <1>1, ElementsAssumption DEF HeaderSize
<1>8. ~Sized'
  BY <1>1, <1>4 DEF Sized
<1>9. Positions'
  <2>1. SUFFICES ASSUME NEW f \in Field
                 PROVE  pos'[f] \in Nat /\ pos'[f] <= Total(Elements(f, kind', frames), pos')
    BY <1>1 DEF Positions, Sum, _elements
  <2>2. \A e \in Element : pos'[e] \in Nat
    BY <1>2, <1>3
  <2>3. Total(Elements(f, kind', frames), pos') \in Nat
    BY <1>1, <2>2, States, SumsGrow
  <2>4. CASE f = packet
    <3>1. Total(Elements(packet, kind', frames), pos') = pos'[commonHeader] + pos'[payload]
      BY <1>1, <2>2, PacketTotals
    <3>2. QED
      BY <1>2, <1>3, <2>2, <2>4, <3>1
  <2>5. CASE f = commonHeader
    <3>1. Elements(f, kind', frames) = _elements(f)
      BY <2>5, FieldElements DEF _elements
    <3>2. Total(_elements(f), pos') = Sum(f)
      BY <1>2, <1>3, PacketAlone DEF Sum
    <3>3. QED
      BY <1>3, <2>5, <3>1, <3>2 DEF Positions
  <2>6. CASE f \notin {packet, commonHeader}
    <3>1. f \notin HeaderElement
      BY <2>6 DEF HeaderElement, Field, FrameInformation, payload, payloadHeader, startCode,
            payloadData, startByte, payloadType, sequenceNumber, timeStamp
    <3>2. pos'[f] = 0
      BY <1>1, <1>3, <2>6, <3>1
    <3>3. QED
      BY <2>3, <3>2
  <2>7. QED
    BY <2>4, <2>5, <2>6
<1>10. Sizes'
  <2>1. \A e \in Leaf : e # payloadHeader
    OBVIOUS
  <2>2. QED
    BY <1>1, <1>4, <1>6, <1>8, <2>1 DEF Sizes
<1>11. HeaderOnly' /\ CallersStand' /\ PartialMeansRunOut'
  BY <1>1, <1>5 DEF HeaderOnly, CallersStand, PartialMeansRunOut
<1>12. HeaderDone'
  <2>1. pos[commonHeader] >= 8
    BY <1>1, <1>2 DEF Full
  <2>2. QED
    BY <1>1, <1>2, <1>3, <1>4, <1>5, <2>1 DEF HeaderDone, Full
<1>13. DataUntouched'
  <2>1. pos'[payload] = 0 /\ pos'[payloadHeader] = 0 /\ \A e \in DataElement : pos'[e] = 0
    BY <1>1, <1>3, DataNames DEF HeaderElement
  <2>2. ~Full(payloadHeader)'
    BY <1>6, <1>7, <2>1 DEF Full
  <2>3. QED
    BY <1>5, <1>6, <1>7, <1>8, <2>1, <2>2 DEF DataUntouched
<1>14. PayloadOpen'
  <2>1. pos'[payload] = 0 /\ size'[payload] = UNDEFINED_SIZE
    BY <1>1, <1>3, <1>4, DataNames DEF Sizes, HeaderElement
  <2>2. QED
    BY <2>1, ElementsAssumption DEF PayloadOpen, Full
<1>15. QED
  BY <1>9, <1>10, <1>11, <1>12, <1>13, <1>14

-----------------------------------------------------------------------------
(* The payload's data is sized *)

\* A digit more, and three of them.
LEMMA OneByteMore ==
    ASSUME NEW m \in Nat, NEW x \in Nat, x <= m - 1, NEW b \in 0..255
    PROVE  x * 256 + b \in Nat /\ x * 256 + b <= m * 256 - 1
  OBVIOUS

LEMMA ThreeBytes ==
    ASSUME NEW d, d[1] \in 0..255, d[2] \in 0..255, d[3] \in 0..255
    PROVE  TriByteNumber(d) \in Nat /\ TriByteNumber(d) <= 256 * 256 * 256 - 1
<1>1. PICK a \in 0..255, b \in 0..255, c \in 0..255 : a = d[1] /\ b = d[2] /\ c = d[3]
  OBVIOUS
<1>2. TriByteNumber(d) = a * 256 * 256 + b * 256 + c
  BY <1>1 DEF TriByteNumber
<1> HIDE DEF TriByteNumber
<1> DEFINE y == a * 256 + b
<1>3. y \in Nat /\ y <= 256 * 256 - 1
  OBVIOUS
<1>4. a * 256 * 256 + b * 256 + c = y * 256 + c
  OBVIOUS
<1> HIDE DEF y
<1>5. 256 * 256 \in Nat
  OBVIOUS
<1>6. y * 256 + c \in Nat /\ y * 256 + c <= 256 * 256 * 256 - 1
  BY <1>3, <1>5, OneByteMore
<1>7. QED
  BY <1>2, <1>4, <1>6

\* The numbers of the header have as many bytes as their leaves.
LEMMA NumberBounds ==
    ASSUME TypeOK
    PROVE  DataSize \in Nat /\ DataSize <= 256 * 256 * 256 - 1 /\ PaddingSize \in 0..255
<1>1. \A e \in ReadLeaf : \A k \in 1..Width[e[1]] : data[e][k] \in 0..255
  <2>1. SUFFICES ASSUME NEW e \in ReadLeaf, NEW k \in 1..Width[e[1]] PROVE data[e][k] \in 0..255
    OBVIOUS
  <2>2. data[e] \in [1..Width[e[1]] -> Byte]
    BY <2>1 DEF TypeOK
  <2>3. QED
    BY <2>1, <2>2 DEF Byte
<1>2. /\ Width[dataSize[1]] = 3 /\ Width[paddingSize[1]] = 1
      /\ dataSize \in ReadLeaf /\ paddingSize \in ReadLeaf
  BY DEF Width, dataSize, paddingSize, ReadLeaf
<1>3. data[dataSize][1] \in 0..255 /\ data[dataSize][2] \in 0..255 /\ data[dataSize][3] \in 0..255
  BY <1>1, <1>2
<1>4. DataSize \in Nat /\ DataSize <= 256 * 256 * 256 - 1
  BY <1>3, ThreeBytes DEF DataSize
<1>5. PaddingSize \in 0..255
  BY <1>1, <1>2 DEF PaddingSize, SingleByteNumber
<1>6. QED
  BY <1>4, <1>5

\* The data is never as large as UNDEFINED_SIZE.
LEMMA ImageTotal ==
    ASSUME TypeOK, NEW fr, NEW s, s[jpeg] = DataSize, s[padding] = PaddingSize
    PROVE  Total(Elements(payloadData, "images", fr), s) \in 0..DataLimit
<1>1. s[jpeg] \in Nat /\ s[padding] \in Nat
  BY Numbers
<1>2. Total(<<jpeg, padding>>, s) = DataSize + PaddingSize
  BY <1>1, ShortTotals
<1>3. DataSize + PaddingSize \in 0..DataLimit
  <2>1. \A x, m, d \in Nat : \A p \in 0..255 : d <= x - 1 => d + p \in 0..(x + 256 + 11 * m)
    OBVIOUS
  <2>2. 256 * 256 * 256 \in Nat
    OBVIOUS
  <2>3. QED
    BY <2>1, <2>2, NumberBounds, ElementsAssumption DEF DataLimit
<1>4. QED
  BY <1>2, <1>3, ImageElements

LEMMA FramesTotal ==
    ASSUME NEW n \in 0..MaxFrames, NEW s, \A f \in FrameInformation : s[f] = 11,
           s[frameDataReserved] = 5
    PROVE  Total(Elements(payloadData, "frames", n), s) \in 0..DataLimit
<1> DEFINE el == Elements(payloadData, "frames", n)
<1>1. n \in Nat /\ n + 1 \in Nat /\ n # NoFrames /\ n <= MaxFrames /\ MaxFrames \in Nat
  BY ElementsAssumption DEF NoFrames
<1>2. el = [k \in 1..(n + 1) |-> IF k <= n THEN <<"frameInformation", k>> ELSE <<"frameDataReserved", 0>>]
  BY <1>1, FrameElements
<1>3. /\ DOMAIN el = 1..(n + 1)
      /\ \A k \in 1..(n + 1) : el[k] = IF k <= n THEN <<"frameInformation", k>> ELSE <<"frameDataReserved", 0>>
  BY <1>2
<1> HIDE DEF el
<1>4. ASSUME NEW k \in 1..(n + 1) PROVE s[el[k]] \in {5, 11}
  <2>1. CASE k <= n
    <3>1. el[k] = <<"frameInformation", k>> /\ k \in 1..MaxFrames
      BY <1>1, <1>3, <2>1
    <3>2. el[k] \in FrameInformation
      BY <3>1 DEF FrameInformation
    <3>3. QED
      BY <3>2
  <2>2. CASE ~(k <= n)
    BY <1>3, <2>2 DEF frameDataReserved
  <2>3. QED
    BY <2>1, <2>2
<1>5. Counts(el, s) /\ \A k \in DOMAIN el : s[el[k]] <= 11
  BY <1>3, <1>4 DEF Counts
<1>6. Total(el, s) \in Nat /\ Total(el, s) <= 11 * (n + 1)
  BY <1>1, <1>3, <1>5, TotalNat, TotalOfElevens
<1>7. Total(el, s) \in 0..DataLimit
  <2>1. \A x, m, t \in Nat : t <= 11 * (n + 1) /\ n <= m => t \in 0..(x + 256 + 11 * m)
    BY <1>1
  <2>2. 256 * 256 * 256 \in Nat
    OBVIOUS
  <2>3. QED
    BY <1>1, <1>6, <2>1, <2>2 DEF DataLimit
<1>8. QED
  BY <1>7 DEF el

\* SizePayload sizes the data by its elements, and the payload by header and data.
LEMMA SizedPayload ==
    ASSUME IInv, kind # "none", NEW n \in {NoFrames} \cup 0..MaxFrames, NEW s, DOMAIN s = Element,
           \A e \in Element : s[e] \in Nat, s[payloadHeader] = HeaderSize,
           Total(Elements(payloadData, kind, n), s) \in 0..DataLimit
    PROVE  LET z == SizePayload(n, s)
           IN  /\ z[payloadData] = Total(Elements(payloadData, kind, n), s)
               /\ z[payloadData] = Total(Elements(payloadData, kind, n), z)
               /\ z[payload] = z[payloadHeader] + z[payloadData]
<1> USE FieldNames, Members
<1> DEFINE el == Elements(payloadData, kind, n)
           d == [s EXCEPT ![payloadData] = SizeOfData(n, s)]
           z == SizePayload(n, s)
<1>1. \A k \in DOMAIN el : el[k] \in Element \ {packet, payload, payloadData}
  <2>1. \A k \in DOMAIN el : el[k] \in Element \ {packet}
    BY States, FieldSequence
  <2>2. \A k \in DOMAIN el : el[k] \notin {payload, payloadData}
    BY States, Layout
  <2>3. QED
    BY <2>1, <2>2
<1>2. \A k \in DOMAIN el : s[el[k]] \in Nat
  BY <1>1
<1>3. Total(el, s) < UNDEFINED_SIZE /\ Total(el, s) \in Nat /\ Total(el, s) <= DataLimit
  BY Limits, ElementsAssumption
<1>4. SizeOfData(n, s) = Total(el, s)
  BY <1>2, <1>3, States, CalcSizeTotal DEF SizeOfData
<1>5. /\ DOMAIN d = Element /\ d[payloadData] = Total(el, s)
      /\ \A e \in Element \ {payloadData} : d[e] = s[e]
  BY <1>4
<1>6. z = [d EXCEPT ![payload] = CalcSize(_elements(payload), d)]
  BY DEF SizePayload
<1> HIDE DEF d, z
<1>7. /\ z[payload] = CalcSize(_elements(payload), d)
      /\ \A e \in Element \ {payload} : z[e] = d[e]
  BY <1>5, <1>6
<1>8. z[payloadData] = Total(el, s) /\ z[payloadHeader] = d[payloadHeader]
      /\ d[payloadHeader] = HeaderSize /\ HeaderSize \in Nat
  BY <1>5, <1>7, HeaderSizes
<1>9. Total(el, z) = Total(el, s)
  <2>1. \A k \in DOMAIN el : s[el[k]] \in Nat /\ z[el[k]] = s[el[k]]
    BY <1>1, <1>2, <1>5, <1>7
  <2>2. Len(el) \in Nat /\ DOMAIN el = 1..Len(el)
    BY States, FieldSequence
  <2> HIDE DEF el
  <2>3. Counts(el, s)
    BY <2>1 DEF Counts
  <2>4. QED
    BY <2>1, <2>2, <2>3, TotalSame
<1>10. CalcSize(_elements(payload), d) = d[payloadHeader] + d[payloadData]
  <2>1. Elements(payload, kind, frames) = <<payloadHeader, payloadData>>
    BY FieldElements
  <2>2. Total(Elements(payload, kind, frames), d) = d[payloadHeader] + d[payloadData]
    BY <1>3, <1>5, <1>8, <2>1, ShortTotals
  <2>3. d[payloadHeader] + d[payloadData] < UNDEFINED_SIZE
    BY <1>3, <1>5, <1>8, HeaderSizes, Limits, ElementsAssumption
  <2>4. \A k \in DOMAIN Elements(payload, kind, frames) : d[Elements(payload, kind, frames)[k]] \in Nat
    BY <1>3, <1>5, <1>8, <2>1
  <2>5. QED
    BY <2>2, <2>3, <2>4, States, CalcSizeTotal DEF _elements
<1>11. QED
  BY <1>5, <1>7, <1>8, <1>9, <1>10 DEF z

LEMMA HeaderFulfilledSum == ASSUME IInv, SumInv, KidFull, HeaderFulfilled PROVE SumInv'
<1> USE FieldNames, Members DEF SumInv
<1>1. /\ top = payload /\ it[payload] = 1 /\ ret = "true" /\ kind # "none"
      /\ top' = payload /\ ret' = "none" /\ kind' = kind /\ data' = data
  BY DEF HeaderFulfilled, KidFull, IInv, ChainInv
<1>2. Full(payloadHeader) /\ ~Sized /\ pos[payload] < size[payloadHeader]
      /\ \A e \in DataElement : pos[e] = 0
  <2>1. Kid = payloadHeader
    BY <1>1, FieldElements DEF Kid, _elements
  <2>2. QED
    BY <1>1, <2>1 DEF KidFull, DataUntouched
<1>3. SizeImage \/ SizeFrames
  BY DEF KidFull, Fulfilled
<1>4. \A e \in Element : pos[e] \in Nat /\ size[e] \in Nat
  BY PosNat, SizeNat DEF IInv
<1>5. \A e \in Element : pos'[e] = pos[e]
  <2>1. FrameElement \subseteq DataElement
    BY DEF DataElement
  <2>2. QED
    BY <1>2, <1>3, <2>1 DEF SizeImage, SizeFrames
<1>6. frames' \in {NoFrames} \cup 0..MaxFrames
  BY <1>3, States, Numbers, ElementsAssumption DEF SizeImage, SizeFrames, IInv
<1> DEFINE s == IF kind = "images" THEN [size EXCEPT ![jpeg] = DataSize, ![padding] = PaddingSize] ELSE size
<1>7. size' = SizePayload(frames', s)
  BY <1>3 DEF SizeImage, SizeFrames
<1>8. /\ DOMAIN s = Element /\ \A e \in Element \ {jpeg, padding} : s[e] = size[e]
      /\ kind = "images" => s[jpeg] = DataSize /\ s[padding] = PaddingSize
      /\ kind # "images" => s = size
  BY DEF IInv, TypeOK, jpeg, padding
<1> HIDE DEF s
<1>9. \A e \in Element : s[e] \in Nat
  BY <1>4, <1>8, Numbers DEF IInv
<1>10. Total(Elements(payloadData, kind, frames'), s) \in 0..DataLimit
  <2>1. CASE kind = "images"
    BY <1>8, <2>1, ImageTotal DEF IInv
  <2>2. CASE kind # "images"
    <3>1. kind = "frames"
      BY <1>1, <2>2, States
    <3>2. frames' \in 0..MaxFrames
      BY <1>3, <3>1, Numbers, ElementsAssumption DEF SizeImage, SizeFrames, IInv
    <3>3. \A f \in FrameInformation : s[f] = 11
      BY <1>8, <2>2 DEF Sizes
    <3>4. s[frameDataReserved] = 5
      <4>1. frameDataReserved \in Leaf \ {jpeg, padding}
        BY DEF Leaf, Width, FrameLeaf, frameDataReserved, jpeg, padding
      <4>2. Width[frameDataReserved[1]] = 5
        BY DEF Width, frameDataReserved
      <4>3. QED
        BY <1>8, <2>2, <4>1, <4>2 DEF Sizes
    <3>5. QED
      BY <3>1, <3>2, <3>3, <3>4, FramesTotal
  <2>3. QED
    BY <2>1, <2>2
<1>11. s[payloadHeader] = HeaderSize /\ size[payloadHeader] = HeaderSize
  <2>1. payloadHeader \notin {jpeg, padding}
    OBVIOUS
  <2>2. QED
    BY <1>1, <1>8, <2>1 DEF Sizes
<1>12. /\ size'[payloadData] = Total(Elements(payloadData, kind, frames'), s)
       /\ size'[payloadData] = Total(Elements(payloadData, kind, frames'), size')
       /\ size'[payload] = size'[payloadHeader] + size'[payloadData]
  BY <1>1, <1>6, <1>7, <1>8, <1>9, <1>10, <1>11, SizedPayload
<1>13. \A e \in Element \ {payload, payloadData, jpeg, padding} : size'[e] = size[e]
  BY <1>7, <1>8, SizePayloadSizes
<1>14. Sized'
  BY <1>10, <1>12, Limits, ElementsAssumption DEF Sized
<1>15. Positions'
  <2>1. SUFFICES ASSUME NEW f \in Field
                 PROVE  pos'[f] \in Nat /\ pos'[f] <= Total(Elements(f, kind, frames'), pos')
    BY <1>1 DEF Positions, Sum, _elements
  <2>2. pos'[f] = pos[f] /\ pos[f] \in Nat /\ pos[f] <= Sum(f)
    BY <1>5 DEF Positions
  <2>3. CASE f = payloadData
    <3>1. pos'[f] = 0
      BY <1>2, <2>2, <2>3 DEF DataElement
    <3>2. \A e \in Element : pos'[e] \in Nat
      BY <1>4, <1>5
    <3>3. Total(Elements(f, kind, frames'), pos') \in Nat
      BY <1>6, <3>2, States, SumsGrow
    <3>4. QED
      BY <3>1, <3>3
  <2>4. CASE f # payloadData
    <3>1. Elements(f, kind, frames') = _elements(f)
      BY <2>4, FramesOnlyInData DEF _elements
    <3>2. Total(_elements(f), pos') = Sum(f)
      BY <1>4, <1>5, PacketAlone DEF Sum
    <3>3. QED
      BY <2>2, <3>1, <3>2
  <2>5. QED
    BY <2>3, <2>4
<1>16. Sizes'
  <2>1. \A e \in Leaf \ {jpeg, padding} : size'[e] = Width[e[1]]
    BY <1>13 DEF Sizes
  <2>2. \A e \in {packet, commonHeader, startCode, payloadHeader} \cup FrameInformation : size'[e] = size[e]
    BY <1>13
  <2>3. HeaderSize' = HeaderSize
    BY <1>1 DEF HeaderSize
  <2>4. _elements(payloadData)' = Elements(payloadData, kind, frames')
    BY <1>1 DEF _elements
  <2>5. QED
    BY <1>1, <1>10, <1>11, <1>12, <1>14, <2>1, <2>2, <2>3, <2>4 DEF Sizes
<1>17. HeaderOnly' /\ CallersStand' /\ PartialMeansRunOut'
  BY <1>1 DEF HeaderOnly, CallersStand, PartialMeansRunOut
<1>18. size'[commonHeader] = size[commonHeader] /\ size'[payloadHeader] = size[payloadHeader]
  BY <1>13
<1>19. HeaderDone'
  BY <1>1, <1>5, <1>18 DEF HeaderDone, Full
<1>20. DataUntouched'
  BY <1>1, <1>2, <1>5, <1>14, <1>18 DEF DataUntouched, Full
<1>21. PayloadOpen'
  <2>1. size'[payload] >= size[payloadHeader]
    BY <1>10, <1>11, <1>12, <1>18, HeaderSizes, Limits
  <2>2. size[payloadHeader] \in Nat /\ size'[payload] \in Nat /\ pos[payload] \in Nat
    BY <1>4, <1>10, <1>11, <1>12, <1>18, HeaderSizes, Limits
  <2>3. ~(size'[payload] <= pos[payload])
    BY <1>2, <2>1, <2>2
  <2>4. QED
    BY <1>5, <2>3 DEF PayloadOpen, Full
<1>22. QED
  BY <1>15, <1>16, <1>17, <1>19, <1>20, <1>21

-----------------------------------------------------------------------------
(* The sums hold in every state *)

LEMMA NextSum == IInv /\ SumInv /\ [Next]_vars => SumInv'
<1>1. SUFFICES ASSUME IInv, SumInv, [Next]_vars PROVE SumInv'
  OBVIOUS
<1>2. CASE Camera
  BY <1>1, <1>2, PushSum DEF Camera
<1>3. CASE FillPacket
  BY <1>1, <1>3, FillPacketSum
<1>4. CASE HeaderRefused \/ HeaderPartial \/ HeaderFull
  BY <1>1, <1>4, HeaderRefusedSum, HeaderPartialSum, HeaderFullSum
<1>5. CASE PacketPartial \/ PacketDelivered
  BY <1>1, <1>5, PacketPartialSum, PacketDeliveredSum
<1>6. CASE FillLeaf \/ RefuseLeaf \/ CallField
  BY <1>1, <1>6, FillLeafSum, RefuseLeafSum, CallFieldSum
<1>7. CASE KidFull
  BY <1>1, <1>7, NextElementSum, HeaderFulfilledSum
<1>8. CASE KidPartial \/ KidRefused \/ EndLoop
  BY <1>1, <1>8, KidPartialSum, KidRefusedSum, EndLoopSum
<1>9. CASE UNCHANGED vars
  BY <1>1, <1>9, StutterSum
<1>10. QED
  BY <1>1, <1>2, <1>3, <1>4, <1>5, <1>6, <1>7, <1>8, <1>9 DEF Next, Demuxer

\* Positions and sizes are the sums they should be (BaseField::CalcPos, CalcSize).
THEOREM SumInvariance == Spec => [](IInv /\ SumInv)
<1>1. Init => IInv /\ SumInv
  BY InitInv, InitSum
<1>2. IInv /\ SumInv /\ [Next]_vars => (IInv /\ SumInv)'
  BY NextInv, NextSum
<1>3. QED
  BY <1>1, <1>2, PTL DEF Spec

\* A field that counts as full, which is what decides that a packet is handed on,
\* has no element that lacks bytes (BaseField.cpp, IIncrementalFill::IsFull).
THEOREM FullMeansComplete == Spec => []FullFieldComplete
<1>1. IInv /\ SumInv => FullFieldComplete
  BY Bounds
<1>2. QED
  BY <1>1, SumInvariance, PTL

\* A Fill that leaves an element incomplete has used up the buffer: the case that
\* BaseField::Fill calls an error does not happen.
THEOREM BreaksOffAtTheEnd == Spec => []PartialMeansRunOut
<1>1. IInv /\ SumInv => PartialMeansRunOut
  BY DEF SumInv
<1>2. QED
  BY <1>1, SumInvariance, PTL

-----------------------------------------------------------------------------
(* The leaves of the common header *)

LEMMA HeaderLeaves ==
    /\ {startByte, payloadType, sequenceNumber, timeStamp} \subseteq Leaf \ {jpeg, padding}
    /\ {startByte, payloadType, sequenceNumber, timeStamp} \subseteq Element \ Field
    /\ Width[startByte[1]] = 1 /\ Width[payloadType[1]] = 1
<1> USE DEF startByte, payloadType, sequenceNumber, timeStamp
<1>1. {startByte, payloadType, sequenceNumber, timeStamp} \subseteq Leaf \ {jpeg, padding}
  BY DEF Leaf, Width, FrameLeaf, jpeg, padding
<1>2. Width[startByte[1]] = 1 /\ Width[payloadType[1]] = 1
  BY DEF Width
<1>3. QED
  BY <1>1, <1>2, Members

LEMMA HeaderPlaces ==
    /\ DOMAIN _elements(commonHeader) = 1..4 /\ Len(_elements(commonHeader)) = 4
    /\ _elements(commonHeader)[1] = startByte /\ _elements(commonHeader)[2] = payloadType
    /\ _elements(commonHeader)[3] = sequenceNumber /\ _elements(commonHeader)[4] = timeStamp
<1>1. _elements(commonHeader) = <<startByte, payloadType, sequenceNumber, timeStamp>>
  BY FieldElements DEF _elements, sequenceNumber, timeStamp
<1>2. QED
  BY <1>1

\* What a complete start byte and type count.
LEMMA StartSizes ==
    ASSUME IInv, SumInv
    PROVE  /\ size[startByte] = 1 /\ size[payloadType] = 1
           /\ pos[startByte] \in {0, 1} /\ pos[payloadType] \in {0, 1}
           /\ pos[sequenceNumber] \in Nat /\ pos[timeStamp] \in Nat
           /\ Full(startByte) <=> pos[startByte] = 1
           /\ Full(payloadType) <=> pos[payloadType] = 1
<1>1. size[startByte] = 1 /\ size[payloadType] = 1
  BY HeaderLeaves DEF SumInv, Sizes
<1>2. \A e \in {startByte, payloadType, sequenceNumber, timeStamp} : pos[e] \in Nat /\ pos[e] <= size[e]
  BY HeaderLeaves DEF IInv, TypeOK, LeafBounds
<1>3. QED
  BY <1>1, <1>2 DEF Full

LEMMA HeaderSum ==
    ASSUME NEW p, p[startByte] \in Nat, p[payloadType] \in Nat, p[sequenceNumber] \in Nat,
           p[timeStamp] \in Nat
    PROVE  Total(_elements(commonHeader), p) =
                p[startByte] + p[payloadType] + p[sequenceNumber] + p[timeStamp]
<1> DEFINE h == _elements(commonHeader)
<1>1. /\ DOMAIN h = 1..4 /\ h[1] = startByte /\ h[2] = payloadType
      /\ h[3] = sequenceNumber /\ h[4] = timeStamp
  BY HeaderPlaces
<1> HIDE DEF h
<1>2. \A k \in 1..4 : k = 1 \/ k = 2 \/ k = 3 \/ k = 4
  OBVIOUS
<1>3. Counts(h, p)
  BY <1>1, <1>2 DEF Counts
<1>4. Total(h, p) = p[h[1]] + p[h[2]] + p[h[3]] + p[h[4]] + 0 + 0 + 0
  BY <1>1, <1>3, LongerTotals
<1>5. Total(h, p) = p[startByte] + p[payloadType] + p[sequenceNumber] + p[timeStamp]
  BY <1>1, <1>4
<1>6. QED
  BY <1>5 DEF h

\* Where the loop of the common header stands.
LEMMA HeaderKid ==
    ASSUME IInv, Looping, top = commonHeader
    PROVE  /\ it[commonHeader] \in 1..4
           /\ it[commonHeader] = 1 <=> Kid = startByte
           /\ it[commonHeader] = 2 <=> Kid = payloadType
           /\ it[commonHeader] = 3 <=> Kid = sequenceNumber
           /\ it[commonHeader] = 4 <=> Kid = timeStamp
<1>1. it[commonHeader] \in 1..4 /\ Kid = _elements(commonHeader)[it[commonHeader]]
  BY KidPlace, HeaderPlaces
<1>2. /\ startByte # payloadType /\ startByte # sequenceNumber /\ startByte # timeStamp
      /\ payloadType # sequenceNumber /\ payloadType # timeStamp /\ sequenceNumber # timeStamp
  BY DEF startByte, payloadType, sequenceNumber, timeStamp
<1> HIDE DEF Kid
<1>3. it[commonHeader] = 1 \/ it[commonHeader] = 2 \/ it[commonHeader] = 3 \/ it[commonHeader] = 4
  BY <1>1
<1>4. QED
  BY <1>1, <1>2, <1>3, HeaderPlaces

\* What the common header has passed.
LEMMA HeaderPassed ==
    ASSUME IInv, SumInv
    PROVE  /\ it[commonHeader] \in Nat \ {0}
           /\ it[commonHeader] > 1 => pos[startByte] = 1
           /\ it[commonHeader] > 2 => pos[payloadType] = 1
<1>1. it[commonHeader] \in Nat \ {0} /\ commonHeader \in Field \ {packet}
  BY Members, FieldNames DEF IInv, TypeOK
<1>2. it[commonHeader] > 1 => Full(_elements(commonHeader)[1])
  BY <1>1, HeaderPlaces DEF IInv, PassedElementsFull
<1>3. it[commonHeader] > 2 => Full(_elements(commonHeader)[2])
  BY <1>1, HeaderPlaces DEF IInv, PassedElementsFull
<1>4. QED
  BY <1>1, <1>2, <1>3, HeaderPlaces, StartSizes

\* A loop without a payload is the common header's.
LEMMA HeaderLoop ==
    ASSUME IInv, SumInv, InLoop
    PROVE  kind = "none" <=> top = commonHeader
  BY FieldNames DEF SumInv, HeaderOnly, HeaderDone, InLoop, Idle, Field

\* What is held elsewhere is no leaf of the common header.
LEMMA OtherKid ==
    ASSUME IInv, Looping, top # commonHeader
    PROVE  Kid \notin {startByte, payloadType, sequenceNumber, timeStamp}
<1>1. HolderName[Kid[1]] = top[1] /\ top \in Field
  BY KidPlace, States, Holders DEF _elements, Looping, InLoop
<1>2. top[1] # "commonHeader"
  BY <1>1 DEF Field, FrameInformation, packet, commonHeader, payload, payloadHeader, startCode,
        payloadData
<1>3. QED
  BY <1>1, <1>2 DEF HolderName, startByte, payloadType, sequenceNumber, timeStamp

\* Which bytes the leaves of the common header take.
LEMMA HeaderTakes ==
    /\ Takes(startByte) <=> wire.bytes[rd + 1] = 255
    /\ Takes(payloadType) <=> wire.bytes[rd + 1] \in {1, 2}
    /\ Takes(sequenceNumber) /\ Takes(timeStamp)
<1>1. DOMAIN kPayloadTypes = {"images", "frames"} /\ kPayloadTypes.images = 1 /\ kPayloadTypes.frames = 2
  BY DEF kPayloadTypes
<1>2. QED
  BY <1>1 DEF Takes, Accepts, startByte, payloadType, sequenceNumber, timeStamp

LEMMA HeadTakes == HeadAccepted <=> Takes(Kid)
  BY DEF HeadAccepted, Takes

-----------------------------------------------------------------------------
(* Refusals without a payload *)

\* Nothing is counted before the start byte.
LEMMA NothingBeforeStart ==
    ASSUME IInv, SumInv, StartInv
    PROVE  /\ pos[startByte] = 0 => Sum(commonHeader) = 0
           /\ Sum(commonHeader) = 0 => pos[startByte] = 0 /\ pos[payloadType] = 0
           /\ pos[startByte] = 1 /\ pos[payloadType] = 0 => Sum(commonHeader) = 1
           /\ Sum(commonHeader) \in Nat /\ pos[commonHeader] \in Nat
           /\ pos[commonHeader] <= Sum(commonHeader)
<1>1. /\ pos[startByte] \in {0, 1} /\ pos[payloadType] \in {0, 1}
      /\ pos[sequenceNumber] \in Nat /\ pos[timeStamp] \in Nat
  BY StartSizes
<1>2. Sum(commonHeader) = pos[startByte] + pos[payloadType] + pos[sequenceNumber] + pos[timeStamp]
  BY <1>1, HeaderSum DEF Sum
<1>3. pos[commonHeader] \in Nat /\ pos[commonHeader] <= Sum(commonHeader)
  BY Members DEF SumInv, Positions
<1>4. QED
  BY <1>1, <1>2, <1>3 DEF StartInv

\* The header of a packet that has refused is not full, nor does it take a byte.
LEMMA HeaderStuckOpen ==
    ASSUME IInv, SumInv, RefusalInv, refused, kind = "none"
    PROVE  ~Full(commonHeader) /\ HeaderStuck
<1>1. HeaderStuck /\ StartInv
  BY DEF RefusalInv
<1>2. pos[commonHeader] <= 1 /\ pos[commonHeader] \in Nat
  BY <1>1, NothingBeforeStart DEF HeaderStuck
<1>3. size[commonHeader] = 8
  BY DEF SumInv, Sizes
<1>4. QED
  BY <1>1, <1>2, <1>3 DEF Full

\* Behind the common header only what it has taken matters.
LEMMA StartLate ==
    ASSUME StartInv, kind' # "none", ret' = "false" => refused',
           \A e \in {startByte, payloadType, sequenceNumber, timeStamp} : pos'[e] = pos[e]
    PROVE  StartInv'
  BY DEF StartInv

\* The calls of the common header return, and the demuxer calls again.
LEMMA PushNone ==
    ASSUME IInv, SumInv, RefusalInv, kind = "none", NEW n \in wire.cuts, Push(n)
    PROVE  RefusalInv'
<1> USE FieldNames DEF Push, parser
<1>1. /\ top = Idle /\ Remaining = 0 /\ kind' = "none"
      /\ UNCHANGED <<wire, rd, kind, frames, pos, size, it, refused, top, ret>>
  OBVIOUS
<1>2. StartInv'
  BY <1>1, Members DEF RefusalInv, StartInv, Sum, _elements
<1>3. refused' => HeaderStuck'
  BY <1>1, Members DEF RefusalInv, HeaderStuck, TypeRefused
<1>4. QED
  BY <1>1, <1>2, <1>3 DEF RefusalInv

LEMMA FillPacketNone ==
    ASSUME IInv, SumInv, RefusalInv, kind = "none", FillPacket
    PROVE  RefusalInv'
<1> USE FieldNames, Members DEF RefusalInv
<1>1. top = Idle /\ ~Full(commonHeader) /\ pos[packet] = pos[commonHeader] /\ kind' = "none"
  BY DEF FillPacket, IInv, ChainInv, SumInv, HeaderOnly
<1>2. /\ top' = commonHeader /\ ret' = "none" /\ refused' = refused
      /\ it'[commonHeader] = Resume(commonHeader)
      /\ UNCHANGED <<wire, wr, pos>>
  BY <1>1 DEF FillPacket, Call, Enter, IInv, TypeOK
<1>3. PICK k \in rd..wr : Skip(k) /\ rd' = k
  BY DEF FillPacket
<1>4. /\ pos[startByte] \in {0, 1} /\ pos[payloadType] \in {0, 1}
      /\ pos[commonHeader] \in Nat
  BY StartSizes, NothingBeforeStart
<1>5. it[commonHeader] \in Nat \ {0}
  BY HeaderPassed
<1>6. rd \in Nat /\ wr \in Nat /\ k \in Nat
  BY DEF IInv, TypeOK
<1>7. StartInv'
  <2>1. it'[commonHeader] \in {1, 2} => pos[payloadType] = 0
    <3>1. CASE pos[commonHeader] = 0
      <4>1. CASE refused
        BY <1>1, <4>1 DEF HeaderStuck
      <4>2. CASE ~refused
        <5>1. Sum(commonHeader) = 0
          BY <1>1, <3>1, <4>2 DEF StartInv
        <5>2. QED
          BY <5>1, NothingBeforeStart
      <4>3. QED
        BY <4>1, <4>2
    <3>2. CASE pos[commonHeader] # 0
      BY <1>1, <1>2, <3>2 DEF StartInv, Resume
    <3>3. QED
      BY <3>1, <3>2
  <2>2. ~refused /\ it'[commonHeader] = 1 => pos[startByte] = 0 /\ pos[packet] = 0
    <3>1. SUFFICES ASSUME ~refused, it'[commonHeader] = 1 PROVE pos[startByte] = 0 /\ pos[packet] = 0
      OBVIOUS
    <3>2. pos[commonHeader] = Sum(commonHeader)
      BY <1>1, <3>1 DEF StartInv
    <3>3. pos[commonHeader] # 0 => it[commonHeader] = 1
      BY <1>2, <3>1 DEF Resume
    <3>4. pos[startByte] = 0
      BY <1>1, <3>1, <3>2, <3>3, NothingBeforeStart DEF StartInv
    <3>5. QED
      BY <1>1, <3>2, <3>4, NothingBeforeStart
  <2>3. pos[packet] = 0 /\ Remaining' > 0 => wire.bytes[rd' + 1] = 255
    BY <1>2, <1>3, <1>6 DEF Skip, ToStartByte, Remaining
  <2>4. QED
    BY <1>1, <1>2, <2>1, <2>2, <2>3 DEF StartInv
<1>8. refused' => HeaderStuck'
  <2>1. SUFFICES ASSUME refused PROVE HeaderStuck'
    BY <1>2
  <2>2. HeaderStuck
    BY <1>1, <2>1
  <2>3. it'[commonHeader] \in {1, 2} /\ (it'[commonHeader] = 2 => pos[commonHeader] # 0 /\ it[commonHeader] = 2)
    BY <1>2, <2>2 DEF HeaderStuck, Resume
  <2>4. it'[commonHeader] = 2 => TypeRefused /\ rd' = rd
    BY <1>1, <1>3, <1>4, <2>2, <2>3 DEF HeaderStuck, Skip
  <2>5. it'[commonHeader] = 2 => TypeRefused'
    BY <1>2, <2>4 DEF TypeRefused, Remaining
  <2>6. QED
    BY <1>2, <2>2, <2>3, <2>5 DEF HeaderStuck
<1>9. QED
  BY <1>1, <1>7, <1>8

\* A step that leaves the header's loop, or comes back to the demuxer from it.
LEMMA LeaveNone ==
    ASSUME IInv, SumInv, RefusalInv, kind = "none", kind' = "none",
           UNCHANGED <<wire, rd, wr, it, refused>>, top # commonHeader \/ ret # "true",
           \A e \in {commonHeader, startByte, payloadType, sequenceNumber, timeStamp} : pos'[e] = pos[e],
           top' # commonHeader \/ (top = commonHeader /\ ret' # "true" /\ ret' # "none"),
           ret' = "false" => refused,
           top' # commonHeader /\ ~refused => pos[commonHeader] = Sum(commonHeader)
    PROVE  RefusalInv'
<1>1. Sum(commonHeader)' = Sum(commonHeader)
  <2>1. /\ pos[startByte] \in {0, 1} /\ pos[payloadType] \in {0, 1}
        /\ pos[sequenceNumber] \in Nat /\ pos[timeStamp] \in Nat
    BY StartSizes
  <2>2. Total(_elements(commonHeader), pos') = Total(_elements(commonHeader), pos)
    BY <2>1, HeaderSum
  <2>3. _elements(commonHeader)' = _elements(commonHeader)
    BY FieldElements DEF _elements
  <2>4. QED
    BY <2>2, <2>3 DEF Sum
<1>2. StartInv'
  BY <1>1 DEF RefusalInv, StartInv
<1>3. refused' => HeaderStuck'
  BY DEF RefusalInv, HeaderStuck, TypeRefused, Remaining
<1>4. QED
  BY <1>2, <1>3 DEF RefusalInv

LEMMA HeaderRefusedNone == ASSUME IInv, SumInv, RefusalInv, HeaderRefused PROVE RefusalInv'
<1>1. /\ top = packet /\ kind = "none" /\ kind' = "none" /\ ret = "false" /\ ret' = "none"
      /\ top' = Idle /\ UNCHANGED <<wire, rd, wr, it, refused, pos>>
  BY DEF HeaderRefused, Return, parser
<1>2. top # commonHeader /\ top' # commonHeader
  BY <1>1, FieldNames, Members
<1>3. ~refused => pos[commonHeader] = Sum(commonHeader)
  BY <1>1, <1>2 DEF RefusalInv, StartInv
<1>4. QED
  BY <1>1, <1>2, <1>3, LeaveNone

LEMMA HeaderPartialNone == ASSUME IInv, SumInv, RefusalInv, HeaderPartial PROVE RefusalInv'
<1>1. /\ top = packet /\ kind = "none" /\ kind' = "none" /\ ret' = "none"
      /\ top' = Idle /\ UNCHANGED <<wire, rd, wr, it, refused>>
  BY DEF HeaderPartial, Return
<1>2. top # commonHeader /\ top' # commonHeader
  BY <1>1, FieldNames, Members
<1>3. ~refused => pos[commonHeader] = Sum(commonHeader)
  BY <1>1, <1>2 DEF RefusalInv, StartInv
<1>4. \A e \in {commonHeader, startByte, payloadType, sequenceNumber, timeStamp} :
            e \in Element /\ e # packet
  BY FieldNames, Members, HeaderLeaves
<1>5. \A e \in Element : e # packet => pos'[e] = pos[e]
  BY DEF HeaderPartial, IInv, TypeOK
<1>6. QED
  BY <1>1, <1>2, <1>3, <1>4, <1>5, LeaveNone

LEMMA KidRefusedNone ==
    ASSUME IInv, SumInv, RefusalInv, kind = "none", KidRefused
    PROVE  RefusalInv'
<1>1. top = commonHeader
  BY HeaderLoop DEF KidRefused
<1>2. /\ kind' = "none" /\ ret = "false" /\ ret' = "false"
      /\ top' = packet /\ UNCHANGED <<wire, rd, wr, it, refused, pos>>
  BY <1>1, Parents DEF KidRefused, parser
<1>3. refused
  BY <1>2 DEF RefusalInv, StartInv
<1>4. top' # commonHeader
  BY <1>2, FieldNames
<1>5. QED
  BY <1>1, <1>2, <1>3, <1>4, LeaveNone

LEMMA FillLeafNone ==
    ASSUME IInv, SumInv, RefusalInv, kind = "none", FillLeaf
    PROVE  RefusalInv' /\ (refused => \A e \in Element : pos'[e] = pos[e])
<1>1. Looping /\ InLoop /\ HeadAccepted
  BY DEF FillLeaf, Looping
<1>2. top = commonHeader
  BY <1>1, HeaderLoop
<1>3. /\ it[commonHeader] \in 1..4
      /\ it[commonHeader] = 1 <=> Kid = startByte
      /\ it[commonHeader] = 2 <=> Kid = payloadType
      /\ it[commonHeader] = 3 <=> Kid = sequenceNumber
      /\ it[commonHeader] = 4 <=> Kid = timeStamp
  BY <1>1, <1>2, HeaderKid
<1> DEFINE K == Kid
<1>4. /\ ret = "none" /\ ret' = "true" /\ Remaining \in Nat /\ Remaining > 0
      /\ CopyBytes \in Nat /\ rd' = rd + CopyBytes /\ pos'[K] = pos[K] + CopyBytes
      /\ \A e \in Element \ {K} : pos'[e] = pos[e]
      /\ UNCHANGED <<wire, wr, kind, it, top, refused>>
  BY LeafTakes
<1>5. K = startByte => Takes(startByte)
  BY <1>1, HeadTakes
<1>6. K = payloadType => Takes(payloadType)
  BY <1>1, HeadTakes
<1>7. CopyBytes = IF Remaining < size[K] - pos[K] THEN Remaining ELSE size[K] - pos[K]
  BY DEF CopyBytes
<1> HIDE DEF K
<1>8. /\ it[commonHeader] = 1 <=> K = startByte
      /\ it[commonHeader] = 2 <=> K = payloadType
      /\ it[commonHeader] = 3 <=> K = sequenceNumber
      /\ it[commonHeader] = 4 <=> K = timeStamp
  BY <1>3 DEF K
<1>9. /\ startByte # payloadType /\ startByte # sequenceNumber /\ startByte # timeStamp
      /\ payloadType # sequenceNumber /\ payloadType # timeStamp /\ sequenceNumber # timeStamp
  BY DEF startByte, payloadType, sequenceNumber, timeStamp
<1>10. {startByte, payloadType, sequenceNumber, timeStamp} \subseteq Element
  BY HeaderLeaves
<1>11. /\ size[startByte] = 1 /\ pos[startByte] \in {0, 1} /\ pos[payloadType] \in {0, 1}
  BY StartSizes
<1>12. /\ it[commonHeader] > 1 => pos[startByte] = 1
       /\ it[commonHeader] > 2 => pos[payloadType] = 1
  BY HeaderPassed
<1>13. /\ pos'[startByte] = IF K = startByte THEN pos[startByte] + CopyBytes ELSE pos[startByte]
       /\ pos'[payloadType] = IF K = payloadType THEN pos[payloadType] + CopyBytes ELSE pos[payloadType]
       /\ K \in {startByte, payloadType} => /\ pos'[sequenceNumber] = pos[sequenceNumber]
                                            /\ pos'[timeStamp] = pos[timeStamp]
  BY <1>4, <1>9, <1>10
<1>14. StartInv
  BY DEF RefusalInv
<1>15. StartInv'
  <2>1. pos'[startByte] = 0 => pos'[payloadType] = 0
    BY <1>3, <1>4, <1>8, <1>9, <1>11, <1>12, <1>13, <1>14 DEF StartInv
  <2>2. pos'[payloadType] = 0 => pos'[sequenceNumber] = 0 /\ pos'[timeStamp] = 0
    BY <1>3, <1>4, <1>8, <1>9, <1>11, <1>12, <1>13, <1>14 DEF StartInv
  <2>3. it[commonHeader] = 1 => pos'[payloadType] = 0
    BY <1>8, <1>9, <1>13, <1>14 DEF StartInv
  <2>4. QED
    BY <1>2, <1>4, <2>1, <2>2, <2>3 DEF StartInv
<1>16. refused => HeaderStuck' /\ \A e \in Element : pos'[e] = pos[e]
  <2>1. SUFFICES ASSUME refused PROVE HeaderStuck' /\ \A e \in Element : pos'[e] = pos[e]
    OBVIOUS
  <2>2. HeaderStuck
    BY <2>1 DEF RefusalInv
  <2>3. it[commonHeader] = 1
    BY <1>2, <1>6, <1>8, <2>2, HeaderTakes DEF HeaderStuck, TypeRefused
  <2>4. wire.bytes[rd + 1] = 255 /\ K = startByte
    BY <1>5, <1>8, <2>3, HeaderTakes
  <2>5. CopyBytes = 0
    BY <1>4, <1>7, <1>11, <2>2, <2>4 DEF HeaderStuck
  <2>6. rd \in Nat
    BY DEF IInv, TypeOK
  <2>7. rd' = rd /\ pos'[startByte] = pos[startByte] /\ pos'[payloadType] = pos[payloadType]
    BY <1>4, <1>9, <1>11, <1>13, <2>4, <2>5, <2>6
  <2>8. Remaining' > 0 /\ wire'.bytes[rd' + 1] = 255
    BY <1>4, <2>4, <2>7 DEF Remaining
  <2>9. HeaderStuck'
    BY <1>4, <2>2, <2>3, <2>7, <2>8 DEF HeaderStuck
  <2>10. QED
    BY <1>4, <2>4, <2>7, <2>9
<1>17. QED
  BY <1>4, <1>15, <1>16 DEF RefusalInv

LEMMA RefuseLeafNone ==
    ASSUME IInv, SumInv, RefusalInv, kind = "none", RefuseLeaf
    PROVE  RefusalInv'
<1>1. Looping /\ InLoop /\ ~HeadAccepted
  BY DEF RefuseLeaf, Looping
<1>2. top = commonHeader
  BY <1>1, HeaderLoop
<1>3. /\ it[commonHeader] \in 1..4
      /\ it[commonHeader] = 1 <=> Kid = startByte
      /\ it[commonHeader] = 2 <=> Kid = payloadType
      /\ it[commonHeader] = 3 <=> Kid = sequenceNumber
      /\ it[commonHeader] = 4 <=> Kid = timeStamp
  BY <1>1, <1>2, HeaderKid
<1>4. /\ ret = "none" /\ ret' = "false" /\ refused' /\ Remaining > 0
      /\ UNCHANGED <<wire, rd, wr, kind, pos, it, top>>
  BY DEF RefuseLeaf, Looping
<1>5. ~Takes(Kid)
  BY <1>1, HeadTakes
<1>6. it[commonHeader] = 1 => wire.bytes[rd + 1] # 255
  BY <1>3, <1>5, HeaderTakes
<1>7. it[commonHeader] \in {1, 2}
  BY <1>3, <1>5, HeaderTakes
<1>8. it[commonHeader] = 2 => TypeRefused
  BY <1>3, <1>4, <1>5, HeaderTakes DEF TypeRefused
<1>9. StartInv
  BY DEF RefusalInv
<1>10. pos[payloadType] = 0
  BY <1>2, <1>4, <1>7, <1>9 DEF StartInv
<1>11. StartInv'
  BY <1>4, <1>9, <1>10 DEF StartInv
<1>12. HeaderStuck'
  <2>1. pos[startByte] = 1
    <3>1. CASE refused
      BY <3>1 DEF RefusalInv, HeaderStuck
    <3>2. CASE ~refused
      <4>1. it[commonHeader] # 1
        BY <1>2, <1>4, <1>6, <1>9, <3>2 DEF StartInv
      <4>2. QED
        BY <1>7, <4>1, HeaderPassed
    <3>3. QED
      BY <3>1, <3>2
  <2>2. it[commonHeader] = 2 => TypeRefused'
    BY <1>4, <1>8 DEF TypeRefused, Remaining
  <2>3. QED
    BY <1>4, <1>7, <1>10, <2>1, <2>2 DEF HeaderStuck
<1>13. QED
  BY <1>4, <1>11, <1>12 DEF RefusalInv

LEMMA NextElementNone ==
    ASSUME IInv, SumInv, RefusalInv, kind = "none", KidFull
    PROVE  RefusalInv'
<1>1. top = commonHeader
  BY HeaderLoop DEF KidFull
<1>2. ~HeaderFulfilled
  BY <1>1, FieldNames DEF HeaderFulfilled
<1>3. it[commonHeader] \in Nat \ {0}
  BY HeaderPassed
<1>4. /\ ret = "true" /\ ret' = "none" /\ Full(Kid)
      /\ it'[commonHeader] = it[commonHeader] + 1
      /\ UNCHANGED <<wire, rd, wr, kind, pos, top, refused>>
  BY <1>1, <1>2, Members DEF KidFull, Fulfilled, IInv, TypeOK
<1>5. it[commonHeader] = 1 \/ it'[commonHeader] > 2
  BY <1>3, <1>4
<1>6. StartInv /\ it'[commonHeader] # 1
  BY <1>3, <1>4 DEF RefusalInv
<1>7. StartInv'
  <2>1. it'[commonHeader] = 2 => pos[payloadType] = 0
    BY <1>5, <1>6 DEF StartInv
  <2>2. QED
    BY <1>1, <1>4, <1>6, <2>1 DEF StartInv
<1>8. refused' => HeaderStuck'
  <2>1. SUFFICES ASSUME refused PROVE HeaderStuck'
    BY <1>4
  <2>2. HeaderStuck
    BY <2>1 DEF RefusalInv
  <2>3. it[commonHeader] = 1 /\ Remaining > 0 /\ wire.bytes[rd + 1] = 255
    BY <1>1, <1>4, <2>2 DEF HeaderStuck
  <2>4. TypeRefused'
    BY <1>4, <2>3 DEF TypeRefused, Remaining
  <2>5. it'[commonHeader] = 2
    BY <1>4, <2>3
  <2>6. QED
    BY <1>4, <2>2, <2>4, <2>5 DEF HeaderStuck
<1>9. QED
  BY <1>4, <1>7, <1>8 DEF RefusalInv

LEMMA FinishNone ==
    ASSUME IInv, SumInv, RefusalInv, kind = "none", InLoop, Finish,
           UNCHANGED <<wire, rd, wr, kind, frames, size, it, refused>>,
           \/ ret = "true" /\ ~Full(Kid)
           \/ ret = "none" /\ (Remaining = 0 \/ End(top))
    PROVE  RefusalInv'
<1>1. top = commonHeader
  BY HeaderLoop
<1>2. top' = packet /\ ret' = "true" /\ top' # commonHeader
  BY <1>1, Parents, FieldNames DEF Finish
<1>3. /\ pos'[commonHeader] = Sum(commonHeader)
      /\ \A e \in {startByte, payloadType, sequenceNumber, timeStamp} : pos'[e] = pos[e]
  BY <1>1, Members, HeaderLeaves DEF Finish, IInv, TypeOK, Sum
<1>4. Sum(commonHeader)' = Sum(commonHeader)
  <2>1. /\ pos[startByte] \in {0, 1} /\ pos[payloadType] \in {0, 1}
        /\ pos[sequenceNumber] \in Nat /\ pos[timeStamp] \in Nat
    BY StartSizes
  <2>2. Total(_elements(commonHeader), pos') = Total(_elements(commonHeader), pos)
    BY <1>3, <2>1, HeaderSum
  <2>3. _elements(commonHeader)' = _elements(commonHeader)
    BY FieldElements DEF _elements
  <2>4. QED
    BY <2>2, <2>3 DEF Sum
<1>5. StartInv
  BY DEF RefusalInv
<1>6. ret = "true" => /\ it[commonHeader] = 1 => pos[startByte] = 0
                      /\ it[commonHeader] = 2 => pos[payloadType] = 0
  BY <1>1, HeaderPlaces, StartSizes DEF Kid
<1>7. StartInv'
  <2>1. it[commonHeader] \in {1, 2} => pos[payloadType] = 0
    BY <1>5, <1>6 DEF StartInv
  <2>2. ~refused /\ it[commonHeader] = 1 => pos[startByte] = 0
    BY <1>5, <1>6 DEF StartInv
  <2>3. QED
    BY <1>2, <1>3, <1>4, <1>5, <2>1, <2>2 DEF StartInv
<1>8. refused => HeaderStuck'
  <2>1. SUFFICES ASSUME refused PROVE HeaderStuck'
    OBVIOUS
  <2>2. HeaderStuck
    BY <2>1 DEF RefusalInv
  <2>3. ~End(top)
    BY <1>1, <2>2, HeaderPlaces DEF HeaderStuck, End
  <2>4. it[commonHeader] = 1
    BY <1>1, <2>2, <2>3 DEF HeaderStuck, TypeRefused
  <2>5. QED
    BY <1>2, <1>3, <2>2, <2>4 DEF HeaderStuck
<1>9. QED
  BY <1>7, <1>8 DEF RefusalInv

\* The payload is created only by a packet that has refused nothing.
LEMMA HeaderFullNone == ASSUME IInv, SumInv, RefusalInv, HeaderFull PROVE RefusalInv'
<1>1. kind = "none" /\ Full(commonHeader) /\ kind' # "none" /\ Call(payload)
  BY DEF HeaderFull
<1>2. ~refused /\ ~Full(payload)
  BY <1>1, HeaderStuckOpen, PayloadSize
<1>3. ret' = "none" /\ refused' = refused
  BY <1>1, <1>2 DEF Call, Enter
<1>4. \A e \in {startByte, payloadType, sequenceNumber, timeStamp} : e \in Element /\ e # packet
  BY HeaderLeaves, Members
<1>5. \A e \in Element : e # packet => pos'[e] = pos[e]
  BY DEF HeaderFull, IInv, TypeOK
<1>6. StartInv
  BY DEF RefusalInv
<1>7. StartInv'
  BY <1>1, <1>3, <1>4, <1>5, <1>6, StartLate
<1>8. QED
  BY <1>2, <1>3, <1>7 DEF RefusalInv

\* Every packet starts with nothing refused.
LEMMA NewPacketRefusal ==
    ASSUME kind' = "none", frames' = NoFrames, pos' = [e \in Element |-> 0],
           top' = Idle, ret' = "none", refused' = FALSE, it' = [f \in Field |-> 1]
    PROVE  RefusalInv'
<1>1. Sum(commonHeader)' = 0
  BY NewSums, Members DEF Sum, _elements
<1>2. pos'[commonHeader] = 0
  BY Members
<1>3. \A e \in {startByte, payloadType, sequenceNumber, timeStamp} : pos'[e] = 0
  BY HeaderLeaves
<1>4. top' # commonHeader
  BY FieldNames, Members
<1>5. StartInv'
  BY <1>1, <1>2, <1>3, <1>4 DEF StartInv
<1>6. QED
  BY <1>5 DEF RefusalInv

LEMMA PacketDeliveredRefusal == ASSUME IInv, PacketDelivered PROVE RefusalInv'
  BY NewPacketRefusal DEF PacketDelivered, PayloadReturned, Return, NewPacket

LEMMA InitRefusal == Init => RefusalInv
<1>1. SUFFICES ASSUME Init PROVE RefusalInv
  OBVIOUS
<1>2. kind = "none" /\ frames = NoFrames /\ top = Idle /\ ret = "none" /\ refused = FALSE
  BY <1>1 DEF Init
<1>3. Sum(commonHeader) = 0
  BY <1>1, NewSums, Members DEF Sum, _elements, Init
<1>4. pos[commonHeader] = 0
  BY <1>1, Members DEF Init
<1>5. \A e \in {startByte, payloadType, sequenceNumber, timeStamp} : pos[e] = 0
  BY <1>1, HeaderLeaves DEF Init
<1>6. top # commonHeader
  BY <1>2, FieldNames, Members
<1>7. QED
  BY <1>2, <1>3, <1>4, <1>5, <1>6 DEF RefusalInv, StartInv

-----------------------------------------------------------------------------
(* Refusals behind the common header *)

LEMMA Resumes ==
    ASSUME IInv, NEW f \in Field
    PROVE  it[f] \in Nat \ {0} /\ Resume(f) \in Nat \ {0} /\ Resume(f) <= it[f]
<1>1. it[f] \in Nat \ {0}
  BY DEF IInv, TypeOK
<1>2. QED
  BY <1>1 DEF Resume

\* What a field comes to does not change as long as no byte is taken.
LEMMA BlockedStays ==
    ASSUME IInv, NEW D, NEW f \in Field, UNCHANGED <<kind, frames>>,
           \A e \in Element \ {packet} : pos'[e] = pos[e] /\ size'[e] = size[e]
    PROVE  /\ \A i \in Nat \ {0} : Blocked(D, f, i) => Blocked(D, f, i)'
           /\ Resume(f)' = Resume(f) /\ Blocked(D, f, Resume(f)) => Blocked(D, f, Resume(f))'
<1> DEFINE el == _elements(f)
<1>1. _elements(f)' = el
  BY DEF _elements
<1>2. \A k \in DOMAIN el : el[k] \in Element \ {packet}
  BY FieldSequence, States DEF _elements
<1>3. DOMAIN el = 1..Len(el) /\ Len(el) \in Nat
  BY FieldSequence, States DEF _elements
<1> HIDE DEF el
<1>4. \A i \in Nat \ {0} : \A k \in DOMAIN el : \A j \in i..(k - 1) : j \in DOMAIN el
  BY <1>3
<1>5. \A k \in DOMAIN el : size[el[k]] <= pos[el[k]] => size'[el[k]] <= pos'[el[k]]
  BY <1>2
<1>6. ASSUME NEW i \in Nat \ {0}, Blocked(D, f, i)
      PROVE  \E k \in DOMAIN el : /\ i <= k /\ el[k] \in D
                                  /\ \A j \in i..(k - 1) : size'[el[j]] <= pos'[el[j]]
  <2>1. PICK k \in DOMAIN el : /\ i <= k /\ el[k] \in D
                               /\ \A j \in i..(k - 1) : size[el[j]] <= pos[el[j]]
    BY <1>6 DEF Blocked, Full, el
  <2>2. \A j \in i..(k - 1) : size'[el[j]] <= pos'[el[j]]
    BY <1>4, <1>5, <2>1
  <2>3. QED
    BY <2>1, <2>2
<1>7. ASSUME NEW i \in Nat \ {0}, Blocked(D, f, i)
      PROVE  Blocked(D, f, i)'
  BY <1>1, <1>6, <1>7 DEF Blocked, Full
<1>8. ASSUME Resume(f)' = Resume(f), Blocked(D, f, Resume(f))
      PROVE  Blocked(D, f, Resume(f))'
  <2>1. Resume(f) \in Nat \ {0}
    BY Resumes
  <2> DEFINE r == Resume(f)
  <2>2. \E k \in DOMAIN el : /\ r <= k /\ el[k] \in D
                             /\ \A j \in r..(k - 1) : size'[el[j]] <= pos'[el[j]]
    BY <1>6, <1>8, <2>1
  <2>3. QED
    BY <1>1, <1>8, <2>2 DEF Blocked, Full
<1>9. QED
  BY <1>7, <1>8

LEMMA RefusingStays ==
    ASSUME IInv, NEW D \in SUBSET (Element \ {packet}), Refusing(D),
           UNCHANGED <<wire, rd, wr, beyond, kind, frames>>,
           \A e \in Element \ {packet} : pos'[e] = pos[e] /\ size'[e] = size[e],
           \A f \in D \cap Field : Resume(f)' = Resume(f) \/ Blocked(D, f, Resume(f))'
    PROVE  Refusing(D)'
<1>1. SUFFICES ASSUME NEW e \in D
               PROVE  (\/ e \in Leaf /\ ~Takes(e)
                       \/ e \in Field /\ (Full(e) \/ Blocked(D, e, Resume(e))))'
  BY DEF Refusing
<1>2. \/ e \in Leaf /\ ~Takes(e)
      \/ e \in Field /\ (Full(e) \/ Blocked(D, e, Resume(e)))
  BY DEF Refusing
<1>3. CASE e \in Leaf /\ ~Takes(e)
  <2>1. Takes(e)' <=> Takes(e)
    BY DEF Takes
  <2>2. QED
    BY <1>3, <2>1
<1>4. CASE e \in Field /\ Full(e)
  BY <1>4 DEF Full
<1>5. CASE e \in Field /\ Blocked(D, e, Resume(e))
  BY <1>5, BlockedStays
<1>6. QED
  BY <1>2, <1>3, <1>4, <1>5

\* The open loops stand at an element that is open too, or at the one they call.
LEMMA OpenPlaces ==
    ASSUME IInv, SumInv, Looping, kind # "none"
    PROVE  /\ payload \in Open /\ Open \subseteq Field
           /\ \A f \in Open \ {packet} : /\ it[f] \in DOMAIN _elements(f)
                                         /\ _elements(f)[it[f]] \in {Kid} \cup (Open \ {packet})
<1> USE FieldNames, Members, Parents
<1>1. top \in {payload, payloadHeader, startCode, payloadData} \cup FrameInformation
  BY DEF SumInv, HeaderDone, Looping, InLoop, Field
<1>2. top # Idle /\ Open = {top, Parent(top), Parent(Parent(top)), Parent(Parent(Parent(top)))}
  BY DEF Open, Looping, InLoop
<1>3. /\ DOMAIN _elements(payload) = 1..2 /\ _elements(payload)[1] = payloadHeader
      /\ _elements(payload)[2] = payloadData
  BY FieldElements DEF _elements
<1>4. 1 \in DOMAIN _elements(payloadHeader) /\ _elements(payloadHeader)[1] = startCode
  BY FieldElements DEF _elements
<1>5. it[top] \in DOMAIN _elements(top) /\ _elements(top)[it[top]] = Kid
  BY KidPlace
<1>6. CASE top = payload
  <2>1. Open = {payload, packet}
    BY <1>2, <1>6
  <2>2. QED
    BY <1>5, <1>6, <2>1
<1>7. CASE top = payloadHeader
  <2>1. Open = {payloadHeader, payload, packet} /\ it[payload] = 1
    BY <1>2, <1>7 DEF IInv, ChainInv, InHeader
  <2>2. QED
    BY <1>3, <1>5, <1>7, <2>1
<1>8. CASE top = startCode
  <2>1. Open = {startCode, payloadHeader, payload, packet} /\ it[payload] = 1 /\ it[payloadHeader] = 1
    BY <1>2, <1>8 DEF IInv, ChainInv, InHeader, SumInv, CallersStand
  <2>2. QED
    BY <1>3, <1>4, <1>5, <1>8, <2>1
<1>9. CASE top = payloadData
  <2>1. Open = {payloadData, payload, packet} /\ it[payload] = 2
    BY <1>2, <1>9 DEF IInv, ChainInv, InData
  <2>2. QED
    BY <1>3, <1>5, <1>9, <2>1
<1>10. CASE top \in FrameInformation
  <2>1. Open = {top, payloadData, payload, packet} /\ it[payload] = 2
    BY <1>2, <1>10 DEF IInv, ChainInv, InData
  <2>2. it[payloadData] \in DOMAIN _elements(payloadData) /\ _elements(payloadData)[it[payloadData]] = top
    BY <1>10 DEF SumInv, CallersStand
  <2>3. top \in Field \ {packet}
    BY <1>10
  <2>4. QED
    BY <1>3, <1>5, <2>1, <2>2, <2>3
<1>11. QED
  BY <1>1, <1>6, <1>7, <1>8, <1>9, <1>10

\* The element that refuses first, and the fields that are open then.
LEMMA FirstRefusal ==
    ASSUME IInv, SumInv, Looping, kind # "none",
           (Kid \in Leaf /\ ~Takes(Kid)) \/ (Kid \in Field /\ Full(Kid))
    PROVE  \E D \in SUBSET (Element \ {packet}) : payload \in D /\ Refusing(D)
<1> DEFINE D == {Kid} \cup (Open \ {packet})
<1>1. D \subseteq Element \ {packet} /\ payload \in D
  BY KidPlace, OpenPlaces, Members, FieldNames
<1>2. ASSUME NEW f \in Open \ {packet}
      PROVE  f \in Field /\ Blocked(D, f, Resume(f))
  <2>1. f \in Field \ {packet} /\ it[f] \in DOMAIN _elements(f) /\ _elements(f)[it[f]] \in D
    BY OpenPlaces
  <2>2. it[f] \in Nat \ {0} /\ Resume(f) \in Nat \ {0} /\ Resume(f) <= it[f]
    BY <2>1, Resumes
  <2>3. DOMAIN _elements(f) = 1..Len(_elements(f)) /\ Len(_elements(f)) \in Nat
    BY <2>1, ElementsSequence, States DEF _elements
  <2>4. \A j \in Resume(f)..(it[f] - 1) : j \in 1..(it[f] - 1) /\ j \in DOMAIN _elements(f)
    BY <2>1, <2>2, <2>3
  <2>5. \A j \in Resume(f)..(it[f] - 1) : Full(_elements(f)[j])
    BY <2>1, <2>4 DEF IInv, PassedElementsFull
  <2> HIDE DEF D
  <2>6. QED
    BY <2>1, <2>2, <2>5 DEF Blocked
<1>3. (Kid \in Leaf /\ ~Takes(Kid)) \/ (Kid \in Field /\ (Full(Kid) \/ Blocked(D, Kid, Resume(Kid))))
  OBVIOUS
<1>4. \A e \in D : e = Kid \/ e \in Open \ {packet}
  OBVIOUS
<1> HIDE DEF D, Kid
<1>5. Refusing(D)
  BY <1>2, <1>3, <1>4 DEF Refusing
<1>6. QED
  BY <1>1, <1>5

LEMMA FirstRefusalStays ==
    ASSUME IInv, SumInv, Looping, kind # "none",
           (Kid \in Leaf /\ ~Takes(Kid)) \/ (Kid \in Field /\ Full(Kid)),
           UNCHANGED <<wire, rd, wr, beyond, kind, frames, pos, size, it>>,
           ret' = "false", top' = top
    PROVE  PayloadStuck'
<1>1. PICK D \in SUBSET (Element \ {packet}) : payload \in D /\ Refusing(D)
  BY FirstRefusal
<1>2. \A f \in Field : Resume(f)' = Resume(f)
  BY DEF Resume
<1>3. Refusing(D)'
  BY <1>1, <1>2, RefusingStays
<1>4. Stuck(D)'
  BY <1>1, <1>3 DEF Stuck
<1>5. Remaining' > 0 /\ top' # packet
  BY DEF Remaining, Looping, InLoop
<1>6. QED
  BY <1>4, <1>5 DEF PayloadStuck

\* A retry that reaches no byte: what was stuck is stuck at the same place.
LEMMA StaysStuck ==
    ASSUME IInv, NEW D \in SUBSET (Element \ {packet}), Stuck(D), Remaining > 0,
           UNCHANGED <<wire, rd, wr, beyond, kind, frames>>,
           \A e \in Element \ {packet} : pos'[e] = pos[e] /\ size'[e] = size[e],
           \A f \in D \cap Field : Resume(f)' = Resume(f) \/ Blocked(D, f, Resume(f))',
           top' = packet => ret' = "false",
           InLoop' /\ ret' = "none" => Blocked(D, top, it[top])',
           InLoop' /\ ret' = "true" => (Kid \in Leaf /\ Full(Kid) /\ Blocked(D, top, it[top] + 1))'
    PROVE  PayloadStuck'
<1>1. Refusing(D)'
  BY RefusingStays DEF Stuck
<1>2. Stuck(D)'
  BY <1>1 DEF Stuck
<1>3. Remaining' > 0
  BY DEF Remaining
<1>4. QED
  BY <1>2, <1>3 DEF PayloadStuck

\* A call of an element that refuses, or comes to one.
LEMMA StuckCall ==
    ASSUME IInv, NEW D \in SUBSET (Element \ {packet}), Stuck(D), Remaining > 0,
           NEW f \in Field \ {packet}, f \in D \/ Full(f), Call(f), Parent(f) = packet => ~Full(f),
           Parent(f) # packet => Parent(f) \in Field,
           UNCHANGED <<wire, rd, wr, beyond, kind, frames, pos, size>>
    PROVE  PayloadStuck'
<1>1. CASE Full(f)
  <2>1. top' = Parent(f) /\ ret' = "false" /\ UNCHANGED it
    BY <1>1 DEF Call
  <2>2. \A g \in Field : Resume(g)' = Resume(g)
    BY <2>1 DEF Resume
  <2>3. QED
    BY <2>1, <2>2, StaysStuck
<1>2. CASE ~Full(f)
  <2>1. top' = f /\ ret' = "none" /\ it' = [it EXCEPT ![f] = Resume(f)]
    BY <1>2 DEF Call, Enter
  <2>2. \A g \in Field : it'[g] = IF g = f THEN Resume(f) ELSE it[g]
    BY <2>1 DEF IInv, TypeOK
  <2>3. \A g \in Field : Resume(g)' = Resume(g)
    BY <2>2 DEF Resume
  <2>4. Blocked(D, f, Resume(f))
    BY <1>2, Members DEF Stuck, Refusing
  <2>5. Resume(f) \in Nat \ {0} /\ it'[f] = Resume(f)
    BY <2>2, Resumes
  <2>6. Blocked(D, f, Resume(f))'
    BY <2>3, <2>4, BlockedStays
  <2>7. Blocked(D, top, it[top])'
    BY <2>1, <2>3, <2>5, <2>6 DEF Blocked
  <2>8. top' # packet /\ ret' # "true"
    BY <2>1
  <2>9. QED
    BY <2>3, <2>7, <2>8, StaysStuck
<1>3. QED
  BY <1>1, <1>2

LEMMA PushStuck ==
    ASSUME IInv, PayloadStuck, NEW n \in wire.cuts, Push(n)
    PROVE  FALSE
  BY DEF Push, PayloadStuck, IInv, TypeOK, Remaining

LEMMA FillPacketStuck ==
    ASSUME IInv, SumInv, PayloadStuck, kind # "none", FillPacket
    PROVE  PayloadStuck'
<1> USE FieldNames, Members, Parents
<1>1. PICK D \in SUBSET (Element \ {packet}) : Stuck(D)
  BY DEF PayloadStuck
<1>2. Full(commonHeader) /\ pos[packet] > 0 /\ top = Idle /\ Remaining > 0
  BY DEF SumInv, HeaderDone, FillPacket
<1>3. Call(payload)
  BY <1>2 DEF FillPacket
<1>4. rd' = rd
  BY <1>2 DEF FillPacket, Skip
<1>5. ~Full(payload)
  BY <1>2 DEF SumInv, PayloadOpen
<1>6. UNCHANGED <<wire, wr, beyond, kind, frames, pos, size>>
  BY DEF FillPacket
<1>7. payload \in D
  BY <1>1 DEF Stuck
<1>8. QED
  BY <1>1, <1>2, <1>3, <1>4, <1>5, <1>6, <1>7, StuckCall

LEMMA PacketPartialStuck ==
    ASSUME IInv, PayloadStuck, PacketPartial
    PROVE  PayloadStuck'
<1>1. PICK D \in SUBSET (Element \ {packet}) : Stuck(D)
  BY DEF PayloadStuck
<1>2. top' = Idle /\ ret' = "none" /\ UNCHANGED <<wire, rd, wr, beyond, kind, frames, it>>
  BY DEF PacketPartial, PayloadReturned, Return
<1>3. \A e \in Element \ {packet} : pos'[e] = pos[e] /\ size'[e] = size[e]
  BY DEF PacketPartial, IInv, TypeOK
<1>4. \A f \in D \cap Field : Resume(f)' = Resume(f)
  BY <1>1, <1>2, <1>3 DEF Resume
<1>5. ~InLoop' /\ top' # packet /\ Remaining > 0
  BY <1>2, FieldNames, Members DEF InLoop, PayloadStuck
<1>6. QED
  BY <1>1, <1>2, <1>3, <1>4, <1>5, StaysStuck

\* An element that is stuck is called before any that would take a byte.
LEMMA StuckKid ==
    ASSUME IInv, NEW D, Stuck(D), Looping, Kid \notin D
    PROVE  Full(Kid) /\ Blocked(D, top, it[top] + 1)
<1>1. PICK k \in DOMAIN _elements(top) :
        /\ it[top] <= k /\ _elements(top)[k] \in D
        /\ \A j \in it[top]..(k - 1) : Full(_elements(top)[j])
  BY DEF Stuck, Looping, Blocked
<1>2. top \in Field \ {packet} /\ it[top] \in Nat \ {0}
  BY DEF Looping, InLoop, IInv, TypeOK
<1>3. k \in Nat
  BY <1>2, ElementsSequence, States DEF _elements
<1>4. k # it[top]
  BY <1>1 DEF Kid
<1>5. it[top] \in it[top]..(k - 1) /\ it[top] + 1 <= k
  BY <1>1, <1>2, <1>3, <1>4
<1>6. \A j \in (it[top] + 1)..(k - 1) : j \in it[top]..(k - 1)
  BY <1>2, <1>3
<1>7. QED
  BY <1>1, <1>5, <1>6 DEF Blocked, Kid

LEMMA FillLeafStuck ==
    ASSUME IInv, PayloadStuck, FillLeaf
    PROVE  /\ PayloadStuck' /\ rd' = rd
           /\ \A e \in Element : pos'[e] = pos[e]
<1>1. PICK D \in SUBSET (Element \ {packet}) : Stuck(D)
  BY DEF PayloadStuck
<1> DEFINE K == Kid
<1>2. /\ K \in Leaf /\ K \in Element \ Field /\ top \in Field \ {packet}
      /\ ret' = "true" /\ Remaining \in Nat /\ Remaining > 0
      /\ CopyBytes \in Nat /\ rd' = rd + CopyBytes /\ pos'[K] = pos[K] + CopyBytes
      /\ \A e \in Element \ {K} : pos'[e] = pos[e]
      /\ UNCHANGED <<wire, wr, beyond, kind, frames, size, it, top>>
  BY LeafTakes
<1>3. Looping /\ Takes(K)
  BY HeadTakes DEF FillLeaf
<1>4. K \notin D
  BY <1>1, <1>2, <1>3 DEF Stuck, Refusing
<1>5. Full(K) /\ Blocked(D, top, it[top] + 1)
  BY <1>1, <1>3, <1>4, StuckKid
<1>6. CopyBytes = 0
  <2>1. CopyBytes = IF Remaining < size[K] - pos[K] THEN Remaining ELSE size[K] - pos[K]
    BY DEF CopyBytes
  <2>2. pos[K] \in Nat /\ size[K] \in Nat /\ pos[K] <= size[K]
    BY <1>2 DEF IInv, TypeOK, LeafBounds
  <2> HIDE DEF K
  <2>3. size[K] - pos[K] = 0
    BY <1>5, <2>2 DEF Full
  <2>4. QED
    BY <1>2, <2>1, <2>3
<1>7. rd' = rd
  BY <1>2, <1>6 DEF IInv, TypeOK
<1>8. \A e \in Element : pos'[e] = pos[e]
  <2>1. pos[K] \in Nat
    BY <1>2 DEF IInv, TypeOK
  <2> HIDE DEF K
  <2>2. pos'[K] = pos[K]
    BY <1>2, <1>6, <2>1
  <2>3. QED
    BY <1>2, <2>2
<1>9. Kid' = Kid
  BY <1>2 DEF Kid, _elements
<1>10. (Kid \in Leaf /\ Full(Kid))'
  BY <1>2, <1>5, <1>8, <1>9 DEF Full
<1>11. Blocked(D, top, it[top] + 1)'
  <2>1. it[top] \in Nat \ {0}
    BY <1>2, Resumes
  <2> DEFINE i == it[top] + 1
  <2>2. i \in Nat \ {0}
    BY <2>1
  <2>3. _elements(top)' = _elements(top)
    BY <1>2 DEF _elements
  <2> DEFINE el == _elements(top)
  <2>4. PICK k \in DOMAIN el : /\ i <= k /\ el[k] \in D
                               /\ \A j \in i..(k - 1) : size[el[j]] <= pos[el[j]]
    BY <1>5 DEF Blocked, Full
  <2>5. DOMAIN el = 1..Len(el) /\ Len(el) \in Nat
    BY <1>2, ElementsSequence, States DEF _elements
  <2>6. \A j \in DOMAIN el : el[j] \in Element
    BY <1>2, FieldSequence, States DEF _elements
  <2>7. i' = i
    BY <1>2
  <2> HIDE DEF i, el
  <2>8. \A j \in i..(k - 1) : j \in DOMAIN el
    BY <2>2, <2>5
  <2>9. \A j \in i..(k - 1) : size'[el[j]] <= pos'[el[j]]
    BY <1>2, <1>8, <2>4, <2>6, <2>8
  <2>10. el' = el
    BY <2>3 DEF el
  <2>11. Blocked(D, top, i)'
    BY <2>4, <2>7, <2>9, <2>10 DEF Blocked, Full, el
  <2>12. QED
    BY <2>11 DEF i
<1>12. \A f \in D \cap Field : Resume(f)' = Resume(f)
  BY <1>1, <1>2, <1>8 DEF Resume
<1>13. top' # packet /\ ret' # "none"
  BY <1>2
<1>14. PayloadStuck'
  BY <1>1, <1>2, <1>7, <1>8, <1>10, <1>11, <1>12, <1>13, StaysStuck
<1>15. QED
  BY <1>7, <1>8, <1>14

LEMMA RefuseLeafStuck ==
    ASSUME IInv, SumInv, kind # "none", RefuseLeaf
    PROVE  PayloadStuck'
<1>1. Looping /\ Kid \in Leaf /\ ~Takes(Kid)
  BY HeadTakes DEF RefuseLeaf
<1>2. ret' = "false" /\ UNCHANGED <<wire, rd, wr, beyond, kind, frames, pos, size, it, top>>
  BY DEF RefuseLeaf
<1>3. QED
  BY <1>1, <1>2, FirstRefusalStays

LEMMA CallFieldStuck ==
    ASSUME IInv, SumInv, kind # "none", CallField, refused => PayloadStuck, refused'
    PROVE  PayloadStuck'
<1>1. /\ Looping /\ Kid \in Field /\ Call(Kid) /\ top \in Field \ {packet} /\ Remaining > 0
      /\ UNCHANGED <<wire, rd, wr, beyond, kind, frames, pos, size>>
  BY DEF CallField, Looping, InLoop
<1>2. Parent(Kid) = top /\ Kid # packet
  BY <1>1, KidLayout DEF IInv
<1>3. CASE Full(Kid)
  <2>1. ret' = "false" /\ top' = top /\ UNCHANGED it
    BY <1>1, <1>2, <1>3 DEF Call
  <2>2. QED
    BY <1>1, <1>3, <2>1, FirstRefusalStays
<1>4. CASE ~Full(Kid)
  <2>1. refused
    BY <1>1, <1>4 DEF Call, Enter
  <2>2. PICK D \in SUBSET (Element \ {packet}) : Stuck(D)
    BY <2>1 DEF PayloadStuck
  <2>3. Kid \in D
    BY <1>1, <1>4, <2>2, StuckKid
  <2>4. QED
    BY <1>1, <1>2, <2>2, <2>3, StuckCall
<1>5. QED
  BY <1>3, <1>4

LEMMA NextElementStuck ==
    ASSUME IInv, PayloadStuck, KidFull
    PROVE  PayloadStuck' /\ \A e \in Element : pos'[e] = pos[e]
<1>1. PICK D \in SUBSET (Element \ {packet}) : Stuck(D)
  BY DEF PayloadStuck
<1>2. /\ InLoop /\ ret = "true" /\ Kid \in Leaf /\ Blocked(D, top, it[top] + 1)
      /\ top \in Field \ {packet} /\ Remaining > 0
  BY <1>1 DEF KidFull, Stuck, InLoop, PayloadStuck
<1>3. ~HeaderFulfilled
  <2>1. SUFFICES ASSUME HeaderFulfilled PROVE FALSE
    OBVIOUS
  <2>2. Kid = payloadHeader
    BY <2>1, FieldElements DEF HeaderFulfilled, Kid, _elements
  <2>3. QED
    BY <1>2, <2>2, Members
<1>4. /\ it' = [it EXCEPT ![top] = @ + 1] /\ ret' = "none" /\ top' = top
      /\ UNCHANGED <<wire, rd, wr, beyond, kind, frames, pos, size>>
  BY <1>3 DEF KidFull, Fulfilled
<1>5. \A f \in Field : it'[f] = IF f = top THEN it[top] + 1 ELSE it[f]
  BY <1>4 DEF IInv, TypeOK
<1>6. Blocked(D, top, it[top])'
  BY <1>2, <1>4, <1>5 DEF Blocked, Full, _elements
<1>7. ASSUME NEW f \in D \cap Field
      PROVE  Resume(f)' = Resume(f) \/ Blocked(D, f, Resume(f))'
  <2>1. CASE f # top \/ pos[f] = 0
    BY <1>4, <1>5, <2>1 DEF Resume
  <2>2. CASE f = top /\ pos[f] # 0
    <3>1. Resume(f)' = it[top]' /\ top' = f
      BY <1>4, <2>2 DEF Resume
    <3>2. QED
      BY <1>6, <3>1 DEF Blocked
  <2>3. QED
    BY <2>1, <2>2
<1>8. top' # packet /\ ret' # "true"
  BY <1>2, <1>4
<1>9. PayloadStuck'
  BY <1>1, <1>2, <1>4, <1>6, <1>7, <1>8, StaysStuck
<1>10. QED
  BY <1>4, <1>9

\* No loop ends, but by the refusal.
LEMMA FinishStuck ==
    ASSUME IInv, PayloadStuck, InLoop,
           \/ ret = "true" /\ ~Full(Kid)
           \/ ret = "none" /\ (Remaining = 0 \/ End(top))
    PROVE  FALSE
<1>1. PICK D \in SUBSET (Element \ {packet}) : Stuck(D)
  BY DEF PayloadStuck
<1>2. ret = "none" /\ End(top)
  BY <1>1 DEF PayloadStuck, Stuck
<1>3. PICK k \in DOMAIN _elements(top) : it[top] <= k
  BY <1>1, <1>2 DEF Stuck, Blocked
<1>4. /\ DOMAIN _elements(top) = 1..Len(_elements(top)) /\ Len(_elements(top)) \in Nat
      /\ it[top] \in Nat
  BY ElementsSequence, States, Resumes DEF _elements, InLoop
<1>5. QED
  BY <1>2, <1>3, <1>4 DEF End

LEMMA KidRefusedStuck ==
    ASSUME IInv, PayloadStuck, KidRefused
    PROVE  PayloadStuck'
<1>1. PICK D \in SUBSET (Element \ {packet}) : Stuck(D)
  BY DEF PayloadStuck
<1>2. ret' = "false" /\ UNCHANGED <<wire, rd, wr, beyond, kind, frames, pos, size, it>>
  BY DEF KidRefused, parser
<1>3. \A f \in Field : Resume(f)' = Resume(f)
  BY <1>2 DEF Resume
<1>4. Remaining > 0
  BY DEF PayloadStuck
<1>5. QED
  BY <1>1, <1>2, <1>3, <1>4, StaysStuck

-----------------------------------------------------------------------------
(* Every step keeps what is known of a refusal *)

LEMMA LateStep ==
    ASSUME RefusalInv, kind # "none", kind' = kind, ret' = "false" => refused',
           \A e \in {startByte, payloadType, sequenceNumber, timeStamp} : pos'[e] = pos[e],
           refused' => PayloadStuck'
    PROVE  RefusalInv'
<1>1. StartInv'
  BY StartLate DEF RefusalInv
<1>2. QED
  BY <1>1 DEF RefusalInv

LEMMA StutterRefusal == ASSUME IInv, RefusalInv, UNCHANGED vars PROVE RefusalInv'
<1>1. UNCHANGED <<wire, rd, wr, beyond, kind, frames, pos, size, it, top, ret, refused>>
  BY DEF vars, parser
<1>2. StartInv'
  BY <1>1 DEF RefusalInv, StartInv, Sum, _elements, Remaining
<1>3. HeaderStuck => HeaderStuck'
  BY <1>1 DEF HeaderStuck, TypeRefused, Remaining
<1>4. ASSUME PayloadStuck PROVE PayloadStuck'
  <2>1. PICK D \in SUBSET (Element \ {packet}) : Stuck(D)
    BY <1>4 DEF PayloadStuck
  <2>2. \A f \in Field : Resume(f)' = Resume(f)
    BY <1>1 DEF Resume
  <2>3. InLoop => top \in Field /\ it[top] \in Nat \ {0}
    BY DEF InLoop, IInv, TypeOK
  <2>4. InLoop' /\ ret' = "none" => Blocked(D, top, it[top])'
    BY <1>1, <2>1 DEF Stuck, Blocked, Full, _elements, InLoop
  <2>5. InLoop' /\ ret' = "true" => (Kid \in Leaf /\ Full(Kid) /\ Blocked(D, top, it[top] + 1))'
    BY <1>1, <2>1 DEF Stuck, Blocked, Full, _elements, InLoop, Kid
  <2>6. Remaining > 0 /\ (top' = packet => ret' = "false")
    BY <1>1, <1>4 DEF PayloadStuck
  <2>7. QED
    BY <1>1, <2>1, <2>2, <2>4, <2>5, <2>6, StaysStuck
<1>5. QED
  BY <1>1, <1>2, <1>3, <1>4 DEF RefusalInv

LEMMA PushRefusal ==
    ASSUME IInv, SumInv, RefusalInv, NEW n \in wire.cuts, Push(n)
    PROVE  RefusalInv'
<1>1. CASE kind = "none"
  BY <1>1, PushNone
<1>2. CASE kind # "none"
  <2>1. ~refused
    BY <1>2, PushStuck DEF RefusalInv
  <2>2. UNCHANGED <<kind, pos, refused, ret>> /\ (ret = "false" => refused)
    BY DEF Push, parser, RefusalInv, StartInv
  <2>3. QED
    BY <1>2, <2>1, <2>2, LateStep
<1>3. QED
  BY <1>1, <1>2

LEMMA FillPacketRefusal == ASSUME IInv, SumInv, RefusalInv, FillPacket PROVE RefusalInv'
<1>1. CASE kind = "none"
  BY <1>1, FillPacketNone
<1>2. CASE kind # "none"
  <2>1. Full(commonHeader) /\ ~Full(payload) /\ Call(payload) /\ UNCHANGED <<kind, pos>>
    BY <1>2, FieldNames, Members DEF FillPacket, SumInv, HeaderDone, PayloadOpen
  <2>2. ret' = "none" /\ refused' = refused
    BY <2>1 DEF Call, Enter
  <2>3. refused => PayloadStuck'
    BY <1>2, FillPacketStuck DEF RefusalInv
  <2>4. QED
    BY <1>2, <2>1, <2>2, <2>3, LateStep
<1>3. QED
  BY <1>1, <1>2

LEMMA PacketPartialRefusal == ASSUME IInv, SumInv, RefusalInv, PacketPartial PROVE RefusalInv'
<1>1. kind # "none" /\ kind' = kind /\ refused' = refused /\ ret' = "none"
  BY DEF PacketPartial, PayloadReturned, Return
<1>2. \A e \in {startByte, payloadType, sequenceNumber, timeStamp} : e \in Element /\ e # packet
  BY HeaderLeaves, Members
<1>3. \A e \in Element : e # packet => pos'[e] = pos[e]
  BY DEF PacketPartial, IInv, TypeOK
<1>4. refused => PayloadStuck'
  BY <1>1, PacketPartialStuck DEF RefusalInv
<1>5. QED
  BY <1>1, <1>2, <1>3, <1>4, LateStep

LEMMA FillLeafRefusal == ASSUME IInv, SumInv, RefusalInv, FillLeaf PROVE RefusalInv'
<1>1. CASE kind = "none"
  BY <1>1, FillLeafNone
<1>2. CASE kind # "none"
  <2>1. Looping /\ InLoop
    BY DEF FillLeaf, Looping
  <2>2. Kid \notin {startByte, payloadType, sequenceNumber, timeStamp}
    BY <1>2, <2>1, HeaderLoop, OtherKid
  <2>3. /\ kind' = kind /\ refused' = refused /\ ret' = "true"
        /\ \A e \in Element \ {Kid} : pos'[e] = pos[e]
    BY LeafTakes
  <2>4. \A e \in {startByte, payloadType, sequenceNumber, timeStamp} : pos'[e] = pos[e]
    BY <2>2, <2>3, HeaderLeaves
  <2>5. refused => PayloadStuck'
    BY <1>2, FillLeafStuck DEF RefusalInv
  <2>6. QED
    BY <1>2, <2>3, <2>4, <2>5, LateStep
<1>3. QED
  BY <1>1, <1>2

LEMMA RefuseLeafRefusal == ASSUME IInv, SumInv, RefusalInv, RefuseLeaf PROVE RefusalInv'
<1>1. CASE kind = "none"
  BY <1>1, RefuseLeafNone
<1>2. CASE kind # "none"
  <2>1. UNCHANGED <<kind, pos>> /\ refused'
    BY DEF RefuseLeaf
  <2>2. QED
    BY <1>2, <2>1, RefuseLeafStuck, LateStep
<1>3. QED
  BY <1>1, <1>2

LEMMA CallFieldRefusal == ASSUME IInv, SumInv, RefusalInv, CallField PROVE RefusalInv'
<1>1. kind # "none"
  <2>1. Looping /\ InLoop /\ Kid \in Field
    BY DEF CallField, Looping
  <2>2. QED
    BY <2>1, HeaderLoop, PayloadKid, HeaderLeaves
<1>2. UNCHANGED <<kind, pos>> /\ (ret' = "false" => refused')
  BY DEF CallField, Call, Enter
<1>3. refused' => PayloadStuck'
  BY <1>1, CallFieldStuck DEF RefusalInv
<1>4. QED
  BY <1>1, <1>2, <1>3, LateStep

\* No leaf of the common header belongs to a frame.
LEMMA FulfilledPos ==
    ASSUME IInv, KidFull
    PROVE  \A e \in Element \ FrameElement : pos'[e] = pos[e]
  BY DEF KidFull, Fulfilled, SizeImage, SizeFrames

LEMMA NextElementRefusal == ASSUME IInv, SumInv, RefusalInv, KidFull PROVE RefusalInv'
<1>1. CASE kind = "none"
  BY <1>1, NextElementNone
<1>2. CASE kind # "none"
  <2>1. kind' = kind /\ refused' = refused /\ ret' = "none"
    BY DEF KidFull
  <2>2. {startByte, payloadType, sequenceNumber, timeStamp} \subseteq Element \ FrameElement
    <3>1. {startByte, payloadType, sequenceNumber, timeStamp} \cap FrameElement = {}
      BY DEF FrameElement, FrameInformation, FrameLeaf, startByte, payloadType, sequenceNumber, timeStamp
    <3>2. QED
      BY <3>1, HeaderLeaves
  <2>3. refused => PayloadStuck'
    BY <1>2, NextElementStuck DEF RefusalInv
  <2>4. QED
    BY <1>2, <2>1, <2>2, <2>3, FulfilledPos, LateStep
<1>3. QED
  BY <1>1, <1>2

LEMMA FinishRefusal ==
    ASSUME IInv, SumInv, RefusalInv, InLoop, Finish,
           UNCHANGED <<wire, rd, wr, kind, frames, size, it, refused>>,
           \/ ret = "true" /\ ~Full(Kid)
           \/ ret = "none" /\ (Remaining = 0 \/ End(top))
    PROVE  RefusalInv'
<1>1. CASE kind = "none"
  BY <1>1, FinishNone
<1>2. CASE kind # "none"
  <2>1. ~refused
    BY <1>2, FinishStuck DEF RefusalInv
  <2>2. ret' = "true" /\ top \in Field
    BY DEF Finish, InLoop
  <2>3. \A e \in {startByte, payloadType, sequenceNumber, timeStamp} : e \in Element /\ e # top
    BY <2>2, HeaderLeaves
  <2>4. \A e \in Element : e # top => pos'[e] = pos[e]
    BY DEF Finish, IInv, TypeOK
  <2>5. QED
    BY <1>2, <2>1, <2>2, <2>3, <2>4, LateStep
<1>3. QED
  BY <1>1, <1>2

LEMMA KidRefusedRefusal == ASSUME IInv, SumInv, RefusalInv, KidRefused PROVE RefusalInv'
<1>1. CASE kind = "none"
  BY <1>1, KidRefusedNone
<1>2. CASE kind # "none"
  <2>1. UNCHANGED <<kind, pos, refused>> /\ ret = "false"
    BY DEF KidRefused, parser
  <2>2. refused
    BY <2>1 DEF RefusalInv, StartInv
  <2>3. PayloadStuck'
    BY <1>2, <2>2, KidRefusedStuck DEF RefusalInv
  <2>4. QED
    BY <1>2, <2>1, <2>2, <2>3, LateStep
<1>3. QED
  BY <1>1, <1>2

LEMMA NextRefusal == IInv /\ SumInv /\ RefusalInv /\ [Next]_vars => RefusalInv'
<1>1. SUFFICES ASSUME IInv, SumInv, RefusalInv, [Next]_vars PROVE RefusalInv'
  OBVIOUS
<1>2. CASE UNCHANGED vars
  BY <1>1, <1>2, StutterRefusal
<1>3. ASSUME NEW n \in wire.cuts, Push(n) PROVE RefusalInv'
  BY <1>1, <1>3, PushRefusal
<1>4. CASE FillPacket
  BY <1>1, <1>4, FillPacketRefusal
<1>5. CASE HeaderRefused
  BY <1>1, <1>5, HeaderRefusedNone
<1>6. CASE HeaderPartial
  BY <1>1, <1>6, HeaderPartialNone
<1>7. CASE HeaderFull
  BY <1>1, <1>7, HeaderFullNone
<1>8. CASE PacketPartial
  BY <1>1, <1>8, PacketPartialRefusal
<1>9. CASE PacketDelivered
  BY <1>1, <1>9, PacketDeliveredRefusal
<1>10. CASE FillLeaf
  BY <1>1, <1>10, FillLeafRefusal
<1>11. CASE RefuseLeaf
  BY <1>1, <1>11, RefuseLeafRefusal
<1>12. CASE CallField
  BY <1>1, <1>12, CallFieldRefusal
<1>13. CASE KidFull
  BY <1>1, <1>13, NextElementRefusal
<1>14. CASE KidPartial
  BY <1>1, <1>14, FinishRefusal DEF KidPartial
<1>15. CASE KidRefused
  BY <1>1, <1>15, KidRefusedRefusal
<1>16. CASE EndLoop
  BY <1>1, <1>16, FinishRefusal DEF EndLoop
<1>17. QED
  BY <1>1, <1>2, <1>3, <1>4, <1>5, <1>6, <1>7, <1>8, <1>9, <1>10, <1>11, <1>12, <1>13, <1>14,
     <1>15, <1>16 DEF Next, Camera, Demuxer

\* A refused byte leaves its traces for as long as the packet lasts: a common
\* header with its start byte alone, or a payload that comes to an element that
\* refuses before it comes to one that lacks bytes.
THEOREM RefusalInvariance == Spec => [](IInv /\ SumInv /\ RefusalInv)
<1>1. Init => IInv /\ SumInv /\ RefusalInv
  BY InitInv, InitSum, InitRefusal
<1>2. IInv /\ SumInv /\ RefusalInv /\ [Next]_vars => (IInv /\ SumInv /\ RefusalInv)'
  BY NextInv, NextSum, NextRefusal
<1>3. QED
  BY <1>1, <1>2, PTL DEF Spec

LEMMA NoByteStep ==
    ASSUME IInv, SumInv, RefusalInv, Next, refused
    PROVE  out' = out /\ \A e \in Leaf : pos'[e] = pos[e]
<1> USE Members
<1>1. kind = "none" \/ PayloadStuck
  BY DEF RefusalInv
<1>2. ASSUME NEW n \in wire.cuts, Push(n) PROVE out' = out /\ pos' = pos
  BY <1>2 DEF Push, parser
<1>3. CASE FillPacket \/ RefuseLeaf \/ CallField
  BY <1>3 DEF FillPacket, RefuseLeaf, CallField
<1>4. CASE HeaderRefused \/ KidRefused
  BY <1>4 DEF HeaderRefused, KidRefused, parser
<1>5. CASE HeaderPartial \/ HeaderFull \/ PacketPartial
  <2>1. out' = out /\ \A e \in Element : e # packet => pos'[e] = pos[e]
    BY <1>5 DEF HeaderPartial, HeaderFull, PacketPartial, IInv, TypeOK
  <2>2. QED
    BY <2>1
<1>6. ~PacketDelivered
  BY <1>1 DEF PacketDelivered, PayloadReturned, PayloadStuck
<1>7. CASE FillLeaf
  BY <1>1, <1>7, LeafTakes, FillLeafNone, FillLeafStuck
<1>8. CASE KidFull
  <2>1. out' = out /\ InLoop
    BY <1>8 DEF KidFull
  <2>2. kind = "none" => ~HeaderFulfilled
    BY <2>1, HeaderLoop, FieldNames DEF HeaderFulfilled
  <2>3. kind = "none" => pos' = pos
    BY <1>8, <2>2 DEF KidFull, Fulfilled
  <2>4. QED
    BY <1>1, <1>8, <2>1, <2>3, NextElementStuck
<1>9. CASE KidPartial \/ EndLoop
  <2>1. InLoop /\ out' = out /\ pos' = [pos EXCEPT ![top] = Total(_elements(top), pos)]
    BY <1>9 DEF KidPartial, EndLoop, Finish
  <2>2. \A e \in Element : e # top => pos'[e] = pos[e]
    BY <2>1 DEF IInv, TypeOK
  <2>3. QED
    BY <2>1, <2>2 DEF InLoop
<1>10. QED
  BY <1>2, <1>3, <1>4, <1>5, <1>6, <1>7, <1>8, <1>9 DEF Next, Camera, Demuxer

\* A packet that has refused a byte takes no further one and is never delivered,
\* however often Push is called again: neither SkipUntil nor the retries of
\* BaseField::Fill, which start again at any element whose position was never
\* computed, let another byte in.
THEOREM RefusalIsFinal == Spec => NoByteAfterRefusal
<1>1. IInv /\ SumInv /\ RefusalInv /\ [Next]_vars
        => [refused => out' = out /\ \A e \in Leaf : pos'[e] = pos[e]]_vars
  BY NoByteStep
<1>2. QED
  BY <1>1, RefusalInvariance, PTL DEF Spec, NoByteAfterRefusal

-----------------------------------------------------------------------------
(* The bytes a packet takes *)

LEMMA SumNat ==
    ASSUME IInv, SumInv
    PROVE  \A f \in Field : Sum(f) \in Nat /\ pos[f] \in Nat /\ Lag(f) \in Nat
<1>1. SUFFICES ASSUME NEW f \in Field PROVE Sum(f) \in Nat /\ pos[f] \in Nat /\ Lag(f) \in Nat
  OBVIOUS
<1>2. \A e \in Element \ {packet} : pos[e] \in Nat /\ pos[e] <= pos[e]
  BY PosNat DEF IInv, SumInv
<1>3. Sum(f) \in Nat
  BY <1>2, SumsGrow, States DEF Sum, _elements
<1>4. QED
  BY <1>3 DEF Lag, SumInv, Positions

LEMMA SumsKept ==
    ASSUME IInv, SumInv, UNCHANGED <<kind, frames>>,
           \A e \in Element \ {packet} : pos'[e] = pos[e]
    PROVE  \A f \in Field : Sum(f)' = Sum(f) /\ (f # packet => Lag(f)' = Lag(f))
<1>1. SUFFICES ASSUME NEW f \in Field
               PROVE  Sum(f)' = Sum(f) /\ (f # packet => Lag(f)' = Lag(f))
  OBVIOUS
<1>2. \A e \in Element \ {packet} : pos[e] \in Nat /\ pos'[e] = pos[e]
  BY PosNat DEF IInv, SumInv
<1>3. Total(_elements(f), pos') = Total(_elements(f), pos)
  BY <1>2, PacketAlone
<1>4. Sum(f)' = Sum(f)
  BY <1>3 DEF Sum, _elements
<1>5. QED
  BY <1>4, Members DEF Lag

\* The callers of a field.
LEMMA ParentChain ==
    \A f \in Field : /\ Parent(f) \in {packet, payload, payloadHeader, payloadData}
                     /\ Parent(Parent(f)) \in {packet, payload}
                     /\ Parent(Parent(Parent(f))) = packet
  BY Parents DEF Field

LEMMA HistoryKept ==
    ASSUME IInv, History, SizeIsConsumption, UNCHANGED <<first, out>>,
           rd' \in Nat, rd <= rd', pos'[startByte] > 0 => pos[startByte] > 0
    PROVE  History' /\ SizeIsConsumption'
<1>1. rd \in Nat
  BY DEF IInv, TypeOK
<1>2. SizeIsConsumption'
  BY DEF SizeIsConsumption
<1> DEFINE R == [kind : {"images", "frames"}, image : Seq(Byte), size : Int, first : Nat, last : Nat]
<1>3. \A k \in DOMAIN out : out[k].last \in Nat
  <2>1. \A r \in R : r.last \in Nat
    OBVIOUS
  <2>2. out \in Seq(R)
    BY DEF History
  <2> HIDE DEF R
  <2>3. \A k \in DOMAIN out : out[k] \in R
    BY <2>2
  <2>4. QED
    BY <2>1, <2>3
<1>4. History'
  BY <1>1, <1>3 DEF History
<1>5. QED
  BY <1>2, <1>4

\* A step that counts nothing: it enters a field, or leaves one that lags behind
\* in nothing, or is a refusal.
LEMMA ConsumptionKept ==
    ASSUME IInv, SumInv, ConsumptionInv, UNCHANGED <<kind, frames, first, out>>,
           \A e \in Element \ {packet} : pos'[e] = pos[e],
           rd' \in Nat, rd <= rd',
           refused => refused',
           ~refused' => /\ Open \ {packet} \subseteq Open'
                        /\ top \in FrameInformation => top' = top
                        /\ top' \in FrameInformation => top' = top \/ top' \notin Open
                        /\ rd' = rd \/ pos[startByte] = 0
    PROVE  ConsumptionInv'
<1>1. startByte \in Element \ {packet}
  BY HeaderLeaves, Members
<1>2. History' /\ SizeIsConsumption'
  BY <1>1, HistoryKept DEF ConsumptionInv
<1>3. ASSUME ~refused'
      PROVE  Returned' /\ (pos'[startByte] > 0 => Consumption' = rd' - first' + 1)
  <2>1. ~refused
    BY <1>3
  <2>2. \A f \in Field : Sum(f)' = Sum(f) /\ (f # packet => Lag(f)' = Lag(f))
    BY SumsKept
  <2>3. Returned
    BY <2>1 DEF ConsumptionInv
  <2>4. Returned'
    BY <1>3, <2>2, <2>3 DEF Returned
  <2>5. FrameInformation \subseteq Field \ {packet}
    BY Members, FieldNames
  <2> DEFINE p == IF top \in FrameInformation THEN Lag(top) ELSE 0
             q == IF top' \in FrameInformation THEN Lag(top)' ELSE 0
  <2>6. q = p
    <3>1. CASE top' = top
      <4>1. top \in FrameInformation => Lag(top)' = Lag(top)
        <5>1. SUFFICES ASSUME top \in FrameInformation PROVE Lag(top)' = Lag(top)
          OBVIOUS
        <5>2. PICK f \in FrameInformation : f = top
          BY <5>1
        <5>3. f' = top' /\ Lag(f)' = Lag(f)
          BY <2>2, <2>5, <3>1, <5>2
        <5>4. Lag(top)' = Lag(f)'
          BY <3>1, <5>2 DEF Lag, Sum, _elements
        <5>5. QED
          BY <5>2, <5>3, <5>4
      <4>2. QED
        BY <3>1, <4>1
    <3>2. CASE top' # top
      <4>1. top \notin FrameInformation
        BY <1>3, <3>2
      <4>2. top' \in FrameInformation => Lag(top)' = 0
        <5>1. SUFFICES ASSUME top' \in FrameInformation PROVE Lag(top)' = 0
          OBVIOUS
        <5>2. PICK f \in FrameInformation : f = top'
          BY <5>1
        <5>3. Lag(f) = 0 /\ Lag(f)' = Lag(f)
          BY <1>3, <2>2, <2>3, <2>5, <3>2, <5>2 DEF Returned
        <5>4. Lag(top)' = Lag(f)'
          BY <5>2 DEF Lag, Sum, _elements
        <5>5. QED
          BY <5>3, <5>4
      <4>3. QED
        BY <4>1, <4>2
    <3>3. QED
      BY <3>1, <3>2
  <2>7. Consumption' = Consumption
    BY <2>2, <2>6, Members, FieldNames DEF Consumption
  <2>8. QED
    BY <1>1, <1>3, <2>1, <2>4, <2>7 DEF ConsumptionInv
<1>4. QED
  BY <1>2, <1>3 DEF ConsumptionInv

LEMMA StutterConsumption ==
    ASSUME IInv, SumInv, ConsumptionInv, UNCHANGED vars
    PROVE  ConsumptionInv'
<1>1. UNCHANGED <<kind, frames, first, out, pos, rd, refused, top>>
  BY DEF vars, parser
<1>2. rd \in Nat /\ Open' = Open
  BY <1>1 DEF IInv, TypeOK, Open
<1>3. QED
  BY <1>1, <1>2, ConsumptionKept

LEMMA PushConsumption ==
    ASSUME IInv, SumInv, ConsumptionInv, NEW n \in wire.cuts, Push(n)
    PROVE  ConsumptionInv'
<1>1. UNCHANGED <<kind, frames, first, out, pos, rd, refused, top>>
  BY DEF Push, parser
<1>2. rd \in Nat /\ Open' = Open
  BY <1>1 DEF IInv, TypeOK, Open
<1>3. QED
  BY <1>1, <1>2, ConsumptionKept

LEMMA FillPacketConsumption ==
    ASSUME IInv, SumInv, RefusalInv, ConsumptionInv, FillPacket
    PROVE  ConsumptionInv'
<1> USE FieldNames, Members
<1>1. UNCHANGED <<kind, frames, first, out, pos, size>> /\ top = Idle
  BY DEF FillPacket
<1>2. PICK k \in rd..wr : Skip(k) /\ rd' = k
  BY DEF FillPacket
<1>3. rd \in Nat /\ rd' \in Nat /\ rd <= rd'
  BY <1>2 DEF IInv, TypeOK
<1>4. PICK f \in {commonHeader, payload} : Call(f)
  BY DEF FillPacket
<1>5. (refused => refused') /\ (~refused' => top' = f /\ ~refused)
  BY <1>4 DEF Call, Enter
<1>6. ~refused => rd' = rd \/ pos[startByte] = 0
  <2>1. SUFFICES ASSUME ~refused, pos[packet] = 0 PROVE pos[startByte] = 0
    BY <1>2 DEF Skip
  <2>2. kind = "none" /\ pos[commonHeader] = 0
    BY <1>1, <2>1 DEF SumInv, HeaderDone, HeaderOnly
  <2>3. Sum(commonHeader) = 0
    BY <1>1, <2>1, <2>2 DEF RefusalInv, StartInv
  <2>4. QED
    BY <2>3, NothingBeforeStart DEF RefusalInv
<1>7. Open = {} /\ top \notin FrameInformation /\ (~refused' => top' \notin FrameInformation)
  BY <1>1, <1>5 DEF Open
<1>8. QED
  BY <1>1, <1>3, <1>5, <1>6, <1>7, ConsumptionKept

\* The steps of the packet's own Fill, which only compute its position.
LEMMA PacketStepConsumption ==
    ASSUME IInv, SumInv, ConsumptionInv, HeaderPartial \/ PacketPartial
    PROVE  ConsumptionInv'
<1>1. UNCHANGED <<kind, frames, first, out, rd, refused>> /\ top = packet /\ top' = Idle
  BY DEF HeaderPartial, PacketPartial, PayloadReturned, Return
<1>2. \A e \in Element \ {packet} : pos'[e] = pos[e]
  BY DEF HeaderPartial, PacketPartial, IInv, TypeOK
<1>3. rd \in Nat
  BY DEF IInv, TypeOK
<1>4. Open \ {packet} = {}
  BY <1>1, Parents, FieldNames, Members DEF Open
<1>5. top \notin FrameInformation /\ top' \notin FrameInformation
  BY <1>1, Members, FieldNames
<1>6. QED
  BY <1>1, <1>2, <1>3, <1>4, <1>5, ConsumptionKept

LEMMA RefusedConsumption ==
    ASSUME IInv, SumInv, RefusalInv, ConsumptionInv, HeaderRefused \/ KidRefused \/ RefuseLeaf
    PROVE  ConsumptionInv'
<1>1. UNCHANGED <<kind, frames, first, out, pos, rd>>
  BY DEF HeaderRefused, KidRefused, RefuseLeaf, parser
<1>2. refused'
  BY DEF HeaderRefused, KidRefused, RefuseLeaf, parser, RefusalInv, StartInv
<1>3. rd \in Nat
  BY DEF IInv, TypeOK
<1>4. QED
  BY <1>1, <1>2, <1>3, ConsumptionKept

LEMMA CallFieldConsumption ==
    ASSUME IInv, SumInv, ConsumptionInv, CallField
    PROVE  ConsumptionInv'
<1>1. /\ UNCHANGED <<kind, frames, first, out, pos, rd>> /\ Kid \in Field /\ Call(Kid)
      /\ Looping /\ top \in Field \ {packet}
  BY DEF CallField, Looping, InLoop
<1>2. (refused => refused') /\ (~refused' => top' = Kid)
  BY <1>1 DEF Call, Enter
<1>3. Parent(Kid) = top /\ (Kid \in FrameInformation => top = payloadData)
  BY <1>1, KidLayout DEF IInv
<1>4. rd \in Nat
  BY DEF IInv, TypeOK
<1>5. top # Idle /\ Open = {top, Parent(top), Parent(Parent(top)), Parent(Parent(Parent(top)))}
  BY <1>1, FieldNames DEF Open
<1>6. top' = Kid => Open \ {packet} \subseteq Open'
  <2>1. ASSUME top' = Kid
        PROVE  Open' = {Kid, Parent(Kid), Parent(Parent(Kid)), Parent(Parent(Parent(Kid)))}
    BY <1>1, <2>1, FieldNames DEF Open
  <2>2. Parent(Parent(Parent(top))) = packet
    BY <1>1, ParentChain
  <2>3. QED
    BY <1>3, <1>5, <2>1, <2>2
<1>7. top \notin FrameInformation
  BY <1>1, <1>3, ParentChain, FieldNames
<1>8. Kid \in FrameInformation => Kid \notin Open
  BY <1>3, <1>5, Parents, FieldNames
<1>9. QED
  BY <1>1, <1>2, <1>4, <1>6, <1>7, <1>8, ConsumptionKept

\* The bytes a leaf takes count in the sum of its field, which lags behind.
LEMMA LeafSums ==
    ASSUME IInv, SumInv, FillLeaf
    PROVE  /\ \A g \in Field : Sum(g)' = Sum(g) + (IF g = top THEN CopyBytes ELSE 0) /\ pos'[g] = pos[g]
           /\ Consumption' = Consumption + CopyBytes
<1> DEFINE K == Kid
           n == CopyBytes
<1>1. /\ K \in Leaf /\ K \in Element \ Field /\ top \in Field \ {packet} /\ n \in Nat
      /\ pos'[K] = pos[K] + n
      /\ \A e \in Element \ {K} : pos'[e] = pos[e]
      /\ UNCHANGED <<kind, frames, top>>
  BY LeafTakes
<1>2. it[top] \in DOMAIN _elements(top) /\ K = _elements(top)[it[top]]
  BY KidPlace DEF FillLeaf
<1> HIDE DEF K, n
<1>3. \A e \in Element : pos[e] \in Nat
  BY PosNat DEF IInv, SumInv
<1>4. \A e \in Element \ {packet} : pos[e] \in Nat /\ pos'[e] \in Nat
  BY <1>1, <1>3
<1>5. \A e \in Element \ {packet, K} : pos'[e] = pos[e]
  BY <1>1
<1>6. /\ Total(_elements(top), pos') = Total(_elements(top), pos) + (pos'[K] - pos[K])
      /\ \A g \in Field \ {top} : Total(_elements(g), pos') = Total(_elements(g), pos)
  <2>1. /\ it[top] \in DOMAIN Elements(top, kind, frames) /\ K = Elements(top, kind, frames)[it[top]]
        /\ kind \in {"none", "images", "frames"} /\ frames \in {NoFrames} \cup 0..MaxFrames
        /\ top \in Field
    BY <1>1, <1>2, States DEF _elements
  <2>2. Total(Elements(top, kind, frames), pos') = Total(Elements(top, kind, frames), pos) + (pos'[K] - pos[K])
    BY <1>4, <1>5, <2>1, SumsChange
  <2>3. \A g \in Field \ {top} : Total(Elements(g, kind, frames), pos') = Total(Elements(g, kind, frames), pos)
    BY <1>4, <1>5, <2>1, SumsChange
  <2>4. QED
    BY <2>2, <2>3 DEF _elements
<1>7. pos'[K] - pos[K] = n
  BY <1>1, <1>3
<1>8. \A g \in Field : Sum(g) \in Nat /\ pos[g] \in Nat /\ Lag(g) \in Nat
  BY SumNat
<1>9. ASSUME NEW g \in Field
      PROVE  Sum(g)' = Sum(g) + (IF g = top THEN n ELSE 0) /\ pos'[g] = pos[g]
  <2>1. Sum(g)' = Total(_elements(g), pos') /\ Sum(g) = Total(_elements(g), pos)
    BY <1>1 DEF Sum, _elements
  <2>2. CASE g = top
    BY <1>1, <1>6, <1>7, <2>1, <2>2, Members
  <2>3. CASE g # top
    BY <1>1, <1>6, <1>8, <2>1, <2>3, Members
  <2>4. QED
    BY <2>2, <2>3
<1>10. \A g \in Field : Lag(g)' = Lag(g) + (IF g = top THEN n ELSE 0)
  BY <1>1, <1>8, <1>9 DEF Lag
<1>11. top \in {commonHeader, payload, payloadHeader, startCode, payloadData} \cup FrameInformation
  BY <1>1 DEF Field
<1>12. top \in FrameInformation => Lag(top)' = Lag(top) + n
  <2>1. SUFFICES ASSUME top \in FrameInformation PROVE Lag(top)' = Lag(top) + n
    OBVIOUS
  <2>2. PICK g \in Field : g = top
    BY <1>1
  <2>3. Lag(top)' = Lag(g)' /\ Lag(top) = Lag(g)
    BY <1>1, <2>2 DEF Lag, Sum, _elements
  <2>4. QED
    BY <1>10, <2>2, <2>3
<1>13. Consumption' = Consumption + n
  <2>1. /\ packet \in Field /\ commonHeader \in Field /\ payload \in Field /\ payloadHeader \in Field
        /\ startCode \in Field /\ payloadData \in Field /\ top # packet
    BY <1>1, Members
  <2>2. Sum(packet)' = Sum(packet)
    BY <1>8, <1>9, <2>1
  <2>3. /\ Lag(commonHeader)' = Lag(commonHeader) + (IF commonHeader = top THEN n ELSE 0)
        /\ Lag(payload)' = Lag(payload) + (IF payload = top THEN n ELSE 0)
        /\ Lag(payloadHeader)' = Lag(payloadHeader) + (IF payloadHeader = top THEN n ELSE 0)
        /\ Lag(startCode)' = Lag(startCode) + (IF startCode = top THEN n ELSE 0)
        /\ Lag(payloadData)' = Lag(payloadData) + (IF payloadData = top THEN n ELSE 0)
    BY <1>10, <2>1
  <2>4. /\ Sum(packet) \in Nat /\ Lag(commonHeader) \in Nat /\ Lag(payload) \in Nat
        /\ Lag(payloadHeader) \in Nat /\ Lag(startCode) \in Nat /\ Lag(payloadData) \in Nat
        /\ Lag(top) \in Nat
    BY <1>1, <1>8, <2>1
  <2>5. CASE top \in FrameInformation
    <3>1. top \notin {commonHeader, payload, payloadHeader, startCode, payloadData}
      BY <2>5, FieldNames
    <3>2. QED
      BY <1>1, <1>12, <2>2, <2>3, <2>4, <2>5, <3>1 DEF Consumption
  <2>6. CASE top \notin FrameInformation
    BY <1>1, <1>11, <2>2, <2>3, <2>4, <2>6, FieldNames DEF Consumption
  <2>7. QED
    BY <2>5, <2>6
<1>14. QED
  BY <1>9, <1>13 DEF n

\* A packet takes its start byte before it has taken anything else.
LEMMA StartTaken ==
    ASSUME IInv, SumInv, RefusalInv, FillLeaf, Kid = startByte, CopyBytes > 0
    PROVE  /\ kind = "none" /\ top = commonHeader /\ ~refused /\ CopyBytes = 1
           /\ pos[startByte] = 0 /\ Sum(packet) = 0 /\ Lag(commonHeader) = 0
<1>1. Looping /\ InLoop
  BY DEF FillLeaf, Looping
<1>2. top = commonHeader
  BY <1>1, OtherKid
<1>3. kind = "none"
  BY <1>1, <1>2, HeaderLoop
<1>4. size[startByte] = 1 /\ pos[startByte] \in {0, 1}
  BY StartSizes
<1>5. CopyBytes <= size[startByte] - pos[startByte] /\ CopyBytes \in Nat
  BY LeafTakes, <1>4 DEF CopyBytes
<1>6. pos[startByte] = 0 /\ CopyBytes = 1
  BY <1>4, <1>5
<1>7. ~refused
  BY <1>3, <1>6 DEF RefusalInv, HeaderStuck
<1>8. Sum(commonHeader) = 0 /\ pos[commonHeader] \in Nat /\ pos[commonHeader] <= Sum(commonHeader)
  BY <1>6, NothingBeforeStart DEF RefusalInv
<1>9. Sum(packet) = pos[commonHeader]
  BY <1>3, PacketSum
<1>10. QED
  BY <1>2, <1>3, <1>6, <1>7, <1>8, <1>9 DEF Lag

LEMMA FillLeafConsumption ==
    ASSUME IInv, SumInv, RefusalInv, ConsumptionInv, FillLeaf
    PROVE  ConsumptionInv'
<1>1. /\ CopyBytes \in Nat /\ rd' = rd + CopyBytes /\ pos'[Kid] = pos[Kid] + CopyBytes
      /\ \A e \in Element \ {Kid} : pos'[e] = pos[e]
      /\ UNCHANGED <<kind, frames, top, refused, out>> /\ top \in Field
  BY LeafTakes
<1>2. first' = IF Kid = startByte /\ CopyBytes > 0 THEN rd + 1 ELSE first
  BY DEF FillLeaf
<1>3. rd \in Nat /\ first \in Nat /\ startByte \in Element /\ pos[startByte] \in Nat
  BY HeaderLeaves DEF IInv, TypeOK, ConsumptionInv, History
<1>4. Consumption' = Consumption + CopyBytes
  BY LeafSums
<1>5. \A g \in Field : g # top => Lag(g)' = Lag(g)
  <2>1. SUFFICES ASSUME NEW g \in Field, g # top PROVE Lag(g)' = Lag(g)
    OBVIOUS
  <2>2. Sum(g)' = Sum(g) + 0 /\ pos'[g] = pos[g] /\ Sum(g) \in Nat
    BY <2>1, LeafSums, SumNat
  <2>3. QED
    BY <2>2, Members DEF Lag
<1>6. ~refused => Returned'
  <2>1. top \in Open /\ Open' = Open
    BY <1>1, FieldNames DEF Open
  <2>2. QED
    BY <1>5, <2>1 DEF ConsumptionInv, Returned
<1>7. CASE Kid = startByte /\ CopyBytes > 0
  <2>1. /\ kind = "none" /\ top = commonHeader /\ ~refused /\ CopyBytes = 1
        /\ pos[startByte] = 0 /\ Sum(packet) = 0 /\ Lag(commonHeader) = 0
    BY <1>7, StartTaken
  <2>2. Open = {commonHeader, packet}
    BY <2>1, Parents, FieldNames, Members DEF Open
  <2>3. Lag(payload) = 0 /\ Lag(payloadHeader) = 0 /\ Lag(startCode) = 0 /\ Lag(payloadData) = 0
    BY <2>1, <2>2, FieldNames, Members DEF ConsumptionInv, Returned
  <2>4. Consumption = 0
    BY <2>1, <2>3, FieldNames DEF Consumption
  <2>5. first' = rd + 1 /\ rd' = rd + 1
    BY <1>1, <1>2, <1>7, <2>1
  <2>6. Consumption' = rd' - first' + 1
    BY <1>3, <1>4, <2>1, <2>4, <2>5
  <2>7. History'
    <3> DEFINE R == [kind : {"images", "frames"}, image : Seq(Byte), size : Int, first : Nat, last : Nat]
    <3>1. out \in Seq(R) /\ \A k \in DOMAIN out : out[k].last <= rd
      BY DEF ConsumptionInv, History
    <3>2. \A r \in R : r.last \in Nat
      OBVIOUS
    <3> HIDE DEF R
    <3>3. \A k \in DOMAIN out : out[k].last \in Nat
      BY <3>1, <3>2
    <3>4. \A k \in DOMAIN out : out[k].last <= rd + 1 /\ out[k].last < rd + 1
      BY <1>3, <3>1, <3>3
    <3>5. first' \in Nat
      BY <1>3, <2>5
    <3>6. QED
      BY <1>1, <2>5, <3>1, <3>4, <3>5 DEF History, R
  <2>8. SizeIsConsumption'
    BY <1>1 DEF ConsumptionInv, SizeIsConsumption
  <2>9. QED
    BY <1>1, <1>6, <2>1, <2>6, <2>7, <2>8 DEF ConsumptionInv
<1>8. CASE ~(Kid = startByte /\ CopyBytes > 0)
  <2>1. first' = first /\ rd' \in Nat /\ rd <= rd'
    BY <1>1, <1>2, <1>3, <1>8
  <2>2. pos'[startByte] = pos[startByte]
    <3>1. CASE Kid = startByte
      BY <1>1, <1>3, <1>8, <3>1
    <3>2. CASE Kid # startByte
      BY <1>1, <1>3, <3>2
    <3>3. QED
      BY <3>1, <3>2
  <2>3. History' /\ SizeIsConsumption'
    BY <1>1, <2>1, <2>2, HistoryKept DEF ConsumptionInv
  <2>4. ~refused /\ pos[startByte] > 0 => Consumption = rd - first + 1
    BY DEF ConsumptionInv
  <2>5. ~refused /\ pos[startByte] > 0 => Consumption' = rd' - first' + 1
    BY <1>1, <1>3, <1>4, <2>1, <2>4
  <2>6. QED
    BY <1>1, <1>6, <2>2, <2>3, <2>5 DEF ConsumptionInv
<1>9. QED
  BY <1>7, <1>8

\* Where the caller of a field stands.
LEMMA CallerPlace ==
    ASSUME IInv, SumInv, InLoop
    PROVE  \E i : /\ i \in DOMAIN Elements(Parent(top), kind, frames)
                  /\ top = Elements(Parent(top), kind, frames)[i]
<1> USE FieldNames, Members, Parents DEF InLoop
<1>1. top \in {commonHeader, payload, payloadHeader, startCode, payloadData} \cup FrameInformation
  BY DEF Field
<1>2. CASE top \in {commonHeader, payload}
  <2>1. top = payload => kind # "none"
    BY DEF IInv, ChainInv
  <2>2. Elements(packet, kind, frames) = IF kind = "none" THEN <<commonHeader>> ELSE <<commonHeader, payload>>
    BY PacketElements
  <2>3. Parent(top) = packet
    BY <1>2
  <2>4. CASE top = commonHeader
    <3>1. 1 \in DOMAIN Elements(packet, kind, frames) /\ Elements(packet, kind, frames)[1] = commonHeader
      BY <2>2
    <3>2. QED
      BY <2>3, <2>4, <3>1
  <2>5. CASE top = payload
    <3>1. 2 \in DOMAIN Elements(packet, kind, frames) /\ Elements(packet, kind, frames)[2] = payload
      BY <2>1, <2>2, <2>5
    <3>2. QED
      BY <2>3, <2>5, <3>1
  <2>6. QED
    BY <1>2, <2>4, <2>5
<1>3. CASE top \in {payloadHeader, payloadData}
  <2>1. Elements(payload, kind, frames) = <<payloadHeader, payloadData>> /\ Parent(top) = payload
    BY <1>3, FieldElements
  <2>2. /\ 1 \in DOMAIN Elements(payload, kind, frames) /\ Elements(payload, kind, frames)[1] = payloadHeader
        /\ 2 \in DOMAIN Elements(payload, kind, frames) /\ Elements(payload, kind, frames)[2] = payloadData
    BY <2>1
  <2>3. QED
    BY <1>3, <2>1, <2>2
<1>4. CASE top = startCode
  <2>1. 1 \in DOMAIN Elements(payloadHeader, kind, frames) /\ Elements(payloadHeader, kind, frames)[1] = startCode
    BY FieldElements
  <2>2. QED
    BY <1>4, <2>1
<1>5. CASE top \in FrameInformation
  BY <1>5 DEF SumInv, CallersStand, _elements
<1>6. QED
  BY <1>1, <1>2, <1>3, <1>4, <1>5

\* A field that returns hands what it lags behind to its caller.
LEMMA FinishSums ==
    ASSUME IInv, SumInv, InLoop, Finish, UNCHANGED <<kind, frames>>
    PROVE  \A g \in Field :
             /\ Sum(g)' = Sum(g) + (IF g = Parent(top) THEN Lag(top) ELSE 0)
             /\ g # packet => Lag(g)' = IF g = top THEN 0
                                        ELSE Lag(g) + (IF g = Parent(top) THEN Lag(top) ELSE 0)
<1> DEFINE P == Parent(top)
           d == Lag(top)
<1>1. top \in Field \ {packet} /\ P \in Field /\ P # top
  <2>1. top \in Field \ {packet}
    BY DEF InLoop
  <2>2. \A f \in Field \ {packet} : Parent(f) \in Field /\ Parent(f) # f
    BY Parents, FieldNames, Members DEF Field
  <2>3. PICK f \in Field \ {packet} : f = top
    BY <2>1
  <2>4. QED
    BY <2>2, <2>3
<1>2. \A g \in Field : Sum(g) \in Nat /\ pos[g] \in Nat /\ Lag(g) \in Nat
  BY SumNat
<1>3. d \in Nat /\ Sum(top) = pos[top] + d
  <2>1. PICK f \in Field : f = top
    BY <1>1
  <2>2. Sum(f) \in Nat /\ pos[f] \in Nat /\ Lag(f) \in Nat /\ Lag(f) = Sum(f) - pos[f]
    BY <1>2 DEF Lag
  <2>3. d = Lag(f) /\ Sum(top) = Sum(f) /\ pos[top] = pos[f]
    BY <2>1
  <2>4. QED
    BY <2>2, <2>3
<1>4. /\ pos'[top] = pos[top] + d
      /\ \A e \in Element \ {top} : pos'[e] = pos[e]
  BY <1>1, <1>3, Members DEF Finish, Sum, IInv, TypeOK
<1>5. \A e \in Element : pos[e] \in Nat
  BY PosNat DEF IInv, SumInv
<1>6. \A e \in Element \ {packet} : pos[e] \in Nat /\ pos'[e] \in Nat
  <2>1. pos'[top] \in Nat
    BY <1>1, <1>2, <1>3, <1>4
  <2>2. QED
    BY <1>4, <1>5, <2>1
<1>7. \A e \in Element \ {packet, top} : pos'[e] = pos[e]
  BY <1>4
<1>8. PICK i : i \in DOMAIN Elements(P, kind, frames) /\ top = Elements(P, kind, frames)[i]
  BY CallerPlace
<1> HIDE DEF P, d
<1>9. Total(Elements(P, kind, frames), pos') = Total(Elements(P, kind, frames), pos) + (pos'[top] - pos[top])
  BY <1>1, <1>6, <1>7, <1>8, States, SumsChange
<1>10. \A g \in Field \ {P} : Total(Elements(g, kind, frames), pos') = Total(Elements(g, kind, frames), pos)
  BY <1>1, <1>6, <1>7, <1>8, States, SumsChange
<1>11. pos'[top] - pos[top] = d
  BY <1>1, <1>2, <1>3, <1>4
<1>12. ASSUME NEW g \in Field
       PROVE  /\ Sum(g)' = Sum(g) + (IF g = P THEN d ELSE 0)
              /\ g # packet => Lag(g)' = IF g = top THEN 0 ELSE Lag(g) + (IF g = P THEN d ELSE 0)
  <2>1. Sum(g) = Total(Elements(g, kind, frames), pos) /\ Sum(g)' = Total(Elements(g, kind, frames), pos')
    BY DEF Sum, _elements
  <2>2. Sum(g) \in Nat /\ pos[g] \in Nat /\ Lag(g) \in Nat /\ Lag(g) = Sum(g) - pos[g]
    BY <1>2 DEF Lag
  <2>3. Sum(g)' = Sum(g) + (IF g = P THEN d ELSE 0)
    BY <1>9, <1>10, <1>11, <2>1, <2>2
  <2>4. Lag(g)' = Sum(g)' - pos'[g]
    BY DEF Lag
  <2>5. CASE g = top
    <3>1. pos'[g] = Sum(g) /\ Sum(g)' = Sum(g)
      BY <1>1, <1>3, <1>4, <2>2, <2>3, <2>5
    <3>2. QED
      BY <2>2, <2>3, <2>4, <2>5, <3>1
  <2>6. CASE g # top
    <3>1. g # packet => pos'[g] = pos[g]
      BY <1>4, <2>6, Members
    <3>2. QED
      BY <1>3, <2>2, <2>3, <2>4, <2>6, <3>1
  <2>7. QED
    BY <2>5, <2>6
<1>13. QED
  BY <1>12 DEF P, d

LEMMA FinishConsumption ==
    ASSUME IInv, SumInv, ConsumptionInv, InLoop, Finish,
           UNCHANGED <<rd, kind, frames, first, refused, out>>
    PROVE  ConsumptionInv'
<1> USE FieldNames, Members, Parents
<1>1. top \in Field \ {packet} /\ top' = Parent(top)
  BY DEF InLoop, Finish
<1>2. startByte \in Element /\ startByte # top /\ rd \in Nat
  BY <1>1, HeaderLeaves DEF IInv, TypeOK
<1>3. pos'[startByte] = pos[startByte]
  BY <1>2 DEF Finish, IInv, TypeOK
<1>4. History' /\ SizeIsConsumption'
  BY <1>2, <1>3, HistoryKept DEF ConsumptionInv
<1>5. \A g \in Field : Sum(g) \in Nat /\ Lag(g) \in Nat
  BY SumNat
<1>6. \A g \in Field :
         /\ Sum(g)' = Sum(g) + (IF g = Parent(top) THEN Lag(top) ELSE 0)
         /\ g # packet => Lag(g)' = IF g = top THEN 0
                                    ELSE Lag(g) + (IF g = Parent(top) THEN Lag(top) ELSE 0)
  BY FinishSums
<1>7. ASSUME Returned PROVE Returned'
  <2>1. /\ Open = {top, Parent(top), Parent(Parent(top)), Parent(Parent(Parent(top)))}
        /\ Parent(Parent(Parent(top))) = packet
    BY <1>1, ParentChain DEF Open
  <2>2. Open' = {Parent(top), Parent(Parent(top)), Parent(Parent(Parent(top))),
                 Parent(Parent(Parent(Parent(top))))}
    BY <1>1 DEF Open
  <2>3. Open \subseteq {top} \cup Open' /\ Parent(top) \in Open'
    BY <2>1, <2>2
  <2>4. SUFFICES ASSUME NEW f \in Field \ {packet}, f \notin Open' PROVE Lag(f)' = 0
    BY DEF Returned
  <2>5. CASE f = top
    BY <1>6, <2>5
  <2>6. CASE f # top
    <3>1. Lag(f) = 0 /\ f # Parent(top)
      BY <1>7, <2>3, <2>4, <2>6 DEF Returned
    <3>2. QED
      BY <1>6, <2>6, <3>1
  <2>7. QED
    BY <2>5, <2>6
<1>8. top' \notin FrameInformation
  BY <1>1, ParentChain
<1>9. Consumption' = Consumption
  <2> DEFINE d == Lag(top)
             C == Lag(commonHeader)
             Y == Lag(payload)
             H == Lag(payloadHeader)
             S == Lag(startCode)
             D == Lag(payloadData)
  <2>1. d \in Nat /\ C \in Nat /\ Y \in Nat /\ H \in Nat /\ S \in Nat /\ D \in Nat /\ Sum(packet) \in Nat
    BY <1>1, <1>5
  <2>2. /\ Sum(packet)' = Sum(packet) + (IF packet = Parent(top) THEN d ELSE 0)
        /\ C' = IF commonHeader = top THEN 0 ELSE C + (IF commonHeader = Parent(top) THEN d ELSE 0)
        /\ Y' = IF payload = top THEN 0 ELSE Y + (IF payload = Parent(top) THEN d ELSE 0)
        /\ H' = IF payloadHeader = top THEN 0 ELSE H + (IF payloadHeader = Parent(top) THEN d ELSE 0)
        /\ S' = IF startCode = top THEN 0 ELSE S + (IF startCode = Parent(top) THEN d ELSE 0)
        /\ D' = IF payloadData = top THEN 0 ELSE D + (IF payloadData = Parent(top) THEN d ELSE 0)
    BY <1>6
  <2>3. Consumption = Sum(packet) + C + Y + H + S + D + (IF top \in FrameInformation THEN d ELSE 0)
    BY DEF Consumption
  <2>4. Consumption' = Sum(packet)' + C' + Y' + H' + S' + D' + 0
    BY <1>8 DEF Consumption
  <2>5. /\ top = commonHeader => d = C
        /\ top = payload => d = Y
        /\ top = payloadHeader => d = H
        /\ top = startCode => d = S
        /\ top = payloadData => d = D
    OBVIOUS
  <2> HIDE DEF d, C, Y, H, S, D
  <2>6. CASE top = commonHeader
    BY <2>1, <2>2, <2>3, <2>4, <2>5, <2>6
  <2>7. CASE top = payload
    BY <2>1, <2>2, <2>3, <2>4, <2>5, <2>7
  <2>8. CASE top = payloadHeader
    BY <2>1, <2>2, <2>3, <2>4, <2>5, <2>8
  <2>9. CASE top = startCode
    BY <2>1, <2>2, <2>3, <2>4, <2>5, <2>9
  <2>10. CASE top = payloadData
    BY <2>1, <2>2, <2>3, <2>4, <2>5, <2>10
  <2>11. CASE top \in FrameInformation
    BY <2>1, <2>2, <2>3, <2>4, <2>11
  <2>12. QED
    BY <1>1, <2>6, <2>7, <2>8, <2>9, <2>10, <2>11 DEF Field
<1>10. QED
  BY <1>3, <1>4, <1>7, <1>9 DEF ConsumptionInv

\* The fields behind the common header count nothing of its elements.
LEMMA BehindHeader ==
    ASSUME NEW p, NEW f \in Field \ {packet, commonHeader}, NEW kd \in {"none", "images", "frames"},
           NEW fr \in {NoFrames} \cup 0..MaxFrames,
           \A e \in Element \ HeaderElement : p[e] = 0
    PROVE  f \notin HeaderElement /\ p[f] = 0 /\ Total(Elements(f, kd, fr), p) = 0
<1>1. f[1] \notin {"packet", "commonHeader"} /\ f \notin HeaderElement
  BY DEF HeaderElement, Field, FrameInformation, packet, commonHeader, payload, payloadHeader, startCode,
        payloadData, startByte, payloadType, sequenceNumber, timeStamp
<1>2. p[f] = 0
  BY <1>1, Members
<1>3. /\ Len(Elements(f, kd, fr)) \in Nat
      /\ DOMAIN Elements(f, kd, fr) = 1..Len(Elements(f, kd, fr))
      /\ \A k \in DOMAIN Elements(f, kd, fr) : Elements(f, kd, fr)[k] \in Element \ {packet}
  BY FieldSequence
<1>4. ASSUME NEW k \in DOMAIN Elements(f, kd, fr)
      PROVE  p[Elements(f, kd, fr)[k]] = 0
  <2>1. HolderName[Elements(f, kd, fr)[k][1]] = f[1]
    BY Holders
  <2>2. \A e \in HeaderElement \ {packet} : HolderName[e[1]] \in {"packet", "commonHeader"}
    BY DEF HeaderElement, HolderName, packet, commonHeader, startByte, payloadType, sequenceNumber, timeStamp
  <2>3. Elements(f, kd, fr)[k] \notin HeaderElement
    BY <1>1, <1>3, <2>1, <2>2
  <2>4. QED
    BY <1>3, <2>3
<1>5. Total(Elements(f, kd, fr), p) = 0
  BY <1>3, <1>4, TotalZero
<1>6. QED
  BY <1>1, <1>2, <1>5

LEMMA HeaderFullConsumption ==
    ASSUME IInv, SumInv, ConsumptionInv, HeaderFull
    PROVE  ConsumptionInv'
<1> USE FieldNames, Members, Parents
<1>1. /\ kind = "none" /\ kind' \in {"images", "frames"} /\ top = packet
      /\ UNCHANGED <<frames, first, out, rd>> /\ Call(payload)
      /\ frames \in {NoFrames} \cup 0..MaxFrames
  BY States DEF HeaderFull
<1>2. \A e \in Element \ {packet} : pos'[e] = pos[e]
  BY DEF HeaderFull, IInv, TypeOK
<1>3. startByte \in Element \ {packet} /\ rd \in Nat
  BY HeaderLeaves DEF IInv, TypeOK
<1>4. History' /\ SizeIsConsumption'
  BY <1>1, <1>2, <1>3, HistoryKept DEF ConsumptionInv
<1>5. SUFFICES ASSUME ~refused'
               PROVE  Returned' /\ (pos'[startByte] > 0 => Consumption' = rd' - first' + 1)
  BY <1>4 DEF ConsumptionInv
<1>6. ~refused /\ top' = payload
  BY <1>1, <1>5 DEF Call, Enter
<1>7. \A e \in Element \ HeaderElement : pos[e] = 0
  BY <1>1 DEF SumInv, HeaderOnly
<1>8. \A e \in Element \ HeaderElement : pos'[e] = 0
  BY <1>2, <1>7 DEF HeaderElement
<1>9. ASSUME NEW f \in Field \ {packet, commonHeader} PROVE Lag(f) = 0 /\ Lag(f)' = 0
  <2>1. pos[f] = 0 /\ Total(Elements(f, kind, frames), pos) = 0
    BY <1>1, <1>7, States, BehindHeader
  <2>2. pos'[f] = 0 /\ Total(Elements(f, kind', frames), pos') = 0
    BY <1>1, <1>8, BehindHeader
  <2>3. QED
    BY <1>1, <2>1, <2>2 DEF Lag, Sum, _elements
<1>10. Lag(commonHeader)' = Lag(commonHeader)
  <2>1. _elements(commonHeader)' = _elements(commonHeader)
    BY FieldElements DEF _elements
  <2>2. \A e \in Element \ {packet} : pos[e] \in Nat /\ pos'[e] = pos[e]
    BY <1>2, PosNat DEF IInv, SumInv
  <2>3. Total(_elements(commonHeader), pos') = Total(_elements(commonHeader), pos)
    BY <2>2, PacketAlone
  <2>4. QED
    BY <1>2, <2>1, <2>3 DEF Lag, Sum
<1>11. Sum(packet)' = Sum(packet)
  <2>1. Sum(packet) = pos[commonHeader]
    BY <1>1, PacketSum
  <2>2. pos'[commonHeader] = pos[commonHeader] /\ pos'[payload] = 0 /\ pos[commonHeader] \in Nat
    BY <1>2, <1>8, BehindHeader, PosNat DEF HeaderElement, IInv, SumInv
  <2>3. Total(Elements(packet, kind', frames), pos') = pos'[commonHeader] + pos'[payload]
    BY <1>1, <2>2, PacketTotals
  <2>4. QED
    BY <1>1, <2>1, <2>2, <2>3 DEF Sum, _elements
<1>12. Lag(commonHeader) = 0
  <2>1. Open = {packet}
    BY <1>1 DEF Open
  <2>2. QED
    BY <1>6, <2>1 DEF ConsumptionInv, Returned
<1>13. Returned'
  BY <1>9, <1>10, <1>12 DEF Returned
<1>14. Consumption' = Consumption
  <2>1. /\ Lag(payload)' = Lag(payload) /\ Lag(payloadHeader)' = Lag(payloadHeader)
        /\ Lag(startCode)' = Lag(startCode) /\ Lag(payloadData)' = Lag(payloadData)
    BY <1>9
  <2>2. top \notin FrameInformation /\ top' \notin FrameInformation
    BY <1>1, <1>6
  <2>3. QED
    BY <1>10, <1>11, <2>1, <2>2 DEF Consumption
<1>15. QED
  BY <1>1, <1>2, <1>3, <1>6, <1>13, <1>14 DEF ConsumptionInv

\* The elements of the payload's data.
LEMMA DataElements ==
    ASSUME NEW kd \in {"none", "images", "frames"}, NEW fr \in {NoFrames} \cup 0..MaxFrames,
           NEW k \in DOMAIN Elements(payloadData, kd, fr)
    PROVE  Elements(payloadData, kd, fr)[k] \in DataElement
<1>1. CASE kd = "images"
  BY <1>1, ImageElements DEF DataElement
<1>2. CASE kd # "images" /\ fr = NoFrames
  BY <1>2, FrameElements
<1>3. CASE kd # "images" /\ fr # NoFrames
  <2>1. Elements(payloadData, kd, fr) =
            [j \in 1..(fr + 1) |-> IF j <= fr THEN <<"frameInformation", j>> ELSE <<"frameDataReserved", 0>>]
    BY <1>3, FrameElements
  <2>2. fr \in 0..MaxFrames
    BY <1>3
  <2>3. k \in 1..(fr + 1)
    BY <2>1
  <2>4. k <= fr => <<"frameInformation", k>> \in FrameInformation
    BY <2>2, <2>3, ElementsAssumption DEF FrameInformation
  <2>5. QED
    BY <2>1, <2>3, <2>4 DEF DataElement, FrameElement, frameDataReserved
<1>4. QED
  BY <1>1, <1>2, <1>3

\* SetFrameNumber makes new elements, which count nothing, as the old ones did.
LEMMA FulfilledSums ==
    ASSUME IInv, SumInv, KidFull
    PROVE  /\ \A e \in Element : pos'[e] = pos[e]
           /\ \A f \in Field : Sum(f)' = Sum(f)
<1>1. CASE ~HeaderFulfilled
  <2>1. UNCHANGED <<kind, frames, pos>>
    BY <1>1 DEF KidFull, Fulfilled
  <2>2. QED
    BY <2>1, SumsKept
<1>2. CASE HeaderFulfilled
  <2>1. ~Sized /\ top = payload
    BY <1>2 DEF KidFull, HeaderFulfilled, SumInv, DataUntouched
  <2>2. \A e \in DataElement : pos[e] = 0
    BY <2>1 DEF SumInv, DataUntouched
  <2>3. SizeImage \/ SizeFrames
    BY <1>2 DEF KidFull, Fulfilled
  <2>4. kind' = kind /\ frames' \in {NoFrames} \cup 0..MaxFrames
    BY <2>3, States, Numbers, ElementsAssumption DEF KidFull, SizeImage, SizeFrames, IInv
  <2>5. \A e \in Element : pos'[e] = pos[e]
    <3>1. FrameElement \subseteq DataElement
      BY DEF DataElement
    <3>2. QED
      BY <2>2, <2>3, <3>1 DEF SizeImage, SizeFrames
  <2>6. \A e \in DataElement : pos'[e] = 0
    BY <2>2, <2>5, DataNames
  <2>7. ASSUME NEW f \in Field PROVE Sum(f)' = Sum(f)
    <3>1. CASE f = payloadData
      <4>1. Total(Elements(payloadData, kind, frames), pos) = 0
        <5>1. \A k \in DOMAIN Elements(payloadData, kind, frames) :
                    pos[Elements(payloadData, kind, frames)[k]] = 0
          BY <2>2, DataElements, States
        <5>2. /\ Len(Elements(payloadData, kind, frames)) \in Nat
              /\ DOMAIN Elements(payloadData, kind, frames) = 1..Len(Elements(payloadData, kind, frames))
          BY FieldSequence, States, Members
        <5>3. QED
          BY <5>1, <5>2, TotalZero
      <4>2. Total(Elements(payloadData, kind, frames'), pos') = 0
        <5>1. \A k \in DOMAIN Elements(payloadData, kind, frames') :
                    pos'[Elements(payloadData, kind, frames')[k]] = 0
          BY <2>4, <2>6, DataElements, States
        <5>2. /\ Len(Elements(payloadData, kind, frames')) \in Nat
              /\ DOMAIN Elements(payloadData, kind, frames') = 1..Len(Elements(payloadData, kind, frames'))
          BY <2>4, FieldSequence, States, Members
        <5>3. QED
          BY <5>1, <5>2, TotalZero
      <4>3. QED
        BY <2>4, <3>1, <4>1, <4>2 DEF Sum, _elements
    <3>2. CASE f # payloadData
      <4>1. Elements(f, kind, frames') = _elements(f)
        BY <3>2, FieldElements, PacketElements, FrameInformationElements DEF Field, _elements
      <4>2. \A e \in Element \ {packet} : pos[e] \in Nat /\ pos'[e] = pos[e]
        BY <2>5, PosNat DEF IInv, SumInv
      <4>3. Total(_elements(f), pos') = Total(_elements(f), pos)
        BY <4>2, PacketAlone
      <4>4. QED
        BY <2>4, <4>1, <4>3 DEF Sum, _elements
    <3>3. QED
      BY <3>1, <3>2
  <2>8. QED
    BY <2>5, <2>7
<1>3. QED
  BY <1>1, <1>2

LEMMA KidFullConsumption ==
    ASSUME IInv, SumInv, ConsumptionInv, KidFull
    PROVE  ConsumptionInv'
<1> USE FieldNames, Members
<1>1. UNCHANGED <<kind, rd, first, refused, top, out>>
  BY DEF KidFull
<1>2. /\ \A e \in Element : pos'[e] = pos[e]
      /\ \A f \in Field : Sum(f)' = Sum(f)
  BY FulfilledSums
<1>3. startByte \in Element /\ rd \in Nat
  BY HeaderLeaves DEF IInv, TypeOK
<1>4. History' /\ SizeIsConsumption'
  BY <1>1, <1>2, <1>3, HistoryKept DEF ConsumptionInv
<1>5. \A f \in Field : Lag(f)' = Lag(f)
  BY <1>2 DEF Lag
<1>6. Open' = Open
  BY <1>1 DEF Open
<1>7. Returned => Returned'
  BY <1>5, <1>6 DEF Returned
<1>8. top \in FrameInformation => Lag(top)' = Lag(top)
  <2>1. SUFFICES ASSUME top \in FrameInformation PROVE Lag(top)' = Lag(top)
    OBVIOUS
  <2>2. PICK f \in Field : f = top
    BY <2>1
  <2>3. Lag(f)' = Lag(top)' /\ Lag(f) = Lag(top)
    BY <1>1, <2>2 DEF Lag, Sum, _elements
  <2>4. QED
    BY <1>5, <2>3
<1>9. Consumption' = Consumption
  BY <1>1, <1>2, <1>5, <1>8 DEF Consumption
<1>10. QED
  BY <1>1, <1>2, <1>3, <1>4, <1>7, <1>9 DEF ConsumptionInv

\* The packet is handed on when its payload is full, and not before: what it has
\* counted is never as much as an undefined size.
LEMMA DeliveredFull ==
    ASSUME IInv, SumInv, PacketDelivered
    PROVE  Full(payload)
<1> USE FieldNames, Members
<1>1. SUFFICES ASSUME ~Full(payload) PROVE FALSE
  OBVIOUS
<1>2. kind # "none" /\ PosAfterPayload >= SizeAfterPayload
  BY DEF PacketDelivered, PayloadReturned
<1>3. SizeAfterPayload = UNDEFINED_SIZE
  BY <1>1 DEF SizeAfterPayload, SumInv, Sizes
<1>4. PosAfterPayload = pos[commonHeader] + pos[payload]
  BY <1>2, PacketSum DEF PosAfterPayload, Sum
<1>5. pos[commonHeader] \in Nat /\ pos[commonHeader] <= 8 /\ pos[payload] \in Nat /\ pos[payload] <= size[payload]
  BY Bounds, PosNat DEF IInv, SumInv, Sizes
<1>6. pos[payload] <= 14 + ImageReserved + FrameReserved + DataLimit
  <2>1. CASE Sized
    BY <1>5, <2>1, PayloadSize, Limits, ElementsAssumption
  <2>2. CASE ~Sized
    <3>1. pos[payload] < size[payloadHeader]
      BY <2>2 DEF SumInv, DataUntouched
    <3>2. size[payloadHeader] \in Nat /\ size[payloadHeader] <= 14 + ImageReserved + FrameReserved
      BY <1>2, HeaderSizes, ElementsAssumption DEF SumInv, Sizes
    <3>3. QED
      BY <1>5, <3>1, <3>2, Limits, ElementsAssumption
  <2>3. QED
    BY <2>1, <2>2
<1>7. QED
  BY <1>2, <1>3, <1>4, <1>5, <1>6, Limits, ElementsAssumption

\* What a delivered packet reports and where it lies in the stream.
LEMMA DeliveredPacket ==
    ASSUME IInv, SumInv, RefusalInv, ConsumptionInv, PacketDelivered
    PROVE  /\ SizeAfterPayload \in Nat /\ SizeAfterPayload = rd - first + 1
           /\ \A k \in DOMAIN out : out[k].last < first
<1> USE FieldNames, Members
<1>1. kind # "none" /\ top = packet /\ ret = "true"
  BY DEF PacketDelivered, PayloadReturned
<1>2. ~refused
  BY <1>1 DEF RefusalInv, PayloadStuck
<1>3. SizeAfterPayload = Sum(packet) /\ Sum(packet) \in Nat
  BY DeliveredFull, PacketFull, SumNat DEF PosAfterPayload, Sum
<1>4. Open = {packet}
  BY <1>1, Parents DEF Open
<1>5. \A f \in Field \ {packet} : Lag(f) = 0
  BY <1>2, <1>4 DEF ConsumptionInv, Returned
<1>6. Consumption = Sum(packet)
  BY <1>1, <1>3, <1>5 DEF Consumption
<1>7. pos[startByte] > 0
  <2>1. Full(commonHeader)
    BY <1>1 DEF SumInv, HeaderDone
  <2>2. Full(startByte)
    BY <2>1, Bounds, HeaderPlaces DEF FullFieldComplete
  <2>3. QED
    BY <2>2, StartSizes
<1>8. QED
  BY <1>2, <1>3, <1>6, <1>7 DEF ConsumptionInv, History

LEMMA PacketDeliveredConsumption ==
    ASSUME IInv, SumInv, RefusalInv, ConsumptionInv, PacketDelivered
    PROVE  ConsumptionInv'
<1> DEFINE R == [kind : {"images", "frames"}, image : Seq(Byte), size : Int, first : Nat, last : Nat]
           r == [kind |-> kind, image |-> image, size |-> SizeAfterPayload, first |-> first, last |-> rd]
<1>1. /\ out' = Append(out, r) /\ kind' = "none" /\ frames' = NoFrames /\ rd' = rd
      /\ pos' = [e \in Element |-> 0] /\ first' = 0 /\ refused' = FALSE
  BY DEF PacketDelivered, PayloadReturned, NewPacket
<1>2. SizeAfterPayload \in Nat /\ SizeAfterPayload = rd - first + 1 /\ \A k \in DOMAIN out : out[k].last < first
  BY DeliveredPacket
<1>3. kind \in {"images", "frames"} /\ image \in Seq(Byte) /\ rd \in Nat /\ first \in Nat
  BY States DEF PacketDelivered, PayloadReturned, IInv, TypeOK, ConsumptionInv, History
<1>4. r \in R /\ r.size = r.last - r.first + 1 /\ r.last = rd /\ r.first = first
  BY <1>2, <1>3
<1>5. out \in Seq(R) /\ (\A k \in DOMAIN out : out[k].last <= rd) /\ SizeIsConsumption
  BY DEF ConsumptionInv, History
<1> HIDE DEF R, r
<1>6. /\ out' \in Seq(R) /\ Len(out) \in Nat /\ Len(out') = Len(out) + 1
      /\ DOMAIN out = 1..Len(out) /\ DOMAIN out' = 1..(Len(out) + 1)
      /\ \A k \in 1..Len(out) : out'[k] = out[k]
      /\ out'[Len(out) + 1] = r
  BY <1>1, <1>4, <1>5
<1>7. \A k \in 1..(Len(out) + 1) : k \in 1..Len(out) \/ k = Len(out) + 1
  BY <1>6
<1>8. History'
  <2>1. startByte \in Element
    BY HeaderLeaves
  <2>2. pos'[startByte] = 0
    BY <1>1, <2>1
  <2>3. rd <= rd
    BY <1>3
  <2>4. \A k \in DOMAIN out' : out'[k].last <= rd
    BY <1>4, <1>5, <1>6, <1>7, <2>3
  <2>5. QED
    BY <1>1, <1>6, <2>2, <2>4 DEF History, R
<1>9. SizeIsConsumption'
  <2>1. \A k \in DOMAIN out' : out'[k].size = out'[k].last - out'[k].first + 1
    BY <1>4, <1>5, <1>6, <1>7 DEF SizeIsConsumption
  <2>2. ASSUME NEW k \in 2..Len(out') PROVE out'[k - 1].last < out'[k].first
    <3>1. k - 1 \in 1..Len(out) /\ k \in 1..(Len(out) + 1)
      BY <1>6
    <3>2. CASE k \in 1..Len(out)
      <4>1. k \in 2..Len(out)
        BY <1>6, <3>2
      <4>2. QED
        BY <1>5, <1>6, <3>1, <4>1 DEF SizeIsConsumption
    <3>3. CASE k = Len(out) + 1
      BY <1>2, <1>4, <1>6, <3>1, <3>3
    <3>4. QED
      BY <1>7, <3>1, <3>2, <3>3
  <2>3. QED
    BY <2>1, <2>2 DEF SizeIsConsumption
<1>10. Returned' /\ pos'[startByte] = 0
  <2>1. ASSUME NEW f \in Field PROVE Lag(f)' = 0
    <3>1. pos'[f] = 0
      BY <1>1, Members
    <3>2. Total(Elements(f, "none", NoFrames), pos') = 0
      BY <1>1, NewSums
    <3>3. QED
      BY <1>1, <3>1, <3>2 DEF Lag, Sum, _elements
  <2>2. startByte \in Element
    BY HeaderLeaves
  <2>3. QED
    BY <1>1, <2>1, <2>2 DEF Returned
<1>11. QED
  BY <1>8, <1>9, <1>10 DEF ConsumptionInv

LEMMA InitConsumption == Init => ConsumptionInv
<1>1. SUFFICES ASSUME Init PROVE ConsumptionInv
  OBVIOUS
<1>2. /\ out = << >> /\ first = 0 /\ kind = "none" /\ frames = NoFrames
      /\ pos = [e \in Element |-> 0]
  BY <1>1 DEF Init
<1>3. History /\ SizeIsConsumption
  BY <1>2 DEF History, SizeIsConsumption
<1>4. ASSUME NEW f \in Field PROVE Lag(f) = 0
  <2>1. pos[f] = 0
    BY <1>2, Members
  <2>2. Total(Elements(f, "none", NoFrames), pos) = 0
    BY <1>2, NewSums
  <2>3. QED
    BY <1>2, <2>1, <2>2 DEF Lag, Sum, _elements
<1>5. pos[startByte] = 0
  BY <1>2, HeaderLeaves
<1>6. QED
  BY <1>3, <1>4, <1>5 DEF ConsumptionInv, Returned

LEMMA NextConsumption == IInv /\ SumInv /\ RefusalInv /\ ConsumptionInv /\ [Next]_vars => ConsumptionInv'
<1>1. SUFFICES ASSUME IInv, SumInv, RefusalInv, ConsumptionInv, [Next]_vars PROVE ConsumptionInv'
  OBVIOUS
<1>2. CASE UNCHANGED vars
  BY <1>1, <1>2, StutterConsumption
<1>3. ASSUME NEW n \in wire.cuts, Push(n) PROVE ConsumptionInv'
  BY <1>1, <1>3, PushConsumption
<1>4. CASE FillPacket
  BY <1>1, <1>4, FillPacketConsumption
<1>5. CASE HeaderRefused \/ KidRefused \/ RefuseLeaf
  BY <1>1, <1>5, RefusedConsumption
<1>6. CASE HeaderPartial \/ PacketPartial
  BY <1>1, <1>6, PacketStepConsumption
<1>7. CASE HeaderFull
  BY <1>1, <1>7, HeaderFullConsumption
<1>8. CASE PacketDelivered
  BY <1>1, <1>8, PacketDeliveredConsumption
<1>9. CASE FillLeaf
  BY <1>1, <1>9, FillLeafConsumption
<1>10. CASE CallField
  BY <1>1, <1>10, CallFieldConsumption
<1>11. CASE KidFull
  BY <1>1, <1>11, KidFullConsumption
<1>12. CASE KidPartial
  BY <1>1, <1>12, FinishConsumption DEF KidPartial
<1>13. CASE EndLoop
  BY <1>1, <1>13, FinishConsumption DEF EndLoop
<1>14. QED
  BY <1>1, <1>2, <1>3, <1>4, <1>5, <1>6, <1>7, <1>8, <1>9, <1>10, <1>11, <1>12, <1>13
     DEF Next, Camera, Demuxer

\* The size a delivered packet reports is the number of bytes between its first
\* and its last, whatever buffers they came in, and the packets lie one behind
\* the other (LiveViewPacket::Fill, StreamDemuxer::Push).
THEOREM SizeIsWhatWasTaken == Spec => []SizeIsConsumption
<1>1. Init => IInv /\ SumInv /\ RefusalInv /\ ConsumptionInv
  BY InitInv, InitSum, InitRefusal, InitConsumption
<1>2. IInv /\ SumInv /\ RefusalInv /\ ConsumptionInv /\ [Next]_vars
        => (IInv /\ SumInv /\ RefusalInv /\ ConsumptionInv)'
  BY NextInv, NextSum, NextRefusal, NextConsumption
<1>3. ConsumptionInv => SizeIsConsumption
  BY DEF ConsumptionInv
<1>4. QED
  BY <1>1, <1>2, <1>3, PTL DEF Spec

=============================================================================
