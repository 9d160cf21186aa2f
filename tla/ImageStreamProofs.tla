-------------------------- MODULE ImageStreamProofs --------------------------
(***************************************************************************)
(* Proofs about the data of ImageSource: the queue holds the packets of    *)
(* the stream up to the first with a number that the end of a push cuts,   *)
(* and the demuxer falls out of step for named reasons only, for every set *)
(* of bodies, every way they are cut into pieces, and every threshold.     *)
(***************************************************************************)
EXTENDS ImageSourceProofs, WellFoundedInduction

-----------------------------------------------------------------------------
(* The inductive invariant *)

Buffered ==
    /\ body \in Bodies
    /\ sent \in Nat /\ read \in Nat /\ taken \in Nat /\ dropped \in Nat /\ cur \in Nat
    /\ dropped <= taken /\ cur <= taken /\ taken <= read /\ read <= sent /\ sent <= Len(Bytes)

States ==
    /\ answer \in {"none", "status", "ok", "error"} /\ sync \in {"ok", "torn", "refused", "stuck"}
    /\ pc \in {"connect", "status", "headers", "test", "read", "push", "exit", "done"}

Queue == _queue \in Seq(1..Len(Bytes)) /\ torn \subseteq 1..Len(Bytes)

\* Nothing is read before the header is.
Early ==
    pc \in {"connect", "status", "headers"} =>
        read = 0 /\ taken = 0 /\ dropped = 0 /\ cur = 0 /\ sync = "ok" /\ _queue = << >> /\ torn = {}

\* The packets in the queue lie before the one that is filled, in order.
Sent(e) ==
    /\ e \in (dropped + 1)..taken /\ (cur # 0 => e < cur)
    /\ e \in torn \/ (Bytes[e] = "start" /\ EndOf(e) <= taken)
Entries ==
    /\ \A k \in 1..Len(_queue) : Sent(_queue[k])
    /\ \A k \in 2..Len(_queue) : _queue[k - 1] < _queue[k]

\* Between two packets the demuxer stands where one begins, or it has never been
\* in step, has skipped all it got and delivered nothing.
Aligned(n) == n = Len(Bytes) \/ Bytes[n + 1] = "start"
Missed == _queue = << >> /\ dropped > 0 /\ ~Aligned(dropped) /\ \A i \in (dropped + 1)..taken : Bytes[i] # "start"

\* A packet that has been begun begins with a start byte, and is not complete, or
\* has misread a number; one that is refused never was a packet.
Begins ==
    /\ sync = "ok" /\ cur # 0 => dropped < cur /\ Bytes[cur] = "start" /\ taken < EndOf(cur)
    /\ sync = "torn" => dropped < cur /\ cur # 0 /\ cur \in torn
    /\ sync = "refused" => cur = 0 /\ (torn = {} => Missed)

\* As long as no number was cut: every other packet taken is complete,
Past ==
    sync = "ok" /\ torn = {} =>
        \A i \in (dropped + 1)..taken : Bytes[i] = "start" => i = cur \/ EndOf(i) <= taken

\* the demuxer stands where a packet begins,
InStep == sync = "ok" /\ cur = 0 /\ torn = {} => Aligned(taken) \/ Missed

\* and what is due has been delivered.
AllSent == torn = {} => Due \subseteq Delivered /\ (sync = "ok" \/ LostAtHeader \/ StandsAtRefusal)

StreamInv ==
    /\ Buffered /\ States /\ Queue /\ HeldBounded
    /\ Early /\ Entries /\ Begins /\ Past /\ InStep /\ AllSent

-----------------------------------------------------------------------------
(* Where packets end *)

LEMMA MinOf ==
    ASSUME NEW S \in SUBSET Nat, S # {}
    PROVE  Min(S) \in S /\ \A y \in S : Min(S) <= y
<1>1. PICK x \in S : \A y \in S : ~(<<y, x>> \in OpToRel(<, Nat))
  BY NatLessThanWellFounded, WFMin, Zenon
<1>2. \A y \in S : x <= y
  <2> TAKE y \in S
  <2>1. y \in Nat /\ x \in Nat
    OBVIOUS
  <2>2. ~(y < x)
    BY <1>1, <2>1 DEF OpToRel
  <2> QED
    BY <2>1, <2>2
<1>3. \E x_1 \in S : \A y \in S : x_1 <= y
  BY <1>2
<1> QED
  BY <1>3 DEF Min

LEMMA BodyFacts ==
    ASSUME body \in Bodies
    PROVE  /\ Bytes \in Seq({"start", "ff", "other"}) /\ Len(Bytes) \in Nat /\ Len(Bytes) > 0
           /\ Bytes[1] = "start"
  BY ImageSourceAssumption DEF ImageSourceAssumption, Bytes

LEMMA EndOfFacts ==
    ASSUME body \in Bodies, NEW i \in 1..Len(Bytes)
    PROVE  /\ EndOf(i) \in i..Len(Bytes) /\ Aligned(EndOf(i))
           /\ \A j \in (i + 1)..EndOf(i) : Bytes[j] # "start"
<1> DEFINE ends == {j \in i..Len(Bytes) : j = Len(Bytes) \/ Bytes[j + 1] = "start"}
<1>1. Len(Bytes) \in Nat
  BY BodyFacts
<1>2. ends \in SUBSET Nat /\ Len(Bytes) \in ends
  BY <1>1
<1>3. EndOf(i) = Min(ends)
  BY DEF EndOf
<1> HIDE DEF ends
<1>4. EndOf(i) \in ends /\ \A j \in ends : EndOf(i) <= j
  BY <1>2, <1>3, MinOf
<1> USE DEF ends
<1>5. EndOf(i) \in i..Len(Bytes) /\ Aligned(EndOf(i))
  BY <1>4 DEF Aligned
<1>6. ASSUME NEW j \in (i + 1)..EndOf(i), Bytes[j] = "start" PROVE FALSE
  <2>1. j - 1 \in i..Len(Bytes) /\ (j - 1) + 1 = j /\ j - 1 < EndOf(i)
    BY <1>1, <1>5
  <2>2. j - 1 \in ends
    BY <1>6, <2>1
  <2> QED
    BY <1>1, <1>4, <1>5, <2>1, <2>2
<1> QED
  BY <1>5, <1>6

LEMMA SameEnd ==
    ASSUME UNCHANGED body
    PROVE  Bytes' = Bytes /\ (\A i : EndOf(i)' = EndOf(i)) /\ (\A n : Aligned(n)' <=> Aligned(n))
  BY DEF EndOf, Aligned, Bytes

LEMMA FirstFF ==
    ASSUME Buffered, FF # {}
    PROVE  /\ Min(FF) \in (taken + 1)..read /\ Bytes[Min(FF)] # "other"
           /\ \A j \in (taken + 1)..read : j < Min(FF) => Bytes[j] = "other"
<1>1. FF \in SUBSET Nat /\ taken \in Nat /\ read \in Nat
  BY DEF Buffered, FF, Held
<1>2. Min(FF) \in FF /\ \A j \in FF : Min(FF) <= j
  BY <1>1, MinOf
<1>3. Min(FF) \in (taken + 1)..read /\ Bytes[Min(FF)] # "other"
  BY <1>2 DEF FF, Held
<1>4. ASSUME NEW j \in (taken + 1)..read, j < Min(FF) PROVE Bytes[j] = "other"
  <2>1. Bytes[j] # "other" => j \in FF
    BY DEF FF, Held
  <2>2. j \notin FF
    BY <1>1, <1>2, <1>3, <1>4
  <2> QED
    BY <2>1, <2>2
<1> QED
  BY <1>3, <1>4

-----------------------------------------------------------------------------
(* The packet that is filled *)

\* It begins behind everything that is complete and is the only one that begins
\* in the bytes it takes.
LEMMA FillableFacts ==
    ASSUME StreamInv, sync = "ok", taken < read, NEW i \in 1..Len(Bytes), Fillable(i)
    PROVE  /\ i \in (dropped + 1)..read /\ Bytes[i] = "start" /\ taken < EndOf(i)
           /\ \A j \in (taken + 1)..read : j < i => Bytes[j] = "other"
           /\ cur # 0 => i = cur
           /\ cur = 0 => taken < i
<1>0. /\ dropped \in Nat /\ taken \in Nat /\ read \in Nat /\ cur \in Nat
      /\ dropped <= taken /\ cur <= taken /\ Len(Bytes) \in Nat /\ body \in Bodies /\ Buffered
  BY BodyFacts DEF StreamInv, Buffered
<1>1. EndOf(i) \in i..Len(Bytes)
  BY <1>0, EndOfFacts
<1>2. CASE cur # 0
  <2>1. i = cur
    BY <1>2 DEF Fillable
  <2>2. dropped < cur /\ Bytes[cur] = "start" /\ taken < EndOf(cur)
    BY <1>2 DEF StreamInv, Begins
  <2> QED
    BY <1>0, <1>2, <2>1, <2>2
<1>3. CASE cur = 0
  <2>1. FF # {} /\ i = Min(FF) /\ Bytes[i] = "start"
    BY <1>3 DEF Fillable
  <2>2. i \in (taken + 1)..read /\ \A j \in (taken + 1)..read : j < i => Bytes[j] = "other"
    BY <1>0, <2>1, FirstFF
  <2>3. i \in (dropped + 1)..read /\ taken < i /\ taken < EndOf(i)
    BY <1>0, <1>1, <2>2
  <2> QED
    BY <1>3, <2>1, <2>2, <2>3
<1> QED
  BY <1>2, <1>3

LEMMA Starts ==
    ASSUME StreamInv, sync = "ok", torn = {}, taken < read, NEW i \in 1..Len(Bytes), Fillable(i),
           NEW t \in Nat, taken <= t, t <= read, t <= EndOf(i),
           NEW j \in (dropped + 1)..t, Bytes[j] = "start"
    PROVE  j = i \/ (j <= taken /\ EndOf(j) <= taken /\ j < i)
<1>0. /\ dropped \in Nat /\ taken \in Nat /\ read \in Nat /\ cur \in Nat /\ body \in Bodies
      /\ Len(Bytes) \in Nat /\ read <= Len(Bytes) /\ cur <= taken
  BY BodyFacts DEF StreamInv, Buffered
<1>1. /\ taken < EndOf(i) /\ (\A k \in (taken + 1)..read : k < i => Bytes[k] = "other")
      /\ (cur # 0 => i = cur) /\ (cur = 0 => taken < i)
  BY FillableFacts
<1>2. EndOf(i) \in i..Len(Bytes) /\ \A k \in (i + 1)..EndOf(i) : Bytes[k] # "start"
  BY <1>0, EndOfFacts
<1>3. CASE j <= taken
  <2>1. j \in (dropped + 1)..taken
    BY <1>0, <1>3
  <2>2. j = cur \/ EndOf(j) <= taken
    BY <2>1 DEF StreamInv, Past
  <2>3. CASE j = cur
    BY <1>0, <1>1, <2>1, <2>3
  <2>4. CASE j # cur
    <3>1. j < i
      <4>1. CASE cur = 0
        BY <1>0, <1>1, <1>3, <4>1
      <4>2. CASE cur # 0
        <5>1. j \notin (i + 1)..EndOf(i)
          BY <1>2
        <5> QED
          BY <1>0, <1>1, <1>2, <1>3, <2>4, <4>2, <5>1
      <4> QED
        BY <4>1, <4>2
    <3> QED
      BY <1>3, <2>2, <2>4, <3>1
  <2> QED
    BY <2>3, <2>4
<1>4. CASE j > taken
  <2>1. j \in (taken + 1)..read /\ j <= EndOf(i)
    BY <1>0, <1>2, <1>4
  <2>2. ~(j < i)
    <3>1. "start" # "other"
      OBVIOUS
    <3> QED
      BY <1>1, <2>1, <3>1
  <2>3. ~(j > i)
    <3>1. j > i => j \in (i + 1)..EndOf(i)
      BY <1>2, <2>1
    <3> QED
      BY <1>2, <3>1
  <2> QED
    BY <2>1, <2>2, <2>3
<1>5. j \in Nat
  BY <1>0
<1> QED
  BY <1>0, <1>3, <1>4, <1>5

-----------------------------------------------------------------------------
(* The steps outside of the demuxer *)

LEMMA InitStreamInv == Init => StreamInv
<1> SUFFICES ASSUME Init PROVE StreamInv
  OBVIOUS
<1>0. body \in Bodies /\ Len(Bytes) \in Nat /\ Len(Bytes) > 0 /\ Bytes[1] = "start" /\ Threshold \in Nat
  BY BodyFacts, ImageSourceAssumption DEF Init, ImageSourceAssumption
<1>1. Buffered
  BY <1>0 DEF Init, Buffered
<1>2. States
  BY DEF Init, States
<1>3. Queue
  BY DEF Init, Queue
<1>4. HeldBounded
  BY <1>0 DEF Init, HeldBounded
<1>5. Early /\ Begins /\ Entries
  BY DEF Init, Early, Begins, Entries
<1>6. Past
  BY DEF Init, Past
<1>7. InStep
  BY <1>0 DEF Init, InStep, Aligned
<1>8. AllSent
  BY DEF Init, AllSent, Due
<1> QED
  BY <1>1, <1>2, <1>3, <1>4, <1>5, <1>6, <1>7, <1>8 DEF StreamInv

LEMMA SameDemuxer ==
    ASSUME StreamInv, UNCHANGED <<body, dropped, taken, cur, sync, _queue, torn>>
    PROVE  Queue' /\ Entries' /\ Begins' /\ Past' /\ InStep' /\ AllSent'
<1>0. Bytes' = Bytes /\ (\A i : EndOf(i)' = EndOf(i)) /\ (\A n : Aligned(n)' <=> Aligned(n))
  BY SameEnd
<1>1. Queue'
  BY <1>0 DEF StreamInv, Queue
<1>2. Entries'
  BY <1>0 DEF StreamInv, Entries, Sent
<1>m. Missed' <=> Missed
  BY <1>0 DEF Missed
<1>3. Begins'
  BY <1>0, <1>m DEF StreamInv, Begins
<1>4. Past'
  BY <1>0 DEF StreamInv, Past
<1>5. InStep'
  BY <1>0, <1>m DEF StreamInv, InStep
<1>6. AllSent'
  <2>1. Due' = Due
    BY <1>0 DEF Due
  <2>2. Delivered' = Delivered
    BY DEF Delivered
  <2>3. (LostAtHeader' <=> LostAtHeader) /\ (StandsAtRefusal' <=> StandsAtRefusal)
    BY <1>0 DEF LostAtHeader, StandsAtRefusal
  <2> QED
    BY <2>1, <2>2, <2>3 DEF StreamInv, AllSent
<1> QED
  BY <1>1, <1>2, <1>3, <1>4, <1>5, <1>6

\* The thread goes on, and none of the data changes.
LEMMA PlaceStreamInv ==
    ASSUME StreamInv, UNCHANGED <<camera, buffer, demuxed>>,
           pc' \in {"connect", "status", "headers", "test", "read", "push", "exit", "done"},
           pc' \in {"connect", "status", "headers"} => pc \in {"connect", "status", "headers"},
           pc = "push" => pc' = pc \/ taken = read
    PROVE  StreamInv'
<1>0. UNCHANGED <<body, answer, sent, dropped, read, taken, cur, sync, _queue, torn>>
  BY DEF camera, buffer, demuxed
<1>1. Buffered'
  BY <1>0, SameEnd DEF StreamInv, Buffered
<1>2. States'
  BY <1>0 DEF StreamInv, States
<1>3. HeldBounded'
  <2>1. Threshold \in Nat /\ read \in Nat /\ taken \in Nat
    BY ImageSourceAssumption DEF ImageSourceAssumption, StreamInv, Buffered
  <2> QED
    BY <1>0, <2>1 DEF StreamInv, HeldBounded
<1>4. Early'
  BY <1>0 DEF StreamInv, Early
<1> QED
  BY <1>0, <1>1, <1>2, <1>3, <1>4, SameDemuxer DEF StreamInv

LEMMA CameraStreamInv == ASSUME StreamInv, Camera PROVE StreamInv'
<1>0. /\ UNCHANGED <<body, dropped, read, taken, cur, sync, _queue, torn, pc>>
      /\ sent' = sent \/ (sent' = sent + 1 /\ sent < Len(Bytes))
      /\ answer' \in {answer, "status", "error", "ok"}
  BY DEF Camera, Answer, Send, Close, CameraStep, buffer, demuxed
<1>1. Buffered'
  <2>1. Len(Bytes) \in Nat /\ Bytes' = Bytes
    BY <1>0, BodyFacts, SameEnd DEF StreamInv, Buffered
  <2> QED
    BY <1>0, <2>1 DEF StreamInv, Buffered
<1>2. States'
  BY <1>0 DEF StreamInv, States
<1>3. HeldBounded' /\ Early'
  BY <1>0 DEF StreamInv, HeldBounded, Early
<1> QED
  BY <1>0, <1>1, <1>2, <1>3, SameDemuxer DEF StreamInv

\* The header is read, and n bytes of the body are lost with it.
LEMMA HeadersStreamInv == ASSUME StreamInv, NEW n \in 0..sent, Headers(n) PROVE StreamInv'
<1>0. /\ pc = "headers" /\ pc' = "test" /\ dropped' = n /\ read' = n /\ taken' = n
      /\ UNCHANGED <<body, answer, sent, cur, sync, _queue, torn>>
  BY DEF Headers, At, camera, demuxed
<1>a. cur = 0 /\ sync = "ok" /\ _queue = << >> /\ torn = {}
  BY <1>0 DEF StreamInv, Early
<1>b. n \in Nat /\ Threshold \in Nat /\ Len(Bytes) \in Nat /\ n <= sent /\ sent <= Len(Bytes) /\ Bytes[1] = "start"
  BY BodyFacts, ImageSourceAssumption DEF ImageSourceAssumption, StreamInv, Buffered
<1>c. Bytes' = Bytes /\ (Aligned(n)' <=> Aligned(n))
  BY <1>0, SameEnd
<1>d. (n + 1)..n = {}
  BY <1>b
<1>1. Buffered'
  BY <1>0, <1>a, <1>b, <1>c DEF StreamInv, Buffered
<1>2. States'
  BY <1>0 DEF StreamInv, States
<1>3. Queue'
  BY <1>0, <1>c DEF StreamInv, Queue
<1>4. HeldBounded'
  BY <1>0, <1>b DEF HeldBounded
<1>5. Early' /\ Begins' /\ Entries'
  BY <1>0, <1>a DEF Early, Begins, Entries
<1>6. Past'
  BY <1>0, <1>d DEF Past
<1>7. InStep'
  <2>1. Aligned(n) \/ n > 0
    BY <1>b DEF Aligned
  <2>2. Aligned(n) \/ Missed'
    BY <1>0, <1>a, <1>c, <1>d, <2>1 DEF Missed, Aligned
  <2> QED
    BY <1>0, <1>c, <2>2 DEF InStep, Aligned
<1>8. AllSent'
  <2>1. Due' = {}
    BY <1>0, <1>d DEF Due
  <2> QED
    BY <1>0, <1>a, <2>1 DEF AllSent
<1> QED
  BY <1>1, <1>2, <1>3, <1>4, <1>5, <1>6, <1>7, <1>8 DEF StreamInv

\* A read appends to contentbuf; a push is due when it holds too much.
LEMMA ReadStreamInv == ASSUME StreamInv, NEW n \in 1..(sent - read), Read(n) PROVE StreamInv'
<1>0. /\ pc = "read" /\ (pc' = IF read' - taken > Threshold THEN "push" ELSE "test") /\ read' = read + n
      /\ UNCHANGED <<body, answer, sent, dropped, taken, cur, sync, _queue, torn>>
  BY DEF Read, At, PushDue, camera, demuxed
<1>b. n \in Nat /\ Threshold \in Nat /\ Len(Bytes) \in Nat /\ Bytes' = Bytes
  BY <1>0, BodyFacts, SameEnd, ImageSourceAssumption DEF ImageSourceAssumption, StreamInv, Buffered
<1>1. Buffered'
  BY <1>0, <1>b DEF StreamInv, Buffered
<1>2. States'
  BY <1>0 DEF StreamInv, States
<1>3. HeldBounded'
  BY <1>0, <1>b DEF StreamInv, HeldBounded, Buffered
<1>4. Early'
  BY <1>0 DEF Early
<1> QED
  BY <1>0, <1>1, <1>2, <1>3, <1>4, SameDemuxer DEF StreamInv

-----------------------------------------------------------------------------
(* The steps of the demuxer *)

LEMMA Numbers ==
    ASSUME StreamInv
    PROVE  /\ dropped \in Nat /\ taken \in Nat /\ read \in Nat /\ cur \in Nat /\ Threshold \in Nat
           /\ dropped <= taken /\ taken <= read /\ cur <= taken /\ read <= Len(Bytes)
           /\ Len(Bytes) \in Nat /\ body \in Bodies
  BY BodyFacts, ImageSourceAssumption DEF ImageSourceAssumption, StreamInv, Buffered

\* What every call of Fill leaves alone, and the parts that follow.
LEMMA FillInv ==
    ASSUME StreamInv, pc = "push", UNCHANGED <<camera, pc, dropped, read>>,
           taken' \in Nat, taken <= taken', taken' <= read, cur' \in Nat, cur' <= taken',
           sync' \in {"ok", "torn", "refused", "stuck"}
    PROVE  Buffered' /\ States' /\ HeldBounded' /\ Early'
<1>0. UNCHANGED <<body, answer, sent>> /\ Bytes' = Bytes
  BY SameEnd DEF camera
<1>1. Buffered'
  BY <1>0 DEF StreamInv, Buffered
<1>2. States'
  BY <1>0 DEF StreamInv, States
<1>3. HeldBounded' /\ Early'
  BY DEF HeldBounded, Early
<1> QED
  BY <1>1, <1>2, <1>3

\* A call that delivers nothing.
LEMMA EntriesStay ==
    ASSUME StreamInv, UNCHANGED <<body, dropped, _queue>>, torn \subseteq torn', torn' \subseteq 1..Len(Bytes),
           taken' \in Nat, taken <= taken', cur' = cur \/ (cur' \in Nat /\ taken < cur')
    PROVE  Queue' /\ Entries' /\ Delivered' = Delivered
<1>0. Bytes' = Bytes /\ \A i : EndOf(i)' = EndOf(i)
  BY SameEnd
<1>1. Queue' /\ Delivered' = Delivered
  BY <1>0 DEF StreamInv, Queue, Delivered
<1>2. ASSUME NEW k \in 1..Len(_queue) PROVE Sent(_queue[k])'
  <2> DEFINE e == _queue[k]
  <2>1. e \in (dropped + 1)..taken /\ (cur # 0 => e < cur) /\ (e \in torn \/ (Bytes[e] = "start" /\ EndOf(e) <= taken))
    BY <1>2 DEF StreamInv, Entries, Sent
  <2>2. dropped \in Nat /\ taken \in Nat /\ Len(Bytes) \in Nat /\ e \in 1..Len(Bytes) /\ body \in Bodies
    BY <2>1, Numbers
  <2>3. EndOf(e) \in Nat
    BY <2>2, EndOfFacts
  <2> HIDE DEF e
  <2>4. e \in (dropped + 1)..taken' /\ (cur' # 0 => e < cur')
    BY <2>1, <2>2
  <2>5. e \in torn' \/ (Bytes[e] = "start" /\ EndOf(e) <= taken')
    BY <2>1, <2>2, <2>3
  <2>6. Sent(e)'
    BY <1>0, <2>4, <2>5 DEF Sent, e
  <2> QED
    BY <2>6 DEF e
<1>3. \A k \in 2..Len(_queue') : _queue'[k - 1] < _queue'[k]
  BY DEF StreamInv, Entries
<1> QED
  BY <1>1, <1>2, <1>3 DEF Entries

\* A call that delivers packet i.
LEMMA EntriesGrow ==
    ASSUME StreamInv, UNCHANGED <<body, dropped, torn>>, NEW i \in 1..Len(Bytes), _queue' = Append(_queue, i),
           taken' \in Nat, taken <= taken', cur' = 0, i \in (dropped + 1)..taken', cur = i \/ taken < i,
           i \in torn \/ (Bytes[i] = "start" /\ EndOf(i) <= taken')
    PROVE  Queue' /\ Entries' /\ Delivered' = Delivered \cup {i} /\ \A e \in Delivered : e < i
<1>0. Bytes' = Bytes /\ \A j : EndOf(j)' = EndOf(j)
  BY SameEnd
<1>a. /\ dropped \in Nat /\ taken \in Nat /\ cur \in Nat /\ Len(Bytes) \in Nat /\ body \in Bodies /\ cur <= taken
  BY Numbers
<1>q. _queue \in Seq(1..Len(Bytes)) /\ Len(_queue) \in Nat
  BY DEF StreamInv, Queue
<1>l. /\ Len(_queue') = Len(_queue) + 1 /\ _queue'[Len(_queue) + 1] = i
      /\ \A k \in 1..Len(_queue) : _queue'[k] = _queue[k]
      /\ DOMAIN _queue' = 1..(Len(_queue) + 1) /\ DOMAIN _queue = 1..Len(_queue)
  BY <1>q
<1>1. Queue'
  BY <1>0, <1>q DEF StreamInv, Queue
<1>e. ASSUME NEW k \in 1..Len(_queue)
      PROVE  /\ _queue[k] \in (dropped + 1)..taken /\ _queue[k] < i /\ _queue[k] \in 1..Len(Bytes)
             /\ _queue[k] \in torn \/ (Bytes[_queue[k]] = "start" /\ EndOf(_queue[k]) <= taken)
  <2>1. /\ _queue[k] \in (dropped + 1)..taken /\ (cur # 0 => _queue[k] < cur)
        /\ _queue[k] \in torn \/ (Bytes[_queue[k]] = "start" /\ EndOf(_queue[k]) <= taken)
    BY <1>e DEF StreamInv, Entries, Sent
  <2>2. _queue[k] \in 1..Len(Bytes)
    BY <1>q
  <2> QED
    BY <1>a, <2>1, <2>2
<1>2. ASSUME NEW k \in 1..Len(_queue') PROVE Sent(_queue[k])'
  <2>1. PICK e : e = _queue'[k]
    OBVIOUS
  <2>2. /\ e \in (dropped + 1)..taken' /\ (e \in torn \/ (Bytes[e] = "start" /\ EndOf(e) <= taken'))
    <3>1. CASE k = Len(_queue) + 1
      BY <1>l, <2>1, <3>1
    <3>2. CASE k # Len(_queue) + 1
      <4>1. k \in 1..Len(_queue) /\ e = _queue[k]
        BY <1>l, <1>q, <1>2, <2>1, <3>2
      <4>2. /\ e \in (dropped + 1)..taken /\ e \in 1..Len(Bytes)
            /\ e \in torn \/ (Bytes[e] = "start" /\ EndOf(e) <= taken)
        BY <1>e, <4>1
      <4>3. EndOf(e) \in Nat
        BY <1>a, <4>2, EndOfFacts
      <4> QED
        BY <1>a, <4>2, <4>3
    <3> QED
      BY <3>1, <3>2
  <2>3. EndOf(_queue[k])' = EndOf(e) /\ Bytes'[e] = Bytes[e]
    BY <2>1 DEF EndOf, Bytes
  <2> QED
    BY <2>1, <2>2, <2>3 DEF Sent
<1>3. ASSUME NEW k \in 2..Len(_queue') PROVE _queue'[k - 1] < _queue'[k]
  <2>1. CASE k = Len(_queue) + 1
    <3>0. k \in Nat /\ k - 1 = Len(_queue) /\ k >= 2
      BY <1>q, <1>l, <1>3, <2>1
    <3>1. k - 1 \in 1..Len(_queue) /\ _queue'[k - 1] = _queue[k - 1]
      BY <1>q, <1>l, <3>0
    <3> QED
      BY <1>e, <1>l, <2>1, <3>1
  <2>2. CASE k # Len(_queue) + 1
    <3>1. k \in 2..Len(_queue) /\ k - 1 \in 1..Len(_queue) /\ k \in 1..Len(_queue)
      BY <1>q, <1>l, <1>3, <2>2
    <3>2. _queue'[k - 1] = _queue[k - 1] /\ _queue'[k] = _queue[k]
      BY <1>l, <3>1
    <3> QED
      BY <3>1, <3>2 DEF StreamInv, Entries
  <2> QED
    BY <2>1, <2>2
<1>4. Delivered' = Delivered \cup {i}
  <2>1. \A k \in DOMAIN _queue' : k \in DOMAIN _queue \/ k = Len(_queue) + 1
    BY <1>q, <1>l
  <2>2. DOMAIN _queue \subseteq DOMAIN _queue' /\ Len(_queue) + 1 \in DOMAIN _queue'
    BY <1>q, <1>l
  <2> QED
    BY <1>l, <2>1, <2>2 DEF Delivered
<1>5. \A e \in Delivered : e < i
  BY <1>l, <1>e DEF Delivered
<1>6. Entries'
  BY <1>2, <1>3 DEF Entries
<1> QED
  BY <1>1, <1>4, <1>5, <1>6

\* Before a number is cut, nothing new is due until the packet that is filled is.
LEMMA NothingNewDue ==
    ASSUME StreamInv, sync = "ok", torn = {}, taken < read, NEW i \in 1..Len(Bytes), Fillable(i),
           UNCHANGED <<body, dropped>>, taken' \in Nat, taken <= taken', taken' <= read, taken' <= EndOf(i)
    PROVE  /\ Due' \subseteq Due \cup {i} /\ (cur' = i => Due' \subseteq Due)
           /\ \A j \in (dropped + 1)..taken' : Bytes[j] = "start" => j = i \/ EndOf(j) <= taken'
<1>0. Bytes' = Bytes /\ \A j : EndOf(j)' = EndOf(j)
  BY SameEnd
<1>a. dropped \in Nat /\ taken \in Nat /\ read <= Len(Bytes) /\ Len(Bytes) \in Nat /\ body \in Bodies /\ cur \in Nat
  BY Numbers
<1>1. \A j \in (dropped + 1)..taken' : Bytes[j] = "start" => j = i \/ (j <= taken /\ EndOf(j) <= taken /\ j < i)
  BY Starts
<1>2. ASSUME NEW j \in Due', j # i PROVE j \in Due
  <2>1. j \in (dropped + 1)..taken' /\ Bytes[j] = "start"
    BY <1>0 DEF Due
  <2>2. j <= taken /\ EndOf(j) <= taken /\ j < i
    BY <1>1, <1>2, <2>1
  <2>3. j # cur
    BY <1>2, FillableFacts, <2>1, <2>2, <1>a
  <2> QED
    BY <1>a, <2>1, <2>2, <2>3 DEF Due
<1>3. cur' = i => i \notin Due'
  BY DEF Due
<1>4. ASSUME NEW j \in (dropped + 1)..taken', Bytes[j] = "start", j # i PROVE EndOf(j) <= taken'
  <2>1. EndOf(j) <= taken /\ j \in 1..Len(Bytes)
    BY <1>a, <1>1, <1>4
  <2>2. EndOf(j) \in Nat
    BY <1>a, <2>1, EndOfFacts
  <2> QED
    BY <1>a, <2>1, <2>2
<1> QED
  BY <1>2, <1>3, <1>4

\* A packet that is begun, or goes on, and may be cut in a number.
LEMMA FillPartialInv == ASSUME StreamInv, NEW i \in 1..Len(Bytes), FillPartial(i) PROVE StreamInv'
<1>0. /\ pc = "push" /\ sync = "ok" /\ Fillable(i) /\ ~Complete(i) /\ taken < read
      /\ cur' = i /\ taken' = read
      /\ \/ sync' = "torn" /\ torn' = torn \cup {i}
         \/ sync' = "ok" /\ torn' = torn
      /\ UNCHANGED <<camera, body, pc, dropped, read, _queue>>
  BY DEF FillPartial, Filling, At, camera
<1>1. i \in (dropped + 1)..read /\ Bytes[i] = "start" /\ taken < EndOf(i) /\ (cur = i \/ taken < i)
  BY <1>0, FillableFacts
<1>2. /\ dropped \in Nat /\ taken \in Nat /\ read \in Nat /\ body \in Bodies /\ read <= Len(Bytes) /\ Len(Bytes) \in Nat
      /\ dropped <= taken
  BY Numbers
<1>3. EndOf(i) \in i..Len(Bytes) /\ read < EndOf(i)
  <2>1. EndOf(i) \in i..Len(Bytes) /\ ~(EndOf(i) <= read)
    BY <1>0, <1>2, EndOfFacts DEF Complete
  <2> QED
    BY <1>2, <2>1
<1>4. Buffered' /\ States' /\ HeldBounded' /\ Early'
  <2>1. taken <= read /\ cur' <= read /\ cur' \in Nat
    BY <1>0, <1>1, <1>2
  <2> QED
    BY <1>0, <1>2, <2>1, FillInv
<1>5. Queue' /\ Entries' /\ Delivered' = Delivered
  <2>1. torn \subseteq torn' /\ torn' \subseteq 1..Len(Bytes)
    BY <1>0 DEF StreamInv, Queue
  <2>2. taken <= read /\ i \in Nat
    BY <1>0, <1>1, <1>2
  <2> QED
    BY <1>0, <1>1, <1>2, <2>1, <2>2, EntriesStay
<1>6. Begins'
  <2>1. dropped < i /\ i # 0
    BY <1>1, <1>2
  <2> QED
    BY <1>0, <1>1, <1>3, <2>1, SameEnd DEF Begins
<1>7. InStep'
  BY <1>0, <1>1, <1>2 DEF InStep
<1>8. Past' /\ AllSent'
  <2>1. CASE torn' # {}
    BY <2>1 DEF Past, AllSent
  <2>2. CASE torn' = {}
    <3>1. torn = {} /\ sync' = "ok" /\ taken' <= EndOf(i) /\ taken <= taken'
      BY <1>0, <1>2, <1>3, <2>2
    <3>2. /\ Due' \subseteq Due
          /\ \A j \in (dropped + 1)..taken' : Bytes[j] = "start" => j = i \/ EndOf(j) <= taken'
      BY <1>0, <1>2, <3>1, NothingNewDue
    <3>3. Past'
      BY <1>0, <3>2, SameEnd DEF Past
    <3>4. AllSent'
      BY <1>5, <3>1, <3>2 DEF StreamInv, AllSent
    <3> QED
      BY <3>3, <3>4
  <2> QED
    BY <2>1, <2>2
<1> QED
  BY <1>4, <1>5, <1>6, <1>7, <1>8 DEF StreamInv

\* A packet that refuses a byte takes what is before it.
LEMMA FillStuckInv == ASSUME StreamInv, NEW i \in 1..Len(Bytes), FillStuck(i) PROVE StreamInv'
<1>0. /\ pc = "push" /\ sync = "ok" /\ Fillable(i) /\ taken < read /\ cur' = i /\ sync' = "stuck"
      /\ UNCHANGED <<camera, body, pc, dropped, read, _queue, torn>>
  BY DEF FillStuck, Filling, At, camera
<1>p. PICK p \in Refusals(i) : taken' = p - 1
  BY DEF FillStuck
<1>1. i \in (dropped + 1)..read /\ Bytes[i] = "start" /\ taken < EndOf(i) /\ (cur = i \/ taken < i)
  BY <1>0, FillableFacts
<1>2. /\ dropped \in Nat /\ taken \in Nat /\ read \in Nat /\ body \in Bodies /\ read <= Len(Bytes) /\ Len(Bytes) \in Nat
      /\ dropped <= taken /\ EndOf(i) \in Nat
  BY Numbers, EndOfFacts
<1>3. /\ p \in (taken + 1)..read /\ p > i /\ p <= EndOf(i) + 1
      /\ p \in body.refused \cup body.status \/ (p = EndOf(i) + 1 /\ i \in body.empty)
  <2>1. p \in Held /\ p > i
    BY DEF Refusals
  <2>2. \/ p <= EndOf(i) /\ (p \in body.refused \/ p \in body.status)
        \/ p = EndOf(i) + 1 /\ i \in body.empty
    BY DEF Refusals
  <2> QED
    BY <1>2, <2>1, <2>2 DEF Held
<1>4. taken' \in Nat /\ taken <= taken' /\ taken' <= read /\ taken' <= EndOf(i) /\ i <= taken' /\ i \in Nat /\ i # 0
  BY <1>1, <1>2, <1>3, <1>p
<1>5. Buffered' /\ States' /\ HeldBounded' /\ Early'
  BY <1>0, <1>4, FillInv
<1>6. Queue' /\ Entries' /\ Delivered' = Delivered
  <2>1. torn \subseteq torn' /\ torn' \subseteq 1..Len(Bytes)
    BY <1>0 DEF StreamInv, Queue
  <2> QED
    BY <1>0, <1>1, <1>4, <2>1, EntriesStay
<1>7. Begins' /\ Past' /\ InStep'
  BY <1>0 DEF Begins, Past, InStep
<1>8. AllSent'
  <2> SUFFICES ASSUME torn = {} PROVE Due' \subseteq Delivered /\ StandsAtRefusal'
    BY <1>0, <1>6 DEF AllSent
  <2>1. Due' \subseteq Due
    BY <1>0, <1>4, NothingNewDue
  <2>2. StandsAtRefusal'
    <3>1. taken' + 1 = p /\ (p = EndOf(i) + 1 => taken' = EndOf(i))
      BY <1>2, <1>3, <1>p
    <3> QED
      BY <1>0, <1>3, <1>4, <3>1, SameEnd DEF StandsAtRefusal
  <2> QED
    BY <2>1, <2>2 DEF StreamInv, AllSent
<1> QED
  BY <1>5, <1>6, <1>7, <1>8 DEF StreamInv

\* A packet with a number cut takes any bytes, and nothing is claimed from there on
\* but that it is one of those cut.
LEMMA FillTornInv == ASSUME StreamInv, FillTorn PROVE StreamInv'
<1>0. /\ pc = "push" /\ sync = "torn" /\ taken < read
      /\ UNCHANGED <<camera, body, pc, dropped, read, torn>>
      /\ \/ taken' = read /\ UNCHANGED <<cur, sync, _queue>>
         \/ taken' \in Held /\ _queue' = Append(_queue, cur) /\ cur' = 0 /\ sync' = "ok"
         \/ taken' \in taken..(read - 1) /\ sync' = "stuck" /\ UNCHANGED <<cur, _queue>>
  BY DEF FillTorn, Filling, At, Deliver, NewPacket, camera
<1>1. dropped < cur /\ cur # 0 /\ cur \in torn /\ torn \subseteq 1..Len(Bytes)
  BY <1>0 DEF StreamInv, Begins, Queue
<1>2. /\ dropped \in Nat /\ taken \in Nat /\ read \in Nat /\ cur \in Nat /\ cur <= taken
  BY Numbers
<1>3. taken' \in Nat /\ taken <= taken' /\ taken' <= read /\ cur' \in Nat /\ cur' <= taken'
  BY <1>0, <1>2 DEF Held
<1>4. sync' \in {"ok", "torn", "stuck"} /\ (sync' = "torn" => cur' = cur) /\ (sync' = "ok" => cur' = 0)
  BY <1>0
<1>5. Buffered' /\ States' /\ HeldBounded' /\ Early'
  BY <1>0, <1>3, <1>4, FillInv
<1>6. Queue' /\ Entries'
  <2>1. CASE UNCHANGED <<cur, _queue>>
    BY <1>0, <1>1, <1>3, <2>1, EntriesStay
  <2>2. CASE _queue' = Append(_queue, cur) /\ cur' = 0
    <3>1. cur \in 1..Len(Bytes) /\ cur \in (dropped + 1)..taken'
      BY <1>1, <1>2, <1>3
    <3> QED
      BY <1>0, <1>1, <1>3, <2>2, <3>1, EntriesGrow
  <2> QED
    BY <1>0, <2>1, <2>2
<1>7. Begins'
  BY <1>0, <1>1, <1>4 DEF Begins
<1>8. torn' # {}
  BY <1>0, <1>1
<1>9. Past' /\ InStep' /\ AllSent'
  BY <1>8 DEF Past, InStep, AllSent
<1> QED
  BY <1>5, <1>6, <1>7, <1>9 DEF StreamInv

\* A packet is complete, and goes to the end of the queue.
LEMMA FillFullInv == ASSUME StreamInv, NEW i \in 1..Len(Bytes), FillFull(i) PROVE StreamInv'
<1> DEFINE t == EndOf(i)
<1>0. /\ pc = "push" /\ sync = "ok" /\ sync' = sync /\ Fillable(i) /\ Complete(i) /\ taken < read
      /\ cur' = 0 /\ taken' = t /\ _queue' = Append(_queue, i)
      /\ UNCHANGED <<camera, body, pc, dropped, read, torn>>
  BY DEF FillFull, Filling, At, Deliver, NewPacket, camera
<1>1. i \in (dropped + 1)..read /\ Bytes[i] = "start" /\ taken < t /\ (cur = i \/ taken < i)
  BY <1>0, FillableFacts
<1>2. /\ dropped \in Nat /\ taken \in Nat /\ read \in Nat /\ body \in Bodies /\ read <= Len(Bytes) /\ Len(Bytes) \in Nat
      /\ dropped <= taken
  BY Numbers
<1>3. t \in i..Len(Bytes) /\ t <= read /\ t \in Nat /\ Aligned(t) /\ taken <= t /\ i \in (dropped + 1)..t
  <2>1. t \in i..Len(Bytes) /\ Aligned(t)
    BY <1>2, EndOfFacts
  <2>2. t <= read
    BY <1>0 DEF Complete
  <2> QED
    BY <1>1, <1>2, <2>1, <2>2
<1>4. t <= EndOf(i) /\ EndOf(i) <= t
  BY <1>3
<1> HIDE DEF t
<1>5. Buffered' /\ States' /\ HeldBounded' /\ Early'
  <2>1. t \in Nat /\ taken <= t /\ t <= read /\ cur' \in Nat /\ cur' <= t
    BY <1>0, <1>3
  <2> QED
    BY <1>0, <2>1, FillInv
<1>6. Queue' /\ Entries' /\ Delivered' = Delivered \cup {i}
  BY <1>0, <1>1, <1>3, <1>4, EntriesGrow
<1>7. Begins'
  BY <1>0 DEF Begins
<1>8. InStep'
  <2>1. Bytes' = Bytes
    BY <1>0, SameEnd
  <2>2. taken' = Len(Bytes') \/ Bytes'[taken' + 1] = "start"
    BY <1>0, <1>3, <2>1 DEF Aligned
  <2> QED
    BY <2>2 DEF InStep, Aligned
<1>9. Past' /\ AllSent'
  <2>1. CASE torn # {}
    BY <1>0, <2>1 DEF Past, AllSent
  <2>2. CASE torn = {}
    <3>1. /\ Due' \subseteq Due \cup {i}
          /\ \A j \in (dropped + 1)..taken' : Bytes[j] = "start" => j = i \/ EndOf(j) <= taken'
      BY <1>0, <1>3, <1>4, <2>2, NothingNewDue
    <3>2. Past'
      BY <1>0, <1>4, <3>1, SameEnd DEF Past
    <3>3. Due \subseteq Delivered
      BY <2>2 DEF StreamInv, AllSent
    <3>4. AllSent'
      BY <1>0, <1>6, <3>1, <3>3 DEF AllSent
    <3> QED
      BY <3>2, <3>4
  <2> QED
    BY <2>1, <2>2
<1> QED
  BY <1>5, <1>6, <1>7, <1>8, <1>9 DEF StreamInv

\* Out of step nothing becomes due: no start byte is skipped.
LEMMA NoneDue ==
    ASSUME Missed', UNCHANGED <<body, dropped>>
    PROVE  Due' = {}
  BY SameEnd DEF Missed, Due

\* Nothing was delivered then, for what came with the header.
LEMMA MissedIsLost ==
    ASSUME Missed', Buffered', UNCHANGED body
    PROVE  LostAtHeader'
<1>1. body' \in Bodies /\ dropped' \in Nat /\ dropped' <= Len(Bytes') /\ Len(Bytes') \in Nat
  <2>1. Bytes' = Bytes /\ Len(Bytes) \in Nat
    BY SameEnd, BodyFacts DEF Buffered
  <2> QED
    BY <2>1 DEF Buffered
<1> QED
  BY <1>1 DEF Missed, LostAtHeader, Aligned

\* Up to the first FF there is no start byte.
LEMMA StillMissed ==
    ASSUME StreamInv, Missed, UNCHANGED <<body, dropped, _queue>>,
           taken' \in taken..read, \A j \in (taken + 1)..taken' : Bytes[j] # "start"
    PROVE  Missed'
<1>0. Bytes' = Bytes /\ (Aligned(dropped)' <=> Aligned(dropped))
  BY SameEnd
<1>1. dropped \in Nat /\ taken \in Nat /\ read \in Nat /\ dropped <= taken
  BY Numbers
<1>2. ASSUME NEW j \in (dropped + 1)..taken' PROVE Bytes[j] # "start"
  <2>1. j \in (dropped + 1)..taken \/ j \in (taken + 1)..taken'
    BY <1>1
  <2> QED
    BY <2>1 DEF Missed
<1>3. ~Aligned(dropped)'
  BY <1>0 DEF Missed
<1> QED
  BY <1>0, <1>2, <1>3 DEF Missed, Aligned

\* SkipUntil drops what there is.
LEMMA FillSkipsInv == ASSUME StreamInv, FillSkips PROVE StreamInv'
<1>0. /\ pc = "push" /\ sync = "ok" /\ cur = 0 /\ FF = {} /\ taken < read /\ taken' = read
      /\ UNCHANGED <<camera, body, pc, dropped, read, cur, sync, _queue, torn>>
  BY DEF FillSkips, Filling, At, camera, demuxed
<1>2. /\ dropped \in Nat /\ taken \in Nat /\ read \in Nat /\ body \in Bodies /\ read <= Len(Bytes) /\ Len(Bytes) \in Nat
      /\ dropped <= taken
  BY Numbers
<1>3. \A j \in (taken + 1)..read : Bytes[j] = "other"
  BY <1>0 DEF FF, Held
<1>4. Buffered' /\ States' /\ HeldBounded' /\ Early'
  <2>1. cur \in Nat /\ cur <= read /\ taken <= read
    BY <1>0, <1>2
  <2> QED
    BY <1>0, <1>2, <2>1, FillInv
<1>5. Queue' /\ Entries' /\ Delivered' = Delivered
  <2>1. torn \subseteq torn' /\ torn' \subseteq 1..Len(Bytes) /\ taken <= read
    BY <1>0, <1>2 DEF StreamInv, Queue
  <2> QED
    BY <1>0, <1>2, <2>1, EntriesStay
<1>6. Begins'
  BY <1>0 DEF Begins
<1>7. torn = {} => Missed'
  <2> SUFFICES ASSUME torn = {} PROVE Missed'
    OBVIOUS
  <2>1. taken + 1 \in (taken + 1)..read /\ taken # Len(Bytes)
    BY <1>0, <1>2
  <2>2. ~Aligned(taken)
    BY <1>3, <2>1 DEF Aligned
  <2>3. Missed
    BY <1>0, <2>2 DEF StreamInv, InStep
  <2>4. taken' \in taken..read
    BY <1>0, <1>2
  <2> QED
    BY <1>0, <1>3, <2>3, <2>4, StillMissed
<1>8. Past' /\ InStep' /\ AllSent'
  <2>1. CASE torn # {}
    BY <1>0, <2>1 DEF Past, InStep, AllSent
  <2>2. CASE torn = {}
    <3>1. Missed' /\ Due' = {}
      BY <1>0, <1>7, <2>2, NoneDue
    <3> QED
      BY <1>0, <3>1 DEF Past, InStep, AllSent, Missed
  <2> QED
    BY <2>1, <2>2
<1> QED
  BY <1>4, <1>5, <1>6, <1>8 DEF StreamInv

\* An FF that begins no packet is taken.
LEMMA FillRefusedInv == ASSUME StreamInv, FillRefused PROVE StreamInv'
<1>0. /\ pc = "push" /\ sync = "ok" /\ cur = 0 /\ FF # {} /\ Bytes[Min(FF)] = "ff" /\ taken < read
      /\ taken' = Min(FF) /\ sync' \in {"refused", "stuck"}
      /\ UNCHANGED <<camera, body, pc, dropped, read, cur, _queue, torn>>
  BY DEF FillRefused, Filling, At, camera
<1>1. /\ Min(FF) \in (taken + 1)..read
      /\ \A j \in (taken + 1)..read : j < Min(FF) => Bytes[j] = "other"
  BY <1>0, FirstFF DEF StreamInv
<1>2. taken \in Nat /\ read \in Nat /\ read <= Len(Bytes) /\ Len(Bytes) \in Nat /\ dropped \in Nat
  BY Numbers
<1>3. taken' \in taken..read /\ taken' \in Nat /\ taken <= taken' /\ taken' <= read
  BY <1>0, <1>1, <1>2
<1>4. Buffered' /\ States' /\ HeldBounded' /\ Early'
  <2>1. cur' \in Nat /\ cur' <= taken'
    BY <1>0, <1>3
  <2> QED
    BY <1>0, <1>3, <2>1, FillInv
<1>5. Queue' /\ Entries' /\ Delivered' = Delivered
  <2>1. torn \subseteq torn' /\ torn' \subseteq 1..Len(Bytes)
    BY <1>0 DEF StreamInv, Queue
  <2> QED
    BY <1>0, <1>3, <2>1, EntriesStay
<1>6. torn = {} => Missed'
  <2> SUFFICES ASSUME torn = {} PROVE Missed'
    OBVIOUS
  <2>1. \A j \in (taken + 1)..taken' : Bytes[j] # "start"
    <3> SUFFICES ASSUME NEW j \in (taken + 1)..taken' PROVE Bytes[j] # "start"
      OBVIOUS
    <3>1. j = Min(FF) \/ (j \in (taken + 1)..read /\ j < Min(FF))
      BY <1>0, <1>1, <1>2
    <3> QED
      BY <1>0, <1>1, <3>1
  <2>2. taken + 1 \in (taken + 1)..taken' /\ taken # Len(Bytes)
    BY <1>0, <1>1, <1>2
  <2>3. ~Aligned(taken)
    BY <2>1, <2>2 DEF Aligned
  <2>4. Missed
    BY <1>0, <2>3 DEF StreamInv, InStep
  <2> QED
    BY <1>0, <1>3, <2>1, <2>4, StillMissed
<1>7. Begins' /\ Past' /\ InStep'
  BY <1>0, <1>6 DEF Begins, Past, InStep
<1>8. AllSent'
  BY <1>0, <1>2, <1>6, NoneDue, MissedIsLost, <1>4 DEF AllSent
<1> QED
  BY <1>4, <1>5, <1>7, <1>8 DEF StreamInv

\* The packet that has refused a byte skips once more.
LEMMA FillSkipsAgainInv == ASSUME StreamInv, FillSkipsAgain PROVE StreamInv'
<1>0. /\ pc = "push" /\ sync = "refused" /\ taken < read
      /\ taken' = (IF FF = {} THEN read ELSE Min(FF) - 1) /\ sync' = "stuck"
      /\ UNCHANGED <<camera, body, pc, dropped, read, cur, _queue, torn>>
  BY DEF FillSkipsAgain, Filling, At, camera
<1>1. FF # {} => /\ Min(FF) \in (taken + 1)..read
                 /\ \A j \in (taken + 1)..read : j < Min(FF) => Bytes[j] = "other"
  BY FirstFF DEF StreamInv
<1>2. taken \in Nat /\ read \in Nat /\ Len(Bytes) \in Nat /\ taken <= read
  BY Numbers
<1>3. taken' \in taken..read /\ taken' \in Nat /\ taken <= taken' /\ taken' <= read
  BY <1>0, <1>1, <1>2
<1>c. cur = 0 /\ (torn = {} => Missed)
  BY <1>0 DEF StreamInv, Begins
<1>4. Buffered' /\ States' /\ HeldBounded' /\ Early'
  <2>1. cur' \in Nat /\ cur' <= taken'
    BY <1>0, <1>3, <1>c
  <2> QED
    BY <1>0, <1>3, <2>1, FillInv
<1>5. Queue' /\ Entries' /\ Delivered' = Delivered
  <2>1. torn \subseteq torn' /\ torn' \subseteq 1..Len(Bytes)
    BY <1>0 DEF StreamInv, Queue
  <2> QED
    BY <1>0, <1>3, <2>1, EntriesStay
<1>6. torn = {} => Missed'
  <2>1. \A j \in (taken + 1)..taken' : Bytes[j] # "start"
    <3> SUFFICES ASSUME NEW j \in (taken + 1)..taken' PROVE Bytes[j] # "start"
      OBVIOUS
    <3>1. CASE FF = {}
      <4>1. j \in Held
        BY <1>0, <3>1 DEF Held
      <4> QED
        BY <3>1, <4>1 DEF FF
    <3>2. CASE FF # {}
      <4>1. j \in (taken + 1)..read /\ j < Min(FF)
        BY <1>0, <1>1, <1>2, <3>2
      <4> QED
        BY <1>1, <3>2, <4>1
    <3> QED
      BY <3>1, <3>2
  <2> QED
    BY <1>0, <1>3, <1>c, <2>1, StillMissed
<1>7. Begins' /\ Past' /\ InStep'
  BY <1>0 DEF Begins, Past, InStep
<1>8. AllSent'
  BY <1>0, <1>6, NoneDue, MissedIsLost, <1>4 DEF AllSent
<1> QED
  BY <1>4, <1>5, <1>7, <1>8 DEF StreamInv

-----------------------------------------------------------------------------
(* Every step, and what follows *)

\* The thread, the owner and the camera touch no data.
LEMMA ControlStreamInv ==
    ASSUME StreamInv,
           \/ Owner \/ RunNothing("demuxer") \/ RunNothing("presenter") \/ UNCHANGED vars
           \/ Connect \/ Throw \/ Status \/ Test \/ ReadEnds \/ Exit \/ ThreadEnds \/ PushReturns
    PROVE  StreamInv'
<1>0. pc \in {"connect", "status", "headers", "test", "read", "push", "exit", "done"}
  BY DEF StreamInv, States
<1>1. CASE Owner \/ RunNothing("demuxer") \/ RunNothing("presenter") \/ UNCHANGED vars \/ ThreadEnds
  <2>1. UNCHANGED <<camera, buffer, demuxed, pc>>
    BY <1>1 DEF Owner, StartRunning, StartThread, StartTerminates, StartAgain, Destroy, Stop, Join,
        RunNothing, ThreadEnds, vars
  <2> QED
    BY <1>0, <2>1, PlaceStreamInv
<1>2. CASE Connect \/ Throw \/ Status \/ Test \/ ReadEnds \/ Exit \/ PushReturns
  <2>1. /\ UNCHANGED <<camera, buffer, demuxed>> /\ pc' \in {"status", "headers", "test", "read", "exit", "done"}
        /\ pc' \in {"status", "headers"} => pc \in {"connect", "status"}
        /\ pc = "push" => taken = read
    BY <1>2 DEF Connect, Throw, Status, Test, ReadEnds, Exit, PushReturns, Goto, At
  <2> QED
    BY <2>1, PlaceStreamInv
<1> QED
  BY <1>1, <1>2

LEMMA NextStreamInv == StreamInv /\ [Next]_vars => StreamInv'
<1> SUFFICES ASSUME StreamInv, [Next]_vars PROVE StreamInv'
  OBVIOUS
<1>1. CASE Demux
  BY <1>1, FillPartialInv, FillFullInv, FillStuckInv, FillTornInv, FillSkipsInv, FillRefusedInv,
     FillSkipsAgainInv, ControlStreamInv DEF Demux
<1>2. CASE Source /\ ~Demux
  BY <1>2, ControlStreamInv, HeadersStreamInv, ReadStreamInv DEF Source
<1>3. CASE Camera
  BY <1>3, CameraStreamInv
<1>4. CASE Owner \/ RunNothing("demuxer") \/ RunNothing("presenter") \/ UNCHANGED vars
  BY <1>4, ControlStreamInv
<1> QED
  BY <1>1, <1>2, <1>3, <1>4 DEF Next

LEMMA SpecStreamInv == Spec => []StreamInv
<1> QED
  BY InitStreamInv, NextStreamInv, PTL DEF Spec

\* Up to the first packet with a number that the end of a push cuts, the queue
\* holds the packets of the stream that begin after the bytes lost with the header,
\* and the demuxer is out of step only for those bytes or for a byte that it
\* refuses; from there on the queue stays in order, and what is in it uncut is
\* complete.
THEOREM QueueHoldsStream == Spec => []QueueIsStream
<1>1. StreamInv => QueueIsStream
  <2> SUFFICES ASSUME StreamInv PROVE QueueIsStream
    OBVIOUS
  <2>1. \A k \in 2..Len(_queue) : _queue[k - 1] < _queue[k]
    BY DEF StreamInv, Entries
  <2>2. Delivered \ torn \subseteq Due
    <3> SUFFICES ASSUME NEW e \in Delivered, e \notin torn PROVE e \in Due
      OBVIOUS
    <3>1. PICK k \in 1..Len(_queue) : e = _queue[k]
      BY DEF Delivered, StreamInv, Queue
    <3>2. e \in (dropped + 1)..taken /\ (cur # 0 => e < cur) /\ Bytes[e] = "start" /\ EndOf(e) <= taken
      BY <3>1 DEF StreamInv, Entries, Sent
    <3>3. e # cur
      BY <3>2, Numbers
    <3> QED
      BY <3>2, <3>3 DEF Due
  <2>3. torn = {} => Due \subseteq Delivered /\ (sync = "ok" \/ LostAtHeader \/ StandsAtRefusal)
    BY DEF StreamInv, AllSent
  <2> QED
    BY <2>1, <2>2, <2>3 DEF QueueIsStream
<1> QED
  BY <1>1, SpecStreamInv, PTL

\* No more than the threshold is ever kept back between two reads.
THEOREM LittleIsHeld == Spec => []HeldBounded
<1>1. StreamInv => HeldBounded
  BY DEF StreamInv
<1> QED
  BY <1>1, SpecStreamInv, PTL

LEMMA SpecBounds == Spec => [](starts \in 1..MaxStarts /\ closed \in BOOLEAN)
<1> DEFINE Bounds == starts \in 1..MaxStarts /\ closed \in BOOLEAN
<1>0. MaxStarts \in Nat \ {0}
  BY ImageSourceAssumption DEF ImageSourceAssumption
<1>1. Init => Bounds
  <2>1. Init => starts \in 1..MaxStarts
    BY <1>0 DEF Init
  <2>2. Init => closed \in BOOLEAN
    BY DEF Init
  <2> QED
    BY <2>1, <2>2
<1>2. Bounds /\ [Next]_vars => Bounds'
  <2> SUFFICES ASSUME Bounds, [Next]_vars PROVE Bounds'
    OBVIOUS
  <2>1. starts' = starts \/ (starts < MaxStarts /\ starts' = starts + 1)
    BY DEF Next, Owner, Source, Demux, Camera, StartRunning, StartThread, StartTerminates, StartAgain,
        Destroy, Stop, Join, RunNothing, Connect, Throw, Status, Headers, Test, Read, ReadEnds, Exit,
        ThreadEnds, FillPartial, FillFull, FillStuck, FillTorn, FillSkips, FillRefused, FillSkipsAgain, PushReturns,
        Answer, Send, Close, CameraStep, Goto, vars, control
  <2>2. closed' = closed \/ closed' = TRUE
    BY DEF Next, Owner, Source, Demux, Camera, StartRunning, StartThread, StartTerminates, StartAgain,
        Destroy, Stop, Join, RunNothing, Connect, Throw, Status, Headers, Test, Read, ReadEnds, Exit,
        ThreadEnds, FillPartial, FillFull, FillStuck, FillTorn, FillSkips, FillRefused, FillSkipsAgain, PushReturns,
        Answer, Send, Close, Goto, vars, camera
  <2>3. starts' \in 1..MaxStarts
    BY <1>0, <2>1
  <2>4. closed' \in BOOLEAN
    BY <2>2
  <2> QED
    BY <2>3, <2>4
<1> QED
  BY <1>1, <1>2, PTL DEF Spec

\* Every variable keeps its type.
THEOREM TypeCorrect == Spec => []TypeOK
<1>1. IInv /\ StreamInv /\ (starts \in 1..MaxStarts /\ closed \in BOOLEAN) => TypeOK
  <2> SUFFICES ASSUME IInv, StreamInv, starts \in 1..MaxStarts /\ closed \in BOOLEAN PROVE TypeOK
    OBVIOUS
  <2>1. /\ body \in Bodies /\ sent \in 0..Len(Bytes) /\ dropped \in 0..sent /\ read \in 0..sent
        /\ taken \in 0..read /\ cur \in 0..taken
    BY BodyFacts DEF StreamInv, Buffered
  <2>2. /\ answer \in {"none", "status", "ok", "error"} /\ sync \in {"ok", "torn", "refused", "stuck"}
        /\ pc \in {"connect", "status", "headers", "test", "read", "push", "exit", "done"}
        /\ owner \in {"start", "idle", "stop", "join", "gone", "terminated"}
    BY DEF StreamInv, States, IInv, Places
  <2>3. _queue \in Seq(1..Len(Bytes)) /\ torn \subseteq 1..Len(Bytes)
    BY DEF StreamInv, Queue
  <2>4. /\ _thread \in [Stage -> {"none", "running", "ended", "joined"}]
        /\ _isRunning \in [Stage -> BOOLEAN] /\ _isStopping \in [Stage -> BOOLEAN] /\ locked \subseteq Stage
        /\ at \in 1..3 /\ readsAfterStop \in Nat
    BY DEF IInv, Threads, Flags, Counters
  <2> QED
    BY <2>1, <2>2, <2>3, <2>4 DEF TypeOK
<1> QED
  BY <1>1, SpecIInv, SpecStreamInv, SpecBounds, PTL
=============================================================================
