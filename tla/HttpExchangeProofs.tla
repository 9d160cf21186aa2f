-------------------------- MODULE HttpExchangeProofs --------------------------
(***************************************************************************)
(* Proof that what a synchronous request reports is what has happened, for *)
(* every length of the body, and every limit of the dump.                  *)
(***************************************************************************)
EXTENDS HttpExchange, SequenceTheorems, TLAPS

-----------------------------------------------------------------------------
(* The inductive invariant, in the parts that the provers need apart *)

Numbers == arrived \in Nat /\ received \in Nat /\ tried \in Nat

Sequences == content \in Seq(Nat) /\ contentbuf \in Seq(Nat) /\ dumped \in Seq(Nat)

Endpoints == endpoints \in Seq(BOOLEAN) /\ (numeric => Len(endpoints) = 1)

Places ==
    /\ at \in {"connect", "write", "status", "check", "header", "body", "close", "end", "ended"}
    /\ conn \in {"none", "open", "eof", "reset"}

AllRefuse == \A i \in DOMAIN endpoints : ~endpoints[i]

\* Without a connection the call is still connecting, or every endpoint has refused.
Connection ==
    /\ conn = "none" => at = "connect" \/ (at = "ended" /\ AllRefuse)
    /\ at = "connect" /\ error = "none" => conn # "none"
    /\ at = "connect" /\ ~numeric /\ error # "none" => \A i \in 1..tried : ~endpoints[i]

Nothing == content = << >> /\ contentbuf = << >> /\ dumped = << >>
AllRead == HeaderEnd <= received /\ Handed = Pieces(HeaderEnd, received)

\* What has been read of the body has been handed on.
Content ==
    /\ at \in {"connect", "write", "status", "check", "header"} => Nothing
    /\ at \in {"body", "end", "close"} => AllRead
    /\ at = "ended" => Nothing \/ AllRead
    /\ at = "body" => dumped = << >>
    /\ todo # << >> /\ Head(todo) # "dump getRequest" => contentbuf = << >> /\ dumped = << >>
    /\ dumped # << >> => Len(dumped) > DumpLimit

Hello == Calls({HelloHttpPost[1], HelloHttpPost[2]})
Invoking == Calls({"InvokeCommand"})

\* How the loop over the body has ended, and the call.
Ending ==
    /\ at = "end" => conn = error /\ conn \in {"eof", "reset"} /\ (conn = "eof" => received = arrived)
    /\ at # "ended" => outcome = "none"
    /\ outcome = "refused" => ~accepts /\ Nothing
    /\ outcome = "clean" => AllRead
    /\ outcome = "clean" /\ Hello => conn = "eof" /\ received = arrived
    /\ result <=> outcome = "clean" /\ Invoking
    /\ result => Handed = Body

IInv == Numbers /\ Sequences /\ Endpoints /\ Places /\ Connection /\ Content /\ Ending

-----------------------------------------------------------------------------
(* The pieces of a response *)

LEMMA PiecesSeq ==
    ASSUME NEW a \in Nat, NEW b \in Nat, a <= b
    PROVE  /\ Pieces(a, b) \in Seq(Nat) /\ Len(Pieces(a, b)) = b - a
           /\ \A i \in 1..(b - a) : Pieces(a, b)[i] = a + i
  BY DEF Pieces

LEMMA PiecesEmpty == ASSUME NEW a \in Nat PROVE Pieces(a, a) = << >>
<1>1. Pieces(a, a) \in Seq(Nat) /\ Len(Pieces(a, a)) = 0
  BY PiecesSeq
<1> QED
  BY <1>1, EmptySeq

\* Pieces that follow each other are one run of pieces.
LEMMA PiecesConcat ==
    ASSUME NEW a \in Nat, NEW b \in Nat, NEW c \in Nat, a <= b, b <= c
    PROVE  Pieces(a, b) \o Pieces(b, c) = Pieces(a, c)
<1> DEFINE p == Pieces(a, b)
           q == Pieces(b, c)
           r == Pieces(a, c)
<1>1. p \in Seq(Nat) /\ Len(p) = b - a /\ \A i \in 1..(b - a) : p[i] = a + i
  BY PiecesSeq
<1>2. q \in Seq(Nat) /\ Len(q) = c - b /\ \A i \in 1..(c - b) : q[i] = b + i
  BY PiecesSeq
<1>3. r \in Seq(Nat) /\ Len(r) = c - a /\ \A i \in 1..(c - a) : r[i] = a + i
  BY PiecesSeq
<1> HIDE DEF p, q, r
<1>4. /\ p \o q \in Seq(Nat) /\ Len(p \o q) = c - a
      /\ \A i \in 1..(c - a) : (p \o q)[i] = IF i <= b - a THEN p[i] ELSE q[i - (b - a)]
  <2>1. /\ p \o q \in Seq(Nat) /\ Len(p \o q) = Len(p) + Len(q)
        /\ \A i \in 1..(Len(p) + Len(q)) : (p \o q)[i] = IF i <= Len(p) THEN p[i] ELSE q[i - Len(p)]
    BY <1>1, <1>2, ConcatProperties
  <2>2. Len(p) = b - a /\ Len(p) + Len(q) = c - a
    BY <1>1, <1>2
  <2> QED
    BY <2>1, <2>2
<1>5. \A i \in 1..(c - a) : (p \o q)[i] = r[i]
  <2> SUFFICES ASSUME NEW i \in 1..(c - a) PROVE (p \o q)[i] = a + i
    BY <1>3
  <2>1. CASE i <= b - a
    BY <1>1, <1>4, <2>1
  <2>2. CASE i > b - a
    <3>1. i - (b - a) \in 1..(c - b)
      BY <2>2
    <3> QED
      BY <1>2, <1>4, <2>2, <3>1
  <2>3. i <= b - a \/ i > b - a
    OBVIOUS
  <2> QED
    BY <2>1, <2>2, <2>3
<1>6. p \o q = r
  BY <1>3, <1>4, <1>5, SeqEqual
<1> QED
  BY <1>6 DEF p, q, r

LEMMA ConcatNat ==
    ASSUME NEW s \in Seq(Nat), NEW t \in Seq(Nat), NEW u \in Seq(Nat)
    PROVE  (s \o t) \o u = s \o (t \o u)
  BY ConcatAssociative

LEMMA HeaderIsNat == HeaderEnd \in Nat /\ HeaderEnd = 3
  BY DEF HeaderEnd

LEMMA NothingHanded == Nothing => Handed = << >>
  BY DEF Nothing, Handed

\* A step that neither reads nor hands on.
LEMMA Unread ==
    ASSUME UNCHANGED <<received, buffers>>
    PROVE  (Nothing' <=> Nothing) /\ (AllRead' <=> AllRead) /\ Handed' = Handed
  BY DEF Nothing, AllRead, Handed, buffers

LEMMA SameCall == ASSUME UNCHANGED todo PROVE (Hello' <=> Hello) /\ (Invoking' <=> Invoking)
  BY DEF Hello, Invoking, Calls

\* What a server is resolved to.
LEMMA ResolvedAre ==
    ASSUME NEW b, NEW e \in Resolved(b)
    PROVE  e \in Seq(BOOLEAN) /\ (b => Len(e) = 1)
<1>1. \A n \in Nat : \A f \in [1..n -> BOOLEAN] : f \in Seq(BOOLEAN) /\ Len(f) = n
  OBVIOUS
<1>2. \E n \in Nat : e \in [1..n -> BOOLEAN] /\ (b => n = 1)
  <2>1. CASE b
    <3>1. e \in [{1} -> BOOLEAN] /\ {1} = 1..1
      BY <2>1 DEF Resolved
    <3> QED
      BY <3>1
  <2>2. CASE ~b
    <3>1. e \in UNION {[1..k -> BOOLEAN] : k \in 0..2} /\ 0..2 \subseteq Nat
      BY <2>2 DEF Resolved
    <3> QED
      BY <2>2, <3>1
  <2> QED
    BY <2>1, <2>2
<1> QED
  BY <1>1, <1>2

LEMMA InitIInv == Init => IInv
<1> SUFFICES ASSUME Init PROVE IInv
  OBVIOUS
<1>1. Numbers
  BY Zenon DEF Init, Numbers
<1>2. Sequences
  <2>1. << >> \in Seq(Nat)
    OBVIOUS
  <2> QED
    BY <2>1, Zenon DEF Init, Sequences
<1>3. Endpoints
  BY ResolvedAre, Zenon DEF Init, Endpoints
<1>4. Places
  BY DEF Init, Places
<1>5. Connection
  BY DEF Init, Connection
<1>6. Content
  BY DEF Init, Content, Nothing
<1>7. Ending
  BY DEF Init, Ending
<1> QED
  BY <1>1, <1>2, <1>3, <1>4, <1>5, <1>6, <1>7 DEF IInv

\* The camera sends, and closes or resets a connection that is open.
LEMMA CameraIInv == ASSUME IInv, Arrive \/ Close PROVE IInv'
<1>1. Numbers'
  BY DEF IInv, Numbers, Arrive, Close, Environment, server, camera, buffers
<1>2. Sequences'
  BY DEF IInv, Sequences, Arrive, Close, Environment, server, camera, buffers
<1>3. Endpoints'
  BY DEF IInv, Endpoints, Arrive, Close, Environment, server, camera, buffers
<1>4. Places'
  BY DEF IInv, Places, Arrive, Close, Environment, server, camera, buffers
<1>5. Connection'
  BY DEF IInv, Connection, AllRefuse, Endpoints, Arrive, Close, Environment, server, camera, buffers
<1>6. Content'
  BY DEF IInv, Content, Nothing, AllRead, Handed, Arrive, Close, Environment, server, camera, buffers
<1>7. Ending'
  <2>1. UNCHANGED <<received, buffers, todo, at, error, outcome, result, accepts>>
    BY DEF Arrive, Close, Environment, camera
  <2>2. conn # "open" => UNCHANGED <<conn, arrived>>
    BY DEF Arrive, Close
  <2> QED
    BY <2>1, <2>2, Unread, SameCall DEF IInv, Ending
<1> QED
  BY <1>1, <1>2, <1>3, <1>4, <1>5, <1>6, <1>7 DEF IInv

-----------------------------------------------------------------------------
(* A call of c *)

\* The connection, one endpoint after the other.
LEMMA ConnectIInv ==
    ASSUME IInv, NEW c, ConnectAddress(c) \/ ConnectNext(c) \/ Connected(c)
    PROVE  IInv'
<1>1. Numbers'
  BY DEF IInv, Numbers, ConnectAddress, ConnectNext, Connected, Open, Is, server, camera, network, buffers
<1>2. Sequences'
  BY DEF IInv, Sequences, ConnectAddress, ConnectNext, Connected, Open, Is, server, camera, network, buffers
<1>3. Endpoints'
  BY DEF IInv, Endpoints, ConnectAddress, ConnectNext, Connected, Open, Is, server, camera, network, buffers
<1>4. Places'
  BY DEF IInv, Places, ConnectAddress, ConnectNext, Connected, Open, Is, server, camera, network, buffers
<1>5. Connection'
  <2>1. CASE ConnectAddress(c)
    BY <2>1 DEF IInv, Connection, ConnectAddress, Open, Is, server
  <2>2. CASE ConnectNext(c)
    <3>1. /\ at = "connect" /\ at' = at /\ tried' = tried + 1 /\ UNCHANGED <<numeric, endpoints>>
          /\ error # "none" /\ ~numeric
      BY <2>2 DEF ConnectNext, Is, server
    <3>2. CASE endpoints[tried']
      <4>1. conn' = "open" /\ error' = "none"
        BY <2>2, <3>2 DEF ConnectNext, Open
      <4> QED
        BY <3>1, <4>1 DEF Connection
    <3>3. CASE ~endpoints[tried']
      <4>1. conn' = conn /\ error' = "refused"
        BY <2>2, <3>3 DEF ConnectNext, network
      <4>2. \A i \in 1..tried' : ~endpoints[i]
        BY <3>1, <3>3 DEF IInv, Connection, Numbers
      <4> QED
        BY <3>1, <4>1, <4>2 DEF Connection
    <3> QED
      BY <3>2, <3>3
  <2>3. CASE Connected(c)
    BY <2>3 DEF IInv, Connection, Connected, Is, network
  <2> QED
    BY <2>1, <2>2, <2>3
<1>6. Content'
  BY DEF IInv, Content, Nothing, AllRead, Handed, ConnectAddress, ConnectNext, Connected, Open, Is, server, camera, network, buffers
<1>7. Ending'
  <2>1. at = "connect" /\ at' \in {"connect", "write"} /\ UNCHANGED <<outcome, result>>
    BY DEF ConnectAddress, ConnectNext, Connected, Is
  <2> QED
    BY <2>1 DEF IInv, Ending
<1> QED
  BY <1>1, <1>2, <1>3, <1>4, <1>5, <1>6, <1>7 DEF IInv

\* An exception ends the call, before or after it has a connection.
LEMMA ThrowIInv ==
    ASSUME IInv, NEW c, Throw(c), conn = "none" => AllRefuse, at # "ended"
    PROVE  IInv'
<1>1. Numbers'
  BY DEF IInv, Numbers, Throw, Ends, server, camera, network, buffers
<1>2. Sequences'
  BY DEF IInv, Sequences, Throw, Ends, server, camera, network, buffers
<1>3. Endpoints'
  BY DEF IInv, Endpoints, Throw, Ends, server, camera, network, buffers
<1>4. Places'
  BY DEF IInv, Places, Throw, Ends, server, camera, network, buffers
<1>5. Connection'
  BY DEF IInv, Connection, AllRefuse, Endpoints, Throw, Ends, server, camera, network, buffers
<1>6. Content'
  <2>1. UNCHANGED <<received, buffers, todo>> /\ at' = "ended"
    BY DEF Throw, Ends
  <2>2. UNCHANGED <<contentbuf, dumped>>
    BY <2>1 DEF buffers
  <2>3. Nothing \/ AllRead
    BY DEF IInv, Places, Content
  <2> QED
    BY <2>1, <2>2, <2>3, Unread DEF IInv, Content
<1>7. Ending'
  BY DEF IInv, Ending, Content, Nothing, AllRead, Handed, Hello, Invoking, Calls, HelloHttpPost, Throw, Ends, server, camera, network, buffers
<1> QED
  BY <1>1, <1>2, <1>3, <1>4, <1>5, <1>6, <1>7 DEF IInv

\* The request and the status line.
LEMMA RequestIInv ==
    ASSUME IInv, NEW c, Write(c) \/ Accept(c) \/ (\E n \in 1..arrived : ReadStatus(c, n))
    PROVE  IInv'
<1>1. Numbers'
  BY DEF IInv, Numbers, Write, Accept, ReadStatus, Is, Goes, server, camera, network, buffers
<1>2. Sequences'
  BY DEF IInv, Sequences, Write, Accept, ReadStatus, Is, Goes, server, camera, network, buffers
<1>3. Endpoints'
  BY DEF IInv, Endpoints, Write, Accept, ReadStatus, Is, Goes, server, camera, network, buffers
<1>4. Places'
  BY DEF IInv, Places, Write, Accept, ReadStatus, Is, Goes, server, camera, network, buffers
<1>5. Connection'
  BY DEF IInv, Connection, AllRefuse, Endpoints, Write, Accept, ReadStatus, Is, Goes, server, camera, network, buffers
<1>6. Content'
  BY DEF IInv, Content, Nothing, AllRead, Handed, Write, Accept, ReadStatus, Is, Goes, server, camera, network, buffers
<1>7. Ending'
  <2>1. at \in {"write", "check", "status"} /\ at' \in {"status", "header", "check"} /\ UNCHANGED <<outcome, result>>
    BY DEF Write, Accept, ReadStatus, Is, Goes
  <2> QED
    BY <2>1 DEF IInv, Ending
<1> QED
  BY <1>1, <1>2, <1>3, <1>4, <1>5, <1>6, <1>7 DEF IInv

\* An answer that is refused.
LEMMA RefuseIInv == ASSUME IInv, NEW c, Refuse(c) PROVE IInv'
<1>1. Numbers'
  BY DEF IInv, Numbers, Refuse, Is, Ends, server, camera, network, buffers
<1>2. Sequences'
  BY DEF IInv, Sequences, Refuse, Is, Ends, server, camera, network, buffers
<1>3. Endpoints'
  BY DEF IInv, Endpoints, Refuse, Is, Ends, server, camera, network, buffers
<1>4. Places'
  BY DEF IInv, Places, Refuse, Is, Ends, server, camera, network, buffers
<1>5. Connection'
  BY DEF IInv, Connection, AllRefuse, Endpoints, Refuse, Is, Ends, server, camera, network, buffers
<1>6. Content'
  BY DEF IInv, Content, Nothing, AllRead, Handed, Refuse, Is, Ends, server, camera, network, buffers
<1>7. Ending'
  BY DEF IInv, Ending, Content, Nothing, AllRead, Handed, Hello, Invoking, Calls, HelloHttpPost, Refuse, Is, Ends, server, camera, network, buffers
<1> QED
  BY <1>1, <1>2, <1>3, <1>4, <1>5, <1>6, <1>7 DEF IInv

\* The end of the header, and the content that came with it.
LEMMA HeaderIInv == ASSUME IInv, NEW c, NEW n \in 1..arrived, ReadHeader(c, n) PROVE IInv'
<1>0. /\ n \in Nat /\ HeaderEnd <= n /\ received' = n /\ content' = Pieces(HeaderEnd, n)
      /\ Pieces(HeaderEnd, n) \in Seq(Nat)
  BY HeaderIsNat, PiecesSeq DEF IInv, Numbers, ReadHeader, HasHeader
<1>a. /\ at = "header" /\ at' = "body" /\ UNCHANGED <<contentbuf, dumped, outcome, result, todo>>
      /\ contentbuf = << >> /\ dumped = << >>
  BY DEF IInv, Content, Nothing, ReadHeader, Is, Goes
<1>1. Numbers'
  BY <1>0 DEF IInv, Numbers, ReadHeader, Is, Goes, server, camera, network
<1>2. Sequences'
  BY <1>0 DEF IInv, Sequences, ReadHeader, Is, Goes, server, camera, network
<1>3. Endpoints'
  BY <1>0 DEF IInv, Endpoints, ReadHeader, Is, Goes, server, camera, network
<1>4. Places'
  BY <1>0 DEF IInv, Places, ReadHeader, Is, Goes, server, camera, network
<1>5. Connection'
  BY <1>0 DEF IInv, Connection, AllRefuse, Endpoints, ReadHeader, Is, Goes, server, camera, network
<1>6. Content'
  <2>1. Handed' = Pieces(HeaderEnd, n)
    BY <1>0, <1>a DEF Handed
  <2> QED
    BY <1>0, <1>a, <2>1 DEF Content, AllRead
<1>7. Ending'
  BY <1>a DEF IInv, Ending
<1> QED
  BY <1>1, <1>2, <1>3, <1>4, <1>5, <1>6, <1>7 DEF IInv

Writes(c, n) == ReadBody(c, n) /\ c # "dump getRequest"
Keeps(c, n) == KeepBody(c, n) /\ c = "dump getRequest"

\* More of the body, written out or kept.
LEMMA BodyIInv ==
    ASSUME IInv, NEW c, NEW n \in 1..arrived, Writes(c, n) \/ Keeps(c, n)
    PROVE  IInv'
<1> DEFINE p == Pieces(received, n)
<1>0. /\ n \in Nat /\ received \in Nat /\ received < n /\ HeaderEnd <= received /\ received' = n
      /\ AllRead /\ at = "body" /\ dumped = << >>
      /\ todo # << >> /\ Head(todo) = c
  <2>1. at = "body" /\ todo # << >> /\ Head(todo) = c /\ n > received /\ received' = n
    BY DEF Writes, Keeps, ReadBody, KeepBody, Is
  <2>2. AllRead /\ dumped = << >>
    BY <2>1 DEF IInv, Content
  <2>3. arrived \in Nat /\ received \in Nat
    BY DEF IInv, Numbers
  <2>4. n \in Nat /\ received < n
    <3>1. n > received
      BY <2>1
    <3> QED
      BY <2>3, <3>1
  <2>5. HeaderEnd <= received
    BY <2>2 DEF AllRead
  <2> QED
    BY <2>1, <2>2, <2>3, <2>4, <2>5
<1>z. HeaderEnd \in Nat /\ HeaderEnd <= received /\ received <= n /\ HeaderEnd <= n
  <2>1. HeaderEnd <= received /\ received < n /\ received \in Nat /\ n \in Nat
    BY <1>0
  <2> QED
    BY <2>1, HeaderIsNat
<1>a. p \in Seq(Nat) /\ Pieces(HeaderEnd, received) \o p = Pieces(HeaderEnd, n)
  <2>1. p \in Seq(Nat)
    BY <1>0, <1>z, PiecesSeq
  <2>2. Pieces(HeaderEnd, received) \o Pieces(received, n) = Pieces(HeaderEnd, n)
    BY <1>0, <1>z, PiecesConcat
  <2> QED
    BY <2>1, <2>2
<1>b. /\ at' \in {"body", "close"} /\ UNCHANGED <<todo, outcome, result, conn, error, endpoints, numeric, tried, arrived>>
  BY DEF Writes, Keeps, ReadBody, KeepBody, Goes, network, server
<1>c. content \in Seq(Nat) /\ contentbuf \in Seq(Nat) /\ << >> \in Seq(Nat)
  BY EmptySeq, Zenon DEF IInv, Sequences
<1>d. content \o contentbuf = Pieces(HeaderEnd, received)
  <2>1. (content \o dumped) \o contentbuf = Pieces(HeaderEnd, received)
    BY <1>0 DEF AllRead, Handed
  <2>2. content \o dumped = content
    BY <1>0, <1>c, ConcatEmptySeq
  <2> QED
    BY <2>1, <2>2
<1>e. ASSUME Writes(c, n)
      PROVE  Content' /\ Sequences'
  <2>1. contentbuf = << >> /\ content' = content \o p /\ UNCHANGED <<contentbuf, dumped>> /\ at' = "body"
    BY <1>0, <1>e DEF IInv, Content, Writes, ReadBody, Goes
  <2>2. content = Pieces(HeaderEnd, received)
    BY <1>c, <1>d, <2>1, ConcatEmptySeq
  <2>3. content' \in Seq(Nat) /\ content' = Pieces(HeaderEnd, n)
    BY <1>a, <1>c, <2>1, <2>2, ConcatProperties
  <2>4. Handed' = content'
    <3>1. content' \o << >> = content'
      BY <2>3, ConcatEmptySeq
    <3> QED
      BY <1>0, <2>1, <3>1 DEF Handed
  <2>a. AllRead'
    BY <1>0, <1>z, <2>3, <2>4 DEF AllRead
  <2>5. Content'
    BY <1>0, <2>1, <2>a DEF Content
  <2>6. Sequences'
    BY <1>c, <2>1, <2>3 DEF IInv, Sequences
  <2> QED
    BY <2>5, <2>6
<1>f. ASSUME Keeps(c, n)
      PROVE  Content' /\ Sequences'
  <2> DEFINE kept == contentbuf \o p
  <2>1. kept \in Seq(Nat) /\ content \o kept = Pieces(HeaderEnd, n)
    <3>1. kept \in Seq(Nat)
      BY <1>a, <1>c, ConcatProperties
    <3>2. (content \o contentbuf) \o p = content \o kept
      <4>1. p \in Seq(Nat)
        BY <1>a
      <4> HIDE DEF p
      <4>2. (content \o contentbuf) \o p = content \o (contentbuf \o p)
        BY <1>c, <4>1, ConcatNat
      <4> QED
        BY <4>2
    <3> QED
      BY <1>a, <1>d, <3>1, <3>2
  <2>2. content \o kept \in Seq(Nat)
    BY <1>c, <2>1, ConcatProperties
  <2>3. content' = content
    BY <1>f DEF Keeps, KeepBody
  <2>4. CASE Len(kept) > DumpLimit
    <3>1. dumped' = kept /\ contentbuf' = << >> /\ at' = "close"
      BY <1>f, <2>4 DEF Keeps, KeepBody, Goes
    <3>2. Handed' = Pieces(HeaderEnd, n)
      <4> HIDE DEF kept, p
      <4>1. (content \o kept) \o << >> = content \o kept
        BY <2>2, ConcatEmptySeq
      <4> QED
        BY <2>1, <2>3, <3>1, <4>1 DEF Handed
    <3>3. Content'
      <4> HIDE DEF kept, p
      <4> QED
        <5>1. AllRead'
          BY <1>0, <1>z, <3>2 DEF AllRead
        <5>2. Head(todo') = "dump getRequest"
          BY <1>0, <1>b, <1>f DEF Keeps
        <5> QED
          BY <2>4, <3>1, <5>1, <5>2 DEF Content
    <3>4. Sequences'
      BY <1>c, <2>1, <2>3, <3>1 DEF Sequences
    <3> QED
      BY <3>3, <3>4
  <2>5. CASE ~(Len(kept) > DumpLimit)
    <3>1. contentbuf' = kept /\ dumped' = << >> /\ at' = "body"
      BY <1>0, <1>f, <2>5 DEF Keeps, KeepBody, Goes
    <3>2. Handed' = Pieces(HeaderEnd, n)
      <4> HIDE DEF kept, p
      <4>1. content \o << >> = content
        BY <1>c, ConcatEmptySeq
      <4> QED
        BY <2>1, <2>3, <3>1, <4>1 DEF Handed
    <3>3. Content'
      <4> HIDE DEF kept, p
      <4> QED
        <5>1. AllRead'
          BY <1>0, <1>z, <3>2 DEF AllRead
        <5>2. Head(todo') = "dump getRequest"
          BY <1>0, <1>b, <1>f DEF Keeps
        <5> QED
          BY <3>1, <5>1, <5>2 DEF Content
    <3>4. Sequences'
      BY <1>c, <2>1, <2>3, <3>1 DEF Sequences
    <3> QED
      BY <3>3, <3>4
  <2> QED
    BY <2>4, <2>5
<1>1. Content' /\ Sequences'
  BY <1>e, <1>f
<1>2. Numbers'
  BY <1>0, <1>b DEF IInv, Numbers
<1>3. Endpoints'
  BY <1>b DEF IInv, Endpoints
<1>4. Places'
  BY <1>b DEF IInv, Places
<1>5. Connection'
  BY <1>0, <1>b DEF IInv, Connection
<1>6. Ending'
  BY <1>0, <1>b DEF IInv, Ending
<1> QED
  BY <1>1, <1>2, <1>3, <1>4, <1>5, <1>6 DEF IInv

\* The loop over the body ends: its connection was reset, or there is no more.
LEMMA EndIInv == ASSUME IInv, NEW c, ReadEnds(c) PROVE IInv'
<1>0. /\ at = "body" /\ at' = "end" /\ error' = conn /\ conn' = conn
      /\ UNCHANGED <<received, buffers, todo, arrived, tried, outcome, result, numeric, endpoints>>
      /\ conn = "reset" \/ (conn = "eof" /\ received = arrived)
  BY DEF ReadEnds, Is, network, server
<1>1. Numbers'
  BY <1>0 DEF IInv, Numbers
<1>2. Sequences'
  BY <1>0 DEF IInv, Sequences, buffers
<1>3. Endpoints'
  BY <1>0 DEF IInv, Endpoints
<1>4. Places'
  BY <1>0 DEF IInv, Places
<1>5. Connection'
  BY <1>0 DEF IInv, Connection
<1>6. Content'
  <2>1. AllRead' /\ UNCHANGED <<todo, contentbuf, dumped>>
    BY <1>0, Unread DEF IInv, Content, buffers
  <2> QED
    BY <1>0, <2>1 DEF IInv, Content
<1>7. Ending'
  BY <1>0 DEF IInv, Ending
<1> QED
  BY <1>1, <1>2, <1>3, <1>4, <1>5, <1>6, <1>7 DEF IInv

Concludes(c) ==
    \/ EndOfFile(c) /\ c \in {"hello getRequest", "hello postRequest"}
    \/ ReadJson(c) /\ c = "InvokeCommand"
    \/ EndOfLoop(c) /\ c \in {"dump getRequest", "dump postRequest"}

\* The call returns after the loop.
LEMMA ConcludeIInv == ASSUME IInv, NEW c, Concludes(c) PROVE IInv'
<1>0. /\ at \in {"end", "close"} /\ at' = "ended" /\ UNCHANGED <<received, buffers, todo, error, conn, arrived>>
      /\ UNCHANGED <<tried, numeric, endpoints>>
  BY DEF Concludes, EndOfFile, ReadJson, EndOfLoop, Is, Ends, network, server
<1>a. outcome' \in {"clean", "exception"}
  BY DEF Concludes, EndOfFile, ReadJson, EndOfLoop, Is, Ends
<1>b. AllRead
  BY <1>0 DEF IInv, Content
<1>1. Numbers'
  BY <1>0 DEF IInv, Numbers
<1>2. Sequences'
  BY <1>0 DEF IInv, Sequences, buffers
<1>3. Endpoints'
  BY <1>0 DEF IInv, Endpoints
<1>4. Places'
  BY <1>0 DEF IInv, Places
<1>5. Connection'
  BY <1>0 DEF IInv, Connection
<1>6. Content'
  <2>1. AllRead' /\ UNCHANGED <<todo, contentbuf, dumped>>
    BY <1>0, <1>b, Unread DEF buffers
  <2> QED
    BY <1>0, <2>1 DEF IInv, Content
<1>7. Ending'
  <2>1. AllRead'
    BY <1>0, <1>b, Unread
  <2>2. outcome' = "clean" /\ Hello' => conn' = "eof" /\ received' = arrived'
    <3> SUFFICES ASSUME outcome' = "clean", Hello PROVE conn = "eof" /\ received = arrived
      BY <1>0, SameCall
    <3>1. at = "end" /\ error = "eof"
      BY DEF Concludes, EndOfFile, ReadJson, EndOfLoop, Is, Ends, Hello, Calls, HelloHttpPost
    <3> QED
      BY <3>1 DEF IInv, Ending
  <2>3. (result' <=> outcome' = "clean" /\ Invoking') /\ (result' => Handed' = Body)
    <3>0. todo # << >> /\ Head(todo) = c /\ (Invoking' <=> c = "InvokeCommand") /\ Handed' = Handed
      BY <1>0, SameCall, Unread DEF Concludes, EndOfFile, ReadJson, EndOfLoop, Is, Invoking, Calls
    <3>1. CASE ReadJson(c) /\ c = "InvokeCommand"
      <4>1. result' <=> content = Body
        BY <3>1 DEF ReadJson
      <4>2. outcome' = (IF content = Body THEN "clean" ELSE "exception")
        BY <3>1 DEF ReadJson, Ends
      <4>3. contentbuf = << >> /\ dumped = << >> /\ content \in Seq(Nat)
        BY <3>0, <3>1 DEF IInv, Content, Sequences
      <4>4. Handed = content
        BY <4>3, ConcatEmptySeq DEF Handed
      <4> QED
        BY <3>0, <3>1, <4>1, <4>2, <4>4
    <3>2. CASE ~(ReadJson(c) /\ c = "InvokeCommand")
      <4>1. c # "InvokeCommand" /\ result' = result
        <5>1. \/ EndOfFile(c) /\ c \in {"hello getRequest", "hello postRequest"}
              \/ EndOfLoop(c) /\ c \in {"dump getRequest", "dump postRequest"}
          BY <3>2 DEF Concludes
        <5> QED
          BY <5>1 DEF EndOfFile, EndOfLoop
      <4>2. ~result
        BY <1>0 DEF IInv, Ending
      <4> QED
        BY <3>0, <4>1, <4>2
    <3> QED
      BY <3>1, <3>2
  <2> QED
    BY <1>0, <1>a, <2>1, <2>2, <2>3 DEF Ending
<1> QED
  BY <1>1, <1>2, <1>3, <1>4, <1>5, <1>6, <1>7 DEF IInv

\* The next call begins with nothing.
LEMMA ContinueIInv == ASSUME IInv, Continue PROVE IInv'
<1>1. Numbers'
  BY DEF Continue, Numbers
<1>2. Sequences'
  <2>1. << >> \in Seq(Nat)
    BY EmptySeq
  <2> QED
    BY <2>1, Zenon DEF Continue, Sequences
<1>3. Endpoints'
  BY ResolvedAre, Zenon DEF Endpoints, Continue
<1>4. Places'
  BY DEF Places, Continue
<1>5. Connection'
  BY DEF Connection, Continue
<1>6. Content'
  BY DEF Content, Nothing, Continue
<1>7. Ending'
  BY DEF Ending, Continue
<1> QED
  BY <1>1, <1>2, <1>3, <1>4, <1>5, <1>6, <1>7 DEF IInv

-----------------------------------------------------------------------------
(* Every step, and what follows *)

\* A call throws when no endpoint is left, when its connection is reset, and when
\* the response ends too early.
LEMMA FailsIInv ==
    ASSUME IInv, NEW c, ConnectFails(c) \/ WriteFails(c) \/ ReadThrows(c)
    PROVE  IInv'
<1>1. Throw(c) /\ at # "ended"
  BY DEF ConnectFails, WriteFails, ReadThrows, Is
<1>2. conn = "none" => AllRefuse
  <2>1. CASE ConnectFails(c)
    <3>1. at = "connect" /\ IF numeric THEN ~endpoints[1] ELSE error # "none" /\ tried = Len(endpoints)
      BY <2>1 DEF ConnectFails, Is
    <3>2. DOMAIN endpoints = 1..Len(endpoints)
      BY DEF IInv, Endpoints
    <3>3. CASE numeric
      <4>1. DOMAIN endpoints = 1..1 /\ 1..1 = {1}
        BY <3>2, <3>3 DEF IInv, Endpoints
      <4> QED
        BY <3>1, <3>3, <4>1 DEF AllRefuse
    <3>4. CASE ~numeric
      BY <3>1, <3>2, <3>4 DEF IInv, Connection, AllRefuse
    <3> QED
      BY <3>3, <3>4
  <2>2. CASE WriteFails(c)
    BY <2>2 DEF WriteFails
  <2>3. CASE ReadThrows(c)
    BY <2>3 DEF ReadThrows
  <2> QED
    BY <2>1, <2>2, <2>3
<1> QED
  BY <1>1, <1>2, ThrowIInv

LEMMA StutterIInv == ASSUME IInv, UNCHANGED vars PROVE IInv'
<1>0. /\ UNCHANGED <<numeric, endpoints, accepts, conn, arrived, todo, at, tried, error, received>>
      /\ UNCHANGED <<content, contentbuf, dumped, result, outcome, buffers>>
  BY DEF vars, server, network, camera, buffers
<1>1. Numbers' /\ Sequences'
  BY <1>0 DEF IInv, Numbers, Sequences
<1>2. Endpoints'
  BY <1>0 DEF IInv, Endpoints
<1>3. Places' /\ Connection'
  BY <1>0 DEF IInv, Places, Connection, AllRefuse
<1>4. Content' /\ Ending'
  BY <1>0, Unread, SameCall DEF IInv, Content, Ending
<1> QED
  BY <1>1, <1>2, <1>3, <1>4 DEF IInv

\* Connecting, requesting and reading the header, which every call does the same way.
LEMMA SharedIInv == ASSUME IInv, NEW c, Request(c) PROVE IInv'
<1>1. CASE Connect(c)
  BY <1>1, ConnectIInv, FailsIInv DEF Connect
<1>2. CASE Write(c) \/ Accept(c) \/ (\E n \in 1..arrived : ReadStatus(c, n))
  BY <1>2, RequestIInv
<1>3. CASE WriteFails(c) \/ ReadThrows(c)
  BY <1>3, FailsIInv
<1>4. CASE \E n \in 1..arrived : ReadHeader(c, n)
  BY <1>4, HeaderIInv
<1>5. CASE Refuse(c)
  BY <1>5, RefuseIInv
<1>6. CASE ReadEnds(c)
  BY <1>6, EndIInv
<1> QED
  BY <1>1, <1>2, <1>3, <1>4, <1>5, <1>6 DEF Request

LEMMA PrintingIInv == ASSUME IInv, NEW c, c # "dump getRequest", Printing(c) PROVE IInv'
<1>1. CASE Request(c)
  BY <1>1, SharedIInv
<1>2. CASE \E n \in 1..arrived : ReadBody(c, n)
  BY <1>2, BodyIInv DEF Writes
<1> QED
  BY <1>1, <1>2 DEF Printing

LEMMA NextIInv == IInv /\ [Next]_vars => IInv'
<1> SUFFICES ASSUME IInv, [Next]_vars PROVE IInv'
  OBVIOUS
<1>1. CASE Arrive \/ Close
  BY <1>1, CameraIInv
<1>2. CASE InvokeCommand
  BY <1>2, PrintingIInv, ConcludeIInv DEF InvokeCommand, Concludes
<1>3. CASE HelloGetRequest
  BY <1>3, PrintingIInv, ConcludeIInv DEF HelloGetRequest, Concludes
<1>4. CASE HelloPostRequest
  BY <1>4, PrintingIInv, ConcludeIInv DEF HelloPostRequest, Concludes
<1>5. CASE DumpPostRequest
  BY <1>5, PrintingIInv, ConcludeIInv DEF DumpPostRequest, Concludes
<1>6. CASE DumpGetRequest
  BY <1>6, SharedIInv, BodyIInv, ConcludeIInv DEF DumpGetRequest, Concludes, Keeps
<1>7. CASE Continue
  BY <1>7, ContinueIInv
<1>8. CASE UNCHANGED vars
  BY <1>8, StutterIInv
<1> QED
  BY <1>1, <1>2, <1>3, <1>4, <1>5, <1>6, <1>7, <1>8 DEF Next, Program

LEMMA IInvAnswers == IInv => AnswerIsTrue
<1> SUFFICES ASSUME IInv PROVE AnswerIsTrue
  OBVIOUS
<1>0. Nothing \/ AllRead
  BY DEF IInv, Content, Places
<1>1. Gapless
  <2>1. CASE Nothing
    <3>1. Handed = << >> /\ Len(Handed) = 0
      BY <2>1, NothingHanded
    <3>2. Pieces(HeaderEnd, HeaderEnd) = << >>
      BY HeaderIsNat, PiecesEmpty
    <3>3. HeaderEnd + Len(Handed) = HeaderEnd
      BY <3>1, HeaderIsNat
    <3> QED
      BY <3>1, <3>2, <3>3 DEF Gapless
  <2>2. CASE AllRead
    <3>1. HeaderEnd \in Nat /\ received \in Nat /\ HeaderEnd <= received
      BY <2>2, HeaderIsNat DEF IInv, Numbers, AllRead
    <3>2. Len(Handed) = received - HeaderEnd
      BY <2>2, <3>1, PiecesSeq DEF AllRead
    <3>3. HeaderEnd + Len(Handed) = received
      BY <3>1, <3>2
    <3> QED
      BY <2>2, <3>3 DEF AllRead, Gapless
  <2> QED
    BY <1>0, <2>1, <2>2
<1>2. GivesUpLast
  <2>1. outcome = "exception" => at = "ended"
    BY DEF IInv, Ending
  <2> QED
    BY <2>1 DEF IInv, Connection, AllRefuse, GivesUpLast
<1>3. RefusedIsRefused
  BY NothingHanded DEF IInv, Ending, RefusedIsRefused
<1>4. CleanIsWhole
  BY DEF IInv, Ending, AllRead, Content, Hello, Invoking, CleanIsWhole
<1> QED
  BY <1>1, <1>2, <1>3, <1>4 DEF AnswerIsTrue

LEMMA SpecIInv == Spec => []IInv
<1> QED
  BY InitIInv, NextIInv, PTL DEF Spec

\* What is handed on has no gap, a call without a connection has tried every
\* endpoint, a refusal had its status, a call that ends without complaint has handed
\* on all it read, which for HelloHttpPost is all that was sent before the end of
\* the connection, and InvokeCommand has a result exactly when it has not thrown,
\* and then the whole body: for every length of the body.
THEOREM AnswersAreTrue == Spec => []AnswerIsTrue
<1> QED
  BY SpecIInv, IInvAnswers, PTL
=============================================================================
