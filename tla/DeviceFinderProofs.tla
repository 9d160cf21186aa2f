------------------------- MODULE DeviceFinderProofs -------------------------
(***************************************************************************)
(* Proofs about DeviceFinder, for every number of pieces of the body: its  *)
(* types, what Cleanup and destruction promise, and that every step of it  *)
(* is a step of Discovery.                                                 *)
(***************************************************************************)
EXTENDS DeviceFinder, TLAPS

-----------------------------------------------------------------------------
(* The inductive invariant.  TypeOK is proved in the four parts that the   *)
(* provers need apart: names, truth values, numbers and the sequence.      *)

Names ==
    /\ xml \in Descriptions
    /\ reply \in {"none", "camera", "refusal", "other"}
    /\ conn \in {"none", "open", "eof", "reset"}
    /\ pending \in {"none", "send", "receive", "write", "status", "header", "first", "more"}
    /\ result \in {"none", "ok", "eof", "error"}
    /\ sockets \in {"open", "closed"}
    /\ life \in {"alive", "dying", "destroyed", "gone", "terminated"}

Flags ==
    /\ accepts \in BOOLEAN /\ _liveViewUrl \in BOOLEAN /\ _cameraServiceUrl \in BOOLEAN
    /\ touched \in BOOLEAN /\ rejected \in BOOLEAN

Numbers == arrived \in 0..ResponseEnd /\ received \in 0..arrived /\ consumed \in 0..received
Kept == content_ \in Seq(HeaderEnd + 1 .. ResponseEnd)

\* A read that waited for the end of the header has it, and the body is read
\* only behind it.
BehindHeader ==
    /\ pending = "header" /\ result = "ok" => received >= HeaderEnd
    /\ pending \in {"first", "more"} => consumed >= HeaderEnd

\* A finder that was settled when its destructor began stays so, and one that waited
\* and hears nothing can only fail.
Cancelled ==
    /\ life = "alive" => atDestroy = "none" /\ ~touched
    /\ life # "alive" /\ atDestroy = "none" => pending = "none"
    /\ life # "alive" /\ atDestroy = "receive" /\ reply = "none" =>
        pending = "none" \/ (pending = "receive" /\ result \in {"none", "error"})
    /\ pending = "receive" /\ result = "ok" => reply # "none"

\* The description is written by the last handler, the live view URL first.
Described ==
    /\ _liveViewUrl => pending \in {"first", "more", "none"}
    /\ _cameraServiceUrl => _liveViewUrl

Safe == ClosedIsLast /\ WaitingIsSafeToDestroy /\ Cancelled /\ Described
Reads == Numbers /\ BehindHeader

IInv == Names /\ Flags /\ Reads /\ Kept /\ Safe

LEMMA TypeParts == TypeOK <=> Names /\ Flags /\ Numbers /\ Kept
  BY Zenon DEF TypeOK, Names, Flags, Numbers, Kept

LEMMA EndIsNat == ResponseEnd \in Nat /\ HeaderEnd = 3 /\ LineEnd = 2 /\ HeaderEnd <= ResponseEnd
  BY FinderAssumption DEF ResponseEnd, HeaderEnd, LineEnd

\* The pieces of the body are what a read of it brings.
LEMMA PiecesOfBody ==
    ASSUME NEW from \in Nat, NEW to \in Nat, HeaderEnd <= from, from <= to, to <= ResponseEnd
    PROVE  Pieces(from, to) \in Seq(HeaderEnd + 1 .. ResponseEnd)
  BY EndIsNat DEF Pieces

\* The names of the parts of an invariant that a proof step is about.
LEMMA InitIInv == Init => IInv
<1> SUFFICES ASSUME Init PROVE IInv
  OBVIOUS
<1>1. Names
  BY DEF Init, Names
<1>2. Flags
  BY DEF Init, Flags
<1>3. Reads
  <2>1. arrived = 0 /\ received = 0 /\ consumed = 0
    BY Zenon DEF Init
  <2>2. Numbers
    BY <2>1, EndIsNat DEF Numbers
  <2>3. BehindHeader
    BY DEF Init, BehindHeader
  <2> QED
    BY <2>2, <2>3 DEF Reads
<1>4. Kept
  <2>1. \A S : << >> \in Seq(S)
    OBVIOUS
  <2> QED
    BY <2>1, Zenon DEF Init, Kept
<1>5. Safe
  BY DEF Init, Safe, ClosedIsLast, WaitingIsSafeToDestroy, Cancelled, Described
<1> QED
  BY <1>1, <1>2, <1>3, <1>4, <1>5 DEF IInv

-----------------------------------------------------------------------------
(* The network, and the completion of operations *)

\* A step of the network: at most one more piece, or the end of the connection.
LEMMA NetworkIInv ==
    ASSUME IInv, World,
           reply' \in {"none", "camera", "refusal", "other"},
           conn' \in {"none", "open", "eof", "reset"},
           arrived' \in arrived..ResponseEnd,
           reply # "none" => reply' = reply
    PROVE  IInv'
<1>1. Names'
  BY DEF IInv, Names, World, camera, buffers, description, fate
<1>2. Flags'
  BY DEF IInv, Flags, World, camera, buffers, description, fate
<1>3. Reads'
  BY EndIsNat DEF IInv, Reads, Numbers, BehindHeader, World, camera, buffers, description, fate
<1>4. Kept'
  BY DEF IInv, Kept, World, camera, buffers, description, fate
<1>5. Safe'
  BY DEF IInv, Names, Safe, ClosedIsLast, WaitingIsSafeToDestroy, Cancelled, Described,
     World, camera, buffers, description, fate
<1> QED
  BY <1>1, <1>2, <1>3, <1>4, <1>5 DEF IInv

\* An operation completes, and may have brought bytes.
LEMMA OutcomeIInv ==
    ASSUME IInv, NEW res \in {"ok", "eof", "error"}, Outcome(res), pending # "none",
           received' \in received..arrived,
           pending = "header" /\ res = "ok" => received' >= HeaderEnd,
           pending = "receive" => res = "error" \/ (res = "ok" /\ reply # "none")
    PROVE  IInv'
<1>1. Names'
  <2>1. /\ xml' = xml /\ reply' = reply /\ conn' = conn /\ pending' = pending
        /\ result' = res /\ sockets' = sockets /\ life' = life
    BY Zenon DEF Outcome, camera, network, fate
  <2>2. Names
    BY DEF IInv
  <2>3. result' \in {"none", "ok", "eof", "error"}
    BY <2>1
  <2> QED
    BY <2>1, <2>2, <2>3, Zenon DEF Names
<1>2. Flags'
  BY DEF IInv, Flags, Outcome, OperationUses, camera, network, buffers, description, fate
<1>3. Reads'
  BY EndIsNat DEF IInv, Reads, Numbers, BehindHeader, Outcome, camera, network, buffers, description, fate
<1>4. Kept'
  BY DEF IInv, Kept, Outcome, camera, network, buffers, description, fate
<1>5. Safe'
  <2>1. ClosedIsLast'
    BY DEF IInv, Safe, ClosedIsLast, Outcome, OperationUses, On, camera, network, buffers, description, fate
  <2>2. WaitingIsSafeToDestroy'
    BY DEF IInv, Names, Safe, WaitingIsSafeToDestroy, Cancelled, Outcome, OperationUses, On, camera, network, buffers, description, fate
  <2>3. Cancelled'
    BY DEF IInv, Names, Safe, Cancelled, Outcome, OperationUses, On, camera, network, buffers, description, fate
  <2>4. Described'
    BY DEF IInv, Safe, Described, Outcome, OperationUses, On, camera, network, buffers, description, fate
  <2> QED
    BY <2>1, <2>2, <2>3, <2>4 DEF Safe
<1> QED
  BY <1>1, <1>2, <1>3, <1>4, <1>5 DEF IInv

LEMMA CompleteIInv ==
    ASSUME IInv, CompleteSend \/ CompleteReceive \/ CompleteWrite \/ CompleteEof \/ Fail
    PROVE  IInv'
<1>1. received \in Nat /\ arrived \in Nat /\ received <= arrived
  BY EndIsNat DEF IInv, Reads, Numbers
<1>2. CASE CompleteSend \/ CompleteReceive \/ CompleteWrite
  <2>1. /\ pending # "none" /\ pending # "header" /\ Outcome("ok") /\ received' = received
        /\ pending = "receive" => reply # "none"
    BY <1>2 DEF CompleteSend, CompleteReceive, CompleteWrite
  <2> QED
    BY <1>1, <2>1, OutcomeIInv
<1>3. CASE CompleteEof
  <2>1. pending \notin {"none", "receive"} /\ Outcome("eof") /\ received' = arrived
    BY <1>3 DEF CompleteEof, Reading
  <2> QED
    BY <1>1, <2>1, OutcomeIInv
<1>4. CASE Fail
  <2>1. pending # "none" /\ Outcome("error") /\ received' = received
    BY <1>4 DEF Fail, Broken, Reading
  <2> QED
    BY <1>1, <2>1, OutcomeIInv
<1> QED
  BY <1>2, <1>3, <1>4

LEMMA CompleteReadIInv ==
    ASSUME IInv, NEW n \in 1..arrived, CompleteRead(n)
    PROVE  IInv'
<1>1. received \in Nat /\ arrived \in Nat /\ received <= arrived
  BY EndIsNat DEF IInv, Reads, Numbers
<1>2. received' \in received..arrived
  BY <1>1 DEF CompleteRead
<1>3. pending \notin {"none", "receive"} /\ Outcome("ok")
  BY DEF CompleteRead, Reading
<1>4. pending = "header" => received' >= HeaderEnd
  BY <1>1, EndIsNat DEF CompleteRead, Enough
<1> QED
  BY <1>2, <1>3, <1>4, OutcomeIInv

-----------------------------------------------------------------------------
(* The handlers.  They end the chain with Cleanup, without it or by an     *)
(* exception, or they begin the next operation.                            *)

\* With Cleanup: never for an error of the operation in which the finder waits.
LEMMA GiveUpIInv ==
    ASSUME IInv, NEW op, NEW res, op # "none", GiveUp(op, res), rejected' \in BOOLEAN,
           op = "receive" => res = {"ok"}
    PROVE  IInv'
<1>1. Names'
  BY DEF IInv, Names, GiveUp, Handler, Cleanup, Use, On, camera, fate, description
<1>2. Flags'
  BY DEF IInv, Flags, GiveUp, Handler, Cleanup, Use, On, camera, fate, description
<1>3. Reads'
  BY EndIsNat DEF IInv, Reads, Numbers, BehindHeader, GiveUp, Handler, Cleanup, Use, On, camera, fate, description
<1>4. Kept'
  BY DEF IInv, Kept, GiveUp, Handler, Cleanup, Use, On, camera, fate, description
<1>5. Safe'
  <2>1. ClosedIsLast'
    BY DEF IInv, Safe, ClosedIsLast, GiveUp, Handler, Cleanup, Use, On, camera, fate, description
  <2>2. WaitingIsSafeToDestroy'
    BY DEF IInv, Names, Safe, WaitingIsSafeToDestroy, Cancelled, GiveUp, Handler, Cleanup, Use, On, camera, fate, description
  <2>3. Cancelled'
    BY DEF IInv, Names, Safe, Cancelled, GiveUp, Handler, Cleanup, Use, On, camera, fate, description
  <2>4. Described'
    BY DEF IInv, Safe, Described, GiveUp, Handler, Cleanup, Use, On, camera, fate, description
  <2> QED
    BY <2>1, <2>2, <2>3, <2>4 DEF Safe
<1> QED
  BY <1>1, <1>2, <1>3, <1>4, <1>5 DEF IInv

\* Without Cleanup.
LEMMA AbandonIInv ==
    ASSUME IInv, NEW op, NEW res, Abandon(op, res)
    PROVE  IInv'
<1>1. Names'
  BY DEF IInv, Names, Abandon, Handler, On, camera, fate, buffers, description
<1>2. Flags'
  BY DEF IInv, Flags, Abandon, Handler, On, camera, fate, buffers, description
<1>3. Reads'
  BY EndIsNat DEF IInv, Reads, Numbers, BehindHeader, Abandon, Handler, On, camera, fate, buffers, description
<1>4. Kept'
  BY DEF IInv, Kept, Abandon, Handler, On, camera, fate, buffers, description
<1>5. Safe'
  BY DEF IInv, Names, Safe, ClosedIsLast, WaitingIsSafeToDestroy, Cancelled, Described,
     Abandon, Handler, On, camera, fate, buffers, description
<1> QED
  BY <1>1, <1>2, <1>3, <1>4, <1>5 DEF IInv

\* By an exception.
LEMMA TerminateIInv ==
    ASSUME IInv, NEW op, op # "none", Terminate(op), ~(op = "receive" /\ result = "error")
    PROVE  IInv'
<1>1. Names'
  BY DEF IInv, Names, Terminate, Use, On, camera, network, buffers, description, fate
<1>2. Flags'
  BY DEF IInv, Flags, Terminate, Use, On, camera, network, buffers, description, fate
<1>3. Reads'
  BY EndIsNat DEF IInv, Reads, Numbers, BehindHeader, Terminate, Use, On, camera, network, buffers, description, fate
<1>4. Kept'
  BY DEF IInv, Kept, Terminate, Use, On, camera, network, buffers, description, fate
<1>5. Safe'
  <2>1. ClosedIsLast'
    BY DEF IInv, Safe, ClosedIsLast, Terminate, Use, On, camera, network, buffers, description, fate
  <2>2. WaitingIsSafeToDestroy'
    BY DEF IInv, Names, Safe, WaitingIsSafeToDestroy, Cancelled, Terminate, Use, On, camera, network, buffers, description, fate
  <2>3. Cancelled'
    BY DEF IInv, Names, Safe, Cancelled, Terminate, Use, On, camera, network, buffers, description, fate
  <2>4. Described'
    BY DEF IInv, Safe, Described, Terminate, Use, On, camera, network, buffers, description, fate
  <2> QED
    BY <2>1, <2>2, <2>3, <2>4 DEF Safe
<1> QED
  BY <1>1, <1>2, <1>3, <1>4, <1>5 DEF IInv

\* With the next operation.
LEMMA ThenIInv ==
    ASSUME IInv, NEW op, NEW next \in {"receive", "write", "status", "header", "first", "more"},
           Handler(op, {"ok"}), Then(next), Use, op # "none",
           conn' \in {"none", "open", "eof", "reset"}, arrived' = arrived, received' = received,
           consumed' \in 0..received,
           next \in {"first", "more"} => consumed' >= HeaderEnd,
           content_' \in Seq(HeaderEnd + 1 .. ResponseEnd),
           UNCHANGED <<sockets, description, rejected>>,
           _liveViewUrl => next \in {"first", "more"}
    PROVE  IInv'
<1>1. Names'
  BY DEF IInv, Names, Handler, Then, Use, On, camera, fate, description
<1>2. Flags'
  BY DEF IInv, Flags, Handler, Then, Use, On, camera, fate, description
<1>3. Reads'
  BY EndIsNat DEF IInv, Reads, Numbers, BehindHeader, Handler, Then, Use, On, camera, fate, description
<1>4. Kept'
  BY DEF IInv, Kept, Handler, Then, Use, On, camera, fate, description
<1>5. Safe'
  BY DEF IInv, Names, Safe, ClosedIsLast, WaitingIsSafeToDestroy, Cancelled, Described,
     Handler, Then, Use, On, camera, fate, description
<1> QED
  BY <1>1, <1>2, <1>3, <1>4, <1>5 DEF IInv

\* What the handlers that go on need of the state they find.
LEMMA Facts ==
    ASSUME IInv
    PROVE  /\ received \in Nat /\ consumed \in 0..received /\ received <= ResponseEnd
           /\ conn \in {"none", "open", "eof", "reset"}
           /\ content_ \in Seq(HeaderEnd + 1 .. ResponseEnd)
           /\ _liveViewUrl => pending \in {"first", "more", "none"}
           /\ pending = "header" /\ result = "ok" => received >= HeaderEnd
           /\ pending \in {"first", "more"} => consumed >= HeaderEnd
           /\ rejected \in BOOLEAN
<1>1. received \in Nat /\ consumed \in 0..received /\ received <= ResponseEnd
  BY EndIsNat DEF IInv, Reads, Numbers
<1>2. conn \in {"none", "open", "eof", "reset"}
  BY DEF IInv, Names
<1>3. _liveViewUrl => pending \in {"first", "more", "none"}
  BY DEF IInv, Safe, Described
<1>4. /\ pending = "header" /\ result = "ok" => received >= HeaderEnd
      /\ pending \in {"first", "more"} => consumed >= HeaderEnd
  BY DEF IInv, Reads, BehindHeader
<1>5. content_ \in Seq(HeaderEnd + 1 .. ResponseEnd) /\ rejected \in BOOLEAN
  BY Zenon DEF IInv, Kept, Flags
<1> QED
  BY <1>1, <1>2, <1>3, <1>4, <1>5, Zenon

LEMMA SendIInv == ASSUME IInv, handleSendToMSearch PROVE IInv'
<1>1. CASE GiveUp("send", {"error"}) /\ UNCHANGED rejected
  BY <1>1, Facts, GiveUpIInv
<1>2. ASSUME Handler("send", {"ok"}), Then("receive"), Use,
             UNCHANGED <<conn, arrived, buffers, sockets, description, rejected>>
      PROVE  IInv'
  <2>1. pending = "send"
    BY <1>2 DEF Handler
  <2> QED
    BY <1>2, <2>1, Facts, ThenIInv DEF buffers
<1> QED
  BY <1>1, <1>2 DEF handleSendToMSearch

LEMMA SearchIInv == ASSUME IInv, handleMSearchRespHeader PROVE IInv'
<1>1. CASE ErrorIsLeft
  BY <1>1, AbandonIInv DEF ErrorIsLeft
<1>2. CASE GiveUp("receive", {"ok"}) /\ UNCHANGED rejected
  BY <1>2, Facts, GiveUpIInv
<1>3. CASE result = "ok" /\ Terminate("receive")
  BY <1>3, TerminateIInv
<1>4. ASSUME Handler("receive", {"ok"}), Then("write"), Use, conn' = "open",
             UNCHANGED <<arrived, buffers, sockets, description, rejected>>
      PROVE  IInv'
  <2>1. pending = "receive"
    BY <1>4 DEF Handler
  <2> QED
    BY <1>4, <2>1, Facts, ThenIInv DEF buffers
<1> QED
  BY <1>1, <1>2, <1>3, <1>4 DEF handleMSearchRespHeader

LEMMA RequestIInv == ASSUME IInv, handleGetDeviceDescriptionResponseHeader PROVE IInv'
<1>1. CASE GiveUp("write", {"error"}) /\ UNCHANGED rejected
  BY <1>1, Facts, GiveUpIInv
<1>2. ASSUME Handler("write", {"ok"}), Then("status"), Use,
             UNCHANGED <<conn, arrived, buffers, sockets, description, rejected>>
      PROVE  IInv'
  <2>1. pending = "write"
    BY <1>2 DEF Handler
  <2> QED
    BY <1>2, <2>1, Facts, ThenIInv DEF buffers
<1> QED
  BY <1>1, <1>2 DEF handleGetDeviceDescriptionResponseHeader

LEMMA StatusIInv == ASSUME IInv, handleGetDeviceDescriptionResponseHeaderStatusCode PROVE IInv'
<1>1. CASE GiveUp("status", {"error", "eof"}) /\ UNCHANGED rejected
  BY <1>1, Facts, GiveUpIInv
<1>2. CASE GiveUp("status", {"ok"}) /\ (rejected' = TRUE \/ UNCHANGED rejected)
  BY <1>2, Facts, GiveUpIInv
<1>3. ASSUME received >= LineEnd, Handler("status", {"ok"}), Then("header"), Use, consumed' = LineEnd,
             UNCHANGED <<conn, arrived, received, content_, sockets, description, rejected>>
      PROVE  IInv'
  <2>1. pending = "status"
    BY <1>3 DEF Handler
  <2>2. consumed' \in 0..received
    BY <1>3, Facts, EndIsNat
  <2> QED
    BY <1>3, <2>1, <2>2, Facts, ThenIInv
<1> QED
  BY <1>1, <1>2, <1>3 DEF handleGetDeviceDescriptionResponseHeaderStatusCode

LEMMA HeaderIInv == ASSUME IInv, handleGetDeviceDescriptionRensponseHeader PROVE IInv'
<1>1. CASE Abandon("header", {"error", "eof"})
  BY <1>1, AbandonIInv
<1>2. ASSUME Handler("header", {"ok"}), Then("first"), Use, consumed' = received,
             UNCHANGED <<conn, arrived, received, content_, sockets, description, rejected>>
      PROVE  IInv'
  <2>1. pending = "header" /\ result = "ok"
    BY <1>2 DEF Handler
  <2>2. consumed' \in 0..received /\ consumed' >= HeaderEnd
    BY <1>2, <2>1, Facts, EndIsNat
  <2> QED
    BY <1>2, <2>1, <2>2, Facts, ThenIInv
<1> QED
  BY <1>1, <1>2 DEF handleGetDeviceDescriptionRensponseHeader

LEMMA ContentIInv == ASSUME IInv, Content PROVE IInv'
<1>1. /\ pending \in {"first", "more"} /\ Handler(pending, {"ok"}) /\ Then("more") /\ Use
      /\ consumed' = received
      /\ UNCHANGED <<conn, arrived, received, sockets, description, rejected>>
  BY DEF Content
<1>2. consumed \in Nat /\ received \in Nat /\ HeaderEnd <= consumed /\ consumed <= received
  BY <1>1, Facts, EndIsNat
<1>3. Pieces(consumed, received) \in Seq(HeaderEnd + 1 .. ResponseEnd)
  BY <1>2, Facts, PiecesOfBody
<1>4. content_' \in Seq(HeaderEnd + 1 .. ResponseEnd)
  <2> DEFINE S == HeaderEnd + 1 .. ResponseEnd
  <2>1. content_ \in Seq(S) /\ Pieces(consumed, received) \in Seq(S)
    BY <1>3, Facts
  <2>2. content_' = content_ \o Pieces(consumed, received)
    BY DEF Content
  <2> HIDE DEF S
  <2>3. content_' \in Seq(S)
    BY <2>1, <2>2
  <2> QED
    BY <2>3 DEF S
<1>5. consumed' \in 0..received /\ consumed' >= HeaderEnd
  BY <1>1, <1>2, EndIsNat
<1> QED
  BY <1>1, <1>4, <1>5, Facts, ThenIInv

LEMMA ContentEndIInv == ASSUME IInv, ContentFails \/ ParseThrows \/ Crash PROVE IInv'
<1>1. CASE ContentFails
  BY <1>1, Facts, GiveUpIInv DEF ContentFails
<1>2. CASE ParseThrows
  BY <1>2, TerminateIInv DEF ParseThrows, Parsing
<1>3. CASE Crash
  BY <1>3, TerminateIInv DEF Crash, OperationUses
<1> QED
  BY <1>1, <1>2, <1>3

\* ParseXml sets the first of the two strings, and then the second.
LEMMA SetUrlIInv ==
    ASSUME IInv, SetLiveViewUrl \/ SetServiceUrl
    PROVE  IInv'
<1>0. /\ Parsing /\ Use /\ UNCHANGED <<camera, network, pending, result, buffers, sockets, fate, rejected>>
      /\ (_liveViewUrl' = TRUE /\ UNCHANGED _cameraServiceUrl)
         \/ (_liveViewUrl /\ UNCHANGED _liveViewUrl /\ _cameraServiceUrl' = TRUE)
  BY Zenon DEF SetLiveViewUrl, SetServiceUrl
<1>1. Names'
  BY <1>0 DEF IInv, Names, Use, On, camera, network, buffers, fate
<1>2. Flags'
  BY <1>0 DEF IInv, Flags, Use, On, camera, network, buffers, fate
<1>3. Reads'
  BY <1>0, EndIsNat DEF IInv, Reads, Numbers, BehindHeader, Use, On, camera, network, buffers, fate
<1>4. Kept'
  BY <1>0 DEF IInv, Kept, Use, On, camera, network, buffers, fate
<1>5. Safe'
  <2>1. ClosedIsLast'
    BY <1>0 DEF IInv, Safe, ClosedIsLast, Parsing, Use, On, camera, network, buffers, fate
  <2>2. WaitingIsSafeToDestroy'
    BY <1>0 DEF IInv, Names, Safe, WaitingIsSafeToDestroy, Cancelled, Parsing, Use, On, camera, network, buffers, fate
  <2>3. Cancelled'
    BY <1>0 DEF IInv, Names, Safe, Cancelled, Parsing, Use, On, camera, network, buffers, fate
  <2>4. Described'
    BY <1>0 DEF IInv, Safe, Described, Parsing, Use, On, camera, network, buffers, fate
  <2> QED
    BY <2>1, <2>2, <2>3, <2>4 DEF Safe
<1> QED
  BY <1>1, <1>2, <1>3, <1>4, <1>5 DEF IInv

\* The last handler returns.
LEMMA ParseReturnsIInv ==
    ASSUME IInv, ParseReturns
    PROVE  IInv'
<1>1. Names'
  BY DEF IInv, Names, ParseReturns, Handler, Cleanup, Use, On, camera, fate
<1>2. Flags'
  BY DEF IInv, Flags, ParseReturns, Handler, Cleanup, Use, On, camera, fate, description
<1>3. Reads'
  <2>1. arrived' = arrived /\ received' = 0 /\ consumed' = 0 /\ pending' = "none"
    BY Zenon DEF ParseReturns, Cleanup
  <2>2. arrived \in 0..ResponseEnd
    BY DEF IInv, Reads, Numbers
  <2> QED
    BY <2>1, <2>2, EndIsNat DEF Reads, Numbers, BehindHeader
<1>4. Kept'
  BY DEF IInv, Kept, ParseReturns, Handler, Cleanup, Use, On, camera, fate
<1>5. Safe'
  BY DEF IInv, Names, Safe, ClosedIsLast, WaitingIsSafeToDestroy, Cancelled, Described,
     ParseReturns, Handler, Cleanup, Use, On, camera, fate, description
<1> QED
  BY <1>1, <1>2, <1>3, <1>4, <1>5 DEF IInv

\* The main thread.
LEMMA DestroyIInv ==
    ASSUME IInv, Destroy
    PROVE  IInv'
<1>1. Names'
  BY DEF IInv, Names, Destroy, camera, network, buffers, description
<1>2. Flags'
  BY DEF IInv, Flags, Destroy, camera, network, buffers, description
<1>3. Reads'
  BY EndIsNat DEF IInv, Reads, Numbers, BehindHeader, Destroy, camera, network, buffers, description
<1>4. Kept'
  BY DEF IInv, Kept, Destroy, camera, network, buffers, description
<1>5. Safe'
  BY DEF IInv, Names, Safe, ClosedIsLast, WaitingIsSafeToDestroy, Cancelled, Described,
     Destroy, camera, network, buffers, description
<1> QED
  BY <1>1, <1>2, <1>3, <1>4, <1>5 DEF IInv

LEMMA DestroySocketsIInv ==
    ASSUME IInv, DestroySockets
    PROVE  IInv'
<1>1. Names'
  BY DEF IInv, Names, DestroySockets, OperationUses, camera, network, buffers, description
<1>2. Flags'
  BY DEF IInv, Flags, DestroySockets, OperationUses, camera, network, buffers, description
<1>3. Reads'
  BY EndIsNat DEF IInv, Reads, Numbers, BehindHeader, DestroySockets, OperationUses, camera, network, buffers, description
<1>4. Kept'
  BY DEF IInv, Kept, DestroySockets, OperationUses, camera, network, buffers, description
<1>5. Safe'
  BY DEF IInv, Names, Safe, ClosedIsLast, WaitingIsSafeToDestroy, Cancelled, Described,
     DestroySockets, OperationUses, camera, network, buffers, description
<1> QED
  BY <1>1, <1>2, <1>3, <1>4, <1>5 DEF IInv

LEMMA DestroyedIInv ==
    ASSUME IInv, Destroyed
    PROVE  IInv'
<1>1. Names'
  BY DEF IInv, Names, Destroyed, camera, network, buffers, description
<1>2. Flags'
  BY DEF IInv, Flags, Destroyed, camera, network, buffers, description
<1>3. Reads'
  BY EndIsNat DEF IInv, Reads, Numbers, BehindHeader, Destroyed, camera, network, buffers, description
<1>4. Kept'
  BY DEF IInv, Kept, Destroyed, camera, network, buffers, description
<1>5. Safe'
  BY DEF IInv, Names, Safe, ClosedIsLast, WaitingIsSafeToDestroy, Cancelled, Described,
     Destroyed, camera, network, buffers, description
<1> QED
  BY <1>1, <1>2, <1>3, <1>4, <1>5 DEF IInv

-----------------------------------------------------------------------------
LEMMA StutterIInv ==
    ASSUME IInv, UNCHANGED vars
    PROVE  IInv'
<1>0. /\ Names /\ xml' = xml /\ reply' = reply /\ conn' = conn /\ pending' = pending
      /\ result' = result /\ sockets' = sockets /\ life' = life
  BY DEF IInv, vars, camera, network, fate
<1>1. Names'
  <2>1. (pending \in {"none", "send", "receive", "write", "status", "header", "first", "more"})'
    BY <1>0 DEF Names
  <2>2. (xml \in Descriptions
        /\ reply \in {"none", "camera", "refusal", "other"})'
    BY <1>0 DEF Names
  <2>3. (conn \in {"none", "open", "eof", "reset"} /\ result \in {"none", "ok", "eof", "error"})'
    BY <1>0 DEF Names
  <2>4. (sockets \in {"open", "closed"} /\ life \in {"alive", "dying", "destroyed", "gone", "terminated"})'
    BY <1>0 DEF Names
  <2> QED
    BY <2>1, <2>2, <2>3, <2>4 DEF Names
<1>2. Flags'
  BY DEF IInv, Flags, vars, camera, network, buffers, description, fate
<1>3. Reads'
  BY DEF IInv, Reads, Numbers, BehindHeader, vars, camera, network, buffers, description, fate
<1>4. Kept'
  BY DEF IInv, Kept, vars, camera, network, buffers, description, fate
<1>5. Safe'
  BY DEF IInv, Safe, ClosedIsLast, WaitingIsSafeToDestroy, Cancelled, Described,
     vars, camera, network, buffers, description, fate
<1> QED
  BY <1>1, <1>2, <1>3, <1>4, <1>5 DEF IInv

LEMMA NextIInv == IInv /\ [Next]_vars => IInv'
<1> SUFFICES ASSUME IInv, [Next]_vars PROVE IInv'
  OBVIOUS
<1>1. CASE Reply \/ Arrive \/ Close
  <2>1. /\ arrived \in 0..ResponseEnd
        /\ conn \in {"none", "open", "eof", "reset"} /\ reply \in {"none", "camera", "refusal", "other"}
    BY DEF IInv, Reads, Numbers, Names
  <2>2. World /\ conn' \in {"none", "open", "eof", "reset"} /\ reply' \in {"none", "camera", "refusal", "other"}
    BY <1>1, <2>1 DEF Reply, Arrive, Close
  <2>3. arrived' \in arrived..ResponseEnd
    BY <1>1, <2>1, EndIsNat DEF Reply, Arrive, Close
  <2>4. reply # "none" => reply' = reply
    BY <1>1 DEF Reply, Arrive, Close
  <2> QED
    BY <2>2, <2>3, <2>4, NetworkIInv
<1>2. CASE CompleteSend \/ CompleteReceive \/ CompleteWrite \/ CompleteEof \/ Fail
  BY <1>2, CompleteIInv
<1>3. CASE \E n \in 1..arrived : CompleteRead(n)
  BY <1>3, CompleteReadIInv
<1>4. CASE handleSendToMSearch \/ handleMSearchRespHeader
  BY <1>4, SendIInv, SearchIInv
<1>5. CASE handleGetDeviceDescriptionResponseHeader
  BY <1>5, RequestIInv
<1>6. CASE handleGetDeviceDescriptionResponseHeaderStatusCode
  BY <1>6, StatusIInv
<1>7. CASE handleGetDeviceDescriptionRensponseHeader
  BY <1>7, HeaderIInv
<1>8. CASE Content \/ ContentFails \/ ParseThrows \/ SetLiveViewUrl \/ SetServiceUrl \/ ParseReturns \/ Crash
  BY <1>8, ContentIInv, ContentEndIInv, SetUrlIInv, ParseReturnsIInv
<1>9. CASE Destroy \/ DestroySockets \/ Destroyed
  BY <1>9, DestroyIInv, DestroySocketsIInv, DestroyedIInv
<1>10. CASE UNCHANGED vars
  BY <1>10, StutterIInv
<1> QED
  BY <1>1, <1>2, <1>3, <1>4, <1>5, <1>6, <1>7, <1>8, <1>9, <1>10 DEF Next

LEMMA SpecIInv == Spec => []IInv
  BY InitIInv, NextIInv, PTL DEF Spec

\* Every variable of the finder keeps its type: what is kept of a response is of
\* its body only, and no buffer holds more than has come.
THEOREM TypeCorrect == Spec => []TypeOK
<1>1. IInv => TypeOK
  BY TypeParts, Zenon DEF IInv, Reads
<1> QED
  BY <1>1, SpecIInv, PTL

\* Cleanup ends the chain of handlers: behind closed sockets nothing is begun.
THEOREM CleanupIsLast == Spec => []ClosedIsLast
<1>1. IInv => ClosedIsLast
  BY DEF IInv, Safe
<1> QED
  BY <1>1, SpecIInv, PTL

\* A finder that waits for a camera can be destroyed although its members go before
\* its thread is joined, if none answers while its destructor runs.
THEOREM WaitingCanBeDestroyed == Spec => []WaitingIsSafeToDestroy
<1>1. IInv => WaitingIsSafeToDestroy
  BY DEF IInv, Safe
<1> QED
  BY <1>1, SpecIInv, PTL

-----------------------------------------------------------------------------
(* Every step of the finder is one of Discovery, or none. *)

\* The step that the environment, a completion or the main thread makes: the phase
\* may turn from searching to answered, and the description stays.
LEMMA Quiet ==
    ASSUME IInv, IInv', UNCHANGED <<_liveViewUrl, _cameraServiceUrl>>,
           \/ UNCHANGED phase
           \/ phase = "searching" /\ phase' \in {"answered", "settled"}
           \/ phase = "answered" /\ phase' \in {"settled", "dead"}
    PROVE  [Finding!Next]_(Finding!vars)
  BY DEF Finding!Next, Finding!vars, Finding!Hear, Finding!Settle, Finding!Die

\* A step that keeps the operation, unless it completes the reception.
LEMMA PhaseStays ==
    ASSUME IInv, IInv', UNCHANGED <<pending, life, description>>,
           UNCHANGED result \/ (On /\ result = "none" /\ pending # "none")
    PROVE  [Finding!Next]_(Finding!vars)
<1>1. UNCHANGED <<_liveViewUrl, _cameraServiceUrl>>
  BY DEF description
<1>2. (UNCHANGED phase) \/ (phase = "searching" /\ phase' = "answered")
  BY DEF phase, On
<1> QED
  BY <1>1, <1>2, Quiet

\* A step that ends the chain.
LEMMA PhaseSettles ==
    ASSUME IInv, IInv', On, pending # "none", pending' = "none", UNCHANGED <<life, description>>
    PROVE  [Finding!Next]_(Finding!vars)
<1>1. UNCHANGED <<_liveViewUrl, _cameraServiceUrl>>
  BY DEF description
<1>2. phase \in {"searching", "answered"} /\ phase' = "settled"
  BY DEF phase, On
<1> QED
  BY <1>1, <1>2, Quiet

\* A handler that goes on, and one that throws.
LEMMA PhaseGoesOn ==
    ASSUME IInv, IInv', NEW op, NEW next, Handler(op, {"ok"}), Then(next), UNCHANGED description,
           op # "none", next # "none",
           op = "send" <=> next = "receive", next # "send"
    PROVE  [Finding!Next]_(Finding!vars)
<1>1. UNCHANGED <<_liveViewUrl, _cameraServiceUrl>>
  BY DEF description
<1>2. On /\ pending = op /\ result = "ok" /\ result' = "none" /\ life' = life /\ pending' \in {next, "none"}
  BY DEF Handler, Then, fate
<1>3. CASE pending' = "none"
  BY <1>2, <1>3, PhaseSettles
<1>4. CASE pending' = next
  <2>1. UNCHANGED phase
    BY <1>2, <1>4 DEF phase, On
  <2> QED
    BY <1>1, <2>1, Quiet
<1> QED
  BY <1>2, <1>3, <1>4

LEMMA PhaseDies ==
    ASSUME IInv, IInv', NEW op, Terminate(op), op \notin {"none", "send"}, op = "receive" => result = "ok"
    PROVE  [Finding!Next]_(Finding!vars)
<1>1. UNCHANGED <<_liveViewUrl, _cameraServiceUrl>>
  BY DEF Terminate, description
<1>2. phase = "answered" /\ phase' = "dead"
  BY DEF phase, Terminate, On
<1> QED
  BY <1>1, <1>2, Quiet

LEMMA DescribeStep ==
    ASSUME IInv, IInv', SetLiveViewUrl \/ SetServiceUrl
    PROVE  [Finding!Next]_(Finding!vars)
<1>1. phase = "answered" /\ UNCHANGED phase
  BY DEF SetLiveViewUrl, SetServiceUrl, Parsing, phase, On, fate
<1>2. CASE SetLiveViewUrl
  <2>1. _liveViewUrl = FALSE /\ _liveViewUrl' = TRUE /\ UNCHANGED _cameraServiceUrl
    BY <1>2, Zenon DEF SetLiveViewUrl, IInv, Flags
  <2>2. _cameraServiceUrl = FALSE
    BY <2>1, Zenon DEF IInv, Safe, Described, Flags
  <2> QED
    BY <1>1, <2>1, <2>2 DEF Finding!Next, Finding!vars, Finding!Describe
<1>3. CASE SetServiceUrl
  <2>1. _liveViewUrl /\ UNCHANGED _liveViewUrl /\ _cameraServiceUrl = FALSE /\ _cameraServiceUrl' = TRUE
    BY <1>3, Zenon DEF SetServiceUrl, IInv, Flags
  <2> QED
    BY <1>1, <2>1 DEF Finding!Next, Finding!vars, Finding!Describe
<1> QED
  BY <1>2, <1>3

LEMMA HandlerRefines ==
    ASSUME IInv, IInv', Handle
    PROVE  [Finding!Next]_(Finding!vars)
<1>1. ASSUME NEW op, NEW res, op # "none", GiveUp(op, res) \/ Abandon(op, res)
      PROVE  [Finding!Next]_(Finding!vars)
  <2>1. On /\ pending # "none" /\ pending' = "none" /\ UNCHANGED <<life, description>>
    BY <1>1 DEF GiveUp, Abandon, Handler, fate
  <2> QED
    BY <2>1, PhaseSettles
<1>2. CASE handleSendToMSearch
  BY <1>1, <1>2, PhaseGoesOn DEF handleSendToMSearch
<1>3. CASE handleMSearchRespHeader
  BY <1>1, <1>3, PhaseGoesOn, PhaseDies DEF handleMSearchRespHeader, ErrorIsLeft
<1>4. CASE handleGetDeviceDescriptionResponseHeader
  BY <1>1, <1>4, PhaseGoesOn DEF handleGetDeviceDescriptionResponseHeader
<1>5. CASE handleGetDeviceDescriptionResponseHeaderStatusCode
  BY <1>1, <1>5, PhaseGoesOn DEF handleGetDeviceDescriptionResponseHeaderStatusCode
<1>6. CASE handleGetDeviceDescriptionRensponseHeader
  BY <1>1, <1>6, PhaseGoesOn DEF handleGetDeviceDescriptionRensponseHeader
<1>7. CASE Content
  BY <1>7, PhaseGoesOn DEF Content
<1>8. CASE ContentFails
  BY <1>1, <1>8 DEF ContentFails
<1>9. CASE ParseThrows
  BY <1>9, PhaseDies DEF ParseThrows, Parsing
<1>10. CASE SetLiveViewUrl \/ SetServiceUrl
  BY <1>10, DescribeStep
<1>11. CASE ParseReturns
  <2>1. On /\ pending # "none" /\ pending' = "none" /\ UNCHANGED <<life, description>>
    BY <1>11 DEF ParseReturns, Handler, fate
  <2> QED
    BY <2>1, PhaseSettles
<1> QED
  BY <1>2, <1>3, <1>4, <1>5, <1>6, <1>7, <1>8, <1>9, <1>10, <1>11 DEF Handle

LEMMA StepRefines ==
    ASSUME IInv, IInv', [Next]_vars
    PROVE  [Finding!Next]_(Finding!vars)
<1>1. CASE Reply \/ Arrive \/ Close
  <2>1. UNCHANGED <<pending, result, life, description>>
    BY <1>1 DEF Reply, Arrive, Close, World, fate
  <2> QED
    BY <2>1, PhaseStays
<1>2. CASE CompleteSend \/ CompleteReceive \/ CompleteWrite \/ CompleteEof \/ Fail
           \/ \E n \in 1..arrived : CompleteRead(n)
  <2>1. \E res : Outcome(res)
    BY <1>2 DEF CompleteSend, CompleteReceive, CompleteWrite, CompleteEof, Fail, CompleteRead
  <2>2. pending # "none"
    BY <1>2 DEF CompleteSend, CompleteReceive, CompleteWrite, CompleteEof, Fail, CompleteRead,
           Reading, Broken
  <2>3. UNCHANGED <<pending, life, description>> /\ On /\ result = "none"
    BY <2>1 DEF Outcome, fate
  <2> QED
    BY <2>2, <2>3, PhaseStays
<1>3. CASE Handle
  BY <1>3, HandlerRefines
<1>4. CASE Destroy \/ DestroySockets
  <2>1. UNCHANGED phase
    BY <1>4 DEF Destroy, DestroySockets, phase
  <2>2. UNCHANGED <<_liveViewUrl, _cameraServiceUrl>>
    BY <1>4 DEF Destroy, DestroySockets, description
  <2> QED
    BY <2>1, <2>2, Quiet
<1>5. CASE Destroyed
  <2>1. UNCHANGED phase
    BY <1>5 DEF Destroyed, phase
  <2>2. UNCHANGED <<_liveViewUrl, _cameraServiceUrl>>
    BY <1>5 DEF Destroyed, description
  <2> QED
    BY <2>1, <2>2, Quiet
<1>6. CASE UNCHANGED vars
  <2>1. UNCHANGED <<pending, result, life, description>>
    BY <1>6 DEF vars, fate
  <2> QED
    BY <2>1, PhaseStays
<1>7. CASE Crash
  BY <1>7, PhaseDies DEF Crash, OperationUses
<1> QED
  BY <1>1, <1>2, <1>3, <1>4, <1>5, <1>6, <1>7 DEF Next, Handle

\* The chain of handlers does what Discovery promises: a search is settled or dies
\* once, the description grows only after an answer, and is left alone then.
THEOREM FinderRefinesDiscovery == Spec => ImplementsDiscovery
<1>1. Init => Finding!Init
  BY DEF Init, Finding!Init, phase
<1>2. IInv /\ IInv' /\ [Next]_vars => [Finding!Next]_(Finding!vars)
  BY StepRefines
<1> QED
  BY <1>1, <1>2, SpecIInv, PTL DEF Spec, ImplementsDiscovery, Finding!Spec
=============================================================================
