---------------------------- MODULE DeviceFinder ----------------------------
(***************************************************************************)
(* DeviceFinder: a chain of asynchronous operations and their handlers,    *)
(* run one after the other by the thread of its AsyncTask.  It sends one   *)
(* M-SEARCH by multicast, receives one datagram, connects to the camera    *)
(* named in it, sends a request, reads the status line, the header and the *)
(* body of the response, and hands the body to DeviceDescription.  The     *)
(* main thread may destroy it at any time: first the buffers and the       *)
(* description go, then the sockets, and only then the thread is joined.   *)
(* Until then the operation outstanding and the handlers go on; what they  *)
(* do with a member that is gone is undefined, and recorded.               *)
(*                                                                         *)
(* The response comes in pieces: two of the status line, one that ends the *)
(* header, and those of the body.  The delimiter "\0" of the code is the   *)
(* empty string, which is found as soon as there is a byte in the buffer.  *)
(***************************************************************************)
EXTENDS Integers, Sequences

CONSTANT BodyPieces     \* how many pieces the body of a response has

ASSUME FinderAssumption == BodyPieces \in Nat \ {0}

VARIABLES
    xml, accepts,      \* what the camera describes, and does it answer 200?
    reply,             \* the datagram that has come: "none", "camera", "refusal", "other"
    conn, arrived,     \* the connection, and the pieces that have come over it
    pending,           \* the operation outstanding, "none" for none
    result,            \* how it has completed: "none" (not yet), "ok", "eof", "error"
    received, consumed,      \* tcp_response_ holds the pieces consumed+1 .. received
    content_,          \* the body pieces kept
    sockets,           \* "open" or "closed"
    _liveViewUrl, _cameraServiceUrl,    \* are they set?
    life,              \* "alive", "dying" (without its buffers), "destroyed" (without
                       \* its sockets), "gone", or "terminated"
    atDestroy, touched,\* history: what was outstanding then, and was a member used after
    rejected           \* history: the status line was called invalid

camera == <<xml, accepts>>
network == <<reply, conn, arrived>>
buffers == <<received, consumed, content_>>
description == <<_liveViewUrl, _cameraServiceUrl>>
fate == <<life, atDestroy>>
vars == <<camera, network, pending, result, buffers, sockets, description, fate, touched, rejected>>

LineEnd == 2
HeaderEnd == 3
ResponseEnd == HeaderEnd + BodyPieces
Body == [i \in 1..BodyPieces |-> HeaderEnd + i]
PiecesFrom(from, to) == [i \in 1..(to - from) |-> from + i - 1]    \* mutant: off by one
Pieces(from, to) == [i \in 1..(to - from) |-> from + i]

\* What the camera's XML has: all, or no live view; no list of services, or one with
\* a node missing in front of the camera's; no camera among them; all, with a node
\* missing in a service behind the camera's.
Descriptions == {"whole", "no live view", "no services", "no camera", "broken behind"}

Init ==
    /\ xml \in Descriptions /\ accepts \in BOOLEAN
    /\ reply = "none" /\ conn = "none" /\ arrived = 0
    /\ pending = "send" /\ result = "none"
    /\ received = 0 /\ consumed = 0 /\ content_ = << >>
    /\ sockets = "open" /\ _liveViewUrl = FALSE /\ _cameraServiceUrl = FALSE
    /\ life = "alive" /\ atDestroy = "none" /\ touched = FALSE /\ rejected = FALSE

\* The finder's thread runs.
On == life \in {"alive", "dying", "destroyed"}

-----------------------------------------------------------------------------
(* The network and the camera.  A datagram need not come, and none comes to a *)
(* socket that has been destroyed. *)

World == On /\ UNCHANGED <<camera, pending, result, buffers, sockets, description, fate, touched, rejected>>

Reply ==
    /\ reply = "none" /\ pending # "send" /\ life # "destroyed"
    /\ reply' \in {"camera", "refusal", "other"}
    /\ UNCHANGED <<conn, arrived>> /\ World

Arrive ==
    /\ conn = "open" /\ pending # "write" /\ arrived < ResponseEnd
    /\ arrived' = arrived + 1
    /\ UNCHANGED <<reply, conn>> /\ World

Close ==
    /\ conn = "open" /\ conn' \in {"eof", "reset"}
    /\ UNCHANGED <<reply, arrived>> /\ World

-----------------------------------------------------------------------------
(* Completion of the operation outstanding *)

\* Does the buffer hold what a read waits for?
Enough(n) ==
    CASE pending = "status" -> n > consumed
      [] pending = "header" -> n >= HeaderEnd
      [] pending = "first"  -> n > consumed
      [] OTHER -> FALSE

Reading == pending \in {"status", "header", "first", "more"}

\* The operation outstanding works on a member until it has completed: a sending on
\* message_, a writing on tcp_request_, a reading on tcp_response_, to which it
\* commits what it has got even when it has got nothing.  A reception has the array
\* data_, which needs no destruction.
OperationUses == pending \notin {"none", "receive"}

Outcome(res) ==
    /\ On /\ result = "none" /\ result' = res
    /\ touched' = (touched \/ (life # "alive" /\ OperationUses))
    /\ UNCHANGED <<camera, network, pending, consumed, content_, sockets, description, fate,
                   rejected>>

CompleteSend == pending = "send" /\ Outcome("ok") /\ UNCHANGED received
CompleteReceive == pending = "receive" /\ reply # "none" /\ Outcome("ok") /\ UNCHANGED received
CompleteWrite == pending = "write" /\ conn # "reset" /\ Outcome("ok") /\ UNCHANGED received

\* A read takes what has come, and maybe more than it waits for.  What is in the
\* buffer already needs no connection.
CompleteRead(n) ==
    /\ Reading /\ Outcome("ok") /\ received' = n
    /\ IF Enough(received)
       THEN n = received
       ELSE conn # "reset" /\ n > received /\ (pending = "more" \/ Enough(n))

\* The connection ends before that.
CompleteEof ==
    /\ Reading /\ conn = "eof" /\ ~Enough(arrived)
    /\ pending = "more" => received = arrived
    /\ Outcome("eof") /\ received' = arrived

Broken == conn = "reset" /\ ((Reading /\ ~Enough(received)) \/ pending = "write")
Fail ==
    /\ Broken \/ pending \in {"send", "receive", "write"}
    /\ Outcome("error") /\ UNCHANGED received

-----------------------------------------------------------------------------
(* The handlers *)

Handler(op, res) ==
    /\ On /\ pending = op /\ result \in res
    /\ result' = "none"
    /\ UNCHANGED <<camera, fate, reply>>

\* The members, destroyed or not, are used.
Use == touched' = (touched \/ life \in {"dying", "destroyed"})

\* The next operation is begun; on destroyed sockets nothing comes of it.
Then(op) == pending' = IF life = "destroyed" THEN "none" ELSE op

Cleanup ==
    /\ sockets' = "closed" /\ Use
    /\ received' = 0 /\ consumed' = 0 /\ UNCHANGED content_

GiveUpAndRetry(op, res) ==    \* mutant: the operation is begun again
    /\ Handler(op, res) /\ Cleanup /\ pending' = op
    /\ UNCHANGED <<conn, arrived, description>>

\* A handler that reports an error, cleans up and returns.
GiveUp(op, res) ==
    /\ Handler(op, res) /\ Cleanup /\ pending' = "none"
    /\ UNCHANGED <<conn, arrived, description>>

\* A handler that reports an error and returns.
Abandon(op, res) ==
    /\ Handler(op, res) /\ pending' = "none"
    /\ UNCHANGED <<conn, arrived, buffers, sockets, description, touched, rejected>>

\* An exception leaves a handler: the thread ends the process.
Terminate(op) ==
    /\ On /\ pending = op /\ result # "none"
    /\ life' = "terminated" /\ pending' = "none" /\ result' = "none" /\ Use
    /\ UNCHANGED <<camera, network, buffers, sockets, description, atDestroy, rejected>>

handleSendToMSearch ==
    \/ GiveUp("send", {"error"}) /\ UNCHANGED rejected
    \/ /\ Handler("send", {"ok"}) /\ Then("receive") /\ Use
       /\ UNCHANGED <<conn, arrived, buffers, sockets, description, rejected>>

ErrorIsCleanedUp == GiveUp("receive", {"error"}) /\ UNCHANGED rejected    \* mutant
ErrorIsLeft == Abandon("receive", {"error"})

\* The datagram: not a success, without a LOCATION or for a host that cannot be
\* reached (both throw), or the camera's, to which the handler connects.
handleMSearchRespHeader ==
    \/ ErrorIsLeft
    \/ reply = "refusal" /\ GiveUp("receive", {"ok"}) /\ UNCHANGED rejected
    \/ reply \in {"other", "camera"} /\ result = "ok" /\ Terminate("receive")
    \/ /\ reply = "camera" /\ Handler("receive", {"ok"}) /\ Then("write") /\ Use
       /\ conn' = "open"
       /\ UNCHANGED <<arrived, buffers, sockets, description, rejected>>

handleGetDeviceDescriptionResponseHeader ==
    \/ GiveUp("write", {"error"}) /\ UNCHANGED rejected
    \/ /\ Handler("write", {"ok"}) /\ Then("status") /\ Use
       /\ UNCHANGED <<conn, arrived, buffers, sockets, description, rejected>>

\* A status line that has not come whole is taken for an invalid one.
handleGetDeviceDescriptionResponseHeaderStatusCode ==
    \/ GiveUp("status", {"error", "eof"}) /\ UNCHANGED rejected
    \/ received < LineEnd /\ GiveUp("status", {"ok"}) /\ rejected' = TRUE
    \/ received >= LineEnd /\ ~accepts /\ GiveUp("status", {"ok"}) /\ UNCHANGED rejected
    \/ /\ received >= LineEnd /\ accepts
       /\ Handler("status", {"ok"}) /\ Then("header") /\ Use
       /\ consumed' = LineEnd
       /\ UNCHANGED <<conn, arrived, received, content_, sockets, description, rejected>>

\* Every line there is is printed, also those that belong to the body.
handleGetDeviceDescriptionRensponseHeader ==
    \/ Abandon("header", {"error", "eof"})
    \/ /\ Handler("header", {"ok"}) /\ Then("first") /\ Use
       /\ consumed' = received
       /\ UNCHANGED <<conn, arrived, received, content_, sockets, description, rejected>>

\* Body pieces are kept until the end of the connection.
Content ==
    /\ pending \in {"first", "more"}
    /\ Handler(pending, {"ok"}) /\ Then("more") /\ Use
    /\ content_' = content_ \o Pieces(consumed, received) /\ consumed' = received
    /\ UNCHANGED <<conn, arrived, received, sockets, description, rejected>>

ContentReadsOn ==    \* mutant: an error is taken for the end of one piece
    /\ pending \in {"first", "more"} /\ Handler(pending, {"error"}) /\ Then("more") /\ Use
    /\ UNCHANGED <<conn, arrived, buffers, sockets, description, rejected>>
ContentFails ==
    pending \in {"first", "more"} /\ GiveUp(pending, {"error"}) /\ UNCHANGED rejected

\* DeviceDescription::ParseXml is a part of the last handler.
Parsing == On /\ pending \in {"first", "more"} /\ result = "eof"

\* It throws for what is not the whole document and for a missing node: before it has
\* set the live view URL, between the two, or behind the service of the camera.
ParseThrows ==
    /\ Parsing
    /\ \/ ~_liveViewUrl /\ (content_ # Body \/ xml = "no live view")
       \/ _liveViewUrl /\ xml = "no services"
       \/ _cameraServiceUrl /\ xml = "broken behind"
    /\ Terminate(pending)

SetLiveViewUrl ==
    /\ Parsing
    /\ ~_liveViewUrl /\ content_ = Body /\ xml # "no live view"
    /\ _liveViewUrl' = TRUE /\ Use
    /\ UNCHANGED <<camera, network, pending, result, buffers, sockets, _cameraServiceUrl, fate, rejected>>

ServiceUrlFirst ==     \* mutant: the services are gone through before the live view URL is read
    /\ Parsing
    /\ ~_cameraServiceUrl /\ content_ = Body /\ xml \in {"whole", "no live view", "broken behind"}
    /\ _cameraServiceUrl' = TRUE /\ Use
    /\ UNCHANGED <<camera, network, pending, result, buffers, sockets, _liveViewUrl, fate, rejected>>
\* The iteration of its loop that comes to the camera.
SetServiceUrl ==
    /\ Parsing
    /\ _liveViewUrl /\ ~_cameraServiceUrl /\ xml \in {"whole", "broken behind"}
    /\ _cameraServiceUrl' = TRUE /\ Use
    /\ UNCHANGED <<camera, network, pending, result, buffers, sockets, _liveViewUrl, fate, rejected>>

\* It comes to its end.
ParseReturns ==
    /\ pending \in {"first", "more"}
    /\ Handler(pending, {"eof"}) /\ Cleanup /\ pending' = "none"
    /\ _liveViewUrl /\ (xml = "no camera" \/ (xml = "whole" /\ _cameraServiceUrl))
    /\ UNCHANGED <<conn, arrived, description, rejected>>

\* A buffer or string that is gone has been written to: it may end the process.
Crash == touched /\ OperationUses /\ pending # "send" /\ Terminate(pending)

-----------------------------------------------------------------------------
(* The main thread *)

\* The destructor begins: the buffers and the description are destroyed.
Destroy ==
    /\ life = "alive" /\ life' = "dying"
    /\ atDestroy' = IF result = "none" THEN pending ELSE "handler"
    /\ UNCHANGED <<camera, network, pending, result, buffers, sockets, description, touched, rejected>>

\* Then the sockets: what is outstanding completes with an error.
SocketsLeft ==    \* mutant: what is outstanding is not cancelled
    /\ life = "dying" /\ life' = "destroyed"
    /\ UNCHANGED <<camera, network, pending, result, buffers, sockets, description, atDestroy,
                   touched, rejected>>
DestroySockets ==
    /\ life = "dying" /\ life' = "destroyed"
    /\ IF pending # "none" /\ result = "none"
       THEN result' = "error" /\ touched' = (touched \/ OperationUses)
       ELSE UNCHANGED <<result, touched>>
    /\ UNCHANGED <<camera, network, pending, buffers, sockets, description, atDestroy, rejected>>

\* ~AsyncTask has joined the thread.
Destroyed ==
    /\ life = "destroyed" /\ pending = "none" /\ life' = "gone"
    /\ UNCHANGED <<camera, network, pending, result, buffers, sockets, description, atDestroy,
                   touched, rejected>>

-----------------------------------------------------------------------------
Complete ==
    \/ CompleteSend \/ CompleteReceive \/ CompleteWrite \/ CompleteEof
    \/ \E n \in 1..arrived : CompleteRead(n)

Handle ==
    \/ handleSendToMSearch \/ handleMSearchRespHeader
    \/ handleGetDeviceDescriptionResponseHeader
    \/ handleGetDeviceDescriptionResponseHeaderStatusCode
    \/ handleGetDeviceDescriptionRensponseHeader
    \/ Content \/ ContentFails \/ ParseThrows \/ SetLiveViewUrl \/ SetServiceUrl \/ ParseReturns

Next ==
    \/ Reply \/ Arrive \/ Close
    \/ CompleteSend \/ CompleteReceive \/ CompleteWrite \/ CompleteEof
    \/ \E n \in 1..arrived : CompleteRead(n)
    \/ Fail
    \/ handleSendToMSearch \/ handleMSearchRespHeader
    \/ handleGetDeviceDescriptionResponseHeader
    \/ handleGetDeviceDescriptionResponseHeaderStatusCode
    \/ handleGetDeviceDescriptionRensponseHeader
    \/ Content \/ ContentFails \/ ParseThrows \/ SetLiveViewUrl \/ SetServiceUrl \/ ParseReturns
    \/ Crash
    \/ Destroy \/ DestroySockets \/ Destroyed

Spec == Init /\ [][Next]_vars

\* The thread runs, and operations complete when they can.  Nothing makes a
\* datagram come, or a camera go on.
FairSpec == Spec /\ WF_vars(Complete \/ (Broken /\ Fail)) /\ WF_vars(Handle)
            /\ WF_vars(DestroySockets \/ Destroyed)

\* The camera sends on until it closes, as "Connection: close" asks it to.
CameraGoesOn == WF_vars(Arrive \/ Close)

-----------------------------------------------------------------------------
(* Properties *)

TypeOK ==
    /\ xml \in Descriptions /\ accepts \in BOOLEAN
    /\ reply \in {"none", "camera", "refusal", "other"}
    /\ conn \in {"none", "open", "eof", "reset"} /\ arrived \in 0..ResponseEnd
    /\ pending \in {"none", "send", "receive", "write", "status", "header", "first", "more"}
    /\ result \in {"none", "ok", "eof", "error"}
    /\ received \in 0..arrived /\ consumed \in 0..received
    /\ content_ \in Seq(HeaderEnd + 1 .. ResponseEnd)
    /\ sockets \in {"open", "closed"} /\ _liveViewUrl \in BOOLEAN /\ _cameraServiceUrl \in BOOLEAN
    /\ life \in {"alive", "dying", "destroyed", "gone", "terminated"}
    /\ touched \in BOOLEAN /\ rejected \in BOOLEAN

\* The finder implements Discovery: it is dealt with once, a description grows from
\* nothing to all while an answer is dealt with and is left alone when no operation
\* is outstanding, and only a camera that has answered can end the program, which
\* it can at each step of the description.
phase ==
    CASE life = "terminated" -> "dead"
      [] life # "terminated" /\ pending = "none" -> "settled"
      [] pending = "send" \/ (pending = "receive" /\ result # "ok") -> "searching"
      [] OTHER -> "answered"

Finding == INSTANCE Discovery WITH
    description <- IF _cameraServiceUrl THEN "complete"
                   ELSE IF _liveViewUrl THEN "partial" ELSE "empty"

ImplementsDiscovery == Finding!Spec

\* A camera that has answered is dealt with if it goes on: no answer, however it
\* is cut, leaves the chain without an operation or a result.
AnswerSettles == CameraGoesOn => (phase = "answered" ~> phase \in {"settled", "dead"})

\* Once the sockets are closed no operation is outstanding, and none is begun:
\* Cleanup is the end of the chain.
ClosedIsLast == sockets = "closed" => pending = "none"

\* The members are destroyed before the thread is joined.  Nothing uses one of them
\* then if the search was settled, or waited for a camera and none answers before
\* the socket is destroyed too: a reception has no buffer that is destroyed, and its
\* handler returns on an error without Cleanup, which would use the members.
WaitingIsSafeToDestroy == touched => atDestroy # "none" /\ (atDestroy = "receive" => reply # "none")

\* Destruction comes to an end without the help of any camera.
ExitReturns == life = "dying" ~> life \in {"gone", "terminated"}

\* What the comment "Write all of the data that has been read so far" says: when
\* the rest of the body is read, what has been read of it is in content_.
ContentIsAllRead == pending = "more" /\ result = "none" => content_ = Pieces(HeaderEnd, received)

\* What the comment "Check that response is OK" says: a response is not called
\* invalid when it is OK.
OkIsAccepted == rejected => ~accepts

=============================================================================
