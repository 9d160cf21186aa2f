----------------------------- MODULE HttpExchange -----------------------------
(***************************************************************************)
(* The synchronous requests to the camera: InvokeCommand, and the two      *)
(* functions getRequest and postRequest of each of the programs            *)
(* HelloHttpPost and StreamDump, which call them one after the other and   *)
(* look at no return value.  All connect, write a request, read status     *)
(* line, header and body, and print the exceptions.  They differ in what   *)
(* they do with the body and with an error at its end.                     *)
(*                                                                         *)
(* A response comes in pieces: two of the status line, one for the rest of *)
(* the header, and those of the body.                                      *)
(***************************************************************************)
EXTENDS Integers, Sequences

CONSTANTS
    BodyPieces,    \* how many pieces the body of a response has at most
    DumpLimit      \* 128 KiB, in pieces

ASSUME HttpAssumption == BodyPieces \in Nat /\ DumpLimit \in Nat

VARIABLES
    numeric, endpoints,         \* is the server an address? which endpoints accept?
    accepts, fields,            \* the status is 200; there are header lines
    conn, arrived,              \* the connection, and the pieces that have come over it
    todo,                       \* the calls that are not over
    at,                         \* where the call stands
    tried, error,               \* endpoints tried, and the error code
    received,                   \* response holds what has been read and not used
    content,                    \* what was written out, or into json_response
    contentbuf, dumped,
    result,                     \* InvokeCommand has a result
    outcome                     \* how the call has ended

server == <<numeric, endpoints>>
camera == <<accepts, fields>>
network == <<camera, conn, arrived>>
buffers == <<content, contentbuf, dumped>>
vars == <<server, network, todo, at, tried, error, received, buffers, result, outcome>>

LineEnd == 2
HeaderEnd == 3
Pieces(from, to) == [i \in 1..(to - from) |-> from + i]
Body == Pieces(HeaderEnd, HeaderEnd + BodyPieces)

HelloHttpPost == <<"hello getRequest", "hello postRequest">>
StreamDump == <<"dump postRequest", "dump getRequest">>

\* An address is one endpoint; a name is resolved to any number of them.  Those of
\* one call say nothing of those of the next, which asks at another port.
Resolved(n) == IF n THEN [{1} -> BOOLEAN] ELSE UNION {[1..k -> BOOLEAN] : k \in 0..2}

Init ==
    /\ numeric \in BOOLEAN /\ endpoints \in Resolved(numeric)
    /\ todo \in {<<"InvokeCommand">>, HelloHttpPost, StreamDump}
    /\ accepts = TRUE /\ fields = TRUE /\ conn = "none" /\ arrived = 0
    /\ at = "connect" /\ tried = 0 /\ error = "host_not_found" /\ received = 0
    /\ content = << >> /\ contentbuf = << >> /\ dumped = << >>
    /\ result = FALSE /\ outcome = "none"

-----------------------------------------------------------------------------
(* The camera *)

Environment ==
    UNCHANGED <<server, camera, todo, at, tried, error, received, buffers, result, outcome>>

Arrive ==
    /\ conn = "open" /\ at # "write" /\ arrived < HeaderEnd + BodyPieces
    /\ arrived' = arrived + 1 /\ UNCHANGED conn /\ Environment

Close == conn = "open" /\ conn' \in {"eof", "reset"} /\ UNCHANGED arrived /\ Environment

-----------------------------------------------------------------------------
(* A call of c *)

Is(c, s) == todo # << >> /\ Head(todo) = c /\ at = s

Ends(c, how) ==
    /\ at' = "ended" /\ outcome' = how
    /\ UNCHANGED <<server, network, todo, tried, received>>

\* An exception, printed by the handler at the end of the function, which returns 0.
Throw(c) == Ends(c, "exception") /\ UNCHANGED <<error, buffers, result>>

\* connectSocket, or the same written out in the function.
Open == conn' = "open" /\ accepts' \in BOOLEAN /\ fields' \in BOOLEAN /\ UNCHANGED arrived

ConnectAddress(c) ==
    /\ Is(c, "connect") /\ numeric /\ endpoints[1]
    /\ Open /\ at' = "write"
    /\ UNCHANGED <<server, todo, tried, error, received, buffers, result, outcome>>

ConnectNext(c) ==
    /\ Is(c, "connect") /\ ~numeric /\ error # "none" /\ tried < Len(endpoints)
    /\ tried' = tried + 1
    /\ IF endpoints[tried'] THEN error' = "none" /\ Open ELSE error' = "refused" /\ UNCHANGED network
    /\ UNCHANGED <<server, todo, at, received, buffers, result, outcome>>

Connected(c) ==
    /\ Is(c, "connect") /\ error = "none" /\ at' = "write"
    /\ UNCHANGED <<server, network, todo, tried, error, received, buffers, result, outcome>>

ConnectFails(c) ==
    /\ Is(c, "connect") /\ IF numeric THEN ~endpoints[1] ELSE error # "none" /\ tried = Len(endpoints)
    /\ Throw(c)

Goes(s) == at' = s /\ UNCHANGED <<server, network, todo, tried, error, result, outcome>>

\* The request is written; a connection already reset refuses it.
Write(c) == Is(c, "write") /\ conn # "reset" /\ Goes("status") /\ UNCHANGED <<received, buffers>>
WriteFails(c) == Is(c, "write") /\ conn = "reset" /\ Throw(c)

\* read_until reads at least to its delimiter.  What is left of a header without
\* lines is only one line end: the delimiter is not in it.
HasLine(n) == n >= LineEnd
HasHeader(n) == n >= HeaderEnd /\ fields

ReadStatus(c, n) ==
    /\ Is(c, "status") /\ conn # "reset" /\ HasLine(n)
    /\ received' = n /\ Goes("check") /\ UNCHANGED buffers

Refuse(c) == Is(c, "check") /\ ~accepts /\ Ends(c, "refused") /\ UNCHANGED <<error, buffers, result>>
Accept(c) == Is(c, "check") /\ accepts /\ Goes("header") /\ UNCHANGED <<received, buffers>>

\* The lines of the header are printed up to the blank one, and what has come
\* behind it is content already.
ReadHeader(c, n) ==
    /\ Is(c, "header") /\ HasHeader(n)
    /\ IF HasHeader(received) THEN n = received ELSE conn # "reset"
    /\ received' = n /\ content' = Pieces(HeaderEnd, n)
    /\ Goes("body") /\ UNCHANGED <<contentbuf, dumped>>

ReadThrows(c) ==
    /\ \/ Is(c, "status")
       \/ Is(c, "header") /\ ~HasHeader(received)
    /\ \/ conn = "reset"
       \/ conn = "eof" /\ ~(IF at = "status" THEN HasLine(arrived) ELSE HasHeader(arrived))
    /\ Throw(c)

\* Every function but getRequest of StreamDump writes the pieces out.
ReadBody(c, n) ==
    /\ Is(c, "body") /\ conn # "reset" /\ n > received
    /\ received' = n /\ content' = content \o Pieces(received, n)
    /\ Goes("body") /\ UNCHANGED <<contentbuf, dumped>>

\* It keeps them until there is enough to be dumped, and then breaks.
KeepBody(c, n) ==
    LET kept == contentbuf \o Pieces(received, n) IN
    /\ Is(c, "body") /\ conn # "reset" /\ n > received
    /\ received' = n /\ UNCHANGED content
    /\ IF Len(kept) > DumpLimit
       THEN dumped' = kept /\ contentbuf' = << >> /\ Goes("close")
       ELSE contentbuf' = kept /\ UNCHANGED dumped /\ Goes("body")

\* A read of nothing ends the loop, and leaves its reason in error.
ReadIgnored(c) ==            \* mutant: a reset does not end the loop
    /\ Is(c, "body") /\ conn = "eof" /\ received = arrived
    /\ error' = conn /\ at' = "end"
    /\ UNCHANGED <<server, network, todo, tried, received, buffers, result, outcome>>
ReadEnds(c) ==
    /\ Is(c, "body")
    /\ conn = "reset" \/ (conn = "eof" /\ received = arrived)
    /\ error' = conn /\ at' = "end"
    /\ UNCHANGED <<server, network, todo, tried, received, buffers, result, outcome>>

AnyEnd(c) ==                 \* mutant: the reason is not looked at
    Is(c, "end") /\ Ends(c, "clean") /\ UNCHANGED <<error, buffers, result>>

\* HelloHttpPost: anything but the end of the connection is thrown.
EndOfFile(c) ==
    /\ Is(c, "end") /\ Ends(c, IF error = "eof" THEN "clean" ELSE "exception")
    /\ UNCHANGED <<error, buffers, result>>

\* StreamDump: after the loop, however it ended, the function returns.
EndOfLoop(c) == (Is(c, "end") \/ Is(c, "close")) /\ Ends(c, "clean") /\ UNCHANGED <<error, buffers, result>>

\* InvokeCommand: read_json throws for what is not the whole of a document.
ReadJson(c) ==
    /\ Is(c, "end")
    /\ Ends(c, IF content = Body THEN "clean" ELSE "exception")
    /\ result' = (content = Body) /\ UNCHANGED <<error, buffers>>

-----------------------------------------------------------------------------
Connect(c) == ConnectAddress(c) \/ ConnectNext(c) \/ Connected(c) \/ ConnectFails(c)

Request(c) ==
    \/ Connect(c) \/ Write(c) \/ WriteFails(c)
    \/ \E n \in 1..arrived : ReadStatus(c, n) \/ ReadHeader(c, n)
    \/ Refuse(c) \/ Accept(c) \/ ReadThrows(c) \/ ReadEnds(c)

Printing(c) == Request(c) \/ \E n \in 1..arrived : ReadBody(c, n)

InvokeCommand == Printing("InvokeCommand") \/ ReadJson("InvokeCommand")
HelloGetRequest == Printing("hello getRequest") \/ EndOfFile("hello getRequest")
HelloPostRequest == Printing("hello postRequest") \/ EndOfFile("hello postRequest")
DumpPostRequest == Printing("dump postRequest") \/ EndOfLoop("dump postRequest")
DumpGetRequest ==
    \/ Request("dump getRequest") \/ EndOfLoop("dump getRequest")
    \/ \E n \in 1..arrived : KeepBody("dump getRequest", n)

\* The next call, whatever has come of this one.  Its socket and buffers are new.
Continue ==
    /\ at = "ended" /\ todo # << >>
    /\ todo' = Tail(todo) /\ at' = "connect" /\ tried' = 0 /\ error' = "host_not_found"
    /\ conn' = "none" /\ arrived' = 0 /\ received' = 0 /\ outcome' = "none" /\ result' = FALSE
    /\ content' = << >> /\ contentbuf' = << >> /\ dumped' = << >>
    /\ endpoints' \in Resolved(numeric) /\ UNCHANGED <<numeric, camera>>

Program ==
    \/ InvokeCommand \/ HelloGetRequest \/ HelloPostRequest
    \/ DumpPostRequest \/ DumpGetRequest \/ Continue

Next == Arrive \/ Close \/ Program

Spec == Init /\ [][Next]_vars

\* The program runs, and a camera that accepts goes on until it closes, as
\* "Connection: close" asks it to.
FairSpec == Spec /\ WF_vars(Program) /\ WF_vars(Arrive \/ Close)

-----------------------------------------------------------------------------
(* Properties *)

\* What is handed on is the body from its first piece on, without a gap, however
\* the response is cut and wherever the pieces are written.
Handed == content \o dumped \o contentbuf
Gapless == Handed = Pieces(HeaderEnd, HeaderEnd + Len(Handed))

\* A call without a connection has tried every endpoint.
GivesUpLast == outcome = "exception" /\ conn = "none" => \A i \in DOMAIN endpoints : ~endpoints[i]

\* A response is refused only for its status, and nothing of it is handed on.
RefusedIsRefused == outcome = "refused" => ~accepts /\ Handed = << >>

\* A call that ends without complaint has handed on every byte it read.  For one of
\* HelloHttpPost that is all the camera sent before it closed, as "treat all data up
\* until the EOF as the content" says; StreamDump ends so after a reset, too, with
\* the part that came, and dumps more than its limit or nothing.  InvokeCommand
\* returns 0 after an exception as well: its result, there exactly if it has not
\* thrown, is the whole body.
Calls(functions) == todo # << >> /\ Head(todo) \in functions
CleanIsWhole ==
    /\ outcome = "clean" => Handed = Pieces(HeaderEnd, received)
    /\ outcome = "clean" /\ Calls({HelloHttpPost[1], HelloHttpPost[2]}) => conn = "eof" /\ received = arrived
    /\ dumped # << >> => Len(dumped) > DumpLimit
    /\ result <=> outcome = "clean" /\ Calls({"InvokeCommand"})
    /\ result => Handed = Body

\* What a call says of the exchange is so: a request was given up or refused as the
\* call reports it, and its end without complaint means what its function makes of it.
AnswerIsTrue == Gapless /\ GivesUpLast /\ RefusedIsRefused /\ CleanIsWhole

\* Whatever each camera answers, and however it ends, every call returns.
CallsReturn == <>(todo = << >>)

=============================================================================
