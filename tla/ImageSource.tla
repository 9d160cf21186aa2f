----------------------------- MODULE ImageSource -----------------------------
(***************************************************************************)
(* ImageSource and its three stages: the source reads the body of an HTTP  *)
(* response on a thread of its own and pushes it into the demuxer, which   *)
(* cuts it into packets and pushes them into the presenter's queue, both   *)
(* in the source's thread.  Every stage is a StreamFlow with a thread, a   *)
(* mutex and the flags _isRunning and _isStopping; the threads of demuxer  *)
(* and presenter end at once.  An owner starts the stages and destroys     *)
(* them while the camera sends, answers badly or closes the connection.    *)
(*                                                                         *)
(* The bytes of a body are "start", the FF a packet begins with, "ff", an  *)
(* FF inside a packet, or "other".  Where the parser fails, as the runs of *)
(* LiveViewPacket show, is part of the body: before which bytes no push    *)
(* may end, and which bytes and packets are refused.                       *)
(***************************************************************************)
EXTENDS Integers, Sequences, FiniteSetsExt

CONSTANTS
    Bodies,      \* the bodies a camera may send: their bytes, and by their indices
                 \*   inner: bytes that continue a number, misread if a push ends before them
                 \*   status: additional statuses, compared with the three bytes behind them
                 \*   refused: values that no enumeration of the parser lists, and
                 \*     additional statuses that bytes other than 0 follow
                 \*   empty: first bytes of images without a byte of data or padding
    Threshold,   \* contentbuf is pushed when it holds more bytes, 1024 in the code
    MaxStarts    \* bound on the calls of ImageSource::Start

ASSUME ImageSourceAssumption ==
    /\ \A b \in Bodies :
        /\ b.bytes \in Seq({"start", "ff", "other"})
        /\ Len(b.bytes) > 0 /\ b.bytes[1] = "start"
        /\ {b.inner, b.status, b.refused, b.empty} \subseteq SUBSET (1..Len(b.bytes))
    /\ Threshold \in Nat
    /\ MaxStarts \in Nat \ {0}

VARIABLES
    body,           \* what the camera sends in this behaviour
    answer,         \* how far it has answered: "none", "status", "ok", "error"
    sent, closed,   \* bytes of the body sent, and has it closed the connection?
    pc,             \* where the source's thread stands
    dropped,        \* body bytes that came with the response header
    read, taken,    \* contentbuf holds bytes taken+1 .. read
    cur,            \* where the demuxer's packet starts, 0 when it is empty
    sync,           \* "ok", "torn" (its packet has misread a number), "refused" (a byte
                    \*   before the packet's second), "stuck"
    _queue,         \* StreamPresenter::_queue: packets by their first byte
    _thread,        \* per stage: "none", "running", "ended" or "joined"
    _isRunning, _isStopping,
    locked,         \* the stages whose mutex the owner holds
    owner, at,      \* what the owner does, with which stage
    starts,         \* calls of ImageSource::Start
    torn,           \* history: the packets with a number that two pushes have cut
    readsAfterStop  \* history: reads since Stop of the source was called

camera == <<body, answer, sent, closed>>
buffer == <<dropped, read, taken>>
demuxed == <<cur, sync, _queue, torn>>
flow == <<_thread, _isRunning, _isStopping, locked>>
control == <<owner, at, starts>>
vars == <<camera, pc, buffer, demuxed, flow, control, readsAfterStop>>

Stage == {"source", "demuxer", "presenter"}

StartOrder == <<"presenter", "demuxer", "source">>    \* ImageSource::Start
StopOrderReversed == <<"presenter", "demuxer", "source">>     \* mutant
StopOrder == <<"source", "demuxer", "presenter">>     \* ImageSource::~ImageSource

\* Nothing runs once the process has been terminated.
Alive == owner # "terminated"

Init ==
    /\ body \in Bodies /\ answer = "none" /\ sent = 0 /\ closed = FALSE
    /\ pc = "connect"
    /\ dropped = 0 /\ read = 0 /\ taken = 0
    /\ cur = 0 /\ sync = "ok" /\ _queue = << >> /\ torn = {}
    /\ _thread = [s \in Stage |-> "none"]
    /\ _isRunning = [s \in Stage |-> FALSE]
    /\ _isStopping = [s \in Stage |-> FALSE]
    /\ locked = {}
    /\ owner = "start" /\ at = 1 /\ starts = 1
    /\ readsAfterStop = 0

-----------------------------------------------------------------------------
(* The owner: StreamFlow::Start and Stop, called by ImageSource *)

NextStage(then) ==
    IF at < 3 THEN at' = at + 1 /\ UNCHANGED owner ELSE at' = 1 /\ owner' = then

\* Start returns at once while _isRunning is set; only the source ever resets it.
StartRunning ==
    /\ owner = "start" /\ _isRunning[StartOrder[at]]
    /\ NextStage("idle")
    /\ UNCHANGED <<camera, pc, buffer, demuxed, flow, starts, readsAfterStop>>

Unmarked(s) == _isRunning    \* mutant: the flag is left to the thread
Running(s) == [_isRunning EXCEPT ![s] = TRUE]

\* The first Start of a stage makes its thread.
StartThread ==
    /\ owner = "start" /\ ~_isRunning[StartOrder[at]] /\ _thread[StartOrder[at]] = "none"
    /\ _isRunning' = Running(StartOrder[at])
    /\ _thread' = [_thread EXCEPT ![StartOrder[at]] = "running"]
    /\ NextStage("idle")
    /\ UNCHANGED <<camera, pc, buffer, demuxed, _isStopping, locked, starts, readsAfterStop>>

\* Another Start makes a thread in place of one that nobody has joined: the
\* destructor of that std::thread terminates the process.
StartTerminates ==
    /\ owner = "start" /\ ~_isRunning[StartOrder[at]] /\ _thread[StartOrder[at]] # "none"
    /\ owner' = "terminated"
    /\ UNCHANGED <<camera, pc, buffer, demuxed, flow, at, starts, readsAfterStop>>

StartAgain ==
    /\ owner = "idle" /\ starts < MaxStarts
    /\ owner' = "start" /\ starts' = starts + 1
    /\ UNCHANGED <<camera, pc, buffer, demuxed, flow, at, readsAfterStop>>

Destroy ==
    /\ owner = "idle"
    /\ owner' = "stop"
    /\ UNCHANGED <<camera, pc, buffer, demuxed, flow, at, starts, readsAfterStop>>

\* Stop takes the mutex, which it keeps while it joins, and sets the flag.
Stop ==
    /\ owner = "stop"
    /\ locked' = locked \cup {StopOrder[at]}
    /\ _isStopping' = [_isStopping EXCEPT ![StopOrder[at]] = TRUE]
    /\ owner' = "join"
    /\ UNCHANGED <<camera, pc, buffer, demuxed, _thread, _isRunning, at, starts, readsAfterStop>>

JoinWithoutWaiting(s) == TRUE    \* mutant: the thread is left to itself
JoinByFlag(s) == ~_isRunning[s]  \* mutant: Stop waits for the flag
CanJoin(s) == _thread[s] = "ended"

\* The thread has ended: it is joined, the flag reset, the mutex released.
Join ==
    /\ owner = "join" /\ CanJoin(StopOrder[at])
    /\ _thread' = [_thread EXCEPT ![StopOrder[at]] = IF @ = "ended" THEN "joined" ELSE @]
    /\ _isStopping' = [_isStopping EXCEPT ![StopOrder[at]] = FALSE]
    /\ locked' = locked \ {StopOrder[at]}
    /\ IF at < 3 THEN at' = at + 1 /\ owner' = "stop" ELSE at' = 1 /\ owner' = "gone"
    /\ UNCHANGED <<camera, pc, buffer, demuxed, _isRunning, starts, readsAfterStop>>

\* Run of the demuxer and of the presenter does nothing, and leaves _isRunning set.
RunNothing(s) ==
    /\ Alive /\ _thread[s] = "running"
    /\ _thread' = [_thread EXCEPT ![s] = "ended"]
    /\ UNCHANGED <<camera, pc, buffer, demuxed, _isRunning, _isStopping, locked, control, readsAfterStop>>

-----------------------------------------------------------------------------
(* The source's thread: StreamSource::Run and downloadStream *)

At(label) == Alive /\ pc = label /\ _thread["source"] = "running"

\* Nothing but the place in the code changes.
Goto(label) ==
    /\ pc' = label
    /\ UNCHANGED <<camera, buffer, demuxed, flow, control, readsAfterStop>>

Connect == At("connect") /\ Goto("status")

\* connectSocket throws, or a response line is missing or not a success, or the
\* header ends early: the exception is caught by Run.
Throw ==
    /\ \/ At("connect")
       \/ At("status") /\ (answer = "error" \/ (answer = "none" /\ closed))
       \/ At("headers") /\ answer = "status" /\ closed
    /\ Goto("exit")

Status == At("status") /\ answer \in {"status", "ok"} /\ Goto("headers")

\* The header is read, and n bytes of the body with it, which are printed and
\* not passed on.
Headers(n) ==
    /\ At("headers") /\ answer = "ok"
    /\ pc' = "test"
    /\ dropped' = n /\ read' = n /\ taken' = n
    /\ UNCHANGED <<camera, demuxed, flow, control, readsAfterStop>>

\* The head of the loop: the flag is tested, then the read blocks.
StoppingNever == FALSE    \* mutant: the flag is not tested
Stopping == _isStopping["source"]

Test == At("test") /\ Goto(IF Stopping THEN "exit" ELSE "read")

PushLate(held) == held > Threshold + 1    \* mutant: one byte later
PushDue(held) == held > Threshold

\* The read returns n bytes, which are appended to contentbuf.
Read(n) ==
    /\ At("read")
    /\ read' = read + n
    /\ pc' = IF PushDue(read' - taken) THEN "push" ELSE "test"
    /\ readsAfterStop' = IF _isStopping["source"] THEN readsAfterStop + 1 ELSE readsAfterStop
    /\ UNCHANGED <<camera, dropped, taken, demuxed, flow, control>>

EofIgnored == At("read") /\ closed /\ read = sent /\ Goto("test")    \* mutant
ReadEnds == At("read") /\ closed /\ read = sent /\ Goto("exit")

\* Run resets _isRunning, with no mutex held.
Exit ==
    /\ At("exit")
    /\ pc' = "done" /\ _isRunning' = [_isRunning EXCEPT !["source"] = FALSE]
    /\ UNCHANGED <<camera, buffer, demuxed, _thread, _isStopping, locked, control, readsAfterStop>>

ThreadEnds ==
    /\ At("done")
    /\ _thread' = [_thread EXCEPT !["source"] = "ended"]
    /\ UNCHANGED <<camera, pc, buffer, demuxed, _isRunning, _isStopping, locked, control, readsAfterStop>>

-----------------------------------------------------------------------------
(* StreamDemuxer::Push and StreamPresenter::Push, in the source's thread *)

Bytes == body.bytes
Held == (taken + 1)..read
FF == {i \in Held : Bytes[i] # "other"}
\* Index of the last byte of the packet that begins at i.
EndOf(i) == Min({j \in i..Len(Bytes) : j = Len(Bytes) \/ Bytes[j + 1] = "start"})

Completed(i) == TRUE         \* mutant: the packet is taken to be complete
Complete(i) == EndOf(i) <= read    \* LiveViewPacket::IsFull after Fill

Filling == At("push") /\ taken < read

\* The packet to fill: the one begun, or the one at the first FF.
Fillable(i) ==
    \/ cur # 0 /\ i = cur
    \/ cur = 0 /\ FF # {} /\ i = Min(FF) /\ Bytes[i] = "start"

\* The bytes at which Fill of packet i may return false, which it then does for
\* ever: a value its enumeration does not list, a status the bytes behind which
\* the buffer does not hold, so that they are those of any memory, or whatever
\* follows an image of no bytes, which is full before it is filled.
Refusals(i) ==
    {p \in Held :
        /\ p > i
        /\ \/ p <= EndOf(i) /\ (p \in body.refused \/ (p \in body.status /\ p + 3 > read))
           \/ p = EndOf(i) + 1 /\ i \in body.empty}

\* Nothing before byte p is sure to be refused.
Passes(i, p) == \A q \in Refusals(i) : q < p => q \in body.status

\* Fill takes what there is of the packet.  Inside a number it leaves the bytes
\* so far where the next ones are written.
FillPartial(i) ==
    /\ Filling /\ sync = "ok" /\ Fillable(i) /\ ~Complete(i) /\ Passes(i, read + 1)
    /\ cur' = i /\ taken' = read
    /\ IF read + 1 \in body.inner
       THEN sync' = "torn" /\ torn' = torn \cup {i}
       ELSE UNCHANGED <<sync, torn>>
    /\ UNCHANGED <<camera, pc, dropped, read, _queue, flow, control, readsAfterStop>>

\* Fill completes the packet: it goes into the queue under the presenter's mutex.
NewPacketKept == UNCHANGED cur    \* mutant: no new packet is made
NewPacket == cur' = 0

Deliver(i) == "presenter" \notin locked /\ _queue' = Append(_queue, i) /\ NewPacket

FillFull(i) ==
    /\ Filling /\ sync = "ok" /\ Fillable(i) /\ Complete(i) /\ Passes(i, read + 1)
    /\ taken' = EndOf(i)
    /\ Deliver(i)
    /\ UNCHANGED <<camera, pc, dropped, read, sync, torn, flow, control, readsAfterStop>>

\* Fill refuses a byte: the packet takes no other one, and the loop goes round.
FillStuck(i) ==
    /\ Filling /\ sync = "ok" /\ Fillable(i)
    /\ \E p \in Refusals(i) : Passes(i, p) /\ taken' = p - 1
    /\ cur' = i /\ sync' = "stuck"
    /\ UNCHANGED <<camera, pc, dropped, read, _queue, torn, flow, control, readsAfterStop>>

\* A packet that has misread a number ends anywhere, or later, or refuses what
\* it does not expect.
FillTorn ==
    /\ Filling /\ sync = "torn"
    /\ \/ taken' = read /\ UNCHANGED <<cur, sync, _queue>>
       \/ taken' \in Held /\ Deliver(cur) /\ sync' = "ok"
       \/ taken' \in taken..(read - 1) /\ sync' = "stuck" /\ UNCHANGED <<cur, _queue>>
    /\ UNCHANGED <<camera, pc, dropped, read, torn, flow, control, readsAfterStop>>

\* SkipUntil finds no FF and drops all there is.
FillSkips ==
    /\ Filling /\ sync = "ok" /\ cur = 0 /\ FF = {}
    /\ taken' = read
    /\ UNCHANGED <<camera, pc, dropped, read, demuxed, flow, control, readsAfterStop>>

\* An FF inside a packet is taken for a start byte; the byte after it, which
\* is no payload type, is refused, at the latest when it comes.
FillRefused ==
    /\ Filling /\ sync = "ok" /\ cur = 0 /\ FF # {} /\ Bytes[Min(FF)] = "ff"
    /\ taken' = Min(FF)
    /\ sync' = IF Min(FF) < read THEN "refused" ELSE "stuck"
    /\ UNCHANGED <<camera, pc, dropped, read, cur, _queue, torn, flow, control, readsAfterStop>>

\* The packet that refused a byte still counts as empty: bytes are skipped once
\* more, up to an FF, which it refuses for good, or to the end of the buffer,
\* which leaves it one byte long and waiting for a payload type.
FillSkipsAgain ==
    /\ Filling /\ sync = "refused"
    /\ taken' = IF FF = {} THEN read ELSE Min(FF) - 1
    /\ sync' = "stuck"
    /\ UNCHANGED <<camera, pc, dropped, read, cur, _queue, torn, flow, control, readsAfterStop>>

\* The buffer is used up.  A stuck demuxer never gets here with bytes left: its
\* loop goes round for ever and changes nothing.
PushReturns == At("push") /\ taken = read /\ Goto("test")

-----------------------------------------------------------------------------
(* The camera *)

CameraStep == Alive /\ UNCHANGED <<body, pc, buffer, demuxed, flow, control, readsAfterStop>>

Answer ==
    /\ ~closed /\ pc # "connect"
    /\ \/ answer = "none" /\ answer' \in {"status", "error"}
       \/ answer = "status" /\ answer' = "ok"
    /\ UNCHANGED <<sent, closed>> /\ CameraStep

Send ==
    /\ ~closed /\ answer = "ok" /\ sent < Len(Bytes)
    /\ sent' = sent + 1
    /\ UNCHANGED <<answer, closed>> /\ CameraStep

Close ==
    /\ ~closed /\ pc # "connect"
    /\ closed' = TRUE
    /\ UNCHANGED <<answer, sent>> /\ CameraStep

-----------------------------------------------------------------------------
Owner == StartRunning \/ StartThread \/ StartTerminates \/ StartAgain \/ Destroy \/ Stop \/ Join

Demux ==
    \/ \E i \in 1..Len(Bytes) : FillPartial(i) \/ FillFull(i) \/ FillStuck(i)
    \/ FillTorn \/ FillSkips \/ FillRefused \/ FillSkipsAgain \/ PushReturns

Source ==
    \/ Connect \/ Throw \/ Status \/ Test \/ ReadEnds \/ Exit \/ ThreadEnds
    \/ \E n \in 0..sent : Headers(n)
    \/ \E n \in 1..(sent - read) : Read(n)
    \/ Demux

Camera == Answer \/ Send \/ Close

Next ==
    \/ Owner \/ Source \/ Camera
    \/ RunNothing("demuxer") \/ RunNothing("presenter")

Spec == Init /\ [][Next]_vars

\* Threads run, the owner does what it has begun, and the camera goes on: every
\* blocking read gets bytes, or the end of the connection.
FairSpec ==
    /\ Spec
    /\ WF_vars(StartRunning \/ StartThread \/ StartTerminates \/ Stop \/ Join)
    /\ WF_vars(Source)
    /\ WF_vars(Camera)
    /\ \A s \in {"demuxer", "presenter"} : WF_vars(RunNothing(s))

-----------------------------------------------------------------------------
(* Properties *)

TypeOK ==
    /\ body \in Bodies
    /\ answer \in {"none", "status", "ok", "error"}
    /\ sent \in 0..Len(Bytes) /\ closed \in BOOLEAN
    /\ pc \in {"connect", "status", "headers", "test", "read", "push", "exit", "done"}
    /\ dropped \in 0..sent /\ read \in 0..sent /\ taken \in 0..read
    /\ cur \in 0..taken /\ sync \in {"ok", "torn", "refused", "stuck"}
    /\ _queue \in Seq(1..Len(Bytes)) /\ torn \subseteq 1..Len(Bytes)
    /\ _thread \in [Stage -> {"none", "running", "ended", "joined"}]
    /\ _isRunning \in [Stage -> BOOLEAN] /\ _isStopping \in [Stage -> BOOLEAN]
    /\ locked \subseteq Stage
    /\ owner \in {"start", "idle", "stop", "join", "gone", "terminated"} /\ at \in 1..3
    /\ starts \in 1..MaxStarts /\ readsAfterStop \in Nat

\* The packets the presenter should have: those that begin after the bytes lost
\* with the header and whose last byte has left contentbuf, but the one that is
\* still being filled.
Due == {i \in (dropped + 1)..taken : Bytes[i] = "start" /\ EndOf(i) <= taken /\ i # cur}
Delivered == {_queue[k] : k \in DOMAIN _queue}

\* The header's read ended inside a packet, and what the demuxer took for the next
\* start byte was none: nothing has been delivered.
LostAtHeader ==
    _queue = << >> /\ dropped > 0 /\ dropped < Len(Bytes) /\ Bytes[dropped + 1] # "start"

\* The demuxer stands before a byte that the packet it fills may refuse.
StandsAtRefusal ==
    /\ cur # 0
    /\ taken + 1 \in body.refused \cup body.status \/ (taken = EndOf(cur) /\ cur \in body.empty)

\* The queue is in the order of the stream, none of its packets twice, and all
\* of them complete but those with a number cut by the end of a push.  Before the
\* first of these it holds every packet due, whatever pieces the body came in, and
\* the demuxer is out of step only for what it took for a packet when the header's
\* read had ended inside one, or for a byte that it refuses.
QueueIsStream ==
    /\ \A k \in 2..Len(_queue) : _queue[k - 1] < _queue[k]
    /\ Delivered \ torn \subseteq Due
    /\ torn = {} => Due \subseteq Delivered /\ (sync = "ok" \/ LostAtHeader \/ StandsAtRefusal)

\* Between two rounds of the loop contentbuf holds no more than the threshold:
\* what the end of a stream leaves undelivered is bounded by it.
HeldBounded == pc # "push" => read - taken <= Threshold

\* While the source's thread may push, the stages below it have been started and
\* not been stopped.
DownstreamReady ==
    _thread["source"] = "running" =>
        \A s \in {"demuxer", "presenter"} : _thread[s] \in {"running", "ended"} /\ s \notin locked

\* Once the owner has destroyed the stages none of their threads is left.
NoThreadOutlives == owner = "gone" => \A s \in Stage : _thread[s] = "joined"

\* When Stop is called the source reads at most once more: the read it may be
\* waiting in already.
OneReadAfterStop == readsAfterStop <= 1

\* A second Start ends the process only after the source's Run is over: while it
\* runs, a Start is ignored.
TerminatesOnlyEnded == owner = "terminated" => pc = "done"

\* The destructor returns, unless the demuxer is stuck and keeps the source's
\* thread from its loop.
DestructorReturns == owner = "stop" ~> (owner = "gone" \/ sync = "stuck")

\* Once the camera has closed the connection the source's thread comes to its end.
EndOfStreamEnds ==
    (closed /\ _thread["source"] = "running")
        ~> (_thread["source"] # "running" \/ sync = "stuck" \/ owner = "terminated")
=============================================================================
