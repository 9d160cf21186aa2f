# KirinCam: specifications, model checking and proofs

KirinCam finds a Sony action camera on the network, tells it to start its live
view, downloads the live view stream and takes it apart into JPEG images. The
modules here model every part that keeps state: the search for the camera, the
tasks and their service threads, the commands, the pipeline of threads that
downloads the stream, and the incremental parser. Paths below are relative to
`src/src/app/`.

## 1. Inventory

| component | state | operations | talks to |
|---|---|---|---|
| Element tree (`LiveViewStreamingParser/src`, `Payloads.h`, `CommonHeader.*`, the leaf classes) | which elements a field holds; size, position and bytes of a leaf | `Fill` of each leaf, `Fulfilled`, `SetSize`, `SetFrameNumber` | called by `BaseField::Fill` |
| Incremental fill (`BaseField.cpp`, `IIncrementalFill.cpp`, `LiveViewPacket.cpp`) | `_it`, `_pos`, `_size` of each field | `Fill`, `CalcPos`, `CalcSize`, `SkipUntil`, `IsFull` | calls its elements; called by the demuxer |
| `StreamDemuxer` | the packet being filled | `Push(buffer)` | called in the source's thread, pushes packets to the presenter |
| `StreamFlow` | thread, recursive mutex, `_isRunning`, `_isStopping` | `Start`, `Stop`, `Run`, `Connect` | base class of the three stages |
| `StreamSource` | socket, `contentbuf` | the download loop on its own thread | camera; pushes into the demuxer |
| `StreamPresenter` | queue of packets | `Push(packet)` under its mutex | nobody reads the queue |
| `ImageSource` | the three stages | constructor, `Start`, destructor | owned by the controller |
| `AsyncTask` | `io_service`, work, thread, two flags | `Start`, `Stop`, `Run`, `RaiseEvent` | base class of the next two |
| `CameraController` | description, URL, image source | `StartStreaming`, `StopStreaming`, destructor | `InvokeCommand`, `ImageSource` |
| `DeviceFinder` | sockets, buffers, description | a chain of handlers from M-SEARCH to the XML | camera; read by `main` without a lock |
| `DeviceDescription` | two URLs | `ParseXml`, getters | called by the finder's last handler |
| `Common` | none of its own | `InvokeCommand`, `connectSocket`; URL and address text | camera |
| `StreamingSampleWin` | pointers to finder and controller | commands g, p, x | owner of both |
| `HelloHttpPost`, `StreamDump` | none | `getRequest`, `postRequest`: prototypes of the above | camera |

What is hard in it:

* **Parser.** A packet arrives in buffers that end anywhere. Every field keeps
  an iterator, a position and a size; the positions are sums computed only when
  `Fill` returns true, the sizes are undefined until a header has been read.
  A refused byte stays in the buffer and the caller simply calls again.
  Correct means: no leaf takes more than its size, no element is passed while it
  lacks bytes, image and padding have the sizes the header announces, a packet
  takes exactly its own bytes, and a correct stream is delivered completely and
  in order.
* **Pipeline.** Three threads, an owner that may destroy the stages at any
  moment, blocking reads, flags written without a lock by one thread and read by
  another, a join under a mutex. Reads from the socket are pushed where they end,
  which may be inside a number. Correct means: no thread outlives its stage,
  nothing is pushed into a stopped stage, the queue is the stream up to where the
  parser fails, `Stop` is noticed, and the destructor returns when the thread can.
* **Task and controller.** Handlers on a service thread against the owner's
  thread, which runs them too when it stops; a flag that the thread sets and the
  owner reads; exceptions that end the process or leave a `Stop` half done.
  The stream a handler replaces, or the destructor destroys, is joined there.
  Correct means: handlers run once, in order, one at a time; a stop leaves nothing
  behind; no handler that has begun runs on a destroyed controller; a controller
  has one stream, of the last URL it was given; and only a stream that hangs holds
  its destructor.
* **Finder and requests.** One datagram without a timer, responses cut anywhere,
  a connection closed or reset at any time, errors that are swallowed or escape,
  destruction while an operation is outstanding. Correct means: the search is
  dealt with once, nothing is begun after `Cleanup`, the description grows from
  nothing to all, a request reports what has happened.

`PROJECT.json` lists the hazards at their lines.

## 2. Modules

| module | models |
|---|---|
| `LiveViewElements` | the layout of a packet: names, widths, which elements a field holds, which bytes a leaf accepts, how numbers are read, `CalcSize` and `CalcPos` |
| `PacketChannel` | the abstract promise of the demuxer: each packet once, in order, unchanged |
| `LiveViewPacket` | `StreamDemuxer::Push`, `LiveViewPacket::Fill`, `BaseField::Fill` and the leaves' `Fill`, one step per loop iteration |
| `ImageSource` | the three stages, their threads, the owner and the camera |
| `AsyncTask` | a task: service, thread, `Start`, `Stop`, the handlers |
| `CameraController` | extends `AsyncTask` by the controller's members, its handler and its destruction |
| `Discovery` | the abstract promise of the finder: searching, answered, settled or dead |
| `DeviceFinder` | the chain of handlers, the network, destruction by the main thread |
| `HttpExchange` | the synchronous requests: `InvokeCommand` and the functions of the two prototypes |
| `...Proofs` | invariants and theorems: `LiveViewPacketProofs`, `LiveViewStreamProofs` (on top of it), `ImageSourceProofs`, `ImageStreamProofs` (on top of it), `AsyncTaskProofs`, `CameraControllerProofs` (on top of it), `DeviceFinderProofs`, `HttpExchangeProofs` |
| `MC...` | values of the constants for the model checker |

How they compose. `CameraController` EXTENDS `AsyncTask` and conjoins its actions,
so that the two run as one. The image source it starts is `ImageSource`, of which it
sees three things: one is made and started, its thread may come to hang at any
moment, since the camera falls silent or the demuxer is stuck, and its destructor
comes back unless it hangs. That is what `DestructorReturns` of `ImageSource` says,
and `NoThreadOutlives` that nothing is left then. Its command is `HttpExchange`, here
one step with three outcomes. `ImageSource` uses of `LiveViewPacket` the facts named
below, those about its failures included.

### LiveViewPacket and the code

An element is a pair `<<name, index>>`; `pos`, `size` and `it` are the members
`_pos`, `_size` and `_it` of every object of the tree, and `data` the `_data` of
the four leaves whose value the parser uses. `kind` is the class of `payload_`
and `frames` the number of `FrameInformation` objects.

The code recurses; the model keeps the chain of open calls as one variable.
`top` is the field whose loop is running, its callers follow from `Parent`, and
`ret` is what the call made by `top` has returned. So one C++ call of `Fill`
becomes `Call`, some of `FillLeaf`/`RefuseLeaf`/`CallField` and
`KidFull`/`KidPartial`/`KidRefused`, and `EndLoop`, and the states between two
elements can be looked at. `HeaderRefused`, `HeaderPartial`, `HeaderFull`,
`PacketPartial` and `PacketDelivered` are the returns into `LiveViewPacket::Fill`
and from there into `StreamDemuxer::Push`. `Push(n)` is a call of `Push` whose
buffer ends after byte `n` of the stream: that the buffer is empty again before
the next one comes is what the loop `while (stream.size())` ensures.

Two details of the code are kept on purpose. `FixedSizeData::Fill` copies each
piece to the start of `_data` (`CopyToStart`). And `ByteEnum::Fill` compares
`sizeof(T)` bytes, four for `FrameAdditionalStatus`: when the buffer ends before
them the memory behind it decides, which is the variable `beyond`, chosen anew
with every buffer. The build is taken to be little-endian, and a byte of memory
behind the buffer is either zero or not.

Left out: values nothing reads (sequence number, time stamp, coordinates,
version), `DUMPSTREAM`, and what `GetImage` returns for a packet that is not an
image.

### ImageSource and the code

`pc` is where the source's thread stands in `downloadStream`; `owner` and `at`
are the loop of `ImageSource::Start` or of the destructor over the stages.
`StartThread`, `StartRunning` and `StartTerminates` are the outcomes of
`StreamFlow::Start`; `Stop` and `Join` are the two halves of `StreamFlow::Stop`,
between which the mutex is held.

The body of the HTTP response is a sequence of byte classes, together with the
places where the parser fails. Of `LiveViewPacket` it uses:

* a packet that starts at its start byte is filled to its last byte and delivered,
  provided that no push ends inside a number of it, and bytes before the first FF are
  skipped (`ImplementsChannel`, checked for such cuts only);
* a packet that has refused a byte takes no other and is never delivered
  (`NoByteAfterRefusal`, for every cut);
* what goes wrong otherwise, as the runs `split`, `empty` and `bad` show. A push that
  ends inside a number (`inner`: before its later bytes) has the next one overwrite
  it: the packet is `torn`, and from there on takes any number of bytes, is
  delivered anywhere or refuses (`FillTorn`). Before a byte that no enumeration lists
  (`refused`), behind an image of no bytes (`empty`), and at an additional status
  (`status`) that is compared with memory behind the buffer, `Fill` returns false and
  the loop goes round (`FillStuck`); for the last of these the memory decides.

An FF inside an image is followed by neither 01 nor 02, as in JPEG data. The demuxer
that has lost step is followed as far as the code goes: it may skip once more and is
then stuck, its loop running on without an effect, which is stuttering in the model.

`StreamFlow`'s destructor calls `Stop` a third time; its thread is joined by
then and nothing happens, so it is not a step. `Stop` of a stage that was never
started returns at once; the owner in the code starts what it constructs.

### AsyncTask and the code

A handler is the number of its `post`. `_queue` is the queue of the `io_service`,
`_work` the work object, `at` where a runner stands: a thread between being made
(`new`), inside `run()` and ended, or the owner inside the `run()` of `Stop`.
`owner` is `join` and `drain` in the two waiting parts of `Stop`. The service is
modelled by its documented contract: `run()` returns when the service is stopped
or nothing is outstanding, the service is stopped when the last outstanding work
is finished, and `run()` then returns at once until `reset()`. A handler is taken
and finished in two steps, so that two runners can be in handlers at the same time.

`_isRunning` and `_isStopping` are plain members used by two threads. A read is
taken to give the value before or after a concurrent write, which the interleaving
of `Enter` and `Leave` with the owner's calls does. `Start` assigns a new
`boost::thread` to `_thread`; as Boost.Thread does by default (version 2 of its
interface), the object that is replaced, and one destroyed without a join, leaves
its thread to itself: `detached`. An exception from a handler (`Escape`) ends the
process when it leaves a thread's function; from `Stop` it reaches the caller with
`_isStopping` still set, and ends the process when that is a destructor whose
compiler lets no exception pass. `~CameraController` calls the same `Stop` as any
owner does, so the model chooses between the two for every `Stop`.
`RaiseEvent` is called nowhere and not modelled.

### CameraController and the code

`call` is the owner's call, `step` where a runner stands in
`StartStreamingInternal`. A stream is the number of the handler that made it, a URL
the number of the handler whose command brought it. `Invoke` is `startLiveview`
with its three outcomes: a result, a refusal, whose code the caller does not look
at, or nothing, from which `get_child` throws. `Destroy`, `DestroyMembers`
with `DestroySource`, and `DestroyBase` are the body of `~CameraController`, the
destruction of its members and `~AsyncTask`; handlers run between them. An
`ImageSource` is destroyed in two steps, `leaving` and back: between them its
destructor joins the source's thread, which never comes back when it is `hanging`.
So it is in the controller's destructor and in a handler that replaces a stream
(`MakeSource`, `ReplaceSource`, `StartSource`). When one runs on destroyed members
the behaviour is undefined: the model records it and goes on with the values the
members had, and the properties exempt `late`, the handlers to which it can happen.
The main thread of `StreamingSampleWin` is the owner.

### DeviceFinder and the code

`pending` is the outstanding operation, `result` how it has completed. A handler
is one step, except the last, whose `ParseXml` sets one URL, may throw, and sets
the other. A response is a sequence of pieces, two of the status line, one that
ends the header, then the body; a read takes what it waits for and any part of
what has arrived behind it. The delimiter `"\0"` is an empty string: it is found
as soon as there is a byte. The datagram may never come, may be a refusal, may be
another device's, which makes the handler throw, or may name the camera.
The description may have every part, or lack a node
where `ParseXml` looks for it: before the first URL, between the two, or in a service
behind the camera's, when both are set.

The main thread destroys in three steps. In `Destroy` the buffers and the
description go, in `DestroySockets` the sockets, which cancels the outstanding
operation, and in `Destroyed` `~AsyncTask` has joined the thread. Between them the
thread runs on. `touched` records the use of a member that is gone, by a handler or
by the operation itself: an outstanding `async_read_until` commits to
`tcp_response_` before it looks at the error, a write uses `tcp_request_`, and only
the reception has a plain array (`OperationUses`). What comes of such a use is
undefined; the model goes on with the values the members had, or lets it end the
process (`Crash`), except for the sending, which reads from what is gone and writes
nothing.
`phase` and the substitution for `description` map all this to `Discovery`.

### HttpExchange and the code

`todo` is what the program still has to call, `at` the stage of the present call.
The five functions share connecting, writing, the status line and the header, and
differ in the end of the body: `HelloHttpPost` throws when the error is not the
end of file, `StreamDump` does not look, `InvokeCommand` leaves it to `read_json`.
A host is an address or a name with up to two endpoints, chosen anew for each call,
which goes to a port of its own; a name that cannot be resolved has none. A header
without lines makes the read for its blank line fail, since the end of the status
line has been taken out of the buffer already: the call ends in an exception and
its content is lost, which `AnswerIsTrue` allows.
What `StreamDump` writes to its file is `dumped`; in all other functions `content`
is what is printed, or read by `read_json`.

## 3. Runs

| run | specification, bounds | checks | result |
|---|---|---|---|
| `good` | `FairSpec`; two images, one frame packet with one frame, junk before and between them; a buffer may end anywhere except inside a number or a four-byte comparison | `ImplementsChannel`, `PushReturns` | hold |
| `bad` | `Spec`; an image pair or a two-frame packet and an image, with one byte replaced, for each byte the parser looks at; cut anywhere (images) or around the numbers and enumerations (frames) | `TypeOK`, `LeafBounds`, `PassedElementsFull`, `ImageSizedFirst`, `FullFieldComplete`, `PartialMeansRunOut`, `SizeIsConsumption`, `NoByteAfterRefusal` | hold |
| `split` | `FairSpec`; two correct images, cut anywhere | `AllDelivered` | violated |
| `empty` | `Spec`; an image packet with no image and no padding between two others | `FullElementIsPassed` | violated |
| `fullleaf` | as `empty` | `FullLeafReturnsFalse` | violated |
| `image_source` | `FairSpec`; five bodies: two packets without FF bytes inside, three with, one with a number, one with an additional status and a byte that is refused, one with images of no bytes; threshold 2, two calls of `Start` | `TypeOK`, `QueueIsStream`, `HeldBounded`, `DownstreamReady`, `NoThreadOutlives`, `OneReadAfterStop`, `TerminatesOnlyEnded`, `DestructorReturns`, `EndOfStreamEnds` | hold |
| `async_task` | `FairSpec`; three handlers, three threads | `TypeOK`, `Serial`, `OnlyDetachedOutlive`, `FirstLifeServes`, `StopLeavesNothing`, `PostedIsServed` | hold |
| `camera_controller` | `FairControllerSpec`; two handlers, two threads | `BegunIsWaitedFor`, `StreamGoneWithController`, `OneStream`, `StreamHasLastUrl`, `ImplementsTask`, `StopCancelsNothing`, `DestructorReturns` | hold |
| `device_finder` | `FairSpec`; a body of two pieces | `TypeOK`, `ClosedIsLast`, `WaitingIsSafeToDestroy`, `ImplementsDiscovery`, `AnswerSettles`, `ExitReturns` | hold |
| `finder_content` | `Spec`; as `device_finder` | `ContentIsAllRead` | violated |
| `finder_status` | `Spec`; as `device_finder` | `OkIsAccepted` | violated |
| `http_exchange` | `FairSpec`; a body of three pieces, a limit of one, up to two endpoints | `AnswerIsTrue`, `CallsReturn` | hold |

What the properties say:

* `ImplementsChannel`: the demuxer refines `PacketChannel`, with its fairness.
  `sent` is what the stream stands for and `delivered` the kind and the image
  bytes of the packets pushed downstream.
* `PushReturns`: a call of `Push` comes back with the buffer used up.
* `LeafBounds`, `PassedElementsFull`, `ImageSizedFirst`: section 1, parser.
* `FullFieldComplete`: `IsFull` of a field, two sums of different age, is never
  true while one of its elements lacks bytes.
* `PartialMeansRunOut`: a `Fill` that returns true with its element incomplete
  has used up the buffer, the case the table in `BaseField.cpp` calls an error
  otherwise.
* `SizeIsConsumption`: the size of a delivered packet is the number of bytes
  between its first and its last, and packets do not overlap. This is what
  `unittest1.cpp` asserts for two recorded packets, for every cut.
* `NoByteAfterRefusal`: after a refusal the packet is neither filled nor
  delivered, however often it is called and wherever its loops restart.
* `QueueIsStream`: the presenter's queue is in the order of the stream, and each
  packet in it complete but those with a number that the end of a push has cut. Up
  to the first of these it has no gap from the first packet that begins after the
  bytes dropped with the response header, and the demuxer loses step for two reasons
  only: that header's read ended inside a packet, and then the queue stays empty, or
  it stands before a byte that it refuses. Behind a number that was cut nothing is
  claimed but the order: there the code does lose packets.
* `HeldBounded`: at most the threshold is kept back in `contentbuf`, so at most
  that is lost at the end of the stream.
* `DownstreamReady`, `NoThreadOutlives`, `OneReadAfterStop`: order of starting
  and stopping; threads and objects; how late a `Stop` can be noticed.
* `TerminatesOnlyEnded`: starting again ends the process only when the source's
  `Run` is over, never while it runs.
* `DestructorReturns`, `EndOfStreamEnds` (of `ImageSource`): the destructor comes
  back and the thread ends at the end of the stream, unless the demuxer is stuck,
  which a correct stream can bring about: `split` and `empty` are such streams.
* `Serial`: handlers run one at a time and in the order posted, although `Stop`
  runs some of them in the owner's thread, as long as no `Start` has replaced a
  thread, which it does when the first has not set the flag yet.
* `OnlyDetachedOutlive`: what outlives a destroyed task is a thread that was
  replaced, or one left by a `Stop` that an exception ended.
* `FirstLifeServes`: the work object is never made again, so after a `Stop` the
  task's thread runs no handler any more. `StopLeavesNothing`: what is posted then
  waits for the next `Stop`, behind which every handler posted has run once.
* `PostedIsServed`: what was posted to a started task is run, even if it is stopped
  before its thread has begun.
* `BegunIsWaitedFor`, `StreamGoneWithController`: `StopStreaming` does nothing
  while the flag is not set, and the members are destroyed before the task's
  destructor joins. A handler that runs on destroyed members is one that was still
  queued then; one that has begun is waited for, and its stream destroyed.
* `OneStream`, `StreamHasLastUrl`: a second `StartStreaming` replaces the first
  stream; after refusals a stream is made of the last URL there was, or of none.
* `StopCancelsNothing`: a command posted before the first `Stop` is sent, even when
  the task is stopped before its thread has begun, unless an exception ends the
  process or the handler before it waits for a stream that hangs. Of later commands
  it says nothing.
* `DestructorReturns` (of `CameraController`): destroying a controller comes to an end
  from any state, unless the destructor, or a handler it waits for, is in the
  destructor of a stream that hangs. The hang is real: nothing in the code ends it.
* `ImplementsDiscovery`: the description goes from empty to partial to complete, only
  while an answer is dealt with, and does not change when the search is settled; only
  a camera that has answered can end the program, and that at any step, also when the
  description is complete. So `main` may read it when the search is settled, and
  never before.
* `ClosedIsLast`: no operation is begun behind `Cleanup`. `WaitingIsSafeToDestroy`: a
  finder can be destroyed without the use of a destroyed member when its search is
  settled, and while it waits for a datagram, if none comes before its socket is gone.
  In the other states a member can be used: by the handler, whose `Cleanup` or content
  is gone, or by the operation itself, as by the read of the response header.
* `AnswerSettles`, `ExitReturns`: a camera that has answered is dealt with;
  destroying the finder comes to an end whatever the camera does.
* `AnswerIsTrue`: the content handed on has no gap, a call without a connection has
  tried all endpoints, a response is refused only for its status, and a call that ends
  without complaint has handed on what it has read. For `HelloHttpPost` this is all
  that came before the end of the connection. For `StreamDump` it may be less than
  the body, since it ends so after a reset, too; it dumps more than its limit or
  nothing. `InvokeCommand` returns 0 in both cases, but has a result exactly when it
  has not thrown, and then it is the whole body.
* `CallsReturn`: each program comes to its end.

Bounds. The reserved blocks of the headers have one byte instead of 115 and 114:
they are skipped by one leaf whatever their length. Streams have two or three
packets, so that each hand-over (image to frames, frames to image, junk between)
and a frame count of 0, 1 and 2 occur; images have at most two bytes, which a
cut can part. `UNDEFINED_SIZE` is the largest integer the model checker has; the
code's is the largest of 32 bits and no sum a header can announce reaches
either. In `ImageSource` a threshold of 2 with packets of one to five bytes
makes pushes end inside, at and behind packets, lets a push hold no packet's
start at all, and leaves a tail. The three bodies with places where the parser
fails let a number be cut once and twice, with an FF behind it, a status be compared
inside and behind the buffer, and an empty image come alone in a push or not. Two calls of
`Start` are the least that meets a stage that runs and one that has ended.
Three handlers and threads are the least that meets a restart behind a restart and
a thread replaced while another is waited for; two streams are the least of which
one replaces the other. Of two body pieces one can come with the header and one
behind it; with three and a limit of one, `StreamDump` ends below, at and above it.

The runs do not look for deadlocks: a stream ends, an owner is gone, a process
terminates, a search is settled, and a stuck demuxer stutters. That nothing stops
too early is what the liveness properties say.

Fairness. In `LiveViewPacket` the thread that calls `Push` is scheduled again
and again (`WF` of the demuxer) and the camera sends what it has. In
`ImageSource` every thread is scheduled and the owner finishes a `Start` or a
destructor it has begun; it need never begin one. The camera is fair too: it
sends on or closes. Nothing in the code enforces this, there is no timeout on
the socket, and without it `StreamFlow::Stop` waits in its join as long as the
camera is silent. The code has no lock the two threads compete for: the
presenter's mutex is held by the owner only before the source has started and
after it has been joined (`DownstreamReady`).

`AsyncTask` and `CameraController` assume that threads are scheduled, that a `Stop`
or destructor goes on once begun, and that a command comes back. A handler has one
other wait, the join of the stream it replaces, and that is not assumed to end: any
stream may come to hang (`Hang`, without fairness). In `DeviceFinder` operations complete when they can and the
thread runs. Nothing makes a datagram come: the finder has no timer and may search
for ever, which `ImplementsDiscovery` allows. Only `AnswerSettles` and
`CallsReturn` assume that a camera that has been asked to close the connection
sends on until it does; `ExitReturns` needs no camera.

### What disagrees with the repository

* `split`: `FixedSizeData.h:20` writes every piece of a number to the start of
  `_data`. A data size cut by the end of a buffer is misread, although
  `unittest1.cpp` fills packets in pieces of 1024 bytes.
* `empty`: `BaseField.cpp:24` says a full element that was not filled is passed;
  lines 29-31 return false first. An image packet with nothing in it stops the
  demuxer for good.
* `fullleaf`: `IIncrementalFill.h:17` says `Fill` of what is full returns false.
  Fields do that, leaves return true, and images without padding need it.
* `finder_content`: `DeviceFinder.cpp:208` says the handler of the body writes all
  that has been read so far. The loop over the header (196) does not stop at the
  blank line, as that of `Common.cpp` does, and consumes the body that came with it.
* `finder_status`: `DeviceFinder.cpp:160` says the response is checked to be OK. The
  handler may run when the status line has only begun, and then calls it invalid.

## 4. Proofs

| module | for every | theorems (property) |
|---|---|---|
| `LiveViewPacketProofs` | stream, set of places where buffers end, length of the reserved blocks, bound on the frame count | `TypeCorrect` (`TypeOK`), `LeafNeverOverfull` (`LeafBounds`), `NothingPassedIncomplete` (`PassedElementsFull`), `ImageHasHeaderSize` (`ImageSizedFirst`) |
| `LiveViewStreamProofs` | the same | `SumInvariance`, `FullMeansComplete` (`FullFieldComplete`), `BreaksOffAtTheEnd` (`PartialMeansRunOut`), `RefusalInvariance`, `RefusalIsFinal` (`NoByteAfterRefusal`), `SizeIsWhatWasTaken` (`SizeIsConsumption`) |
| `ImageSourceProofs` | set of bodies, threshold, number of starts | `PushesIntoLiveStages` (`DownstreamReady`), `DestructorJoinsAll` (`NoThreadOutlives`), `StopIsNoticed` (`OneReadAfterStop`), `StartIgnoredWhileRunning` (`TerminatesOnlyEnded`) |
| `ImageStreamProofs` | the same | `TypeCorrect` (`TypeOK`), `LittleIsHeld` (`HeldBounded`), `QueueHoldsStream` (`QueueIsStream`) |
| `AsyncTaskProofs` | number of handlers and threads | `TypeCorrect` (`TypeOK`), `HandlersAreSerial` (`Serial`), `DestructorJoinsItsThread` (`OnlyDetachedOutlive`), `OneLife` (`FirstLifeServes`), `StopRunsEverything` (`StopLeavesNothing`) |
| `CameraControllerProofs` | number of handlers and threads | `ControllerRefinesTask` (`ImplementsTask`), `BegunAreWaitedFor` (`BegunIsWaitedFor`), `StreamsGoWithController` (`StreamGoneWithController`), `OneStreamAtATime` (`OneStream`), `StreamsHaveLastUrl` (`StreamHasLastUrl`) |
| `DeviceFinderProofs` | number of body pieces | `TypeCorrect` (`TypeOK`), `CleanupIsLast` (`ClosedIsLast`), `WaitingCanBeDestroyed` (`WaitingIsSafeToDestroy`), `FinderRefinesDiscovery` (`ImplementsDiscovery`) |
| `HttpExchangeProofs` | number of body pieces, limit | `AnswersAreTrue` (`AnswerIsTrue`) |

Assumptions are those of the constants: `ElementsAssumption` (no packet is as
long as `UNDEFINED_SIZE`: in the code 2^32 - 1 bytes against at most
2^24 + 65536 + 115 + 114 + 11 * 65535; reserved blocks are not empty),
`WiresAssumption` (a stream is a sequence of bytes, buffers end inside it),
`ImageSourceAssumption` (a body is a sequence of byte classes that begins with a
start byte, with any places in it where the parser fails), and that the bounds are natural numbers. Every proof has the same
form: an inductive invariant that the initial states have, one lemma per action
that preserves it, and what follows from it.

**LiveViewPacket.** The inductive invariant `IInv` adds to the properties

* `BufferInv`: the buffer lies inside the stream;
* `ChainInv`: where the chain of calls stands determines where the payload's
  iterator stands, and no field that is being filled is full. `LeafBounds` alone
  does not tell a loop that has passed an element from one that stands at it;
* `HeaderFirst`: until the payload's header is full nothing behind it is
  touched. It is what makes `Fulfilled` size the data for the first time, and
  what keeps `SetFrameNumber` from replacing frames that are being filled;
* `ImageSized`: `ImageSizedFirst` in a form that does not look at the chain.

The delicate step is a field that starts again: after a refusal its position is
still 0 and `_it` is set back to the first element, while elements behind it are
filled. `PassedElementsFull` survives because the iterator only goes back;
`HeaderFirst` survives because a payload that restarts finds its header full,
and a full field refuses. The proof needs no fact about the sums `CalcPos` and
`CalcSize` compute.

**What the packet takes.** `LiveViewStreamProofs` adds three invariants, each on
top of the one before.

* `SumInv`. A position is computed when a `Fill` returns true and not when it
  returns false, a size when a header is full. So the two sums `IsFull` compares
  have different ages. The invariant says which: a position is never more than what
  the elements count now (`Positions`), a size is undefined or the sum of the
  elements' sizes (`Sizes`), the data is sized just when the header is full
  (`DataUntouched`), and of a packet without a header nothing else has been touched
  (`HeaderOnly`). From `Positions` and `Sizes` a field whose position has reached
  its size has full elements: that is `FullFieldComplete`. `PartialMeansRunOut` is a
  part of the invariant, since `PacketPartial` would otherwise go on with a header
  that is not full.
* `RefusalInv`. After a refusal `ret` is false, the positions of the open fields
  stay what they were, and the next call may start at the first element again.
  When the common header is still being read, the packet has its start byte and
  nothing more (`HeaderStuck`): either it stands at its type with a byte that is no
  type, or it starts again, skips to another start byte, and finds a start byte
  where the type should be. Later (`PayloadStuck`) there is a set of elements that
  refuse the byte at the head of the buffer: leaves by their value, fields because
  they are full or because, from where they would resume, they come to an element
  of the set with full elements before it (`Blocked`). The payload is in that set.
  The set is the element that refused and the fields that were open then; it depends on
  where that was, so the invariant says that there is one, and every later step
  keeps it, whichever of its elements the next call begins at.
* `ConsumptionInv`. The bytes a packet has taken are the sum of the packet plus what
  each open field lags behind its elements (`Lag`), which is what `CalcPos` will
  add when its `Fill` returns. It is equal to `rd - first + 1` after the start byte,
  as long as nothing has been refused; a delivered packet has no open field, so its
  sum is its size.

Sums over an arbitrary number of elements need induction. The theorems of the
library for it have an operator as a parameter, but one of them, `WFMin`, is about
sets: `InductiveSet` derives induction over a set of numbers from it. `FoldExists`
shows by it that the recursive function behind `FoldLeft` exists, `PartialSums`
that `Total` is the last of the sums of the first elements. The lemmas on sums (of
the same elements, of elements that are smaller, of which one has changed)
follow in the same way.

**ImageSource.** Two invariants. That of the threads says which stages have begun
or been joined at each step of the owner (`Starting`, `Ending`), that only the
source ever resets its flag (`RunningMeansBegun`), and that a read behind a `Stop`
is the last (`Reads`). That of the stream, which rests on the first, says where the
demuxer stands between two steps. `Entries`: what is in the queue lies before the
packet being filled, and is complete or one of those `torn`. `Begins`: a packet begun
starts with a start byte and is not complete, or is torn. As long as none is torn,
`Past` (every other packet taken is complete), `InStep` (between packets the demuxer
is `Aligned` with a start byte, or has `Missed`: it began inside a packet, has seen
only bytes of that packet, and has delivered nothing) and `AllSent` (what is due is in
the queue). `Missed` is needed because `QueueIsStream` alone does not exclude a demuxer
that finds its step again in the middle of a packet.

**AsyncTask.** `Ordered` puts the handlers done before the one that runs and that
before those that wait; `Alone` says that the owner runs handlers only when no
thread does. `Counted` keeps the number of handlers done, running and queued equal
to the number posted and accounts for each of them: both together give that each
ran exactly once. `Drained` says that in a `Stop` the service is stopped only for
want of handlers. `Ordered` and `Alone` assume that no thread has been replaced,
`Counted` that no exception has left a `Stop`, as the properties do.

**CameraController.** Every step is a step of the task or leaves it alone
(`StepOfTask`), so all theorems about tasks hold for controllers, and the invariant
of the task is part of the controller's. The rest says that the flag is set by
whoever runs (`FlagOfThread`), that what the destructor leaves is late (`Left`,
from `FlagOfThread` when it does not stop, from `Drained` when it does), that a
command answered is one of a handler that is done or stands behind its command
(`Answered`), and that the URL kept is the last result's (`Kept`, from `Answered`
and the task's `Ordered`). Which streams there are follows from who is in the
destructor of one: `Departing` and `Departed` for the controller's, `Streaming` for
the handlers', and `Fresh` says that a handler that has not made its stream yet has
none. That an exception or a replaced thread is never forgotten (`SoundBefore`) lets
all of it be stated for the good case only.

**DeviceFinder.** `BehindHeader` (the body is read only behind the header, so that
the pieces kept are pieces of the body), `Cancelled` (what was outstanding at the
destruction has failed), `Described` (the URLs are set in the last handler, the
second behind the first), and that a member is used after its destruction only when
something was outstanding, other than a reception without a reply. The
refinement of `Discovery` follows step by step; it is the safety part, `AnswerSettles`
is model-checked.

**HttpExchange.** `AllRead` (what was read of the body has been handed on) holds
from the header to the end of the call, `Nothing` before it; a call that ends has
one or the other. `Connection` says that without a connection all endpoints tried
so far have refused, `Ending` why the loop over the body has ended, and what each
function has made of it.

What is only model-checked. Liveness, which is out of the prover's reach: `PushReturns`,
`DestructorReturns`, `EndOfStreamEnds`, `PostedIsServed`, `StopCancelsNothing`,
`AnswerSettles`, `ExitReturns`, `CallsReturn`, and the refinement of
`PacketChannel`: its fairness, and that what is delivered is what the stream stands
for, which needs a theorem about the encoding of a stream as bytes. Every
invariant and every other action property of the runs that hold is proved.

## 5. Plan

Done: the parser, the pipeline, tasks, the controller, the finder and the requests,
with their proofs. Left:

1. The safety part of `ImplementsChannel`. First that the image of a delivered packet
   is the piece of the stream between its header and its padding, which
   `ConsumptionInv` is the basis of; then that of a stream which is the encoding of
   packets these packets are delivered.
2. `ImageSource` as a module of `CameraController`. What the controller sees of it, a
   stream that may hang and a destructor that waits for it, is in the model; left is
   to show that `ImageSource` implements that.
3. Finder and controller in one program, with `main` between them.

## 6. Not modelled

* `splitUrl` and `isIpV4Address` of `Common`, and the text of requests and headers:
  whether a host is an address is a `BOOLEAN`, what the text says a member of a set.
* `Dump` of `Common` and the file `StreamDump` writes, beyond what is in it.
* `RaiseEvent` of `AsyncTask`, which nothing calls.
* What happens after undefined behaviour. The race of `main` and the finder's thread
  on the two strings of the description, and a handler on destroyed members, are
  found as states (`phase` is not settled, `touched`, `late`), and followed only as
  far as section 2 says.
* `GetImage` of packets without an image, values nothing reads, and what the
  programs print.
* `LiveViewStreamingParserTest`, used as the reference for what a packet promises.
