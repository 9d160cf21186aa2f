-------------------------- MODULE CameraController --------------------------
(***************************************************************************)
(* CameraController, an AsyncTask whose handler, StartStreamingInternal,   *)
(* sends the camera a command and makes and starts an ImageSource for the  *)
(* URL in its answer.  The owner is the main thread of StreamingSample: it *)
(* makes a controller and starts it ("g"), stops the task ("p"), and       *)
(* destroys it when the next one replaces it or the program ends ("x").    *)
(* It may start a controller more than once, which main does not.          *)
(*                                                                         *)
(* InvokeCommand is HttpExchange, here in one step: 0 and a "result", 1    *)
(* for an answer it refuses, or 0 and nothing that holds a result.  An     *)
(* ImageSource is the number of the handler that made it.  Its destructor  *)
(* joins the source's thread: it waits for ever for one that hangs, whose  *)
(* demuxer is stuck or whose camera has fallen silent.                     *)
(***************************************************************************)
EXTENDS AsyncTask

ASSUME ControllerAssumption == MaxPosts <= MaxStarts

VARIABLES
    call,         \* the member function the owner is in
    alive,        \* the members of the controller are not destroyed
    step,         \* where a handler stands in StartStreamingInternal
    answer,       \* what the command of a handler has brought
    liveViewUrl_, \* the handler whose answer it comes from, 0: empty
    imageSource_, \* 0: null
    streams,      \* the ImageSources that are not destroyed
    started,      \* those that were started
    hanging,      \* those whose thread will not end
    leaving,      \* the one whose destructor the owner or a handler is in, 0 for none
    urlOf,        \* the URL an ImageSource was made with
    late          \* history: handlers left in the queue by the destructor

members == <<alive, liveViewUrl_, imageSource_, streams, started, hanging, leaving, urlOf>>
vars == <<taskVars, call, members, step, answer, late>>

ControllerInit ==
    /\ Init
    /\ call = "none" /\ alive = TRUE /\ late = {}
    /\ step = [r \in Runner |-> "none"] /\ answer = [h \in Handler |-> "none"]
    /\ liveViewUrl_ = 0 /\ imageSource_ = 0 /\ streams = {} /\ started = {}
    /\ hanging = {} /\ leaving = [r \in Runner |-> 0]
    /\ urlOf = [h \in Handler |-> 0]

-----------------------------------------------------------------------------
(* The owner *)

\* The handler is posted, and then Start is called, which looks at the flag again.
StartStreaming ==
    /\ call = "none" /\ ~IsStarted /\ Post
    /\ call' = "start"
    /\ UNCHANGED <<members, step, answer, late>>

StartTask ==
    /\ call = "start" /\ owner = "idle"
    /\ Start \/ (IsStarted /\ UNCHANGED taskVars)
    /\ call' = "none"
    /\ UNCHANGED <<members, step, answer, late>>

\* "p" calls Stop of the task, flag or no flag; what it has started goes on.
StopTask ==
    /\ call = "none" /\ Stop(FALSE)
    /\ UNCHANGED <<call, members, step, answer, late>>

StopUnlessStarted == ~IsStarted      \* mutant: the test is the wrong way round
StopWanted == IsStarted

\* ~CameraController: StopStreaming, which does nothing when the flag is not set.
Destroy ==
    /\ call = "none" /\ owner = "idle"
    /\ call' = "members"
    /\ IF StopWanted /\ ~_isStopping
       THEN Stop(FALSE) /\ UNCHANGED late
       ELSE late' = ToSet(_queue) /\ UNCHANGED taskVars
    /\ UNCHANGED <<members, step, answer>>

\* The members are destroyed, imageSource_ first.
DestroyMembers ==
    /\ call = "members" /\ owner = "idle"
    /\ call' = "source" /\ alive' = FALSE
    /\ leaving' = [leaving EXCEPT ![Owner] = imageSource_]
    /\ UNCHANGED <<taskVars, liveViewUrl_, imageSource_, streams, started, hanging, urlOf, step, answer, late>>

\* ~ImageSource has joined the source's thread and comes back.
Joined(r) == leaving[r] \notin hanging
SourceKept(r) == streams             \* mutant: nobody destroys the image source
SourceDestroyed(r) == streams \ {leaving[r]}

LeaveSource(r) ==
    /\ Joined(r) /\ streams' = SourceDestroyed(r)
    /\ leaving' = [leaving EXCEPT ![r] = 0]
    /\ UNCHANGED <<taskVars, alive, liveViewUrl_, imageSource_, started, hanging, urlOf, answer, late>>

DestroySource ==
    /\ call = "source" /\ owner = "idle" /\ LeaveSource(Owner)
    /\ call' = "base"
    /\ UNCHANGED step

\* ~AsyncTask.
DestroyNothing ==                    \* mutant: the destructor is not virtual
    /\ call = "base" /\ owner = "idle" /\ owner' = "gone" /\ call' = "destroyed"
    /\ UNCHANGED <<service, threads, _isStopping, dying, history, members, step, answer, late>>
DestroyBase ==
    /\ call = "base" /\ (Stop(TRUE) \/ DestroyStopping)
    /\ call' = "destroyed"
    /\ UNCHANGED <<members, step, answer, late>>

-----------------------------------------------------------------------------
(* StartStreamingInternal, in the thread r *)

Goto(r, s) == step' = [step EXCEPT ![r] = s]
In(r, s) == owner # "terminated" /\ step[r] = s

BeginUnlessStopping(r) ==            \* mutant: a task that is stopping runs nothing
    /\ Take(r) /\ Goto(r, IF _isStopping THEN "end" ELSE "invoke")
    /\ UNCHANGED <<call, members, answer, late>>
Begin(r) ==
    /\ Take(r) /\ Goto(r, "invoke")
    /\ UNCHANGED <<call, members, answer, late>>

RefusedForgets(h, a) == IF a = "result" THEN h ELSE 0    \* mutant: a refusal clears the URL
UrlAfter(h, a) == IF a = "result" THEN h ELSE liveViewUrl_

\* startLiveview: InvokeCommand and get_child("result"), which throws when there
\* is none.  A refusal is returned, and the caller does not look.
Invoke(r) ==
    /\ In(r, "invoke")
    /\ \E a \in {"result", "refused", "empty"} :
        /\ answer' = [answer EXCEPT ![handling[r]] = a]
        /\ liveViewUrl_' = UrlAfter(handling[r], a)
        /\ Goto(r, IF a = "empty" THEN "throw" ELSE "make")
    /\ UNCHANGED <<taskVars, call, alive, imageSource_, streams, started, hanging, leaving, urlOf, late>>

\* A new ImageSource takes the place of the old one, whose destructor is called
\* then, unless that of the controller has taken it.
OldKept == 0                         \* mutant: the old one goes on
OldSource == IF alive THEN imageSource_ ELSE 0

MakeSource(r) ==
    /\ In(r, "make") /\ Goto(r, "replace")
    /\ streams' = streams \cup {handling[r]}
    /\ imageSource_' = handling[r]
    /\ leaving' = [leaving EXCEPT ![r] = OldSource]
    /\ urlOf' = [urlOf EXCEPT ![handling[r]] = liveViewUrl_]
    /\ UNCHANGED <<taskVars, call, alive, liveViewUrl_, started, hanging, answer, late>>

ReplaceSource(r) == In(r, "replace") /\ LeaveSource(r) /\ Goto(r, "start") /\ UNCHANGED call

StartSource(r) ==
    /\ In(r, "start") /\ Goto(r, "end")
    /\ started' = started \cup {imageSource_}
    /\ UNCHANGED <<taskVars, call, alive, liveViewUrl_, imageSource_, streams, hanging, leaving, urlOf,
                   answer, late>>

End(r) ==
    /\ In(r, "end") /\ Return(r) /\ Goto(r, "none")
    /\ UNCHANGED <<call, members, answer, late>>

Throw(r) ==
    /\ In(r, "throw") /\ Escape(r) /\ Goto(r, "none")
    /\ UNCHANGED <<call, members, answer, late>>

-----------------------------------------------------------------------------
\* The thread of a stream that is running comes to hang.
Hang(h) ==
    /\ owner # "terminated" /\ h \in streams \cap started
    /\ hanging' = hanging \cup {h}
    /\ UNCHANGED <<taskVars, call, alive, liveViewUrl_, imageSource_, streams, started, leaving, urlOf,
                   step, answer, late>>

TaskStep(A) == A /\ UNCHANGED <<call, members, step, answer, late>>
Handle(r) ==
    Begin(r) \/ Invoke(r) \/ MakeSource(r) \/ ReplaceSource(r) \/ StartSource(r) \/ End(r) \/ Throw(r)

ControllerNext ==
    \/ StartStreaming \/ StartTask \/ StopTask
    \/ Destroy \/ DestroyMembers \/ DestroySource \/ DestroyBase
    \/ TaskStep(JoinAndRun) \/ TaskStep(StopReturns)
    \/ \E t \in Thread : TaskStep(Enter(t)) \/ TaskStep(RunReturns(t)) \/ TaskStep(Leave(t))
    \/ \E r \in Runner :
        \/ Begin(r) \/ Invoke(r) \/ MakeSource(r) \/ ReplaceSource(r) \/ StartSource(r)
        \/ End(r) \/ Throw(r)
    \/ \E h \in Handler : Hang(h)

ControllerSpec == ControllerInit /\ [][ControllerNext]_vars

\* The owner goes on with what it has begun, threads run, and a command comes
\* back, since the camera answers or closes the connection.
FairControllerSpec ==
    /\ ControllerSpec
    /\ WF_vars(StartTask \/ DestroyMembers \/ DestroySource \/ DestroyBase
               \/ TaskStep(JoinAndRun) \/ TaskStep(StopReturns) \/ Handle(Owner))
    /\ \A t \in Thread :
        WF_vars(Handle(t) \/ TaskStep(Enter(t)) \/ TaskStep(RunReturns(t)) \/ TaskStep(Leave(t)))

-----------------------------------------------------------------------------
(* Properties *)

\* The controller uses the task as any owner may, and every step of its own
\* leaves the task alone: what AsyncTask promises holds here.
ImplementsTask == Spec

\* As long as every Start found the flag that an earlier thread had set, and no
\* exception has left a Stop, there is one handler at a time.
Sound == detached = {} /\ ~StopFailed

\* The destructor waits for a handler that has begun: one that uses destroyed
\* members was still queued when the destructor found _isRunning not set.
BegunIsWaitedFor ==
    Sound /\ ~alive => \A r \in Runner : Busy(r) => handling[r] \in late

\* No stream outlives its controller but that of such a late handler.
StreamGoneWithController == Sound /\ owner = "gone" => streams \subseteq late

\* A controller never has two streams running, since the old ImageSource is
\* destroyed before the new one is started.
OneStream ==
    Sound /\ alive => \A g, h \in streams \cap started : g = h

\* A stream is of the last URL the camera has given: of none only when every
\* command so far was refused, and of an old one only when later ones were.
StreamHasLastUrl ==
    Sound /\ alive =>
        \A h \in streams :
            urlOf[h] = Max({0} \cup {k \in 1..h : answer[k] = "result"})

\* The owner or a handler is in the destructor of a stream that hangs.
Held == \E r \in Runner : leaving[r] \in hanging

\* A first Stop, however early, cancels nothing: the command of every StartStreaming
\* before it is sent, unless an exception ends the process, or a handler before it
\* waits for a stream that hangs.
StopCancelsNothing ==
    \A h \in Handler :
        h <= posted /\ ~hasStopped ~> answer[h] # "none" \/ owner = "terminated" \/ Held

\* Destruction comes to an end, unless it waits for a stream that hangs, its own or
\* by a handler: nothing else can hold it, whichever state the task is in.
DestructorReturns == call = "members" ~> owner \in {"gone", "terminated"} \/ Held

=============================================================================
