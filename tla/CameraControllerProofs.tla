------------------------ MODULE CameraControllerProofs ------------------------
(***************************************************************************)
(* Proofs about CameraController: it uses its task as AsyncTask specifies, *)
(* so that what is proved of every task holds for it, and what it promises *)
(* of its handlers and streams, for any number of calls.                   *)
(***************************************************************************)
EXTENDS CameraController, AsyncTaskProofs

-----------------------------------------------------------------------------
(* The inductive invariant *)

Values ==
    /\ call \in {"none", "start", "members", "source", "base", "destroyed"}
    /\ step \in [Runner -> {"none", "invoke", "make", "replace", "start", "end", "throw"}]
    /\ answer \in [Handler -> {"none", "result", "refused", "empty"}]
    /\ streams \subseteq Handler
Urls == urlOf \in [Handler -> 0..MaxPosts] /\ {liveViewUrl_, imageSource_} \subseteq 0..MaxPosts

\* A runner stands in the handler while it has one.
Standing == \A r \in Runner : step[r] # "none" <=> Busy(r)

\* How far the destruction has got.
Destruction ==
    /\ alive = (call \notin {"source", "base", "destroyed"})
    /\ dying => call = "destroyed"
    /\ owner = "gone" => dying

\* While no thread has been replaced, the flag is set by the one that runs.
FlagOfThread == detached = {} => \A t \in Thread : at[t] \in {"run", "leave"} => _isRunning

\* What is left when the destructor goes on is late.
Left ==
    Sound /\ (call \in {"source", "base", "destroyed"} \/ (call = "members" /\ owner = "idle")) =>
        /\ \A i \in 1..Len(_queue) : _queue[i] \in late
        /\ \A r \in Runner : Busy(r) => handling[r] \in late

\* A stream is destroyed by the handler that replaces it, or by the owner.
Departing ==
    /\ leaving \in [Runner -> 0..MaxPosts]
    /\ \A r \in Runner : leaving[r] # 0 => step[r] = "replace" \/ (r = Owner /\ call = "source")
    /\ call = "source" => owner \in {"idle", "terminated"}

Departed == {leaving[r] : r \in Runner}
Streaming == Sound => streams \subseteq Departed \cup IF alive THEN {imageSource_} ELSE late

\* What a handler has made is not started before it comes to that.
Fresh ==
    Sound =>
        /\ \A h \in started \cap Handler : answer[h] # "none"
        /\ \A r \in Runner : step[r] \in {"make", "replace", "start"} => handling[r] \notin started
        /\ \A r \in Runner : step[r] \in {"replace", "start"} => imageSource_ = handling[r]

\* The commands answered are those of earlier handlers, and of one behind its command.
Asked(k) ==
    \/ \E i \in 1..Len(done) : done[i] = k
    \/ \E r \in Runner : handling[r] = k /\ step[r] \notin {"none", "invoke"}
Answered ==
    Sound /\ owner # "terminated" => \A k \in Handler : answer[k] # "none" => Asked(k)

\* The URL kept is that of the last result.
Results(n) == {0} \cup {k \in 1..n : answer[k] = "result"}
LastOf(n, u) == u \in Results(n) /\ \A k \in Results(n) : k <= u
Kept ==
    Sound =>
        /\ LastOf(MaxPosts, liveViewUrl_)
        /\ \A h \in streams : LastOf(h, urlOf[h]) /\ answer[h] # "none"
        /\ owner # "terminated" =>
              \A r \in Runner : step[r] \in {"make", "replace", "start"} => answer[handling[r]] # "none"

ControllerInv ==
    /\ IInv /\ Values /\ Urls /\ Standing /\ Destruction /\ FlagOfThread
    /\ Departing /\ Left /\ Streaming /\ Fresh /\ Answered /\ Kept

-----------------------------------------------------------------------------
(* The task *)

\* A step of the controller is one of the task, or leaves the task alone.
LEMMA StepOfTask == [ControllerNext]_vars => [Next]_taskVars
<1> SUFFICES ASSUME [ControllerNext]_vars PROVE [Next]_taskVars
  OBVIOUS
<1> USE DEF Next
<1>1. CASE StartStreaming \/ StartTask \/ DestroyMembers \/ DestroySource
  BY <1>1 DEF StartStreaming, StartTask, DestroyMembers, DestroySource, LeaveSource
<1>2. CASE StopTask \/ Destroy \/ DestroyBase
  <2>1. FALSE \in BOOLEAN /\ TRUE \in BOOLEAN
    OBVIOUS
  <2>2. CASE StopTask
    BY <2>1, <2>2 DEF StopTask
  <2>3. CASE Destroy
    BY <2>1, <2>3 DEF Destroy
  <2>4. CASE DestroyBase
    BY <2>1, <2>4 DEF DestroyBase
  <2> QED
    BY <1>2, <2>2, <2>3, <2>4
<1>3. CASE TaskStep(JoinAndRun) \/ TaskStep(StopReturns)
  BY <1>3 DEF TaskStep
<1>4. CASE \E t \in Thread : TaskStep(Enter(t)) \/ TaskStep(RunReturns(t)) \/ TaskStep(Leave(t))
  BY <1>4 DEF TaskStep
<1>5. CASE \E r \in Runner :
        \/ Begin(r) \/ Invoke(r) \/ MakeSource(r) \/ ReplaceSource(r) \/ StartSource(r)
        \/ End(r) \/ Throw(r)
  BY <1>5 DEF Begin, Invoke, MakeSource, ReplaceSource, LeaveSource, StartSource, End, Throw
<1>5a. CASE \E h \in Handler : Hang(h)
  BY <1>5a DEF Hang
<1>6. CASE UNCHANGED vars
  BY <1>6 DEF vars
<1> QED
  BY <1>1, <1>2, <1>3, <1>4, <1>5, <1>5a, <1>6 DEF ControllerNext

\* Whatever a controller does, its task does what AsyncTask allows, so that every
\* theorem about tasks is one about controllers.
THEOREM ControllerRefinesTask == ControllerSpec => ImplementsTask
<1>1. ControllerInit => Init
  BY DEF ControllerInit
<1> QED
  BY <1>1, StepOfTask, PTL DEF ControllerSpec, ImplementsTask, Spec

\* In a thread that stands in the handler nothing but the handler moves.
LEMMA BusyRuns == ASSUME IInv, NEW r \in Runner, Busy(r)
                  PROVE  at[r] = "run" /\ handling[r] \in 1..posted /\ handling[r] \in Handler
<1>1. at[r] = "run" /\ handling[r] \in 0..posted /\ handling[r] # 0
  BY DEF IInv, Runners, Handlers, Busy
<1>2. posted \in 0..MaxPosts /\ MaxPosts \in Nat
  BY BoundFacts DEF IInv, Numbers
<1> QED
  BY <1>1, <1>2 DEF Handler

-----------------------------------------------------------------------------
(* The controller's own variables *)

LEMMA InitOwn == ControllerInit => ControllerInv
<1> SUFFICES ASSUME ControllerInit PROVE ControllerInv
  OBVIOUS
<1>0. Init /\ IInv
  BY InitIInv DEF ControllerInit
<1>i. /\ call = "none" /\ alive = TRUE /\ late = {} /\ streams = {} /\ liveViewUrl_ = 0
      /\ imageSource_ = 0 /\ started = {} /\ leaving = [r \in Runner |-> 0]
      /\ \A h \in Handler : answer[h] = "none"
      /\ \A r \in Runner : step[r] = "none" /\ handling[r] = 0
      /\ owner = "idle" /\ dying = FALSE
      /\ \A t \in Thread : at[t] = "none"
  BY <1>0, RunnerFacts DEF ControllerInit, Init
<1>m. MaxPosts \in Nat
  BY BoundFacts
<1>1. Values
  BY DEF ControllerInit, Values
<1>2. Urls
  BY <1>m DEF ControllerInit, Urls
<1>3. Standing /\ Destruction /\ FlagOfThread
  BY <1>i DEF Standing, Destruction, FlagOfThread, Busy
<1>4. Left /\ Streaming /\ Fresh /\ Answered
  BY <1>i DEF Left, Streaming, Fresh, Answered
<1>4a. Departing
  BY <1>i, <1>m DEF Departing
<1>5. Kept
  BY <1>i, <1>m DEF Kept, LastOf, Results, Handler
<1> QED
  BY <1>0, <1>1, <1>2, <1>3, <1>4, <1>4a, <1>5 DEF ControllerInv

LEMMA StutterOwn == ASSUME ControllerInv, UNCHANGED vars PROVE ControllerInv'
<1> USE DEF vars, taskVars, service, threads, ownerVars, history, members
<1>1. IInv'
  BY StutterIInv DEF ControllerInv
<1>2. Values' /\ Urls' /\ Standing' /\ Destruction' /\ FlagOfThread'
  BY DEF ControllerInv, Values, Urls, Standing, Destruction, FlagOfThread, Busy
<1>3. Left' /\ Streaming'
  BY DEF ControllerInv, Left, Streaming, Departed, Sound, StopFailed, Busy
<1>3a. Departing' /\ Fresh'
  BY DEF ControllerInv, Departing, Fresh, Sound, StopFailed
<1>4. Answered'
  BY DEF ControllerInv, Answered, Asked, Sound, StopFailed
<1>5. Kept'
  BY DEF ControllerInv, Kept, LastOf, Results, Sound, StopFailed
<1> QED
  BY <1>1, <1>2, <1>3, <1>3a, <1>4, <1>5 DEF ControllerInv

\* Once a thread has been replaced or an exception has left a Stop it stays so.
LEMMA SoundBefore == ASSUME IInv, [Next]_taskVars, Sound' PROVE Sound
<1> USE DEF Sound, StopFailed
<1>1. CASE Post \/ Start \/ DestroyStopping \/ JoinAndRun
  BY <1>1 DEF Post, Start, DestroyStopping, JoinAndRun, threads, ownerVars
<1>2. CASE \E destroying \in BOOLEAN : Stop(destroying)
  BY <1>2 DEF Stop, threads
<1>3. CASE StopReturns
  <2>1. at[Owner] = "run" /\ owner # "terminated" /\ detached' = detached
    BY <1>3 DEF StopReturns, RunEnds, Running
  <2> QED
    BY <2>1 DEF IInv, Runners, Places
<1>4. CASE \E t \in Thread : Enter(t) \/ RunReturns(t) \/ Leave(t)
  BY <1>4 DEF Enter, RunReturns, Leave, RunEnds, ownerVars
<1>5. CASE \E r \in Runner : Take(r) \/ Return(r)
  BY <1>5 DEF Take, Return, threads, ownerVars
<1>6. CASE \E r \in Runner : Escape(r)
  BY <1>6 DEF Escape
<1>7. CASE UNCHANGED taskVars
  BY <1>7 DEF taskVars, threads, ownerVars
<1> QED
  BY <1>1, <1>2, <1>3, <1>4, <1>5, <1>6, <1>7 DEF Next

\* The steps of the task that are not a handler's.
TaskGoesOn ==
    \/ TaskStep(JoinAndRun) \/ TaskStep(StopReturns)
    \/ \E t \in Thread : TaskStep(Enter(t)) \/ TaskStep(RunReturns(t)) \/ TaskStep(Leave(t))
OwnerCalls ==
    StartStreaming \/ StartTask \/ StopTask \/ Destroy \/ DestroyMembers \/ DestroySource \/ DestroyBase

\* The handler whose stream comes to hang does not notice either.
Hangs == \E h \in Handler : Hang(h)

\* None of them changes what a runner is in, or where it stands there.
LEMMA NoHandlerMoves ==
    ASSUME TaskGoesOn \/ OwnerCalls \/ Hangs
    PROVE  UNCHANGED <<handling, step, answer, done, urlOf, liveViewUrl_, imageSource_, started>>
<1>1. CASE TaskGoesOn
  BY <1>1 DEF TaskGoesOn, TaskStep, JoinAndRun, StopReturns, Enter, RunReturns, Leave, RunEnds,
              service, history, members
<1>2. CASE StartStreaming \/ StartTask \/ StopTask
  BY <1>2 DEF StartStreaming, StartTask, StopTask, Post, Start, Stop, taskVars, service, history, members
<1>3. CASE Destroy
  BY <1>3 DEF Destroy, Stop, taskVars, service, history, members
<1>4. CASE DestroyMembers \/ DestroyBase
  BY <1>4 DEF DestroyMembers, DestroyBase, Stop, DestroyStopping, taskVars, service, history, members
<1>5. CASE DestroySource \/ Hangs
  BY <1>5 DEF DestroySource, LeaveSource, Hangs, Hang, taskVars, service, history
<1> QED
  BY <1>1, <1>2, <1>3, <1>4, <1>5 DEF OwnerCalls

\* A command, and the three steps that make a stream, destroy the old one, and start.
LEMMA HandlerStays ==
    ASSUME NEW r \in Runner, Invoke(r) \/ MakeSource(r) \/ ReplaceSource(r) \/ StartSource(r)
    PROVE  /\ UNCHANGED <<taskVars, call, alive, late>>
           /\ step[r] \notin {"none", "end", "throw"}
           /\ \E s \in {"make", "replace", "start", "end", "throw"} : step' = [step EXCEPT ![r] = s]
  BY DEF Invoke, MakeSource, ReplaceSource, LeaveSource, StartSource, In, Goto

LEMMA NextCases ==
    ControllerNext =>
        \/ TaskGoesOn \/ OwnerCalls \/ Hangs
        \/ \E r \in Runner : Begin(r)
        \/ \E r \in Runner : Invoke(r) \/ MakeSource(r) \/ ReplaceSource(r) \/ StartSource(r)
        \/ \E r \in Runner : End(r) \/ Throw(r)
  BY DEF ControllerNext, TaskGoesOn, OwnerCalls, Hangs

LEMMA ValuesStay == ASSUME ControllerInv, ControllerNext PROVE Values' /\ Urls'
<1> USE DEF Values, Urls
<1>0. /\ IInv /\ Values /\ Urls /\ Standing
  BY DEF ControllerInv
<1>h. \A r \in Runner : step[r] # "none" => handling[r] \in Handler
  BY <1>0, BusyRuns DEF Standing
<1>m. Handler \subseteq 0..MaxPosts
  BY BoundFacts DEF Handler
<1>1. CASE TaskGoesOn \/ OwnerCalls \/ Hangs
  <2>1. UNCHANGED <<step, answer, urlOf, liveViewUrl_, imageSource_>>
    BY <1>1, NoHandlerMoves
  <2>2. streams' \subseteq streams /\ call' \in {"none", "start", "members", "source", "base", "destroyed", call}
    <3>1. CASE TaskGoesOn
      BY <3>1 DEF TaskGoesOn, TaskStep, members
    <3>2. CASE OwnerCalls
      BY <3>2 DEF OwnerCalls, StartStreaming, StartTask, StopTask, Destroy, DestroyMembers, DestroySource,
                  DestroyBase, LeaveSource, SourceDestroyed, members
    <3>3. CASE Hangs
      BY <3>3 DEF Hangs, Hang
    <3> QED
      BY <1>1, <3>1, <3>2, <3>3
  <2> QED
    BY <1>0, <2>1, <2>2
<1>2. CASE \E r \in Runner : Begin(r)
  BY <1>0, <1>2 DEF Begin, Goto, members
<1>3. ASSUME NEW r \in Runner, Invoke(r) PROVE Values' /\ Urls'
  <2>1. handling[r] \in Handler
    BY <1>3, <1>h DEF Invoke, In
  <2>2. PICK a \in {"result", "refused", "empty"} :
            /\ answer' = [answer EXCEPT ![handling[r]] = a]
            /\ liveViewUrl_' = UrlAfter(handling[r], a)
            /\ Goto(r, IF a = "empty" THEN "throw" ELSE "make")
    BY <1>3 DEF Invoke
  <2>3. UNCHANGED <<call, streams, imageSource_, urlOf>>
    BY <1>3 DEF Invoke
  <2>4. liveViewUrl_' \in 0..MaxPosts
    BY <1>0, <1>m, <2>1, <2>2 DEF UrlAfter
  <2>5. answer' \in [Handler -> {"none", "result", "refused", "empty"}]
    BY <1>0, <2>1, <2>2
  <2>6. step' \in [Runner -> {"none", "invoke", "make", "replace", "start", "end", "throw"}]
    BY <1>0, <2>2 DEF Goto
  <2> QED
    BY <1>0, <2>3, <2>4, <2>5, <2>6
<1>4. ASSUME NEW r \in Runner, MakeSource(r) PROVE Values' /\ Urls'
  <2>1. handling[r] \in Handler
    BY <1>4, <1>h DEF MakeSource, In
  <2> QED
    BY <1>0, <1>4, <2>1, <1>m DEF MakeSource, Goto
<1>5. ASSUME NEW r \in Runner, ReplaceSource(r) \/ StartSource(r) \/ End(r) \/ Throw(r) PROVE Values' /\ Urls'
  BY <1>0, <1>5 DEF ReplaceSource, LeaveSource, SourceDestroyed, StartSource, End, Throw, Goto, members
<1> QED
  BY <1>1, <1>2, <1>3, <1>4, <1>5, NextCases

LEMMA StandingStays == ASSUME ControllerInv, ControllerNext PROVE Standing'
<1> USE DEF Standing, Busy
<1>0. /\ IInv /\ Standing /\ step \in [Runner -> {"none", "invoke", "make", "replace", "start", "end", "throw"}]
  BY DEF ControllerInv, Values
<1>h. handling \in [Runner -> 0..posted] /\ _queue \in Seq(1..posted)
  BY <1>0 DEF IInv, Handlers
<1>1. CASE TaskGoesOn \/ OwnerCalls \/ Hangs
  BY <1>0, <1>1, NoHandlerMoves
<1>2. ASSUME NEW r \in Runner, Begin(r) PROVE Standing'
  <2>1. /\ handling' = [handling EXCEPT ![r] = Head(_queue)]
        /\ step' = [step EXCEPT ![r] = "invoke"] /\ _queue # << >>
    BY <1>2 DEF Begin, Take, Goto
  <2>2. Head(_queue) # 0
    <3>0. posted \in Nat
      BY <1>0 DEF IInv, Numbers
    <3>1. Head(_queue) = _queue[1] /\ _queue[1] \in 1..posted
      BY <1>h, <2>1, <3>0
    <3> QED
      BY <3>1
  <2> QED
    BY <1>0, <1>h, <2>1, <2>2
<1>3. ASSUME NEW r \in Runner, Invoke(r) \/ MakeSource(r) \/ ReplaceSource(r) \/ StartSource(r) PROVE Standing'
  BY <1>0, <1>3, HandlerStays DEF taskVars, service
<1>4. ASSUME NEW r \in Runner, End(r) \/ Throw(r) PROVE Standing'
  <2>1. handling' = [handling EXCEPT ![r] = 0] /\ step' = [step EXCEPT ![r] = "none"]
    BY <1>4 DEF End, Throw, Return, Escape, Finished, Goto
  <2> QED
    BY <1>0, <1>h, <2>1
<1> QED
  BY <1>1, <1>2, <1>3, <1>4, NextCases

LEMMA DestructionStays == ASSUME ControllerInv, ControllerNext PROVE Destruction'
<1> USE DEF Destruction
<1>0. IInv /\ Destruction
  BY DEF ControllerInv
<1>1. CASE TaskGoesOn
  BY <1>0, <1>1 DEF TaskGoesOn, TaskStep, JoinAndRun, StopReturns, Enter, RunReturns, Leave, RunEnds,
                    ownerVars, members
<1>2. CASE StartStreaming \/ StartTask \/ StopTask
  BY <1>0, <1>2 DEF StartStreaming, StartTask, StopTask, Post, Start, Stop, taskVars, ownerVars, members
<1>3. CASE Destroy
  <2>1. call = "none" /\ call' = "members" /\ owner = "idle" /\ alive' = alive
    BY <1>3 DEF Destroy, members
  <2>2. (dying' => dying) /\ owner' \in {"idle", "join"}
    BY <1>3 DEF Destroy, Stop, taskVars, ownerVars
  <2> QED
    BY <1>0, <2>1, <2>2
<1>3a. CASE DestroyMembers \/ DestroySource \/ Hangs
  <2>1. CASE DestroyMembers
    BY <1>0, <2>1 DEF DestroyMembers, taskVars, ownerVars
  <2>2. CASE DestroySource
    BY <1>0, <2>2 DEF DestroySource, LeaveSource, taskVars, ownerVars
  <2>3. CASE Hangs
    BY <1>0, <2>3 DEF Hangs, Hang, taskVars, ownerVars
  <2> QED
    BY <1>3a, <2>1, <2>2, <2>3
<1>4. CASE DestroyBase
  BY <1>0, <1>4 DEF DestroyBase, Stop, DestroyStopping, members
<1>5. CASE \E r \in Runner : Begin(r) \/ End(r)
  BY <1>0, <1>5 DEF Begin, End, Take, Return, ownerVars, members
<1>6. CASE \E r \in Runner : Invoke(r) \/ MakeSource(r) \/ ReplaceSource(r) \/ StartSource(r)
  BY <1>0, <1>6, HandlerStays DEF taskVars, ownerVars
<1>7. CASE \E r \in Runner : Throw(r)
  BY <1>0, <1>7 DEF Throw, Escape, members
<1> QED
  BY <1>1, <1>2, <1>3, <1>3a, <1>4, <1>5, <1>6, <1>7, NextCases DEF OwnerCalls

\* A thread that has set the flag is the only one, unless one has been replaced.
LEMMA FlagStays == ASSUME ControllerInv, [Next]_taskVars PROVE FlagOfThread'
<1> USE DEF FlagOfThread
<1>0. IInv /\ FlagOfThread /\ at \in [Runner -> {"none", "new", "run", "leave", "ended"}]
  BY DEF ControllerInv, IInv, Places
<1>r. Thread \subseteq Runner /\ Owner \notin Thread
  BY RunnerFacts
<1>1. CASE Post \/ DestroyStopping \/ (\E destroying \in BOOLEAN : Stop(destroying))
  <2>1. UNCHANGED threads
    BY <1>1 DEF Post, DestroyStopping, Stop
  <2> QED
    BY <1>0, <2>1 DEF threads
<1>2. CASE Start
  <2>1. starts' \in Thread
    BY <1>0, <1>2, BoundFacts DEF Start, IInv, Numbers
  <2>2. at' = [at EXCEPT ![starts'] = "new"] /\ _isRunning' = _isRunning /\ detached \subseteq detached'
    BY <1>2 DEF Start
  <2> QED
    BY <1>0, <1>r, <2>1, <2>2
<1>3. CASE JoinAndRun \/ StopReturns
  <2>1. (at' = [at EXCEPT ![Owner] = "run"] \/ at' = [at EXCEPT ![Owner] = "none"])
        /\ _isRunning' = _isRunning /\ detached' = detached
    BY <1>3 DEF JoinAndRun, StopReturns, RunEnds
  <2> QED
    BY <1>0, <1>r, <2>1, RunnerFacts
<1>4. ASSUME NEW t \in Thread, Enter(t) PROVE FlagOfThread'
  BY <1>4 DEF Enter
<1>5. ASSUME NEW t \in Thread, RunReturns(t) PROVE FlagOfThread'
  <2>1. at' = [at EXCEPT ![t] = "leave"] /\ at[t] = "run" /\ _isRunning' = _isRunning /\ detached' = detached
    BY <1>5 DEF RunReturns, RunEnds, Running
  <2> QED
    BY <1>0, <1>r, <2>1
<1>6. ASSUME NEW t \in Thread, Leave(t) PROVE FlagOfThread'
  <2>1. at' = [at EXCEPT ![t] = "ended"] /\ at[t] = "leave" /\ detached' = detached
    BY <1>6 DEF Leave
  <2>2. detached = {} => \A u \in Thread : at[u] \in {"run", "leave"} => u = t
    BY <1>0, <2>1 DEF IInv, Runners, Live
  <2> QED
    BY <1>0, <1>r, <2>1, <2>2
<1>7. CASE \E r \in Runner : Take(r) \/ Return(r)
  BY <1>0, <1>7 DEF Take, Return, threads
<1>8. ASSUME NEW r \in Runner, Escape(r) PROVE FlagOfThread'
  <2>1. (at' = at \/ at' = [at EXCEPT ![Owner] = "none"]) /\ _isRunning' = _isRunning /\ detached' = detached
    BY <1>8 DEF Escape
  <2> QED
    BY <1>0, <1>r, <2>1, RunnerFacts
<1>9. CASE UNCHANGED taskVars
  BY <1>0, <1>9 DEF taskVars, threads
<1> QED
  BY <1>1, <1>2, <1>3, <1>4, <1>5, <1>6, <1>7, <1>8, <1>9 DEF Next

-----------------------------------------------------------------------------
(* What the destructor leaves behind *)

IsLate ==
    /\ \A i \in 1..Len(_queue) : _queue[i] \in late
    /\ \A r \in Runner : Busy(r) => handling[r] \in late
Leaving == call \in {"source", "base", "destroyed"} \/ (call = "members" /\ owner = "idle")

\* While the flag is not set, and the owner is in no call, no handler runs.
LEMMA NobodyRuns ==
    ASSUME ControllerInv, Sound, owner = "idle", ~_isRunning \/ _isStopping, NEW r \in Runner
    PROVE  ~Busy(r)
<1>0. IInv /\ FlagOfThread /\ detached = {} /\ ~_isRunning
  BY DEF ControllerInv, Sound, StopFailed
<1>1. at[Owner] = "none" /\ (Busy(r) => at[r] = "run")
  BY <1>0 DEF IInv, Runners
<1>2. \A t \in Thread : at[t] # "run"
  BY <1>0 DEF FlagOfThread
<1> QED
  BY <1>1, <1>2 DEF Runner

LEMMA LeftStays == ASSUME ControllerInv, ControllerNext, Sound, Sound' PROVE Left'
<1>0. IInv /\ (Leaving => IsLate)
  BY DEF ControllerInv, Left, Leaving, IsLate
<1>g. SUFFICES Leaving' => IsLate'
  BY DEF Left, Leaving, IsLate
<1>h. _queue \in Seq(1..posted) /\ handling \in [Runner -> 0..posted]
  BY <1>0 DEF IInv, Handlers
\* A step that takes nothing up and lets no call of the owner return.
<1>s. ASSUME UNCHANGED <<_queue, handling, late>>, Leaving' => Leaving PROVE Leaving' => IsLate'
  BY <1>0, <1>s DEF IsLate, Busy
<1>1. CASE TaskStep(JoinAndRun) \/ \E t \in Thread : TaskStep(Enter(t)) \/ TaskStep(RunReturns(t)) \/ TaskStep(Leave(t))
  <2>1. UNCHANGED <<_queue, handling, late, call>> /\ (owner' = owner \/ owner' # "idle")
    BY <1>1 DEF TaskStep, JoinAndRun, Enter, RunReturns, Leave, RunEnds, service, ownerVars
  <2> QED
    BY <1>s, <2>1 DEF Leaving
<1>2. CASE TaskStep(StopReturns)
  <2>1. UNCHANGED <<_queue, handling, late>>
    BY <1>2 DEF TaskStep, StopReturns, RunEnds
  <2>2. _queue = << >> /\ \A r \in Runner : ~Busy(r)
    <3>1. owner = "drain"
      <4>1. owner # "terminated" /\ at[Owner] = "run"
        BY <1>2 DEF TaskStep, StopReturns, RunEnds, Running
      <4> QED
        BY <1>0, <4>1 DEF IInv, Runners, Places
    <3>2. _stopped \/ (_queue = << >> /\ \A r \in Runner : ~Busy(r))
      BY <1>2 DEF TaskStep, StopReturns, RunEnds, Outstanding
    <3> QED
      BY <1>0, <3>1, <3>2 DEF IInv, Drained
  <2> QED
    BY <2>1, <2>2 DEF IsLate, Busy
<1>3. CASE StartStreaming \/ StartTask \/ StopTask
  BY <1>3 DEF StartStreaming, StartTask, StopTask, Leaving
<1>4. CASE Destroy
  <2>0. owner = "idle" /\ call' = "members"
    BY <1>4 DEF Destroy
  <2>1. CASE StopWanted /\ ~_isStopping
    BY <1>4, <2>0, <2>1 DEF Destroy, Stop, Leaving
  <2>2. CASE ~(StopWanted /\ ~_isStopping)
    <3>1. late' = ToSet(_queue) /\ UNCHANGED <<_queue, handling>>
      BY <1>4, <2>2 DEF Destroy, taskVars, service
    <3>2. \A r \in Runner : ~Busy(r)
      BY <2>0, <2>2, NobodyRuns DEF StopWanted, IsStarted
    <3>3. \A i \in 1..Len(_queue) : _queue[i] \in ToSet(_queue)
      BY <1>h DEF ToSet
    <3> QED
      BY <3>1, <3>2, <3>3 DEF IsLate, Busy
  <2> QED
    BY <2>1, <2>2
<1>5. CASE DestroyMembers \/ DestroySource
  <2>1. UNCHANGED <<_queue, handling, late>> /\ Leaving
    BY <1>5 DEF DestroyMembers, DestroySource, LeaveSource, taskVars, service, Leaving
  <2> QED
    BY <1>s, <2>1
<1>6. CASE DestroyBase
  <2>1. UNCHANGED <<_queue, handling, late>> /\ Leaving
    BY <1>6 DEF DestroyBase, Stop, DestroyStopping, service, Leaving
  <2> QED
    BY <1>s, <2>1
<1>7. ASSUME NEW r \in Runner, Begin(r) PROVE Leaving' => IsLate'
  <2>1. /\ handling' = [handling EXCEPT ![r] = Head(_queue)] /\ _queue' = Tail(_queue) /\ _queue # << >>
        /\ UNCHANGED <<late, call, owner>>
    BY <1>7 DEF Begin, Take, ownerVars
  <2>2. /\ Head(_queue) = _queue[1] /\ 1 \in 1..Len(_queue)
        /\ \A i \in 1..Len(Tail(_queue)) : Tail(_queue)[i] = _queue[i + 1] /\ i + 1 \in 1..Len(_queue)
    BY <1>h, <2>1
  <2> QED
    BY <1>0, <1>h, <2>1, <2>2 DEF Leaving, IsLate, Busy
<1>8. CASE \E r \in Runner : Invoke(r) \/ MakeSource(r) \/ ReplaceSource(r) \/ StartSource(r)
  <2>1. UNCHANGED <<_queue, handling, late, call, owner>>
    BY <1>8, HandlerStays DEF taskVars, service, ownerVars
  <2> QED
    BY <1>s, <2>1 DEF Leaving
<1>9. ASSUME NEW r \in Runner, End(r) \/ Throw(r) PROVE Leaving' => IsLate'
  <2>1. handling' = [handling EXCEPT ![r] = 0] /\ UNCHANGED <<_queue, late, call>>
    BY <1>9 DEF End, Throw, Return, Escape, Finished
  <2>2. owner' = owner \/ owner' \in {"gone", "terminated"}
    <3>1. CASE End(r)
      BY <3>1 DEF End, Return, ownerVars
    <3>2. CASE Throw(r)
      <4>1. owner' = "idle" => _isStopping'
        <5>1. owner' = "idle" => r = Owner /\ at[Owner] = "run" /\ _isStopping' = _isStopping
          BY <3>2, RunnerFacts DEF Throw, Escape, Finished, Running
        <5>2. at[Owner] = "run" => owner \notin {"idle", "join", "gone"}
          BY <1>0 DEF IInv, Runners
        <5>3. owner # "terminated"
          BY <3>2 DEF Throw, Escape, Finished, Running
        <5> QED
          BY <1>0, <5>1, <5>2, <5>3 DEF IInv, Stops, Places
      <4>2. owner' # "idle"
        BY <4>1 DEF Sound, StopFailed
      <4> QED
        BY <3>2, <4>2 DEF Throw, Escape
    <3> QED
      BY <1>9, <3>1, <3>2
  <2>3. Leaving' => Leaving
    BY <2>1, <2>2 DEF Leaving
  <2> QED
    BY <1>0, <1>h, <2>1, <2>3 DEF IsLate, Busy
<1>10. CASE Hangs
  <2>1. UNCHANGED <<_queue, handling, late, call, owner>>
    BY <1>10 DEF Hangs, Hang, taskVars, service, ownerVars
  <2> QED
    BY <1>s, <2>1 DEF Leaving
<1> QED
  BY <1>1, <1>2, <1>3, <1>4, <1>5, <1>6, <1>7, <1>8, <1>9, <1>10, NextCases DEF TaskGoesOn, OwnerCalls

LEMMA DepartingStays == ASSUME ControllerInv, ControllerNext PROVE Departing'
<1> USE DEF Departing
<1>0. /\ IInv /\ Departing /\ Standing /\ imageSource_ \in 0..MaxPosts
      /\ step \in [Runner -> {"none", "invoke", "make", "replace", "start", "end", "throw"}]
  BY DEF ControllerInv, Values, Urls
<1>r. Owner \in Runner /\ MaxPosts \in Nat
  BY RunnerFacts, BoundFacts
<1>o. call = "source" => at[Owner] # "run" \/ owner = "terminated"
  BY <1>0 DEF IInv, Runners
<1>1. CASE TaskGoesOn
  <2>1. UNCHANGED <<leaving, step, call>>
    BY <1>1 DEF TaskGoesOn, TaskStep, members
  <2>2. call = "source" => owner' = owner
    <3>1. ~(call = "source" /\ TaskStep(JoinAndRun))
      BY <1>0 DEF TaskStep, JoinAndRun
    <3>2. ~(call = "source" /\ TaskStep(StopReturns))
      BY <1>o DEF TaskStep, StopReturns, RunEnds, Running
    <3>3. CASE \E t \in Thread : TaskStep(Enter(t)) \/ TaskStep(RunReturns(t)) \/ TaskStep(Leave(t))
      BY <3>3 DEF TaskStep, Enter, RunReturns, Leave, ownerVars
    <3> QED
      BY <1>1, <3>1, <3>2, <3>3 DEF TaskGoesOn
  <2> QED
    BY <1>0, <2>1, <2>2
<1>2. CASE StartStreaming \/ StartTask \/ StopTask \/ Destroy \/ DestroyBase
  <2>1. UNCHANGED <<leaving, step>> /\ call # "source" /\ call' # "source"
    BY <1>2 DEF StartStreaming, StartTask, StopTask, Destroy, DestroyBase, members
  <2> QED
    BY <1>0, <2>1
<1>3. CASE DestroyMembers
  BY <1>0, <1>3, <1>r DEF DestroyMembers, taskVars, ownerVars
<1>4. CASE DestroySource
  BY <1>0, <1>4, <1>r DEF DestroySource, LeaveSource
<1>5. CASE Hangs
  BY <1>0, <1>5 DEF Hangs, Hang, taskVars, ownerVars
<1>6. ASSUME NEW r \in Runner, Begin(r) PROVE Departing'
  <2>1. step[r] = "none"
    BY <1>0, <1>6 DEF Begin, Take, Standing
  <2>2. UNCHANGED <<leaving, call, owner>> /\ step' = [step EXCEPT ![r] = "invoke"]
    BY <1>6 DEF Begin, Take, Goto, members, ownerVars
  <2> QED
    BY <1>0, <2>1, <2>2
<1>7. ASSUME NEW r \in Runner, Invoke(r) \/ StartSource(r) PROVE Departing'
  <2>1. step[r] # "replace" /\ UNCHANGED <<leaving, call, owner>>
        /\ \A s \in Runner : s # r => step'[s] = step[s]
    BY <1>0, <1>7 DEF Invoke, StartSource, In, Goto, taskVars, ownerVars
  <2> QED
    BY <1>0, <2>1
<1>8. ASSUME NEW r \in Runner, MakeSource(r) PROVE Departing'
  <2>1. /\ leaving' = [leaving EXCEPT ![r] = OldSource] /\ step' = [step EXCEPT ![r] = "replace"]
        /\ UNCHANGED <<call, owner>> /\ OldSource \in 0..MaxPosts
    BY <1>0, <1>8, <1>r DEF MakeSource, OldSource, Goto, taskVars, ownerVars
  <2> QED
    BY <1>0, <2>1
<1>9. ASSUME NEW r \in Runner, ReplaceSource(r) PROVE Departing'
  <2>1. /\ leaving' = [leaving EXCEPT ![r] = 0] /\ step' = [step EXCEPT ![r] = "start"]
        /\ UNCHANGED <<call, owner>>
    BY <1>9 DEF ReplaceSource, LeaveSource, Goto, taskVars, ownerVars
  <2> QED
    BY <1>0, <1>r, <2>1
<1>10. ASSUME NEW r \in Runner, End(r) \/ Throw(r) PROVE Departing'
  <2>1. /\ step[r] \in {"end", "throw"} /\ step' = [step EXCEPT ![r] = "none"]
        /\ UNCHANGED <<leaving, call>> /\ at[r] = "run" /\ owner # "terminated"
    <3>1. CASE End(r)
      BY <3>1 DEF End, In, Goto, Return, Finished, Running, members
    <3>2. CASE Throw(r)
      BY <3>2 DEF Throw, In, Goto, Escape, Finished, Running, members
    <3> QED
      BY <1>10, <3>1, <3>2
  <2>2. call = "source" => owner' \in {owner, "terminated"}
    <3>1. CASE r = Owner
      BY <1>o, <2>1, <3>1
    <3>2. CASE r # Owner
      BY <1>10, <3>2 DEF End, Throw, Return, Escape, ownerVars
    <3> QED
      BY <3>1, <3>2
  <2> QED
    BY <1>0, <2>1, <2>2
<1> QED
  BY <1>1, <1>2, <1>3, <1>4, <1>5, <1>6, <1>7, <1>8, <1>9, <1>10, NextCases DEF OwnerCalls

LEMMA StreamingStays == ASSUME ControllerInv, ControllerNext, Sound, Sound' PROVE Streaming'
<1>0. /\ streams \subseteq Departed \cup IF alive THEN {imageSource_} ELSE late
      /\ alive = (call \notin {"source", "base", "destroyed"}) /\ Standing /\ Departing /\ IInv
      /\ streams \subseteq Handler
  BY DEF ControllerInv, Streaming, Destruction, Values
<1>l. ~alive => \A r \in Runner : Busy(r) => handling[r] \in late
  BY <1>0 DEF ControllerInv, Left
<1>z. 0 \notin Handler /\ Owner \in Runner
  BY RunnerFacts DEF Handler
<1> SUFFICES streams' \subseteq Departed' \cup IF alive' THEN {imageSource_'} ELSE late'
  BY DEF Streaming
\* A step that leaves the streams alone.
<1>s. ASSUME UNCHANGED <<streams, leaving, alive, imageSource_>>, alive \/ UNCHANGED late
      PROVE  streams' \subseteq Departed' \cup IF alive' THEN {imageSource_'} ELSE late'
  BY <1>0, <1>s DEF Departed
<1>1. CASE TaskGoesOn \/ StartStreaming \/ StartTask \/ StopTask \/ DestroyBase \/ Hangs
  BY <1>1, <1>s DEF TaskGoesOn, TaskStep, StartStreaming, StartTask, StopTask, DestroyBase, Hangs, Hang, members
<1>2. CASE Destroy
  BY <1>0, <1>2, <1>s DEF Destroy, members
<1>3. CASE DestroyMembers
  <2>1. /\ alive /\ alive' = FALSE /\ streams' = streams /\ owner = "idle" /\ call = "members"
        /\ leaving' = [leaving EXCEPT ![Owner] = imageSource_]
    BY <1>0, <1>3 DEF DestroyMembers
  <2>2. leaving[Owner] = 0
    <3>1. ~Busy(Owner)
      BY <1>0, <1>z, <2>1 DEF IInv, Runners
    <3> QED
      BY <1>0, <1>z, <2>1, <3>1 DEF Departing, Standing
  <2>3. \A h \in streams : h = imageSource_ \/ \E r \in Runner \ {Owner} : h = leaving[r]
    BY <1>0, <1>z, <2>1, <2>2 DEF Departed
  <2>4. \A h \in streams : \E r \in Runner : h = leaving'[r]
    <3> SUFFICES ASSUME NEW h \in streams PROVE \E r \in Runner : h = leaving'[r]
      OBVIOUS
    <3>1. CASE h = imageSource_
      BY <1>0, <1>z, <2>1, <3>1 DEF Departing
    <3>2. CASE \E r \in Runner \ {Owner} : h = leaving[r]
      BY <1>0, <2>1, <3>2 DEF Departing
    <3> QED
      BY <2>3, <3>1, <3>2
  <2> QED
    BY <2>1, <2>4 DEF Departed
\* A stream has been destroyed by r.
<1>4. ASSUME NEW r \in Runner, LeaveSource(r)
      PROVE  streams' \subseteq Departed' \cup IF alive' THEN {imageSource_'} ELSE late'
  <2>1. /\ streams' = streams \ {leaving[r]} /\ leaving' = [leaving EXCEPT ![r] = 0]
        /\ UNCHANGED <<alive, imageSource_, late>>
    BY <1>4 DEF LeaveSource, SourceDestroyed
  <2>2. \A h \in streams' : h \in Departed => h \in Departed'
    <3> SUFFICES ASSUME NEW h \in streams', NEW s \in Runner, h = leaving[s] PROVE \E u \in Runner : h = leaving'[u]
      BY DEF Departed
    <3>1. s # r
      BY <2>1
    <3> QED
      BY <1>0, <2>1, <3>1 DEF Departing
  <2> QED
    BY <1>0, <2>1, <2>2
<1>5. CASE DestroySource \/ \E r \in Runner : ReplaceSource(r)
  BY <1>4, <1>5, <1>z DEF DestroySource, ReplaceSource
<1>6. CASE \E r \in Runner : Begin(r) \/ End(r) \/ Throw(r) \/ Invoke(r) \/ StartSource(r)
  BY <1>6, <1>s DEF Begin, End, Throw, Invoke, StartSource, members
<1>7. ASSUME NEW r \in Runner, MakeSource(r)
      PROVE  streams' \subseteq Departed' \cup IF alive' THEN {imageSource_'} ELSE late'
  <2>1. /\ Busy(r) /\ step[r] = "make" /\ streams' = streams \cup {handling[r]} /\ imageSource_' = handling[r]
        /\ leaving' = [leaving EXCEPT ![r] = OldSource] /\ UNCHANGED <<alive, late>> /\ owner # "terminated"
    BY <1>0, <1>7 DEF MakeSource, In, Standing
  <2>2. leaving[r] = 0
    <3>1. r = Owner => call # "source"
      BY <1>0, <2>1 DEF IInv, Runners, Departing
    <3> QED
      BY <1>0, <2>1, <3>1 DEF Departing
  <2>3. \A h \in streams : h \in Departed => h \in Departed'
    <3> SUFFICES ASSUME NEW h \in streams, NEW s \in Runner, h = leaving[s] PROVE \E u \in Runner : h = leaving'[u]
      BY DEF Departed
    <3>1. s # r
      BY <1>0, <1>z, <2>2
    <3> QED
      BY <1>0, <2>1, <3>1 DEF Departing
  <2>4. alive => imageSource_ \in Departed'
    BY <1>0, <2>1 DEF Departed, Departing, OldSource
  <2> QED
    BY <1>0, <1>l, <2>1, <2>3, <2>4
<1> QED
  BY <1>1, <1>2, <1>3, <1>5, <1>6, <1>7, NextCases DEF OwnerCalls

-----------------------------------------------------------------------------
(* The commands and their answers *)

\* The handler that stands in r is the last that was asked, but for r itself.
LEMMA LastAsked ==
    ASSUME ControllerInv, Sound, NEW r \in Runner, Busy(r), NEW k \in Handler, Asked(k)
    PROVE  k < handling[r] \/ (k = handling[r] /\ step[r] \notin {"none", "invoke"})
<1>0. IInv /\ Standing /\ detached = {} /\ done \in Seq(1..posted)
  BY DEF ControllerInv, Sound, IInv, Handlers
<1>1. CASE \E i \in 1..Len(done) : done[i] = k
  BY <1>0, <1>1 DEF IInv, Ordered
<1>2. CASE \E s \in Runner : handling[s] = k /\ step[s] \notin {"none", "invoke"}
  <2>1. PICK s \in Runner : handling[s] = k /\ step[s] \notin {"none", "invoke"}
    BY <1>2
  <2>2. Busy(s)
    BY <1>0, <2>1 DEF Standing
  <2>3. s = r
    BY <1>0, <2>2, BusyRuns, OneRuns
  <2> QED
    BY <2>1, <2>3
<1> QED
  BY <1>1, <1>2 DEF Asked

LEMMA FreshStays == ASSUME ControllerInv, ControllerNext, Sound, Sound' PROVE Fresh'
<1> USE DEF Fresh
<1>0. /\ IInv /\ Standing /\ detached = {}
      /\ step \in [Runner -> {"none", "invoke", "make", "replace", "start", "end", "throw"}]
      /\ answer \in [Handler -> {"none", "result", "refused", "empty"}]
      /\ handling \in [Runner -> 0..posted]
  BY DEF ControllerInv, Values, Sound, IInv, Handlers
<1>f. /\ \A h \in started \cap Handler : answer[h] # "none"
      /\ \A r \in Runner : step[r] \in {"make", "replace", "start"} => handling[r] \notin started
      /\ \A r \in Runner : step[r] \in {"replace", "start"} => imageSource_ = handling[r]
  BY DEF ControllerInv
<1>a. owner # "terminated" => \A k \in Handler : answer[k] # "none" => Asked(k)
  BY DEF ControllerInv, Answered
\* A runner that stands in a handler is the only one.
<1>b. ASSUME NEW r \in Runner, NEW s \in Runner, step[r] # "none", step[s] # "none" PROVE r = s
  BY <1>0, <1>b, BusyRuns, OneRuns DEF Standing
<1>1. CASE TaskGoesOn \/ OwnerCalls \/ Hangs
  BY <1>1, <1>f, NoHandlerMoves
<1>2. ASSUME NEW r \in Runner, Begin(r) \/ End(r) \/ Throw(r) PROVE Fresh'
  <2>1. /\ UNCHANGED <<answer, started, imageSource_>>
        /\ \E x \in {"invoke", "none"} : step' = [step EXCEPT ![r] = x]
        /\ \A s \in Runner : s # r => handling'[s] = handling[s]
    <3>1. CASE Begin(r)
      BY <1>0, <3>1 DEF Begin, Take, Goto, members
    <3>2. CASE End(r) \/ Throw(r)
      BY <1>0, <3>2 DEF End, Throw, Return, Escape, Finished, Goto, members
    <3> QED
      BY <1>2, <3>1, <3>2
  <2>2. \A s \in Runner : step'[s] \in {"make", "replace", "start"} => s # r /\ step'[s] = step[s]
    BY <1>0, <2>1
  <2> QED
    BY <1>f, <2>1, <2>2
<1>3. ASSUME NEW r \in Runner, Invoke(r) PROVE Fresh'
  <2>1. /\ owner # "terminated" /\ step[r] = "invoke" /\ UNCHANGED <<handling, started, imageSource_>>
        /\ \E x \in {"make", "throw"} : step' = [step EXCEPT ![r] = x]
        /\ \E a \in {"result", "refused", "empty"} : answer' = [answer EXCEPT ![handling[r]] = a]
    BY <1>3 DEF Invoke, In, Goto, taskVars, service
  <2>2. Busy(r) /\ handling[r] \in Handler
    BY <1>0, <2>1, BusyRuns DEF Standing
  <2>3. answer[handling[r]] = "none"
    <3> SUFFICES ASSUME answer[handling[r]] # "none" PROVE FALSE
      OBVIOUS
    <3>1. handling[r] < handling[r] \/ step[r] # "invoke"
      BY <1>a, <2>1, <2>2, LastAsked
    <3>2. handling[r] \in Int
      BY <2>2, BoundFacts DEF Handler
    <3> QED
      BY <2>1, <3>1, <3>2
  <2>4. handling[r] \notin started
    BY <1>f, <2>2, <2>3
  <2>5. \A h \in Handler : answer[h] # "none" => answer'[h] # "none"
    BY <1>0, <2>1, <2>2
  <2>6. \A s \in Runner : step'[s] # "none" => s = r
    BY <1>0, <1>b, <2>1
  <2> QED
    BY <1>0, <1>f, <2>1, <2>4, <2>5, <2>6
<1>4. ASSUME NEW r \in Runner, MakeSource(r) \/ ReplaceSource(r) \/ StartSource(r) PROVE Fresh'
  <2>1. /\ UNCHANGED <<handling, answer>> /\ step[r] \in {"make", "replace", "start"}
        /\ \E x \in {"replace", "start", "end"} :
            /\ step' = [step EXCEPT ![r] = x]
            /\ x # "end" => started' = started /\ imageSource_' = handling[r]
            /\ x = "end" => started' = started \cup {handling[r]} /\ answer[handling[r]] # "none"
    <3>1. CASE MakeSource(r)
      BY <3>1 DEF MakeSource, In, Goto, taskVars, service
    <3>2. CASE ReplaceSource(r)
      BY <1>f, <3>2 DEF ReplaceSource, LeaveSource, In, Goto, taskVars, service
    <3>3. CASE StartSource(r)
      <4>1. Busy(r) /\ handling[r] \in Handler /\ step[r] = "start" /\ owner # "terminated"
        BY <1>0, <3>3, BusyRuns DEF StartSource, In, Standing
      <4>2. answer[handling[r]] # "none"
        BY <4>1 DEF ControllerInv, Kept
      <4> QED
        BY <1>f, <3>3, <4>1, <4>2 DEF StartSource, In, Goto, taskVars, service
    <3> QED
      BY <1>4, <3>1, <3>2, <3>3
  <2>2. \A s \in Runner : step'[s] # "none" => s = r
    BY <1>0, <1>b, <2>1
  <2> QED
    BY <1>0, <1>f, <2>1, <2>2
<1> QED
  BY <1>1, <1>2, <1>3, <1>4, NextCases

LEMMA AnsweredStays == ASSUME ControllerInv, ControllerNext, Sound, Sound' PROVE Answered'
<1>0. /\ IInv /\ Standing /\ done \in Seq(1..posted) /\ handling \in [Runner -> 0..posted]
      /\ step \in [Runner -> {"none", "invoke", "make", "replace", "start", "end", "throw"}]
      /\ answer \in [Handler -> {"none", "result", "refused", "empty"}]
  BY DEF ControllerInv, IInv, Handlers, Values
<1>a. owner # "terminated" => \A k \in Handler : answer[k] # "none" => Asked(k)
  BY DEF ControllerInv, Answered
<1> SUFFICES ASSUME owner' # "terminated", NEW k \in Handler, answer'[k] # "none" PROVE Asked(k)'
  BY DEF Answered
<1>1. CASE TaskGoesOn \/ OwnerCalls \/ Hangs
  <2>1. UNCHANGED <<handling, step, answer, done>>
    BY <1>1, NoHandlerMoves
  <2>2. owner # "terminated"
    <3>1. CASE TaskGoesOn
      BY <3>1 DEF TaskGoesOn, TaskStep, JoinAndRun, StopReturns, Enter, RunReturns, Leave, RunEnds, Running
    <3>2. CASE StartStreaming \/ StartTask \/ StopTask
      BY <3>2 DEF StartStreaming, StartTask, StopTask, Post, Stop
    <3>3. CASE Destroy \/ DestroyMembers \/ DestroySource \/ Hangs
      BY <3>3 DEF Destroy, DestroyMembers, DestroySource, Hangs, Hang
    <3>4. CASE DestroyBase
      BY <3>4 DEF DestroyBase, Stop, DestroyStopping
    <3> QED
      BY <1>1, <3>1, <3>2, <3>3, <3>4 DEF OwnerCalls
  <2> QED
    BY <1>a, <2>1, <2>2 DEF Asked
<1>2. ASSUME NEW r \in Runner, Begin(r) PROVE Asked(k)'
  <2>1. /\ handling' = [handling EXCEPT ![r] = Head(_queue)] /\ step' = [step EXCEPT ![r] = "invoke"]
        /\ ~Busy(r) /\ owner # "terminated" /\ UNCHANGED <<answer, done>>
    BY <1>2 DEF Begin, Take, Goto, Running, history
  <2>2. step[r] = "none"
    BY <1>0, <2>1 DEF Standing
  <2> QED
    BY <1>0, <1>a, <2>1, <2>2 DEF Asked
<1>3. ASSUME NEW r \in Runner, Invoke(r) PROVE Asked(k)'
  <2>1. /\ \E a : answer' = [answer EXCEPT ![handling[r]] = a]
        /\ step'[r] \in {"make", "throw"} /\ \A s \in Runner : s # r => step'[s] = step[s]
        /\ owner # "terminated" /\ step[r] = "invoke"
        /\ UNCHANGED <<handling, done>>
    BY <1>0, <1>3 DEF Invoke, In, Goto, taskVars, service, history
  <2>2. CASE k = handling[r]
    BY <2>1, <2>2 DEF Asked
  <2>3. CASE k # handling[r]
    <3>1. Asked(k)
      BY <1>0, <1>a, <2>1, <2>3
    <3> QED
      BY <2>1, <3>1 DEF Asked
  <2> QED
    BY <2>2, <2>3
<1>4. ASSUME NEW r \in Runner, MakeSource(r) \/ ReplaceSource(r) \/ StartSource(r) PROVE Asked(k)'
  <2>1. /\ step[r] \in {"make", "replace", "start"} /\ step'[r] \in {"replace", "start", "end"}
        /\ \A s \in Runner : s # r => step'[s] = step[s]
        /\ owner # "terminated" /\ UNCHANGED <<handling, done, answer>>
    BY <1>0, <1>4 DEF MakeSource, ReplaceSource, LeaveSource, StartSource, In, Goto, taskVars, service, history
  <2> QED
    BY <1>a, <2>1 DEF Asked
<1>5. ASSUME NEW r \in Runner, End(r) PROVE Asked(k)'
  <2>1. /\ handling' = [handling EXCEPT ![r] = 0] /\ step' = [step EXCEPT ![r] = "none"]
        /\ done' = Append(done, handling[r]) /\ owner # "terminated" /\ answer' = answer
    BY <1>5 DEF End, Return, Finished, Running, Goto
  <2>2. /\ Len(done') = Len(done) + 1 /\ done'[Len(done) + 1] = handling[r]
        /\ \A i \in 1..Len(done) : done'[i] = done[i]
    BY <1>0, <2>1
  <2>3. Len(done) \in Nat
    BY <1>0
  <2>4. Asked(k)
    BY <1>a, <2>1
  <2>5. CASE \E i \in 1..Len(done) : done[i] = k
    <3>1. \E i \in 1..Len(done') : done'[i] = k
      BY <2>2, <2>3, <2>5
    <3> QED
      BY <3>1 DEF Asked
  <2>6. ASSUME NEW s \in Runner, handling[s] = k, step[s] \notin {"none", "invoke"} PROVE Asked(k)'
    <3>1. CASE s = r
      <4>1. \E i \in 1..Len(done') : done'[i] = k
        <5>1. Len(done) + 1 \in 1..Len(done')
          BY <2>2, <2>3
        <5> QED
          BY <2>2, <2>6, <3>1, <5>1
      <4> QED
        BY <4>1 DEF Asked
    <3>2. CASE s # r
      BY <1>0, <2>1, <2>6, <3>2 DEF Asked
    <3> QED
      BY <3>1, <3>2
  <2> QED
    BY <2>4, <2>5, <2>6 DEF Asked
\* An exception ends the process, or leaves a Stop.
<1>6. ASSUME NEW r \in Runner, Throw(r) PROVE FALSE
  <2>1. r = Owner /\ at[Owner] = "run" /\ owner # "terminated" /\ _isStopping' = _isStopping
        /\ owner' \in {"gone", "idle"}
    BY <1>6 DEF Throw, Escape, Finished, Running
  <2>2. owner = "drain"
    BY <1>0, <2>1 DEF IInv, Runners, Places
  <2>3. _isStopping'
    BY <1>0, <2>1, <2>2 DEF IInv, Stops
  <2> QED
    BY <2>1, <2>3 DEF Sound, StopFailed
<1> QED
  BY <1>1, <1>2, <1>3, <1>4, <1>5, <1>6, NextCases

LEMMA KeptStays == ASSUME ControllerInv, ControllerNext, Sound, Sound' PROVE Kept'
<1>0. /\ IInv /\ Standing /\ Values /\ Urls
      /\ step \in [Runner -> {"none", "invoke", "make", "replace", "start", "end", "throw"}]
      /\ answer \in [Handler -> {"none", "result", "refused", "empty"}]
      /\ urlOf \in [Handler -> 0..MaxPosts] /\ streams \subseteq Handler
  BY DEF ControllerInv, Values, Urls
<1>k. /\ LastOf(MaxPosts, liveViewUrl_)
      /\ \A h \in streams : LastOf(h, urlOf[h]) /\ answer[h] # "none"
      /\ owner # "terminated" =>
            \A r \in Runner : step[r] \in {"make", "replace", "start"} => answer[handling[r]] # "none"
  BY DEF ControllerInv, Kept
<1>a. owner # "terminated" => \A k \in Handler : answer[k] # "none" => Asked(k)
  BY DEF ControllerInv, Answered
<1>m. MaxPosts \in Nat /\ Handler = 1..MaxPosts
  BY BoundFacts DEF Handler
<1>1. CASE TaskGoesOn \/ OwnerCalls \/ Hangs
  <2>1. UNCHANGED <<step, answer, handling, urlOf, liveViewUrl_>>
    BY <1>1, NoHandlerMoves
  <2>2. streams' \subseteq streams
    BY <1>1 DEF TaskGoesOn, TaskStep, OwnerCalls, StartStreaming, StartTask, StopTask, Destroy,
                DestroyMembers, DestroySource, DestroyBase, LeaveSource, SourceDestroyed, Hangs, Hang, members
  <2>3. owner' # "terminated" => owner # "terminated"
    <3>1. CASE TaskGoesOn
      BY <3>1 DEF TaskGoesOn, TaskStep, JoinAndRun, StopReturns, Enter, RunReturns, Leave, RunEnds, Running
    <3>2. CASE StartStreaming \/ StartTask \/ StopTask
      BY <3>2 DEF StartStreaming, StartTask, StopTask, Post, Stop
    <3>3. CASE Destroy \/ DestroyMembers \/ DestroySource \/ Hangs
      BY <3>3 DEF Destroy, DestroyMembers, DestroySource, Hangs, Hang
    <3>4. CASE DestroyBase
      BY <3>4 DEF DestroyBase, Stop, DestroyStopping
    <3> QED
      BY <1>1, <3>1, <3>2, <3>3, <3>4 DEF OwnerCalls
  <2> QED
    BY <1>k, <2>1, <2>2, <2>3 DEF Kept, LastOf, Results
<1>2. ASSUME NEW r \in Runner, Begin(r) PROVE Kept'
  <2>1. /\ step' = [step EXCEPT ![r] = "invoke"] /\ \A s \in Runner : s # r => handling'[s] = handling[s]
        /\ owner # "terminated" /\ UNCHANGED <<answer, liveViewUrl_, streams, urlOf>>
    BY <1>0, <1>2 DEF Begin, Take, Goto, Running, members, IInv, Handlers
  <2>2. \A s \in Runner : step'[s] \in {"make", "replace", "start"} => s # r /\ step'[s] = step[s]
    BY <1>0, <2>1
  <2> QED
    BY <1>k, <2>1, <2>2 DEF Kept, LastOf, Results
<1>3. ASSUME NEW r \in Runner, Invoke(r) PROVE Kept'
  <2> DEFINE h == handling[r]
  <2>1. /\ owner # "terminated" /\ step[r] = "invoke"
        /\ UNCHANGED <<handling, streams, urlOf, owner>>
    BY <1>3 DEF Invoke, In, taskVars, service, ownerVars
  <2>2. PICK a \in {"result", "refused", "empty"} :
            /\ answer' = [answer EXCEPT ![h] = a]
            /\ liveViewUrl_' = UrlAfter(h, a)
            /\ step' = [step EXCEPT ![r] = IF a = "empty" THEN "throw" ELSE "make"]
    BY <1>3 DEF Invoke, Goto
  <2>3. Busy(r) /\ h \in Handler
    BY <1>0, <2>1, BusyRuns DEF Standing
  <2>4. \A k \in Handler : answer[k] # "none" => k < h
    BY <1>a, <2>1, <2>3, LastAsked
  <2>5. answer[h] = "none" /\ h \notin streams
    BY <1>k, <1>m, <2>3, <2>4
  <2> HIDE DEF h
  <2>6. \A k \in Handler : answer'[k] = IF k = h THEN a ELSE answer[k]
    BY <1>0, <2>2
  <2>7. LastOf(MaxPosts, liveViewUrl_)'
    <3>1. CASE a = "result"
      <4>1. liveViewUrl_' = h /\ answer'[h] = "result"
        BY <2>2, <2>3, <2>6, <3>1 DEF UrlAfter
      <4>2. \A k \in 1..MaxPosts : answer'[k] = "result" => k <= h
        BY <1>m, <2>3, <2>4, <2>6
      <4> QED
        BY <1>m, <2>3, <4>1, <4>2 DEF LastOf, Results
    <3>2. CASE a # "result"
      <4>1. liveViewUrl_' = liveViewUrl_
        BY <2>2, <3>2 DEF UrlAfter
      <4>2. \A k \in 1..MaxPosts : answer'[k] = "result" <=> answer[k] = "result"
        BY <1>m, <2>5, <2>6, <3>2
      <4> QED
        BY <1>k, <4>1, <4>2 DEF LastOf, Results
    <3> QED
      BY <3>1, <3>2
  <2>8. ASSUME NEW g \in streams PROVE LastOf(g, urlOf[g])' /\ answer'[g] # "none"
    <3>1. g \in Handler /\ answer[g] # "none" /\ g < h /\ LastOf(g, urlOf[g])
      BY <1>0, <1>k, <2>4
    <3>2. \A k \in 1..g : k \in Handler /\ k # h /\ answer'[k] = answer[k]
      BY <1>m, <2>3, <2>6, <3>1
    <3>3. answer'[g] # "none" /\ urlOf' = urlOf
      BY <2>1, <2>6, <3>1
    <3> QED
      BY <3>1, <3>2, <3>3 DEF LastOf, Results
  <2>9. ASSUME NEW s \in Runner, step'[s] \in {"make", "replace", "start"}
        PROVE  answer'[handling'[s]] # "none"
    <3>1. CASE s = r
      BY <2>1, <2>3, <2>6, <3>1 DEF h
    <3>2. CASE s # r
      <4>1. step[s] \in {"make", "replace", "start"} /\ handling'[s] = handling[s]
        BY <1>0, <2>1, <2>2, <2>9, <3>2
      <4>2. answer[handling[s]] # "none" /\ handling[s] \in Handler
        BY <1>0, <1>k, <2>1, <4>1, BusyRuns DEF Standing
      <4> QED
        BY <2>6, <4>1, <4>2
    <3> QED
      BY <3>1, <3>2
  <2> QED
    BY <2>1, <2>7, <2>8, <2>9 DEF Kept
<1>4. ASSUME NEW r \in Runner, MakeSource(r) PROVE Kept'
  <2> DEFINE h == handling[r]
  <2>1. /\ owner # "terminated" /\ step[r] = "make" /\ step' = [step EXCEPT ![r] = "replace"]
        /\ urlOf' = [urlOf EXCEPT ![h] = liveViewUrl_] /\ streams' \subseteq streams \cup {h}
        /\ UNCHANGED <<handling, answer, liveViewUrl_, owner>>
    BY <1>4 DEF MakeSource, In, Goto, taskVars, service, ownerVars
  <2>2. Busy(r) /\ h \in Handler /\ answer[h] # "none"
    BY <1>0, <1>k, <2>1, BusyRuns DEF Standing
  <2>3. \A k \in Handler : answer[k] # "none" => k <= h
    <3> SUFFICES ASSUME NEW k \in Handler, answer[k] # "none" PROVE k <= h
      OBVIOUS
    <3>1. k < h \/ k = h
      BY <1>a, <2>1, <2>2, LastAsked
    <3> QED
      BY <1>m, <2>2, <3>1
  <2> HIDE DEF h
  <2>4. LastOf(h, liveViewUrl_)
    <3>1. liveViewUrl_ = 0 \/ (liveViewUrl_ \in 1..MaxPosts /\ answer[liveViewUrl_] = "result")
      BY <1>k DEF LastOf, Results
    <3>2. \A k \in 1..MaxPosts : answer[k] = "result" => k <= liveViewUrl_
      BY <1>k DEF LastOf, Results
    <3>3. liveViewUrl_ \in Results(h)
      BY <1>m, <2>2, <2>3, <3>1 DEF Results
    <3>4. \A k \in Results(h) : k <= liveViewUrl_
      BY <1>m, <2>2, <3>1, <3>2 DEF Results
    <3> QED
      BY <3>3, <3>4 DEF LastOf
  <2>5. ASSUME NEW g \in streams' PROVE LastOf(g, urlOf[g])' /\ answer'[g] # "none"
    <3>1. CASE g = h
      <4>1. urlOf'[g] = liveViewUrl_ /\ answer' = answer
        BY <1>0, <2>1, <2>2, <3>1
      <4> QED
        BY <2>2, <2>4, <3>1, <4>1 DEF LastOf, Results
    <3>2. CASE g # h
      <4>1. g \in streams /\ urlOf'[g] = urlOf[g] /\ answer' = answer
        BY <1>0, <2>1, <3>2
      <4> QED
        BY <1>k, <4>1 DEF LastOf, Results
    <3> QED
      BY <3>1, <3>2
  <2>6. \A s \in Runner :
          step'[s] \in {"make", "replace", "start"} => s = r \/ step[s] \in {"make", "replace", "start"}
    BY <1>0, <2>1
  <2>7. LastOf(MaxPosts, liveViewUrl_)'
    BY <1>k, <2>1 DEF LastOf, Results
  <2> QED
    BY <1>k, <2>1, <2>2, <2>5, <2>6, <2>7 DEF Kept, h
<1>5. ASSUME NEW r \in Runner, ReplaceSource(r) \/ StartSource(r) PROVE Kept'
  <2>1. /\ owner # "terminated" /\ UNCHANGED <<answer, handling, liveViewUrl_, urlOf, owner>>
        /\ streams' \subseteq streams /\ step[r] \in {"replace", "start"}
        /\ \E x \in {"start", "end"} : step' = [step EXCEPT ![r] = x]
    BY <1>5 DEF ReplaceSource, LeaveSource, SourceDestroyed, StartSource, In, Goto, taskVars, service, ownerVars
  <2>2. \A s \in Runner :
          step'[s] \in {"make", "replace", "start"} => step[s] \in {"make", "replace", "start"}
    BY <1>0, <2>1
  <2> QED
    BY <1>k, <2>1, <2>2 DEF Kept, LastOf, Results
<1>6. ASSUME NEW r \in Runner, End(r) \/ Throw(r) PROVE Kept'
  <2>1. /\ owner # "terminated" /\ UNCHANGED <<answer, liveViewUrl_, urlOf, streams>>
        /\ \A s \in Runner : s # r => handling'[s] = handling[s]
        /\ step' = [step EXCEPT ![r] = "none"]
    BY <1>0, <1>6 DEF End, Throw, Return, Escape, Finished, Running, Goto, members, IInv, Handlers
  <2>2. \A s \in Runner : step'[s] \in {"make", "replace", "start"} => s # r /\ step'[s] = step[s]
    BY <1>0, <2>1
  <2> QED
    BY <1>k, <2>1, <2>2 DEF Kept, LastOf, Results
<1> QED
  BY <1>1, <1>2, <1>3, <1>4, <1>5, <1>6, NextCases

-----------------------------------------------------------------------------
(* Every step, and what follows *)

LEMMA NextOwn == ASSUME ControllerInv, ControllerNext PROVE ControllerInv'
<1>0. IInv /\ [Next]_taskVars
  BY StepOfTask DEF ControllerInv
<1>1. IInv'
  BY <1>0, NextIInv
<1>2. Values' /\ Urls' /\ Standing' /\ Destruction' /\ FlagOfThread'
  BY <1>0, ValuesStay, StandingStays, DestructionStays, FlagStays
<1>2a. Departing'
  BY DepartingStays
<1>3. CASE Sound'
  <2>1. Sound
    BY <1>0, <1>3, SoundBefore
  <2> QED
    BY <1>1, <1>2, <1>2a, <1>3, <2>1, LeftStays, StreamingStays, FreshStays, AnsweredStays, KeptStays DEF ControllerInv
<1>4. CASE ~Sound'
  BY <1>1, <1>2, <1>2a, <1>4 DEF ControllerInv, Left, Streaming, Fresh, Answered, Kept
<1> QED
  BY <1>3, <1>4

LEMMA SpecOwn == ControllerSpec => []ControllerInv
<1>1. ControllerInv /\ [ControllerNext]_vars => ControllerInv'
  BY NextOwn, StutterOwn
<1> QED
  BY InitOwn, <1>1, PTL DEF ControllerSpec

\* A handler that is in destroyed members was queued when the destructor found the
\* flag not set: one that has begun is waited for.
THEOREM BegunAreWaitedFor == ControllerSpec => []BegunIsWaitedFor
<1>1. ControllerInv => BegunIsWaitedFor
  BY DEF ControllerInv, Destruction, Left, BegunIsWaitedFor
<1> QED
  BY <1>1, SpecOwn, PTL

\* Unless such a late handler has made one, no stream outlives its controller.
THEOREM StreamsGoWithController == ControllerSpec => []StreamGoneWithController
<1>1. ControllerInv => StreamGoneWithController
  <2> SUFFICES ASSUME ControllerInv, Sound, owner = "gone", NEW h \in streams PROVE h \in late
    BY DEF StreamGoneWithController
  <2>0. /\ IInv /\ Standing /\ Departing /\ h \in Handler /\ ~alive
        /\ streams \subseteq Departed \cup IF alive THEN {imageSource_} ELSE late
    BY DEF ControllerInv, Values, Destruction, Streaming
  <2>1. ASSUME NEW r \in Runner PROVE leaving[r] = 0
    <3>1. call # "source"
      BY <2>0 DEF Departing
    <3>2. at[r] # "run"
      BY <2>0, BoundFacts DEF IInv, Runners, Stops, Live, Sound, StopFailed, Runner
    <3>3. step[r] = "none"
      BY <2>0, <3>2 DEF IInv, Runners, Standing
    <3> QED
      BY <2>0, <3>1, <3>3 DEF Departing
  <2>2. h \notin Departed
    BY <2>0, <2>1 DEF Departed, Handler
  <2> QED
    BY <2>0, <2>2
<1> QED
  BY <1>1, SpecOwn, PTL

\* However often a stream is asked for, a controller has one.
THEOREM OneStreamAtATime == ControllerSpec => []OneStream
<1>1. ControllerInv => OneStream
  <2> SUFFICES ASSUME ControllerInv, Sound, alive, NEW g \in streams \cap started, NEW h \in streams \cap started
               PROVE  g = h
    BY DEF OneStream
  <2>0. /\ IInv /\ Standing /\ Departing /\ g \in Handler /\ h \in Handler /\ call # "source" /\ detached = {}
        /\ streams \subseteq Departed \cup {imageSource_}
        /\ \A r \in Runner : step[r] = "replace" => handling[r] \notin started /\ imageSource_ = handling[r]
    BY DEF ControllerInv, Values, Destruction, Streaming, Fresh, Sound
  <2>1. ASSUME NEW r \in Runner, leaving[r] \in Handler PROVE step[r] = "replace" /\ imageSource_ \notin started
    BY <2>0, <2>1 DEF Departing, Handler
  <2>2. ASSUME NEW r \in Runner, NEW s \in Runner, leaving[r] \in Handler, leaving[s] \in Handler
        PROVE  r = s
    BY <2>0, <2>1, <2>2, BusyRuns, OneRuns DEF Standing
  <2>3. CASE g = imageSource_
    BY <2>0, <2>1, <2>3 DEF Departed
  <2>4. CASE \E r \in Runner : g = leaving[r]
    BY <2>0, <2>1, <2>2, <2>4 DEF Departed
  <2> QED
    BY <2>0, <2>3, <2>4 DEF Departed
<1> QED
  BY <1>1, SpecOwn, PTL

\* Whatever was refused or failed, a stream is made for the last URL received.
THEOREM StreamsHaveLastUrl == ControllerSpec => []StreamHasLastUrl
<1>1. ControllerInv => StreamHasLastUrl
  <2> SUFFICES ASSUME ControllerInv, Sound, NEW h \in streams
               PROVE  urlOf[h] = Max({0} \cup {k \in 1..h : answer[k] = "result"})
    BY DEF StreamHasLastUrl
  <2>1. LastOf(h, urlOf[h]) /\ h \in Handler /\ urlOf[h] \in 0..MaxPosts
    BY DEF ControllerInv, Kept, Values, Urls
  <2>2. \A x, y \in Results(h) : x \in Int /\ (x <= y /\ y <= x => x = y)
    BY <2>1, BoundFacts DEF Results, Handler
  <2>3. ASSUME NEW x \in Results(h), \A k \in Results(h) : k <= x PROVE x = urlOf[h]
    BY <2>1, <2>2, <2>3 DEF LastOf
  <2>4. Max(Results(h)) = urlOf[h]
    <3>1. urlOf[h] \in Results(h) /\ \A k \in Results(h) : k <= urlOf[h]
      BY <2>1 DEF LastOf
    <3>2. \A k \in Results(h) : urlOf[h] >= k
      BY <2>2, <3>1
    <3>3. \A x \in Results(h) : (\A k \in Results(h) : x >= k) => x = urlOf[h]
      BY <2>2, <3>1, <3>2
    <3> QED
      BY <3>1, <3>2, <3>3 DEF Max
  <2> QED
    BY <2>4 DEF Results
<1> QED
  BY <1>1, SpecOwn, PTL
=============================================================================
