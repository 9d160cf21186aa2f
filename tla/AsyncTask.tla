------------------------------ MODULE AsyncTask ------------------------------
(***************************************************************************)
(* AsyncTask: a boost::asio::io_service, a work object that keeps it going *)
(* while its queue is empty, and a thread that runs it.  An owner posts    *)
(* handlers, starts the thread, stops the task and destroys it.  The flag  *)
(* _isRunning is written by the thread, so that the owner sees it late.    *)
(*                                                                         *)
(* io_service is the library's: run() returns when nothing is outstanding  *)
(* or when it is stopped, it is stopped when nothing is outstanding any    *)
(* more, and once stopped run() returns at once until reset() is called.   *)
(***************************************************************************)
EXTENDS Integers, Sequences, SequencesExt

CONSTANTS
    MaxPosts,    \* bound on the handlers posted
    MaxStarts    \* bound on the threads made

ASSUME AsyncTaskAssumption == MaxPosts \in Nat /\ MaxStarts \in Nat

VARIABLES
    _work,          \* the work object is there
    _stopped,       \* the io_service is stopped
    _queue,         \* the handlers in it: the numbers of their posts
    at,             \* where a thread stands in Run, and the owner in run()
    handling,       \* the handler it is in, 0 for none
    _thread,        \* the thread that _thread stands for, 0 for none
    detached,       \* threads whose object another has replaced
    _isRunning, _isStopping,
    owner, dying,   \* what the owner is doing, and is it destroying the task?
    posted, starts, hasStopped, done    \* history: calls made, handlers finished

service == <<_work, _stopped, _queue, handling>>
threads == <<at, _thread, detached, _isRunning>>
ownerVars == <<_isStopping, owner, dying>>
history == <<posted, starts, hasStopped, done>>
taskVars == <<service, threads, ownerVars, history>>

Owner == 0                       \* the owner's thread, when it calls run()
Thread == 1..MaxStarts
Runner == {Owner} \cup Thread
Handler == 1..MaxPosts

InitialWorkNone == FALSE         \* mutant: the constructor makes no work object
InitialWork == TRUE

Init ==
    /\ _work = InitialWork /\ _stopped = FALSE /\ _queue = << >>
    /\ at = [r \in Runner |-> "none"] /\ handling = [r \in Runner |-> 0]
    /\ _thread = 0 /\ detached = {} /\ _isRunning = FALSE
    /\ _isStopping = FALSE /\ owner = "idle" /\ dying = FALSE
    /\ posted = 0 /\ starts = 0 /\ hasStopped = FALSE /\ done = << >>

Live(t) == at[t] \in {"new", "run", "leave"}
Running(r) == owner # "terminated" /\ at[r] = "run"
Busy(r) == handling[r] # 0

\* The work io_service counts: the work object, handlers queued and handlers running.
Outstanding(work, queue, busy) == work \/ queue # << >> \/ busy # {}

-----------------------------------------------------------------------------
(* The owner *)

\* IoService().post
Post ==
    /\ owner = "idle" /\ posted < MaxPosts
    /\ posted' = posted + 1
    /\ _queue' = Append(_queue, posted')
    /\ UNCHANGED <<_work, _stopped, handling, threads, ownerVars, starts, hasStopped, done>>

IsStarted == _isRunning

\* A thread is made.  One that _thread stood for goes on without an object.
\* When the task has started Start returns at once.
Start ==
    /\ owner = "idle" /\ ~IsStarted /\ starts < MaxStarts
    /\ starts' = starts + 1
    /\ at' = [at EXCEPT ![starts'] = "new"]
    /\ _thread' = starts'
    /\ detached' = IF _thread = 0 THEN detached ELSE detached \cup {_thread}
    /\ UNCHANGED <<service, _isRunning, ownerVars, posted, hasStopped, done>>

WorkKept == _work                \* mutant: Stop does not drop the work object
WorkDropped == FALSE

\* Stop, also by the destructor: the flag is set and the work object dropped.
\* Called while it is stopping it returns at once.
Stop(destroying) ==
    /\ owner = "idle" /\ ~_isStopping
    /\ _isStopping' = TRUE /\ dying' = destroying /\ owner' = "join"
    /\ _work' = WorkDropped
    /\ _stopped' = (_stopped \/ (_work /\ ~Outstanding(WorkDropped, _queue, {r \in Runner : Busy(r)})))
    /\ UNCHANGED <<_queue, handling, threads, history>>

\* The flag is left over from a Stop that an exception has ended: the destructor
\* waits for nothing, and that of boost::thread leaves a thread to itself.
DestroyStopping ==
    /\ owner = "idle" /\ _isStopping
    /\ owner' = "gone" /\ dying' = TRUE
    /\ UNCHANGED <<service, threads, _isStopping, history>>

JoinWithoutWaiting == TRUE       \* mutant: the thread is left to itself
JoinByFlag == ~_isRunning        \* mutant: Stop waits for the flag
CanJoin == _thread = 0 \/ at[_thread] = "ended"
ResetNothing == _stopped         \* mutant: reset() is not called
Reset == FALSE

\* The thread has been joined; reset() and then run(), in the owner's thread.
JoinAndRun ==
    /\ owner = "join" /\ CanJoin
    /\ owner' = "drain" /\ at' = [at EXCEPT ![Owner] = "run"]
    /\ _thread' = 0 /\ _stopped' = Reset
    /\ hasStopped' = TRUE
    /\ UNCHANGED <<_work, _queue, handling, detached, _isRunning, _isStopping, dying, posted, starts, done>>

RunEnds(r) ==
    /\ Running(r) /\ ~Busy(r)
    /\ \/ _stopped
       \/ ~Outstanding(_work, _queue, {s \in Runner : Busy(s)})
    /\ UNCHANGED <<_work, _queue, handling, _thread, detached, dying, posted, starts, done>>

StoppedCleared == FALSE          \* mutant: reset() is called after run()
StoppedAfterRun == TRUE

\* run() has returned to Stop, and Stop returns.
StopReturns ==
    /\ RunEnds(Owner)
    /\ _stopped' = StoppedAfterRun
    /\ at' = [at EXCEPT ![Owner] = "none"] /\ _isStopping' = FALSE
    /\ owner' = IF dying THEN "gone" ELSE "idle"
    /\ UNCHANGED <<_isRunning, hasStopped>>

-----------------------------------------------------------------------------
(* A thread: Run *)

Enter(t) ==
    /\ owner # "terminated" /\ at[t] = "new"
    /\ at' = [at EXCEPT ![t] = "run"] /\ _isRunning' = TRUE
    /\ UNCHANGED <<service, _thread, detached, ownerVars, history>>

RunReturns(t) ==
    /\ RunEnds(t)
    /\ _stopped' = TRUE
    /\ at' = [at EXCEPT ![t] = "leave"]
    /\ UNCHANGED <<_isRunning, _isStopping, owner, hasStopped>>

Leave(t) ==
    /\ owner # "terminated" /\ at[t] = "leave"
    /\ at' = [at EXCEPT ![t] = "ended"] /\ _isRunning' = FALSE
    /\ UNCHANGED <<service, _thread, detached, ownerVars, history>>

-----------------------------------------------------------------------------
(* The handlers, in whichever thread runs the io_service *)

Take(r) ==
    /\ Running(r) /\ ~Busy(r) /\ ~_stopped /\ _queue # << >>
    /\ handling' = [handling EXCEPT ![r] = Head(_queue)]
    /\ _queue' = Tail(_queue)
    /\ UNCHANGED <<_work, _stopped, threads, ownerVars, history>>

\* The handler is over, whichever way, and what it counted for is finished.
Finished(r) ==
    /\ Running(r) /\ Busy(r)
    /\ handling' = [handling EXCEPT ![r] = 0]
    /\ _stopped' = (_stopped \/ ~Outstanding(_work, _queue, {s \in Runner \ {r} : Busy(s)}))

ReturnLate(r) ==                 \* mutant: the handler is looked at after it is over
    /\ Finished(r)
    /\ done' = Append(done, handling'[r])
    /\ UNCHANGED <<_work, _queue, threads, ownerVars, posted, starts, hasStopped>>
Return(r) ==
    /\ Finished(r)
    /\ done' = Append(done, handling[r])
    /\ UNCHANGED <<_work, _queue, threads, ownerVars, posted, starts, hasStopped>>

\* An exception leaves the handler and run().  In a thread it ends the process.  It
\* leaves Stop with _isStopping still set: there it ends the process too, unless the
\* owner catches it, or the build lets it pass a destructor.
Escape(r) ==
    /\ Finished(r)
    /\ IF r = Owner
       THEN /\ at' = [at EXCEPT ![Owner] = "none"]
            /\ owner' \in {IF dying THEN "gone" ELSE "idle", "terminated"}
       ELSE owner' = "terminated" /\ UNCHANGED at
    /\ UNCHANGED <<_work, _queue, _thread, detached, _isRunning, _isStopping, dying, history>>

-----------------------------------------------------------------------------
Run(r) == Take(r) \/ Return(r) \/ Escape(r)
RunThread(t) == Enter(t) \/ RunReturns(t) \/ Leave(t) \/ Run(t)

Next ==
    \/ Post \/ Start \/ DestroyStopping \/ JoinAndRun \/ StopReturns
    \/ \E destroying \in BOOLEAN : Stop(destroying)
    \/ \E t \in Thread : Enter(t) \/ RunReturns(t) \/ Leave(t)
    \/ \E r \in Runner : Take(r) \/ Return(r) \/ Escape(r)

Spec == Init /\ [][Next]_taskVars

\* Threads run, handlers return or throw, and a Stop goes on.
FairSpec ==
    /\ Spec
    /\ WF_taskVars(JoinAndRun \/ StopReturns \/ Run(Owner))
    /\ \A t \in Thread : WF_taskVars(RunThread(t))

-----------------------------------------------------------------------------
(* Properties *)

TypeOK ==
    /\ _work \in BOOLEAN /\ _stopped \in BOOLEAN /\ _queue \in Seq(Handler)
    /\ at \in [Runner -> {"none", "new", "run", "leave", "ended"}]
    /\ handling \in [Runner -> 0..MaxPosts]
    /\ _thread \in {0} \cup Thread /\ detached \subseteq Thread
    /\ _isRunning \in BOOLEAN /\ _isStopping \in BOOLEAN
    /\ owner \in {"idle", "join", "drain", "gone", "terminated"} /\ dying \in BOOLEAN
    /\ posted \in 0..MaxPosts /\ starts \in 0..MaxStarts /\ hasStopped \in BOOLEAN
    /\ done \in Seq(Handler)

\* An exception has left Stop, and with it _isStopping set for ever.
StopFailed == _isStopping /\ owner \notin {"join", "drain"}

\* When Stop has returned, nothing is left in the io_service and every handler
\* posted has been run once, by whichever thread, also after a restart.
EachOnce == Len(done) = posted /\ ToSet(done) = 1..posted
StopLeavesNothing == [][_isStopping /\ ~_isStopping' => EachOnce']_taskVars

\* Unless a second Start has replaced a thread, which it does when the first has
\* not set the flag yet, handlers run one at a time and in the order posted,
\* although the owner's thread and the task's take turns.
Serial ==
    detached = {} =>
        /\ \A r, s \in Runner : Busy(r) /\ Busy(s) => r = s
        /\ \A r \in Runner : Busy(r) => \A h \in ToSet(done) : h < handling[r]
        /\ \A i, j \in DOMAIN done : i < j => done[i] < done[j]

\* A thread that outlives the destroyed task is one that a second Start replaced,
\* or an exception has left a Stop, after which the destructor joins nothing.
OnlyDetachedOutlive ==
    owner = "gone" /\ ~StopFailed => \A t \in Thread : Live(t) => t \in detached

\* After a Stop the task's own thread never runs a handler again: the io_service
\* stays stopped, and what is posted waits for the owner's thread in the next Stop.
FirstLifeServes ==
    hasStopped /\ ~StopFailed /\ detached = {} => \A t \in Thread : ~Busy(t)

\* A handler posted to a task that has been started and not been stopped yet is
\* run, even if the task is stopped before its thread has begun.
PostedIsServed ==
    \A h \in Handler :
        h <= posted /\ starts > 0 /\ ~hasStopped ~> h \in ToSet(done) \/ owner = "terminated"

=============================================================================
