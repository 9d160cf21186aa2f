---------------------------- MODULE AsyncTaskProofs ----------------------------
(***************************************************************************)
(* Proofs about AsyncTask: what a Stop leaves behind, and who runs the     *)
(* handlers, for any number of handlers and of threads.                    *)
(***************************************************************************)
EXTENDS AsyncTask, FiniteSetTheorems, TLAPS

-----------------------------------------------------------------------------
(* The inductive invariant *)

Flags ==
    /\ _work \in BOOLEAN /\ _stopped \in BOOLEAN /\ _isRunning \in BOOLEAN
    /\ _isStopping \in BOOLEAN /\ dying \in BOOLEAN /\ hasStopped \in BOOLEAN
Numbers ==
    /\ posted \in 0..MaxPosts /\ starts \in 0..MaxStarts
    /\ _thread \in 0..MaxStarts /\ _thread <= starts /\ detached \subseteq Thread
Places ==
    /\ at \in [Runner -> {"none", "new", "run", "leave", "ended"}]
    /\ owner \in {"idle", "join", "drain", "gone", "terminated"}
Handlers ==
    /\ _queue \in Seq(1..posted) /\ done \in Seq(1..posted)
    /\ handling \in [Runner -> 0..posted]

\* Who is where: a live thread is the task's own or has been replaced.
Runners ==
    /\ \A r \in Runner : Busy(r) => at[r] = "run"
    /\ at[Owner] \in {"none", "run"}
    /\ owner \in {"idle", "join", "gone"} => at[Owner] = "none"
    /\ \A t \in Thread : Live(t) => t = _thread \/ t \in detached
    /\ \A t \in Thread : starts < t => at[t] = "none"

\* A Stop has dropped the work object, and the thread it has joined.
Stops ==
    /\ owner \in {"join", "drain"} => _isStopping /\ ~_work
    /\ owner = "drain" => _thread = 0
    /\ owner = "gone" /\ ~_isStopping => _thread = 0

\* After a Stop the io_service is stopped, or the owner runs it without a thread.
FirstLife ==
    hasStopped /\ ~StopFailed /\ detached = {} =>
        /\ \A t \in Thread : ~Busy(t)
        /\ owner \in {"idle", "join", "gone"} => _stopped

Alone == detached = {} /\ at[Owner] = "run" => \A t \in Thread : ~Live(t)

\* A handler done comes before one that runs, which comes before one that waits.
Ordered ==
    detached = {} =>
        /\ \A i, j \in 1..Len(_queue) : i < j => _queue[i] < _queue[j]
        /\ \A i, j \in 1..Len(done) : i < j => done[i] < done[j]
        /\ \A i \in 1..Len(done), j \in 1..Len(_queue) : done[i] < _queue[j]
        /\ \A r \in Runner : Busy(r) => \A j \in 1..Len(_queue) : handling[r] < _queue[j]
        /\ \A r \in Runner : Busy(r) => \A i \in 1..Len(done) : done[i] < handling[r]

\* No handler is lost, and none counted twice.
BusyRunners == {r \in Runner : Busy(r)}
Accounted(h) ==
    \/ \E i \in 1..Len(done) : done[i] = h
    \/ \E i \in 1..Len(_queue) : _queue[i] = h
    \/ \E r \in Runner : handling[r] = h
Counted ==
    owner # "terminated" /\ ~StopFailed =>
        /\ Len(done) + Len(_queue) + Cardinality(BusyRunners) = posted
        /\ \A h \in 1..posted : Accounted(h)

\* In a Stop the io_service is stopped only for want of handlers.
Drained == owner = "drain" /\ _stopped => _queue = << >> /\ \A r \in Runner : ~Busy(r)

IInv ==
    /\ Flags /\ Numbers /\ Places /\ Handlers /\ Runners /\ Stops
    /\ FirstLife /\ Alone /\ Ordered /\ Counted /\ Drained

-----------------------------------------------------------------------------
(* Facts about the constants *)

LEMMA RunnerFacts == Owner \in Runner /\ Thread \subseteq Runner /\ Owner \notin Thread
  BY AsyncTaskAssumption DEF AsyncTaskAssumption, Owner, Thread, Runner

LEMMA BoundFacts == MaxPosts \in Nat /\ MaxStarts \in Nat /\ Thread = 1..MaxStarts /\ Owner = 0
  BY AsyncTaskAssumption DEF AsyncTaskAssumption, Thread, Owner

LEMMA RunnerFinite == IsFiniteSet(Runner)
<1>1. IsFiniteSet(Thread)
  BY BoundFacts, FS_Interval
<1> QED
  BY <1>1, FS_EmptySet, FS_AddElement, FS_Union DEF Runner

LEMMA InitIInv == Init => IInv
<1> SUFFICES ASSUME Init PROVE IInv
  OBVIOUS
<1>0. \A r \in Runner : at[r] = "none" /\ handling[r] = 0
  BY DEF Init
<1>r. Owner \in Runner /\ Thread \subseteq Runner
  BY RunnerFacts
<1>1. Flags
  BY DEF Init, Flags, InitialWork
<1>2. Numbers
  BY BoundFacts DEF Init, Numbers
<1>3. Places
  BY DEF Init, Places
<1>4. Handlers
  BY DEF Init, Handlers
<1>5. Runners
  BY <1>0, <1>r DEF Init, Runners, Busy, Live
<1>6. Stops /\ FirstLife /\ Alone /\ Drained
  BY <1>0, <1>r DEF Init, Stops, FirstLife, Alone, Drained
<1>7. Ordered
  BY <1>0 DEF Init, Ordered, Busy
<1>8. Counted
  <2>1. BusyRunners = {}
    BY <1>0 DEF BusyRunners, Busy
  <2>2. Cardinality(BusyRunners) = 0
    BY <2>1, FS_EmptySet
  <2> QED
    BY <2>2 DEF Init, Counted
<1> QED
  BY <1>1, <1>2, <1>3, <1>4, <1>5, <1>6, <1>7, <1>8 DEF IInv

LEMMA StutterIInv == ASSUME IInv, UNCHANGED taskVars PROVE IInv'
<1>0. /\ UNCHANGED <<_work, _stopped, _queue, handling, at, _thread, detached, _isRunning>>
      /\ UNCHANGED <<_isStopping, owner, dying, posted, starts, hasStopped, done>>
  BY DEF taskVars, service, threads, ownerVars, history
<1>1. Flags' /\ Numbers' /\ Places' /\ Handlers'
  BY <1>0 DEF IInv, Flags, Numbers, Places, Handlers
<1>2. Runners' /\ Stops' /\ FirstLife' /\ Alone' /\ Drained'
  BY <1>0 DEF IInv, Runners, Stops, FirstLife, Alone, Drained, Busy, Live, StopFailed
<1>3. Ordered'
  BY <1>0 DEF IInv, Ordered, Busy
<1>4. Counted'
  <2>1. BusyRunners' = BusyRunners
    BY <1>0 DEF BusyRunners, Busy
  <2> QED
    BY <1>0, <2>1 DEF IInv, Counted, Accounted, StopFailed
<1> QED
  BY <1>1, <1>2, <1>3, <1>4 DEF IInv

-----------------------------------------------------------------------------
(* The owner *)

\* A thread is made, in place of the task's own if it has one.
LEMMA StartIInv ==
    ASSUME IInv, Start
    PROVE  IInv'
<1>0. /\ owner = "idle" /\ starts < MaxStarts /\ starts' = starts + 1
      /\ at' = [at EXCEPT ![starts'] = "new"] /\ _thread' = starts'
      /\ detached' = (IF _thread = 0 THEN detached ELSE detached \cup {_thread})
      /\ UNCHANGED <<_work, _stopped, _queue, handling, _isRunning, _isStopping, owner, dying>>
      /\ UNCHANGED <<posted, hasStopped, done>>
  BY DEF Start, service, ownerVars
<1>r. Owner \in Runner /\ Thread \subseteq Runner /\ Owner \notin Thread
  BY RunnerFacts
<1>a. starts' \in Thread /\ starts' \in Runner /\ (_thread # 0 => _thread \in Thread) /\ starts' # Owner
  BY <1>0, <1>r, BoundFacts DEF IInv, Numbers
<1>b. at[starts'] = "none"
  BY <1>0, <1>a, BoundFacts DEF IInv, Numbers, Runners
<1>1. Flags'
  BY <1>0, <1>r, <1>a, <1>b DEF IInv, Flags
<1>2. Numbers'
  BY <1>0, <1>a, BoundFacts DEF IInv, Numbers
<1>3. Places'
  BY <1>0, <1>a DEF IInv, Places
<1>4. Handlers'
  BY <1>0, <1>r, <1>a, <1>b DEF IInv, Handlers
<1>5. Runners'
  <2>1. \A r \in Runner : r # starts' => at'[r] = at[r]
    BY <1>0 DEF IInv, Places
  <2>2. at'[starts'] = "new"
    BY <1>0, <1>a DEF IInv, Places
  <2>3. \A r \in Runner : Busy(r)' => at'[r] = "run"
    BY <1>0, <1>b, <2>1 DEF IInv, Runners, Busy
  <2>4. \A t \in Thread : Live(t)' => t = _thread' \/ t \in detached'
    <3> SUFFICES ASSUME NEW t \in Thread, Live(t)' PROVE t = starts' \/ t \in detached'
      BY <1>0
    <3>1. CASE t # starts'
      <4>1. Live(t)
        BY <1>r, <2>1, <3>1 DEF Live
      <4>2. t # 0
        BY BoundFacts
      <4> QED
        BY <1>0, <4>1, <4>2 DEF IInv, Runners
    <3> QED
      BY <3>1
  <2>5. \A t \in Thread : starts' < t => at'[t] = "none"
    <3> SUFFICES ASSUME NEW t \in Thread, starts' < t PROVE at'[t] = "none"
      OBVIOUS
    <3>1. starts < t /\ t # starts'
      BY <1>0, BoundFacts DEF IInv, Numbers
    <3> QED
      BY <1>r, <2>1, <3>1 DEF IInv, Runners
  <2> QED
    BY <1>0, <1>r, <1>a, <2>1, <2>3, <2>4, <2>5 DEF IInv, Runners
<1>6. Stops'
  BY <1>0, <1>r, <1>a, <1>b DEF IInv, Stops
<1>7. FirstLife'
  BY <1>0, <1>r, <1>a, <1>b DEF IInv, FirstLife, Busy, StopFailed
<1>8. Alone'
  BY <1>0, <1>r, <1>a DEF IInv, Alone, Runners, Places
<1>9. Ordered'
  BY <1>0, <1>r, <1>a, <1>b DEF IInv, Ordered, Busy
<1>10. Counted'
  <2>1. BusyRunners' = BusyRunners
    BY <1>0 DEF BusyRunners, Busy
  <2> QED
    BY <1>0, <2>1 DEF IInv, Counted, Accounted, StopFailed
<1>11. Drained'
  BY <1>0, <1>r, <1>a, <1>b DEF IInv, Drained, Busy
<1> QED
  BY <1>1, <1>2, <1>3, <1>4, <1>5, <1>6, <1>7, <1>8, <1>9, <1>10, <1>11 DEF IInv

\* A handler is posted.
LEMMA PostIInv ==
    ASSUME IInv, Post
    PROVE  IInv'
<1>0. /\ owner = "idle" /\ posted < MaxPosts /\ posted' = posted + 1 /\ _queue' = Append(_queue, posted')
      /\ UNCHANGED <<_work, _stopped, handling, at, _thread, detached, _isRunning, _isStopping, owner, dying>>
      /\ UNCHANGED <<starts, hasStopped, done>>
  BY DEF Post, threads, ownerVars
<1>r. Owner \in Runner /\ Thread \subseteq Runner /\ Owner \notin Thread
  BY RunnerFacts
<1>a. posted \in Nat /\ posted' \in 1..posted' /\ 1..posted \subseteq 1..posted'
  BY <1>0, BoundFacts DEF IInv, Numbers
<1>b. _queue \in Seq(1..posted) /\ Len(_queue) \in Nat /\ done \in Seq(1..posted) /\ Len(done) \in Nat
  BY DEF IInv, Handlers
<1>c. /\ Len(_queue') = Len(_queue) + 1 /\ _queue'[Len(_queue) + 1] = posted'
      /\ \A i \in 1..Len(_queue) : _queue'[i] = _queue[i]
  BY <1>0, <1>b
<1>1. Flags'
  BY <1>0, <1>r DEF IInv, Flags
<1>2. Numbers'
  BY <1>0, BoundFacts DEF IInv, Numbers
<1>3. Places'
  BY <1>0, <1>r DEF IInv, Places
<1>4. Handlers'
  <2>1. _queue' \in Seq(1..posted') /\ done' \in Seq(1..posted')
    BY <1>0, <1>a, <1>b
  <2>2. handling' \in [Runner -> 0..posted']
    BY <1>0, <1>a DEF IInv, Handlers
  <2> QED
    BY <2>1, <2>2 DEF Handlers
<1>5. Runners'
  BY <1>0, <1>r DEF IInv, Runners, Busy, Live
<1>6. Stops'
  BY <1>0, <1>r DEF IInv, Stops
<1>7. FirstLife'
  BY <1>0, <1>r DEF IInv, FirstLife, Busy, StopFailed
<1>8. Alone'
  BY <1>0, <1>r DEF IInv, Alone, Live
<1>9. Ordered'
  <2> SUFFICES ASSUME detached = {} PROVE Ordered'
    BY <1>0 DEF Ordered
  <2>0. \A i \in 1..Len(_queue') : i \in 1..Len(_queue) \/ (i = Len(_queue) + 1 /\ _queue'[i] = posted')
    BY <1>b, <1>c
  <2>1. \A i \in 1..Len(_queue) : _queue[i] < posted'
    BY <1>0, <1>a, <1>b
  <2>2. \A i \in 1..Len(done) : done[i] < posted'
    BY <1>0, <1>a, <1>b
  <2>3. \A r \in Runner : handling[r] < posted'
    BY <1>0, <1>a DEF IInv, Handlers
  <2>4. ASSUME NEW i \in 1..Len(_queue'), NEW j \in 1..Len(_queue'), i < j PROVE _queue'[i] < _queue'[j]
    <3>1. i \in 1..Len(_queue)
      BY <1>b, <1>c, <2>4
    <3>2. CASE j \in 1..Len(_queue)
      BY <1>c, <2>4, <3>1, <3>2 DEF IInv, Ordered
    <3>3. CASE _queue'[j] = posted'
      BY <1>c, <2>1, <3>1, <3>3
    <3> QED
      BY <2>0, <3>2, <3>3
  <2>5. \A i \in 1..Len(done), j \in 1..Len(_queue') : done[i] < _queue'[j]
    BY <1>c, <2>0, <2>2 DEF IInv, Ordered
  <2>6. \A r \in Runner : Busy(r) => \A j \in 1..Len(_queue') : handling[r] < _queue'[j]
    BY <1>c, <2>0, <2>3 DEF IInv, Ordered
  <2> QED
    BY <1>0, <2>4, <2>5, <2>6 DEF IInv, Ordered, Busy
<1>10. Counted'
  <2> SUFFICES ASSUME owner # "terminated", ~StopFailed PROVE Counted'
    BY <1>0 DEF Counted, StopFailed
  <2>1. BusyRunners' = BusyRunners /\ Cardinality(BusyRunners) \in Nat
    <3>1. BusyRunners' = BusyRunners
      BY <1>0 DEF BusyRunners, Busy
    <3>2. BusyRunners \subseteq Runner
      BY DEF BusyRunners
    <3> QED
      BY <3>1, <3>2, RunnerFinite, FS_Subset, FS_CardinalityType
  <2>2. Len(done') + Len(_queue') + Cardinality(BusyRunners') = posted'
    <3>1. Len(done) + Len(_queue) + Cardinality(BusyRunners) = posted
      BY DEF IInv, Counted
    <3>2. Len(done') = Len(done) /\ Len(_queue') = Len(_queue) + 1 /\ BusyRunners' = BusyRunners
      BY <1>0, <1>c, <2>1
    <3> QED
      BY <1>0, <1>a, <1>b, <2>1, <3>1, <3>2
  <2>3. ASSUME NEW h \in 1..posted' PROVE Accounted(h)'
    <3>1. CASE h = posted'
      BY <1>b, <1>c, <3>1 DEF Accounted
    <3>2. CASE h # posted'
      <4>1. h \in 1..posted
        BY <1>0, <1>a, <3>2
      <4>2. Accounted(h)
        BY <4>1 DEF IInv, Counted
      <4> QED
        BY <1>0, <1>b, <1>c, <4>2 DEF Accounted
    <3> QED
      BY <3>1, <3>2
  <2> QED
    BY <2>2, <2>3 DEF Counted
<1>11. Drained'
  BY <1>0, <1>r DEF IInv, Drained, Busy
<1> QED
  BY <1>1, <1>2, <1>3, <1>4, <1>5, <1>6, <1>7, <1>8, <1>9, <1>10, <1>11 DEF IInv

\* Stop is called.
LEMMA StopIInv ==
    ASSUME IInv, NEW destroying \in BOOLEAN, Stop(destroying)
    PROVE  IInv'
<1>0. /\ owner = "idle" /\ owner' = "join" /\ ~_isStopping /\ _isStopping' = TRUE /\ dying' = destroying /\ _work' = FALSE
      /\ _stopped' \in BOOLEAN /\ (_stopped => _stopped')
      /\ UNCHANGED <<_queue, handling, at, _thread, detached, _isRunning, posted, starts, hasStopped, done>>
  BY DEF IInv, Flags, Stop, WorkDropped, Outstanding, threads, history
<1>r. Owner \in Runner /\ Thread \subseteq Runner /\ Owner \notin Thread
  BY RunnerFacts
<1>1. Flags'
  BY <1>0 DEF IInv, Flags
<1>2. Numbers'
  BY <1>0, <1>r DEF IInv, Numbers
<1>3. Places'
  BY <1>0, <1>r DEF IInv, Places
<1>4. Handlers'
  BY <1>0, <1>r DEF IInv, Handlers
<1>5. Runners'
  BY <1>0, <1>r DEF IInv, Runners, Busy, Live
<1>6. Stops'
  BY <1>0, <1>r DEF IInv, Stops
<1>7. FirstLife'
  BY <1>0, <1>r DEF IInv, FirstLife, Busy, StopFailed
<1>8. Alone'
  BY <1>0, <1>r DEF IInv, Alone, Live
<1>9. Ordered'
  BY <1>0, <1>r DEF IInv, Ordered, Busy
<1>10. Counted'
  <2>1. BusyRunners' = BusyRunners
    BY <1>0 DEF BusyRunners, Busy
  <2> QED
    BY <1>0, <2>1 DEF IInv, Counted, Accounted, StopFailed
<1>11. Drained'
  BY <1>0, <1>r DEF IInv, Drained, Busy
<1> QED
  BY <1>1, <1>2, <1>3, <1>4, <1>5, <1>6, <1>7, <1>8, <1>9, <1>10, <1>11 DEF IInv

\* The destructor finds the flag set.
LEMMA DestroyStoppingIInv ==
    ASSUME IInv, DestroyStopping
    PROVE  IInv'
<1>0. /\ owner = "idle" /\ owner' = "gone" /\ _isStopping /\ dying' = TRUE
      /\ UNCHANGED <<_work, _stopped, _queue, handling, at, _thread, detached, _isRunning, _isStopping>>
      /\ UNCHANGED <<posted, starts, hasStopped, done>>
  BY DEF DestroyStopping, service, threads, history
<1>r. Owner \in Runner /\ Thread \subseteq Runner /\ Owner \notin Thread
  BY RunnerFacts
<1>1. Flags'
  BY <1>0, <1>r DEF IInv, Flags
<1>2. Numbers'
  BY <1>0, <1>r DEF IInv, Numbers
<1>3. Places'
  BY <1>0, <1>r DEF IInv, Places
<1>4. Handlers'
  BY <1>0, <1>r DEF IInv, Handlers
<1>5. Runners'
  BY <1>0, <1>r DEF IInv, Runners, Busy, Live
<1>6. Stops'
  BY <1>0, <1>r DEF IInv, Stops
<1>7. FirstLife'
  BY <1>0, <1>r DEF IInv, FirstLife, Busy, StopFailed
<1>8. Alone'
  BY <1>0, <1>r DEF IInv, Alone, Live
<1>9. Ordered'
  BY <1>0, <1>r DEF IInv, Ordered, Busy
<1>10. Counted'
  <2>1. BusyRunners' = BusyRunners
    BY <1>0 DEF BusyRunners, Busy
  <2> QED
    BY <1>0, <2>1 DEF IInv, Counted, Accounted, StopFailed
<1>11. Drained'
  BY <1>0, <1>r DEF IInv, Drained, Busy
<1> QED
  BY <1>1, <1>2, <1>3, <1>4, <1>5, <1>6, <1>7, <1>8, <1>9, <1>10, <1>11 DEF IInv

\* The thread has been joined: the owner runs what is left.
LEMMA JoinIInv ==
    ASSUME IInv, JoinAndRun
    PROVE  IInv'
<1>0. /\ owner = "join" /\ owner' = "drain" /\ (_thread = 0 \/ at[_thread] = "ended") /\ _thread' = 0
      /\ _stopped' = FALSE /\ hasStopped' = TRUE /\ at' = [at EXCEPT ![Owner] = "run"]
      /\ UNCHANGED <<_work, _queue, handling, detached, _isRunning, _isStopping, dying, posted, starts, done>>
  BY DEF JoinAndRun, CanJoin, Reset
<1>r. Owner \in Runner /\ Thread \subseteq Runner /\ Owner \notin Thread
  BY RunnerFacts
<1>a. /\ \A t \in Thread : at'[t] = at[t]
      /\ at'[Owner] = "run" /\ \A r \in Runner : r # Owner => at'[r] = at[r]
  BY <1>0, <1>r DEF IInv, Places
<1>b. \A t \in Thread : Live(t) => t \in detached
  <2> SUFFICES ASSUME NEW t \in Thread, Live(t), t = _thread PROVE FALSE
    BY DEF IInv, Runners
  <2>1. t # 0
    BY BoundFacts
  <2> QED
    BY <1>0, <2>1 DEF Live
<1>1. Flags'
  BY <1>0, <1>r, <1>a DEF IInv, Flags
<1>2. Numbers'
  BY <1>0, BoundFacts DEF IInv, Numbers
<1>3. Places'
  BY <1>0, <1>r DEF IInv, Places
<1>4. Handlers'
  BY <1>0, <1>r, <1>a DEF IInv, Handlers
<1>5. Runners'
  BY <1>0, <1>r, <1>a, <1>b DEF IInv, Runners, Busy, Live
<1>6. Stops'
  BY <1>0, <1>r, <1>a DEF IInv, Stops
<1>7. FirstLife'
  <2> SUFFICES ASSUME detached = {}, NEW t \in Thread PROVE ~Busy(t)
    BY <1>0 DEF FirstLife, Busy
  <2> QED
    BY <1>b, <1>r DEF IInv, Runners, Live
<1>8. Alone'
  BY <1>0, <1>a, <1>b DEF Alone, Live
<1>9. Ordered'
  BY <1>0, <1>r, <1>a DEF IInv, Ordered, Busy
<1>10. Counted'
  <2>1. BusyRunners' = BusyRunners
    BY <1>0 DEF BusyRunners, Busy
  <2> QED
    BY <1>0, <2>1 DEF IInv, Counted, Accounted, StopFailed
<1>11. Drained'
  BY <1>0, <1>r, <1>a DEF IInv, Drained, Busy
<1> QED
  BY <1>1, <1>2, <1>3, <1>4, <1>5, <1>6, <1>7, <1>8, <1>9, <1>10, <1>11 DEF IInv

\* run() returns to Stop, and Stop returns.
LEMMA StopReturnsIInv ==
    ASSUME IInv, StopReturns
    PROVE  IInv'
<1>0. /\ (owner = "drain" \/ (owner # "terminated" /\ at[Owner] = "run"))
      /\ _stopped' = TRUE /\ _isStopping' = FALSE /\ at' = [at EXCEPT ![Owner] = "none"] /\ ~Busy(Owner)
      /\ owner' \in {"idle", "gone"}
      /\ UNCHANGED <<_work, _queue, handling, _thread, detached, _isRunning, dying, posted, starts, hasStopped, done>>
  BY DEF StopReturns, RunEnds, Running, StoppedAfterRun
<1>r. Owner \in Runner /\ Thread \subseteq Runner /\ Owner \notin Thread
  BY RunnerFacts
<1>a. /\ \A t \in Thread : at'[t] = at[t]
      /\ at'[Owner] = "none" /\ \A r \in Runner : r # Owner => at'[r] = at[r]
  BY <1>0, <1>r DEF IInv, Places
<1>b. owner = "drain" /\ _isStopping
  BY <1>0 DEF IInv, Runners, Stops, Places
<1>1. Flags'
  BY <1>0, <1>r, <1>a, <1>b DEF IInv, Flags
<1>2. Numbers'
  BY <1>0, <1>r, <1>a, <1>b DEF IInv, Numbers
<1>3. Places'
  BY <1>0, <1>r DEF IInv, Places
<1>4. Handlers'
  BY <1>0, <1>r, <1>a, <1>b DEF IInv, Handlers
<1>5. Runners'
  BY <1>0, <1>r, <1>a, <1>b DEF IInv, Runners, Busy, Live
<1>6. Stops'
  BY <1>0, <1>r, <1>a, <1>b DEF IInv, Stops
<1>7. FirstLife'
  <2>1. \A r \in Runner : Busy(r)' <=> Busy(r)
    BY <1>0 DEF Busy
  <2>2. ~StopFailed
    BY <1>b DEF StopFailed
  <2> QED
    BY <1>0, <1>r, <2>1, <2>2 DEF IInv, FirstLife
<1>8. Alone'
  BY <1>0, <1>r, <1>a, <1>b DEF IInv, Alone, Live
<1>9. Ordered'
  BY <1>0, <1>r, <1>a, <1>b DEF IInv, Ordered, Busy
<1>10. Counted'
  <2>1. BusyRunners' = BusyRunners
    BY <1>0 DEF BusyRunners, Busy
  <2> QED
    BY <1>0, <1>b, <2>1 DEF IInv, Counted, Accounted, StopFailed
<1>11. Drained'
  BY <1>0, <1>r, <1>a, <1>b DEF IInv, Drained, Busy
<1> QED
  BY <1>1, <1>2, <1>3, <1>4, <1>5, <1>6, <1>7, <1>8, <1>9, <1>10, <1>11 DEF IInv

-----------------------------------------------------------------------------
(* The threads *)

\* A thread begins to run.
LEMMA EnterIInv ==
    ASSUME IInv, NEW t \in Thread, Enter(t)
    PROVE  IInv'
<1>0. /\ owner # "terminated" /\ at[t] = "new" /\ at' = [at EXCEPT ![t] = "run"]
      /\ _isRunning' = TRUE
      /\ UNCHANGED <<_work, _stopped, _queue, handling, _thread, detached, _isStopping, owner, dying>>
      /\ UNCHANGED <<posted, starts, hasStopped, done>>
  BY DEF Enter, service, ownerVars, history
<1>r. Owner \in Runner /\ Thread \subseteq Runner /\ Owner \notin Thread
  BY RunnerFacts
<1>a. at'[t] = "run" /\ t # Owner /\ \A r \in Runner : r # t => at'[r] = at[r]
  BY <1>0, <1>r DEF IInv, Places
<1>b. ~Busy(t) /\ Live(t) /\ \A u \in Thread : Live(u)' => Live(u)
  BY <1>0, <1>r, <1>a DEF IInv, Runners, Busy, Live
<1>1. Flags'
  BY <1>0, <1>r, <1>a, <1>b DEF IInv, Flags
<1>2. Numbers'
  BY <1>0, <1>r, <1>a, <1>b DEF IInv, Numbers
<1>3. Places'
  BY <1>0, <1>r DEF IInv, Places
<1>4. Handlers'
  BY <1>0, <1>r, <1>a, <1>b DEF IInv, Handlers
<1>5. Runners'
  BY <1>0, <1>r, <1>a, <1>b DEF IInv, Runners, Busy, Live
<1>6. Stops'
  BY <1>0, <1>r, <1>a, <1>b DEF IInv, Stops
<1>7. FirstLife'
  BY <1>0, <1>r, <1>a, <1>b DEF IInv, FirstLife, Busy, StopFailed
<1>8. Alone'
  BY <1>0, <1>r, <1>a, <1>b DEF IInv, Alone, Live
<1>9. Ordered'
  BY <1>0, <1>r, <1>a, <1>b DEF IInv, Ordered, Busy
<1>10. Counted'
  <2>1. BusyRunners' = BusyRunners
    BY <1>0 DEF BusyRunners, Busy
  <2> QED
    BY <1>0, <2>1 DEF IInv, Counted, Accounted, StopFailed
<1>11. Drained'
  BY <1>0, <1>r, <1>a, <1>b DEF IInv, Drained, Busy
<1> QED
  BY <1>1, <1>2, <1>3, <1>4, <1>5, <1>6, <1>7, <1>8, <1>9, <1>10, <1>11 DEF IInv

\* A thread leaves.
LEMMA LeaveIInv ==
    ASSUME IInv, NEW t \in Thread, Leave(t)
    PROVE  IInv'
<1>0. /\ owner # "terminated" /\ at[t] = "leave" /\ at' = [at EXCEPT ![t] = "ended"]
      /\ _isRunning' = FALSE
      /\ UNCHANGED <<_work, _stopped, _queue, handling, _thread, detached, _isStopping, owner, dying>>
      /\ UNCHANGED <<posted, starts, hasStopped, done>>
  BY DEF Leave, service, ownerVars, history
<1>r. Owner \in Runner /\ Thread \subseteq Runner /\ Owner \notin Thread
  BY RunnerFacts
<1>a. at'[t] = "ended" /\ t # Owner /\ \A r \in Runner : r # t => at'[r] = at[r]
  BY <1>0, <1>r DEF IInv, Places
<1>b. ~Busy(t) /\ Live(t) /\ \A u \in Thread : Live(u)' => Live(u)
  BY <1>0, <1>r, <1>a DEF IInv, Runners, Busy, Live
<1>1. Flags'
  BY <1>0, <1>r, <1>a, <1>b DEF IInv, Flags
<1>2. Numbers'
  BY <1>0, <1>r, <1>a, <1>b DEF IInv, Numbers
<1>3. Places'
  BY <1>0, <1>r DEF IInv, Places
<1>4. Handlers'
  BY <1>0, <1>r, <1>a, <1>b DEF IInv, Handlers
<1>5. Runners'
  BY <1>0, <1>r, <1>a, <1>b DEF IInv, Runners, Busy, Live
<1>6. Stops'
  BY <1>0, <1>r, <1>a, <1>b DEF IInv, Stops
<1>7. FirstLife'
  BY <1>0, <1>r, <1>a, <1>b DEF IInv, FirstLife, Busy, StopFailed
<1>8. Alone'
  BY <1>0, <1>r, <1>a, <1>b DEF IInv, Alone, Live
<1>9. Ordered'
  BY <1>0, <1>r, <1>a, <1>b DEF IInv, Ordered, Busy
<1>10. Counted'
  <2>1. BusyRunners' = BusyRunners
    BY <1>0 DEF BusyRunners, Busy
  <2> QED
    BY <1>0, <2>1 DEF IInv, Counted, Accounted, StopFailed
<1>11. Drained'
  BY <1>0, <1>r, <1>a, <1>b DEF IInv, Drained, Busy
<1> QED
  BY <1>1, <1>2, <1>3, <1>4, <1>5, <1>6, <1>7, <1>8, <1>9, <1>10, <1>11 DEF IInv

\* run() returns in a thread.
LEMMA RunReturnsIInv ==
    ASSUME IInv, NEW t \in Thread, RunReturns(t)
    PROVE  IInv'
<1>0. /\ owner # "terminated" /\ at[t] = "run" /\ at' = [at EXCEPT ![t] = "leave"]
      /\ _stopped' = TRUE /\ ~Busy(t)
      /\ _stopped \/ (~_work /\ _queue = << >> /\ \A r \in Runner : ~Busy(r))
      /\ UNCHANGED <<_work, _queue, handling, _thread, detached, _isRunning, _isStopping, owner, dying>>
      /\ UNCHANGED <<posted, starts, hasStopped, done>>
  BY DEF RunReturns, RunEnds, Running, Outstanding
<1>r. Owner \in Runner /\ Thread \subseteq Runner /\ Owner \notin Thread
  BY RunnerFacts
<1>a. at'[t] = "leave" /\ t # Owner /\ \A r \in Runner : r # t => at'[r] = at[r]
  BY <1>0, <1>r DEF IInv, Places
<1>b. ~Busy(t) /\ Live(t) /\ \A u \in Thread : Live(u)' => Live(u)
  BY <1>0, <1>r, <1>a DEF IInv, Runners, Busy, Live
<1>1. Flags'
  BY <1>0, <1>r, <1>a, <1>b DEF IInv, Flags
<1>2. Numbers'
  BY <1>0, <1>r, <1>a, <1>b DEF IInv, Numbers
<1>3. Places'
  BY <1>0, <1>r DEF IInv, Places
<1>4. Handlers'
  BY <1>0, <1>r, <1>a, <1>b DEF IInv, Handlers
<1>5. Runners'
  BY <1>0, <1>r, <1>a, <1>b DEF IInv, Runners, Busy, Live
<1>6. Stops'
  BY <1>0, <1>r, <1>a, <1>b DEF IInv, Stops
<1>7. FirstLife'
  BY <1>0, <1>r, <1>a, <1>b DEF IInv, FirstLife, Busy, StopFailed
<1>8. Alone'
  BY <1>0, <1>r, <1>a, <1>b DEF IInv, Alone, Live
<1>9. Ordered'
  BY <1>0, <1>r, <1>a, <1>b DEF IInv, Ordered, Busy
<1>10. Counted'
  <2>1. BusyRunners' = BusyRunners
    BY <1>0 DEF BusyRunners, Busy
  <2> QED
    BY <1>0, <2>1 DEF IInv, Counted, Accounted, StopFailed
<1>11. Drained'
  BY <1>0, <1>r, <1>a, <1>b DEF IInv, Drained, Busy
<1> QED
  BY <1>1, <1>2, <1>3, <1>4, <1>5, <1>6, <1>7, <1>8, <1>9, <1>10, <1>11 DEF IInv

-----------------------------------------------------------------------------
(* The handlers *)

\* Without a replaced thread, only one of the owner and the task's thread runs.
LEMMA OneRuns ==
    ASSUME IInv, detached = {}, NEW r \in Runner, NEW s \in Runner, at[r] = "run", at[s] = "run"
    PROVE  r = s
<1>r. \A u \in Runner : u = Owner \/ u \in Thread
  BY DEF Runner
<1>1. \A t \in Thread : at[t] = "run" => t = _thread
  BY DEF IInv, Runners, Live
<1>2. at[Owner] = "run" => \A t \in Thread : at[t] # "run"
  BY DEF IInv, Alone, Live
<1> QED
  BY <1>r, <1>1, <1>2

LEMMA BusyCounts ==
    /\ BusyRunners \subseteq Runner /\ IsFiniteSet(BusyRunners) /\ Cardinality(BusyRunners) \in Nat
<1>1. BusyRunners \subseteq Runner
  BY DEF BusyRunners
<1> QED
  BY <1>1, RunnerFinite, FS_Subset, FS_CardinalityType

\* A handler is taken from the queue.
LEMMA TakeIInv ==
    ASSUME IInv, NEW r \in Runner, Take(r)
    PROVE  IInv'
<1>0. /\ owner # "terminated" /\ at[r] = "run" /\ ~Busy(r) /\ ~_stopped /\ _queue # << >>
      /\ handling' = [handling EXCEPT ![r] = Head(_queue)] /\ _queue' = Tail(_queue)
      /\ UNCHANGED <<_work, _stopped, at, _thread, detached, _isRunning, _isStopping, owner, dying>>
      /\ UNCHANGED <<posted, starts, hasStopped, done>>
  BY DEF Take, Running, threads, ownerVars, history
<1>r. Owner \in Runner /\ Thread \subseteq Runner /\ Owner \notin Thread
  BY RunnerFacts
<1>a. _queue \in Seq(1..posted) /\ Len(_queue) \in Nat /\ Len(_queue) > 0 /\ posted \in Nat
  BY <1>0 DEF IInv, Handlers, Numbers
<1>b. /\ _queue' \in Seq(1..posted) /\ Len(_queue') = Len(_queue) - 1 /\ Head(_queue) = _queue[1]
      /\ \A j \in 1..Len(_queue') : j + 1 \in 1..Len(_queue) /\ _queue'[j] = _queue[j + 1]
      /\ _queue[1] \in 1..posted /\ _queue[1] # 0 /\ 1 \in 1..Len(_queue)
  BY <1>0, <1>a
<1>c. handling'[r] = _queue[1] /\ \A s \in Runner : s # r => handling'[s] = handling[s]
  BY <1>0, <1>b DEF IInv, Handlers
<1>d. Busy(r)' /\ \A s \in Runner : s # r => (Busy(s)' <=> Busy(s))
  BY <1>b, <1>c DEF Busy
<1>1. Flags'
  BY <1>0, <1>r, <1>d DEF IInv, Flags
<1>2. Numbers'
  BY <1>0, <1>r, <1>d DEF IInv, Numbers
<1>3. Places'
  BY <1>0, <1>r, <1>d DEF IInv, Places
<1>4. Handlers'
  <2>1. _queue[1] \in 0..posted
    BY <1>a, <1>b
  <2> QED
    BY <1>0, <1>b, <2>1 DEF IInv, Handlers
<1>5. Runners'
  BY <1>0, <1>r, <1>d DEF IInv, Runners, Live
<1>6. Stops'
  BY <1>0, <1>r, <1>d DEF IInv, Stops
<1>7. FirstLife'
  <2> SUFFICES ASSUME hasStopped, ~StopFailed, detached = {}
               PROVE  (\A t \in Thread : ~Busy(t)') /\ (owner \in {"idle", "join", "gone"} => _stopped)
    BY <1>0 DEF FirstLife, StopFailed
  <2>1. owner \notin {"idle", "join", "gone"}
    BY <1>0 DEF IInv, FirstLife
  <2>2. owner = "drain" /\ _thread = 0
    BY <1>0, <2>1 DEF IInv, Places, Stops
  <2>3. r \notin Thread
    <3>1. \A t \in Thread : at[t] = "run" => t = _thread
      BY DEF IInv, Runners, Live
    <3> QED
      BY <1>0, <2>2, <3>1, BoundFacts
  <2> QED
    BY <1>d, <1>r, <2>1, <2>3 DEF IInv, FirstLife
<1>8. Alone'
  BY <1>0, <1>r, <1>d DEF IInv, Alone, Live
<1>9. Ordered'
  <2> SUFFICES ASSUME detached = {} PROVE Ordered'
    BY <1>0 DEF Ordered
  <2>1. \A s \in Runner : Busy(s)' => s = r
    BY <1>0, <1>d, OneRuns DEF IInv, Runners
  <2>2. \A i, j \in 1..Len(_queue') : i < j => _queue'[i] < _queue'[j]
    <3> SUFFICES ASSUME NEW i \in 1..Len(_queue'), NEW j \in 1..Len(_queue'), i < j
                 PROVE  _queue'[i] < _queue'[j]
      OBVIOUS
    <3>1. i + 1 < j + 1 /\ i + 1 \in 1..Len(_queue) /\ j + 1 \in 1..Len(_queue)
      BY <1>b
    <3>2. _queue[i + 1] < _queue[j + 1]
      BY <3>1 DEF IInv, Ordered
    <3> QED
      BY <1>b, <3>2
  <2>3. \A j \in 1..Len(_queue') : _queue[1] < _queue'[j]
    <3> SUFFICES ASSUME NEW j \in 1..Len(_queue') PROVE _queue[1] < _queue'[j]
      OBVIOUS
    <3>1. 1 < j + 1 /\ j + 1 \in 1..Len(_queue)
      BY <1>b
    <3>2. _queue[1] < _queue[j + 1]
      BY <1>b, <3>1 DEF IInv, Ordered
    <3> QED
      BY <1>b, <3>2
  <2>4. \A i \in 1..Len(done), j \in 1..Len(_queue') : done[i] < _queue'[j]
    BY <1>b DEF IInv, Ordered
  <2>5. \A i \in 1..Len(done) : done[i] < _queue[1]
    BY <1>b DEF IInv, Ordered
  <2> QED
    BY <1>0, <1>c, <2>1, <2>2, <2>3, <2>4, <2>5 DEF IInv, Ordered
<1>10. Counted'
  <2> SUFFICES ASSUME owner # "terminated", ~StopFailed PROVE Counted'
    BY <1>0 DEF Counted, StopFailed
  <2>1. BusyRunners' = BusyRunners \cup {r} /\ r \notin BusyRunners
    BY <1>0, <1>d DEF BusyRunners
  <2>2. Cardinality(BusyRunners') = Cardinality(BusyRunners) + 1 /\ Cardinality(BusyRunners) \in Nat
    BY <2>1, BusyCounts, FS_AddElement
  <2>3. Len(done) + Len(_queue) + Cardinality(BusyRunners) = posted /\ Len(done) \in Nat
    BY DEF IInv, Counted, Handlers
  <2>4. Len(done') + Len(_queue') + Cardinality(BusyRunners') = posted'
    <3>1. Len(done') = Len(done) /\ posted' = posted
      BY <1>0
    <3> QED
      BY <1>a, <1>b, <2>2, <2>3, <3>1
  <2>5. ASSUME NEW h \in 1..posted PROVE Accounted(h)'
    <3>1. Accounted(h)
      BY DEF IInv, Counted
    <3>2. CASE \E i \in 1..Len(done) : done[i] = h
      BY <1>0, <3>2 DEF Accounted
    <3>3. CASE \E i \in 1..Len(_queue) : _queue[i] = h
      <4>1. PICK i \in 1..Len(_queue) : _queue[i] = h
        BY <3>3
      <4>2. CASE i = 1
        BY <1>c, <4>1, <4>2 DEF Accounted
      <4>3. CASE i # 1
        <5>1. i - 1 \in 1..Len(_queue') /\ (i - 1) + 1 = i
          BY <1>a, <1>b, <4>3
        <5>2. _queue'[i - 1] = h
          BY <1>b, <4>1, <5>1
        <5> QED
          BY <5>1, <5>2 DEF Accounted
      <4> QED
        BY <4>2, <4>3
    <3>4. CASE \E s \in Runner : handling[s] = h
      <4>1. PICK s \in Runner : handling[s] = h
        BY <3>4
      <4>2. s # r
        <5>1. h # 0
          OBVIOUS
        <5> QED
          BY <1>0, <4>1, <5>1 DEF Busy
      <4> QED
        BY <1>c, <4>1, <4>2 DEF Accounted
    <3> QED
      BY <3>1, <3>2, <3>3, <3>4 DEF Accounted
  <2> QED
    BY <1>0, <2>4, <2>5 DEF Counted
<1>11. Drained'
  BY <1>0 DEF Drained
<1> QED
  BY <1>1, <1>2, <1>3, <1>4, <1>5, <1>6, <1>7, <1>8, <1>9, <1>10, <1>11 DEF IInv

\* A handler returns.
LEMMA ReturnIInv ==
    ASSUME IInv, NEW r \in Runner, Return(r)
    PROVE  IInv'
<1>0. /\ owner # "terminated" /\ at[r] = "run" /\ Busy(r) /\ handling' = [handling EXCEPT ![r] = 0]
      /\ _stopped' \in BOOLEAN /\ (_stopped => _stopped')
      /\ _stopped' => _stopped \/ (_queue = << >> /\ \A s \in Runner : s # r => ~Busy(s))
      /\ done' = Append(done, handling[r])
      /\ UNCHANGED <<_work, _queue, at, _thread, detached, _isRunning, _isStopping, owner, dying>>
      /\ UNCHANGED <<posted, starts, hasStopped>>
  BY DEF IInv, Flags, Return, Finished, Running, Outstanding, threads, ownerVars
<1>r. Owner \in Runner /\ Thread \subseteq Runner /\ Owner \notin Thread
  BY RunnerFacts
<1>a. done \in Seq(1..posted) /\ Len(done) \in Nat /\ posted \in Nat /\ handling[r] \in 1..posted
  BY <1>0 DEF IInv, Handlers, Numbers, Busy
<1>b. /\ done' \in Seq(1..posted) /\ Len(done') = Len(done) + 1 /\ done'[Len(done) + 1] = handling[r]
      /\ \A i \in 1..Len(done) : done'[i] = done[i]
      /\ \A i \in 1..Len(done') : i \in 1..Len(done) \/ i = Len(done) + 1
  BY <1>0, <1>a
<1>c. handling'[r] = 0 /\ \A s \in Runner : s # r => handling'[s] = handling[s]
  BY <1>0 DEF IInv, Handlers
<1>d. ~Busy(r)' /\ \A s \in Runner : s # r => (Busy(s)' <=> Busy(s))
  BY <1>c DEF Busy
<1>1. Flags'
  BY <1>0, <1>r, <1>d DEF IInv, Flags
<1>2. Numbers'
  BY <1>0, <1>r, <1>d DEF IInv, Numbers
<1>3. Places'
  BY <1>0, <1>r, <1>d DEF IInv, Places
<1>4. Handlers'
  <2>1. 0 \in 0..posted
    BY <1>a
  <2> QED
    BY <1>0, <1>b, <2>1 DEF IInv, Handlers
<1>5. Runners'
  BY <1>0, <1>r, <1>d DEF IInv, Runners, Live
<1>6. Stops'
  BY <1>0, <1>r, <1>d DEF IInv, Stops
<1>7. FirstLife'
  BY <1>0, <1>r, <1>d DEF IInv, FirstLife, StopFailed
<1>8. Alone'
  BY <1>0, <1>r, <1>d DEF IInv, Alone, Live
<1>9. Ordered'
  <2> SUFFICES ASSUME detached = {} PROVE Ordered'
    BY <1>0 DEF Ordered
  <2>1. \A s \in Runner : ~Busy(s)'
    BY <1>0, <1>d, OneRuns DEF IInv, Runners
  <2>2. \A i \in 1..Len(done) : done[i] < handling[r]
    BY <1>0 DEF IInv, Ordered
  <2>3. ASSUME NEW i \in 1..Len(done'), NEW j \in 1..Len(done'), i < j PROVE done'[i] < done'[j]
    <3>1. i \in 1..Len(done)
      BY <1>a, <1>b, <2>3
    <3>2. CASE j \in 1..Len(done)
      BY <1>b, <2>3, <3>1, <3>2 DEF IInv, Ordered
    <3>3. CASE j = Len(done) + 1
      BY <1>b, <2>2, <3>1, <3>3
    <3> QED
      BY <1>b, <3>2, <3>3
  <2>4. \A i \in 1..Len(done'), j \in 1..Len(_queue) : done'[i] < _queue[j]
    BY <1>0, <1>b DEF IInv, Ordered
  <2> QED
    BY <1>0, <2>1, <2>3, <2>4 DEF IInv, Ordered
<1>10. Counted'
  <2> SUFFICES ASSUME owner # "terminated", ~StopFailed PROVE Counted'
    BY <1>0 DEF Counted, StopFailed
  <2>1. BusyRunners' = BusyRunners \ {r} /\ r \in BusyRunners
    BY <1>0, <1>d DEF BusyRunners
  <2>2. Cardinality(BusyRunners') = Cardinality(BusyRunners) - 1 /\ Cardinality(BusyRunners) \in Nat
    BY <2>1, BusyCounts, FS_RemoveElement
  <2>3. Len(done) + Len(_queue) + Cardinality(BusyRunners) = posted /\ Len(_queue) \in Nat
    BY DEF IInv, Counted, Handlers
  <2>4. Len(done') + Len(_queue') + Cardinality(BusyRunners') = posted'
    <3>1. Len(_queue') = Len(_queue) /\ posted' = posted
      BY <1>0
    <3> QED
      BY <1>a, <1>b, <2>2, <2>3, <3>1
  <2>5. ASSUME NEW h \in 1..posted PROVE Accounted(h)'
    <3>1. Accounted(h)
      BY DEF IInv, Counted
    <3>2. CASE \E i \in 1..Len(done) : done[i] = h
      <4>1. PICK i \in 1..Len(done) : done[i] = h
        BY <3>2
      <4>2. i \in 1..Len(done') /\ done'[i] = h
        BY <1>a, <1>b, <4>1
      <4> QED
        BY <4>2 DEF Accounted
    <3>3. CASE \E i \in 1..Len(_queue) : _queue[i] = h
      BY <1>0, <3>3 DEF Accounted
    <3>4. CASE \E s \in Runner : handling[s] = h
      <4>1. PICK s \in Runner : handling[s] = h
        BY <3>4
      <4>2. CASE s = r
        <5>1. Len(done) + 1 \in 1..Len(done') /\ done'[Len(done) + 1] = h
          BY <1>a, <1>b, <4>1, <4>2
        <5> QED
          BY <5>1 DEF Accounted
      <4>3. CASE s # r
        BY <1>c, <4>1, <4>3 DEF Accounted
      <4> QED
        BY <4>2, <4>3
    <3> QED
      BY <3>1, <3>2, <3>3, <3>4 DEF Accounted
  <2> QED
    BY <1>0, <2>4, <2>5 DEF Counted
<1>11. Drained'
  BY <1>0, <1>d DEF IInv, Drained
<1> QED
  BY <1>1, <1>2, <1>3, <1>4, <1>5, <1>6, <1>7, <1>8, <1>9, <1>10, <1>11 DEF IInv

\* An exception leaves a handler: the process ends, or the Stop that ran it.
LEMMA EscapeIInv ==
    ASSUME IInv, NEW r \in Runner, Escape(r)
    PROVE  IInv'
<1>0. /\ owner # "terminated" /\ at[r] = "run" /\ Busy(r) /\ handling' = [handling EXCEPT ![r] = 0]
      /\ _stopped' \in BOOLEAN /\ (_stopped => _stopped')
      /\ _stopped' => _stopped \/ (_queue = << >> /\ \A s \in Runner : s # r => ~Busy(s))
      /\ \/ r # Owner /\ owner' = "terminated" /\ at' = at
         \/ r = Owner /\ at' = [at EXCEPT ![Owner] = "none"] /\ owner' \in {"idle", "gone", "terminated"}
      /\ UNCHANGED <<_work, _queue, done, _thread, detached, _isRunning, _isStopping, dying>>
      /\ UNCHANGED <<posted, starts, hasStopped>>
  BY DEF IInv, Flags, Escape, Finished, Running, Outstanding, history
<1>r. Owner \in Runner /\ Thread \subseteq Runner /\ Owner \notin Thread
  BY RunnerFacts
<1>c. handling'[r] = 0 /\ \A s \in Runner : s # r => handling'[s] = handling[s]
  BY <1>0 DEF IInv, Handlers
<1>d. ~Busy(r)' /\ \A s \in Runner : s # r => (Busy(s)' <=> Busy(s))
  BY <1>c DEF Busy
<1>e. /\ at' \in [Runner -> {"none", "new", "run", "leave", "ended"}]
      /\ \A t \in Thread : at'[t] = at[t]
      /\ at'[Owner] \in {"none", "run"} /\ (owner' # "terminated" => at'[Owner] = "none")
      /\ \A s \in Runner : s # r => at'[s] = at[s]
  BY <1>0, <1>r DEF IInv, Places, Runners
<1>f. r = Owner => owner = "drain" /\ _isStopping /\ _thread = 0
  BY <1>0 DEF IInv, Runners, Stops, Places
<1>g. at'[Owner] = "run" => at[Owner] = "run"
  BY <1>0, <1>e, <1>r DEF IInv, Places
<1>h. owner' \in {"idle", "gone", "terminated"}
  BY <1>0
<1>1. Flags'
  BY <1>0, <1>r, <1>d, <1>e, <1>f, <1>h DEF IInv, Flags
<1>2. Numbers'
  BY <1>0, <1>r, <1>d, <1>e, <1>f, <1>h DEF IInv, Numbers
<1>3. Places'
  BY <1>e, <1>h DEF Places
<1>4. Handlers'
  <2>1. 0 \in 0..posted
    BY DEF IInv, Numbers
  <2> QED
    BY <1>0, <2>1 DEF IInv, Handlers
<1>5. Runners'
  <2>1. \A s \in Runner : Busy(s)' => at'[s] = "run"
    BY <1>d, <1>e DEF IInv, Runners
  <2>2. \A t \in Thread : Live(t)' <=> Live(t)
    BY <1>e DEF Live
  <2> QED
    BY <1>0, <1>e, <1>h, <2>1, <2>2 DEF IInv, Runners
<1>6. Stops'
  BY <1>0, <1>r, <1>d, <1>e, <1>f, <1>h DEF IInv, Stops
<1>7. FirstLife'
  <2>1. CASE r = Owner
    BY <1>0, <1>f, <1>h, <2>1 DEF FirstLife, StopFailed
  <2>2. CASE r # Owner
    BY <1>0, <1>d, <1>r, <2>2 DEF IInv, FirstLife, StopFailed
  <2> QED
    BY <2>1, <2>2
<1>8. Alone'
  BY <1>0, <1>e, <1>g DEF IInv, Alone, Live
<1>9. Ordered'
  <2>1. \A s \in Runner : Busy(s)' => Busy(s) /\ handling'[s] = handling[s]
    BY <1>c, <1>d
  <2> QED
    BY <1>0, <2>1 DEF IInv, Ordered
<1>10. Counted'
  <2>1. owner' = "terminated" \/ StopFailed'
    BY <1>0, <1>f, <1>h DEF StopFailed
  <2> QED
    BY <2>1 DEF Counted
<1>11. Drained'
  BY <1>h DEF Drained
<1> QED
  BY <1>1, <1>2, <1>3, <1>4, <1>5, <1>6, <1>7, <1>8, <1>9, <1>10, <1>11 DEF IInv

-----------------------------------------------------------------------------
(* Every step, and what follows *)

LEMMA WiderSeq == ASSUME NEW S, NEW T, S \subseteq T PROVE Seq(S) \subseteq Seq(T)
  OBVIOUS

LEMMA NextIInv == IInv /\ [Next]_taskVars => IInv'
<1> SUFFICES ASSUME IInv, [Next]_taskVars PROVE IInv'
  OBVIOUS
<1>1. CASE Post \/ Start \/ DestroyStopping \/ JoinAndRun \/ StopReturns
  BY <1>1, PostIInv, StartIInv, DestroyStoppingIInv, JoinIInv, StopReturnsIInv
<1>2. CASE \E destroying \in BOOLEAN : Stop(destroying)
  BY <1>2, StopIInv
<1>3. CASE \E t \in Thread : Enter(t) \/ RunReturns(t) \/ Leave(t)
  BY <1>3, EnterIInv, RunReturnsIInv, LeaveIInv
<1>4. CASE \E r \in Runner : Take(r) \/ Return(r) \/ Escape(r)
  BY <1>4, TakeIInv, ReturnIInv, EscapeIInv
<1>5. CASE UNCHANGED taskVars
  BY <1>5, StutterIInv
<1> QED
  BY <1>1, <1>2, <1>3, <1>4, <1>5 DEF Next

LEMMA SpecIInv == Spec => []IInv
<1> QED
  BY InitIInv, NextIInv, PTL DEF Spec

\* Every variable keeps its type.
THEOREM TypeCorrect == Spec => []TypeOK
<1>1. IInv => TypeOK
  <2> SUFFICES ASSUME IInv PROVE TypeOK
    OBVIOUS
  <2>1. /\ _work \in BOOLEAN /\ _stopped \in BOOLEAN /\ _isRunning \in BOOLEAN
        /\ _isStopping \in BOOLEAN /\ dying \in BOOLEAN /\ hasStopped \in BOOLEAN
    BY DEF IInv, Flags
  <2>2. /\ posted \in 0..MaxPosts /\ starts \in 0..MaxStarts
        /\ _thread \in {0} \cup Thread /\ detached \subseteq Thread
    BY BoundFacts DEF IInv, Numbers
  <2>3. 1..posted \subseteq Handler /\ 0..posted \subseteq 0..MaxPosts
    BY <2>2, BoundFacts DEF Handler
  <2>4. /\ _queue \in Seq(Handler) /\ done \in Seq(Handler) /\ handling \in [Runner -> 0..MaxPosts]
    <3>1. _queue \in Seq(1..posted) /\ done \in Seq(1..posted) /\ handling \in [Runner -> 0..posted]
      BY DEF IInv, Handlers
    <3>2. _queue \in Seq(Handler) /\ done \in Seq(Handler)
      BY <2>3, <3>1, WiderSeq
    <3>3. handling \in [Runner -> 0..MaxPosts]
      BY <2>3, <3>1
    <3> QED
      BY <3>2, <3>3
  <2> QED
    BY <2>1, <2>2, <2>4 DEF IInv, Places, TypeOK
<1> QED
  BY <1>1, SpecIInv, PTL

\* Unless a second Start has replaced a thread, handlers run one at a time and in
\* the order in which they were posted, in whichever thread.
THEOREM HandlersAreSerial == Spec => []Serial
<1>1. IInv => Serial
  <2> SUFFICES ASSUME IInv, detached = {} PROVE Serial
    BY DEF Serial
  <2>1. \A r, s \in Runner : Busy(r) /\ Busy(s) => r = s
    BY OneRuns DEF IInv, Runners
  <2>2. done \in Seq(1..posted) /\ DOMAIN done = 1..Len(done)
    BY DEF IInv, Handlers
  <2>3. \A r \in Runner : Busy(r) => \A h \in ToSet(done) : h < handling[r]
    BY <2>2 DEF IInv, Ordered, ToSet
  <2>4. \A i, j \in DOMAIN done : i < j => done[i] < done[j]
    BY <2>2 DEF IInv, Ordered
  <2> QED
    BY <2>1, <2>3, <2>4 DEF Serial
<1> QED
  BY <1>1, SpecIInv, PTL

\* A thread that outlives the task is one that a second Start has replaced.
THEOREM DestructorJoinsItsThread == Spec => []OnlyDetachedOutlive
<1>1. IInv => OnlyDetachedOutlive
  <2> SUFFICES ASSUME IInv, owner = "gone", ~StopFailed, NEW t \in Thread, Live(t)
               PROVE  t \in detached
    BY DEF OnlyDetachedOutlive
  <2>1. _thread = 0
    BY DEF IInv, Stops, StopFailed
  <2>2. t # 0
    BY BoundFacts
  <2> QED
    BY <2>1, <2>2 DEF IInv, Runners
<1> QED
  BY <1>1, SpecIInv, PTL

\* After its first Stop a task never runs a handler in a thread of its own again.
THEOREM OneLife == Spec => []FirstLifeServes
<1>1. IInv => FirstLifeServes
  BY DEF IInv, FirstLife, FirstLifeServes
<1> QED
  BY <1>1, SpecIInv, PTL

\* When run() returns to Stop no handler is queued or running.
LEMMA StopReturnsEmpty == ASSUME IInv, StopReturns PROVE EachOnce'
<1>1. owner = "drain" /\ _isStopping /\ ~_work /\ UNCHANGED <<done, posted>>
  <2>1. owner # "terminated" /\ at[Owner] = "run" /\ UNCHANGED <<done, posted>>
    BY DEF StopReturns, RunEnds, Running
  <2> QED
    BY <2>1 DEF IInv, Runners, Stops, Places
<1>2. _queue = << >> /\ \A r \in Runner : ~Busy(r)
  <2>1. _stopped \/ (_queue = << >> /\ \A r \in Runner : ~Busy(r))
    BY DEF StopReturns, RunEnds, Outstanding
  <2> QED
    BY <1>1, <2>1 DEF IInv, Drained
<1>3. ~StopFailed /\ owner # "terminated"
  BY <1>1 DEF StopFailed
<1>4. done \in Seq(1..posted) /\ Len(done) \in Nat /\ DOMAIN done = 1..Len(done) /\ posted \in Nat
  BY DEF IInv, Handlers, Numbers
<1>5. Len(done) = posted
  <2>1. BusyRunners = {}
    BY <1>2 DEF BusyRunners
  <2>2. Cardinality(BusyRunners) = 0 /\ Len(_queue) = 0
    BY <1>2, <2>1, FS_EmptySet
  <2>3. Len(done) + Len(_queue) + Cardinality(BusyRunners) = posted
    BY <1>3 DEF IInv, Counted
  <2>4. Len(done) \in Nat /\ posted \in Nat
    BY <1>4
  <2> QED
    BY <2>2, <2>3, <2>4
<1>6. ToSet(done) = 1..posted
  <2>1. \A h \in 1..posted : \E i \in 1..Len(done) : done[i] = h
    <3> SUFFICES ASSUME NEW h \in 1..posted PROVE \E i \in 1..Len(done) : done[i] = h
      OBVIOUS
    <3>1. Accounted(h) /\ h # 0
      BY <1>3, <1>4 DEF IInv, Counted
    <3>2. ~(\E r \in Runner : handling[r] = h) /\ ~(\E i \in 1..Len(_queue) : _queue[i] = h)
      BY <1>2, <3>1 DEF Busy
    <3> QED
      BY <3>1, <3>2 DEF Accounted
  <2> QED
    <3>1. \A i \in 1..Len(done) : done[i] \in 1..posted
      BY <1>4
    <3>2. ToSet(done) = {done[i] : i \in 1..Len(done)}
      BY <1>4 DEF ToSet
    <3> QED
      BY <2>1, <3>1, <3>2
<1> QED
  BY <1>1, <1>5, <1>6 DEF EachOnce

\* When a Stop has returned every handler posted so far has run, once, and nothing
\* is left in the io_service.
THEOREM StopRunsEverything == Spec => StopLeavesNothing
<1>1. IInv /\ [Next]_taskVars => [_isStopping /\ ~_isStopping' => EachOnce']_taskVars
  <2> SUFFICES ASSUME IInv, Next, _isStopping, ~_isStopping' PROVE EachOnce'
    OBVIOUS
  <2>1. StopReturns
    BY DEF Next, Post, Start, DestroyStopping, JoinAndRun, Stop, Enter, RunReturns, Leave, Take, Return,
        Escape, ownerVars
  <2> QED
    BY <2>1, StopReturnsEmpty
<1> QED
  BY <1>1, SpecIInv, PTL DEF Spec, StopLeavesNothing
================================================================================
