--------------------------- MODULE ImageSourceProofs ---------------------------
(***************************************************************************)
(* Proofs about the threads of ImageSource: the order in which stages are  *)
(* started and stopped is respected by every interleaving of the owner,    *)
(* the three threads and the camera, whatever the camera sends and however *)
(* often Start is called.                                                  *)
(***************************************************************************)
EXTENDS ImageSource, TLAPS

-----------------------------------------------------------------------------
(* The inductive invariant *)

Places ==
    /\ pc \in {"connect", "status", "headers", "test", "read", "push", "exit", "done"}
    /\ owner \in {"start", "idle", "stop", "join", "gone", "terminated"}
Counters == at \in 1..3 /\ readsAfterStop \in Nat
Threads == _thread \in [Stage -> {"none", "running", "ended", "joined"}]
Flags ==
    /\ _isRunning \in [Stage -> BOOLEAN] /\ _isStopping \in [Stage -> BOOLEAN]
    /\ locked \subseteq Stage

Begun(s) == _thread[s] \in {"running", "ended"}
AllBegun == \A s \in Stage : Begun(s)
Quiet == locked = {} /\ \A s \in Stage : ~_isStopping[s]

\* Only the source resets _isRunning, and only at the end of its Run.
RunningMeansBegun ==
    /\ \A s \in Stage : _isRunning[s] => _thread[s] # "none"
    /\ \A s \in {"demuxer", "presenter"} : _thread[s] # "none" => _isRunning[s]
    /\ _thread["source"] # "none" /\ pc # "done" => _isRunning["source"]
    /\ _thread["source"] \in {"ended", "joined"} => pc = "done"

\* The stages are begun from the last to the first ...
Starting ==
    /\ owner = "start" =>
        /\ \A s \in Stage : _thread[s] # "joined"
        /\ at > 1 => Begun("presenter")
        /\ at > 2 => Begun("demuxer")
        /\ Begun("source") => AllBegun
    /\ owner \in {"idle", "terminated"} => AllBegun
    /\ owner = "idle" => at = 1
    /\ owner \in {"start", "idle", "terminated"} => Quiet /\ readsAfterStop = 0
    /\ owner = "terminated" => pc = "done"

\* ... and joined from the first to the last, one mutex held at a time.
Ending ==
    /\ owner \in {"stop", "join"} =>
        \A i \in 1..3 : IF i < at THEN _thread[StopOrder[i]] = "joined" ELSE Begun(StopOrder[i])
    /\ owner = "stop" => Quiet
    /\ owner = "join" =>
        locked = {StopOrder[at]} /\ \A s \in Stage : _isStopping[s] <=> s = StopOrder[at]
    /\ owner = "gone" => Quiet /\ \A s \in Stage : _thread[s] = "joined"

\* A read behind Stop is the last one.
Reads ==
    /\ readsAfterStop <= 1
    /\ pc = "read" => readsAfterStop = 0
    /\ readsAfterStop > 0 => _isStopping["source"] \/ _thread["source"] = "joined"

IInv ==
    /\ Places /\ Counters /\ Threads /\ Flags
    /\ RunningMeansBegun /\ Starting /\ Ending /\ Reads

-----------------------------------------------------------------------------
(* The initial states and the steps *)

LEMMA InitIInv == Init => IInv
<1> SUFFICES ASSUME Init PROVE IInv
  OBVIOUS
<1>1. Places /\ Counters
  BY DEF Init, Places, Counters
<1>2. Threads
  BY DEF Init, Threads
<1>3. Flags
  BY DEF Init, Flags
<1>4. RunningMeansBegun
  BY DEF Init, RunningMeansBegun, Stage
<1>5. Starting /\ Ending /\ Reads
  BY DEF Init, Starting, Ending, Reads, Quiet, AllBegun, Begun, Stage
<1> QED
  BY <1>1, <1>2, <1>3, <1>4, <1>5 DEF IInv

\* A step of the camera, of the demuxer, or none.
LEMMA ElsewhereIInv ==
    ASSUME IInv, UNCHANGED <<pc, flow, control, readsAfterStop>>
    PROVE  IInv'
<1>0. UNCHANGED <<pc, _thread, _isRunning, _isStopping, locked, owner, at, readsAfterStop>>
  BY DEF flow, control
<1>1. Places'
  BY <1>0 DEF IInv, Places
<1>2. Counters'
  BY <1>0 DEF IInv, Counters
<1>3. Threads'
  BY <1>0 DEF IInv, Threads
<1>4. Flags'
  BY <1>0 DEF IInv, Flags
<1>5. RunningMeansBegun'
  BY <1>0 DEF IInv, RunningMeansBegun
<1>6. Starting'
  BY <1>0 DEF IInv, Starting, Begun, AllBegun, Quiet
<1>7. Ending'
  BY <1>0 DEF IInv, Ending, Begun, Quiet
<1>8. Reads'
  BY <1>0 DEF IInv, Reads
<1> QED
  BY <1>1, <1>2, <1>3, <1>4, <1>5, <1>6, <1>7, <1>8 DEF IInv

\* The source's thread goes on in its Run.
LEMMA GoesOnIInv ==
    ASSUME IInv, pc # "done", pc' \in {"status", "headers", "test", "read", "push", "exit"},
           pc' = "read" => readsAfterStop = 0, UNCHANGED <<flow, control, readsAfterStop>>
    PROVE  IInv'
<1>0. UNCHANGED <<_thread, _isRunning, _isStopping, locked, owner, at, readsAfterStop>>
  BY DEF flow, control
<1>1. Places'
  BY <1>0 DEF IInv, Places
<1>2. Counters'
  BY <1>0 DEF IInv, Counters
<1>3. Threads'
  BY <1>0 DEF IInv, Threads
<1>4. Flags'
  BY <1>0 DEF IInv, Flags
<1>5. RunningMeansBegun'
  BY <1>0 DEF IInv, RunningMeansBegun
<1>6. Starting'
  BY <1>0 DEF IInv, Starting, Begun, AllBegun, Quiet
<1>7. Ending'
  BY <1>0 DEF IInv, Ending, Begun, Quiet
<1>8. Reads'
  BY <1>0 DEF IInv, Reads
<1> QED
  BY <1>1, <1>2, <1>3, <1>4, <1>5, <1>6, <1>7, <1>8 DEF IInv

\* A read is counted when Stop has been called.
LEMMA ReadIInv ==
    ASSUME IInv, NEW n \in Int, Read(n)
    PROVE  IInv'
<1>0. /\ pc = "read" /\ pc' \in {"push", "test"} /\ UNCHANGED <<_thread, _isRunning, _isStopping, locked, owner, at>>
      /\ readsAfterStop' = (IF _isStopping["source"] THEN readsAfterStop + 1 ELSE readsAfterStop)
  BY DEF Read, At, flow, control
<1>a. owner \in {"start", "idle", "terminated"} => ~_isStopping["source"] /\ owner # "terminated"
  BY <1>0 DEF IInv, Starting, Quiet, Stage
<1>1. Places'
  BY <1>0 DEF IInv, Places
<1>2. Counters'
  BY <1>0 DEF IInv, Counters
<1>3. Threads'
  BY <1>0 DEF IInv, Threads
<1>4. Flags'
  BY <1>0 DEF IInv, Flags
<1>5. RunningMeansBegun'
  BY <1>0 DEF IInv, RunningMeansBegun
<1>6. Starting'
  BY <1>0, <1>a DEF IInv, Starting, Begun, AllBegun, Quiet
<1>7. Ending'
  BY <1>0 DEF IInv, Ending, Begun, Quiet
<1>8. Reads'
  BY <1>0 DEF IInv, Reads
<1> QED
  BY <1>1, <1>2, <1>3, <1>4, <1>5, <1>6, <1>7, <1>8 DEF IInv

\* Run is over, and resets its flag.
LEMMA ExitIInv ==
    ASSUME IInv, Exit
    PROVE  IInv'
<1>0. /\ pc = "exit" /\ pc' = "done" /\ UNCHANGED <<_thread, _isStopping, locked, owner, at, readsAfterStop>>
      /\ _isRunning' = [_isRunning EXCEPT !["source"] = FALSE] /\ _thread["source"] = "running"
  BY DEF Exit, At, control
<1>1. Places'
  BY <1>0 DEF IInv, Places
<1>2. Counters'
  BY <1>0 DEF IInv, Counters
<1>3. Threads'
  BY <1>0 DEF IInv, Threads
<1>4. Flags'
  BY <1>0 DEF IInv, Flags
<1>5. RunningMeansBegun'
  BY <1>0 DEF IInv, RunningMeansBegun
<1>6. Starting'
  BY <1>0 DEF IInv, Starting, Begun, AllBegun, Quiet
<1>7. Ending'
  BY <1>0 DEF IInv, Ending, Begun, Quiet
<1>8. Reads'
  BY <1>0 DEF IInv, Reads
<1> QED
  BY <1>1, <1>2, <1>3, <1>4, <1>5, <1>6, <1>7, <1>8 DEF IInv

\* A thread ends.
LEMMA ThreadEndsIInv ==
    ASSUME IInv, NEW s \in Stage, (ThreadEnds /\ s = "source") \/ (RunNothing(s) /\ s # "source")
    PROVE  IInv'
<1>0. /\ UNCHANGED <<pc, _isRunning, _isStopping, locked, owner, at, readsAfterStop>>
      /\ _thread' = [_thread EXCEPT ![s] = "ended"] /\ _thread[s] = "running" /\ owner # "terminated"
      /\ s = "source" => pc = "done"
  BY DEF ThreadEnds, RunNothing, At, Alive, control
<1>1. Places'
  BY <1>0 DEF IInv, Places
<1>2. Counters'
  BY <1>0 DEF IInv, Counters
<1>3. Threads'
  BY <1>0 DEF IInv, Threads
<1>4. Flags'
  BY <1>0 DEF IInv, Flags
<1>5. RunningMeansBegun'
  BY <1>0 DEF IInv, RunningMeansBegun
<1>6. Starting'
  BY <1>0 DEF IInv, Starting, Begun, AllBegun, Quiet
<1>7. Ending'
  BY <1>0 DEF IInv, Ending, Begun, Quiet
<1>8. Reads'
  BY <1>0 DEF IInv, Reads
<1> QED
  BY <1>1, <1>2, <1>3, <1>4, <1>5, <1>6, <1>7, <1>8 DEF IInv

\* Start of a stage whose flag is set: it has been begun.
LEMMA StartRunningIInv ==
    ASSUME IInv, StartRunning
    PROVE  IInv'
<1>0. /\ owner = "start" /\ _isRunning[StartOrder[at]] /\ at \in 1..3
      /\ UNCHANGED <<pc, _thread, _isRunning, _isStopping, locked, readsAfterStop>>
      /\ IF at < 3 THEN at' = at + 1 /\ owner' = owner ELSE at' = 1 /\ owner' = "idle"
  BY DEF IInv, Counters, StartRunning, NextStage, flow
<1>a. Begun(StartOrder[at])
  BY <1>0 DEF IInv, RunningMeansBegun, Starting, Threads, Begun, StartOrder, Stage
<1>1. Places'
  BY <1>0 DEF IInv, Places
<1>2. Counters'
  BY <1>0 DEF IInv, Counters
<1>3. Threads'
  BY <1>0 DEF IInv, Threads
<1>4. Flags'
  BY <1>0 DEF IInv, Flags
<1>5. RunningMeansBegun'
  BY <1>0 DEF IInv, RunningMeansBegun
<1>6. Starting'
  <2>1. CASE at = 1
    BY <1>0, <1>a, <2>1 DEF IInv, Starting, Begun, AllBegun, Quiet, StartOrder
  <2>2. CASE at = 2
    BY <1>0, <1>a, <2>2 DEF IInv, Starting, Begun, AllBegun, Quiet, StartOrder
  <2>3. CASE at = 3
    BY <1>0, <1>a, <2>3 DEF IInv, Starting, Begun, AllBegun, Quiet, StartOrder, Stage
  <2> QED
    BY <1>0, <2>1, <2>2, <2>3
<1>7. Ending'
  BY <1>0 DEF IInv, Ending, Begun, Quiet
<1>8. Reads'
  BY <1>0 DEF IInv, Reads
<1> QED
  BY <1>1, <1>2, <1>3, <1>4, <1>5, <1>6, <1>7, <1>8 DEF IInv

\* The first Start of a stage.
LEMMA StartThreadIInv ==
    ASSUME IInv, StartThread
    PROVE  IInv'
<1>0. /\ owner = "start" /\ _thread[StartOrder[at]] = "none" /\ at \in 1..3
      /\ UNCHANGED <<pc, _isStopping, locked, readsAfterStop>>
      /\ _isRunning' = [_isRunning EXCEPT ![StartOrder[at]] = TRUE]
      /\ _thread' = [_thread EXCEPT ![StartOrder[at]] = "running"]
      /\ IF at < 3 THEN at' = at + 1 /\ owner' = owner ELSE at' = 1 /\ owner' = "idle"
      /\ StartOrder[at] \in Stage
  BY DEF IInv, Counters, StartThread, NextStage, Running, StartOrder, Stage
<1>1. Places'
  BY <1>0 DEF IInv, Places
<1>2. Counters'
  BY <1>0 DEF IInv, Counters
<1>3. Threads'
  BY <1>0 DEF IInv, Threads
<1>4. Flags'
  BY <1>0 DEF IInv, Flags
<1>5. RunningMeansBegun'
  BY <1>0 DEF IInv, Threads, Flags, RunningMeansBegun, StartOrder, Stage
<1>6. Starting'
  <2>1. CASE at = 1
    BY <1>0, <2>1 DEF IInv, Threads, Starting, Begun, AllBegun, Quiet, StartOrder, Stage
  <2>2. CASE at = 2
    BY <1>0, <2>2 DEF IInv, Threads, Starting, Begun, AllBegun, Quiet, StartOrder, Stage
  <2>3. CASE at = 3
    BY <1>0, <2>3 DEF IInv, Threads, Starting, Begun, AllBegun, Quiet, StartOrder, Stage
  <2> QED
    BY <1>0, <2>1, <2>2, <2>3
<1>7. Ending'
  BY <1>0 DEF IInv, Ending, Begun, Quiet
<1>8. Reads'
  BY <1>0 DEF IInv, Reads
<1> QED
  BY <1>1, <1>2, <1>3, <1>4, <1>5, <1>6, <1>7, <1>8 DEF IInv

\* A Start that ends the process: only the source can have reset its flag.
LEMMA StartTerminatesIInv ==
    ASSUME IInv, StartTerminates
    PROVE  IInv'
<1>0. /\ owner = "start" /\ owner' = "terminated" /\ ~_isRunning[StartOrder[at]] /\ at \in 1..3
      /\ _thread[StartOrder[at]] # "none"
      /\ UNCHANGED <<pc, _thread, _isRunning, _isStopping, locked, at, readsAfterStop>>
  BY DEF IInv, Counters, StartTerminates, flow
<1>a. StartOrder[at] = "source" /\ pc = "done"
  BY <1>0 DEF IInv, RunningMeansBegun, StartOrder
<1>b. Begun("source")
  BY <1>0, <1>a DEF IInv, Starting, Threads, Begun, Stage
<1>1. Places'
  BY <1>0 DEF IInv, Places
<1>2. Counters'
  BY <1>0 DEF IInv, Counters
<1>3. Threads'
  BY <1>0 DEF IInv, Threads
<1>4. Flags'
  BY <1>0 DEF IInv, Flags
<1>5. RunningMeansBegun'
  BY <1>0 DEF IInv, RunningMeansBegun
<1>6. Starting'
  BY <1>0, <1>a, <1>b DEF IInv, Starting, Begun, AllBegun, Quiet
<1>7. Ending'
  BY <1>0 DEF IInv, Ending, Begun, Quiet
<1>8. Reads'
  BY <1>0 DEF IInv, Reads
<1> QED
  BY <1>1, <1>2, <1>3, <1>4, <1>5, <1>6, <1>7, <1>8 DEF IInv

\* The owner starts again, or begins to destroy.
LEMMA DecideIInv ==
    ASSUME IInv, StartAgain \/ Destroy
    PROVE  IInv'
<1>0. /\ owner = "idle" /\ owner' \in {"start", "stop"}
      /\ UNCHANGED <<pc, _thread, _isRunning, _isStopping, locked, at, readsAfterStop>>
  BY DEF StartAgain, Destroy, flow
<1>a. AllBegun /\ Quiet /\ readsAfterStop = 0 /\ at = 1
  BY <1>0 DEF IInv, Starting
<1>1. Places'
  BY <1>0 DEF IInv, Places
<1>2. Counters'
  BY <1>0 DEF IInv, Counters
<1>3. Threads'
  BY <1>0 DEF IInv, Threads
<1>4. Flags'
  BY <1>0 DEF IInv, Flags
<1>5. RunningMeansBegun'
  BY <1>0 DEF IInv, RunningMeansBegun
<1>6. Starting'
  BY <1>0, <1>a DEF IInv, Starting, Begun, AllBegun, Quiet
<1>7. Ending'
  BY <1>0, <1>a DEF IInv, Ending, Begun, AllBegun, Quiet, StopOrder, Stage
<1>8. Reads'
  BY <1>0 DEF IInv, Reads
<1> QED
  BY <1>1, <1>2, <1>3, <1>4, <1>5, <1>6, <1>7, <1>8 DEF IInv

\* The first half of StreamFlow::Stop.
LEMMA StopIInv ==
    ASSUME IInv, Stop
    PROVE  IInv'
<1>0. /\ owner = "stop" /\ owner' = "join" /\ at \in 1..3
      /\ locked' = locked \cup {StopOrder[at]}
      /\ _isStopping' = [_isStopping EXCEPT ![StopOrder[at]] = TRUE]
      /\ UNCHANGED <<pc, _thread, _isRunning, at, readsAfterStop>>
      /\ StopOrder[at] \in Stage
  BY DEF IInv, Counters, Stop, StopOrder, Stage
<1>1. Places'
  BY <1>0 DEF IInv, Places
<1>2. Counters'
  BY <1>0 DEF IInv, Counters
<1>3. Threads'
  BY <1>0 DEF IInv, Threads
<1>4. Flags'
  BY <1>0 DEF IInv, Flags
<1>5. RunningMeansBegun'
  BY <1>0 DEF IInv, RunningMeansBegun
<1>6. Starting'
  BY <1>0 DEF IInv, Starting, Begun, AllBegun, Quiet
<1>7. Ending'
  <2>1. locked' = {StopOrder[at]}
    BY <1>0 DEF IInv, Ending, Quiet
  <2>2. \A s \in Stage : _isStopping'[s] <=> s = StopOrder[at]
    BY <1>0 DEF IInv, Ending, Quiet, Flags
  <2>3. \A i \in 1..3 : IF i < at THEN _thread[StopOrder[i]] = "joined" ELSE Begun(StopOrder[i])
    BY <1>0 DEF IInv, Ending
  <2> QED
    BY <1>0, <2>1, <2>2, <2>3 DEF Ending, Begun
<1>8. Reads'
  <2>1. readsAfterStop > 0 => (_isStopping["source"] => _isStopping'["source"])
    BY <1>0 DEF IInv, Flags, Stage
  <2> QED
    BY <1>0, <2>1 DEF IInv, Reads
<1> QED
  BY <1>1, <1>2, <1>3, <1>4, <1>5, <1>6, <1>7, <1>8 DEF IInv

\* The second half: the thread is joined, and the mutex released.
LEMMA JoinIInv ==
    ASSUME IInv, Join
    PROVE  IInv'
<1>0. /\ owner = "join" /\ _thread[StopOrder[at]] = "ended" /\ at \in 1..3
      /\ locked' = locked \ {StopOrder[at]}
      /\ _isStopping' = [_isStopping EXCEPT ![StopOrder[at]] = FALSE]
      /\ _thread' = [_thread EXCEPT ![StopOrder[at]] = "joined"]
      /\ UNCHANGED <<pc, _isRunning, readsAfterStop>>
      /\ IF at < 3 THEN at' = at + 1 /\ owner' = "stop" ELSE at' = 1 /\ owner' = "gone"
      /\ StopOrder[at] \in Stage
  BY DEF IInv, Counters, Threads, Join, CanJoin, StopOrder, Stage
<1>1. Places'
  BY <1>0 DEF IInv, Places
<1>2. Counters'
  BY <1>0 DEF IInv, Counters
<1>3. Threads'
  BY <1>0 DEF IInv, Threads
<1>4. Flags'
  BY <1>0 DEF IInv, Flags
<1>5. RunningMeansBegun'
  BY <1>0 DEF IInv, RunningMeansBegun
<1>6. Starting'
  BY <1>0 DEF IInv, Starting, Begun, AllBegun, Quiet
<1>7. Ending'
  <2>1. Quiet'
    BY <1>0 DEF IInv, Ending, Quiet, Flags
  <2>2. CASE at < 3
    <3>1. \A i \in 1..3 : IF i < at' THEN _thread'[StopOrder[i]] = "joined" ELSE Begun(StopOrder[i])'
      <4>1. CASE at = 1
        BY <1>0, <4>1 DEF IInv, Ending, Begun, Threads, StopOrder, Stage
      <4>2. CASE at = 2
        BY <1>0, <4>2 DEF IInv, Ending, Begun, Threads, StopOrder, Stage
      <4> QED
        BY <1>0, <2>2, <4>1, <4>2
    <3> QED
      BY <1>0, <2>1, <2>2, <3>1 DEF Ending
  <2>3. CASE at = 3
    <3>1. \A s \in Stage : _thread'[s] = "joined"
      BY <1>0, <2>3 DEF IInv, Ending, Threads, StopOrder, Stage
    <3> QED
      BY <1>0, <2>1, <2>3, <3>1 DEF Ending
  <2> QED
    BY <1>0, <2>2, <2>3
<1>8. Reads'
  <2>1. readsAfterStop > 0 => _thread'["source"] = "joined"
    <3>1. CASE at = 1
      BY <1>0, <3>1 DEF IInv, Threads, StopOrder, Stage
    <3>2. CASE at > 1
      BY <1>0, <3>2 DEF IInv, Ending, Threads, StopOrder, Stage
    <3> QED
      BY <1>0, <3>1, <3>2
  <2> QED
    BY <1>0, <2>1 DEF IInv, Reads
<1> QED
  BY <1>1, <1>2, <1>3, <1>4, <1>5, <1>6, <1>7, <1>8 DEF IInv

-----------------------------------------------------------------------------
(* Every step, and what follows *)

\* The steps that touch no thread, flag or mutex.
LEMMA SmallStepsIInv ==
    ASSUME IInv, \/ Camera \/ UNCHANGED vars
                 \/ Connect \/ Throw \/ Status \/ Test \/ ReadEnds \/ PushReturns
                 \/ \E n \in 0..sent : Headers(n)
    PROVE  IInv'
<1>1. CASE Camera \/ UNCHANGED vars
  <2>1. UNCHANGED <<pc, flow, control, readsAfterStop>>
    BY <1>1 DEF Camera, Answer, Send, Close, CameraStep, vars
  <2> QED
    BY <2>1, ElsewhereIInv
<1>2. CASE Test
  <2>1. /\ pc = "test" /\ pc' = (IF _isStopping["source"] THEN "exit" ELSE "read")
        /\ _thread["source"] = "running" /\ UNCHANGED <<flow, control, readsAfterStop>>
    BY <1>2 DEF Test, At, Goto, Stopping
  <2>2. pc' = "read" => readsAfterStop = 0
    BY <2>1 DEF IInv, Reads, Counters
  <2> QED
    BY <2>1, <2>2, GoesOnIInv
<1>3. CASE Connect \/ Throw \/ Status \/ ReadEnds \/ PushReturns \/ \E n \in 0..sent : Headers(n)
  <2>1. /\ pc # "done" /\ pc' \in {"status", "headers", "test", "exit"}
        /\ UNCHANGED <<flow, control, readsAfterStop>>
    BY <1>3 DEF Connect, Throw, Status, ReadEnds, PushReturns, Headers, At, Goto
  <2> QED
    BY <2>1, GoesOnIInv
<1> QED
  BY <1>1, <1>2, <1>3

LEMMA DemuxIInv == ASSUME IInv, Demux PROVE IInv'
<1>1. CASE PushReturns
  BY <1>1, SmallStepsIInv
<1>2. CASE ~PushReturns
  <2>1. UNCHANGED <<pc, flow, control, readsAfterStop>>
    BY <1>2 DEF Demux, FillPartial, FillFull, FillStuck, FillTorn, FillSkips, FillRefused, FillSkipsAgain
  <2> QED
    BY <2>1, ElsewhereIInv
<1> QED
  BY <1>1, <1>2

LEMMA NextIInv == IInv /\ [Next]_vars => IInv'
<1> SUFFICES ASSUME IInv, [Next]_vars PROVE IInv'
  OBVIOUS
<1>1. CASE Owner
  BY <1>1, StartRunningIInv, StartThreadIInv, StartTerminatesIInv, DecideIInv, StopIInv, JoinIInv DEF Owner
<1>2. CASE Source
  <2>1. CASE \E n \in 1..(sent - read) : Read(n)
    BY <2>1, ReadIInv
  <2>2. CASE ThreadEnds
    BY <2>2, ThreadEndsIInv DEF Stage
  <2> QED
    BY <1>2, <2>1, <2>2, SmallStepsIInv, ExitIInv, DemuxIInv DEF Source
<1>3. CASE RunNothing("demuxer") \/ RunNothing("presenter")
  <2>1. "demuxer" \in Stage /\ "presenter" \in Stage
    BY DEF Stage
  <2> QED
    BY <1>3, <2>1, ThreadEndsIInv
<1>4. CASE Camera \/ UNCHANGED vars
  BY <1>4, SmallStepsIInv
<1> QED
  BY <1>1, <1>2, <1>3, <1>4 DEF Next

LEMMA SpecIInv == Spec => []IInv
<1> QED
  BY InitIInv, NextIInv, PTL DEF Spec

\* The source's thread pushes only into stages that have been started and not been
\* stopped, whose mutexes are free.
THEOREM PushesIntoLiveStages == Spec => []DownstreamReady
<1>1. IInv => DownstreamReady
  <2> SUFFICES ASSUME IInv, _thread["source"] = "running", NEW s \in {"demuxer", "presenter"}
               PROVE  _thread[s] \in {"running", "ended"} /\ s \notin locked
    BY DEF DownstreamReady
  <2>1. CASE owner \in {"start", "idle", "terminated"}
    BY <2>1 DEF IInv, Starting, Begun, AllBegun, Quiet, Stage
  <2>2. CASE owner \in {"stop", "join"}
    <3>1. at \in 1..3 /\ \A i \in 1..3 : IF i < at THEN _thread[StopOrder[i]] = "joined" ELSE Begun(StopOrder[i])
      BY <2>2 DEF IInv, Ending, Counters
    <3>2. at = 1
      BY <3>1 DEF StopOrder
    <3>3. Begun("demuxer") /\ Begun("presenter") /\ StopOrder[at] = "source"
      BY <3>1, <3>2 DEF StopOrder
    <3> QED
      BY <2>2, <3>3 DEF IInv, Ending, Begun, Quiet
  <2>3. CASE owner = "gone"
    BY <2>3 DEF IInv, Ending, Stage
  <2> QED
    BY <2>1, <2>2, <2>3 DEF IInv, Places
<1> QED
  BY <1>1, SpecIInv, PTL

\* The destructor leaves no thread behind: it has joined each of them.
THEOREM DestructorJoinsAll == Spec => []NoThreadOutlives
<1>1. IInv => NoThreadOutlives
  BY DEF IInv, Ending, NoThreadOutlives
<1> QED
  BY <1>1, SpecIInv, PTL

\* A Stop is noticed after at most one more read.
THEOREM StopIsNoticed == Spec => []OneReadAfterStop
<1>1. IInv => OneReadAfterStop
  BY DEF IInv, Reads, OneReadAfterStop
<1> QED
  BY <1>1, SpecIInv, PTL

\* A second Start ends the process only when the source's Run is over.
THEOREM StartIgnoredWhileRunning == Spec => []TerminatesOnlyEnded
<1>1. IInv => TerminatesOnlyEnded
  BY DEF IInv, Starting, TerminatesOnlyEnded
<1> QED
  BY <1>1, SpecIInv, PTL
================================================================================
