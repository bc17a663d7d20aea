------------------------ MODULE SyncQueueTasksProofs ------------------------
(* SyncQueue implements TaskQueue, for all values of the constants.             *)
EXTENDS SyncQueueTasks, SyncQueueProofs

LEMMA JobKinds ==
  /\ Tasks!Jobs = Jobs
  /\ Jobs \subseteq Runs
  /\ \A n \in Runs : Kind(n) \in {"first", "retry"} <=> n \in Jobs
  BY DEF Tasks!Jobs, FirstRuns, RetryRuns, Jobs

(* TaskQueue's assumption holds for what it is instantiated with, so that with   *)
(* RefinesTaskQueue its theorems are true of the sync queue.                     *)
LEMMA TaskConstants ==
  /\ IsFiniteSet(Txid)
  /\ FirstRuns \cap RetryRuns = {}
  /\ Concurrency \in Nat \ {0}
  /\ NumOfAttempts \in Nat \ {0}
  BY TxidAssumption, QueueAssumption DEF FirstRuns, RetryRuns

(* A step that leaves the state of every invocation alone.                      *)
LEMMA JobsUnchanged ==
  ASSUME \A t \in Txid, n \in Jobs : JobState(run'[t][n]) = JobState(run[t][n])
  PROVE  jobs' = jobs
  BY DEF jobs, JobState

(* A step that moves one invocation.                                            *)
LEMMA JobMoves ==
  ASSUME NEW t \in Txid, NEW n \in Jobs, NEW s, JobState(run'[t][n]) = s,
         \A u \in Txid, m \in Jobs :
           <<u, m>> = <<t, n>> \/ JobState(run'[u][m]) = JobState(run[u][m])
  PROVE  jobs' = [jobs EXCEPT ![t][n] = s]
<1>1. jobs' = [u \in Txid |-> [m \in Jobs |-> JobState(run'[u][m])]]
  BY DEF jobs, JobState
<1>2. \A u \in Txid, m \in Jobs :
        jobs'[u][m] = IF u = t /\ m = n THEN s ELSE jobs[u][m]
  BY <1>1 DEF jobs, JobState
<1>3. [jobs EXCEPT ![t][n] = s] =
        [u \in Txid |-> [m \in Jobs |-> IF u = t /\ m = n THEN s ELSE jobs[u][m]]]
  BY DEF jobs
<1>4. QED
  BY <1>1, <1>2, <1>3

LEMMA JobValue ==
  ASSUME NEW t \in Txid, NEW n \in Jobs
  PROVE  /\ jobs[t][n] = JobState(run[t][n])
         /\ run[t][n].pc \notin Awaiting => jobs[t][n] = run[t][n].pc
         /\ run[t][n].pc \in Awaiting => jobs[t][n] = "active"
  BY DEF jobs, JobState

LEMMA SameCardinality == \A S : Tasks!Cardinality(S) = Cardinality(S)
  BY DEF Cardinality, Tasks!Cardinality

LEMMA NewState ==
  /\ JobState(New("queued")) = "queued"
  /\ JobState(Free) = "free"
  BY DEF JobState, New, Free, Awaiting

LEMMA RefinesInit == Init => Tasks!Init
<1> SUFFICES ASSUME Init PROVE Tasks!Init
  OBVIOUS
<1>1. \A t \in Txid, n \in Jobs : JobState(run[t][n]) = "free"
  BY JobKinds, NewState DEF Init
<1>2. jobs = [t \in Txid |-> [n \in Jobs |-> "free"]]
  BY <1>1 DEF jobs
<1>3. QED
  BY <1>2, JobKinds DEF Init, Tasks!Init

(* enq, the step all callers of the queue make.                                 *)
LEMMA RefinesEnq ==
  ASSUME TypeOK, NEW S \in SUBSET Txid, EnqAll(S)
  PROVE  Tasks!Enq(S)
<1> DEFINE new == {t \in S : loop[t] = "none"}
           entries(order, slot) ==
             [i \in 1 .. Tasks!Cardinality(new) |-> <<order[i], slot[order[i]]>>]
<1>1. PICK order \in Orders(new), slot \in [new -> Jobs] :
        /\ \A t \in new : slot[t] \in FreeRun(t, "first")
        /\ loop' = [t \in Txid |-> IF t \in new THEN "delay" ELSE loop[t]]
        /\ attempts' = [t \in Txid |-> IF t \in new THEN 0 ELSE attempts[t]]
        /\ run' = [t \in Txid |-> IF t \in new
                     THEN [run[t] EXCEPT ![slot[t]] = New("queued")] ELSE run[t]]
        /\ cqueue' = cqueue \o entries(order, slot)
  BY SameCardinality DEF EnqAll, IsNewTask
<1>2. \A t \in new : slot[t] \in FirstRuns /\ run[t][slot[t]].pc = "free"
  BY <1>1 DEF FreeRun, FirstRuns, At
<1>3. slot \in [new -> FirstRuns] /\ order \in Tasks!Orders(new)
  <2> HIDE DEF new
  <2>1. slot \in [new -> FirstRuns]
    BY <1>2
  <2>2. order \in Tasks!Orders(new)
    BY SameCardinality DEF Orders, Tasks!Orders
  <2>3. QED
    BY <2>1, <2>2
<1>4. \A t \in new : jobs[t][slot[t]] = "free"
  BY <1>2, JobValue DEF Awaiting
<1>5. \A t \in Txid, n \in Jobs :
        JobState(run'[t][n]) = IF t \in new /\ n = slot[t] THEN "queued" ELSE JobState(run[t][n])
  BY <1>1, JobKinds, NewState DEF TypeOK
<1>6. jobs' = [t \in Txid |-> IF t \in new THEN [jobs[t] EXCEPT ![slot[t]] = "queued"]
                                           ELSE jobs[t]]
  <2>1. jobs' = [t \in Txid |-> [n \in Jobs |-> JobState(run'[t][n])]]
    BY DEF jobs, JobState
  <2>2. \A t \in Txid : (IF t \in new THEN [jobs[t] EXCEPT ![slot[t]] = "queued"] ELSE jobs[t])
                         = [n \in Jobs |-> JobState(run'[t][n])]
    <3> SUFFICES ASSUME NEW t \in Txid
                 PROVE  (IF t \in new THEN [jobs[t] EXCEPT ![slot[t]] = "queued"] ELSE jobs[t])
                         = [n \in Jobs |-> JobState(run'[t][n])]
      OBVIOUS
    <3>1. jobs[t] = [n \in Jobs |-> JobState(run[t][n])]
      BY DEF jobs
    <3>2. \A n \in Jobs : JobState(run'[t][n]) =
            IF t \in new /\ n = slot[t] THEN "queued" ELSE JobState(run[t][n])
      BY <1>5
    <3> HIDE DEF new
    <3>3. QED
      BY <3>1, <3>2
  <2>3. QED
    BY <2>1, <2>2
<1>7. \E o \in Tasks!Orders(new), sl \in [new -> FirstRuns] :
        /\ \A t \in new : jobs[t][sl[t]] = "free"
        /\ loop' = [t \in Txid |-> IF t \in new THEN "delay" ELSE loop[t]]
        /\ attempts' = [t \in Txid |-> IF t \in new THEN 0 ELSE attempts[t]]
        /\ jobs' = [t \in Txid |-> IF t \in new THEN [jobs[t] EXCEPT ![sl[t]] = "queued"]
                                              ELSE jobs[t]]
        /\ cqueue' = cqueue \o entries(o, sl)
  <2> HIDE DEF new, entries
  <2>1. QED
    BY <1>1, <1>3, <1>4, <1>6
<1>8. QED
  BY <1>7, Zenon DEF Tasks!Enq, Tasks!IsNewTask

(* One awaited statement of a run: the invocation goes on or settles.            *)
LEMMA RefinesRunStep ==
  ASSUME TypeOK, NEW t \in Txid, NEW n \in Runs, RunStep(t, n) \/ Throws(t, n)
  PROVE  UNCHANGED Tasks!vars \/ (n \in Jobs /\ Tasks!Settles(t, n))
<1>1. RunEffect(t, n) /\ loop' = loop /\ cqueue' = cqueue
  BY RunStepEffect
<1>2. attempts' = attempts
  BY DEF RunStep, Throws, GetTxsync, GetTx, StatusTx, SaveTxStatus, MarkTx, MarkTxsync,
         GetRawtx, PushTx, SaveTxSend
<1>3. \A u \in Txid, m \in Jobs : <<u, m>> = <<t, n>> \/ run'[u][m] = run[u][m]
  BY <1>1, JobKinds DEF RunEffect
<1>4. CASE n \notin Jobs \/ run'[t][n] = run[t][n]
           \/ (run[t][n].pc \in Awaiting /\ run'[t][n].pc \in Awaiting)
  <2>1. \A u \in Txid, m \in Jobs : JobState(run'[u][m]) = JobState(run[u][m])
    BY <1>3, <1>4 DEF JobState
  <2>2. QED
    BY <1>1, <1>2, <2>1, JobsUnchanged DEF Tasks!vars
<1>5. CASE n \in Jobs /\ run[t][n].pc \in Awaiting /\ run'[t][n].pc \in Settled(n) \ Awaiting
  <2> DEFINE s == run'[t][n].pc
  <2>1. JobState(run'[t][n]) = s
    BY <1>5 DEF JobState
  <2>2. jobs' = [jobs EXCEPT ![t][n] = s]
    BY <1>3, <1>5, <2>1, JobMoves
  <2>3. jobs[t][n] = "active"
    BY <1>5, JobValue
  <2>4. \/ n \in FirstRuns /\ s = "free"
        \/ n \in RetryRuns /\ s \in {"resolved", "rejected"}
    BY <1>5 DEF Settled, Returned, FirstRuns, RetryRuns, Jobs
  <2> HIDE DEF s
  <2>5. QED
    BY <1>1, <1>2, <1>5, <2>2, <2>3, <2>4 DEF Tasks!Settles
<1>6. QED
  BY <1>1, <1>4, <1>5, JobKinds DEF RunEffect

LEMMA RefinesStep == TypeOK /\ [Next]_vars => [Tasks!Next]_(Tasks!vars)
<1> SUFFICES ASSUME TypeOK, [Next]_vars PROVE Tasks!Next \/ UNCHANGED Tasks!vars
  OBVIOUS
<1>1. ASSUME NEW t \in Txid, NEW n \in Runs, RunStep(t, n) \/ Throws(t, n)
      PROVE  Tasks!Next \/ UNCHANGED Tasks!vars
  BY <1>1, RefinesRunStep, JobKinds DEF Tasks!Next
<1>2. ASSUME NEW S \in SUBSET Txid, EnqAll(S) PROVE Tasks!Next
  BY <1>2, RefinesEnq DEF Tasks!Next
<1>3. CASE PollEnqs
  BY <1>2, <1>3 DEF PollEnqs, TypeOK
<1>4. ASSUME NEW t \in Txid, SaveEnq(t) \/ ResyncTx(t) PROVE Tasks!Next
  <2>1. {t} \in SUBSET Txid /\ EnqAll({t})
    BY <1>4 DEF SaveEnq, ResyncTx
  <2>2. QED
    BY <1>2, <2>1
<1>5. CASE Crash
  <2>1. \A t \in Txid, n \in Jobs : JobState(run'[t][n]) = "free"
    BY <1>5, JobKinds, NewState DEF Crash
  <2>2. jobs' = [t \in Txid |-> [n \in Jobs |-> "free"]]
    <3>1. jobs' = [t \in Txid |-> [n \in Jobs |-> JobState(run'[t][n])]]
      BY DEF jobs, JobState
    <3>2. QED
      BY <2>1, <3>1
  <2>3. QED
    BY <1>5, <2>2, JobKinds DEF Crash, Tasks!Next, Tasks!Crash
<1>6. ASSUME NEW t \in Txid, BackoffFires(t) PROVE Tasks!Next
  <2>1. PICK n \in FreeRun(t, "retry") : /\ run' = [run EXCEPT ![t][n] = New("queued")]
                                         /\ cqueue' = Append(cqueue, <<t, n>>)
    BY <1>6 DEF BackoffFires
  <2>2. n \in RetryRuns /\ n \in Jobs /\ run[t][n].pc = "free"
    BY DEF FreeRun, RetryRuns, Jobs, At
  <2>3. jobs[t][n] = "free"
    BY <2>2, JobValue DEF Awaiting
  <2>4. \A u \in Txid, m \in Jobs :
          run'[u][m] = IF u = t /\ m = n THEN New("queued") ELSE run[u][m]
    BY <2>1, JobKinds DEF TypeOK
  <2>5. jobs' = [jobs EXCEPT ![t][n] = "queued"]
    <3>1. /\ JobState(run'[t][n]) = "queued"
          /\ \A u \in Txid, m \in Jobs :
               <<u, m>> = <<t, n>> \/ JobState(run'[u][m]) = JobState(run[u][m])
      BY <2>2, <2>4, NewState
    <3>2. QED
      BY <2>2, <3>1, JobMoves
  <2>6. Tasks!BackoffFires(t)
    BY <1>6, <2>1, <2>2, <2>3, <2>5 DEF BackoffFires, Tasks!BackoffFires
  <2>7. QED
    BY <2>6 DEF Tasks!Next
<1>7. ASSUME NEW t \in Txid, RetryReturns(t) PROVE Tasks!Next
  <2>1. PICK n \in Runs :
          /\ Kind(n) = "retry" /\ run[t][n].pc \in Returned
          /\ LET ok      == run[t][n].pc = "resolved"
                 expired == ~ok /\ attempts[t] + 1 = NumOfAttempts IN
             /\ loop' = [loop EXCEPT ![t] = IF ok \/ expired THEN "none" ELSE "delay"]
             /\ attempts' = [attempts EXCEPT ![t] = IF ok \/ expired THEN 0 ELSE @ + 1]
          /\ run' = [run EXCEPT ![t][n] = Free]
          /\ cqueue' = cqueue
    BY <1>7 DEF RetryReturns, LastAttempt, At
  <2>2. n \in RetryRuns /\ n \in Jobs
    BY <2>1 DEF RetryRuns, Jobs
  <2>3. jobs[t][n] = run[t][n].pc
    BY <2>1, <2>2, JobValue DEF Awaiting, Returned
  <2>4. \A u \in Txid, m \in Jobs :
          run'[u][m] = IF u = t /\ m = n THEN Free ELSE run[u][m]
    BY <2>1, JobKinds DEF TypeOK
  <2>5. jobs' = [jobs EXCEPT ![t][n] = "free"]
    <3>1. /\ JobState(run'[t][n]) = "free"
          /\ \A u \in Txid, m \in Jobs :
               <<u, m>> = <<t, n>> \/ JobState(run'[u][m]) = JobState(run[u][m])
      BY <2>2, <2>4, NewState
    <3>2. QED
      BY <2>2, <3>1, JobMoves
  <2>6. Tasks!RetryReturns(t)
    <3>1. /\ jobs[t][n] \in {"resolved", "rejected"}
          /\ loop' = [loop EXCEPT ![t] =
                IF jobs[t][n] = "resolved" \/ attempts[t] + 1 = NumOfAttempts
                  THEN "none" ELSE "delay"]
          /\ attempts' = [attempts EXCEPT ![t] =
                IF jobs[t][n] = "resolved" \/ attempts[t] + 1 = NumOfAttempts
                  THEN 0 ELSE @ + 1]
      BY <2>1, <2>3 DEF Returned
    <3>2. QED
      BY <2>1, <2>2, <2>5, <3>1 DEF Tasks!RetryReturns, Tasks!LastAttempt
  <2>7. QED
    BY <2>6 DEF Tasks!Next
<1>8. CASE StartJob
  <2>0. cqueue # <<>> /\ cqueue \in Seq(Txid \X Jobs)
    BY <1>8 DEF StartJob, TypeOK
  <2>1. PICK t \in Txid, n \in Jobs : Head(cqueue)[1] = t /\ Head(cqueue)[2] = n
    <3>1. Head(cqueue) \in Txid \X Jobs
      BY <2>0, HeadTailProperties
    <3>2. QED
      BY <3>1
  <2>2. [run[t][n] EXCEPT !.pc = "getTxsync"].pc = "getTxsync"
    BY JobKinds DEF TypeOK, Run
  <2>3. /\ run'[t][n] = [run[t][n] EXCEPT !.pc = "getTxsync"]
        /\ \A u \in Txid, m \in Jobs : <<u, m>> = <<t, n>> \/ run'[u][m] = run[u][m]
    <3>1. run' = [run EXCEPT ![t] = [run[t] EXCEPT ![n] = [run[t][n] EXCEPT !.pc = "getTxsync"]]]
      BY <1>8, <2>1 DEF StartJob
    <3>2. QED
      BY <3>1, JobKinds DEF TypeOK
  <2>4. JobState(run'[t][n]) = "active"
    BY <2>2, <2>3 DEF JobState, Awaiting
  <2>5. jobs' = [jobs EXCEPT ![t][n] = "active"]
    <3>1. \A u \in Txid, m \in Jobs :
            <<u, m>> = <<t, n>> \/ JobState(run'[u][m]) = JobState(run[u][m])
      BY <2>3
    <3>2. QED
      BY <2>1, <2>4, <3>1, JobMoves
  <2>6. Tasks!Active = Active
    <3>1. \A u \in Txid, m \in Jobs :
            jobs[u][m] = "active" <=> run[u][m].pc \in Awaiting
      <4> SUFFICES ASSUME NEW u \in Txid, NEW m \in Jobs
                   PROVE  jobs[u][m] = "active" <=> run[u][m].pc \in Awaiting
        OBVIOUS
      <4>1. run[u][m] \in Run
        BY JobKinds DEF TypeOK
      <4>2. run[u][m].pc # "active"
        BY <4>1 DEF Run, Awaiting, Returned
      <4>3. QED
        BY <4>2, JobValue
    <3>2. QED
      BY <3>1, JobKinds DEF Tasks!Active, Active
  <2>7. Tasks!Cardinality(Tasks!Active) < Concurrency
    BY <1>8, <2>6, SameCardinality DEF StartJob
  <2>8. Tasks!StartJob
    BY <1>8, <2>1, <2>5, <2>7 DEF StartJob, Tasks!StartJob
  <2>9. QED
    BY <2>8 DEF Tasks!Next
<1>9. ASSUME NEW t \in Txid,
             \/ DlqLands(t) \/ (\E post \in Posts : SaveTx(t, post)) \/ InsertTxsync(t)
             \/ ClearCompleted(t) \/ SetPending(t) \/ NetworkMoves(t)
      PROVE  UNCHANGED mem
  BY <1>9 DEF DlqLands, SaveTx, InsertTxsync, ClearCompleted, SetPending, NetworkMoves
<1>10. PollReads \/ Restart \/ UNCHANGED vars => UNCHANGED mem
  BY DEF PollReads, Restart, vars, mem
<1>11. ASSUME UNCHANGED mem PROVE UNCHANGED Tasks!vars
  BY <1>11, JobsUnchanged DEF mem, Tasks!vars
<1>12. ASSUME NEW t \in Txid, ManualSync(t) PROVE UNCHANGED Tasks!vars
  <2>1. PICK n \in FreeRun(t, "manual") : run' = [run EXCEPT ![t][n] = New("getTxsync")]
    BY <1>12 DEF ManualSync
  <2>2. \A u \in Txid, m \in Jobs : run'[u][m] = run[u][m]
    BY <2>1, JobKinds DEF FreeRun, TypeOK
  <2>3. QED
    BY <1>12, <2>2, JobsUnchanged DEF ManualSync, Tasks!vars
<1>13. QED
  BY <1>1, <1>3, <1>4, <1>5, <1>6, <1>7, <1>8, <1>9, <1>10, <1>11, <1>12 DEF Next

(* SyncQueue implements TaskQueue: whatever the runs, saves, resyncs, refreshes *)
(* and crashes do to each other, the queue sees opaque invocations.             *)
THEOREM RefinesTaskQueue == Spec => ImplementsTaskQueue
<1>1. Init => Tasks!Init
  BY RefinesInit
<1>2. TypeOK /\ [Next]_vars => [Tasks!Next]_(Tasks!vars)
  BY RefinesStep
<1>3. QED
  BY <1>1, <1>2, TypeCorrect, PTL DEF Spec, ImplementsTaskQueue, Tasks!Spec
=============================================================================
