--------------------------- MODULE SyncQueueProofs ---------------------------
(* Safety of the sync queue for every number of transactions, executions,       *)
(* attempts, requests and crashes.                                              *)
EXTENDS SyncQueue, FiniteSetTheorems, SequenceTheorems, TLAPS

USE DEF Kind, Jobs

(* The records of the two tables, and of the executions, keep their type.       *)
LEMMA NewType == \A pc \in Awaiting \cup Returned \cup {"free", "queued"} : New(pc) \in Run
  BY DEF New, Run

LEMMA EndedType ==
  ASSUME TypeOK, NEW t \in Txid, NEW n \in Runs, NEW outcome \in Returned
  PROVE  Ended(t, n, outcome) \in Run
  BY NewType DEF Ended, Free, Returned

LEMMA BecomesType ==
  ASSUME TypeOK, NEW t \in Txid, NEW n \in Runs, NEW r \in Run, Becomes(t, n, r)
  PROVE  run' \in [Txid -> [Runs -> Run]]
  BY DEF TypeOK, Becomes

(* A request or a crash uses up one unit of its bound. *)
Used == [saves : 0 .. MaxSaves, resyncs : 0 .. MaxResyncs,
         manuals : 0 .. MaxManuals, crashes : 0 .. MaxCrashes]

LEMMA UsedType ==
  ASSUME used \in Used
  PROVE  /\ used.saves < MaxSaves => [used EXCEPT !.saves = @ + 1] \in Used
         /\ used.resyncs < MaxResyncs => [used EXCEPT !.resyncs = @ + 1] \in Used
         /\ used.manuals < MaxManuals => [used EXCEPT !.manuals = @ + 1] \in Used
         /\ used.crashes < MaxCrashes => [used EXCEPT !.crashes = @ + 1] \in Used
<1>1. /\ used.saves < MaxSaves => used.saves + 1 \in 0 .. MaxSaves
      /\ used.resyncs < MaxResyncs => used.resyncs + 1 \in 0 .. MaxResyncs
      /\ used.manuals < MaxManuals => used.manuals + 1 \in 0 .. MaxManuals
      /\ used.crashes < MaxCrashes => used.crashes + 1 \in 0 .. MaxCrashes
  BY BoundAssumption DEF Used
<1>2. QED
  BY <1>1 DEF Used

LEMMA TxUpdateType ==
  ASSUME tx \in [Txid -> TxRow], NEW t \in Txid,
         NEW rawtx \in {"absent", "present", "norow"}, NEW completed \in BOOLEAN,
         NEW status \in {"none", "confirmed", "unsigned"},
         NEW send \in {"none", "success", "failure"}
  PROVE  /\ [tx EXCEPT ![t].rawtx = rawtx] \in [Txid -> TxRow]
         /\ [tx EXCEPT ![t].completed = completed] \in [Txid -> TxRow]
         /\ [tx EXCEPT ![t].send = send] \in [Txid -> TxRow]
         /\ [tx EXCEPT ![t].status = status, ![t].completed = completed] \in [Txid -> TxRow]
<1>1. /\ [tx[t] EXCEPT !.rawtx = rawtx] \in TxRow
      /\ [tx[t] EXCEPT !.completed = completed] \in TxRow
      /\ [tx[t] EXCEPT !.send = send] \in TxRow
      /\ [tx[t] EXCEPT !.status = status, !.completed = completed] \in TxRow
  BY DEF TxRow
<1>2. /\ [tx EXCEPT ![t].rawtx = rawtx] = [tx EXCEPT ![t] = [tx[t] EXCEPT !.rawtx = rawtx]]
      /\ [tx EXCEPT ![t].completed = completed]
           = [tx EXCEPT ![t] = [tx[t] EXCEPT !.completed = completed]]
      /\ [tx EXCEPT ![t].send = send] = [tx EXCEPT ![t] = [tx[t] EXCEPT !.send = send]]
      /\ [tx EXCEPT ![t].status = status, ![t].completed = completed]
           = [tx EXCEPT ![t] = [tx[t] EXCEPT !.status = status, !.completed = completed]]
  OBVIOUS
<1>3. \A r \in TxRow : [tx EXCEPT ![t] = r] \in [Txid -> TxRow]
  OBVIOUS
<1>4. QED
  BY <1>1, <1>2, <1>3

(* The jobs appended to the queue by enq name executions. *)
LEMMA OrderType ==
  ASSUME NEW S \in SUBSET Txid, NEW order \in Orders(S), NEW slot \in [S -> Jobs],
         cqueue \in Seq(Txid \X Jobs)
  PROVE  cqueue \o [i \in 1 .. Cardinality(S) |-> <<order[i], slot[order[i]]>>]
           \in Seq(Txid \X Jobs)
<1>1. IsFiniteSet(S)
  BY TxidAssumption, FS_Subset
<1>2. Cardinality(S) \in Nat
  BY <1>1, FS_CardinalityType
<1> DEFINE jobs == [i \in 1 .. Cardinality(S) |-> <<order[i], slot[order[i]]>>]
<1>3. \A i \in 1 .. Cardinality(S) : order[i] \in S
  BY DEF Orders
<1>4. jobs \in [1 .. Cardinality(S) -> Txid \X Jobs]
  BY <1>3
<1> HIDE DEF jobs
<1>5. jobs \in Seq(Txid \X Jobs)
  BY <1>2, <1>4, SMTT(30)
<1> USE DEF jobs
<1>6. QED
  BY <1>5

(* What enq may do to the process: see IsNewTask.                               *)
LEMMA EnqAllEffect ==
  ASSUME TypeOK, NEW S \in SUBSET Txid, EnqAll(S)
  PROVE  /\ loop' \in [Txid -> {"none", "delay", "await"}]
         /\ attempts' \in [Txid -> 0 .. NumOfAttempts - 1]
         /\ run' \in [Txid -> [Runs -> Run]]
         /\ cqueue' \in Seq(Txid \X Jobs)
         /\ \A t \in Txid : \/ loop'[t] = loop[t]
                            \/ loop[t] = "none" /\ loop'[t] = "delay"
         /\ \A t \in Txid, n \in Runs :
              \/ run'[t][n] = run[t][n]
              \/ /\ Kind(n) = "first" /\ At(t, n, "free")
                 /\ run'[t][n] = New("queued")
<1> DEFINE new == {t \in S : IsNewTask(t)}
<1>1. PICK order \in Orders(new), slot \in [new -> Jobs] :
        /\ \A t \in new : slot[t] \in FreeRun(t, "first")
        /\ loop' = [t \in Txid |-> IF t \in new THEN "delay" ELSE loop[t]]
        /\ attempts' = [t \in Txid |-> IF t \in new THEN 0 ELSE attempts[t]]
        /\ run' = [t \in Txid |-> IF t \in new
                     THEN [run[t] EXCEPT ![slot[t]] = New("queued")] ELSE run[t]]
        /\ cqueue' = cqueue \o [i \in 1 .. Cardinality(new) |-> <<order[i], slot[order[i]]>>]
  BY DEF EnqAll
<1>2. /\ loop' \in [Txid -> {"none", "delay", "await"}]
      /\ \A t \in Txid : \/ loop'[t] = loop[t]
                         \/ loop[t] = "none" /\ loop'[t] = "delay"
  BY <1>1 DEF TypeOK, IsNewTask
<1>3. attempts' \in [Txid -> 0 .. NumOfAttempts - 1]
  BY <1>1, QueueAssumption DEF TypeOK
<1>4. New("queued") \in Run
  BY NewType
<1>5. \A t \in new : slot[t] \in Runs
  OBVIOUS
<1>6. run' \in [Txid -> [Runs -> Run]]
  BY <1>1, <1>4 DEF TypeOK
<1>7. \A t \in Txid, n \in Runs :
        \/ run'[t][n] = run[t][n]
        \/ /\ Kind(n) = "first" /\ At(t, n, "free")
           /\ run'[t][n] = New("queued")
  BY <1>1, <1>5 DEF TypeOK, FreeRun
<1>8. cqueue' \in Seq(Txid \X Jobs)
  <2>1. new \in SUBSET Txid
    OBVIOUS
  <2>2. cqueue \in Seq(Txid \X Jobs)
    BY DEF TypeOK
  <2>3. order \in Orders(new) /\ slot \in [new -> Jobs]
    BY <1>1
  <2> HIDE DEF new
  <2>4. cqueue \o [i \in 1 .. Cardinality(new) |-> <<order[i], slot[order[i]]>>]
          \in Seq(Txid \X Jobs)
    BY <2>1, <2>2, <2>3, OrderType
  <2>5. QED
    BY <1>1, <2>4
<1>9. QED
  BY <1>2, <1>3, <1>6, <1>7, <1>8
-----------------------------------------------------------------------------
(* A statement of SyncTxStatus.run keeps the types. *)
LEMMA RunType ==
  ASSUME TypeOK, NEW t \in Txid, NEW n \in Runs, RunStep(t, n) \/ Throws(t, n)
  PROVE  TypeOK'
<1> USE DEF db, mem, asks
<1>0. /\ Ended(t, n, "rejected") \in Run /\ Ended(t, n, "resolved") \in Run
      /\ New("statusTx") \in Run
  BY EndedType, NewType DEF Returned, Awaiting
<1>a. run[t][n] \in Run /\ tx[t] \in TxRow /\ txsync[t] \in TxsyncRow
  BY DEF TypeOK
<1>1. CASE GetTxsync(t, n)
  <2>1. [run[t][n] EXCEPT !.pc = "getTx", !.synced = (txsync[t].sync = "success")] \in Run
    BY <1>a DEF Run, Awaiting, Answers
  <2>2. run' \in [Txid -> [Runs -> Run]]
    BY <1>0, <1>1, <2>1, BecomesType DEF GetTxsync, Ends
  <2>3. QED
    BY <1>1, <2>2 DEF GetTxsync, TypeOK
<1>2. CASE GetTx(t, n)
  <2>1. /\ [run[t][n] EXCEPT !.pc = "markTx"] \in Run
        /\ [run[t][n] EXCEPT !.pc = "statusTx"] \in Run
    BY <1>a DEF Run, Awaiting, Answers
  <2>2. run' \in [Txid -> [Runs -> Run]]
    BY <1>0, <1>2, <2>1, BecomesType DEF GetTx, Ends, Goes
  <2>3. QED
    BY <1>2, <2>2 DEF GetTx, TypeOK
<1>3. CASE StatusTx(t, n)
  <2>1. \A answer \in Answerable(t) :
          [run[t][n] EXCEPT !.pc = "saveTxStatus", !.ans = answer] \in Run
    BY <1>a DEF Run, Awaiting, Answerable, Answers
  <2>2. run' \in [Txid -> [Runs -> Run]]
    BY <1>3, <2>1, BecomesType DEF StatusTx
  <2>3. QED
    BY <1>3, <2>2 DEF StatusTx, TypeOK
<1>4. CASE SaveTxStatus(t, n)
  <2>1. Stored(run[t][n].ans) \in {"none", "confirmed", "unsigned"}
    BY DEF Stored, IsSuccess
  <2>2. CompletedBySave(t, run[t][n].ans) \in BOOLEAN
    BY <1>a DEF CompletedBySave, TxRow
  <2>3. tx' \in [Txid -> TxRow]
    BY <1>4, <1>a, <2>1, <2>2, TxUpdateType DEF SaveTxStatus, TypeOK, TxRow
  <2>4. /\ [New("markTx") EXCEPT !.again = MarksAgain(t, n)] \in Run
        /\ New("getRawtx") \in Run
    BY <1>a DEF MarksAgain, New, Awaiting, Run
  <2>5. run' \in [Txid -> [Runs -> Run]]
    BY <1>0, <1>4, <2>4, BecomesType DEF SaveTxStatus, Ends
  <2>6. QED
    BY <1>4, <2>3, <2>5 DEF SaveTxStatus, TypeOK
<1>5. CASE MarkTx(t, n)
  <2>1. [run[t][n] EXCEPT !.pc = "markTxsync"] \in Run
    BY <1>a DEF Run, Awaiting, Answers
  <2>2. run' \in [Txid -> [Runs -> Run]]
    BY <1>5, <2>1, BecomesType DEF MarkTx, Goes
  <2>3. tx' \in [Txid -> TxRow]
    BY <1>5, <1>a, TxUpdateType DEF MarkTx, TypeOK, TxRow
  <2>4. QED
    BY <1>5, <2>2, <2>3 DEF MarkTx, TypeOK
<1>6. CASE MarkTxsync(t, n)
  <2>1. New("markTx") \in Run
    BY NewType DEF Awaiting
  <2>2. run' \in [Txid -> [Runs -> Run]]
    BY <1>0, <1>6, <2>1, BecomesType DEF MarkTxsync, Ends
  <2>3. txsync' \in [Txid -> TxsyncRow]
    BY <1>6 DEF MarkTxsync, TypeOK, TxsyncRow, SyncState
  <2>4. QED
    BY <1>6, <2>2, <2>3 DEF MarkTxsync, TypeOK
<1>7. CASE GetRawtx(t, n)
  <2>1. [run[t][n] EXCEPT !.pc = "pushTx"] \in Run
    BY <1>a DEF Run, Awaiting, Answers
  <2>2. run' \in [Txid -> [Runs -> Run]]
    BY <1>0, <1>7, <2>1, BecomesType DEF GetRawtx, Goes, Ends
  <2>3. QED
    BY <1>7, <2>2 DEF GetRawtx, TypeOK
<1>8. CASE PushTx(t, n)
  <2>1. \A response \in {"success", "failure"} :
          [run[t][n] EXCEPT !.pc = "saveTxSend", !.ans = response] \in Run
    BY <1>a DEF Run, Awaiting, Answers
  <2>2. run' \in [Txid -> [Runs -> Run]]
    BY <1>8, <2>1, BecomesType DEF PushTx
  <2>3. chain' \in [Txid -> {"unseen", "mempool", "mined"}]
    BY <1>8 DEF PushTx, TypeOK
  <2>4. QED
    BY <1>8, <2>2, <2>3 DEF PushTx, TypeOK
<1>9. CASE SaveTxSend(t, n)
  <2>1. run[t][n].ans \in {"success", "failure"}
    BY <1>9 DEF SaveTxSend
  <2>2. tx' \in [Txid -> TxRow]
    BY <1>9, <1>a, <2>1, TxUpdateType DEF SaveTxSend, TypeOK, TxRow
  <2>3. run' \in [Txid -> [Runs -> Run]]
    <3>1. CASE Ends(t, n, "rejected")
      BY <1>0, <3>1, BecomesType DEF Ends
    <3>2. ASSUME NEW m \in FreeRun(t, "refresh"),
                 run' = [run EXCEPT ![t][n] = Ended(t, n, "rejected"), ![t][m] = New("statusTx")]
          PROVE  run' \in [Txid -> [Runs -> Run]]
      <4>1. m \in Runs
        BY DEF FreeRun
      <4>2. QED
        BY <1>0, <3>2, <4>1 DEF TypeOK
    <3>3. QED
      BY <1>9, <3>1, <3>2 DEF SaveTxSend
  <2>4. QED
    BY <1>9, <2>2, <2>3 DEF SaveTxSend, TypeOK
<1>10. CASE Throws(t, n)
  <2>1. run' \in [Txid -> [Runs -> Run]]
    BY <1>0, <1>10, BecomesType DEF Throws, Ends
  <2>2. QED
    BY <1>10, <2>1 DEF Throws, TypeOK
<1>11. QED
  BY <1>1, <1>2, <1>3, <1>4, <1>5, <1>6, <1>7, <1>8, <1>9, <1>10 DEF RunStep

-----------------------------------------------------------------------------
(* Every variable keeps its type: table rows stay rows of their tables, a loop   *)
(* never counts more attempts than configured, and the queue holds executions.   *)
LEMMA InitType == Init => TypeOK
<1> SUFFICES ASSUME Init PROVE TypeOK
  OBVIOUS
<1>1. Free \in Run
  BY NewType DEF Free
<1>2. run \in [Txid -> [Runs -> Run]]
  BY <1>1 DEF Init
<1>3. cqueue \in Seq(Txid \X Jobs)
  BY DEF Init
<1>4. used \in [saves : 0 .. MaxSaves, resyncs : 0 .. MaxResyncs,
                manuals : 0 .. MaxManuals, crashes : 0 .. MaxCrashes]
  BY BoundAssumption DEF Init
<1>5. attempts \in [Txid -> 0 .. NumOfAttempts - 1]
  BY QueueAssumption DEF Init
<1>6. QED
  BY <1>2, <1>3, <1>4, <1>5 DEF Init, TypeOK, TxRow, TxsyncRow, SyncState

LEMMA TypeStep == TypeOK /\ [Next]_vars => TypeOK'
<1> SUFFICES ASSUME TypeOK, [Next]_vars PROVE TypeOK'
  OBVIOUS
<1> USE DEF db, mem, asks
<1>1. CASE UNCHANGED vars
  BY <1>1 DEF vars, TypeOK
<1>2. CASE StartJob
  <2> DEFINE job == Head(cqueue)
  <2>1. job \in Txid \X Jobs /\ Tail(cqueue) \in Seq(Txid \X Jobs)
    BY <1>2 DEF StartJob, TypeOK
  <2>2. run' = [run EXCEPT ![job[1]][job[2]] = [run[job[1]][job[2]] EXCEPT !.pc = "getTxsync"]]
    BY <1>2, <2>1 DEF StartJob, TypeOK
  <2> DEFINE r == run[job[1]][job[2]]
  <2>3. [r EXCEPT !.pc = "getTxsync"] \in Run
    <3>1. r \in Run
      BY <2>1 DEF TypeOK
    <3> HIDE DEF r
    <3>2. QED
      BY <3>1 DEF Run, Awaiting
  <2>4. run' \in [Txid -> [Runs -> Run]]
    BY <2>1, <2>2, <2>3 DEF TypeOK
  <2>5. QED
    BY <1>2, <2>1, <2>4 DEF StartJob, TypeOK
<1>3. CASE PollReads
  BY <1>3 DEF PollReads, TypeOK, GetTxsForSync
<1>4. CASE PollEnqs
  BY <1>4, EnqAllEffect DEF PollEnqs, TypeOK
<1>5. CASE Crash
  <2>1. Free \in Run
    BY NewType DEF Free
  <2>2. used' \in Used
    BY <1>5, UsedType DEF Crash, TypeOK, Used
  <2>3. attempts' \in [Txid -> 0 .. NumOfAttempts - 1]
    BY <1>5, QueueAssumption DEF Crash
  <2>4. QED
    <3>1. run' \in [Txid -> [Runs -> Run]]
      BY <1>5, <2>1 DEF Crash
    <3>2. cqueue' \in Seq(Txid \X Jobs)
      BY <1>5 DEF Crash
    <3>3. /\ loop' \in [Txid -> {"none", "delay", "await"}] /\ up' \in BOOLEAN
          /\ save' \in [Txid -> {"idle", "insert", "insertNosync", "enq"}]
          /\ resync' \in [Txid -> {"idle", "clearCompleted", "setPending"}]
          /\ dlqWrite' \in SUBSET Txid /\ poll' \in SUBSET Txid
      BY <1>5 DEF Crash
    <3>4. tx' = tx /\ txsync' = txsync /\ chain' = chain
      BY <1>5 DEF Crash
    <3>5. QED
      BY <2>2, <2>3, <3>1, <3>2, <3>3, <3>4 DEF TypeOK, Used
<1>6. CASE Restart
  BY <1>6 DEF Restart, TypeOK
<1>7. ASSUME NEW t \in Txid, BackoffFires(t) PROVE TypeOK'
  <2>1. PICK n \in FreeRun(t, "retry") : /\ run' = [run EXCEPT ![t][n] = New("queued")]
                                         /\ cqueue' = Append(cqueue, <<t, n>>)
    BY <1>7 DEF BackoffFires
  <2>2. n \in Runs /\ n \in Jobs
    BY DEF FreeRun
  <2>3. New("queued") \in Run
    BY NewType
  <2>4. cqueue' \in Seq(Txid \X Jobs)
    <3>1. cqueue \in Seq(Txid \X Jobs) /\ <<t, n>> \in Txid \X Jobs
      BY <2>2 DEF TypeOK
    <3> HIDE DEF Jobs
    <3>2. QED
      BY <2>1, <3>1
  <2>5. QED
    BY <1>7, <2>1, <2>2, <2>3, <2>4 DEF BackoffFires, TypeOK
<1>8. ASSUME NEW t \in Txid, RetryReturns(t) PROVE TypeOK'
  <2>1. Free \in Run
    BY NewType DEF Free
  <2>2. run' \in [Txid -> [Runs -> Run]]
    BY <1>8, <2>1 DEF RetryReturns, TypeOK
  <2>3. attempts' \in [Txid -> 0 .. NumOfAttempts - 1]
    BY <1>8, QueueAssumption DEF RetryReturns, LastAttempt, TypeOK
  <2>4. loop' \in [Txid -> {"none", "delay", "await"}] /\ dlqWrite' \in SUBSET Txid
    BY <1>8 DEF RetryReturns, TypeOK
  <2>5. QED
    BY <1>8, <2>2, <2>3, <2>4 DEF RetryReturns, TypeOK
<1>9. ASSUME NEW t \in Txid, DlqLands(t) PROVE TypeOK'
  BY <1>9 DEF DlqLands, DeadRow, TypeOK, TxsyncRow, SyncState
<1>10. ASSUME NEW t \in Txid, NEW post \in Posts, SaveTx(t, post) PROVE TypeOK'
  <2>1. used' \in Used
    BY <1>10, UsedType DEF SaveTx, TypeOK, Used
  <2>2. tx' \in [Txid -> TxRow]
    <3> DEFINE rawtx == IF post.raw THEN "present"
                        ELSE IF tx[t].rawtx = "norow" THEN "absent" ELSE tx[t].rawtx
    <3>1. rawtx \in {"absent", "present", "norow"}
      BY DEF TypeOK, TxRow
    <3>2. tx' = [tx EXCEPT ![t].rawtx = rawtx] /\ tx \in [Txid -> TxRow]
      BY <1>10 DEF SaveTx, TypeOK
    <3>3. tx[t].completed \in BOOLEAN
      BY DEF TypeOK, TxRow
    <3> HIDE DEF rawtx
    <3>4. QED
      BY <3>1, <3>2, <3>3, TxUpdateType
  <2>3. QED
    BY <1>10, <2>1, <2>2 DEF SaveTx, TypeOK, Used
<1>11. ASSUME NEW t \in Txid, InsertTxsync(t) PROVE TypeOK'
  <2>1. txsync' \in [Txid -> TxsyncRow]
    <3>1. \A state \in SyncState : [txsync[t] EXCEPT !.sync = state] \in TxsyncRow
      <4>1. txsync[t] \in TxsyncRow
        BY DEF TypeOK
      <4>2. QED
        BY <4>1 DEF TxsyncRow
    <3>2. PICK state \in SyncState :
            txsync' = [txsync EXCEPT ![t] = [txsync[t] EXCEPT !.sync = state]]
      BY <1>11 DEF InsertTxsync, SyncState, TypeOK
    <3>3. QED
      BY <3>1, <3>2 DEF TypeOK
  <2>2. QED
    BY <1>11, <2>1 DEF InsertTxsync, TypeOK
<1>12. ASSUME NEW t \in Txid, SaveEnq(t) PROVE TypeOK'
  <2>1. {t} \in SUBSET Txid
    OBVIOUS
  <2>2. QED
    BY <1>12, <2>1, EnqAllEffect DEF SaveEnq, TypeOK
<1>13. ASSUME NEW t \in Txid, ResyncTx(t) PROVE TypeOK'
  <2>1. {t} \in SUBSET Txid
    OBVIOUS
  <2>2. used' \in Used
    BY <1>13, UsedType DEF ResyncTx, TypeOK, Used
  <2>3. QED
    BY <1>13, <2>1, <2>2, EnqAllEffect DEF ResyncTx, TypeOK, Used
<1>14. ASSUME NEW t \in Txid, ClearCompleted(t) PROVE TypeOK'
  <2>1. tx' \in [Txid -> TxRow]
    BY <1>14, TxUpdateType DEF ClearCompleted, TypeOK, TxRow
  <2>2. QED
    BY <1>14, <2>1 DEF ClearCompleted, TypeOK
<1>15. ASSUME NEW t \in Txid, SetPending(t) PROVE TypeOK'
  BY <1>15 DEF SetPending, TypeOK, TxsyncRow, SyncState
<1>16. ASSUME NEW t \in Txid, ManualSync(t) PROVE TypeOK'
  <2>1. New("getTxsync") \in Run
    BY NewType DEF Awaiting
  <2>2. run' \in [Txid -> [Runs -> Run]]
    BY <1>16, <2>1 DEF ManualSync, FreeRun, TypeOK
  <2>3. QED
    BY <1>16, <2>2, UsedType DEF ManualSync, TypeOK, Used
<1>17. ASSUME NEW t \in Txid, NetworkMoves(t) PROVE TypeOK'
  BY <1>17 DEF NetworkMoves, TypeOK
<1>18. ASSUME NEW t \in Txid, NEW n \in Runs, RunStep(t, n) \/ Throws(t, n) PROVE TypeOK'
  BY <1>18, RunType
<1>19. QED
  BY <1>1, <1>2, <1>3, <1>4, <1>5, <1>6, <1>7, <1>8, <1>9, <1>10, <1>11, <1>12, <1>13,
     <1>14, <1>15, <1>16, <1>17, <1>18 DEF Next

THEOREM TypeCorrect == Spec => []TypeOK
  BY InitType, TypeStep, PTL DEF Spec

-----------------------------------------------------------------------------
(* What one statement of a run may do to the other executions: nothing, except  *)
(* that an accepted push starts a refresh.                                      *)
Settled(n) == IF Kind(n) = "retry" THEN Returned ELSE {"free"}
RunEffect(t, n) ==
  \A u \in Txid, m \in Runs :
    \/ run'[u][m] = run[u][m]
    \/ /\ u = t /\ m = n /\ run[t][n].pc \in Awaiting
       /\ run'[t][n].pc \in Awaiting \cup Settled(n)
    \/ /\ u = t /\ Kind(m) = "refresh" /\ At(t, m, "free")
       /\ run'[t][m] = New("statusTx")

LEMMA BecomesEffect ==
  ASSUME TypeOK, NEW t \in Txid, NEW n \in Runs, NEW r, Becomes(t, n, r),
         run[t][n].pc \in Awaiting, r.pc \in Awaiting \cup Settled(n)
  PROVE  RunEffect(t, n)
  BY DEF TypeOK, Becomes, RunEffect

LEMMA EndsEffect ==
  ASSUME TypeOK, NEW t \in Txid, NEW n \in Runs, NEW outcome \in Returned,
         Ends(t, n, outcome), run[t][n].pc \in Awaiting
  PROVE  RunEffect(t, n)
<1>1. Ended(t, n, outcome).pc \in Settled(n)
  BY DEF Ended, New, Free, Settled
<1>2. QED
  BY <1>1, BecomesEffect DEF Ends

LEMMA RunStepEffect ==
  ASSUME TypeOK, NEW t \in Txid, NEW n \in Runs, RunStep(t, n) \/ Throws(t, n)
  PROVE  RunEffect(t, n) /\ loop' = loop /\ cqueue' = cqueue
<1> USE DEF Awaiting, Returned, At
<1>a. run[t][n] \in Run
  BY DEF TypeOK
<1>1. CASE GetTxsync(t, n)
  <2>1. [run[t][n] EXCEPT !.pc = "getTx", !.synced = (txsync[t].sync = "success")].pc = "getTx"
    BY <1>a DEF Run
  <2>2. QED
    BY <1>1, <2>1, EndsEffect, BecomesEffect DEF GetTxsync
<1>2. CASE GetTx(t, n)
  <2>1. /\ [run[t][n] EXCEPT !.pc = "markTx"].pc = "markTx"
        /\ [run[t][n] EXCEPT !.pc = "statusTx"].pc = "statusTx"
    BY <1>a DEF Run
  <2>2. QED
    BY <1>2, <2>1, EndsEffect, BecomesEffect DEF GetTx, Goes
<1>3. CASE StatusTx(t, n)
  <2>1. \A answer : [run[t][n] EXCEPT !.pc = "saveTxStatus", !.ans = answer].pc = "saveTxStatus"
    BY <1>a DEF Run
  <2>2. QED
    BY <1>3, <2>1, BecomesEffect DEF StatusTx
<1>4. CASE SaveTxStatus(t, n)
  <2>1. /\ [New("markTx") EXCEPT !.again = MarksAgain(t, n)].pc = "markTx"
        /\ New("getRawtx").pc = "getRawtx"
    BY DEF New
  <2>2. QED
    BY <1>4, <2>1, EndsEffect, BecomesEffect DEF SaveTxStatus
<1>5. CASE MarkTx(t, n)
  <2>1. [run[t][n] EXCEPT !.pc = "markTxsync"].pc = "markTxsync"
    BY <1>a DEF Run
  <2>2. QED
    BY <1>5, <2>1, BecomesEffect DEF MarkTx, Goes
<1>6. CASE MarkTxsync(t, n)
  <2>1. New("markTx").pc = "markTx"
    BY DEF New
  <2>2. QED
    BY <1>6, <2>1, EndsEffect, BecomesEffect DEF MarkTxsync
<1>7. CASE GetRawtx(t, n)
  <2>1. [run[t][n] EXCEPT !.pc = "pushTx"].pc = "pushTx"
    BY <1>a DEF Run
  <2>2. QED
    BY <1>7, <2>1, EndsEffect, BecomesEffect DEF GetRawtx, Goes
<1>8. CASE PushTx(t, n)
  <2>1. \A response : [run[t][n] EXCEPT !.pc = "saveTxSend", !.ans = response].pc = "saveTxSend"
    BY <1>a DEF Run
  <2>2. QED
    BY <1>8, <2>1, BecomesEffect DEF PushTx
<1>9. CASE SaveTxSend(t, n)
  <2>1. CASE Ends(t, n, "rejected")
    BY <1>9, <2>1, EndsEffect DEF SaveTxSend
  <2>2. ASSUME NEW m \in FreeRun(t, "refresh"),
               run' = [run EXCEPT ![t][n] = Ended(t, n, "rejected"), ![t][m] = New("statusTx")]
        PROVE  RunEffect(t, n)
    <3>1. m \in Runs /\ Kind(m) = "refresh" /\ run[t][m].pc = "free"
      BY DEF FreeRun
    <3>2. Ended(t, n, "rejected").pc \in Settled(n)
      BY DEF Ended, New, Free, Settled
    <3>3. m # n
      BY <1>9, <3>1 DEF SaveTxSend
    <3>4. /\ run'[t][n] = Ended(t, n, "rejected")
          /\ run'[t][m] = New("statusTx")
          /\ \A u \in Txid, k \in Runs : (u = t /\ k \in {m, n}) \/ run'[u][k] = run[u][k]
      BY <2>2, <3>1, <3>3 DEF TypeOK
    <3>5. QED
      BY <1>9, <3>1, <3>2, <3>4 DEF RunEffect, SaveTxSend
  <2>3. QED
    BY <1>9, <2>1, <2>2 DEF SaveTxSend
<1>10. CASE Throws(t, n)
  BY <1>10, EndsEffect DEF Throws
<1>11. QED
  BY <1>1, <1>2, <1>3, <1>4, <1>5, <1>6, <1>7, <1>8, <1>9, <1>10 DEF RunStep

-----------------------------------------------------------------------------
(* A job waits in the queue at most once, and what waits there has not started. *)
JobsWait ==
  \A i \in 1 .. Len(cqueue) :
    /\ At(cqueue[i][1], cqueue[i][2], "queued")
    /\ \A j \in 1 .. Len(cqueue) : cqueue[i] = cqueue[j] => i = j

(* Only the executions in the queue wait to start, so no other one is disturbed.*)
RetryInv == TypeOK /\ JobsWait /\ OneRetryPerTask

LEMMA RunStepJobs ==
  ASSUME RetryInv, NEW t \in Txid, NEW n \in Runs, RunEffect(t, n),
         loop' = loop, cqueue' = cqueue
  PROVE  JobsWait' /\ OneRetryPerTask'
<1> USE DEF RetryInv
<1>1. JobsWait'
  <2> SUFFICES ASSUME NEW i \in 1 .. Len(cqueue)
               PROVE  run'[cqueue[i][1]][cqueue[i][2]].pc = "queued"
    BY DEF JobsWait, At
  <2>1. cqueue[i][1] \in Txid /\ cqueue[i][2] \in Runs
    BY DEF TypeOK
  <2>2. At(cqueue[i][1], cqueue[i][2], "queued")
    BY DEF JobsWait
  <2>3. QED
    BY <2>1, <2>2 DEF RunEffect, At, Awaiting, Settled, Returned
<1>2. ASSUME NEW u \in Txid PROVE Retries(u)' = Retries(u)
  <2> SUFFICES ASSUME NEW m \in Runs, Kind(m) = "retry"
               PROVE  run'[u][m].pc = "free" <=> run[u][m].pc = "free"
    BY DEF Retries, At
  <2>1. QED
    BY DEF RunEffect, At, Awaiting, Settled, Returned
<1>3. QED
  BY <1>1, <1>2 DEF OneRetryPerTask

LEMMA EnqAllJobs ==
  ASSUME RetryInv, NEW S \in SUBSET Txid, EnqAll(S)
  PROVE  JobsWait' /\ OneRetryPerTask'
<1> USE DEF RetryInv
<1> DEFINE new == {t \in S : IsNewTask(t)}
           N   == Cardinality(new)
<1>1. PICK order \in Orders(new), slot \in [new -> Jobs] :
        /\ \A t \in new : slot[t] \in FreeRun(t, "first")
        /\ run' = [t \in Txid |-> IF t \in new
                     THEN [run[t] EXCEPT ![slot[t]] = New("queued")] ELSE run[t]]
        /\ cqueue' = cqueue \o [i \in 1 .. N |-> <<order[i], slot[order[i]]>>]
  BY DEF EnqAll
<1> DEFINE jobs == [i \in 1 .. N |-> <<order[i], slot[order[i]]>>]
<1>2. new \in SUBSET Txid
  OBVIOUS
<1>3. N \in Nat
  BY <1>2, TxidAssumption, FS_Subset, FS_CardinalityType
<1>4. /\ \A i \in 1 .. N : order[i] \in new /\ jobs[i] = <<order[i], slot[order[i]]>>
      /\ \A i, j \in 1 .. N : order[i] = order[j] => i = j
  BY DEF Orders
<1>5. \A i \in 1 .. N : /\ jobs[i] \in Txid \X Jobs
                        /\ run[jobs[i][1]][jobs[i][2]].pc = "free"
                        /\ run'[jobs[i][1]][jobs[i][2]].pc = "queued"
  BY <1>1, <1>4 DEF FreeRun, At, New, TypeOK
<1>6. \A i, j \in 1 .. N : jobs[i] = jobs[j] => i = j
  BY <1>4
<1>7. \A i \in 1 .. Len(cqueue) : /\ cqueue[i] \in Txid \X Jobs
                                  /\ run[cqueue[i][1]][cqueue[i][2]].pc = "queued"
                                  /\ run'[cqueue[i][1]][cqueue[i][2]].pc = "queued"
  <2>1. \A i \in 1 .. Len(cqueue) : /\ cqueue[i] \in Txid \X Jobs
                                    /\ run[cqueue[i][1]][cqueue[i][2]].pc = "queued"
    BY DEF JobsWait, At, TypeOK
  <2>2. QED
    BY <2>1, EnqAllEffect DEF New, At
<1>8. jobs \in [1 .. N -> Txid \X Jobs]
  BY <1>5
<1>9. cqueue \in Seq(Txid \X Jobs) /\ cqueue' = cqueue \o jobs
  BY <1>1 DEF TypeOK
<1> HIDE DEF jobs, N
<1>10. jobs \in Seq(Txid \X Jobs) /\ Len(jobs) = N
  BY <1>3, <1>8
<1>11. /\ Len(cqueue') = Len(cqueue) + N
       /\ \A i \in 1 .. Len(cqueue') :
            cqueue'[i] = IF i <= Len(cqueue) THEN cqueue[i] ELSE jobs[i - Len(cqueue)]
  <2>1. /\ Len(cqueue \o jobs) = Len(cqueue) + Len(jobs)
        /\ \A i \in 1 .. Len(cqueue) + Len(jobs) : (cqueue \o jobs)[i] =
             IF i <= Len(cqueue) THEN cqueue[i] ELSE jobs[i - Len(cqueue)]
    BY <1>9, <1>10, ConcatProperties
  <2>2. QED
    BY <1>9, <1>10, <2>1
<1>12. JobsWait'
  <2>1. ASSUME NEW i \in 1 .. Len(cqueue')
        PROVE  run'[cqueue'[i][1]][cqueue'[i][2]].pc = "queued"
    <3>1. CASE i <= Len(cqueue)
      BY <1>7, <1>9, <1>11, <3>1
    <3>2. CASE ~(i <= Len(cqueue))
      <4>1. i - Len(cqueue) \in 1 .. N
        BY <1>3, <1>9, <1>11, <3>2
      <4>2. QED
        BY <1>5, <1>11, <3>2, <4>1
    <3>3. QED
      BY <3>1, <3>2
  <2>2. ASSUME NEW i \in 1 .. Len(cqueue'), NEW j \in 1 .. Len(cqueue'),
               cqueue'[i] = cqueue'[j]
        PROVE  i = j
    <3> DEFINE old(k) == k <= Len(cqueue)
    <3>1. \A k \in 1 .. Len(cqueue') : ~old(k) => k - Len(cqueue) \in 1 .. N
      BY <1>3, <1>9, <1>11
    <3>2. CASE old(i) /\ old(j)
      BY <2>2, <1>9, <1>11, <3>2 DEF JobsWait
    <3>3. CASE ~old(i) /\ ~old(j)
      BY <2>2, <1>6, <1>9, <1>11, <3>1, <3>3
    <3> DEFINE pc(k) == run[cqueue'[k][1]][cqueue'[k][2]].pc
    <3>a. \A k \in 1 .. Len(cqueue') : old(k) => pc(k) = "queued"
      BY <1>7, <1>9, <1>11
    <3>b. \A k \in 1 .. Len(cqueue') : ~old(k) => pc(k) = "free"
      BY <1>5, <1>9, <1>11, <3>1
    <3>c. pc(i) = pc(j)
      BY <2>2
    <3> HIDE DEF pc
    <3>4. CASE old(i) /\ ~old(j)
      BY <3>a, <3>b, <3>c, <3>4
    <3>5. CASE ~old(i) /\ old(j)
      BY <3>a, <3>b, <3>c, <3>5
    <3>6. QED
      BY <3>2, <3>3, <3>4, <3>5
  <2>3. QED
    BY <2>1, <2>2 DEF JobsWait, At
<1>13. \A t \in Txid : Retries(t)' = Retries(t)
  BY EnqAllEffect DEF Retries, At, New
<1>14. \A t \in Txid : loop'[t] = "await" <=> loop[t] = "await"
  BY EnqAllEffect
<1>15. OneRetryPerTask'
  BY <1>13, <1>14 DEF OneRetryPerTask
<1>16. QED
  BY <1>12, <1>15

LEMMA RetryInit == Init => RetryInv
<1> SUFFICES ASSUME Init PROVE RetryInv
  OBVIOUS
<1>1. TypeOK
  BY InitType
<1>2. JobsWait
  BY DEF Init, JobsWait
<1>3. OneRetryPerTask
  BY DEF Init, OneRetryPerTask, Retries, At, Free, New
<1>4. QED
  BY <1>1, <1>2, <1>3 DEF RetryInv

LEMMA RetryStep == RetryInv /\ [Next]_vars => RetryInv'
<1> SUFFICES ASSUME RetryInv, [Next]_vars PROVE JobsWait' /\ OneRetryPerTask'
  BY TypeStep DEF RetryInv
<1> USE DEF mem
<1>0. TypeOK /\ JobsWait /\ OneRetryPerTask
  BY DEF RetryInv
<1>1. ASSUME UNCHANGED mem PROVE JobsWait' /\ OneRetryPerTask'
  BY <1>0, <1>1 DEF JobsWait, OneRetryPerTask, Retries, At
<1>2. CASE StartJob
  <2> DEFINE job == Head(cqueue)
  <2>1. /\ cqueue \in Seq(Txid \X Jobs) /\ cqueue # <<>> /\ cqueue' = Tail(cqueue)
        /\ loop' = loop
        /\ run' = [run EXCEPT ![job[1]][job[2]].pc = "getTxsync"]
    BY <1>0, <1>2 DEF StartJob, TypeOK
  <2>2. /\ Len(cqueue) \in Nat \ {0} /\ job = cqueue[1]
        /\ Len(cqueue') = Len(cqueue) - 1
        /\ \A i \in 1 .. Len(cqueue') : cqueue'[i] = cqueue[i + 1] /\ i + 1 \in 1 .. Len(cqueue)
    BY <2>1, HeadTailProperties, EmptySeq
  <2>3. /\ job[1] \in Txid /\ job[2] \in Runs /\ job = <<job[1], job[2]>>
        /\ run[job[1]][job[2]].pc = "queued"
    BY <1>0, <2>1, <2>2 DEF JobsWait, At
  <2>4. \A u \in Txid, m \in Runs :
          \/ <<u, m>> # job /\ run'[u][m] = run[u][m]
          \/ <<u, m>> = job /\ run'[u][m].pc = "getTxsync"
    BY <1>0, <2>1, <2>3 DEF TypeOK, Run
  <2>5. JobsWait'
    <3>1. ASSUME NEW i \in 1 .. Len(cqueue')
          PROVE  run'[cqueue'[i][1]][cqueue'[i][2]].pc = "queued"
      <4>1. cqueue'[i] = cqueue[i + 1] /\ i + 1 \in 1 .. Len(cqueue) /\ i + 1 # 1
        BY <2>2
      <4>2. cqueue[i + 1] # job
        BY <1>0, <2>2, <4>1 DEF JobsWait
      <4>3. /\ cqueue[i + 1] \in Txid \X Jobs
            /\ run[cqueue[i + 1][1]][cqueue[i + 1][2]].pc = "queued"
        BY <1>0, <2>1, <4>1 DEF JobsWait, At
      <4>4. \A u \in Txid, m \in Runs :
              <<u, m>> = cqueue[i + 1] => run'[u][m] = run[u][m]
        BY <2>4, <4>2
      <4>5. /\ cqueue[i + 1][1] \in Txid /\ cqueue[i + 1][2] \in Runs
            /\ <<cqueue[i + 1][1], cqueue[i + 1][2]>> = cqueue[i + 1]
        BY <4>3
      <4>6. run'[cqueue[i + 1][1]][cqueue[i + 1][2]] = run[cqueue[i + 1][1]][cqueue[i + 1][2]]
        BY <4>4, <4>5
      <4>7. QED
        BY <4>1, <4>3, <4>6
    <3>2. ASSUME NEW i \in 1 .. Len(cqueue'), NEW j \in 1 .. Len(cqueue'),
                 cqueue'[i] = cqueue'[j]
          PROVE  i = j
      BY <1>0, <2>2, <3>2 DEF JobsWait
    <3>3. QED
      BY <3>1, <3>2 DEF JobsWait, At
  <2>6. \A u \in Txid : Retries(u)' = Retries(u)
    BY <2>3, <2>4 DEF Retries, At
  <2>7. QED
    BY <1>0, <2>1, <2>5, <2>6 DEF OneRetryPerTask
<1>3. CASE PollEnqs
  BY <1>0, <1>3, EnqAllJobs DEF PollEnqs, TypeOK
<1>4. CASE Crash
  BY <1>4 DEF Crash, JobsWait, OneRetryPerTask, Retries, At, Free, New
<1>5. ASSUME NEW t \in Txid, BackoffFires(t) PROVE JobsWait' /\ OneRetryPerTask'
  <2>1. PICK n \in FreeRun(t, "retry") : /\ run' = [run EXCEPT ![t][n] = New("queued")]
                                         /\ cqueue' = Append(cqueue, <<t, n>>)
    BY <1>5 DEF BackoffFires
  <2>2. n \in Runs /\ Kind(n) = "retry" /\ run[t][n].pc = "free"
    BY DEF FreeRun, At
  <2>3. /\ cqueue \in Seq(Txid \X Jobs) /\ <<t, n>> \in Txid \X Jobs
        /\ loop[t] = "delay" /\ loop' = [loop EXCEPT ![t] = "await"]
    BY <1>0, <1>5, <2>2 DEF BackoffFires, TypeOK
  <2>4. /\ Len(cqueue) \in Nat /\ Len(cqueue') = Len(cqueue) + 1
        /\ \A i \in 1 .. Len(cqueue) : cqueue'[i] = cqueue[i] /\ cqueue[i] \in Txid \X Jobs
        /\ cqueue'[Len(cqueue) + 1] = <<t, n>>
    BY <2>1, <2>3, AppendProperties, ElementOfSeq, LenProperties
  <2>5. /\ run'[t][n].pc = "queued"
        /\ \A u \in Txid, m \in Runs : <<u, m>> = <<t, n>> \/ run'[u][m] = run[u][m]
    BY <1>0, <2>1, <2>2 DEF TypeOK, New
  <2>6. \A i \in 1 .. Len(cqueue) : /\ run[cqueue[i][1]][cqueue[i][2]].pc = "queued"
                                    /\ cqueue[i] # <<t, n>>
                                    /\ run'[cqueue[i][1]][cqueue[i][2]].pc = "queued"
    BY <1>0, <2>2, <2>4, <2>5 DEF JobsWait, At
  <2>7. JobsWait'
    <3>1. ASSUME NEW i \in 1 .. Len(cqueue')
          PROVE  run'[cqueue'[i][1]][cqueue'[i][2]].pc = "queued"
      <4>1. CASE i \in 1 .. Len(cqueue)
        BY <2>4, <2>6, <4>1
      <4>2. CASE i = Len(cqueue) + 1
        BY <2>4, <2>5, <4>2
      <4>3. QED
        BY <2>4, <4>1, <4>2
    <3>2. ASSUME NEW i \in 1 .. Len(cqueue'), NEW j \in 1 .. Len(cqueue'),
                 cqueue'[i] = cqueue'[j]
          PROVE  i = j
      BY <1>0, <2>4, <2>6, <3>2 DEF JobsWait
    <3>3. QED
      BY <3>1, <3>2 DEF JobsWait, At
  <2>8. Retries(t) = {} /\ Retries(t)' = {n}
    BY <1>0, <2>2, <2>3, <2>5 DEF OneRetryPerTask, Retries, At
  <2>9. \A u \in Txid \ {t} : Retries(u)' = Retries(u) /\ loop'[u] = loop[u]
    BY <2>3, <2>5 DEF Retries, At
  <2>10. loop'[t] = "await"
    BY <1>0, <2>3 DEF TypeOK
  <2>11. QED
    BY <1>0, <2>2, <2>7, <2>8, <2>9, <2>10 DEF OneRetryPerTask
<1>6. ASSUME NEW t \in Txid, RetryReturns(t) PROVE JobsWait' /\ OneRetryPerTask'
  <2>1. PICK n \in Runs : /\ Kind(n) = "retry" /\ run[t][n].pc \in Returned
                          /\ run' = [run EXCEPT ![t][n] = Free]
    BY <1>6 DEF RetryReturns
  <2>2. /\ cqueue' = cqueue /\ loop'[t] # "await"
        /\ \A u \in Txid \ {t} : loop'[u] = loop[u]
    BY <1>0, <1>6 DEF RetryReturns, TypeOK
  <2>3. /\ run'[t][n].pc = "free"
        /\ \A u \in Txid, m \in Runs : <<u, m>> = <<t, n>> \/ run'[u][m] = run[u][m]
    BY <1>0, <2>1 DEF TypeOK, Free, New
  <2>4. \A i \in 1 .. Len(cqueue) : /\ cqueue[i] \in Txid \X Jobs
                                    /\ run[cqueue[i][1]][cqueue[i][2]].pc = "queued"
    BY <1>0 DEF JobsWait, At, TypeOK
  <2>5. JobsWait'
    BY <1>0, <2>1, <2>2, <2>3, <2>4 DEF JobsWait, At, Returned
  <2>6. Retries(t) = {n}
    BY <1>0, <2>1 DEF OneRetryPerTask, Retries, At, Returned
  <2>7. Retries(t)' = {}
    BY <2>3, <2>6 DEF Retries, At
  <2>8. \A u \in Txid \ {t} : Retries(u)' = Retries(u)
    BY <2>3 DEF Retries, At
  <2>9. QED
    BY <1>0, <2>2, <2>5, <2>7, <2>8 DEF OneRetryPerTask
<1>7. ASSUME NEW t \in Txid, SaveEnq(t) \/ ResyncTx(t) PROVE JobsWait' /\ OneRetryPerTask'
  <2>1. {t} \in SUBSET Txid /\ EnqAll({t})
    BY <1>7 DEF SaveEnq, ResyncTx
  <2>2. QED
    BY <2>1, EnqAllJobs
<1>8. ASSUME NEW t \in Txid, ManualSync(t) PROVE JobsWait' /\ OneRetryPerTask'
  <2>1. PICK n \in FreeRun(t, "manual") : run' = [run EXCEPT ![t][n] = New("getTxsync")]
    BY <1>8 DEF ManualSync
  <2>2. n \in Runs /\ Kind(n) = "manual" /\ run[t][n].pc = "free" /\ cqueue' = cqueue /\ loop' = loop
    BY <1>8 DEF FreeRun, At, ManualSync
  <2>3. \A u \in Txid, m \in Runs : <<u, m>> = <<t, n>> \/ run'[u][m] = run[u][m]
    BY <1>0, <2>1, <2>2 DEF TypeOK
  <2>4. \A i \in 1 .. Len(cqueue) : /\ cqueue[i] \in Txid \X Jobs
                                    /\ run[cqueue[i][1]][cqueue[i][2]].pc = "queued"
    BY <1>0 DEF JobsWait, At, TypeOK
  <2>5. JobsWait'
    BY <1>0, <2>2, <2>3, <2>4 DEF JobsWait, At
  <2>6. \A u \in Txid : Retries(u)' = Retries(u)
    BY <2>2, <2>3 DEF Retries, At
  <2>7. QED
    BY <1>0, <2>2, <2>5, <2>6 DEF OneRetryPerTask
<1>9. ASSUME NEW t \in Txid, NEW n \in Runs, RunStep(t, n) \/ Throws(t, n)
      PROVE  JobsWait' /\ OneRetryPerTask'
  BY <1>0, <1>9, RunStepEffect, RunStepJobs
<1>10. ASSUME NEW t \in Txid,
              \/ DlqLands(t) \/ (\E post \in Posts : SaveTx(t, post)) \/ InsertTxsync(t)
              \/ ClearCompleted(t) \/ SetPending(t) \/ NetworkMoves(t)
       PROVE  UNCHANGED mem
  BY <1>10 DEF DlqLands, SaveTx, InsertTxsync, ClearCompleted, SetPending, NetworkMoves
<1>11. PollReads \/ Restart \/ UNCHANGED vars => UNCHANGED mem
  BY DEF PollReads, Restart, vars
<1>12. QED
  BY <1>1, <1>2, <1>3, <1>4, <1>5, <1>6, <1>7, <1>8, <1>9, <1>10, <1>11 DEF Next

(* One retry per task at a time, for any number of transactions and requests.    *)
THEOREM OneRetry == Spec => []OneRetryPerTask
<1>1. RetryInv => OneRetryPerTask
  BY DEF RetryInv
<1>2. QED
  BY RetryInit, RetryStep, <1>1, PTL DEF Spec

-----------------------------------------------------------------------------
(* The dead-letter queue lists every failed row, whatever writes sync and dlq.  *)
LEMMA DeadLetterStep == TypeOK /\ FailureIsDeadLettered /\ [Next]_vars => FailureIsDeadLettered'
<1> SUFFICES ASSUME TypeOK, FailureIsDeadLettered, [Next]_vars, NEW u \in Txid,
                    txsync'[u].sync = "fail"
             PROVE  txsync'[u].dlq
  BY DEF FailureIsDeadLettered
<1>0. txsync[u] \in TxsyncRow /\ (txsync[u].sync = "fail" => txsync[u].dlq)
  BY DEF FailureIsDeadLettered, TypeOK
<1>1. CASE txsync' = txsync
  BY <1>0, <1>1
<1>2. ASSUME NEW t \in Txid, DlqLands(t) PROVE txsync'[u].dlq
  <2>1. txsync'[u] \in {txsync[u], DeadRow(txsync[u])}
    BY <1>2 DEF DlqLands, TypeOK
  <2>2. QED
    BY <1>0, <2>1 DEF DeadRow
<1>3. ASSUME NEW t \in Txid, InsertTxsync(t) PROVE txsync'[u].dlq
  <2>1. PICK s \in {"pending", "none"} :
          txsync' = [txsync EXCEPT ![t] = [txsync[t] EXCEPT !.sync = s]]
    BY <1>3 DEF InsertTxsync
  <2>2. u # t
    <3>1. [txsync[t] EXCEPT !.sync = s].sync = s
      BY DEF TypeOK, TxsyncRow
    <3>2. QED
      BY <2>1, <3>1 DEF TypeOK
  <2>3. QED
    BY <1>0, <2>1, <2>2 DEF TypeOK
<1>4. ASSUME NEW t \in Txid, SetPending(t) PROVE txsync'[u].dlq
  <2>1. txsync'[u] \in {txsync[u], [sync |-> "pending", dlq |-> FALSE]}
    BY <1>4 DEF SetPending, TypeOK
  <2>2. QED
    BY <1>0, <2>1
<1>5. ASSUME NEW t \in Txid, NEW n \in Runs, MarkTxsync(t, n) PROVE txsync'[u].dlq
  <2>1. txsync'[u] \in {txsync[u], [sync |-> "success", dlq |-> FALSE]}
    BY <1>5 DEF MarkTxsync, TypeOK
  <2>2. QED
    BY <1>0, <2>1
<1>6. ASSUME NEW t \in Txid, NEW n \in Runs, RunStep(t, n) \/ Throws(t, n), ~MarkTxsync(t, n)
      PROVE  txsync' = txsync
  BY <1>6 DEF RunStep, Throws, GetTxsync, GetTx, StatusTx, SaveTxStatus, MarkTx, GetRawtx,
              PushTx, SaveTxSend, db
<1>7. ASSUME NEW t \in Txid,
             \/ BackoffFires(t) \/ RetryReturns(t) \/ (\E post \in Posts : SaveTx(t, post))
             \/ SaveEnq(t) \/ ResyncTx(t) \/ ClearCompleted(t) \/ ManualSync(t)
             \/ NetworkMoves(t)
      PROVE  txsync' = txsync
  BY <1>7 DEF BackoffFires, RetryReturns, SaveTx, SaveEnq, ResyncTx, ClearCompleted,
              ManualSync, NetworkMoves, db
<1>8. StartJob \/ PollReads \/ PollEnqs \/ Crash \/ Restart \/ UNCHANGED vars
        => txsync' = txsync
  BY DEF StartJob, PollReads, PollEnqs, Crash, Restart, vars, db
<1>9. QED
  BY <1>1, <1>2, <1>3, <1>4, <1>5, <1>6, <1>7, <1>8 DEF Next

(* Every failed row is in the dead-letter queue.                                *)
THEOREM DeadLetter == Spec => []FailureIsDeadLettered
<1>1. Init => FailureIsDeadLettered
  BY DEF Init, FailureIsDeadLettered
<1>2. QED
  BY <1>1, DeadLetterStep, TypeCorrect, PTL DEF Spec

-----------------------------------------------------------------------------
(* Completion needs evidence.  Strengthening of CompletedOnlyIfMined: before the *)
(* block, no row holds a block status or a completion, and no execution holds a  *)
(* block answer or is about to write a completion.                               *)
Unmarked(t) == ~tx[t].completed /\ tx[t].status = "none" /\ txsync[t].sync # "success"
Ignorant(r) == ~IsSuccess(r.ans) /\ r.pc \notin {"markTx", "markTxsync"}
Evidence ==
  \A t \in Txid : chain[t] # "mined" => Unmarked(t) /\ \A n \in Runs : Ignorant(run[t][n])

LEMMA BecomesRun ==
  ASSUME TypeOK, NEW t \in Txid, NEW n \in Runs, NEW r, Becomes(t, n, r)
  PROVE  \A u \in Txid, m \in Runs :
           run'[u][m] = IF u = t /\ m = n THEN r ELSE run[u][m]
  BY DEF TypeOK, Becomes

LEMMA NewIgnorant ==
  /\ \A pc : pc \notin {"markTx", "markTxsync"} => Ignorant(New(pc))
  /\ Ignorant(Free)
  /\ \A t \in Txid, n \in Runs, outcome \in Returned : Ignorant(Ended(t, n, outcome))
  BY DEF Ignorant, New, Free, Ended, Returned, IsSuccess

(* What one statement of a run does, seen from a transaction not in a block.    *)
LEMMA RunStepEvidence ==
  ASSUME TypeOK, Evidence, NEW t \in Txid, NEW n \in Runs, RunStep(t, n) \/ Throws(t, n)
  PROVE  Evidence'
<1> SUFFICES ASSUME NEW u \in Txid, chain'[u] # "mined"
             PROVE  Unmarked(u)' /\ \A m \in Runs : Ignorant(run'[u][m])
  BY DEF Evidence, Ignorant
<1> USE DEF At, Ends
<1> DEFINE r == run[t][n]
<1>a. r \in Run /\ tx[t] \in TxRow
  BY DEF TypeOK
<1>b. ASSUME chain' = chain PROVE Unmarked(u) /\ \A m \in Runs : Ignorant(run[u][m])
  BY <1>b DEF Evidence
<1>c. ASSUME chain' = chain, NEW q, Becomes(t, n, q), u = t => Ignorant(q)
      PROVE  \A m \in Runs : Ignorant(run'[u][m])
  BY <1>b, <1>c, BecomesRun
<1>1. CASE GetTxsync(t, n)
  <2> DEFINE q == [r EXCEPT !.pc = "getTx", !.synced = (txsync[t].sync = "success")]
  <2>1. Ignorant(r) => Ignorant(q)
    BY <1>a DEF Ignorant, Run
  <2>2. chain' = chain /\ Unmarked(u)'
    BY <1>1, <1>b DEF GetTxsync, Unmarked, db
  <2>3. (u = t => Ignorant(q)) /\ Ignorant(Ended(t, n, "rejected"))
    BY <2>1, <2>2, <1>b, NewIgnorant DEF Returned
  <2>4. Becomes(t, n, q) \/ Becomes(t, n, Ended(t, n, "rejected"))
    BY <1>1 DEF GetTxsync
  <2> HIDE DEF q
  <2>5. QED
    BY <2>2, <2>3, <2>4, <1>c
<1>2. CASE GetTx(t, n)
  <2> DEFINE q(pc) == [r EXCEPT !.pc = pc]
  <2>1. chain' = chain /\ Unmarked(u)'
    BY <1>2, <1>b DEF GetTx, Unmarked, db
  <2>2. u = t => Ignorant(q("statusTx")) /\ ~CachedSuccess(t)
    BY <1>a, <1>b, <2>1 DEF Ignorant, Run, Unmarked, CachedSuccess
  <2>3. /\ Ignorant(Ended(t, n, "rejected"))
        /\ Ignorant(Ended(t, n, "resolved"))
    BY NewIgnorant DEF Returned
  <2>4. \/ Becomes(t, n, Ended(t, n, "rejected")) \/ Becomes(t, n, Ended(t, n, "resolved"))
        \/ CachedSuccess(t) /\ Becomes(t, n, q("markTx"))
        \/ Becomes(t, n, q("statusTx"))
    BY <1>2 DEF GetTx, Goes
  <2> HIDE DEF q
  <2>5. QED
    BY <2>1, <2>2, <2>3, <2>4, <1>c
<1>3. CASE StatusTx(t, n)
  <2>1. chain' = chain /\ Unmarked(u)'
    BY <1>3, <1>b DEF StatusTx, Unmarked, db
  <2>2. PICK answer \in Answerable(t) :
          Becomes(t, n, [r EXCEPT !.pc = "saveTxStatus", !.ans = answer])
    BY <1>3 DEF StatusTx
  <2> DEFINE q == [r EXCEPT !.pc = "saveTxStatus", !.ans = answer]
  <2>3. u = t => ~IsSuccess(answer)
    BY <2>1 DEF Answerable, IsSuccess
  <2>4. u = t => Ignorant(q)
    BY <1>a, <2>3 DEF Ignorant, Run
  <2> HIDE DEF q
  <2>5. Becomes(t, n, q)
    BY <2>2 DEF q
  <2>6. QED
    BY <2>1, <2>4, <2>5, <1>c
<1>4. CASE SaveTxStatus(t, n)
  <2>1. chain' = chain /\ txsync' = txsync
    BY <1>4 DEF SaveTxStatus
  <2>2. u = t => ~IsSuccess(r.ans)
    BY <1>b, <2>1 DEF Ignorant
  <2>3. Unmarked(u)'
    <3>1. CASE u = t
      <4>1. tx' = [tx EXCEPT ![t] = [tx[t] EXCEPT !.status = Stored(r.ans),
                                                  !.completed = CompletedBySave(t, r.ans)]]
        BY <1>4 DEF SaveTxStatus, TypeOK
      <4>2. tx'[t] = [tx[t] EXCEPT !.status = Stored(r.ans),
                                   !.completed = CompletedBySave(t, r.ans)]
        BY <4>1 DEF TypeOK
      <4>3. tx'[t].status = "none" /\ ~tx'[t].completed
        BY <1>a, <1>b, <2>1, <2>2, <3>1, <4>2 DEF Stored, CompletedBySave, TxRow, Unmarked
      <4>4. QED
        BY <1>b, <2>1, <3>1, <4>3 DEF Unmarked
    <3>2. CASE u # t
      BY <1>4, <1>b, <2>1, <3>2 DEF SaveTxStatus, TypeOK, Unmarked
    <3>3. QED
      BY <3>1, <3>2
  <2>4. Ignorant(New("getRawtx")) /\ Ignorant(Ended(t, n, "rejected"))
    BY NewIgnorant DEF Returned
  <2>5. \/ IsSuccess(r.ans) /\ Becomes(t, n, [New("markTx") EXCEPT !.again = MarksAgain(t, n)])
        \/ Becomes(t, n, New("getRawtx")) \/ Becomes(t, n, Ended(t, n, "rejected"))
    BY <1>4 DEF SaveTxStatus
  <2>6. QED
    BY <2>1, <2>2, <2>3, <2>4, <2>5, <1>c
<1>5. CASE MarkTx(t, n)
  <2>1. chain' = chain /\ txsync' = txsync /\ u # t
    BY <1>5, <1>b DEF MarkTx, Ignorant
  <2>2. Unmarked(u)'
    BY <1>5, <1>b, <2>1 DEF MarkTx, TypeOK, Unmarked
  <2>3. QED
    BY <1>5, <2>1, <2>2, <1>c DEF MarkTx, Goes
<1>6. CASE MarkTxsync(t, n)
  <2>1. chain' = chain /\ tx' = tx /\ u # t
    BY <1>6, <1>b DEF MarkTxsync, Ignorant
  <2>2. Unmarked(u)'
    BY <1>6, <1>b, <2>1 DEF MarkTxsync, TypeOK, Unmarked
  <2>3. QED
    BY <1>6, <2>1, <2>2, <1>c DEF MarkTxsync
<1>7. CASE GetRawtx(t, n)
  <2> DEFINE q == [r EXCEPT !.pc = "pushTx"]
  <2>1. chain' = chain /\ Unmarked(u)'
    BY <1>7, <1>b DEF GetRawtx, Unmarked, db
  <2>2. u = t => Ignorant(q)
    BY <1>a, <1>b, <2>1 DEF Ignorant, Run
  <2>3. Ignorant(Ended(t, n, "rejected"))
    BY NewIgnorant DEF Returned
  <2>4. Becomes(t, n, q) \/ Becomes(t, n, Ended(t, n, "rejected"))
    BY <1>7 DEF GetRawtx, Goes
  <2> HIDE DEF q
  <2>5. QED
    BY <2>1, <2>2, <2>3, <2>4, <1>c
<1>8. CASE PushTx(t, n)
  <2>1. PICK response \in {"success", "failure"} :
          /\ Becomes(t, n, [r EXCEPT !.pc = "saveTxSend", !.ans = response])
          /\ chain' = [chain EXCEPT ![t] = IF response = "success" /\ @ = "unseen"
                                           THEN "mempool" ELSE @]
    BY <1>8 DEF PushTx
  <2>2. chain[u] # "mined" /\ tx' = tx /\ txsync' = txsync
    BY <1>8, <2>1 DEF TypeOK, PushTx, db
  <2>3. Unmarked(u) /\ \A m \in Runs : Ignorant(run[u][m])
    BY <2>2 DEF Evidence
  <2> DEFINE q == [r EXCEPT !.pc = "saveTxSend", !.ans = response]
  <2>4. Ignorant(q)
    BY <1>a DEF Ignorant, Run, IsSuccess
  <2> HIDE DEF q
  <2>5. \A m \in Runs : Ignorant(run'[u][m])
    BY <2>1, <2>3, <2>4, BecomesRun DEF q
  <2>6. QED
    BY <2>2, <2>3, <2>5 DEF Unmarked
<1>9. CASE SaveTxSend(t, n)
  <2>1. chain' = chain /\ txsync' = txsync
    BY <1>9 DEF SaveTxSend
  <2>2. tx' = [tx EXCEPT ![t] = [tx[t] EXCEPT !.send = r.ans]]
    BY <1>9 DEF SaveTxSend, TypeOK
  <2>3. tx'[u].status = tx[u].status /\ tx'[u].completed = tx[u].completed
    BY <2>2, <1>a DEF TypeOK, TxRow
  <2>4. Unmarked(u)'
    BY <1>b, <2>1, <2>3 DEF Unmarked
  <2>5. Ignorant(Ended(t, n, "rejected")) /\ Ignorant(New("statusTx"))
    BY NewIgnorant DEF Returned
  <2>6. ASSUME NEW m \in FreeRun(t, "refresh"),
               run' = [run EXCEPT ![t][n] = Ended(t, n, "rejected"), ![t][m] = New("statusTx")]
        PROVE  \A k \in Runs : Ignorant(run'[u][k])
    <3>1. \A k \in Runs : run'[u][k] \in {run[u][k], Ended(t, n, "rejected"), New("statusTx")}
      BY <2>6 DEF TypeOK, FreeRun
    <3>2. QED
      BY <1>b, <2>1, <2>5, <3>1
  <2>7. QED
    BY <1>9, <2>1, <2>4, <2>5, <2>6, <1>c DEF SaveTxSend
<1>10. CASE Throws(t, n)
  <2>1. chain' = chain /\ Unmarked(u)'
    BY <1>10, <1>b DEF Throws, Unmarked, db
  <2>2. Ignorant(Ended(t, n, "rejected"))
    BY NewIgnorant DEF Returned
  <2>3. QED
    BY <1>10, <2>1, <2>2, <1>c DEF Throws
<1>11. QED
  BY <1>1, <1>2, <1>3, <1>4, <1>5, <1>6, <1>7, <1>8, <1>9, <1>10 DEF RunStep

LEMMA EvidenceStep == TypeOK /\ Evidence /\ [Next]_vars => Evidence'
<1> SUFFICES ASSUME TypeOK, Evidence, [Next]_vars PROVE Evidence'
  OBVIOUS
<1>1. ASSUME NEW t \in Txid, NEW n \in Runs, RunStep(t, n) \/ Throws(t, n) PROVE Evidence'
  BY <1>1, RunStepEvidence
<1>2. ASSUME \A u \in Txid : chain'[u] # "mined" => chain[u] # "mined",
             \A u \in Txid : Unmarked(u) => Unmarked(u)',
             \A u \in Txid, m \in Runs : Ignorant(run[u][m]) => Ignorant(run'[u][m])
      PROVE  Evidence'
  BY <1>2 DEF Evidence, Ignorant
<1>3. ASSUME tx' = tx, txsync' = txsync PROVE \A u \in Txid : Unmarked(u) => Unmarked(u)'
  BY <1>3 DEF Unmarked
<1>4. ASSUME NEW S \in SUBSET Txid, EnqAll(S), UNCHANGED <<db, chain>> PROVE Evidence'
  <2>1. \A u \in Txid, m \in Runs : run'[u][m] = run[u][m] \/ run'[u][m] = New("queued")
    BY <1>4, EnqAllEffect
  <2>2. Ignorant(New("queued"))
    BY NewIgnorant
  <2>3. QED
    BY <1>2, <1>3, <1>4, <2>1, <2>2 DEF db
<1>5. CASE StartJob
  <2> DEFINE job == Head(cqueue)
             r   == run[job[1]][job[2]]
  <2>1. /\ job[1] \in Txid /\ job[2] \in Runs
        /\ run' = [run EXCEPT ![job[1]] =
                     [run[job[1]] EXCEPT ![job[2]] = [r EXCEPT !.pc = "getTxsync"]]]
    BY <1>5, HeadTailProperties DEF StartJob, TypeOK
  <2>2. Ignorant(r) => Ignorant([r EXCEPT !.pc = "getTxsync"])
    BY <2>1 DEF TypeOK, Run, Ignorant
  <2>3. \A u \in Txid, m \in Runs : \/ run'[u][m] = run[u][m]
                                   \/ /\ u = job[1] /\ m = job[2]
                                      /\ run'[u][m] = [r EXCEPT !.pc = "getTxsync"]
    BY <2>1 DEF TypeOK
  <2>4. \A u \in Txid, m \in Runs : Ignorant(run[u][m]) => Ignorant(run'[u][m])
    BY <2>2, <2>3
  <2>5. QED
    BY <1>2, <1>3, <1>5, <2>4 DEF StartJob, db
<1>6. CASE PollEnqs
  BY <1>4, <1>6 DEF PollEnqs, TypeOK
<1>7. CASE Crash
  <2>1. \A u \in Txid, m \in Runs : Ignorant(run'[u][m])
    BY <1>7, NewIgnorant DEF Crash
  <2>2. QED
    BY <1>2, <1>3, <1>7, <2>1 DEF Crash, db
<1>8. ASSUME NEW t \in Txid, BackoffFires(t) \/ RetryReturns(t) \/ ManualSync(t) PROVE Evidence'
  <2>1. PICK n \in Runs, r \in {New("queued"), Free, New("getTxsync")} :
          run' = [run EXCEPT ![t][n] = r]
    BY <1>8 DEF BackoffFires, RetryReturns, ManualSync, FreeRun
  <2>2. Ignorant(r)
    BY <2>1, NewIgnorant
  <2>3. \A u \in Txid, m \in Runs : Ignorant(run[u][m]) => Ignorant(run'[u][m])
    BY <2>1, <2>2 DEF TypeOK
  <2>4. UNCHANGED <<db, chain>>
    BY <1>8 DEF BackoffFires, RetryReturns, ManualSync
  <2>5. QED
    BY <1>2, <1>3, <2>3, <2>4 DEF db
<1>9. ASSUME NEW t \in Txid, SaveEnq(t) \/ ResyncTx(t) PROVE Evidence'
  <2>1. {t} \in SUBSET Txid /\ EnqAll({t}) /\ UNCHANGED <<db, chain>>
    BY <1>9 DEF SaveEnq, ResyncTx
  <2>2. QED
    BY <1>4, <2>1
<1>10. ASSUME NEW t \in Txid, \/ (\E post \in Posts : SaveTx(t, post)) \/ ClearCompleted(t)
                              \/ DlqLands(t) \/ InsertTxsync(t) \/ SetPending(t)
       PROVE  Evidence'
  <2>1. chain' = chain /\ run' = run
    BY <1>10 DEF SaveTx, ClearCompleted, DlqLands, InsertTxsync, SetPending, mem
  <2>2. /\ tx[t] \in TxRow /\ txsync[t] \in TxsyncRow
        /\ \A u \in Txid \ {t} : tx'[u] = tx[u] /\ txsync'[u] = txsync[u]
    BY <1>10 DEF SaveTx, ClearCompleted, DlqLands, InsertTxsync, SetPending, TypeOK
  <2>3. ASSUME NEW post \in Posts, SaveTx(t, post)
        PROVE  txsync' = txsync /\ \E x : tx' = [tx EXCEPT ![t] = [tx[t] EXCEPT !.rawtx = x]]
    BY <2>3 DEF SaveTx, TypeOK
  <2>4. ASSUME ClearCompleted(t)
        PROVE  txsync' = txsync /\ tx' = [tx EXCEPT ![t] = [tx[t] EXCEPT !.completed = FALSE]]
    BY <2>4 DEF ClearCompleted, TypeOK
  <2>5. ASSUME DlqLands(t) \/ InsertTxsync(t) \/ SetPending(t)
        PROVE  tx' = tx /\ txsync'[t].sync \in {txsync[t].sync, "fail", "none", "pending"}
    BY <2>2, <2>5 DEF DlqLands, InsertTxsync, SetPending, DeadRow, TypeOK, TxsyncRow
  <2>6. Unmarked(t) => Unmarked(t)'
    <3>1. ASSUME NEW post \in Posts, SaveTx(t, post) PROVE Unmarked(t) => Unmarked(t)'
      <4>1. PICK x : tx' = [tx EXCEPT ![t] = [tx[t] EXCEPT !.rawtx = x]]
        BY <2>3, <3>1
      <4>2. tx'[t].status = tx[t].status /\ tx'[t].completed = tx[t].completed
        BY <2>2, <4>1 DEF TxRow, TypeOK
      <4>3. QED
        BY <2>3, <3>1, <4>2 DEF Unmarked
    <3>2. CASE ClearCompleted(t)
      BY <2>2, <2>4, <3>2 DEF Unmarked, TxRow, TypeOK
    <3>3. CASE DlqLands(t) \/ InsertTxsync(t) \/ SetPending(t)
      BY <2>5, <3>3 DEF Unmarked
    <3>4. QED
      BY <1>10, <3>1, <3>2, <3>3
  <2>7. QED
    BY <1>2, <2>1, <2>2, <2>6 DEF Unmarked
<1>11. ASSUME NEW t \in Txid, NetworkMoves(t) PROVE Evidence'
  <2>1. \A u \in Txid : chain'[u] # "mined" => chain[u] # "mined"
    BY <1>11 DEF NetworkMoves, TypeOK
  <2>2. QED
    BY <1>2, <1>3, <1>11, <2>1 DEF NetworkMoves, db, mem
<1>12. CASE PollReads \/ Restart \/ UNCHANGED vars
  BY <1>2, <1>3, <1>12 DEF PollReads, Restart, vars, db, mem
<1>13. QED
  BY <1>1, <1>5, <1>6, <1>7, <1>8, <1>9, <1>10, <1>11, <1>12 DEF Next

(* A transaction that is not in a block is never reported complete.             *)
THEOREM NoFalseCompletion == Spec => []CompletedOnlyIfMined
<1>1. Init => Evidence
  <2>1. Init => \A t \in Txid : Unmarked(t) /\ \A n \in Runs : run[t][n] = Free
    BY DEF Init, Unmarked
  <2>2. QED
    BY <2>1, NewIgnorant DEF Evidence
<1>2. Evidence => CompletedOnlyIfMined
  BY DEF Evidence, Unmarked, CompletedOnlyIfMined
<1>3. QED
  BY <1>1, <1>2, EvidenceStep, TypeCorrect, PTL DEF Spec

-----------------------------------------------------------------------------
(* Strengthening of BlockStatusCompletes: while nobody has asked for a resync,  *)
(* an execution about to write sync success has already written completed.      *)
BlockSeen(t) == \/ IsSuccess(tx[t].status)
                \/ txsync[t].sync = "success"
                \/ \E n \in Runs : run[t][n].pc = "markTxsync"
Block ==
  used.resyncs = 0 =>
    \A t \in Txid : resync[t] = "idle" /\ (BlockSeen(t) => tx[t].completed)

(* Every step but those of a run keeps what Block says of the two rows, and     *)
(* moves no execution to markTxsync.                                            *)
LEMMA BlockKept ==
  ASSUME Block, used'.resyncs = 0 => used.resyncs = 0, UNCHANGED <<tx, txsync, resync>>,
         \A u \in Txid, m \in Runs : run'[u][m].pc = "markTxsync" => run[u][m].pc = "markTxsync"
  PROVE  Block'
  BY DEF Block, BlockSeen

LEMMA NewPc ==
  /\ \A pc : New(pc).pc = pc
  /\ Free.pc = "free"
  /\ \A t \in Txid, n \in Runs, outcome \in Returned :
       Ended(t, n, outcome).pc \in {"free", outcome}
  BY DEF New, Free, Ended

LEMMA RunStepBlock ==
  ASSUME TypeOK, Block, NEW t \in Txid, NEW n \in Runs, RunStep(t, n) \/ Throws(t, n)
  PROVE  Block'
<1> USE DEF At, Ends, Goes
<1> DEFINE r == run[t][n]
<1>a. r \in Run /\ tx[t] \in TxRow
  BY DEF TypeOK
<1>b. used' = used /\ resync' = resync
  BY DEF RunStep, Throws, GetTxsync, GetTx, StatusTx, SaveTxStatus, MarkTx, MarkTxsync,
         GetRawtx, PushTx, SaveTxSend, asks
<1>c. ASSUME tx' = tx, txsync' = txsync, NEW q, Becomes(t, n, q), q.pc # "markTxsync"
      PROVE  Block'
  BY <1>b, <1>c, BecomesRun, BlockKept
<1>d. \A outcome \in Returned : Ended(t, n, outcome).pc # "markTxsync"
  BY NewPc DEF Returned
<1>e. /\ \A pc : [r EXCEPT !.pc = pc].pc = pc
      /\ \A pc, ans : [r EXCEPT !.pc = pc, !.ans = ans].pc = pc
      /\ \A pc, synced : [r EXCEPT !.pc = pc, !.synced = synced].pc = pc
      /\ \A again : [New("markTx") EXCEPT !.again = again].pc = "markTx"
      /\ New("getRawtx").pc = "getRawtx"
  BY <1>a DEF Run, New
<1>f. ASSUME tx' = tx, txsync' = txsync, NEW outcome \in Returned,
             Becomes(t, n, Ended(t, n, outcome))
      PROVE  Block'
  BY <1>c, <1>d, <1>f
<1>g. ASSUME tx' = tx, txsync' = txsync, NEW pc \in Awaiting \ {"markTxsync"},
             Becomes(t, n, [r EXCEPT !.pc = pc])
      PROVE  Block'
  <2> DEFINE q == [r EXCEPT !.pc = pc]
  <2>1. q.pc # "markTxsync"
    BY <1>e, <1>g
  <2>2. Becomes(t, n, q)
    BY <1>g
  <2> HIDE DEF q
  <2>3. QED
    BY <1>c, <1>g, <2>1, <2>2
<1>1. CASE GetTxsync(t, n) \/ GetTx(t, n) \/ GetRawtx(t, n) \/ Throws(t, n)
  <2>1. tx' = tx /\ txsync' = txsync
    BY <1>1 DEF GetTxsync, GetTx, GetRawtx, Throws, db
  <2>2. CASE \E outcome \in Returned : Becomes(t, n, Ended(t, n, outcome))
    BY <1>f, <2>1, <2>2
  <2>3. CASE \E pc \in Awaiting \ {"markTxsync"} : Becomes(t, n, [r EXCEPT !.pc = pc])
    BY <1>g, <2>1, <2>3
  <2>4. CASE Becomes(t, n, [r EXCEPT !.pc = "getTx", !.synced = (txsync[t].sync = "success")])
    <3> DEFINE q == [r EXCEPT !.pc = "getTx", !.synced = (txsync[t].sync = "success")]
    <3>1. q.pc # "markTxsync"
      BY <1>e
    <3>2. Becomes(t, n, q)
      BY <2>4
    <3> HIDE DEF q
    <3>3. QED
      BY <1>c, <2>1, <3>1, <3>2
  <2>5. QED
    BY <1>1, <2>2, <2>3, <2>4 DEF GetTxsync, GetTx, GetRawtx, Throws, Returned, Awaiting
<1>2. CASE StatusTx(t, n) \/ PushTx(t, n)
  <2>1. tx' = tx /\ txsync' = txsync
    BY <1>2 DEF StatusTx, PushTx, db
  <2>2. PICK pc \in {"saveTxStatus", "saveTxSend"}, ans \in Answers \cup {"success", "failure"} :
          Becomes(t, n, [r EXCEPT !.pc = pc, !.ans = ans])
    BY <1>2 DEF StatusTx, PushTx, Answers, Answerable
  <2>3. QED
    BY <1>c, <1>e, <2>1, <2>2
<1>3. CASE SaveTxStatus(t, n)
  <2>1. /\ txsync' = txsync
        /\ tx' = [tx EXCEPT ![t] = [tx[t] EXCEPT !.status = Stored(r.ans),
                                                 !.completed = CompletedBySave(t, r.ans)]]
    BY <1>3 DEF SaveTxStatus, TypeOK
  <2>2. \E q : Becomes(t, n, q) /\ q.pc # "markTxsync"
    BY <1>3, <1>d, <1>e DEF SaveTxStatus, Returned
  <2>3. \A u \in Txid, m \in Runs :
          run'[u][m].pc = "markTxsync" => run[u][m].pc = "markTxsync"
    BY <2>2, BecomesRun
  <2>4. /\ tx'[t].status = Stored(r.ans)
        /\ tx'[t].completed = (tx[t].completed \/ IsSuccess(r.ans))
    BY <1>a, <2>1 DEF TypeOK, TxRow, CompletedBySave
  <2>5. IsSuccess(tx'[t].status) => tx'[t].completed
    BY <2>4 DEF Stored, IsSuccess
  <2>6. tx[t].completed => tx'[t].completed
    BY <2>4
  <2>7. \A u \in Txid \ {t} : tx'[u] = tx[u]
    BY <2>1 DEF TypeOK
  <2>8. SUFFICES ASSUME used.resyncs = 0, NEW u \in Txid,
                        BlockSeen(u)'
                 PROVE  tx'[u].completed
    BY <1>b DEF Block, BlockSeen
  <2>9. CASE u = t
    BY <2>1, <2>3, <2>5, <2>6, <2>8, <2>9 DEF Block, BlockSeen, IsSuccess
  <2>10. CASE u # t
    BY <2>1, <2>3, <2>7, <2>8, <2>10 DEF Block, BlockSeen, IsSuccess
  <2>11. QED
    BY <2>9, <2>10
<1>4. CASE MarkTx(t, n)
  <2>1. /\ txsync' = txsync
        /\ tx' = [tx EXCEPT ![t] = [tx[t] EXCEPT !.completed = TRUE]]
    BY <1>4 DEF MarkTx, TypeOK
  <2>2. tx'[t].completed /\ \A u \in Txid \ {t} : tx'[u] = tx[u]
    BY <1>a, <2>1 DEF TypeOK, TxRow
  <2>3. \A u \in Txid \ {t}, m \in Runs : run'[u][m] = run[u][m]
    BY <1>4, BecomesRun DEF MarkTx
  <2>4. QED
    BY <1>b, <2>1, <2>2, <2>3 DEF Block, BlockSeen
<1>5. CASE MarkTxsync(t, n)
  <2>1. /\ tx' = tx
        /\ \A u \in Txid \ {t} : txsync'[u] = txsync[u]
        /\ r.pc = "markTxsync"
    BY <1>5 DEF MarkTxsync, TypeOK
  <2>2. \E q : Becomes(t, n, q) /\ q.pc # "markTxsync"
    BY <1>5, <1>d, NewPc DEF MarkTxsync, Returned
  <2>3. \A u \in Txid, m \in Runs :
          run'[u][m].pc = "markTxsync" => run[u][m].pc = "markTxsync"
    BY <2>2, BecomesRun
  <2>4. SUFFICES ASSUME used.resyncs = 0, NEW u \in Txid,
                        BlockSeen(u)'
                 PROVE  tx'[u].completed
    BY <1>b DEF Block, BlockSeen
  <2>5. CASE u = t
    BY <2>1, <2>4, <2>5 DEF Block, BlockSeen, IsSuccess
  <2>6. CASE u # t
    BY <2>1, <2>3, <2>4, <2>6 DEF Block, BlockSeen, IsSuccess
  <2>7. QED
    BY <2>5, <2>6
<1>6. CASE SaveTxSend(t, n)
  <2>1. /\ txsync' = txsync
        /\ tx' = [tx EXCEPT ![t] = [tx[t] EXCEPT !.send = r.ans]]
    BY <1>6 DEF SaveTxSend, TypeOK
  <2>2. \A u \in Txid : tx'[u].status = tx[u].status /\ tx'[u].completed = tx[u].completed
    BY <2>1, <1>a DEF TypeOK, TxRow
  <2>3. \A u \in Txid, m \in Runs :
          run'[u][m].pc = "markTxsync" => run[u][m].pc = "markTxsync"
    <3>1. CASE Ends(t, n, "rejected")
      BY <1>d, <3>1, BecomesRun DEF Returned
    <3>2. ASSUME NEW m \in FreeRun(t, "refresh"),
                 run' = [run EXCEPT ![t][n] = Ended(t, n, "rejected"), ![t][m] = New("statusTx")]
          PROVE  \A u \in Txid, k \in Runs :
                   run'[u][k] \in {run[u][k], Ended(t, n, "rejected"), New("statusTx")}
      BY <3>2 DEF TypeOK, FreeRun
    <3>3. QED
      BY <1>6, <1>d, <3>1, <3>2, NewPc DEF SaveTxSend, Returned
  <2>4. QED
    BY <1>b, <2>1, <2>2, <2>3 DEF Block, BlockSeen
<1>7. QED
  BY <1>1, <1>2, <1>3, <1>4, <1>5, <1>6 DEF RunStep

LEMMA BlockStep == TypeOK /\ Block /\ [Next]_vars => Block'
<1> SUFFICES ASSUME TypeOK, Block, [Next]_vars PROVE Block'
  OBVIOUS
<1>1. ASSUME NEW t \in Txid, NEW n \in Runs, RunStep(t, n) \/ Throws(t, n) PROVE Block'
  BY <1>1, RunStepBlock
<1>2. ASSUME NEW S \in SUBSET Txid, EnqAll(S)
      PROVE  \A u \in Txid, m \in Runs :
               run'[u][m].pc = "markTxsync" => run[u][m].pc = "markTxsync"
  <2>1. \A u \in Txid, m \in Runs : run'[u][m] = run[u][m] \/ run'[u][m] = New("queued")
    BY <1>2, EnqAllEffect
  <2>2. QED
    BY <2>1, NewPc
<1>3. CASE StartJob
  <2> DEFINE job == Head(cqueue)
             r   == run[job[1]][job[2]]
  <2>1. /\ job[1] \in Txid /\ job[2] \in Runs
        /\ run' = [run EXCEPT ![job[1]] =
                     [run[job[1]] EXCEPT ![job[2]] = [r EXCEPT !.pc = "getTxsync"]]]
    BY <1>3, HeadTailProperties DEF StartJob, TypeOK
  <2>2. [r EXCEPT !.pc = "getTxsync"].pc = "getTxsync"
    BY <2>1 DEF TypeOK, Run
  <2>3. \A u \in Txid, m \in Runs : \/ run'[u][m] = run[u][m]
                                   \/ run'[u][m] = [r EXCEPT !.pc = "getTxsync"]
    BY <2>1 DEF TypeOK
  <2>4. \A u \in Txid, m \in Runs :
          run'[u][m].pc = "markTxsync" => run[u][m].pc = "markTxsync"
    BY <2>2, <2>3
  <2>5. QED
    BY <1>3, <2>4, BlockKept DEF StartJob, db, asks
<1>4. CASE PollEnqs
  BY <1>2, <1>4, BlockKept DEF PollEnqs, TypeOK, db
<1>5. CASE Crash
  <2>1. \A u \in Txid, m \in Runs : run'[u][m].pc = "free"
    BY <1>5, NewPc DEF Crash
  <2>2. used'.resyncs = used.resyncs /\ UNCHANGED <<tx, txsync>>
        /\ \A u \in Txid : resync'[u] = "idle"
    BY <1>5 DEF Crash, TypeOK, db
  <2>3. QED
    BY <2>1, <2>2 DEF Block, BlockSeen
<1>6. ASSUME NEW t \in Txid, BackoffFires(t) \/ RetryReturns(t) \/ ManualSync(t) PROVE Block'
  <2>1. PICK n \in Runs, r \in {New("queued"), Free, New("getTxsync")} :
          run' = [run EXCEPT ![t][n] = r]
    BY <1>6 DEF BackoffFires, RetryReturns, ManualSync, FreeRun
  <2>2. r.pc # "markTxsync"
    BY <2>1, NewPc
  <2>3. \A u \in Txid, m \in Runs :
          run'[u][m].pc = "markTxsync" => run[u][m].pc = "markTxsync"
    BY <2>1, <2>2 DEF TypeOK
  <2>4. used'.resyncs = used.resyncs /\ UNCHANGED <<tx, txsync, resync>>
    BY <1>6 DEF BackoffFires, RetryReturns, ManualSync, TypeOK, db, asks
  <2>5. QED
    BY <2>3, <2>4, BlockKept
<1>7. ASSUME NEW t \in Txid, SaveEnq(t) PROVE Block'
  BY <1>2, <1>7, BlockKept DEF SaveEnq, db
<1>8. ASSUME NEW t \in Txid, ResyncTx(t) PROVE Block'
  BY <1>8 DEF ResyncTx, Block, TypeOK
<1>9. ASSUME NEW t \in Txid, ClearCompleted(t) \/ SetPending(t) PROVE Block'
  BY <1>9 DEF ClearCompleted, SetPending, Block
<1>10. ASSUME NEW t \in Txid, NEW post \in Posts, SaveTx(t, post) PROVE Block'
  <2>1. /\ used'.resyncs = used.resyncs /\ txsync' = txsync
        /\ run' = run /\ resync' = resync
    BY <1>10 DEF SaveTx, TypeOK, mem
  <2>2. PICK x : tx' = [tx EXCEPT ![t] = [tx[t] EXCEPT !.rawtx = x]]
    BY <1>10 DEF SaveTx, TypeOK
  <2>3. \A u \in Txid : tx'[u].status = tx[u].status /\ tx'[u].completed = tx[u].completed
    BY <2>2 DEF TypeOK, TxRow
  <2>4. QED
    BY <2>1, <2>3 DEF Block, BlockSeen
<1>11. ASSUME NEW t \in Txid, DlqLands(t) \/ InsertTxsync(t) PROVE Block'
  <2>1. used' = used /\ tx' = tx /\ run' = run /\ resync' = resync
    BY <1>11 DEF DlqLands, InsertTxsync, mem, asks
  <2>2. txsync'[t].sync \in {txsync[t].sync, "fail", "none", "pending"}
        /\ \A u \in Txid \ {t} : txsync'[u] = txsync[u]
    BY <1>11 DEF DlqLands, InsertTxsync, DeadRow, TypeOK, TxsyncRow
  <2>3. \A u \in Txid : txsync'[u].sync = "success" => txsync[u].sync = "success"
    BY <2>2
  <2>4. QED
    BY <2>1, <2>3 DEF Block, BlockSeen
<1>12. ASSUME NEW t \in Txid, NetworkMoves(t) PROVE Block'
  BY <1>12, BlockKept DEF NetworkMoves, db, mem, asks
<1>13. CASE PollReads \/ Restart \/ UNCHANGED vars
  BY <1>13, BlockKept DEF PollReads, Restart, vars, db, mem, asks
<1>14. QED
  BY <1>1, <1>3, <1>4, <1>5, <1>6, <1>7, <1>8, <1>9, <1>10, <1>11, <1>12, <1>13 DEF Next

(* Before any resync, a block status or a success state comes with completed.   *)
THEOREM BlockCompletes == Spec => []BlockStatusCompletes
<1>1. Init => Block
  BY NewPc DEF Init, Block, BlockSeen, IsSuccess
<1>2. Block => BlockStatusCompletes
  BY DEF Block, BlockSeen, BlockStatusCompletes
<1>3. QED
  BY <1>1, <1>2, BlockStep, TypeCorrect, PTL DEF Spec

-----------------------------------------------------------------------------
(* An execution as a step leaves it: nearer to its end, and with what its next   *)
(* call needs.                                                                   *)
Ready(r) == /\ r.pc = "saveTxStatus" => r.ans \in Answers
            /\ r.pc = "saveTxSend" => r.ans \in {"success", "failure"}
Nearer(q, r) == CallsLeft(q) < CallsLeft(r) /\ Ready(q)

LEMMA CallsLeftOfNew ==
  /\ \A pc \in DOMAIN Stages : CallsLeft(New(pc)) = Stages[pc]
  /\ \A pc \in DOMAIN Stages \ {"saveTxStatus", "saveTxSend"} : Ready(New(pc))
  /\ Ready(Free) /\ CallsLeft(Free) = 0
  BY DEF CallsLeft, Stages, New, Ready, Free

LEMMA CallsLeftAwaiting ==
  ASSUME NEW r \in Run
  PROVE  /\ CallsLeft(r) \in Nat
         /\ r.pc \in Awaiting => CallsLeft(r) > 1
         /\ r.pc \in Returned => CallsLeft(r) > 0
         /\ r.pc = "queued" => CallsLeft(r) > 9
  BY DEF Run, CallsLeft, Stages, Awaiting, Returned

LEMMA EndedNearer ==
  ASSUME NEW t \in Txid, NEW n \in Runs, NEW r \in Run, r.pc \in Awaiting, NEW outcome \in Returned
  PROVE  Nearer(Ended(t, n, outcome), r)
<1>1. Ended(t, n, outcome) \in {New("resolved"), New("rejected"), Free}
  BY DEF Ended, Returned
<1>2. CallsLeft(Ended(t, n, outcome)) \in {0, 1} /\ Ready(Ended(t, n, outcome))
  BY <1>1, CallsLeftOfNew DEF Stages
<1> QED
  BY <1>2, CallsLeftAwaiting DEF Nearer

(* Going on to a later call. *)
LEMMA GoesNearer ==
  ASSUME NEW r \in Run, NEW q, q.pc \in Awaiting, q.again = r.again, Stages[q.pc] < Stages[r.pc],
         Ready(q)
  PROVE  Nearer(q, r)
<1>1. Stages[q.pc] \in Nat
  BY DEF Stages, Awaiting
<1>2. Stages[r.pc] \in Nat
  BY DEF Stages, Awaiting, Returned, Run
<1> DEFINE a == Stages[q.pc]
           b == Stages[r.pc]
           c == IF r.again THEN 2 ELSE 0
<1>3. CallsLeft(q) = a + c /\ CallsLeft(r) = b + c
  BY DEF CallsLeft
<1>4. a \in Nat /\ b \in Nat /\ c \in Nat /\ a < b
  BY <1>1, <1>2
<1> HIDE DEF a, b, c
<1>5. a + c < b + c
  BY <1>4
<1> QED
  BY <1>3, <1>5 DEF Nearer

(* What a step of an execution does to all of them: its own gets nearer its end, *)
(* and a free one may become a refresh.                                          *)
Proceeds(t, n) ==
  /\ Nearer(run'[t][n], run[t][n])
  /\ \A u \in Txid, m \in Runs :
       \/ u = t /\ m = n
       \/ run'[u][m] = run[u][m]
       \/ At(u, m, "free") /\ run'[u][m] = New("statusTx")

LEMMA BecomesProceeds ==
  ASSUME TypeOK, NEW t \in Txid, NEW n \in Runs, NEW q, Becomes(t, n, q), Nearer(q, run[t][n])
  PROVE  Proceeds(t, n)
  BY BecomesRun DEF Proceeds

LEMMA RunStepProceeds ==
  ASSUME TypeOK, CallsCanBeMade, NEW t \in Txid, NEW n \in Runs, RunStep(t, n) \/ Throws(t, n)
  PROVE  Proceeds(t, n)
<1> USE DEF At
<1> DEFINE r == run[t][n]
<1>a. r \in Run /\ r.pc \in Awaiting
  <2>1. r \in Run
    BY DEF TypeOK
  <2>2. CASE Throws(t, n)
    BY <2>1, <2>2 DEF Throws
  <2>3. CASE RunStep(t, n)
    BY <2>1, <2>3 DEF RunStep, GetTxsync, GetTx, StatusTx, SaveTxStatus, MarkTx, MarkTxsync,
                      GetRawtx, PushTx, SaveTxSend, Awaiting
  <2> QED
    BY <2>2, <2>3
<1>b. ASSUME NEW outcome \in Returned, Ends(t, n, outcome) PROVE Proceeds(t, n)
  BY <1>a, <1>b, EndedNearer, BecomesProceeds DEF Ends
<1>c. ASSUME NEW q, Becomes(t, n, q), q.pc \in Awaiting, q.again = r.again,
             Stages[q.pc] < Stages[r.pc], Ready(q)
      PROVE  Proceeds(t, n)
  BY <1>a, <1>c, GoesNearer, BecomesProceeds
<1>d. "resolved" \in Returned /\ "rejected" \in Returned
  BY DEF Returned
<1>1. CASE GetTxsync(t, n)
  <2> DEFINE q == [r EXCEPT !.pc = "getTx", !.synced = (txsync[t].sync = "success")]
  <2>1. q.pc \in Awaiting /\ q.again = r.again /\ Ready(q) /\ Stages[q.pc] < Stages[r.pc]
    BY <1>1, <1>a DEF Run, Awaiting, Ready, Stages, GetTxsync
  <2>2. Becomes(t, n, q) \/ Ends(t, n, "rejected")
    BY <1>1 DEF GetTxsync
  <2> HIDE DEF q
  <2> QED
    BY <1>b, <1>c, <1>d, <2>1, <2>2
<1>2. CASE GetTx(t, n)
  <2> DEFINE q(pc) == [r EXCEPT !.pc = pc]
  <2>1. \A pc \in {"markTx", "statusTx"} : /\ q(pc).pc \in Awaiting /\ q(pc).again = r.again /\ Ready(q(pc))
                                           /\ Stages[q(pc).pc] < Stages[r.pc]
    BY <1>2, <1>a DEF Run, Awaiting, Ready, Stages, GetTx
  <2>2. \/ Ends(t, n, "rejected") \/ Ends(t, n, "resolved")
        \/ Becomes(t, n, q("markTx")) \/ Becomes(t, n, q("statusTx"))
    BY <1>2 DEF GetTx, Goes
  <2> HIDE DEF q
  <2> QED
    BY <1>b, <1>c, <1>d, <2>1, <2>2
<1>3. CASE StatusTx(t, n)
  <2>1. PICK answer \in Answers : Becomes(t, n, [r EXCEPT !.pc = "saveTxStatus", !.ans = answer])
    BY <1>3 DEF StatusTx, Answerable, Answers
  <2> DEFINE q == [r EXCEPT !.pc = "saveTxStatus", !.ans = answer]
  <2>2. q.pc \in Awaiting /\ q.again = r.again /\ Ready(q) /\ Stages[q.pc] < Stages[r.pc]
    BY <1>3, <1>a, <2>1 DEF Run, Awaiting, Ready, Stages, StatusTx
  <2>3. Becomes(t, n, q)
    BY <2>1
  <2> HIDE DEF q
  <2> QED
    BY <1>c, <2>2, <2>3
<1>4. CASE SaveTxStatus(t, n)
  <2>1. \/ Becomes(t, n, [New("markTx") EXCEPT !.again = MarksAgain(t, n)])
        \/ Becomes(t, n, New("getRawtx")) \/ Ends(t, n, "rejected")
    BY <1>4 DEF SaveTxStatus
  <2>2. CallsLeft(r) > 5
    BY <1>4, <1>a DEF SaveTxStatus, CallsLeft, Stages, Run
  <2>3. CASE Becomes(t, n, [New("markTx") EXCEPT !.again = MarksAgain(t, n)])
    <3> DEFINE q == [New("markTx") EXCEPT !.again = MarksAgain(t, n)]
    <3>1. q.pc = "markTx" /\ q.again = MarksAgain(t, n)
      BY DEF New
    <3> HIDE DEF q
    <3>2. CallsLeft(q) \in {3, 5} /\ Ready(q)
      BY <3>1 DEF CallsLeft, Stages, Ready
    <3>3. Nearer(q, r)
      BY <2>2, <3>2, <1>a, CallsLeftAwaiting DEF Nearer
    <3>4. Becomes(t, n, q)
      BY <2>3 DEF q
    <3> QED
      BY <3>3, <3>4, BecomesProceeds
  <2>4. CASE Becomes(t, n, New("getRawtx"))
    <3>1. CallsLeft(New("getRawtx")) = 5 /\ Ready(New("getRawtx"))
      BY CallsLeftOfNew DEF Stages
    <3> QED
      BY <2>2, <2>4, <3>1, BecomesProceeds DEF Nearer
  <2> QED
    BY <1>b, <1>d, <2>1, <2>3, <2>4
<1>5. CASE MarkTx(t, n)
  <2> DEFINE q == [r EXCEPT !.pc = "markTxsync"]
  <2>1. q.pc \in Awaiting /\ q.again = r.again /\ Ready(q) /\ Stages[q.pc] < Stages[r.pc]
    BY <1>5, <1>a DEF Run, Awaiting, Ready, Stages, MarkTx
  <2>2. Becomes(t, n, q)
    BY <1>5 DEF MarkTx, Goes
  <2> HIDE DEF q
  <2> QED
    BY <1>c, <2>1, <2>2
<1>6. CASE MarkTxsync(t, n)
  <2>1. CASE r.again /\ Becomes(t, n, New("markTx"))
    <3>1. CallsLeft(New("markTx")) = 3 /\ Ready(New("markTx"))
      BY CallsLeftOfNew DEF Stages
    <3>2. CallsLeft(r) = 4
      BY <1>6, <2>1 DEF MarkTxsync, CallsLeft, Stages
    <3> QED
      BY <2>1, <3>1, <3>2, BecomesProceeds DEF Nearer
  <2> QED
    BY <1>6, <1>b, <1>d, <2>1 DEF MarkTxsync
<1>7. CASE GetRawtx(t, n)
  <2> DEFINE q == [r EXCEPT !.pc = "pushTx"]
  <2>1. q.pc \in Awaiting /\ q.again = r.again /\ Ready(q) /\ Stages[q.pc] < Stages[r.pc]
    BY <1>7, <1>a DEF Run, Awaiting, Ready, Stages, GetRawtx
  <2>2. Becomes(t, n, q) \/ Ends(t, n, "rejected")
    BY <1>7 DEF GetRawtx, Goes
  <2> HIDE DEF q
  <2> QED
    BY <1>b, <1>c, <1>d, <2>1, <2>2
<1>8. CASE PushTx(t, n)
  <2>1. PICK response \in {"success", "failure"} :
          Becomes(t, n, [r EXCEPT !.pc = "saveTxSend", !.ans = response])
    BY <1>8 DEF PushTx
  <2> DEFINE q == [r EXCEPT !.pc = "saveTxSend", !.ans = response]
  <2>2. q.pc \in Awaiting /\ q.again = r.again /\ Ready(q) /\ Stages[q.pc] < Stages[r.pc]
    BY <1>8, <1>a, <2>1 DEF Run, Awaiting, Ready, Stages, PushTx
  <2>3. Becomes(t, n, q)
    BY <2>1
  <2> HIDE DEF q
  <2> QED
    BY <1>c, <2>2, <2>3
<1>9. CASE SaveTxSend(t, n)
  <2>1. ASSUME NEW m \in FreeRun(t, "refresh"),
               run' = [run EXCEPT ![t][n] = Ended(t, n, "rejected"), ![t][m] = New("statusTx")]
        PROVE  Proceeds(t, n)
    <3>1. m \in Runs /\ run[t][m].pc = "free" /\ m # n
      BY <1>a DEF FreeRun, Awaiting
    <3>2. /\ run'[t][n] = Ended(t, n, "rejected") /\ run'[t][m] = New("statusTx")
          /\ \A u \in Txid, k \in Runs : (u = t /\ k \in {m, n}) \/ run'[u][k] = run[u][k]
      BY <2>1, <3>1 DEF TypeOK
    <3>3. Nearer(Ended(t, n, "rejected"), r)
      BY <1>a, <1>d, EndedNearer
    <3> QED
      BY <3>1, <3>2, <3>3 DEF Proceeds
  <2> QED
    BY <1>9, <1>b, <1>d, <2>1 DEF SaveTxSend
<1>10. CASE Throws(t, n)
  BY <1>10, <1>b, <1>d DEF Throws
<1> QED
  BY <1>1, <1>2, <1>3, <1>4, <1>5, <1>6, <1>7, <1>8, <1>9, <1>10 DEF RunStep

(* Every other step leaves an execution alone, ends it, or starts a free one.    *)
Onward ==
  \A t \in Txid, n \in Runs :
    \/ run'[t][n] = run[t][n]
    \/ At(t, n, "free") /\ run'[t][n] \in {New("queued"), New("getTxsync"), New("statusTx"), Free}
    \/ ~At(t, n, "free") /\ Nearer(run'[t][n], run[t][n])

LEMMA StepOnward ==
  ASSUME RetryInv, CallsCanBeMade, [Next]_vars
  PROVE  Onward
<1> USE DEF RetryInv
<1>1. ASSUME NEW t \in Txid, NEW n \in Runs, RunStep(t, n) \/ Throws(t, n) PROVE Onward
  <2>1. Proceeds(t, n) /\ ~At(t, n, "free")
    BY <1>1, RunStepProceeds DEF RunStep, Throws, GetTxsync, GetTx, StatusTx, SaveTxStatus, MarkTx,
       MarkTxsync, GetRawtx, PushTx, SaveTxSend, Awaiting, At
  <2> QED
    BY <2>1 DEF Onward, Proceeds
<1>2. ASSUME NEW S \in SUBSET Txid, EnqAll(S) PROVE Onward
  BY <1>2, EnqAllEffect DEF Onward
<1>3. CASE StartJob
  <2>1. /\ cqueue \in Seq(Txid \X Jobs) /\ cqueue # <<>>
    BY <1>3 DEF StartJob, TypeOK
  <2>2. Head(cqueue) = cqueue[1] /\ cqueue[1] \in Txid \X Jobs /\ 1 \in 1 .. Len(cqueue)
    BY <2>1
  <2>3. PICK t \in Txid, n \in Runs : cqueue[1] = <<t, n>>
    BY <2>2
  <2>4. At(t, n, "queued")
    BY <2>2, <2>3 DEF JobsWait
  <2>5. run' = [run EXCEPT ![t][n].pc = "getTxsync"]
    <3>1. PICK job : job = Head(cqueue) /\ run' = [run EXCEPT ![job[1]][job[2]].pc = "getTxsync"]
      BY <1>3 DEF StartJob
    <3>2. job[1] = t /\ job[2] = n
      BY <2>2, <2>3, <3>1
    <3> QED
      BY <3>1, <3>2
  <2> DEFINE q == [run[t][n] EXCEPT !.pc = "getTxsync"]
  <2>6. \A u \in Txid, m \in Runs : run'[u][m] = IF u = t /\ m = n THEN q ELSE run[u][m]
    BY <2>5 DEF TypeOK
  <2>7. run[t][n] \in Run
    BY DEF TypeOK
  <2>8. q.pc \in Awaiting /\ q.again = run[t][n].again /\ Ready(q) /\ Stages[q.pc] < Stages[run[t][n].pc]
    BY <2>4, <2>7 DEF Run, Awaiting, Ready, Stages, At
  <2> HIDE DEF q
  <2>9. Nearer(q, run[t][n])
    BY <2>7, <2>8, GoesNearer
  <2> QED
    BY <2>4, <2>6, <2>9 DEF Onward, At
<1>4. ASSUME NEW t \in Txid, BackoffFires(t) \/ ManualSync(t) PROVE Onward
  <2>1. PICK n \in Runs, r \in {New("queued"), New("getTxsync")} :
          At(t, n, "free") /\ run' = [run EXCEPT ![t][n] = r]
    BY <1>4 DEF BackoffFires, ManualSync, FreeRun
  <2> QED
    BY <2>1 DEF Onward, TypeOK
<1>5. ASSUME NEW t \in Txid, RetryReturns(t) PROVE Onward
  <2>1. PICK n \in Runs : run[t][n].pc \in Returned /\ run' = [run EXCEPT ![t][n] = Free]
    BY <1>5 DEF RetryReturns
  <2>2. Nearer(Free, run[t][n]) /\ ~At(t, n, "free")
    <3>1. run[t][n] \in Run
      BY DEF TypeOK
    <3>2. CallsLeft(run[t][n]) > 0
      BY <2>1, <3>1, CallsLeftAwaiting
    <3> QED
      BY <2>1, <3>2, CallsLeftOfNew DEF Nearer, At, Returned
  <2>3. \A u \in Txid, m \in Runs : run'[u][m] = IF u = t /\ m = n THEN Free ELSE run[u][m]
    BY <2>1 DEF TypeOK
  <2> QED
    BY <2>2, <2>3 DEF Onward
<1>6. CASE Crash
  <2>1. ASSUME NEW t \in Txid, NEW n \in Runs, ~At(t, n, "free")
        PROVE  CallsLeft(run[t][n]) > 0
    <3>1. run[t][n] \in Run
      BY DEF TypeOK
    <3>2. run[t][n].pc \in Awaiting \cup Returned \cup {"queued"} /\ CallsLeft(run[t][n]) \in Nat
      BY <2>1, <3>1, CallsLeftAwaiting DEF Run, At
    <3> QED
      BY <3>1, <3>2, CallsLeftAwaiting
  <2>2. \A t \in Txid, n \in Runs : run'[t][n] = Free
    BY <1>6 DEF Crash
  <2> QED
    BY <2>1, <2>2, CallsLeftOfNew DEF Onward, Nearer
<1>7. ASSUME NEW t \in Txid, SaveEnq(t) \/ ResyncTx(t) PROVE Onward
  <2>1. {t} \in SUBSET Txid /\ EnqAll({t})
    BY <1>7 DEF SaveEnq, ResyncTx
  <2> QED
    BY <1>2, <2>1
<1>8. CASE PollEnqs
  BY <1>2, <1>8 DEF PollEnqs, TypeOK
<1>9. ASSUME run' = run PROVE Onward
  BY <1>9 DEF Onward
<1>10. ASSUME NEW t \in Txid, \/ (\E post \in Posts : SaveTx(t, post)) \/ ClearCompleted(t)
                              \/ DlqLands(t) \/ InsertTxsync(t) \/ SetPending(t) \/ NetworkMoves(t)
       PROVE  Onward
  BY <1>9, <1>10 DEF SaveTx, ClearCompleted, DlqLands, InsertTxsync, SetPending, NetworkMoves, mem
<1>11. CASE PollReads \/ Restart \/ UNCHANGED vars
  BY <1>9, <1>11 DEF PollReads, Restart, vars, mem
<1> QED
  BY <1>1, <1>3, <1>4, <1>5, <1>6, <1>7, <1>8, <1>10, <1>11 DEF Next

LEMMA CallsStep == RetryInv /\ CallsCanBeMade /\ [Next]_vars => CallsCanBeMade'
<1> SUFFICES ASSUME RetryInv, CallsCanBeMade, [Next]_vars,
                    NEW t \in Txid, NEW n \in Runs
             PROVE  Ready(run'[t][n])
  BY DEF CallsCanBeMade, Ready, At
<1>1. Ready(run[t][n])
  BY DEF CallsCanBeMade, Ready, At
<1>2. Onward
  BY StepOnward
<1>3. Ready(New("queued")) /\ Ready(New("getTxsync")) /\ Ready(New("statusTx")) /\ Ready(Free)
  BY CallsLeftOfNew DEF Stages
<1> QED
  BY <1>1, <1>2, <1>3 DEF Onward, Nearer

LEMMA CallsInit == Init => CallsCanBeMade
  BY DEF Init, CallsCanBeMade, Free, New, At

(* No execution comes to a call it has not the answer for. *)
THEOREM NoCallIsStuck == Spec => []CallsCanBeMade
<1>1. Init => RetryInv /\ CallsCanBeMade
  BY RetryInit, CallsInit
<1> QED
  BY <1>1, RetryStep, CallsStep, PTL DEF Spec

(* Each step of an execution leaves it fewer calls, and no other step disturbs   *)
(* it: if its calls settle, an execution ends after at most nine of them, for     *)
(* any number of transactions, executions and requests at the same time.          *)
THEOREM RunsOnlyGoForward == Spec => RunsGoForward
<1> DEFINE Proceed == \A t \in Txid, n \in Runs : ~At(t, n, "free") =>
       /\ run'[t][n] = run[t][n] \/ CallsLeft(run'[t][n]) < CallsLeft(run[t][n])
       /\ RunStep(t, n) => run'[t][n] # run[t][n]
<1>1. RetryInv /\ CallsCanBeMade /\ [Next]_vars => [Proceed]_vars
  <2> SUFFICES ASSUME RetryInv, CallsCanBeMade, Next, NEW t \in Txid, NEW n \in Runs, ~At(t, n, "free")
               PROVE  /\ run'[t][n] = run[t][n] \/ CallsLeft(run'[t][n]) < CallsLeft(run[t][n])
                      /\ RunStep(t, n) => run'[t][n] # run[t][n]
    OBVIOUS
  <2>1. run'[t][n] = run[t][n] \/ CallsLeft(run'[t][n]) < CallsLeft(run[t][n])
    BY StepOnward DEF Onward, Nearer
  <2>2. ASSUME RunStep(t, n) PROVE run'[t][n] # run[t][n]
    <3>1. CallsLeft(run'[t][n]) < CallsLeft(run[t][n])
      BY <2>2, RunStepProceeds DEF Proceeds, Nearer, RetryInv
    <3>2. CallsLeft(run[t][n]) \in Nat
      BY CallsLeftAwaiting DEF RetryInv, TypeOK
    <3> QED
      BY <3>1, <3>2
  <2> QED
    BY <2>1, <2>2
<1>2. Init => RetryInv /\ CallsCanBeMade
  BY RetryInit, CallsInit
<1> QED
  BY <1>1, <1>2, RetryStep, CallsStep, PTL DEF Spec, RunsGoForward

-----------------------------------------------------------------------------
(* What a step does to the jobs that run: it adds none, or the one that a slot   *)
(* was free for.                                                                 *)
ActiveMoves ==
  \/ Active' \subseteq Active
  \/ Cardinality(Active) < Concurrency /\ \E j : Active' \subseteq Active \cup {j}

(* The jobs of a step that starts no execution but waiting ones, or ones the     *)
(* queue knows nothing of.                                                       *)
LEMMA NoneStarts ==
  ASSUME \A t \in Txid, n \in Jobs : run'[t][n].pc \in Awaiting => run[t][n].pc \in Awaiting
  PROVE  ActiveMoves
<1>1. ASSUME NEW j \in Active' PROVE j \in Active
  <2>1. j \in Txid \X Jobs /\ run'[j[1]][j[2]].pc \in Awaiting
    BY DEF Active
  <2>2. j[1] \in Txid /\ j[2] \in Jobs
    BY <2>1
  <2> QED
    BY <2>1, <2>2 DEF Active
<1> QED
  BY <1>1 DEF ActiveMoves

LEMMA ActiveStep == ASSUME RetryInv, [Next]_vars PROVE ActiveMoves
<1> USE DEF RetryInv
<1>0. \A pc \in {"queued", "free"} : New(pc).pc \notin Awaiting
  BY DEF New, Awaiting
<1>1. ASSUME NEW t \in Txid, NEW n \in Runs, RunStep(t, n) \/ Throws(t, n) PROVE ActiveMoves
  BY <1>1, RunStepEffect, NoneStarts DEF RunEffect
<1>2. ASSUME NEW S \in SUBSET Txid, EnqAll(S) PROVE ActiveMoves
  BY <1>0, <1>2, EnqAllEffect, NoneStarts
<1>3. CASE StartJob
  <2>1. PICK job : job = Head(cqueue) /\ run' = [run EXCEPT ![job[1]][job[2]].pc = "getTxsync"]
    BY <1>3 DEF StartJob
  <2>2. /\ cqueue \in Seq(Txid \X Jobs) /\ cqueue # <<>>
    BY <1>3 DEF StartJob, TypeOK
  <2>3. job \in Txid \X Jobs
    BY <2>1, <2>2
  <2>4. ASSUME NEW j \in Active' PROVE j \in Active \cup {job}
    <3>1. j \in Txid \X Jobs /\ run'[j[1]][j[2]].pc \in Awaiting
      BY DEF Active
    <3>2. j = <<j[1], j[2]>> /\ job = <<job[1], job[2]>> /\ j[1] \in Txid /\ j[2] \in Runs
      BY <2>3, <3>1
    <3>3. CASE j[1] = job[1] /\ j[2] = job[2]
      BY <3>2, <3>3
    <3>4. CASE ~(j[1] = job[1] /\ j[2] = job[2])
      <4>1. run'[j[1]][j[2]] = run[j[1]][j[2]]
        BY <2>1, <2>3, <3>2, <3>4 DEF TypeOK
      <4> QED
        BY <3>1, <4>1 DEF Active
    <3> QED
      BY <3>3, <3>4
  <2> QED
    BY <1>3, <2>4 DEF ActiveMoves, StartJob
<1>4. ASSUME NEW t \in Txid, BackoffFires(t) \/ ManualSync(t) PROVE ActiveMoves
  <2>1. PICK n \in Runs, r \in {New("queued"), New("getTxsync")} :
          /\ run' = [run EXCEPT ![t][n] = r]
          /\ n \in Jobs => r = New("queued")
    BY <1>4 DEF BackoffFires, ManualSync, FreeRun
  <2>2. \A u \in Txid, m \in Jobs : run'[u][m].pc \in Awaiting => run[u][m].pc \in Awaiting
    BY <1>0, <2>1 DEF TypeOK
  <2> QED
    BY <2>2, NoneStarts
<1>5. ASSUME NEW t \in Txid, RetryReturns(t) PROVE ActiveMoves
  <2>1. PICK n \in Runs : run' = [run EXCEPT ![t][n] = Free]
    BY <1>5 DEF RetryReturns
  <2> QED
    BY <1>0, <2>1, NoneStarts DEF Free, TypeOK
<1>6. CASE Crash
  <2>1. \A t \in Txid, n \in Jobs : run'[t][n] = Free
    BY <1>6 DEF Crash
  <2> QED
    BY <1>0, <2>1, NoneStarts DEF Free
<1>7. ASSUME NEW t \in Txid, SaveEnq(t) \/ ResyncTx(t) PROVE ActiveMoves
  <2>1. {t} \in SUBSET Txid /\ EnqAll({t})
    BY <1>7 DEF SaveEnq, ResyncTx
  <2> QED
    BY <1>2, <2>1
<1>8. CASE PollEnqs
  BY <1>2, <1>8 DEF PollEnqs, TypeOK
<1>9. ASSUME run' = run PROVE ActiveMoves
  BY <1>9, NoneStarts
<1>10. ASSUME NEW t \in Txid, \/ (\E post \in Posts : SaveTx(t, post)) \/ ClearCompleted(t)
                              \/ DlqLands(t) \/ InsertTxsync(t) \/ SetPending(t) \/ NetworkMoves(t)
       PROVE  ActiveMoves
  BY <1>9, <1>10 DEF SaveTx, ClearCompleted, DlqLands, InsertTxsync, SetPending, NetworkMoves, mem
<1>11. CASE PollReads \/ Restart \/ UNCHANGED vars
  BY <1>9, <1>11 DEF PollReads, Restart, vars, mem
<1> QED
  BY <1>1, <1>3, <1>4, <1>5, <1>6, <1>7, <1>8, <1>10, <1>11 DEF Next

(* At any time, whatever is saved, resynced, polled, refreshed and crashes, the  *)
(* concurrent queue runs no more executions than it has slots.                   *)
THEOREM SlotsAreKept == Spec => []SlotsSuffice
<1>1. Init => SlotsSuffice
  <2> SUFFICES ASSUME Init PROVE SlotsSuffice
    OBVIOUS
  <2>1. ASSUME NEW j \in Txid \X Jobs PROVE run[j[1]][j[2]].pc \notin Awaiting
    <3>1. j[1] \in Txid /\ j[2] \in Runs
      OBVIOUS
    <3> QED
      BY <3>1 DEF Init, Free, New, Awaiting
  <2>2. Active = {}
    BY <2>1 DEF Active
  <2> QED
    BY <2>2, FS_EmptySet, QueueAssumption DEF SlotsSuffice
<1>2. RetryInv /\ SlotsSuffice /\ [Next]_vars => SlotsSuffice'
  <2> SUFFICES ASSUME RetryInv, SlotsSuffice, [Next]_vars PROVE SlotsSuffice'
    OBVIOUS
  <2>1. IsFiniteSet(Active) /\ Cardinality(Active) \in Nat
    BY FS_CardinalityType DEF SlotsSuffice
  <2>2. CASE Active' \subseteq Active
    BY <2>1, <2>2, FS_Subset, FS_CardinalityType, QueueAssumption DEF SlotsSuffice
  <2>3. ASSUME Cardinality(Active) < Concurrency, NEW j, Active' \subseteq Active \cup {j}
        PROVE  SlotsSuffice'
    <3>1. /\ IsFiniteSet(Active \cup {j}) /\ Cardinality(Active \cup {j}) \in Nat
          /\ Cardinality(Active \cup {j}) <= Cardinality(Active) + 1
      BY <2>1, FS_AddElement, FS_CardinalityType
    <3>2. /\ IsFiniteSet(Active') /\ Cardinality(Active') \in Nat
          /\ Cardinality(Active') <= Cardinality(Active \cup {j})
      BY <2>3, <3>1, FS_Subset, FS_CardinalityType
    <3> QED
      BY <2>1, <2>3, <3>1, <3>2, QueueAssumption DEF SlotsSuffice
  <2> QED
    BY <2>2, <2>3, ActiveStep DEF ActiveMoves
<1> QED
  BY RetryInit, RetryStep, <1>1, <1>2, PTL DEF Spec

-----------------------------------------------------------------------------
(* An order of a finite set goes through all of it. *)
LEMMA OrdersCover ==
  ASSUME NEW S, IsFiniteSet(S), NEW o \in Orders(S)
  PROVE  /\ Cardinality(S) \in Nat /\ o \in [1 .. Cardinality(S) -> S]
         /\ \A s \in S : \E i \in 1 .. Cardinality(S) : o[i] = s
<1>1. Cardinality(S) \in Nat
  BY FS_CardinalityType
<1>2. o \in Injection(1 .. Cardinality(S), S)
  BY DEF Orders, Injection, IsInjective
<1>3. Cardinality(1 .. Cardinality(S)) = Cardinality(S)
  BY <1>1, FS_Interval
<1>4. o \in Surjection(1 .. Cardinality(S), S)
  BY <1>2, <1>3, FS_Injection
<1> QED
  BY <1>1, <1>4 DEF Surjection, Orders

(* What a step does to waiting jobs: nothing new waits, and who still waits has  *)
(* kept a place.                                                                 *)
LEMMA NobodyNewWaits ==
  ASSUME NoJobIsLost, cqueue' = cqueue,
         \A t \in Txid, n \in Jobs : run'[t][n].pc = "queued" => run[t][n].pc = "queued"
  PROVE  NoJobIsLost'
BY DEF NoJobIsLost, At

(* enq: the new ones are in the queue, each at the place its order gives it. *)
LEMMA EnqAllKeeps ==
  ASSUME RetryInv, NoJobIsLost, NEW S \in SUBSET Txid, EnqAll(S)
  PROVE  NoJobIsLost'
<1> USE DEF RetryInv
<1> DEFINE new  == {t \in S : IsNewTask(t)}
           size == Cardinality(new)
<1>1. IsFiniteSet(new)
  <2>1. new \in SUBSET Txid
    OBVIOUS
  <2> QED
    BY <2>1, FS_Subset, TxidAssumption
<1>2. PICK order \in Orders(new), slot \in [new -> Jobs] :
        /\ \A t \in new : slot[t] \in FreeRun(t, "first")
        /\ run' = [t \in Txid |-> IF t \in new
                     THEN [run[t] EXCEPT ![slot[t]] = New("queued")] ELSE run[t]]
        /\ cqueue' = cqueue \o [i \in 1 .. size |-> <<order[i], slot[order[i]]>>]
  BY DEF EnqAll
<1> DEFINE entries == [i \in 1 .. size |-> <<order[i], slot[order[i]]>>]
<1>3. new \subseteq Txid
  OBVIOUS
<1>4. \A t \in Txid, n \in Jobs : run'[t][n] = run[t][n] \/ (t \in new /\ n = slot[t])
  BY <1>2 DEF TypeOK
<1>5. cqueue' = cqueue \o entries
  BY <1>2
<1> HIDE DEF new
<1>6. size \in Nat /\ order \in [1 .. size -> new] /\ \A t \in new : \E i \in 1 .. size : order[i] = t
  BY <1>1, <1>2, OrdersCover
<1> HIDE DEF size
<1>7. entries \in Seq(Txid \X Jobs) /\ Len(entries) = size
  <2>1. entries \in [1 .. size -> Txid \X Jobs]
    BY <1>3, <1>6, <1>2
  <2> QED
    BY <1>6, <2>1
<1>8. \A t \in new : \E i \in 1 .. size : entries[i] = <<t, slot[t]>>
  BY <1>6
<1> HIDE DEF entries
<1>9. cqueue \in Seq(Txid \X Jobs)
  BY DEF TypeOK
<1>10. /\ Len(cqueue) \in Nat /\ Len(cqueue') = Len(cqueue) + size
       /\ \A i \in 1 .. Len(cqueue') :
            cqueue'[i] = IF i <= Len(cqueue) THEN cqueue[i] ELSE entries[i - Len(cqueue)]
  <2>1. Len(cqueue) \in Nat
    BY <1>9, LenProperties
  <2>2. /\ Len(cqueue \o entries) = Len(cqueue) + Len(entries)
        /\ \A i \in 1 .. Len(cqueue) + Len(entries) : (cqueue \o entries)[i] =
             IF i <= Len(cqueue) THEN cqueue[i] ELSE entries[i - Len(cqueue)]
    BY <1>7, <1>9, ConcatProperties
  <2> QED
    BY <1>5, <1>7, <2>1, <2>2
<1>11. ASSUME NEW t \in Txid, NEW n \in Jobs, run'[t][n].pc = "queued"
       PROVE  \E i \in 1 .. Len(cqueue') : cqueue'[i] = <<t, n>>
  <2>1. CASE run'[t][n] = run[t][n]
    <3>1. PICK i \in 1 .. Len(cqueue) : cqueue[i] = <<t, n>>
      BY <1>11, <2>1 DEF NoJobIsLost, At
    <3>2. i \in 1 .. Len(cqueue') /\ cqueue'[i] = <<t, n>>
      BY <1>6, <1>10, <3>1
    <3> QED
      BY <3>2
  <2>2. CASE t \in new /\ n = slot[t]
    <3>1. PICK i \in 1 .. size : entries[i] = <<t, n>>
      BY <1>8, <2>2
    <3>2. Len(cqueue) + i \in 1 .. Len(cqueue') /\ cqueue'[Len(cqueue) + i] = <<t, n>>
      BY <1>6, <1>10, <3>1
    <3> QED
      BY <3>2
  <2> QED
    BY <1>4, <2>1, <2>2
<1> QED
  BY <1>11 DEF NoJobIsLost, At

LEMMA WaitStep == ASSUME RetryInv, NoJobIsLost, [Next]_vars PROVE NoJobIsLost'
<1> USE DEF RetryInv
<1>1. ASSUME NEW t \in Txid, NEW n \in Runs, RunStep(t, n) \/ Throws(t, n) PROVE NoJobIsLost'
  <2>1. RunEffect(t, n) /\ cqueue' = cqueue
    BY <1>1, RunStepEffect
  <2>2. \A u \in Txid, m \in Jobs : run'[u][m].pc = "queued" => run[u][m].pc = "queued"
    BY <2>1 DEF RunEffect, Settled, Returned, Awaiting
  <2> QED
    BY <2>1, <2>2, NobodyNewWaits
<1>2. CASE StartJob
  <2>1. PICK job : job = Head(cqueue) /\ run' = [run EXCEPT ![job[1]][job[2]].pc = "getTxsync"]
    BY <1>2 DEF StartJob
  <2>2. cqueue \in Seq(Txid \X Jobs) /\ cqueue # <<>> /\ cqueue' = Tail(cqueue)
    BY <1>2 DEF StartJob, TypeOK
  <2>3. /\ Len(cqueue) \in Nat \ {0} /\ job = cqueue[1] /\ job \in Txid \X Jobs
        /\ Len(cqueue') = Len(cqueue) - 1
        /\ \A i \in 1 .. Len(cqueue') : cqueue'[i] = cqueue[i + 1]
    BY <2>1, <2>2, HeadTailProperties, EmptySeq
  <2>4. ASSUME NEW t \in Txid, NEW n \in Jobs, run'[t][n].pc = "queued"
        PROVE  \E i \in 1 .. Len(cqueue') : cqueue'[i] = <<t, n>>
    <3>1. job[1] \in Txid /\ job[2] \in Runs /\ job = <<job[1], job[2]>>
      BY <2>3
    <3>2. run'[job[1]][job[2]].pc = "getTxsync"
      BY <2>1, <3>1 DEF TypeOK, Run
    <3>3. <<t, n>> # job
      BY <2>4, <3>1, <3>2
    <3>4. run'[t][n] = run[t][n]
      BY <2>1, <3>1, <3>3 DEF TypeOK
    <3>5. PICK i \in 1 .. Len(cqueue) : cqueue[i] = <<t, n>>
      BY <2>4, <3>4 DEF NoJobIsLost, At
    <3>6. i # 1
      BY <2>3, <3>3, <3>5
    <3>7. i - 1 \in 1 .. Len(cqueue') /\ cqueue'[i - 1] = <<t, n>>
      BY <2>3, <3>5, <3>6
    <3> QED
      BY <3>7
  <2> QED
    BY <2>4 DEF NoJobIsLost, At
<1>3. ASSUME NEW t \in Txid, BackoffFires(t) PROVE NoJobIsLost'
  <2>1. PICK n \in FreeRun(t, "retry") : /\ run' = [run EXCEPT ![t][n] = New("queued")]
                                         /\ cqueue' = Append(cqueue, <<t, n>>)
    BY <1>3 DEF BackoffFires
  <2>2. n \in Jobs /\ n \in Runs
    BY DEF FreeRun
  <2>3. /\ Len(cqueue) \in Nat /\ Len(cqueue') = Len(cqueue) + 1
        /\ \A i \in 1 .. Len(cqueue) : cqueue'[i] = cqueue[i]
        /\ cqueue'[Len(cqueue) + 1] = <<t, n>>
    BY <2>1, <2>2, AppendProperties, LenProperties DEF TypeOK
  <2>4. \A u \in Txid, m \in Jobs : run'[u][m] = run[u][m] \/ (u = t /\ m = n)
    BY <2>1 DEF TypeOK
  <2>5. ASSUME NEW u \in Txid, NEW m \in Jobs, run'[u][m].pc = "queued"
        PROVE  \E i \in 1 .. Len(cqueue') : cqueue'[i] = <<u, m>>
    <3>1. CASE run'[u][m] = run[u][m]
      <4>1. PICK i \in 1 .. Len(cqueue) : cqueue[i] = <<u, m>>
        BY <2>5, <3>1 DEF NoJobIsLost, At
      <4>2. i \in 1 .. Len(cqueue') /\ cqueue'[i] = <<u, m>>
        BY <2>3, <4>1
      <4> QED
        BY <4>2
    <3>2. CASE u = t /\ m = n
      BY <2>3, <3>2
    <3> QED
      BY <2>4, <3>1, <3>2
  <2> QED
    BY <2>5 DEF NoJobIsLost, At
<1>4. ASSUME NEW t \in Txid, ManualSync(t) \/ RetryReturns(t) PROVE NoJobIsLost'
  <2>1. PICK n \in Runs, r \in {Free, New("getTxsync")} : run' = [run EXCEPT ![t][n] = r]
    BY <1>4 DEF ManualSync, RetryReturns, FreeRun
  <2>2. r.pc # "queued"
    BY <2>1 DEF Free, New
  <2>3. \A u \in Txid, m \in Jobs : run'[u][m].pc = "queued" => run[u][m].pc = "queued"
    BY <2>1, <2>2 DEF TypeOK
  <2>4. cqueue' = cqueue
    BY <1>4 DEF ManualSync, RetryReturns
  <2> QED
    BY <2>3, <2>4, NobodyNewWaits
<1>5. CASE Crash
  BY <1>5 DEF Crash, NoJobIsLost, At, Free, New
<1>6. ASSUME NEW t \in Txid, SaveEnq(t) \/ ResyncTx(t) PROVE NoJobIsLost'
  <2>1. {t} \in SUBSET Txid /\ EnqAll({t})
    BY <1>6 DEF SaveEnq, ResyncTx
  <2> QED
    BY <2>1, EnqAllKeeps
<1>7. CASE PollEnqs
  BY <1>7, EnqAllKeeps DEF PollEnqs, TypeOK
<1>8. ASSUME run' = run, cqueue' = cqueue PROVE NoJobIsLost'
  BY <1>8, NobodyNewWaits
<1>9. ASSUME NEW t \in Txid, \/ (\E post \in Posts : SaveTx(t, post)) \/ ClearCompleted(t)
                             \/ DlqLands(t) \/ InsertTxsync(t) \/ SetPending(t) \/ NetworkMoves(t)
      PROVE  NoJobIsLost'
  BY <1>8, <1>9 DEF SaveTx, ClearCompleted, DlqLands, InsertTxsync, SetPending, NetworkMoves, mem
<1>10. CASE PollReads \/ Restart \/ UNCHANGED vars
  BY <1>8, <1>10 DEF PollReads, Restart, vars, mem
<1> QED
  BY <1>1, <1>2, <1>3, <1>4, <1>5, <1>6, <1>7, <1>9, <1>10 DEF Next

(* Every execution that waits for a slot has its place in the concurrent queue,  *)
(* through any enqueueing of many transactions at once, retries and crashes.     *)
THEOREM WaitingIsQueued == Spec => []NoJobIsLost
<1>1. Init => NoJobIsLost
  BY DEF Init, NoJobIsLost, At, Free, New
<1> QED
  BY RetryInit, RetryStep, WaitStep, <1>1, PTL DEF Spec
=============================================================================
