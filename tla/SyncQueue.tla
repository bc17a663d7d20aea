------------------------------ MODULE SyncQueue ------------------------------
(* The sync queue of TXQ: how a saved transaction is followed until miners      *)
(* confirm it or it is given up to the dead-letter queue.                       *)
(*                                                                              *)
(* One Node process runs the HTTP API, the retry loops of QueueService and the  *)
(* poller; two PostgreSQL tables, tx and txsync, survive it.  JavaScript runs   *)
(* to its next await without interruption, so an action is one awaited database *)
(* statement or miner call together with the synchronous code after it, and     *)
(* everything else interleaves between two actions.                             *)
EXTENDS Integers, Sequences, FiniteSets

CONSTANTS
  Txid,                    \* transaction ids
  MaxAlive,                \* bound, by kind: executions alive at once per txid
  Posts,                   \* the kinds of POST /tx that clients make
  Concurrency,             \* jobs the concurrent queue runs at once (3 in the code)
  NumOfAttempts,           \* Config.queue.syncBackoff.numOfAttempts
  SerialPolicy,            \* sendPolicy is SERIAL_BACKUP: a refused push is an answer
  MaxSaves, MaxResyncs,    \* bounds: requests of each kind ...
  MaxManuals, MaxCrashes   \* ... and crashes of the process

Kinds == {"first", "retry", "manual", "refresh"}
PostKinds == [raw : BOOLEAN, nosync : BOOLEAN]

ASSUME TxidAssumption == IsFiniteSet(Txid)
ASSUME PostAssumption == Posts \subseteq PostKinds
ASSUME QueueAssumption ==
  /\ Concurrency \in Nat \ {0}
  /\ NumOfAttempts \in Nat \ {0}
  /\ SerialPolicy \in BOOLEAN
ASSUME BoundAssumption ==
  /\ MaxAlive \in [Kinds -> Nat]
  /\ MaxSaves \in Nat
  /\ MaxResyncs \in Nat
  /\ MaxManuals \in Nat
  /\ MaxCrashes \in Nat

VARIABLES
  tx,        \* table tx: rawtx, status, send, completed
  txsync,    \* table txsync: sync, dlq
  chain,     \* what the miners know of a transaction (the outside world)
  up,        \* is the process running?
  loop,      \* the backoff loop of enq(); the key is in QueueService.tasks iff not "none"
  attempts,  \* attemptNumber of that loop
  run,       \* the executions of SyncTxStatus.run that are alive
  cqueue,    \* FIFO of jobs waiting for the concurrent queue
  dlqWrite,  \* the txids with an updateTxDlq issued, not awaited and still to land
  poll,      \* the rows EnqInitialTxsForSync read and has not enqueued yet
  save,      \* where the POST /tx of a txid stands
  resync,    \* where the un-awaited setResync of a txid stands
  used       \* how much of each bound is used up

db     == <<tx, txsync>>
mem    == <<loop, attempts, run, cqueue>>
asks   == <<poll, save, resync>>
vars   == <<tx, txsync, chain, up, loop, attempts, run, cqueue, dlqWrite,
            poll, save, resync, used>>

-----------------------------------------------------------------------------
(* What miners answer to a status request: the transaction is unknown, known    *)
(* without a block, or in a block; "unsigned" is a block answer whose signature *)
(* does not validate, which only the cached-status test of run() looks at.      *)
Answers    == {"missing", "unconfirmed", "confirmed", "unsigned"}
IsSuccess(answer)  == answer \in {"confirmed", "unsigned"}
Answerable(t) == IF chain[t] = "mined" THEN Answers ELSE {"missing", "unconfirmed"}

SyncState == {"fail", "none", "pending", "success"}

(* Of the stored status only a block answer is told apart; "none" is NULL or any  *)
(* other answer.  Of the sync state a run read, only whether it was success.      *)
Stored(answer) == IF IsSuccess(answer) THEN answer ELSE "none"
TxRow     == [rawtx : {"norow", "absent", "present"},
              status : {"none", "confirmed", "unsigned"}, send : {"none", "success", "failure"},
              completed : BOOLEAN]
TxsyncRow == [sync : SyncState \cup {"norow"}, dlq : BOOLEAN]

(* An execution of SyncTxStatus.run is named by its kind and a number: the first *)
(* attempt of a task, a retry of its backoff loop, a manual POST /tx/:txid/sync, *)
(* or the setTimeout refresh run() leaves behind after a push.  synced: the      *)
(* txsync row it read had sync success; ans: the miner answer it holds; again:   *)
(* setTxCompleted has to be called once more after the call under way.           *)
Runs  == UNION {{k} \X (1 .. MaxAlive[k]) : k \in Kinds}
Kind(n) == n[1]
Awaiting == {"getTxsync", "getTx", "statusTx", "saveTxStatus", "markTx",
             "markTxsync", "getRawtx", "pushTx", "saveTxSend"}
Returned == {"resolved", "rejected"}
Run  == [pc : Awaiting \cup Returned \cup {"free", "queued"}, synced : BOOLEAN,
         ans : Answers \cup {"none", "success", "failure"}, again : BOOLEAN]
New(pc) == [pc |-> pc, synced |-> FALSE, ans |-> "none", again |-> FALSE]
Free == New("free")

At(t, n, pc) == run[t][n].pc = pc
(* A new execution takes the lowest free number; without one it has to wait. *)
FreeRun(t, kind) == {n \in Runs : /\ Kind(n) = kind /\ At(t, n, "free")
                                  /\ \A i \in 1 .. n[2] - 1 : ~At(t, <<kind, i>>, "free")}
(* The executions the concurrent queue runs; those inside its process() function. *)
Jobs   == {n \in Runs : Kind(n) \in {"first", "retry"}}
Active == {j \in Txid \X Jobs : run[j[1]][j[2]].pc \in Awaiting}

TypeOK ==
  /\ tx \in [Txid -> TxRow]
  /\ txsync \in [Txid -> TxsyncRow]
  /\ chain \in [Txid -> {"unseen", "mempool", "mined"}]
  /\ up \in BOOLEAN
  /\ loop \in [Txid -> {"none", "delay", "await"}]
  /\ attempts \in [Txid -> 0 .. NumOfAttempts - 1]
  /\ run \in [Txid -> [Runs -> Run]]
  /\ cqueue \in Seq(Txid \X Jobs)
  /\ dlqWrite \in SUBSET Txid
  /\ poll \in SUBSET Txid
  /\ save \in [Txid -> {"idle", "insert", "insertNosync", "enq"}]
  /\ resync \in [Txid -> {"idle", "clearCompleted", "setPending"}]
  /\ used \in [saves : 0 .. MaxSaves, resyncs : 0 .. MaxResyncs,
               manuals : 0 .. MaxManuals, crashes : 0 .. MaxCrashes]

Init ==
  /\ tx = [t \in Txid |-> [rawtx |-> "norow", status |-> "none", send |-> "none",
                           completed |-> FALSE]]
  /\ txsync = [t \in Txid |-> [sync |-> "norow", dlq |-> FALSE]]
  /\ chain = [t \in Txid |-> "unseen"]
  /\ up = TRUE
  /\ loop = [t \in Txid |-> "none"]
  /\ attempts = [t \in Txid |-> 0]
  /\ run = [t \in Txid |-> [n \in Runs |-> Free]]
  /\ cqueue = <<>>
  /\ dlqWrite = {}
  /\ poll = {}
  /\ save = [t \in Txid |-> "idle"]
  /\ resync = [t \in Txid |-> "idle"]
  /\ used = [saves |-> 0, resyncs |-> 0, manuals |-> 0, crashes |-> 0]

-----------------------------------------------------------------------------
(* QueueService.enq: a txid that is already in the tasks map is dropped; every  *)
(* other one gets a backoff loop and its first attempt, queued at once.  The    *)
(* poller enqueues all its rows without yielding, in whatever order it has them.*)
Orders(S) == {o \in [1 .. Cardinality(S) -> S] : \A i, j \in 1 .. Cardinality(S) :
                                                   o[i] = o[j] => i = j}

IsNewTask_Always(t) == t \in Txid   \* mutation: the tasks map is not asked
IsNewTask(t)        == loop[t] = "none"

EnqAll(S) ==
  LET new == {t \in S : IsNewTask(t)} IN
  \E order \in Orders(new), slot \in [new -> Jobs] :
    /\ \A t \in new : slot[t] \in FreeRun(t, "first")
    /\ loop' = [t \in Txid |-> IF t \in new THEN "delay" ELSE loop[t]]
    /\ attempts' = [t \in Txid |-> IF t \in new THEN 0 ELSE attempts[t]]
    /\ run' = [t \in Txid |-> IF t \in new
                 THEN [run[t] EXCEPT ![slot[t]] = New("queued")]
                 ELSE run[t]]
    /\ cqueue' = cqueue \o [i \in 1 .. Cardinality(new) |-> <<order[i], slot[order[i]]>>]

(* The delay before a retry is over: the task is queued again. *)
BackoffFires(t) ==
  /\ loop[t] = "delay"
  /\ \E n \in FreeRun(t, "retry") :
       /\ run' = [run EXCEPT ![t][n] = New("queued")]
       /\ cqueue' = Append(cqueue, <<t, n>>)
  /\ loop' = [loop EXCEPT ![t] = "await"]
  /\ UNCHANGED <<db, chain, up, attempts, dlqWrite, asks, used>>

(* The concurrent queue hands the oldest job to process(). *)
StartJob ==
  /\ cqueue # <<>>
  /\ Cardinality(Active) < Concurrency
  /\ LET job == Head(cqueue) IN
       run' = [run EXCEPT ![job[1]][job[2]].pc = "getTxsync"]
  /\ cqueue' = Tail(cqueue)
  /\ UNCHANGED <<db, chain, up, loop, attempts, dlqWrite, asks, used>>

LastAttempt_OneMore(t) == attempts[t] = NumOfAttempts   \* mutation: off by one
LastAttempt(t)         == attempts[t] + 1 = NumOfAttempts

(* A retry came back to its loop.  Success ends the task; a failure starts the  *)
(* next delay, or, when the attempts are used up, expires the task: updateTxDlq *)
(* is called without await and the key leaves the map.                          *)
RetryReturns(t) ==
  \E n \in Runs :
    /\ Kind(n) = "retry" /\ run[t][n].pc \in Returned
    /\ LET ok      == At(t, n, "resolved")
           expired == ~ok /\ LastAttempt(t) IN
       /\ loop' = [loop EXCEPT ![t] = IF ok \/ expired THEN "none" ELSE "delay"]
       /\ attempts' = [attempts EXCEPT ![t] = IF ok \/ expired THEN 0 ELSE @ + 1]
       /\ dlqWrite' = IF expired THEN dlqWrite \cup {t} ELSE dlqWrite
    /\ run' = [run EXCEPT ![t][n] = Free]
    /\ UNCHANGED <<db, chain, up, cqueue, asks, used>>

(* UPDATE txsync SET dlq = 'dead', sync = -1 reaches the database. *)
DeadRow_NoDlq(row) == [row EXCEPT !.sync = "fail"]      \* mutation: dlq is not set
DeadRow(row)       == [sync |-> "fail", dlq |-> TRUE]
DlqLands(t) ==
  /\ t \in dlqWrite
  /\ dlqWrite' = dlqWrite \ {t}
  /\ txsync' = [txsync EXCEPT ![t] = IF @.sync = "norow" THEN @
                                     ELSE DeadRow(@)]
  /\ UNCHANGED <<tx, chain, up, mem, asks, used>>

-----------------------------------------------------------------------------
(* SyncTxStatus.run, statement by statement.  Only a retry is waited for by its *)
(* loop; the outcome of a first attempt is ignored, a manual run answers its    *)
(* HTTP client, and a refresh has nobody to report to.                          *)
Ended_Hangs(t, n, outcome) ==       \* mutation: a throwing job never settles
  IF Kind(n) = "retry" /\ outcome = "rejected" THEN run[t][n] ELSE Free
Ended(t, n, outcome) ==
  IF Kind(n) = "retry" THEN New(outcome) ELSE Free
Becomes(t, n, r)    == run' = [run EXCEPT ![t][n] = r]
Ends(t, n, outcome) == Becomes(t, n, Ended(t, n, outcome))
Goes(t, n, pc)      == Becomes(t, n, [run[t][n] EXCEPT !.pc = pc])

(* Any awaited call may reject, and run() lets the exception out.  A refresh    *)
(* has no handler for it: the process exits, which is a Crash.                  *)
Throws(t, n) ==
  /\ run[t][n].pc \in Awaiting
  /\ Kind(n) # "refresh"
  /\ Ends(t, n, "rejected")
  /\ UNCHANGED <<db, chain, up, loop, attempts, cqueue, dlqWrite, asks, used>>

GetTxsync(t, n) ==
  /\ At(t, n, "getTxsync")
  /\ IF txsync[t].sync = "norow"
       THEN Ends(t, n, "rejected")
       ELSE Becomes(t, n, [run[t][n] EXCEPT !.pc = "getTx",
                                            !.synced = txsync[t].sync = "success"])
  /\ UNCHANGED <<db, chain, up, loop, attempts, cqueue, dlqWrite, asks, used>>

(* A stored block status that validates is enough: no miner is asked, and the   *)
(* completion is repaired when the sync state read before was not success.      *)
CachedSuccess(t) == tx[t].status = "confirmed"
GetTx(t, n) ==
  /\ At(t, n, "getTx")
  /\ \/ /\ tx[t].rawtx = "norow"
        /\ Ends(t, n, "rejected")
     \/ /\ CachedSuccess(t)
        /\ IF run[t][n].synced
             THEN Ends(t, n, "resolved")
             ELSE Goes(t, n, "markTx")
     \/ /\ tx[t].rawtx # "norow" /\ ~CachedSuccess(t)
        /\ Goes(t, n, "statusTx")
  /\ UNCHANGED <<db, chain, up, loop, attempts, cqueue, dlqWrite, asks, used>>

StatusTx(t, n) ==
  /\ At(t, n, "statusTx")
  /\ \E answer \in Answerable(t) :
       Becomes(t, n, [run[t][n] EXCEPT !.pc = "saveTxStatus", !.ans = answer])
  /\ UNCHANGED <<db, chain, up, loop, attempts, cqueue, dlqWrite, asks, used>>

(* saveTxStatus stores the answer whatever is stored already; a block answer    *)
(* also sets completed, in the same statement, and is followed by one call of   *)
(* setTxCompleted, and by a second one when the sync read earlier differs.      *)
MarksAgain(t, n) == Kind(n) # "refresh" /\ ~run[t][n].synced
CompletedBySave_AnyKnown(t, answer) ==         \* mutation: being known is enough
  tx[t].completed \/ answer # "missing"
CompletedBySave_Never(t, answer) == tx[t].completed   \* mutation: left to setTxCompleted
CompletedBySave(t, answer) == tx[t].completed \/ IsSuccess(answer)
SaveTxStatus(t, n) ==
  LET answer == run[t][n].ans IN
  /\ At(t, n, "saveTxStatus")
  /\ tx' = [tx EXCEPT ![t].status = Stored(answer), ![t].completed = CompletedBySave(t, answer)]
  /\ \/ /\ IsSuccess(answer)
        /\ Becomes(t, n, [New("markTx") EXCEPT !.again = MarksAgain(t, n)])
     \/ /\ answer = "missing" /\ Kind(n) # "refresh"
        /\ Becomes(t, n, New("getRawtx"))
     \/ /\ answer = "unconfirmed" \/ (answer = "missing" /\ Kind(n) = "refresh")
        /\ Ends(t, n, "rejected")
  /\ UNCHANGED <<txsync, chain, up, loop, attempts, cqueue, dlqWrite, asks, used>>

(* setTxCompleted: first the tx row, then the txsync row. *)
MarkTx(t, n) ==
  /\ At(t, n, "markTx")
  /\ tx' = [tx EXCEPT ![t].completed = TRUE]
  /\ Goes(t, n, "markTxsync")
  /\ UNCHANGED <<txsync, chain, up, loop, attempts, cqueue, dlqWrite, asks, used>>

MarkTxsync(t, n) ==
  /\ At(t, n, "markTxsync")
  /\ txsync' = [txsync EXCEPT ![t] = [sync |-> "success", dlq |-> FALSE]]
  /\ IF run[t][n].again
       THEN Becomes(t, n, New("markTx"))
       ELSE Ends(t, n, "resolved")
  /\ UNCHANGED <<tx, chain, up, loop, attempts, cqueue, dlqWrite, asks, used>>

(* The miners do not know the transaction: send it, if its bytes are stored. *)
GetRawtx(t, n) ==
  /\ At(t, n, "getRawtx")
  /\ IF tx[t].rawtx = "present" THEN Goes(t, n, "pushTx") ELSE Ends(t, n, "rejected")
  /\ UNCHANGED <<db, chain, up, loop, attempts, cqueue, dlqWrite, asks, used>>

(* ALL_FIRST_PRIORITY_SUCCESS rejects when every miner refuses (Throws);        *)
(* SERIAL_BACKUP hands the refusal back as the response.                        *)
PushTx(t, n) ==
  /\ At(t, n, "pushTx")
  /\ \E response \in {"success"} \cup (IF SerialPolicy THEN {"failure"} ELSE {}) :
       /\ Becomes(t, n, [run[t][n] EXCEPT !.pc = "saveTxSend", !.ans = response])
       /\ chain' = [chain EXCEPT ![t] = IF response = "success" /\ @ = "unseen"
                                        THEN "mempool" ELSE @]
  /\ UNCHANGED <<db, up, loop, attempts, cqueue, dlqWrite, asks, used>>

(* After an accepted push the status is asked again in the background while the *)
(* run itself ends as still processing.  After a refused one the code calls     *)
(* txService.updateTxsync, which does not exist: a TypeError ends the run.      *)
SaveTxSend(t, n) ==
  /\ At(t, n, "saveTxSend")
  /\ tx' = [tx EXCEPT ![t].send = run[t][n].ans]
  /\ \/ /\ run[t][n].ans = "failure"
        /\ Ends(t, n, "rejected")
     \/ /\ run[t][n].ans = "success"
        /\ \E m \in FreeRun(t, "refresh") :
             run' = [run EXCEPT ![t][n] = Ended(t, n, "rejected"), ![t][m] = New("statusTx")]
  /\ UNCHANGED <<txsync, chain, up, loop, attempts, cqueue, dlqWrite, asks, used>>

RunStep(t, n) ==
  \/ GetTxsync(t, n) \/ GetTx(t, n) \/ StatusTx(t, n) \/ SaveTxStatus(t, n)
  \/ MarkTx(t, n) \/ MarkTxsync(t, n) \/ GetRawtx(t, n) \/ PushTx(t, n)
  \/ SaveTxSend(t, n)

-----------------------------------------------------------------------------
(* SaveTxs.run (POST /tx and the proxy), as far as it concerns the queue: the   *)
(* tx row, then the txsync row, then enqTxStatus unless nosync.  Saving again   *)
(* keeps status and completed, and resets sync but not dlq.                     *)
SaveTx(t, post) ==
  /\ up /\ save[t] = "idle" /\ used.saves < MaxSaves
  /\ used' = [used EXCEPT !.saves = @ + 1]
  /\ tx' = [tx EXCEPT ![t].rawtx = IF post.raw THEN "present"
                                   ELSE IF @ = "norow" THEN "absent" ELSE @]
  /\ save' = [save EXCEPT ![t] = IF post.nosync THEN "insertNosync" ELSE "insert"]
  /\ UNCHANGED <<txsync, chain, up, mem, dlqWrite, poll, resync>>

InsertTxsync(t) ==
  /\ save[t] \in {"insert", "insertNosync"}
  /\ txsync' = [txsync EXCEPT ![t].sync = IF save[t] = "insert" THEN "pending" ELSE "none"]
  /\ save' = [save EXCEPT ![t] = IF @ = "insert" THEN "enq" ELSE "idle"]
  /\ UNCHANGED <<tx, chain, up, mem, dlqWrite, poll, resync, used>>

SaveEnq(t) ==
  /\ save[t] = "enq"
  /\ EnqAll({t})
  /\ save' = [save EXCEPT ![t] = "idle"]
  /\ UNCHANGED <<db, chain, up, dlqWrite, poll, resync, used>>

(* ResyncTx.run: setResync is started and not awaited, the task is enqueued at  *)
(* once; the two UPDATEs land afterwards.                                       *)
ResyncTx(t) ==
  /\ up /\ resync[t] = "idle" /\ used.resyncs < MaxResyncs
  /\ used' = [used EXCEPT !.resyncs = @ + 1]
  /\ EnqAll({t})
  /\ resync' = [resync EXCEPT ![t] = "clearCompleted"]
  /\ UNCHANGED <<db, chain, up, dlqWrite, poll, save>>

ClearCompleted(t) ==
  /\ resync[t] = "clearCompleted"
  /\ tx' = [tx EXCEPT ![t].completed = FALSE]
  /\ resync' = [resync EXCEPT ![t] = "setPending"]
  /\ UNCHANGED <<txsync, chain, up, mem, dlqWrite, poll, save, used>>

SetPending(t) ==
  /\ resync[t] = "setPending"
  /\ txsync' = [txsync EXCEPT ![t] = IF @.sync = "norow" THEN @
                                     ELSE [sync |-> "pending", dlq |-> FALSE]]
  /\ resync' = [resync EXCEPT ![t] = "idle"]
  /\ UNCHANGED <<tx, chain, up, mem, dlqWrite, poll, save, used>>

(* POST /tx/:txid/sync runs SyncTxStatus outside the queue and the tasks map. *)
ManualSync(t) ==
  /\ up /\ used.manuals < MaxManuals
  /\ used' = [used EXCEPT !.manuals = @ + 1]
  /\ \E n \in FreeRun(t, "manual") : run' = [run EXCEPT ![t][n] = New("getTxsync")]
  /\ UNCHANGED <<db, chain, up, loop, attempts, cqueue, dlqWrite, asks>>

(* EnqInitialTxsForSync: at start and every abandonedSyncTaskRescanSeconds the  *)
(* pending rows are read, and what was read is enqueued.                        *)
GetTxsForSync_Sync0 == {t \in Txid : txsync[t].sync = "none"}   \* mutation: wrong state
GetTxsForSync == {t \in Txid : txsync[t].sync = "pending"}
PollReads ==
  /\ up /\ poll = {}
  /\ poll' = GetTxsForSync
  /\ UNCHANGED <<db, chain, up, mem, dlqWrite, save, resync, used>>

PollEnqs ==
  /\ poll # {}
  /\ EnqAll(poll)
  /\ poll' = {}
  /\ UNCHANGED <<db, chain, up, dlqWrite, save, resync, used>>

(* handleExceptions exits on any unhandled rejection, or the host goes down:    *)
(* everything in memory is lost, calls in flight included.  systemd restarts.   *)
Crash ==
  /\ up /\ used.crashes < MaxCrashes
  /\ used' = [used EXCEPT !.crashes = @ + 1]
  /\ up' = FALSE
  /\ loop' = [t \in Txid |-> "none"]
  /\ attempts' = [t \in Txid |-> 0]
  /\ run' = [t \in Txid |-> [n \in Runs |-> Free]]
  /\ cqueue' = <<>>
  /\ dlqWrite' = {}
  /\ poll' = {}
  /\ save' = [t \in Txid |-> "idle"]
  /\ resync' = [t \in Txid |-> "idle"]
  /\ UNCHANGED <<db, chain>>

Restart ==
  /\ ~up
  /\ up' = TRUE
  /\ UNCHANGED <<db, chain, mem, dlqWrite, asks, used>>

(* The outside world: somebody broadcasts the transaction; a block takes it. *)
NetworkMoves(t) ==
  /\ chain[t] # "mined"
  /\ chain' = [chain EXCEPT ![t] = IF @ = "unseen" THEN "mempool" ELSE "mined"]
  /\ UNCHANGED <<db, up, mem, dlqWrite, asks, used>>

Next ==
  \/ StartJob \/ PollReads \/ PollEnqs \/ Crash \/ Restart
  \/ \E t \in Txid :
       \/ BackoffFires(t) \/ RetryReturns(t) \/ DlqLands(t)
       \/ \E post \in Posts : SaveTx(t, post)
       \/ InsertTxsync(t) \/ SaveEnq(t)
       \/ ResyncTx(t) \/ ClearCompleted(t) \/ SetPending(t)
       \/ ManualSync(t) \/ NetworkMoves(t)
       \/ \E n \in Runs : RunStep(t, n) \/ Throws(t, n)

Spec == Init /\ [][Next]_vars

(* Timers fire, promises settle, the poller's interval keeps firing and systemd *)
(* restarts the process.  No fairness for requests, crashes, rejections or the  *)
(* network.                                                                     *)
Fairness ==
  /\ WF_vars(Restart) /\ WF_vars(StartJob) /\ WF_vars(PollReads \/ PollEnqs)
  /\ \A t \in Txid :
       /\ WF_vars(BackoffFires(t) \/ RetryReturns(t))
       /\ WF_vars(DlqLands(t))
       /\ WF_vars(InsertTxsync(t) \/ SaveEnq(t))
       /\ WF_vars(ClearCompleted(t) \/ SetPending(t))
       /\ \A n \in Runs : WF_vars(RunStep(t, n))

FairSpec == Spec /\ Fairness

-----------------------------------------------------------------------------
(* A task is retried by one loop at a time: while its loop waits for a retry    *)
(* there is exactly one such execution, otherwise none, however saves, resyncs, *)
(* poller rounds, late first attempts and crashes interleave.  This is what the *)
(* tasks map of QueueService is for.                                            *)
Retries(t) == {n \in Runs : Kind(n) = "retry" /\ ~At(t, n, "free")}
OneRetryPerTask ==
  \A t \in Txid :
    /\ loop[t] = "await" => \E n \in Runs : Retries(t) = {n}
    /\ loop[t] # "await" => Retries(t) = {}

(* TXQ never reports a transaction complete, by completed or by sync state, that*)
(* is not in a block: not through stale answers, repairs, refreshes or retries. *)
CompletedOnlyIfMined ==
  \A t \in Txid : tx[t].completed \/ txsync[t].sync = "success" => chain[t] = "mined"

(* Until somebody asks for a resync, a stored block status or a success state   *)
(* comes with completed = true, at every point where the process may die: the   *)
(* three columns are written by up to five statements without a transaction.    *)
BlockStatusCompletes ==
  used.resyncs = 0 =>
    \A t \in Txid : IsSuccess(tx[t].status) \/ txsync[t].sync = "success" => tx[t].completed

(* No row is in the fail state without being listed in the dead-letter queue,   *)
(* where an operator can find it; sync and dlq are written by different paths.  *)
FailureIsDeadLettered == \A t \in Txid : txsync[t].sync = "fail" => txsync[t].dlq

(* A pending row does not stay pending for ever: retries or the poller lead it  *)
(* to success or to the dead-letter queue, also when the process dies between   *)
(* the INSERT and the enqueue, or when a resync overtakes the end of its task.  *)
PendingResolved == \A t \in Txid : txsync[t].sync = "pending" ~> txsync[t].sync # "pending"

(* Why executions end: none ever waits for a call that cannot be made, and every *)
(* step of an execution leaves it fewer awaited calls to make, though it may      *)
(* call setTxCompleted twice.  Nobody else's step, be it a request, the poller or *)
(* another execution of the same transaction, touches it, except that the loop    *)
(* takes a retry back and the process may exit.                                   *)
Stages == [queued |-> 10, getTxsync |-> 9, getTx |-> 8, statusTx |-> 7, saveTxStatus |-> 6,
           getRawtx |-> 5, pushTx |-> 4, saveTxSend |-> 3, markTx |-> 3, markTxsync |-> 2,
           resolved |-> 1, rejected |-> 1, free |-> 0]
CallsLeft(r) == Stages[r.pc] + (IF r.again THEN 2 ELSE 0)
RunsGoForward ==
  [][\A t \in Txid, n \in Runs : ~At(t, n, "free") =>
       /\ run'[t][n] = run[t][n] \/ CallsLeft(run'[t][n]) < CallsLeft(run[t][n])
       /\ RunStep(t, n) => run'[t][n] # run[t][n]]_vars
CallsCanBeMade ==
  \A t \in Txid, n \in Runs :
    /\ At(t, n, "saveTxStatus") => run[t][n].ans \in Answers
    /\ At(t, n, "saveTxSend") => run[t][n].ans \in {"success", "failure"}

(* The slots are what the concurrent queue is for: of all executions the queue   *)
(* started, no more run at a time than it has slots.  Manual syncs and refreshes  *)
(* run beside it.                                                                 *)
SlotsSuffice == IsFiniteSet(Active) /\ Cardinality(Active) <= Concurrency

(* And no execution waits for a slot that nobody will give it.                    *)
NoJobIsLost ==
  \A t \in Txid, n \in Jobs : At(t, n, "queued") => \E i \in 1 .. Len(cqueue) : cqueue[i] = <<t, n>>
=============================================================================
