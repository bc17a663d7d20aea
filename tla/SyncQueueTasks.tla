--------------------------- MODULE SyncQueueTasks ---------------------------
(* SyncQueue keeps the promise of TaskQueue: seen from the tasks map and the     *)
(* concurrent queue, an execution of SyncTxStatus.run is an opaque invocation    *)
(* that is under way until it settles.                                           *)
EXTENDS SyncQueue

FirstRuns == {n \in Runs : Kind(n) = "first"}
RetryRuns == {n \in Runs : Kind(n) = "retry"}
JobState(r) == IF r.pc \in Awaiting THEN "active" ELSE r.pc
jobs == [t \in Txid |-> [n \in Jobs |-> JobState(run[t][n])]]

Tasks == INSTANCE TaskQueue WITH First <- FirstRuns, Retry <- RetryRuns, job <- jobs

(* The detailed queue, with its runs interleaved statement by statement with     *)
(* saves, resyncs, refreshes, manual syncs and crashes, is a task queue.         *)
ImplementsTaskQueue == Tasks!Spec

(* It is a fair one: every job is started and settles, every loop goes on.       *)
ImplementsFairTaskQueue == Tasks!FairSpec
=============================================================================
