----------------------------- MODULE TaskQueue -----------------------------
(* What QueueService promises its callers, whatever a task does when invoked:   *)
(* enq() runs a task once at once, and then once per backoff delay until an     *)
(* invocation succeeds or the attempts are used up, a bounded number of         *)
(* invocations running at a time.  Invocations are opaque here: they take any   *)
(* number of steps and succeed or fail.  SyncQueue opens them up.               *)
EXTENDS Integers, Sequences, FiniteSets

CONSTANTS
  Txid,           \* task ids
  First, Retry,   \* names for the invocations by enq() itself and by backOff()
  Concurrency,    \* limit of the concurrent queue
  NumOfAttempts   \* Config.queue.syncBackoff.numOfAttempts

ASSUME TaskAssumption ==
  /\ IsFiniteSet(Txid)
  /\ First \cap Retry = {}
  /\ Concurrency \in Nat \ {0}
  /\ NumOfAttempts \in Nat \ {0}

VARIABLES
  loop,      \* where the backOff() of a task stands; "none" iff not in the tasks map
  attempts,  \* its attemptNumber
  job,       \* state of every invocation
  cqueue     \* invocations waiting for the concurrent queue, oldest first

vars == <<loop, attempts, job, cqueue>>

Jobs   == First \cup Retry
Active == {j \in Txid \X Jobs : job[j[1]][j[2]] = "active"}

TypeOK ==
  /\ loop \in [Txid -> {"none", "delay", "await"}]
  /\ attempts \in [Txid -> 0 .. NumOfAttempts - 1]
  /\ job \in [Txid -> [Jobs -> {"free", "queued", "active", "resolved", "rejected"}]]
  /\ cqueue \in Seq(Txid \X Jobs)

Init ==
  /\ loop = [t \in Txid |-> "none"]
  /\ attempts = [t \in Txid |-> 0]
  /\ job = [t \in Txid |-> [n \in Jobs |-> "free"]]
  /\ cqueue = <<>>

-----------------------------------------------------------------------------
(* enq() for every task of S in one go: new ones enter the map and the queue,   *)
(* in any order; the ones in the map are duplicates and dropped.                *)
Orders(S) == {o \in [1 .. Cardinality(S) -> S] :
                \A i, j \in 1 .. Cardinality(S) : o[i] = o[j] => i = j}

IsNewTask_Always(t) == t \in Txid      \* mutation: the tasks map is not asked
IsNewTask(t)        == loop[t] = "none"

Enq(S) ==
  LET new == {t \in S : IsNewTask(t)} IN
  \E order \in Orders(new), slot \in [new -> First] :
    /\ \A t \in new : job[t][slot[t]] = "free"
    /\ loop' = [t \in Txid |-> IF t \in new THEN "delay" ELSE loop[t]]
    /\ attempts' = [t \in Txid |-> IF t \in new THEN 0 ELSE attempts[t]]
    /\ job' = [t \in Txid |-> IF t \in new THEN [job[t] EXCEPT ![slot[t]] = "queued"]
                                           ELSE job[t]]
    /\ cqueue' = cqueue \o [i \in 1 .. Cardinality(new) |-> <<order[i], slot[order[i]]>>]

BackoffFires(t) ==
  /\ loop[t] = "delay"
  /\ \E n \in Retry : /\ job[t][n] = "free"
                      /\ job' = [job EXCEPT ![t][n] = "queued"]
                      /\ cqueue' = Append(cqueue, <<t, n>>)
  /\ loop' = [loop EXCEPT ![t] = "await"]
  /\ UNCHANGED attempts

(* mutation: the newest job first *)
StartJob_Lifo ==
  /\ cqueue # <<>>
  /\ Cardinality(Active) < Concurrency
  /\ LET j == cqueue[Len(cqueue)] IN job' = [job EXCEPT ![j[1]][j[2]] = "active"]
  /\ cqueue' = SubSeq(cqueue, 1, Len(cqueue) - 1)
  /\ UNCHANGED <<loop, attempts>>
StartJob ==
  /\ cqueue # <<>>
  /\ Cardinality(Active) < Concurrency
  /\ LET j == Head(cqueue) IN job' = [job EXCEPT ![j[1]][j[2]] = "active"]
  /\ cqueue' = Tail(cqueue)
  /\ UNCHANGED <<loop, attempts>>

(* An invocation settles.  Nobody waits for the outcome of the first one.       *)
Settles(t, n) ==
  /\ job[t][n] = "active"
  /\ \/ n \in First /\ job' = [job EXCEPT ![t][n] = "free"]
     \/ n \in Retry /\ \E outcome \in {"resolved", "rejected"} :
                         job' = [job EXCEPT ![t][n] = outcome]
  /\ UNCHANGED <<loop, attempts, cqueue>>

LastAttempt_OneMore(t) == attempts[t] = NumOfAttempts       \* mutation: off by one
LastAttempt(t)         == attempts[t] + 1 = NumOfAttempts

RetryReturns(t) ==
  \E n \in Retry :
    /\ job[t][n] \in {"resolved", "rejected"}
    /\ LET ends == job[t][n] = "resolved" \/ LastAttempt(t) IN
       /\ loop' = [loop EXCEPT ![t] = IF ends THEN "none" ELSE "delay"]
       /\ attempts' = [attempts EXCEPT ![t] = IF ends THEN 0 ELSE @ + 1]
    /\ job' = [job EXCEPT ![t][n] = "free"]
    /\ UNCHANGED cqueue

(* The process ends: tasks live in memory only. *)
Crash ==
  /\ loop' = [t \in Txid |-> "none"]
  /\ attempts' = [t \in Txid |-> 0]
  /\ job' = [t \in Txid |-> [n \in Jobs |-> "free"]]
  /\ cqueue' = <<>>

Next ==
  \/ \E S \in SUBSET Txid : Enq(S)
  \/ StartJob \/ Crash
  \/ \E t \in Txid : \/ BackoffFires(t) \/ RetryReturns(t)
                     \/ \E n \in Jobs : Settles(t, n)

Spec == Init /\ [][Next]_vars

(* Timers fire, the concurrent queue runs what it holds, invocations settle.    *)
FairSpec ==
  /\ Spec
  /\ WF_vars(StartJob)
  /\ \A t \in Txid : /\ WF_vars(BackoffFires(t) \/ RetryReturns(t))
                     /\ \A n \in Jobs : WF_vars(Settles(t, n))

-----------------------------------------------------------------------------
(* Every job that waits for the concurrent queue is started (or lost in a       *)
(* crash), however many others are enqueued meanwhile and however few may run.  *)
JobStarts == \A t \in Txid, n \in Jobs : job[t][n] = "queued" ~> job[t][n] # "queued"

(* A task leaves the tasks map in the end, so that its txid can be enqueued     *)
(* again, even if other tasks compete for the one slot of the queue for ever.   *)
TaskLeaves == \A t \in Txid : loop[t] # "none" ~> loop[t] = "none"

(* Why jobs start: except in a crash a waiting job keeps its place or moves up,   *)
(* it leaves the queue only by being started, and when one starts all move up.   *)
Stays(i)   == i <= Len(cqueue') /\ cqueue'[i] = cqueue[i]
MovesUp(i) == IF i = 1 THEN job'[cqueue[1][1]][cqueue[1][2]] = "active"
                       ELSE i - 1 <= Len(cqueue') /\ cqueue'[i - 1] = cqueue[i]
NobodyOvertakes ==
  [][/\ Crash \/ \A i \in 1 .. Len(cqueue) : Stays(i) \/ MovesUp(i)
     /\ StartJob => \A i \in 1 .. Len(cqueue) : MovesUp(i)]_vars

(* Why tasks leave: except in a crash, whatever is enqueued meanwhile, a task in  *)
(* the map goes from a delay to a retry, and from a retry to the next attempt or  *)
(* out of the map, and never begins again; and an invocation waits, runs,         *)
(* settles, and its slot is free again.                                           *)
JobSteps == {<<"queued", "active">>, <<"active", "resolved">>, <<"active", "rejected">>,
             <<"active", "free">>, <<"resolved", "free">>, <<"rejected", "free">>}
LoopAdvances(t) ==
  \/ loop[t] = "delay" /\ loop'[t] = "await" /\ attempts'[t] = attempts[t]
  \/ loop[t] = "await" /\ loop'[t] = "delay" /\ attempts'[t] = attempts[t] + 1
  \/ loop[t] = "await" /\ loop'[t] = "none"
TasksGoForward ==
  [][Crash \/ \A t \in Txid :
       /\ loop[t] # "none" => LoopAdvances(t) \/ UNCHANGED <<loop[t], attempts[t]>>
       /\ \A n \in Jobs : job[t][n] # "free" =>
            job'[t][n] = job[t][n] \/ <<job[t][n], job'[t][n]>> \in JobSteps]_vars

(* Nothing is lost between the tasks map, the loops and the queue: the jobs     *)
(* that wait are exactly the entries of the queue, and a loop that waits for an *)
(* invocation has one and only one in the queue, running or settled.            *)
NothingLost ==
  /\ \A t \in Txid, n \in Jobs :
       job[t][n] = "queued" <=> \E i \in 1 .. Len(cqueue) : cqueue[i] = <<t, n>>
  /\ \A i, j \in 1 .. Len(cqueue) : cqueue[i] = cqueue[j] => i = j
  /\ \A t \in Txid :
       LET pending == {n \in Retry : job[t][n] # "free"} IN
       IF loop[t] = "await" THEN \E n \in Retry : pending = {n} ELSE pending = {}

(* Of all the jobs there are, at most as many run as the queue has slots.       *)
SlotsSuffice == IsFiniteSet(Active) /\ Cardinality(Active) <= Concurrency
=============================================================================
