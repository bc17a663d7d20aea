-------------------------- MODULE TaskQueueProofs --------------------------
(* What QueueService keeps of the tasks it is given, for every set of tasks,     *)
(* number of slots and number of attempts.                                       *)
EXTENDS TaskQueue, FiniteSetTheorems, SequenceTheorems, TLAPS

JobType == [Txid -> [Jobs -> {"free", "queued", "active", "resolved", "rejected"}]]

(* The three parts of NothingLost. *)
QueuedAreWaiting ==
  \A t \in Txid, n \in Jobs :
    job[t][n] = "queued" <=> \E i \in 1 .. Len(cqueue) : cqueue[i] = <<t, n>>
QueueIsDistinct == \A i, j \in 1 .. Len(cqueue) : cqueue[i] = cqueue[j] => i = j
Pending(t) == {n \in Retry : job[t][n] # "free"}
LoopAwaits ==
  \A t \in Txid : IF loop[t] = "await" THEN \E n \in Retry : Pending(t) = {n} ELSE Pending(t) = {}

IInv == TypeOK /\ QueuedAreWaiting /\ QueueIsDistinct /\ LoopAwaits

-----------------------------------------------------------------------------
(* An order of a finite set goes through all of it, once. *)
LEMMA OrdersCover ==
  ASSUME NEW S, IsFiniteSet(S), NEW o \in Orders(S)
  PROVE  /\ Cardinality(S) \in Nat /\ o \in [1 .. Cardinality(S) -> S]
         /\ \A i, j \in 1 .. Cardinality(S) : o[i] = o[j] => i = j
         /\ \A s \in S : \E i \in 1 .. Cardinality(S) : o[i] = s
  <1>1. Cardinality(S) \in Nat
    BY FS_CardinalityType
  <1>2. o \in [1 .. Cardinality(S) -> S] /\ \A i, j \in 1 .. Cardinality(S) : o[i] = o[j] => i = j
    BY DEF Orders
  <1>3. o \in Injection(1 .. Cardinality(S), S)
    BY <1>2 DEF Injection, IsInjective
  <1>4. Cardinality(1 .. Cardinality(S)) = Cardinality(S)
    BY <1>1, FS_Interval
  <1>5. o \in Surjection(1 .. Cardinality(S), S)
    BY <1>3, <1>4, FS_Injection
  <1>. QED BY <1>1, <1>2, <1>5 DEF Surjection

(* What the head of the queue is, and what is left behind it. *)
LEMMA HeadAndTail ==
  ASSUME NEW T, NEW s \in Seq(T), s # <<>>
  PROVE  /\ Len(s) \in Nat \ {0} /\ Head(s) = s[1] /\ s[1] \in T
         /\ Tail(s) \in Seq(T) /\ Len(Tail(s)) = Len(s) - 1
         /\ \A i \in 1 .. Len(s) - 1 : Tail(s)[i] = s[i + 1]
  OBVIOUS

LEMMA Appended ==
  ASSUME NEW T, NEW s \in Seq(T), NEW x \in T
  PROVE  /\ Append(s, x) \in Seq(T) /\ Len(s) \in Nat /\ Len(Append(s, x)) = Len(s) + 1
         /\ \A i \in 1 .. Len(s) : Append(s, x)[i] = s[i]
         /\ Append(s, x)[Len(s) + 1] = x
  OBVIOUS

LEMMA Joined ==
  ASSUME NEW T, NEW s \in Seq(T), NEW r \in Seq(T)
  PROVE  /\ s \o r \in Seq(T) /\ Len(s) \in Nat /\ Len(r) \in Nat /\ Len(s \o r) = Len(s) + Len(r)
         /\ \A i \in 1 .. Len(s) : (s \o r)[i] = s[i]
         /\ \A i \in 1 .. Len(r) : (s \o r)[Len(s) + i] = r[i]
  OBVIOUS

LEMMA TypeParts ==
  TypeOK <=> /\ loop \in [Txid -> {"none", "delay", "await"}]
             /\ attempts \in [Txid -> 0 .. NumOfAttempts - 1]
             /\ job \in JobType /\ cqueue \in Seq(Txid \X Jobs)
  BY DEF TypeOK, JobType

-----------------------------------------------------------------------------
LEMMA EnqKeeps ==
  ASSUME IInv, NEW S \in SUBSET Txid, Enq(S)
  PROVE  IInv'
  <1>. DEFINE new == {t \in S : IsNewTask(t)}
  <1>1. IsFiniteSet(new) /\ new \subseteq Txid /\ \A t \in new : loop[t] = "none"
    <2>1. new \in SUBSET Txid
      OBVIOUS
    <2>. QED BY <2>1, FS_Subset, TaskAssumption DEF IsNewTask
  <1>2. PICK order \in Orders(new), slot \in [new -> First] :
          /\ \A t \in new : job[t][slot[t]] = "free"
          /\ loop' = [t \in Txid |-> IF t \in new THEN "delay" ELSE loop[t]]
          /\ attempts' = [t \in Txid |-> IF t \in new THEN 0 ELSE attempts[t]]
          /\ job' = [t \in Txid |-> IF t \in new THEN [job[t] EXCEPT ![slot[t]] = "queued"]
                                                 ELSE job[t]]
          /\ cqueue' = cqueue \o [i \in 1 .. Cardinality(new) |-> <<order[i], slot[order[i]]>>]
    BY DEF Enq
  <1>. HIDE DEF new
  <1>3. /\ Cardinality(new) \in Nat /\ order \in [1 .. Cardinality(new) -> new]
        /\ \A i, j \in 1 .. Cardinality(new) : order[i] = order[j] => i = j
        /\ \A t \in new : \E i \in 1 .. Cardinality(new) : order[i] = t
    BY <1>1, OrdersCover
  <1>. DEFINE size == Cardinality(new)
              entries == [i \in 1 .. size |-> <<order[i], slot[order[i]]>>]
  <1>4. /\ entries \in Seq(Txid \X Jobs) /\ Len(entries) = size
        /\ \A i \in 1 .. size : entries[i] = <<order[i], slot[order[i]]>>
    <2>1. \A i \in 1 .. size : order[i] \in Txid /\ slot[order[i]] \in Jobs
      BY <1>1, <1>2, <1>3 DEF Jobs
    <2>2. entries \in [1 .. size -> Txid \X Jobs]
      BY <2>1
    <2>3. size \in Nat
      BY <1>3
    <2>. HIDE DEF size
    <2>. QED BY <2>2, <2>3
  <1>5. cqueue' = cqueue \o entries
    BY <1>2
  <1>. HIDE DEF size, entries
  <1>6. /\ cqueue' \in Seq(Txid \X Jobs) /\ Len(cqueue) \in Nat /\ size \in Nat
        /\ Len(cqueue') = Len(cqueue) + size
        /\ \A i \in 1 .. Len(cqueue) : cqueue'[i] = cqueue[i]
        /\ \A i \in 1 .. size : cqueue'[Len(cqueue) + i] = <<order[i], slot[order[i]]>>
    BY <1>3, <1>4, <1>5, Joined DEF IInv, TypeOK, size
  <1>7. \A u \in Txid, m \in Jobs :
          job'[u][m] = IF u \in new /\ m = slot[u] THEN "queued" ELSE job[u][m]
    BY <1>2, TypeParts DEF IInv, JobType
  <1>8. TypeOK'
    <2>1. loop' \in [Txid -> {"none", "delay", "await"}] /\ attempts' \in [Txid -> 0 .. NumOfAttempts - 1]
      BY <1>2, TaskAssumption DEF IInv, TypeOK
    <2>2. job' \in JobType
      BY <1>2, TypeParts DEF IInv, JobType, Jobs
    <2>. QED BY <1>6, <2>1, <2>2 DEF TypeOK, JobType
  <1>9. QueuedAreWaiting'
    <2>. SUFFICES ASSUME NEW u \in Txid, NEW m \in Jobs
                  PROVE  job'[u][m] = "queued" <=> \E i \in 1 .. Len(cqueue') : cqueue'[i] = <<u, m>>
      BY DEF QueuedAreWaiting
    <2>1. CASE u \in new /\ m = slot[u]
      <3>1. PICK i \in 1 .. size : order[i] = u
        BY <1>3, <2>1 DEF size
      <3>2. Len(cqueue) + i \in 1 .. Len(cqueue') /\ cqueue'[Len(cqueue) + i] = <<u, m>>
        BY <1>6, <2>1, <3>1
      <3>. QED BY <1>7, <2>1, <3>2
    <2>2. CASE ~(u \in new /\ m = slot[u])
      <3>1. job'[u][m] = job[u][m]
        BY <1>7, <2>2
      <3>2. ASSUME NEW i \in 1 .. Len(cqueue), cqueue[i] = <<u, m>>
            PROVE  i \in 1 .. Len(cqueue') /\ cqueue'[i] = <<u, m>>
        BY <1>6, <3>2
      <3>3. ASSUME NEW i \in 1 .. Len(cqueue'), cqueue'[i] = <<u, m>>
            PROVE  i \in 1 .. Len(cqueue) /\ cqueue[i] = <<u, m>>
        <4>1. CASE i \in 1 .. Len(cqueue)
          BY <1>6, <3>3, <4>1
        <4>2. CASE i \notin 1 .. Len(cqueue)
          <5>1. i - Len(cqueue) \in 1 .. size /\ i = Len(cqueue) + (i - Len(cqueue))
            BY <1>6, <4>2
          <5>2. order[i - Len(cqueue)] \in new /\ <<u, m>> = <<order[i - Len(cqueue)], slot[order[i - Len(cqueue)]]>>
            BY <1>3, <1>6, <3>3, <5>1 DEF size
          <5>. QED BY <2>2, <5>2
        <4>. QED BY <4>1, <4>2
      <3>. QED BY <3>1, <3>2, <3>3 DEF IInv, QueuedAreWaiting
    <2>. QED BY <2>1, <2>2
  <1>10. QueueIsDistinct'
    (* An old entry is of a job that is queued, a new one of a job that was free. *)
    <2>1. ASSUME NEW i \in 1 .. Len(cqueue), NEW j \in 1 .. size PROVE cqueue'[i] # cqueue'[Len(cqueue) + j]
      <3>1. order[j] \in new /\ slot[order[j]] \in Jobs /\ order[j] \in Txid
        BY <1>1, <1>2, <1>3 DEF size, Jobs
      <3>2. job[order[j]][slot[order[j]]] = "free"
        BY <1>2, <3>1
      <3>3. cqueue[i] # <<order[j], slot[order[j]]>>
        BY <3>1, <3>2 DEF IInv, QueuedAreWaiting
      <3>. QED BY <1>6, <3>3
    <2>2. ASSUME NEW i \in 1 .. size, NEW j \in 1 .. size, cqueue'[Len(cqueue) + i] = cqueue'[Len(cqueue) + j]
          PROVE  i = j
      BY <1>3, <1>6, <2>2 DEF size
    <2>3. ASSUME NEW i \in 1 .. Len(cqueue') PROVE i \in 1 .. Len(cqueue) \/ \E k \in 1 .. size : i = Len(cqueue) + k
      <3>1. i \in 1 .. Len(cqueue) \/ (i - Len(cqueue) \in 1 .. size /\ i = Len(cqueue) + (i - Len(cqueue)))
        BY <1>6
      <3>. QED BY <3>1
    <2>. SUFFICES ASSUME NEW i \in 1 .. Len(cqueue'), NEW j \in 1 .. Len(cqueue'), cqueue'[i] = cqueue'[j]
                  PROVE  i = j
      BY DEF QueueIsDistinct
    <2>4. CASE i \in 1 .. Len(cqueue) /\ j \in 1 .. Len(cqueue)
      BY <1>6, <2>4 DEF IInv, QueueIsDistinct
    <2>. QED BY <2>1, <2>2, <2>3, <2>4
  <1>11. LoopAwaits'
    <2>. SUFFICES ASSUME NEW u \in Txid
                  PROVE  IF loop'[u] = "await" THEN \E n \in Retry : Pending(u)' = {n} ELSE Pending(u)' = {}
      BY DEF LoopAwaits
    <2>1. Pending(u)' = Pending(u)
      BY <1>2, <1>7, TaskAssumption DEF Pending, Jobs
    <2>2. loop'[u] = "await" <=> loop[u] = "await"
      BY <1>1, <1>2
    <2>. QED BY <2>1, <2>2 DEF IInv, LoopAwaits
  <1>. QED BY <1>8, <1>9, <1>10, <1>11 DEF IInv

LEMMA BackoffKeeps ==
  ASSUME IInv, NEW t \in Txid, BackoffFires(t)
  PROVE  IInv'
  <1>1. PICK n \in Retry : /\ job[t][n] = "free"
                           /\ job' = [job EXCEPT ![t][n] = "queued"]
                           /\ cqueue' = Append(cqueue, <<t, n>>)
    BY DEF BackoffFires
  <1>2. n \in Jobs /\ <<t, n>> \in Txid \X Jobs /\ cqueue \in Seq(Txid \X Jobs) /\ job \in JobType
    BY TypeParts DEF IInv, Jobs
  <1>3. /\ job' \in JobType
        /\ \A u \in Txid, m \in Jobs : job'[u][m] = IF u = t /\ m = n THEN "queued" ELSE job[u][m]
    BY <1>1, <1>2 DEF JobType
  <1>4. /\ cqueue' \in Seq(Txid \X Jobs) /\ Len(cqueue) \in Nat /\ Len(cqueue') = Len(cqueue) + 1
        /\ \A i \in 1 .. Len(cqueue) : cqueue'[i] = cqueue[i]
        /\ cqueue'[Len(cqueue) + 1] = <<t, n>>
    BY <1>1, <1>2, Appended
  <1>5. TypeOK'
    BY <1>3, <1>4, TypeParts DEF IInv, TypeOK, JobType, BackoffFires
  <1>6. QueuedAreWaiting'
    <2>. SUFFICES ASSUME NEW u \in Txid, NEW m \in Jobs
                  PROVE  job'[u][m] = "queued" <=> \E i \in 1 .. Len(cqueue') : cqueue'[i] = <<u, m>>
      BY DEF QueuedAreWaiting
    <2>1. CASE u = t /\ m = n
      BY <1>3, <1>4, <2>1
    <2>2. CASE ~(u = t /\ m = n)
      <3>0. <<t, n>> # <<u, m>>
        BY <2>2
      <3>1. (\E i \in 1 .. Len(cqueue') : cqueue'[i] = <<u, m>>)
              <=> \E i \in 1 .. Len(cqueue) : cqueue[i] = <<u, m>>
        <4>1. ASSUME NEW i \in 1 .. Len(cqueue'), cqueue'[i] = <<u, m>>
              PROVE  i \in 1 .. Len(cqueue) /\ cqueue[i] = <<u, m>>
          <5>1. i # Len(cqueue) + 1
            BY <1>4, <3>0, <4>1
          <5>. QED BY <1>4, <4>1, <5>1
        <4>2. ASSUME NEW i \in 1 .. Len(cqueue), cqueue[i] = <<u, m>>
              PROVE  i \in 1 .. Len(cqueue') /\ cqueue'[i] = <<u, m>>
          BY <1>4, <4>2
        <4>. QED BY <4>1, <4>2
      <3>2. job'[u][m] = job[u][m]
        BY <1>3, <2>2
      <3>. QED BY <3>1, <3>2 DEF IInv, QueuedAreWaiting
    <2>. QED BY <2>1, <2>2
  <1>7. QueueIsDistinct'
    <2>1. \A i \in 1 .. Len(cqueue) : cqueue[i] # <<t, n>>
      BY <1>1, <1>2 DEF IInv, QueuedAreWaiting
    <2>. QED BY <1>4, <2>1 DEF IInv, QueueIsDistinct
  <1>8. LoopAwaits'
    <2>. SUFFICES ASSUME NEW u \in Txid
                  PROVE  IF loop'[u] = "await" THEN \E m \in Retry : Pending(u)' = {m} ELSE Pending(u)' = {}
      BY DEF LoopAwaits
    <2>1. CASE u = t
      <3>1. loop'[u] = "await" /\ Pending(u) = {}
        BY <2>1 DEF BackoffFires, IInv, LoopAwaits, TypeOK
      <3>2. Pending(u)' = {n}
        BY <1>3, <2>1, <3>1 DEF Pending, Jobs
      <3>. QED BY <3>1, <3>2
    <2>2. CASE u # t
      <3>1. loop'[u] = loop[u] /\ Pending(u)' = Pending(u)
        BY <1>3, <2>2 DEF BackoffFires, IInv, TypeOK, Pending, Jobs
      <3>. QED BY <3>1 DEF IInv, LoopAwaits
    <2>. QED BY <2>1, <2>2
  <1>. QED BY <1>5, <1>6, <1>7, <1>8 DEF IInv

LEMMA StartKeeps ==
  ASSUME IInv, StartJob
  PROVE  IInv'
  <1>1. cqueue # <<>> /\ cqueue \in Seq(Txid \X Jobs) /\ cqueue' = Tail(cqueue) /\ job \in JobType
    BY TypeParts DEF IInv, StartJob
  <1>2. /\ Len(cqueue) \in Nat \ {0} /\ Head(cqueue) = cqueue[1] /\ cqueue[1] \in Txid \X Jobs
        /\ cqueue' \in Seq(Txid \X Jobs) /\ Len(cqueue') = Len(cqueue) - 1
        /\ \A i \in 1 .. Len(cqueue) - 1 : cqueue'[i] = cqueue[i + 1]
    BY <1>1, HeadAndTail
  <1>3. PICK t \in Txid, n \in Jobs : cqueue[1] = <<t, n>>
    BY <1>2
  <1>4. job' = [job EXCEPT ![t][n] = "active"]
    <2>1. PICK j : j = Head(cqueue) /\ job' = [job EXCEPT ![j[1]][j[2]] = "active"]
      BY DEF StartJob
    <2>2. j[1] = t /\ j[2] = n
      BY <1>2, <1>3, <2>1
    <2>. QED BY <2>1, <2>2
  <1>5. /\ job' \in JobType
        /\ \A u \in Txid, m \in Jobs : job'[u][m] = IF u = t /\ m = n THEN "active" ELSE job[u][m]
    BY <1>1, <1>4 DEF JobType
  <1>6. job[t][n] = "queued"
    BY <1>2, <1>3 DEF IInv, QueuedAreWaiting
  <1>7. TypeOK'
    BY <1>2, <1>5 DEF IInv, TypeOK, JobType, StartJob
  <1>8. QueueIsDistinct'
    <2>. SUFFICES ASSUME NEW i \in 1 .. Len(cqueue'), NEW j \in 1 .. Len(cqueue'), cqueue'[i] = cqueue'[j]
                  PROVE  i = j
      BY DEF QueueIsDistinct
    <2>1. i + 1 \in 1 .. Len(cqueue) /\ j + 1 \in 1 .. Len(cqueue) /\ cqueue[i + 1] = cqueue[j + 1]
      BY <1>2
    <2>2. i + 1 = j + 1
      BY <2>1 DEF IInv, QueueIsDistinct
    <2>. QED BY <1>2, <2>2
  <1>9. QueuedAreWaiting'
    <2>. SUFFICES ASSUME NEW u \in Txid, NEW m \in Jobs
                  PROVE  job'[u][m] = "queued" <=> \E i \in 1 .. Len(cqueue') : cqueue'[i] = <<u, m>>
      BY DEF QueuedAreWaiting
    <2>1. ASSUME NEW i \in 1 .. Len(cqueue'), cqueue'[i] = <<u, m>>
          PROVE  job'[u][m] = "queued"
      <3>1. i + 1 \in 1 .. Len(cqueue) /\ cqueue[i + 1] = <<u, m>> /\ i + 1 # 1
        BY <1>2, <2>1
      <3>2. job[u][m] = "queued"
        BY <3>1 DEF IInv, QueuedAreWaiting
      <3>3. ~(u = t /\ m = n)
        <4>1. 1 \in 1 .. Len(cqueue)
          BY <1>2
        <4>2. cqueue[1] # cqueue[i + 1]
          BY <3>1, <4>1 DEF IInv, QueueIsDistinct
        <4>. QED BY <1>3, <3>1, <4>2
      <3>. QED BY <1>5, <3>2, <3>3
    <2>2. ASSUME job'[u][m] = "queued"
          PROVE  \E i \in 1 .. Len(cqueue') : cqueue'[i] = <<u, m>>
      <3>1. ~(u = t /\ m = n) /\ job[u][m] = "queued"
        BY <1>5, <2>2
      <3>2. PICK i \in 1 .. Len(cqueue) : cqueue[i] = <<u, m>>
        BY <3>1 DEF IInv, QueuedAreWaiting
      <3>3. i # 1
        BY <1>3, <3>1, <3>2
      <3>4. i - 1 \in 1 .. Len(cqueue') /\ cqueue'[i - 1] = cqueue[(i - 1) + 1] /\ (i - 1) + 1 = i
        BY <1>2, <3>2, <3>3
      <3>. QED BY <3>2, <3>4
    <2>. QED BY <2>1, <2>2
  <1>10. LoopAwaits'
    <2>1. \A u \in Txid : Pending(u)' = Pending(u)
      BY <1>5, <1>6 DEF Pending, Jobs
    <2>. QED BY <2>1 DEF IInv, LoopAwaits, StartJob
  <1>. QED BY <1>7, <1>8, <1>9, <1>10 DEF IInv

(* Nothing enters or leaves the state queued, nor the queue. *)
LEMMA QueueStays ==
  ASSUME IInv, UNCHANGED cqueue,
         \A u \in Txid, m \in Jobs : job'[u][m] = "queued" <=> job[u][m] = "queued"
  PROVE  QueuedAreWaiting' /\ QueueIsDistinct'
  BY DEF IInv, QueuedAreWaiting, QueueIsDistinct

LEMMA SettlesKeeps ==
  ASSUME IInv, NEW t \in Txid, NEW n \in Jobs, Settles(t, n)
  PROVE  IInv'
  <1>1. PICK v \in {"free", "resolved", "rejected"} :
          job' = [job EXCEPT ![t][n] = v] /\ (v = "free" <=> n \in First) /\ (v = "free" \/ n \in Retry)
    BY TaskAssumption DEF Settles
  <1>2. job[t][n] = "active" /\ UNCHANGED <<loop, attempts, cqueue>>
    BY DEF Settles
  <1>3. /\ job' \in JobType
        /\ \A u \in Txid, m \in Jobs : job'[u][m] = IF u = t /\ m = n THEN v ELSE job[u][m]
    BY <1>1, TypeParts DEF IInv, JobType
  <1>4. QueuedAreWaiting' /\ QueueIsDistinct'
    BY <1>1, <1>2, <1>3, QueueStays
  <1>5. TypeOK'
    BY <1>2, <1>3 DEF IInv, TypeOK, JobType
  <1>6. \A u \in Txid : Pending(u)' = Pending(u)
    BY <1>1, <1>2, <1>3, TaskAssumption DEF Pending, Jobs
  <1>. QED BY <1>2, <1>4, <1>5, <1>6 DEF IInv, LoopAwaits

LEMMA ReturnKeeps ==
  ASSUME IInv, NEW t \in Txid, RetryReturns(t)
  PROVE  IInv'
  <1>. DEFINE ends(n) == job[t][n] = "resolved" \/ LastAttempt(t)
  <1>1. PICK n \in Retry :
          /\ job[t][n] \in {"resolved", "rejected"}
          /\ loop' = [loop EXCEPT ![t] = IF ends(n) THEN "none" ELSE "delay"]
          /\ attempts' = [attempts EXCEPT ![t] = IF ends(n) THEN 0 ELSE @ + 1]
          /\ job' = [job EXCEPT ![t][n] = "free"]
          /\ UNCHANGED cqueue
    BY DEF RetryReturns
  <1>2. n \in Jobs
    BY DEF Jobs
  <1>3. /\ job' \in JobType
        /\ \A u \in Txid, m \in Jobs : job'[u][m] = IF u = t /\ m = n THEN "free" ELSE job[u][m]
    BY <1>1, <1>2, TypeParts DEF IInv, JobType
  <1>4. QueuedAreWaiting' /\ QueueIsDistinct'
    BY <1>1, <1>3, QueueStays
  <1>5. TypeOK'
    <2>1. loop' \in [Txid -> {"none", "delay", "await"}]
      BY <1>1 DEF IInv, TypeOK
    <2>2. attempts[t] \in 0 .. NumOfAttempts - 1 /\ (~ends(n) => attempts[t] + 1 \in 0 .. NumOfAttempts - 1)
      BY TaskAssumption DEF IInv, TypeOK, LastAttempt
    <2>3. attempts' \in [Txid -> 0 .. NumOfAttempts - 1]
      BY <1>1, <2>2, TaskAssumption DEF IInv, TypeOK
    <2>. QED BY <1>1, <1>3, <2>1, <2>3 DEF IInv, TypeOK, JobType
  <1>6. LoopAwaits'
    <2>. SUFFICES ASSUME NEW u \in Txid
                  PROVE  IF loop'[u] = "await" THEN \E m \in Retry : Pending(u)' = {m} ELSE Pending(u)' = {}
      BY DEF LoopAwaits
    <2>1. CASE u = t
      <3>1. Pending(t) = {n}
        BY <1>1 DEF IInv, LoopAwaits, Pending
      <3>2. loop'[u] # "await"
        BY <1>1, <2>1 DEF IInv, TypeOK
      <3>3. Pending(u)' = {}
        BY <1>2, <1>3, <2>1, <3>1 DEF Pending, Jobs
      <3>. QED BY <3>2, <3>3
    <2>2. CASE u # t
      <3>1. loop'[u] = loop[u] /\ Pending(u)' = Pending(u)
        BY <1>1, <1>3, <2>2 DEF IInv, TypeOK, Pending, Jobs
      <3>. QED BY <3>1 DEF IInv, LoopAwaits
    <2>. QED BY <2>1, <2>2
  <1>. QED BY <1>4, <1>5, <1>6 DEF IInv

(* Nothing is queued and no loop waits: at the start and after a crash. *)
LEMMA BlankQueue ==
  ASSUME loop = [t \in Txid |-> "none"], attempts = [t \in Txid |-> 0],
         job = [t \in Txid |-> [n \in Jobs |-> "free"]], cqueue = <<>>
  PROVE  IInv
  <1>1. TypeOK
    BY TaskAssumption DEF TypeOK
  <1>2. \A t \in Txid, n \in Jobs : job[t][n] = "free"
    OBVIOUS
  <1>3. Len(cqueue) = 0 /\ 1 .. Len(cqueue) = {}
    OBVIOUS
  <1>4. QueuedAreWaiting /\ QueueIsDistinct
    BY <1>2, <1>3 DEF QueuedAreWaiting, QueueIsDistinct
  <1>5. LoopAwaits
    BY <1>2 DEF LoopAwaits, Pending, Jobs
  <1>. QED BY <1>1, <1>4, <1>5 DEF IInv

LEMMA InvHolds == Spec => []IInv
  <1>1. Init => IInv
    BY BlankQueue DEF Init
  <1>2. IInv /\ [Next]_vars => IInv'
    <2>. SUFFICES ASSUME IInv, [Next]_vars PROVE IInv'
      OBVIOUS
    <2>1. ASSUME NEW S \in SUBSET Txid, Enq(S) PROVE IInv'
      BY <2>1, EnqKeeps
    <2>2. CASE StartJob
      BY <2>2, StartKeeps
    <2>3. CASE Crash
      <3>1. loop' = [t \in Txid |-> "none"] /\ attempts' = [t \in Txid |-> 0]
            /\ job' = [t \in Txid |-> [n \in Jobs |-> "free"]] /\ cqueue' = <<>>
        BY <2>3 DEF Crash
      <3>2. TypeOK'
        BY <3>1, TaskAssumption DEF TypeOK
      <3>3. \A t \in Txid, n \in Jobs : job'[t][n] = "free"
        BY <3>1
      <3>4. 1 .. Len(cqueue') = {}
        BY <3>1
      <3>. QED BY <3>1, <3>2, <3>3, <3>4 DEF IInv, QueuedAreWaiting, QueueIsDistinct, LoopAwaits, Pending, Jobs
    <2>4. ASSUME NEW t \in Txid, BackoffFires(t) PROVE IInv'
      BY <2>4, BackoffKeeps
    <2>5. ASSUME NEW t \in Txid, RetryReturns(t) PROVE IInv'
      BY <2>5, ReturnKeeps
    <2>6. ASSUME NEW t \in Txid, NEW n \in Jobs, Settles(t, n) PROVE IInv'
      BY <2>6, SettlesKeeps
    <2>7. CASE UNCHANGED vars
      BY <2>7 DEF vars, IInv, TypeOK, QueuedAreWaiting, QueueIsDistinct, LoopAwaits, Pending
    <2>. QED BY <2>1, <2>2, <2>3, <2>4, <2>5, <2>6, <2>7 DEF Next
  <1>. QED BY <1>1, <1>2, PTL DEF Spec

(* Loops, attempts, jobs and queue keep their types; attempts stay below the limit. *)
THEOREM TypeCorrect == Spec => []TypeOK
  <1>1. IInv => TypeOK
    BY DEF IInv
  <1>. QED BY <1>1, InvHolds, PTL

(* However many tasks are enqueued, fire, settle and die in whatever order, the  *)
(* concurrent queue holds exactly the jobs that wait, each once, and a loop that *)
(* waits for its retry has exactly one.                                          *)
THEOREM NothingIsLost == Spec => []NothingLost
  <1>1. IInv => NothingLost
    BY DEF IInv, QueuedAreWaiting, QueueIsDistinct, LoopAwaits, Pending, NothingLost
  <1>. QED BY <1>1, InvHolds, PTL

-----------------------------------------------------------------------------
(* Only StartJob makes a job active, one at a time and when a slot is free.      *)
LEMMA ActiveMoves ==
  ASSUME IInv, [Next]_vars
  PROVE  \/ Active' \subseteq Active
         \/ /\ Cardinality(Active) < Concurrency
            /\ \E j : Active' \subseteq Active \cup {j}
  <1>. DEFINE On(j) == job[j[1]][j[2]] = "active"
  <1>0. job \in JobType /\ cqueue \in Seq(Txid \X Jobs)
    BY TypeParts DEF IInv
  <1>1. CASE StartJob
    <2>1. PICK j : j = Head(cqueue) /\ job' = [job EXCEPT ![j[1]][j[2]] = "active"]
      BY <1>1 DEF StartJob
    <2>2. Active' \subseteq Active \cup {j}
      <3>1. j \in Txid \X Jobs
        BY <1>0, <1>1, <2>1, HeadAndTail DEF StartJob
      <3>2. \A u \in Txid, m \in Jobs :
              job'[u][m] = IF u = j[1] /\ m = j[2] THEN "active" ELSE job[u][m]
        BY <1>0, <2>1, <3>1 DEF JobType
      <3>. QED BY <3>1, <3>2 DEF Active
    <2>. QED BY <1>1, <2>2 DEF StartJob
  <1>2. CASE ~StartJob
    <2>. SUFFICES \A u \in Txid, m \in Jobs : job'[u][m] = "active" => job[u][m] = "active"
      BY DEF Active
    <2>1. ASSUME NEW S \in SUBSET Txid, Enq(S), NEW u \in Txid, NEW m \in Jobs, job'[u][m] = "active"
          PROVE  job[u][m] = "active"
      <3>. DEFINE new == {t \in S : IsNewTask(t)}
      <3>1. PICK slot \in [new -> First] :
              job' = [t \in Txid |-> IF t \in new THEN [job[t] EXCEPT ![slot[t]] = "queued"]
                                                  ELSE job[t]]
        BY <2>1 DEF Enq
      <3>. HIDE DEF new
      <3>2. job'[u][m] = IF u \in new /\ m = slot[u] THEN "queued" ELSE job[u][m]
        BY <1>0, <3>1 DEF JobType
      <3>. QED BY <2>1, <3>2
    <2>2. ASSUME NEW t \in Txid, BackoffFires(t) \/ RetryReturns(t) \/ (\E n \in Jobs : Settles(t, n))
          PROVE  \A u \in Txid, m \in Jobs : job'[u][m] = "active" => job[u][m] = "active"
      <3>1. PICK n \in Jobs, v \in {"queued", "free", "resolved", "rejected"} :
              job' = [job EXCEPT ![t][n] = v]
        BY <2>2 DEF BackoffFires, RetryReturns, Settles, Jobs
      <3>2. \A u \in Txid, m \in Jobs : job'[u][m] = IF u = t /\ m = n THEN v ELSE job[u][m]
        BY <1>0, <3>1 DEF JobType
      <3>. QED BY <3>2
    <2>3. CASE Crash
      BY <2>3 DEF Crash
    <2>4. CASE UNCHANGED vars
      BY <2>4 DEF vars
    <2>. QED BY <1>2, <2>1, <2>2, <2>3, <2>4 DEF Next
  <1>. QED BY <1>1, <1>2

(* However many tasks there are and however they settle, no more invocations run *)
(* at a time than the queue has slots, though the set of possible ones may be    *)
(* infinite.                                                                     *)
THEOREM SlotsAreKept == Spec => []SlotsSuffice
  <1>1. Init => SlotsSuffice
    <2>. SUFFICES ASSUME Init PROVE SlotsSuffice
      OBVIOUS
    <2>1. Active = {}
      BY DEF Init, Active
    <2>. QED BY <2>1, FS_EmptySet, TaskAssumption DEF SlotsSuffice
  <1>2. IInv /\ SlotsSuffice /\ [Next]_vars => SlotsSuffice'
    <2>. SUFFICES ASSUME IInv, SlotsSuffice, [Next]_vars PROVE SlotsSuffice'
      OBVIOUS
    <2>1. IsFiniteSet(Active) /\ Cardinality(Active) \in Nat
      BY FS_CardinalityType DEF SlotsSuffice
    <2>2. CASE Active' \subseteq Active
      BY <2>1, <2>2, FS_Subset, FS_CardinalityType, TaskAssumption DEF SlotsSuffice
    <2>3. ASSUME Cardinality(Active) < Concurrency, NEW j, Active' \subseteq Active \cup {j}
          PROVE  SlotsSuffice'
      <3>1. /\ IsFiniteSet(Active \cup {j}) /\ Cardinality(Active \cup {j}) \in Nat
            /\ Cardinality(Active \cup {j}) <= Cardinality(Active) + 1
        BY <2>1, FS_AddElement, FS_CardinalityType
      <3>2. /\ IsFiniteSet(Active') /\ Cardinality(Active') \in Nat
            /\ Cardinality(Active') <= Cardinality(Active \cup {j})
        BY <2>3, <3>1, FS_Subset, FS_CardinalityType
      <3>. QED BY <2>1, <2>3, <3>1, <3>2, TaskAssumption DEF SlotsSuffice
    <2>. QED BY <2>2, <2>3, ActiveMoves
  <1>. QED BY <1>1, <1>2, InvHolds, PTL DEF Spec

-----------------------------------------------------------------------------
(* Enqueueing adds to the end of the queue and leaves alone whatever is going on. *)
LEMMA EnqAdds ==
  ASSUME IInv, NEW S \in SUBSET Txid, Enq(S)
  PROVE  /\ Len(cqueue) <= Len(cqueue') /\ \A i \in 1 .. Len(cqueue) : cqueue'[i] = cqueue[i]
         /\ \A t \in Txid : loop[t] # "none" => UNCHANGED <<loop[t], attempts[t]>>
         /\ \A t \in Txid, n \in Jobs : job[t][n] # "free" => job'[t][n] = job[t][n]
  <1>. DEFINE new == {t \in S : IsNewTask(t)}
  <1>1. IsFiniteSet(new) /\ new \subseteq Txid /\ \A t \in new : loop[t] = "none"
    <2>1. new \in SUBSET Txid
      OBVIOUS
    <2>. QED BY <2>1, FS_Subset, TaskAssumption DEF IsNewTask
  <1>2. PICK order \in Orders(new), slot \in [new -> First] :
          /\ \A t \in new : job[t][slot[t]] = "free"
          /\ loop' = [t \in Txid |-> IF t \in new THEN "delay" ELSE loop[t]]
          /\ attempts' = [t \in Txid |-> IF t \in new THEN 0 ELSE attempts[t]]
          /\ job' = [t \in Txid |-> IF t \in new THEN [job[t] EXCEPT ![slot[t]] = "queued"]
                                                 ELSE job[t]]
          /\ cqueue' = cqueue \o [i \in 1 .. Cardinality(new) |-> <<order[i], slot[order[i]]>>]
    BY DEF Enq
  <1>. HIDE DEF new
  <1>. DEFINE size == Cardinality(new)
              entries == [i \in 1 .. size |-> <<order[i], slot[order[i]]>>]
  <1>3. size \in Nat /\ order \in [1 .. size -> new]
    BY <1>1, OrdersCover
  <1>4. entries \in [1 .. size -> Txid \X Jobs]
    BY <1>1, <1>2, <1>3 DEF Jobs
  <1>. HIDE DEF size
  <1>5. entries \in Seq(Txid \X Jobs)
    BY <1>3, <1>4
  <1>6. cqueue' = cqueue \o entries
    BY <1>2 DEF size
  <1>. HIDE DEF entries
  <1>7. Len(cqueue) <= Len(cqueue') /\ \A i \in 1 .. Len(cqueue) : cqueue'[i] = cqueue[i]
    BY <1>5, <1>6, Joined DEF IInv, TypeOK
  <1>8. \A t \in Txid, n \in Jobs : job[t][n] # "free" => job'[t][n] = job[t][n]
    BY <1>2, TypeParts DEF IInv, JobType
  <1>9. \A t \in Txid : loop[t] # "none" => UNCHANGED <<loop[t], attempts[t]>>
    BY <1>1, <1>2
  <1>. QED BY <1>7, <1>8, <1>9

(* What starting the oldest job does to the queue. *)
LEMMA StartMovesUp ==
  ASSUME IInv, StartJob
  PROVE  /\ \A i \in 1 .. Len(cqueue) : MovesUp(i)
         /\ UNCHANGED <<loop, attempts>>
         /\ \E t \in Txid, n \in Jobs : /\ job[t][n] = "queued"
                                        /\ job' = [job EXCEPT ![t][n] = "active"]
  <1>1. cqueue # <<>> /\ cqueue \in Seq(Txid \X Jobs) /\ cqueue' = Tail(cqueue) /\ job \in JobType
    BY TypeParts DEF IInv, StartJob
  <1>2. /\ Len(cqueue) \in Nat \ {0} /\ Head(cqueue) = cqueue[1] /\ cqueue[1] \in Txid \X Jobs
        /\ Len(cqueue') = Len(cqueue) - 1
        /\ \A i \in 1 .. Len(cqueue) - 1 : cqueue'[i] = cqueue[i + 1]
    BY <1>1, HeadAndTail
  <1>3. PICK t \in Txid, n \in Jobs : cqueue[1] = <<t, n>>
    BY <1>2
  <1>4. job' = [job EXCEPT ![t][n] = "active"]
    <2>1. PICK j : j = Head(cqueue) /\ job' = [job EXCEPT ![j[1]][j[2]] = "active"]
      BY DEF StartJob
    <2>2. j[1] = t /\ j[2] = n
      BY <1>2, <1>3, <2>1
    <2>. QED BY <2>1, <2>2
  <1>5. job[t][n] = "queued"
    BY <1>2, <1>3 DEF IInv, QueuedAreWaiting
  <1>6. ASSUME NEW i \in 1 .. Len(cqueue) PROVE MovesUp(i)
    <2>1. CASE i = 1
      <3>1. job'[t][n] = "active"
        BY <1>1, <1>4 DEF JobType
      <3>. QED BY <1>3, <2>1, <3>1 DEF MovesUp
    <2>2. CASE i # 1
      <3>1. i - 1 \in 1 .. Len(cqueue) - 1 /\ (i - 1) + 1 = i
        BY <1>2, <2>2
      <3>. QED BY <1>2, <2>2, <3>1 DEF MovesUp
    <2>. QED BY <2>1, <2>2
  <1>. QED BY <1>4, <1>5, <1>6 DEF StartJob

(* Every waiting job keeps its place or moves up, and no step but a crash takes it *)
(* out of the queue unstarted.                                                     *)
THEOREM QueueIsFair == Spec => NobodyOvertakes
  <1>. DEFINE Keeps == /\ Crash \/ \A i \in 1 .. Len(cqueue) : Stays(i) \/ MovesUp(i)
                       /\ StartJob => \A i \in 1 .. Len(cqueue) : MovesUp(i)
  <1>1. IInv /\ [Next]_vars => [Keeps]_vars
    <2>. SUFFICES ASSUME IInv, Next PROVE Keeps
      OBVIOUS
    <2>0. cqueue \in Seq(Txid \X Jobs) /\ Len(cqueue) \in Nat
      BY DEF IInv, TypeOK
    <2>1. StartJob => \A i \in 1 .. Len(cqueue) : MovesUp(i)
      BY StartMovesUp
    <2>2. ASSUME NEW S \in SUBSET Txid, Enq(S) PROVE \A i \in 1 .. Len(cqueue) : Stays(i)
      <3>1. Len(cqueue) <= Len(cqueue') /\ \A i \in 1 .. Len(cqueue) : cqueue'[i] = cqueue[i]
        BY <2>2, EnqAdds
      <3>2. Len(cqueue') \in Nat
        <4>1. IInv'
          BY <2>2, EnqKeeps
        <4>. QED BY <4>1 DEF IInv, TypeOK
      <3>. QED BY <2>0, <3>1, <3>2 DEF Stays
    <2>3. ASSUME NEW t \in Txid, BackoffFires(t) PROVE \A i \in 1 .. Len(cqueue) : Stays(i)
      <3>1. PICK n \in Retry : cqueue' = Append(cqueue, <<t, n>>)
        BY <2>3 DEF BackoffFires
      <3>2. Len(cqueue') = Len(cqueue) + 1 /\ \A i \in 1 .. Len(cqueue) : cqueue'[i] = cqueue[i]
        BY <2>0, <3>1, Appended DEF Jobs
      <3>. QED BY <2>0, <3>2 DEF Stays
    <2>4. ASSUME UNCHANGED cqueue PROVE \A i \in 1 .. Len(cqueue) : Stays(i)
      BY <2>0, <2>4 DEF Stays
    <2>5. \/ StartJob \/ Crash \/ UNCHANGED cqueue \/ \E S \in SUBSET Txid : Enq(S)
          \/ \E t \in Txid : BackoffFires(t)
      BY DEF Next, RetryReturns, Settles
    <2>. QED BY <2>1, <2>2, <2>3, <2>4, <2>5
  <1>. QED BY <1>1, InvHolds, PTL DEF Spec, NobodyOvertakes

(* A task in the map and an invocation under way only go forward, whatever other   *)
(* tasks do and however often the task is enqueued again meanwhile.  With          *)
(* TypeCorrect, which bounds the attempts, a task is in the map for at most twice  *)
(* NumOfAttempts moves of its loop.                                                *)
THEOREM TasksOnlyGoForward == Spec => TasksGoForward
  <1>. DEFINE LoopGoes(t) == loop[t] # "none" => LoopAdvances(t) \/ UNCHANGED <<loop[t], attempts[t]>>
              JobGoes(t, n) == job[t][n] # "free" =>
                                 job'[t][n] = job[t][n] \/ <<job[t][n], job'[t][n]>> \in JobSteps
              Goes == Crash \/ \A t \in Txid :
                        /\ loop[t] # "none" => LoopAdvances(t) \/ UNCHANGED <<loop[t], attempts[t]>>
                        /\ \A n \in Jobs : job[t][n] # "free" =>
                             job'[t][n] = job[t][n] \/ <<job[t][n], job'[t][n]>> \in JobSteps
  <1>1. IInv /\ [Next]_vars => [Goes]_vars
    <2>. SUFFICES ASSUME IInv, Next, ~Crash PROVE \A t \in Txid : LoopGoes(t) /\ \A n \in Jobs : JobGoes(t, n)
      OBVIOUS
    <2>0. /\ job \in JobType
          /\ loop \in [Txid -> {"none", "delay", "await"}] /\ attempts \in [Txid -> 0 .. NumOfAttempts - 1]
      BY TypeParts DEF IInv
    <2>1. ASSUME NEW S \in SUBSET Txid, Enq(S) PROVE \A t \in Txid : LoopGoes(t) /\ \A n \in Jobs : JobGoes(t, n)
      BY <2>1, EnqAdds
    <2>2. ASSUME NEW t \in Txid, NEW n \in Jobs, NEW v, job' = [job EXCEPT ![t][n] = v],
                 <<job[t][n], v>> \in JobSteps \/ job[t][n] = "free"
          PROVE  \A u \in Txid, m \in Jobs : JobGoes(u, m)
      <3>1. \A u \in Txid, m \in Jobs : job'[u][m] = IF u = t /\ m = n THEN v ELSE job[u][m]
        BY <2>0, <2>2 DEF JobType
      <3>. QED BY <2>2, <3>1
    <2>3. CASE StartJob
      <3>1. PICK t \in Txid, n \in Jobs : job[t][n] = "queued" /\ job' = [job EXCEPT ![t][n] = "active"]
        BY <2>3, StartMovesUp
      <3>2. UNCHANGED <<loop, attempts>> /\ <<job[t][n], "active">> \in JobSteps
        BY <2>3, <3>1 DEF StartJob, JobSteps
      <3>. QED BY <2>2, <3>1, <3>2
    <2>4. ASSUME NEW t \in Txid, BackoffFires(t)
          PROVE  \A u \in Txid : LoopGoes(u) /\ \A n \in Jobs : JobGoes(u, n)
      <3>1. PICK n \in Retry : job[t][n] = "free" /\ job' = [job EXCEPT ![t][n] = "queued"]
        BY <2>4 DEF BackoffFires
      <3>2. n \in Jobs
        BY DEF Jobs
      <3>3. \A u \in Txid : LoopGoes(u)
        BY <2>0, <2>4 DEF BackoffFires, LoopAdvances
      <3>. QED BY <2>2, <3>1, <3>2, <3>3
    <2>5. ASSUME NEW t \in Txid, RetryReturns(t)
          PROVE  \A u \in Txid : LoopGoes(u) /\ \A n \in Jobs : JobGoes(u, n)
      <3>1. PICK n \in Retry :
              /\ job[t][n] \in {"resolved", "rejected"} /\ job' = [job EXCEPT ![t][n] = "free"]
              /\ \/ loop' = [loop EXCEPT ![t] = "none"] /\ attempts' = [attempts EXCEPT ![t] = 0]
                 \/ loop' = [loop EXCEPT ![t] = "delay"] /\ attempts' = [attempts EXCEPT ![t] = @ + 1]
        BY <2>5 DEF RetryReturns
      <3>2. n \in Jobs /\ <<job[t][n], "free">> \in JobSteps
        BY <3>1 DEF Jobs, JobSteps
      <3>3. loop[t] = "await"
        <4>1. n \in Pending(t)
          BY <3>1 DEF Pending
        <4>. QED BY <4>1 DEF IInv, LoopAwaits
      <3>4. \A u \in Txid : LoopGoes(u)
        BY <2>0, <3>1, <3>3 DEF LoopAdvances
      <3>. QED BY <2>2, <3>1, <3>2, <3>4
    <2>6. ASSUME NEW t \in Txid, NEW n \in Jobs, Settles(t, n)
          PROVE  \A u \in Txid : LoopGoes(u) /\ \A m \in Jobs : JobGoes(u, m)
      <3>1. PICK v \in {"free", "resolved", "rejected"} : job' = [job EXCEPT ![t][n] = v]
        BY <2>6 DEF Settles
      <3>2. <<job[t][n], v>> \in JobSteps /\ UNCHANGED <<loop, attempts>>
        BY <2>6 DEF Settles, JobSteps
      <3>. QED BY <2>2, <3>1, <3>2
    <2>. QED BY <2>1, <2>3, <2>4, <2>5, <2>6 DEF Next
  <1>. QED BY <1>1, InvHolds, PTL DEF Spec, TasksGoForward
=============================================================================
