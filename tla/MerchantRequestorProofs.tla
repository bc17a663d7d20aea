----------------------- MODULE MerchantRequestorProofs -----------------------
(* Proofs about MerchantRequestor, for any number of endpoints and any policy.  *)
EXTENDS MerchantRequestor, TLAPS

(* What is known of an endpoint's answer follows from where its call is.        *)
Answered ==
  \A i \in Endpoint :
    /\ ans[i] # "none" <=> call[i] \in {"saving", "erring", "done"}
    /\ call[i] = "erring" => ans[i] = "error"

(* What the two policies do not use; a serial loop goes on only without payload. *)
PolicyShape ==
  /\ Serial => result = 1 /\ first = [success |-> 0, failure |-> 0]
  /\ Serial /\ outcome = Open => \A i \in Endpoint : call[i] = "done" => i \notin Payloads
  /\ ~Serial => \A i \in Endpoint : call[i] \notin {"idle", "saving"}

CallInv == TypeOK /\ Answered /\ BackupsWait /\ PolicyShape

LEMMA CallInit == Init => CallInv
<1> SUFFICES ASSUME Init PROVE CallInv
  OBVIOUS
<1> USE EndpointAssumption DEF Init, Endpoint
<1>1. TypeOK
  BY DEF TypeOK, Open, Kinds
<1>2. Answered /\ BackupsWait /\ PolicyShape
  BY DEF Answered, BackupsWait, PolicyShape
<1> QED
  BY <1>1, <1>2 DEF CallInv

(* Every row that is written is about an answer that was given.                 *)
LEMMA SavesRow ==
  ASSUME TypeOK, NEW i \in Endpoint, NEW event \in {"pushtx", "statustx"}, NEW a \in Answer,
         Saves(i, event, a)
  PROVE  /\ log' \subseteq [miner : Endpoint, event : {"pushtx", "statustx"}, about : Answer]
         /\ log \subseteq log'
         /\ Logging => \E row \in log' : row.miner = i /\ row.about = a
<1>1. Row(i, event, a) \in [miner : Endpoint, event : {"pushtx", "statustx"}, about : Answer]
  BY DEF Row
<1>2. Row(i, event, a).miner = i /\ Row(i, event, a).about = a
  BY DEF Row
<1> QED
  BY <1>1, <1>2 DEF TypeOK, Saves

(* The call to one endpoint is over, and the next one is made.                  *)
LEMMA BackupMoves ==
  ASSUME CallInv, Serial, NEW i \in Endpoint, Backup(i), UNCHANGED <<kind, ans, result, first>>,
         call[i] \in {"saving", "erring"}, i \notin Payloads
  PROVE  /\ call' \in [Endpoint -> {"idle", "waiting", "saving", "erring", "done"}]
         /\ outcome' \in [how : {"open", "resolved", "rejected", "died"}, by : 0 .. N]
         /\ (Answered /\ BackupsWait /\ PolicyShape)'
<1> USE EndpointAssumption DEF CallInv, TypeOK, Endpoint
<1>1. \A j \in Endpoint : /\ j < i => call[j] = "done" /\ j \notin Payloads
                          /\ i < j => call[j] = "idle"
  BY DEF BackupsWait
<1>2. Payloads' = Payloads /\ Serial'
  BY DEF Payloads, With, Serial
<1>3. CASE IsLast(i)
  <2>1. call' = [call EXCEPT ![i] = "done"] /\ outcome' = Rejects(0)
    BY <1>3 DEF Backup
  <2>2. Answered'
    BY <2>1 DEF Answered
  <2>3. BackupsWait'
    BY <1>1, <1>2, <1>3, <2>1 DEF BackupsWait, IsLast
  <2>4. PolicyShape'
    BY <1>2, <2>1 DEF PolicyShape, Rejects, Open
  <2> QED
    BY <2>1, <2>2, <2>3, <2>4 DEF Rejects
<1>4. CASE ~IsLast(i)
  <2>1. /\ call' = [call EXCEPT ![i] = "done", ![i + 1] = "waiting"] /\ outcome' = outcome
        /\ i + 1 \in Endpoint /\ call[i + 1] = "idle"
    BY <1>1, <1>4 DEF Backup, IsLast
  <2>2. \A j \in Endpoint : call'[j] = IF j = i THEN "done" ELSE
                                       IF j = i + 1 THEN "waiting" ELSE call[j]
    BY <2>1
  <2>3. Answered'
    BY <2>1, <2>2 DEF Answered
  <2>4. BackupsWait'
    BY <1>1, <1>2, <2>2 DEF BackupsWait
  <2>5. PolicyShape'
    BY <1>2, <2>1, <2>2 DEF PolicyShape
  <2> QED
    BY <2>1, <2>3, <2>4, <2>5
<1> QED
  BY <1>3, <1>4

LEMMA CallStep == CallInv /\ [Next]_vars => CallInv'
<1> SUFFICES ASSUME CallInv, [Next]_vars PROVE CallInv'
  OBVIOUS
<1> USE DEF CallInv
<1>1. ASSUME NEW i \in Endpoint, Answers(i) PROVE CallInv'
  <2>1. PICK a \in Answer : /\ ans' = [ans EXCEPT ![i] = a]
                            /\ call' = [call EXCEPT ![i] = AfterAnswer(a)]
    BY <1>1 DEF Answers
  <2>2. Serial' = Serial /\ outcome = Open /\ call[i] = "waiting"
        /\ UNCHANGED <<kind, result, first, log, outcome>>
    BY <1>1 DEF Answers, Serial
  <2>3. TypeOK'
    BY <2>1, <2>2 DEF TypeOK, AfterAnswer
  <2>4. Answered'
    BY <2>1, <2>2 DEF Answered, AfterAnswer, TypeOK, Answer
  <2>5. BackupsWait'
    BY <2>1, <2>2, EndpointAssumption
    DEF BackupsWait, AfterAnswer, TypeOK, Payloads, With, Endpoint
  <2>6. PolicyShape'
    BY <2>1, <2>2 DEF PolicyShape, AfterAnswer, TypeOK, Payloads, With
  <2> QED
    BY <2>3, <2>4, <2>5, <2>6
<1>2. ASSUME NEW i \in Endpoint, Saved(i) PROVE CallInv'
  <2>1. /\ outcome = Open /\ Serial /\ call[i] = "saving" /\ Saves(i, EventOf, ans[i])
        /\ UNCHANGED <<kind, ans, result, first>> /\ Serial' /\ Payloads' = Payloads
    BY <1>2 DEF Saved, Serial, Payloads, With
  <2>2. ans[i] \in Answer /\ EventOf \in {"pushtx", "statustx"}
    BY <2>1 DEF Answered, TypeOK, EventOf
  <2>3. log' \subseteq [miner : Endpoint, event : {"pushtx", "statustx"}, about : Answer]
    BY <2>1, <2>2, SavesRow
  <2>4. CASE HasPayload(ans[i])
    <3>1. call' = [call EXCEPT ![i] = "done"] /\ outcome' = Resolves(i)
      BY <1>2, <2>4 DEF Saved
    <3>2. TypeOK'
      BY <2>1, <2>3, <3>1, EndpointAssumption DEF TypeOK, Resolves, Endpoint
    <3>3. Answered'
      BY <2>1, <3>1 DEF Answered, TypeOK
    <3>4. BackupsWait'
      BY <2>1, <3>1, EndpointAssumption DEF BackupsWait, TypeOK, Endpoint
    <3>5. PolicyShape'
      BY <2>1, <3>1 DEF PolicyShape, Resolves, Open
    <3> QED
      BY <3>2, <3>3, <3>4, <3>5
  <2>5. CASE ~HasPayload(ans[i])
    <3>1. Backup(i) /\ i \notin Payloads
      BY <1>2, <2>5 DEF Saved, Payloads, With, HasPayload
    <3>2. /\ call' \in [Endpoint -> {"idle", "waiting", "saving", "erring", "done"}]
          /\ outcome' \in [how : {"open", "resolved", "rejected", "died"}, by : 0 .. N]
          /\ (Answered /\ BackupsWait /\ PolicyShape)'
      BY <2>1, <3>1, BackupMoves
    <3> QED
      BY <2>1, <2>3, <3>2 DEF TypeOK
  <2> QED
    BY <2>4, <2>5
<1>3. ASSUME NEW i \in Endpoint, ErrorSaved(i) PROVE CallInv'
  <2>1. /\ outcome = Open /\ call[i] = "erring" /\ ans[i] = "error"
        /\ UNCHANGED <<kind, ans, result, first>> /\ Serial' = Serial /\ Payloads' = Payloads
    BY <1>3 DEF ErrorSaved, Serial, Payloads, With, Answered
  <2>2. PICK event \in {"pushtx", "statustx"} : Saves(i, event, "error")
    BY <1>3 DEF ErrorSaved, SavesError, EventOf
  <2>3. log' \subseteq [miner : Endpoint, event : {"pushtx", "statustx"}, about : Answer]
    BY <2>2, SavesRow DEF Answer
  <2>4. CASE Serial
    <3>1. Backup(i) /\ i \notin Payloads
      BY <1>3, <2>1, <2>4 DEF ErrorSaved, Payloads, With
    <3>2. /\ call' \in [Endpoint -> {"idle", "waiting", "saving", "erring", "done"}]
          /\ outcome' \in [how : {"open", "resolved", "rejected", "died"}, by : 0 .. N]
          /\ (Answered /\ BackupsWait /\ PolicyShape)'
      BY <2>1, <2>4, <3>1, BackupMoves
    <3> QED
      BY <2>1, <2>3, <3>2 DEF TypeOK
  <2>5. CASE ~Serial
    <3>1. call' = [call EXCEPT ![i] = "done"] /\ outcome' = outcome
      BY <1>3, <2>5 DEF ErrorSaved
    <3>2. TypeOK' /\ Answered'
      BY <2>1, <2>3, <3>1 DEF TypeOK, Answered
    <3>3. BackupsWait' /\ PolicyShape'
      BY <2>1, <2>5, <3>1 DEF BackupsWait, PolicyShape, TypeOK
    <3> QED
      BY <3>2, <3>3
  <2> QED
    BY <2>4, <2>5
<1>4. ASSUME ResultSaved PROVE CallInv'
  <2>1. /\ outcome = Open /\ ~Serial /\ Saves(result, "pushtx", ans[result])
        /\ \A i \in Endpoint : call[i] = "done"
        /\ UNCHANGED <<kind, call, ans>> /\ ~Serial'
    BY <1>4 DEF ResultSaved, Serial
  <2>2. result \in Endpoint /\ ans[result] \in Answer
    BY <2>1 DEF TypeOK, Answered
  <2>3. log' \subseteq [miner : Endpoint, event : {"pushtx", "statustx"}, about : Answer]
    BY <2>1, <2>2, SavesRow
  <2>4. first' \in [success : 0 .. N, failure : 0 .. N]
    BY <1>4, <2>2, EndpointAssumption DEF ResultSaved, Keeps, TypeOK, Endpoint
  <2>5. /\ result' \in Endpoint
        /\ outcome' \in [how : {"open", "resolved", "rejected", "died"}, by : 0 .. N]
    BY <1>4, <2>2, <2>4, EndpointAssumption
    DEF ResultSaved, IsLast, Resolves, Rejects, TypeOK, Endpoint
  <2>6. TypeOK'
    BY <2>1, <2>3, <2>4, <2>5 DEF TypeOK
  <2>7. Answered' /\ BackupsWait' /\ PolicyShape'
    BY <2>1 DEF Answered, BackupsWait, PolicyShape
  <2> QED
    BY <2>6, <2>7
<1>5. ASSUME SaveFails PROVE CallInv'
  <2>1. outcome = Open /\ Serial' = Serial /\ UNCHANGED <<kind, result, first, log>>
    BY <1>5 DEF SaveFails, Serial
  <2>2. ASSUME NEW i \in Endpoint, Serial, call[i] = "saving", outcome' = outcome,
               call' = [call EXCEPT ![i] = "erring"], ans' = [ans EXCEPT ![i] = "error"]
        PROVE  CallInv'
    <3>1. TypeOK' /\ Answered'
      BY <2>1, <2>2 DEF TypeOK, Answered, Answer
    <3>2. BackupsWait' /\ PolicyShape'
      BY <2>1, <2>2, EndpointAssumption
      DEF BackupsWait, PolicyShape, TypeOK, Payloads, With, Endpoint
    <3> QED
      BY <3>1, <3>2
  <2>3. CASE outcome' = Died /\ UNCHANGED <<call, ans>>
    <3>1. TypeOK'
      BY <2>1, <2>3, EndpointAssumption DEF TypeOK, Died
    <3>2. Answered' /\ BackupsWait' /\ PolicyShape'
      BY <2>1, <2>3 DEF Answered, BackupsWait, PolicyShape, Payloads, With, Died, Open
    <3> QED
      BY <3>1, <3>2
  <2> QED
    BY <1>5, <2>2, <2>3 DEF SaveFails
<1>6. CASE UNCHANGED vars
  BY <1>6 DEF vars, TypeOK, Answered, BackupsWait, PolicyShape, Payloads, With, Serial
<1> QED
  BY <1>1, <1>2, <1>3, <1>4, <1>5, <1>6 DEF Next, Step

(* The calls, the rows and the outcome of a request have their types.           *)
THEOREM TypeCorrect == Spec => []TypeOK
<1>1. CallInv => TypeOK
  BY DEF CallInv
<1> QED
  BY CallInit, CallStep, <1>1, PTL DEF Spec

(* No backup is asked while a miner before it may still answer, or has answered. *)
THEOREM SecondOpinions == Spec => []BackupsWait
<1>1. CallInv => BackupsWait
  BY DEF CallInv
<1> QED
  BY CallInit, CallStep, <1>1, PTL DEF Spec

-----------------------------------------------------------------------------
(* The loop of ALL_FIRST_PRIORITY_SUCCESS: what has been found among the first  *)
(* endpoints below k is the first one there is.                                 *)
Found(what, found, k) ==
  IF found = 0 THEN \A j \in Endpoint : j < k => ans[j] # what
  ELSE found \in Endpoint /\ found < k /\ IsFirst(found, With({what}))

Loop ==
  ~Serial /\ outcome = Open =>
    /\ Found("success", first.success, result)
    /\ Found("failure", first.failure, result)
    /\ result > 1 => \A i \in Endpoint : call[i] = "done"

Logged(i) == \E row \in log : row.miner = i /\ row.about = ans[i]

LoopLogs ==
  Logging /\ outcome = Open =>
    \A i \in Endpoint : /\ Serial /\ call[i] = "done" => Logged(i)
                        /\ ~Serial /\ i < result => Logged(i)

AnswersLogged ==
  Logging /\ outcome.how \in {"resolved", "rejected"} =>
    \A i \in Endpoint : ans[i] # "none" => Logged(i)

RequestInv == CallInv /\ Loop /\ LoopLogs /\ AnswerByPriority /\ AnswersLogged

LEMMA KeepsFirst ==
  ASSUME NEW what, NEW k \in Endpoint, NEW found \in 0 .. N, Found(what, found, k)
  PROVE  Found(what, Keeps(k, found, what), k + 1)
<1> USE EndpointAssumption DEF Endpoint
<1>1. CASE found # 0
  BY <1>1 DEF Found, Keeps
<1>2. CASE found = 0 /\ ans[k] = what
  BY <1>2 DEF Found, Keeps, IsFirst, With
<1>3. CASE found = 0 /\ ans[k] # what
  BY <1>3 DEF Found, Keeps
<1> QED
  BY <1>1, <1>2, <1>3

LEMMA RequestInit == Init => RequestInv
<1> SUFFICES ASSUME Init PROVE RequestInv
  OBVIOUS
<1>1. CallInv
  BY CallInit
<1>2. Loop /\ LoopLogs
  BY EndpointAssumption DEF Init, Loop, LoopLogs, Found, Endpoint
<1>3. AnswerByPriority /\ AnswersLogged
  BY DEF Init, Open, AnswerByPriority, AnswersLogged
<1> QED
  BY <1>1, <1>2, <1>3 DEF RequestInv

(* A serial endpoint that has answered is the first with a payload, or not one; *)
(* the ones after it have not been asked.                                       *)
LEMMA SerialAsks ==
  ASSUME CallInv, Serial, outcome = Open, NEW i \in Endpoint, call[i] \in {"saving", "erring"}
  PROVE  \A j \in Endpoint : /\ j < i => call[j] = "done" /\ j \notin Payloads
                             /\ i < j => call[j] = "idle" /\ j \notin Payloads
<1>1. ASSUME NEW j \in Endpoint, j < i PROVE call[j] = "done" /\ j \notin Payloads
  BY <1>1 DEF CallInv, BackupsWait
<1>2. ASSUME NEW j \in Endpoint, i < j PROVE call[j] = "idle"
  BY <1>2 DEF CallInv, BackupsWait
<1>3. ASSUME NEW j \in Endpoint, call[j] = "idle" PROVE j \notin Payloads
  BY <1>3 DEF CallInv, Answered, Payloads, With
<1> QED
  BY <1>1, <1>2, <1>3

(* A serial call has been logged, and the request goes on or ends.              *)
LEMMA SerialMoves ==
  ASSUME RequestInv, CallInv', Serial, outcome = Open, NEW i \in Endpoint,
         call[i] \in {"saving", "erring"}, UNCHANGED <<kind, ans, result, first>>,
         \/ Backup(i) /\ i \notin Payloads
         \/ HasPayload(ans[i]) /\ call' = [call EXCEPT ![i] = "done"] /\ outcome' = Resolves(i),
         log \subseteq log', Logging => \E row \in log' : row.miner = i /\ row.about = ans[i]
  PROVE  RequestInv'
<1> USE EndpointAssumption DEF Endpoint
<1>1. Serial' /\ Payloads' = Payloads
  BY DEF Serial, Payloads, With
<1>2. \A j \in Endpoint : /\ j < i => call[j] = "done" /\ j \notin Payloads
                          /\ i < j => call[j] = "idle" /\ j \notin Payloads
  BY SerialAsks DEF RequestInv
<1>3. call \in [Endpoint -> {"idle", "waiting", "saving", "erring", "done"}]
  BY DEF RequestInv, CallInv, TypeOK
<1>4. \A j \in Endpoint : j # i => (call'[j] = "done" <=> call[j] = "done")
  BY <1>2, <1>3 DEF Backup, IsLast
<1>5. call'[i] = "done"
  BY <1>3 DEF Backup
<1>6. Loop'
  BY <1>1 DEF Loop
<1>7. \A j \in Endpoint : Logging /\ call'[j] = "done" => Logged(j)'
  <2> SUFFICES ASSUME NEW j \in Endpoint, Logging, call'[j] = "done" PROVE Logged(j)'
    OBVIOUS
  <2>1. CASE j = i
    BY <2>1 DEF Logged
  <2>2. CASE j # i
    BY <2>2, <1>4 DEF RequestInv, LoopLogs, Logged
  <2> QED
    BY <2>1, <2>2
<1>8. LoopLogs'
  BY <1>1, <1>7 DEF LoopLogs
<1>9. AnswerByPriority'
  <2>1. CASE HasPayload(ans[i]) /\ call' = [call EXCEPT ![i] = "done"] /\ outcome' = Resolves(i)
    <3>1. i \in Payloads /\ IsFirst(i, Payloads)
      BY <2>1, <1>2 DEF HasPayload, Payloads, With, IsFirst
    <3>2. \A j \in Endpoint : call'[j] \in {"idle", "done"}
      BY <2>1, <1>2, <1>3
    <3> QED
      BY <1>1, <2>1, <3>1, <3>2 DEF AnswerByPriority, Resolves, IsFirst
  <2>2. CASE Backup(i) /\ i \notin Payloads /\ IsLast(i)
    <3>1. Payloads = {}
      BY <2>2, <1>2 DEF IsLast, Payloads, With
    <3>2. \A j \in Endpoint : call'[j] \in {"idle", "done"}
      BY <2>2, <1>2, <1>3 DEF Backup
    <3> QED
      BY <1>1, <2>2, <3>1, <3>2 DEF AnswerByPriority, Rejects, Backup
  <2>3. CASE Backup(i) /\ ~IsLast(i)
    BY <2>3 DEF Backup, AnswerByPriority, Open
  <2> QED
    BY <2>1, <2>2, <2>3
<1>10. AnswersLogged'
  <2> SUFFICES ASSUME Logging, outcome'.how \in {"resolved", "rejected"},
                      NEW j \in Endpoint, ans'[j] # "none"
               PROVE  Logged(j)'
    BY DEF AnswersLogged, Logged
  <2>1. call'[j] \in {"idle", "done"}
    BY <1>9 DEF AnswerByPriority
  <2>2. call'[j] = "done"
    BY <2>1 DEF CallInv, Answered
  <2> QED
    BY <2>2, <1>7
<1> QED
  BY <1>6, <1>8, <1>9, <1>10 DEF RequestInv

LEMMA RequestStep == RequestInv /\ [Next]_vars => RequestInv'
<1> SUFFICES ASSUME RequestInv, [Next]_vars PROVE RequestInv'
  OBVIOUS
<1>0. CallInv /\ CallInv'
  BY CallStep DEF RequestInv
<1> USE DEF RequestInv
<1>1. ASSUME NEW i \in Endpoint, Answers(i) PROVE RequestInv'
  <2>1. /\ outcome = Open /\ outcome' = Open /\ call[i] = "waiting"
        /\ \A j \in Endpoint : j # i => ans'[j] = ans[j] /\ call'[j] = call[j]
        /\ Serial' = Serial /\ UNCHANGED <<kind, result, first, log, outcome>>
    BY <1>1 DEF Answers, Serial, CallInv, TypeOK
  <2>2. call'[i] # "done" \/ ~Serial
    BY <1>1, <1>0 DEF Answers, AfterAnswer, CallInv, TypeOK
  <2>3. ~Serial => result = 1 /\ first.success = 0 /\ first.failure = 0
    <3>1. ~Serial => ~(result > 1)
      BY <2>1 DEF Loop
    <3>2. ~Serial => result = 1
      BY <3>1, <1>0, EndpointAssumption DEF CallInv, TypeOK, Endpoint
    <3>3. first.success \in 0 .. N /\ first.failure \in 0 .. N
      BY <1>0 DEF CallInv, TypeOK
    <3> QED
      BY <3>2, <3>3, <2>1, EndpointAssumption DEF Loop, Found, Endpoint
  <2>4. Loop'
    BY <2>1, <2>3, EndpointAssumption DEF Loop, Found, Endpoint
  <2>5. LoopLogs'
    BY <2>1, <2>2, <2>3, EndpointAssumption DEF LoopLogs, Logged, Endpoint
  <2>6. AnswerByPriority' /\ AnswersLogged'
    BY <2>1 DEF AnswerByPriority, AnswersLogged, Open
  <2> QED
    BY <1>0, <2>4, <2>5, <2>6
<1>2. ASSUME NEW i \in Endpoint, Saved(i) PROVE RequestInv'
  <2>1. /\ outcome = Open /\ Serial /\ call[i] = "saving" /\ Saves(i, EventOf, ans[i])
        /\ UNCHANGED <<kind, ans, result, first>>
    BY <1>2 DEF Saved
  <2>2. ans[i] \in Answer /\ EventOf \in {"pushtx", "statustx"}
    BY <2>1, <1>0 DEF CallInv, Answered, TypeOK, EventOf
  <2>3. log \subseteq log' /\ (Logging => \E row \in log' : row.miner = i /\ row.about = ans[i])
    BY <2>1, <2>2, <1>0, SavesRow DEF CallInv
  <2>4. \/ Backup(i) /\ i \notin Payloads
        \/ HasPayload(ans[i]) /\ call' = [call EXCEPT ![i] = "done"] /\ outcome' = Resolves(i)
    BY <1>2 DEF Saved, HasPayload, Payloads, With
  <2> QED
    BY <1>0, <2>1, <2>3, <2>4, SerialMoves
<1>3. ASSUME NEW i \in Endpoint, ErrorSaved(i) PROVE RequestInv'
  <2>1. /\ outcome = Open /\ call[i] = "erring" /\ ans[i] = "error"
        /\ UNCHANGED <<kind, ans, result, first>> /\ Serial' = Serial
    BY <1>3, <1>0 DEF ErrorSaved, Serial, CallInv, Answered
  <2>2. PICK event \in {"pushtx", "statustx"} : Saves(i, event, "error")
    BY <1>3 DEF ErrorSaved, SavesError, EventOf
  <2>3. log \subseteq log' /\ (Logging => \E row \in log' : row.miner = i /\ row.about = ans[i])
    BY <2>1, <2>2, <1>0, SavesRow DEF CallInv, Answer
  <2>4. CASE Serial
    <3>1. Backup(i) /\ i \notin Payloads
      BY <1>3, <2>1, <2>4 DEF ErrorSaved, Payloads, With
    <3> QED
      BY <1>0, <2>1, <2>3, <2>4, <3>1, SerialMoves
  <2>5. CASE ~Serial
    <3>1. call' = [call EXCEPT ![i] = "done"] /\ outcome' = outcome
      BY <1>3, <2>5 DEF ErrorSaved
    <3>2. Loop'
      BY <2>1, <3>1, <1>0 DEF Loop, Found, IsFirst, With, CallInv, TypeOK
    <3>3. LoopLogs'
      BY <2>1, <2>3, <2>5, <3>1 DEF LoopLogs, Logged
    <3>4. AnswerByPriority' /\ AnswersLogged'
      BY <2>1, <3>1 DEF AnswerByPriority, AnswersLogged, Open
    <3> QED
      BY <1>0, <3>2, <3>3, <3>4
  <2> QED
    BY <2>4, <2>5
<1>4. ASSUME ResultSaved PROVE RequestInv'
  <2>1. /\ outcome = Open /\ ~Serial /\ Saves(result, "pushtx", ans[result])
        /\ \A i \in Endpoint : call[i] = "done"
        /\ UNCHANGED <<kind, call, ans>> /\ ~Serial'
    BY <1>4 DEF ResultSaved, Serial
  <2>2. /\ result \in Endpoint /\ ans[result] \in Answer
        /\ first.success \in 0 .. N /\ first.failure \in 0 .. N
    BY <2>1, <1>0 DEF CallInv, TypeOK, Answered
  <2>3. log \subseteq log' /\ (Logging => \E row \in log' : row.miner = result /\ row.about = ans[result])
    BY <2>1, <2>2, <1>0, SavesRow DEF CallInv
  <2>4. /\ first'.success = Keeps(result, first.success, "success")
        /\ first'.failure = Keeps(result, first.failure, "failure")
    BY <1>4 DEF ResultSaved
  <2>5. /\ Found("success", first.success, result)
        /\ Found("failure", first.failure, result)
    BY <2>1 DEF Loop
  <2>6. /\ Found("success", first'.success, result + 1)
        /\ Found("failure", first'.failure, result + 1)
    BY <2>2, <2>4, <2>5, KeepsFirst
  <2>7. \A j \in Endpoint : Logging /\ j <= result => Logged(j)'
    BY <2>1, <2>2, <2>3, EndpointAssumption DEF LoopLogs, Logged, Endpoint
  <2>8. CASE ~IsLast(result)
    <3>1. result' = result + 1 /\ outcome' = outcome
      BY <1>4, <2>8 DEF ResultSaved
    <3>2. Loop'
      BY <2>1, <2>6, <3>1 DEF Loop, Found, IsFirst, With
    <3>3. LoopLogs'
      BY <2>1, <2>2, <2>7, <3>1, EndpointAssumption DEF LoopLogs, Endpoint
    <3>4. AnswerByPriority' /\ AnswersLogged'
      BY <2>1, <3>1 DEF AnswerByPriority, AnswersLogged, Open
    <3> QED
      BY <1>0, <3>2, <3>3, <3>4
  <2>9. CASE IsLast(result)
    <3>1. /\ result = N
          /\ outcome' = IF first'.success # 0 THEN Resolves(first'.success)
                                              ELSE Rejects(first'.failure)
      BY <1>4, <2>9 DEF ResultSaved, IsLast
    <3>2. /\ IF first'.success = 0 THEN With({"success"}) = {}
             ELSE IsFirst(first'.success, With({"success"}))
          /\ IF first'.failure = 0 THEN With({"failure"}) = {}
             ELSE IsFirst(first'.failure, With({"failure"}))
      BY <2>6, <3>1, EndpointAssumption DEF Found, With, Endpoint
    <3>3. Payloads = With({"success"}) \cup With({"failure"})
      BY DEF Payloads, With
    <3>4. /\ With({"success"})' = With({"success"}) /\ Payloads' = Payloads
      BY <2>1 DEF With, Payloads
    <3>5. AnswerByPriority'
      <4>1. CASE first'.success # 0
        BY <2>1, <3>1, <3>2, <3>4, <4>1 DEF AnswerByPriority, Resolves, IsFirst
      <4>2. CASE first'.success = 0
        BY <2>1, <3>1, <3>2, <3>3, <3>4, <4>2 DEF AnswerByPriority, Rejects, IsFirst
      <4> QED
        BY <4>1, <4>2
    <3>6. AnswersLogged'
      BY <2>7, <3>1, EndpointAssumption DEF AnswersLogged, Logged, Endpoint
    <3>7. outcome' # Open
      BY <3>1 DEF Resolves, Rejects, Open
    <3> QED
      BY <1>0, <3>5, <3>6, <3>7 DEF Loop, LoopLogs
  <2> QED
    BY <2>8, <2>9
<1>5. ASSUME SaveFails PROVE RequestInv'
  <2>1. outcome = Open /\ Serial' = Serial /\ UNCHANGED <<kind, result, first, log>>
    BY <1>5 DEF SaveFails, Serial
  <2>2. ASSUME NEW i \in Endpoint, Serial, call[i] = "saving", outcome' = outcome,
               call' = [call EXCEPT ![i] = "erring"], ans' = [ans EXCEPT ![i] = "error"]
        PROVE  RequestInv'
    <3>1. Loop' /\ LoopLogs'
      BY <2>1, <2>2, <1>0 DEF Loop, LoopLogs, Logged, CallInv, TypeOK
    <3>2. AnswerByPriority' /\ AnswersLogged'
      BY <2>1, <2>2 DEF AnswerByPriority, AnswersLogged, Open
    <3> QED
      BY <1>0, <3>1, <3>2
  <2>3. CASE outcome' = Died /\ UNCHANGED <<call, ans>>
    BY <1>0, <2>3 DEF Died, Open, Loop, LoopLogs, AnswerByPriority, AnswersLogged
  <2> QED
    BY <1>5, <2>2, <2>3 DEF SaveFails
<1>6. CASE UNCHANGED vars
  BY <1>0, <1>6 DEF vars, Loop, Found, LoopLogs, Logged, AnswerByPriority, AnswersLogged,
                    IsFirst, Payloads, With, Serial
<1> QED
  BY <1>1, <1>2, <1>3, <1>4, <1>5, <1>6 DEF Next, Step

(* The caller is given the answer priority demands, in whatever order the       *)
(* miners answer and whichever of them fail.                                    *)
THEOREM PriorityDecides == Spec => []AnswerByPriority
<1>1. RequestInv => AnswerByPriority
  BY DEF RequestInv
<1> QED
  BY RequestInit, RequestStep, <1>1, PTL DEF Spec

(* A row is written when the call it is about comes to its end; what is known of *)
(* an endpoint does not change after that.                                      *)
RowsTrue == \A row \in log : call[row.miner] = "done" /\ row.about = ans[row.miner]

(* One call ends and is logged; no other call that has ended is touched.        *)
LEMMA LoggedTrue ==
  ASSUME RowsTrue, NEW i \in Endpoint, NEW event, NEW a, Saves(i, event, a),
         ans' = ans, a = ans[i], call'[i] = "done",
         TypeOK, \A j \in Endpoint : call[j] = "done" => call'[j] = "done"
  PROVE  RowsTrue'
<1>1. log' \subseteq log \cup {Row(i, event, a)}
  BY DEF Saves
<1>2. \A row \in log : row.miner \in Endpoint
  BY DEF TypeOK
<1> QED
  BY <1>1, <1>2 DEF RowsTrue, Row

LEMMA RowsTrueStep == CallInv /\ RowsTrue /\ [Next]_vars => RowsTrue'
<1> SUFFICES ASSUME CallInv, RowsTrue, [Next]_vars PROVE RowsTrue'
  OBVIOUS
<1> USE DEF CallInv
<1>0. \A row \in log : row.miner \in Endpoint
  BY DEF TypeOK
<1>1. ASSUME NEW i \in Endpoint, Backup(i), Serial, call[i] \in {"saving", "erring"}
      PROVE  call'[i] = "done" /\ \A j \in Endpoint : call[j] = "done" => call'[j] = "done"
  <2>1. \A j \in Endpoint : i < j => call[j] = "idle"
    BY <1>1 DEF BackupsWait
  <2> QED
    BY <1>1, <2>1, EndpointAssumption DEF Backup, TypeOK, Endpoint
<1>2. ASSUME NEW i \in Endpoint, Answers(i) PROVE RowsTrue'
  BY <1>0, <1>2 DEF Answers, RowsTrue, TypeOK
<1>3. ASSUME NEW i \in Endpoint, Saved(i) PROVE RowsTrue'
  <2>1. Saves(i, EventOf, ans[i]) /\ ans' = ans /\ Serial /\ call[i] = "saving"
    BY <1>3 DEF Saved
  <2>2. call'[i] = "done" /\ \A j \in Endpoint : call[j] = "done" => call'[j] = "done"
    BY <1>1, <1>3, <2>1 DEF Saved, TypeOK
  <2> QED
    BY <2>1, <2>2, LoggedTrue
<1>4. ASSUME NEW i \in Endpoint, ErrorSaved(i) PROVE RowsTrue'
  <2>1. PICK event : Saves(i, event, "error")
    BY <1>4 DEF ErrorSaved, SavesError
  <2>2. ans' = ans /\ ans[i] = "error" /\ call[i] = "erring"
    BY <1>4 DEF ErrorSaved, Answered
  <2>3. call'[i] = "done" /\ \A j \in Endpoint : call[j] = "done" => call'[j] = "done"
    BY <1>1, <1>4, <2>2 DEF ErrorSaved, TypeOK
  <2> QED
    BY <2>1, <2>2, <2>3, LoggedTrue
<1>5. ASSUME ResultSaved PROVE RowsTrue'
  <2>1. /\ Saves(result, "pushtx", ans[result]) /\ ans' = ans /\ call' = call
        /\ result \in Endpoint /\ call[result] = "done"
    BY <1>5 DEF ResultSaved, TypeOK
  <2> QED
    BY <2>1, LoggedTrue
<1>6. ASSUME SaveFails PROVE RowsTrue'
  BY <1>0, <1>6 DEF SaveFails, RowsTrue, TypeOK
<1>7. CASE UNCHANGED vars
  BY <1>7 DEF vars, RowsTrue
<1> QED
  BY <1>2, <1>3, <1>4, <1>5, <1>6, <1>7 DEF Next, Step

(* When the caller has its answer, all endpoints that were asked are logged, and *)
(* the log never says anything that an endpoint's call did not come to.         *)
THEOREM LogIsTrueAndComplete == Spec => []AsksAreLogged
<1>1. Init => CallInv /\ RowsTrue
  BY CallInit DEF Init, RowsTrue
<1>2. RequestInv /\ RowsTrue => AsksAreLogged
  BY DEF RequestInv, AnswersLogged, Logged, RowsTrue, AsksAreLogged
<1> QED
  BY RequestInit, RequestStep, CallStep, RowsTrueStep, <1>1, <1>2, PTL DEF Spec

(* A resolved push is a success, or a refusal where the serial policy hands     *)
(* that back: what SyncQueue's PushTx takes for granted.                        *)
THEOREM PushesAnswer == Spec => []PushAnswers
<1>1. RequestInv => PushAnswers
  BY DEF RequestInv, AnswerByPriority, PushAnswers, IsFirst, Payloads, With
<1> QED
  BY RequestInit, RequestStep, <1>1, PTL DEF Spec

-----------------------------------------------------------------------------
(* A call that is over is a miner that has been heard; nobody else is.          *)
LEMMA HeardOne ==
  ASSUME CallInv, NEW i \in Endpoint, call' \in [Endpoint -> {"idle", "waiting", "saving", "erring", "done"}],
         call[i] # "done", call'[i] = "done",
         \A j \in Endpoint : j # i => (call'[j] = "done" <=> call[j] = "done") /\ ans'[j] = ans[j]
  PROVE  Heard[i] = "none" /\ Heard' = [Heard EXCEPT ![i] = ans'[i]]
  BY DEF Heard, CallInv, TypeOK

LEMMA HeardNone ==
  ASSUME \A j \in Endpoint : /\ call'[j] = "done" <=> call[j] = "done"
                             /\ call[j] = "done" => ans'[j] = ans[j]
  PROVE  Heard' = Heard
  BY DEF Heard

(* A serial call that has been logged is the turn of its miner: everyone before  *)
(* it has been heard and had no answer.                                          *)
LEMMA SerialHears ==
  ASSUME CallInv, CallInv', Serial, outcome = Open, NEW i \in Endpoint,
         call[i] \in {"saving", "erring"}, UNCHANGED <<kind, ans, result, first>>,
         \/ Backup(i) /\ i \notin Payloads
         \/ HasPayload(ans[i]) /\ call' = [call EXCEPT ![i] = "done"] /\ outcome' = Resolves(i)
  PROVE  Request!Hear(i)
<1> USE EndpointAssumption DEF Endpoint
<1>1. call \in [Endpoint -> {"idle", "waiting", "saving", "erring", "done"}]
      /\ ans[i] \in Answer
  BY DEF CallInv, TypeOK, Answered
<1>2. \A j \in Endpoint : /\ j < i => call[j] = "done" /\ j \notin Payloads
                          /\ i < j => call[j] = "idle"
  BY SerialAsks
<1>3. call'[i] = "done" /\ \A j \in Endpoint : j # i => (call'[j] = "done" <=> call[j] = "done")
  BY <1>1, <1>2 DEF Backup, IsLast
<1>4. Heard[i] = "none" /\ Heard' = [Heard EXCEPT ![i] = ans[i]] /\ Heard'[i] = ans[i]
  <2>1. call' \in [Endpoint -> {"idle", "waiting", "saving", "erring", "done"}]
    BY DEF CallInv, TypeOK
  <2>2. Heard[i] = "none" /\ Heard' = [Heard EXCEPT ![i] = ans'[i]]
    BY <1>1, <1>3, <2>1, HeardOne
  <2> QED
    BY <2>2 DEF Heard
<1>5. \A j \in 1 .. i - 1 : Heard[j] \in {"empty", "error"}
  BY <1>2 DEF Heard, Payloads, With, CallInv, Answered, TypeOK, Answer
<1>6. outcome' = IF ans[i] \in {"success", "failure"} THEN Resolves(i)
                 ELSE IF i = N THEN Rejects(0) ELSE Open
  BY DEF Backup, IsLast, HasPayload, Payloads, With
<1> QED
  BY <1>1, <1>4, <1>5, <1>6
  DEF Request!Hear, Request!HearsNext, Request!OneByOne, Request!Alone, Request!Decisive, Answer,
      Request!Settled, Request!Open, Request!Miner, Open, Resolves, Rejects, Serial

LEMMA RequestMaps == RequestInv /\ RequestInv' /\ [Next]_vars => [Request!Next]_(Request!vars)
<1> SUFFICES ASSUME RequestInv, RequestInv', [Next]_vars
             PROVE  Request!Next \/ UNCHANGED <<kind, Heard, outcome>>
  BY DEF Request!vars
<1> USE EndpointAssumption
<1>0. CallInv /\ CallInv' /\ Request!Miner = Endpoint /\ Request!Open = Open
  BY DEF RequestInv, Request!Miner, Endpoint, Request!Open, Open
<1>1. ASSUME NEW i \in Endpoint, Answers(i) PROVE Request!Next \/ UNCHANGED <<kind, Heard, outcome>>
  <2>1. PICK a \in Answer : /\ ans' = [ans EXCEPT ![i] = a]
                            /\ call' = [call EXCEPT ![i] = AfterAnswer(a)]
    BY <1>1 DEF Answers
  <2>2. /\ outcome = Open /\ call[i] = "waiting" /\ UNCHANGED <<kind, outcome>>
        /\ call'[i] = AfterAnswer(a) /\ ans'[i] = a
        /\ \A j \in Endpoint : j # i => ans'[j] = ans[j] /\ call'[j] = call[j]
    BY <1>0, <1>1, <2>1 DEF Answers, CallInv, TypeOK
  <2>3. CASE Serial \/ a = "error"
    BY <2>2, <2>3, HeardNone DEF AfterAnswer
  <2>4. CASE ~Serial /\ a # "error"
    <3>1. call'[i] = "done"
      BY <2>2, <2>4 DEF AfterAnswer
    <3>2. call' \in [Endpoint -> {"idle", "waiting", "saving", "erring", "done"}]
      BY <1>0 DEF CallInv, TypeOK
    <3>3. Heard[i] = "none" /\ Heard' = [Heard EXCEPT ![i] = a]
      BY <1>0, <2>2, <3>1, <3>2, HeardOne
    <3>4. Request!Hear(i)
      BY <1>0, <2>2, <2>4, <3>3
      DEF Request!Hear, Request!HearsAny, Request!OneByOne, Request!Alone, Request!Decisive,
          Answer, Serial
    <3> QED
      BY <1>0, <3>4 DEF Request!Next
  <2> QED
    BY <2>3, <2>4
<1>2. ASSUME NEW i \in Endpoint, Saved(i) PROVE Request!Next
  <2>1. /\ outcome = Open /\ Serial /\ call[i] = "saving" /\ UNCHANGED <<kind, ans, result, first>>
        /\ \/ Backup(i) /\ i \notin Payloads
           \/ HasPayload(ans[i]) /\ call' = [call EXCEPT ![i] = "done"] /\ outcome' = Resolves(i)
    BY <1>2 DEF Saved, HasPayload, Payloads, With
  <2> QED
    BY <1>0, <2>1, SerialHears DEF Request!Next
<1>3. ASSUME NEW i \in Endpoint, ErrorSaved(i) PROVE Request!Next
  <2>1. /\ outcome = Open /\ call[i] = "erring" /\ ans[i] = "error"
        /\ UNCHANGED <<kind, ans, result, first>>
    BY <1>0, <1>3 DEF ErrorSaved, CallInv, Answered
  <2>2. CASE Serial
    <3>1. Backup(i) /\ i \notin Payloads
      BY <1>3, <2>1, <2>2 DEF ErrorSaved, Payloads, With
    <3> QED
      BY <1>0, <2>1, <2>2, <3>1, SerialHears DEF Request!Next
  <2>3. CASE ~Serial
    <3>1. /\ call' = [call EXCEPT ![i] = "done"] /\ outcome' = outcome
          /\ call' \in [Endpoint -> {"idle", "waiting", "saving", "erring", "done"}]
      BY <1>0, <1>3, <2>3 DEF ErrorSaved, CallInv, TypeOK
    <3>2. call'[i] = "done" /\ \A j \in Endpoint : j # i => call'[j] = call[j]
      BY <1>0, <3>1 DEF CallInv, TypeOK
    <3>3. Heard[i] = "none" /\ Heard' = [Heard EXCEPT ![i] = "error"]
      BY <1>0, <2>1, <3>1, <3>2, HeardOne
    <3>4. Request!Hear(i)
      BY <1>0, <2>1, <2>3, <3>1, <3>3
      DEF Request!Hear, Request!HearsAny, Request!OneByOne, Request!Alone, Serial
    <3> QED
      BY <1>0, <3>4 DEF Request!Next
  <2> QED
    BY <2>2, <2>3
<1>4. ASSUME ResultSaved PROVE Request!Next \/ UNCHANGED <<kind, Heard, outcome>>
  <2>1. /\ outcome = Open /\ ~Serial /\ ~Serial' /\ \A i \in Endpoint : call[i] = "done"
        /\ UNCHANGED <<kind, call, ans>> /\ Heard' = Heard
    BY <1>4 DEF ResultSaved, Serial, Heard
  <2>2. CASE ~IsLast(result)
    BY <1>4, <2>1, <2>2 DEF ResultSaved
  <2>3. CASE IsLast(result)
    <3>1. outcome' = IF first'.success # 0 THEN Resolves(first'.success) ELSE Rejects(first'.failure)
      BY <1>4, <2>3 DEF ResultSaved
    <3>2. \A i \in Endpoint : Heard[i] = ans[i] /\ ans[i] # "none" /\ ans'[i] = ans[i]
      BY <1>0, <2>1 DEF Heard, CallInv, Answered
    <3>3. ASSUME NEW what, NEW i, IsFirst(i, With({what})) PROVE i \in Endpoint /\ Request!IsFirst(i, what)
      BY <3>2, <3>3 DEF IsFirst, With, Request!IsFirst, Endpoint
    <3>4. AnswerByPriority' /\ With({"success"})' = With({"success"}) /\ Payloads' = Payloads
      BY <2>1 DEF RequestInv, With, Payloads
    <3>5. Request!Nobody("none")
      BY <1>0, <3>2 DEF Request!Nobody
    <3>6. CASE first'.success # 0
      <4>1. outcome' = Resolves(first'.success) /\ IsFirst(first'.success, With({"success"}))
        BY <2>1, <3>1, <3>4, <3>6 DEF AnswerByPriority, Resolves, IsFirst
      <4> QED
        BY <1>0, <2>1, <3>3, <3>5, <4>1
        DEF Request!Next, Request!Decide, Request!OneByOne, Serial, Request!Settled, Resolves
    <3>7. CASE first'.success = 0
      <4>1. outcome' = Rejects(first'.failure) /\ With({"success"}) = {}
        BY <2>1, <3>1, <3>4, <3>7 DEF AnswerByPriority, Rejects
      <4>2. Request!Nobody("success") /\ Payloads = With({"failure"})
        BY <1>0, <3>2, <4>1 DEF Request!Nobody, With, Payloads
      <4>3. IF first'.failure = 0 THEN Payloads = {} ELSE IsFirst(first'.failure, Payloads)
        BY <3>4, <4>1 DEF AnswerByPriority, Rejects, IsFirst
      <4>4. \/ first'.failure = 0 /\ Request!Nobody("failure")
            \/ first'.failure \in Endpoint /\ Request!IsFirst(first'.failure, "failure")
        <5>1. CASE first'.failure = 0
          BY <1>0, <3>2, <4>2, <4>3, <5>1 DEF Request!Nobody, With
        <5>2. CASE first'.failure # 0
          BY <3>3, <4>2, <4>3, <5>2
        <5> QED
          BY <5>1, <5>2
      <4> QED
        BY <1>0, <2>1, <3>5, <4>1, <4>2, <4>4
        DEF Request!Next, Request!Decide, Request!OneByOne, Serial, Request!Settled, Rejects
    <3> QED
      BY <3>6, <3>7
  <2> QED
    BY <2>2, <2>3
<1>5. ASSUME SaveFails PROVE Request!Next \/ UNCHANGED <<kind, Heard, outcome>>
  <2>1. outcome = Open /\ kind' = kind
    BY <1>5 DEF SaveFails
  <2>2. ASSUME NEW i \in Endpoint, call[i] = "saving", outcome' = outcome,
               call' = [call EXCEPT ![i] = "erring"], ans' = [ans EXCEPT ![i] = "error"]
        PROVE  UNCHANGED <<kind, Heard, outcome>>
    BY <1>0, <2>1, <2>2, HeardNone DEF CallInv, TypeOK
  <2>3. CASE outcome' = Died /\ UNCHANGED <<call, ans>>
    BY <1>0, <2>1, <2>3 DEF Request!Next, Request!Dies, Request!Settled, Died, Heard
  <2> QED
    BY <1>5, <2>2, <2>3 DEF SaveFails
<1>6. CASE UNCHANGED vars
  BY <1>6 DEF vars, Heard
<1> QED
  BY <1>1, <1>2, <1>3, <1>4, <1>5, <1>6 DEF Next, Step

(* For whoever makes it a request is one of MinerRequest: the miners are heard as *)
(* the policy says, each once, and the outcome is what the best of them decides.  *)
THEOREM RefinesMinerRequest == Spec => ImplementsMinerRequest
<1>1. Init => Request!Init
  BY DEF Init, Request!Init, Heard, Endpoint, Request!Miner, Request!Open, Open, Kinds
<1> QED
  BY RequestInit, RequestStep, RequestMaps, <1>1, PTL
  DEF Spec, ImplementsMinerRequest, Request!Spec

-----------------------------------------------------------------------------
(* A serial request that is open has its one call at work; the parallel ones do  *)
(* not need to be told apart.                                                    *)
SerialWorks ==
  Serial /\ outcome = Open => \E i \in Endpoint : call[i] \in {"waiting", "saving", "erring"}

(* The call to i is over, and the next one is asked or there is none.            *)
LEMMA BackupForward ==
  ASSUME CallInv, NEW i \in Endpoint, Backup(i), call[i] \in {"saving", "erring"}, Serial
  PROVE  /\ \A j \in Endpoint : Left(j)' <= Left(j)
         /\ Left(i)' < Left(i)
         /\ outcome' = Open => \E j \in Endpoint : call'[j] = "waiting"
<1> USE EndpointAssumption DEF Endpoint
<1>1. call \in [Endpoint -> {"idle", "waiting", "saving", "erring", "done"}]
  BY DEF CallInv, TypeOK
<1>2. CASE IsLast(i)
  <2>1. call' = [call EXCEPT ![i] = "done"] /\ outcome' # Open
    BY <1>2 DEF Backup, Rejects, Open
  <2> QED
    BY <1>1, <2>1 DEF Left
<1>3. CASE ~IsLast(i)
  <2>1. call' = [call EXCEPT ![i] = "done", ![i + 1] = "waiting"] /\ i + 1 \in Endpoint
    BY <1>3 DEF Backup, IsLast
  <2>2. call[i + 1] = "idle"
    BY <2>1 DEF CallInv, BackupsWait
  <2>3. \A j \in Endpoint : call'[j] = IF j = i THEN "done" ELSE
                                       IF j = i + 1 THEN "waiting" ELSE call[j]
    BY <1>1, <2>1
  <2>4. \A j \in Endpoint : j # i /\ j # i + 1 => Left(j)' = Left(j)
    BY <2>3 DEF Left
  <2>5. Left(i)' = 0 /\ Left(i) \in {1, 2}
    BY <2>3 DEF Left
  <2>6. PICK k \in Endpoint : k = i + 1 /\ call[k] = "idle" /\ call'[k] = "waiting"
    BY <2>1, <2>2, <2>3
  <2>7. Left(k)' = 3 /\ Left(k) = 4
    BY <2>6 DEF Left
  <2>8. \A j \in Endpoint : Left(j) \in 0 .. 4
    BY <1>1 DEF Left
  <2>9. \A j \in Endpoint : Left(j)' <= Left(j)
    <3> SUFFICES ASSUME NEW j \in Endpoint PROVE Left(j)' <= Left(j)
      OBVIOUS
    <3>1. CASE j = i
      BY <2>5, <3>1
    <3>2. CASE j = k
      BY <2>7, <3>2
    <3>3. CASE j # i /\ j # k
      BY <2>4, <2>6, <2>8, <3>3
    <3> QED
      BY <3>1, <3>2, <3>3
  <2> QED
    BY <2>5, <2>6, <2>9
<1> QED
  BY <1>2, <1>3

Forward ==
  /\ \A i \in Endpoint : Left(i)' <= Left(i)
  /\ result' \in {result, result + 1}
  /\ outcome' # Open \/ result' = result + 1 \/ \E i \in Endpoint : Left(i)' < Left(i)

LEMMA StepForward ==
  ASSUME CallInv, SerialWorks, Next
  PROVE  SerialWorks' /\ Forward
<1>1. call \in [Endpoint -> {"idle", "waiting", "saving", "erring", "done"}]
      /\ \A j \in Endpoint : Left(j) \in 0 .. 4
  BY DEF CallInv, TypeOK, Left
<1>2. ASSUME NEW i \in Endpoint, Answers(i) PROVE SerialWorks' /\ Forward
  <2>1. PICK a \in Answer : call' = [call EXCEPT ![i] = AfterAnswer(a)]
    BY <1>2 DEF Answers
  <2>2. /\ call[i] = "waiting" /\ result' = result /\ Serial' = Serial
        /\ call'[i] \in {"erring", "saving", "done"} /\ (Serial => call'[i] # "done")
        /\ \A j \in Endpoint : j # i => call'[j] = call[j]
    BY <1>1, <1>2, <2>1 DEF Answers, AfterAnswer, Serial
  <2>3. Left(i) = 3 /\ Left(i)' \in 0 .. 2 /\ \A j \in Endpoint : j # i => Left(j)' = Left(j)
    BY <2>2 DEF Left
  <2> QED
    BY <1>1, <2>2, <2>3 DEF SerialWorks, Forward
<1>3. ASSUME NEW i \in Endpoint, Saved(i) \/ ErrorSaved(i) PROVE SerialWorks' /\ Forward
  <2>1. /\ outcome = Open /\ result' = result /\ Serial' = Serial /\ call[i] \in {"saving", "erring"}
        /\ \/ Serial /\ Backup(i)
           \/ /\ call' = [call EXCEPT ![i] = "done"]
              /\ ~Serial \/ outcome' = Resolves(i)
    BY <1>3 DEF Saved, ErrorSaved, Serial
  <2>2. CASE Serial /\ Backup(i)
    BY <2>1, <2>2, BackupForward DEF SerialWorks, Forward
  <2>3. CASE call' = [call EXCEPT ![i] = "done"] /\ (~Serial \/ outcome' = Resolves(i))
    <3>1. Left(i) \in 1 .. 2 /\ Left(i)' = 0 /\ \A j \in Endpoint : j # i => Left(j)' = Left(j)
      BY <1>1, <2>1, <2>3 DEF Left
    <3> QED
      BY <1>1, <2>1, <2>3, <3>1 DEF SerialWorks, Forward, Resolves, Open
  <2> QED
    BY <2>1, <2>2, <2>3
<1>4. ASSUME ResultSaved PROVE SerialWorks' /\ Forward
  <2>1. /\ ~Serial' /\ call' = call
        /\ \/ result' = result /\ outcome' # Open
           \/ result' = result + 1
    BY <1>4 DEF ResultSaved, Serial, Resolves, Rejects, Open
  <2>2. \A j \in Endpoint : Left(j)' = Left(j)
    BY <2>1 DEF Left
  <2> QED
    BY <1>1, <2>1, <2>2 DEF SerialWorks, Forward
<1>5. ASSUME SaveFails PROVE SerialWorks' /\ Forward
  <2>1. outcome = Open /\ result' = result /\ Serial' = Serial
    BY <1>5 DEF SaveFails, Serial
  <2>2. ASSUME NEW i \in Endpoint, call[i] = "saving", call' = [call EXCEPT ![i] = "erring"]
        PROVE  SerialWorks' /\ Forward
    <3>1. /\ Left(i) = 2 /\ Left(i)' = 1 /\ call'[i] = "erring"
          /\ \A j \in Endpoint : j # i => Left(j)' = Left(j)
      BY <1>1, <2>2 DEF Left
    <3> QED
      BY <1>1, <2>1, <3>1 DEF SerialWorks, Forward
  <2>3. CASE outcome' = Died /\ call' = call
    <3>1. \A j \in Endpoint : Left(j)' = Left(j)
      BY <2>3 DEF Left
    <3> QED
      BY <1>1, <2>1, <2>3, <3>1 DEF SerialWorks, Forward, Died, Open
  <2> QED
    BY <1>5, <2>2, <2>3 DEF SaveFails
<1> QED
  BY <1>2, <1>3, <1>4, <1>5 DEF Next, Step

LEMMA SerialKeepsWorking == CallInv /\ SerialWorks /\ [Next]_vars => SerialWorks'
<1>1. ASSUME SerialWorks, UNCHANGED vars PROVE SerialWorks'
  BY <1>1 DEF SerialWorks, Serial, vars
<1> QED
  BY <1>1, StepForward

(* A parallel call that is not done is at work. *)
LEMMA ParallelWorks == CallInv /\ SerialWorks => SomeoneWorks
  BY DEF CallInv, TypeOK, PolicyShape, SerialWorks, SomeoneWorks

LEMMA WorksAtFirst == Init => SerialWorks
  BY EndpointAssumption DEF Init, SerialWorks, Endpoint

(* An open request is never without something that settles, whatever has failed. *)
THEOREM NeverStuck == Spec => []SomeoneWorks
  BY CallInit, CallStep, WorksAtFirst, SerialKeepsWorking, ParallelWorks, PTL DEF Spec

(* Each step takes a call, a write or the loop over the results further, and no  *)
(* step takes anything back: the number of steps of a request is bounded.         *)
THEOREM RequestsGoForward == Spec => RequestGoesForward
<1>1. CallInv /\ SerialWorks /\ [Next]_vars => [Forward]_vars
  BY StepForward
<1> QED
  BY CallInit, CallStep, WorksAtFirst, SerialKeepsWorking, <1>1, PTL
  DEF Spec, RequestGoesForward, Forward
=============================================================================
