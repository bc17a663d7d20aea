-------------------------- MODULE MerchantRequestor --------------------------
(* One request of TXQ to the miners: a transaction is pushed, or its status is  *)
(* asked, and one answer is made of what several miners say.  The endpoints are *)
(* numbered in the order of the configuration, which is their priority.         *)
(*                                                                              *)
(* SERIAL_BACKUP asks one after the other until one gives an answer.            *)
(* ALL_FIRST_PRIORITY_SUCCESS asks all at once, waits for all, and then goes    *)
(* through the answers in order of priority.  Every answer is also written to   *)
(* the merchantapilog table; a failing write has consequences of its own.       *)
EXTENDS Integers

CONSTANTS
  N,            \* number of endpoints of the network in use
  SendPolicy,   \* Config.merchantapi.sendPolicy
  Logging       \* Config.merchantapi.enableResponseLogging

ASSUME EndpointAssumption == N \in Nat \ {0}
ASSUME LoggingAssumption == Logging \in BOOLEAN

Endpoint == 1 .. N
Kinds    == {"push", "status"}

(* What a miner's call comes to: an accepting or a refusing payload, a response *)
(* without payload, or an exception.  An answer that could not be logged counts *)
(* as an exception as well (SERIAL_BACKUP).                                     *)
Answer        == {"success", "failure", "empty", "error"}
HasPayload_Success(a) == a = "success"     \* mutation: a refusal is no answer
HasPayload(a) == a \in {"success", "failure"}

VARIABLES
  kind,        \* what is asked of the miners
  call,        \* where the call to each endpoint stands
  ans,         \* what came of it; "none" so far
  result,      \* the endpoint whose result the loop of ALL_FIRST... is at
  first,       \* the authoritative success and failure that loop has found; 0: none
  log,         \* rows of merchantapilog
  outcome      \* how the promise of execute() settled

vars == <<kind, call, ans, result, first, log, outcome>>

(* A rejected promise without an answer carries only the list of errors.        *)
Open            == [how |-> "open", by |-> 0]
Resolves(i)     == [how |-> "resolved", by |-> i]
Rejects(i)      == [how |-> "rejected", by |-> i]
Died            == [how |-> "died", by |-> 0]

(* Status requests know one policy only. *)
Serial == kind = "status" \/ SendPolicy # "ALL_FIRST_PRIORITY_SUCCESS"

TypeOK ==
  /\ kind \in Kinds
  /\ call \in [Endpoint -> {"idle", "waiting", "saving", "erring", "done"}]
  /\ ans \in [Endpoint -> Answer \cup {"none"}]
  /\ result \in Endpoint
  /\ first \in [success : 0 .. N, failure : 0 .. N]
  /\ log \subseteq [miner : Endpoint, event : {"pushtx", "statustx"}, about : Answer]
  /\ outcome \in [how : {"open", "resolved", "rejected", "died"}, by : 0 .. N]

Init ==
  /\ kind \in Kinds
  /\ call = [i \in Endpoint |-> IF Serial /\ i > 1 THEN "idle" ELSE "waiting"]
  /\ ans = [i \in Endpoint |-> "none"]
  /\ result = 1
  /\ first = [success |-> 0, failure |-> 0]
  /\ log = {}
  /\ outcome = Open

(* responseSaver: writes a row when logging is on. *)
Row(i, event, a) == [miner |-> i, event |-> event, about |-> a]
Saves(i, event, a) == log' = IF Logging THEN log \cup {Row(i, event, a)} ELSE log
EventOf == IF kind = "push" THEN "pushtx" ELSE "statustx"

-----------------------------------------------------------------------------
AfterAnswer_NoReject(a) ==   \* mutation: a response without payload is forgotten
  IF a = "error" THEN "erring" ELSE IF Serial \/ a = "empty" THEN "saving" ELSE "done"
AfterAnswer(a) == IF a = "error" THEN "erring" ELSE IF Serial THEN "saving" ELSE "done"
Answers(i) ==
  /\ outcome = Open /\ call[i] = "waiting"
  /\ \E a \in Answer :
       /\ ans' = [ans EXCEPT ![i] = a]
       /\ call' = [call EXCEPT ![i] = AfterAnswer(a)]
  /\ UNCHANGED <<kind, result, first, log, outcome>>

(* SERIAL_BACKUP: the next endpoint is asked, or there is none left. *)
IsLast_OneMore(i) == i > N   \* mutation: i <= endpoints.length
IsLast(i)         == i = N
Backup(i) ==
  IF IsLast(i)
    THEN /\ call' = [call EXCEPT ![i] = "done"]
         /\ outcome' = Rejects(0)
    ELSE /\ call' = [call EXCEPT ![i] = "done", ![i + 1] = "waiting"]
         /\ outcome' = outcome

(* The answer is logged; any payload, a refusal too, ends the loop.             *)
Saved(i) ==
  /\ outcome = Open /\ Serial /\ call[i] = "saving"
  /\ Saves(i, EventOf, ans[i])
  /\ IF HasPayload(ans[i])
       THEN /\ call' = [call EXCEPT ![i] = "done"]
            /\ outcome' = Resolves(i)
       ELSE Backup(i)
  /\ UNCHANGED <<kind, ans, result, first>>

(* An exception is logged (by the ALL policy as a status event) and given up.   *)
SavesError_Not(i) == log' = log /\ call[i] = "erring"   \* mutation: catch does not log
SavesError(i)     == Saves(i, IF Serial THEN EventOf ELSE "statustx", "error")
ErrorSaved(i) ==
  /\ outcome = Open /\ call[i] = "erring"
  /\ SavesError(i)
  /\ IF Serial THEN Backup(i)
               ELSE call' = [call EXCEPT ![i] = "done"] /\ outcome' = outcome
  /\ UNCHANGED <<kind, ans, result, first>>

(* ALL_FIRST_PRIORITY_SUCCESS, after Promise.all: one result after the other is *)
(* logged, and the first success and the first refusal are kept.                *)
Keeps_Last(i, found, what) == IF ans[i] = what THEN i ELSE found   \* mutation
Keeps(i, found, what) == IF found = 0 /\ ans[i] = what THEN i ELSE found
ResultSaved ==
  /\ outcome = Open /\ ~Serial
  /\ \A i \in Endpoint : call[i] = "done"
  /\ Saves(result, "pushtx", ans[result])
  /\ first' = [success |-> Keeps(result, first.success, "success"),
               failure |-> Keeps(result, first.failure, "failure")]
  /\ IF IsLast(result)
       THEN /\ result' = result
            /\ outcome' = IF first'.success # 0 THEN Resolves(first'.success)
                                                ELSE Rejects(first'.failure)
       ELSE /\ result' = result + 1
            /\ outcome' = outcome
  /\ UNCHANGED <<kind, call, ans>>

(* The INSERT into merchantapilog fails.  Where SERIAL_BACKUP logs an answer    *)
(* the exception counts as the endpoint's.  Elsewhere nobody catches it: the    *)
(* promise never settles, and the unhandled rejection ends the process.         *)
SaveFails ==
  /\ outcome = Open /\ Logging
  /\ \/ \E i \in Endpoint :
          /\ Serial /\ call[i] = "saving"
          /\ call' = [call EXCEPT ![i] = "erring"]
          /\ ans' = [ans EXCEPT ![i] = "error"]
          /\ outcome' = outcome
     \/ /\ \/ \E i \in Endpoint : call[i] = "erring"
           \/ ~Serial /\ \A i \in Endpoint : call[i] = "done"
        /\ outcome' = Died
        /\ UNCHANGED <<call, ans>>
  /\ UNCHANGED <<kind, result, first, log>>

Step(i) == Answers(i) \/ Saved(i) \/ ErrorSaved(i)
Next == SaveFails \/ ResultSaved \/ \E i \in Endpoint : Step(i)

Spec == Init /\ [][Next]_vars

(* Each awaited call settles on its own; no write has to fail. *)
Fairness == WF_vars(ResultSaved) /\ \A i \in Endpoint : WF_vars(Step(i))
FairSpec == Spec /\ Fairness

-----------------------------------------------------------------------------
(* The answer is the one priority demands, in whatever order the miners answer  *)
(* and whichever of them fail: for a serial request that of the first endpoint  *)
(* with a payload; for the other policy the first success, else the first       *)
(* refusal, else none.  It is given when no other call is under way.            *)
With(what) == {i \in Endpoint : ans[i] \in what}
Payloads   == With({"success", "failure"})
IsFirst(i, S) == i \in S /\ \A j \in S : i <= j
AnswerByPriority ==
  LET authoritative == IF Serial THEN Payloads ELSE With({"success"}) IN
  /\ outcome.how = "resolved" => IsFirst(outcome.by, authoritative)
  /\ outcome.how = "rejected" =>
       /\ authoritative = {}
       /\ IF outcome.by = 0 THEN Payloads = {} ELSE IsFirst(outcome.by, Payloads)
  /\ outcome.how \in {"resolved", "rejected"} =>
       \A i \in Endpoint : call[i] \in {"idle", "done"}

(* A backup is asked only after everyone before it has failed to answer: a      *)
(* serial request never has two miners at work, nor a second opinion.           *)
BackupsWait ==
  Serial => \A i, j \in Endpoint : i < j /\ call[j] # "idle" =>
              call[i] = "done" /\ i \notin Payloads

(* All requests are logged: when the caller gets its answer, there is a row for *)
(* every endpoint that was asked, and it says what the endpoint answered.  No   *)
(* row ever says anything else, though an answer that could not be logged is    *)
(* turned into an exception and logged again.                                   *)
AsksAreLogged ==
  /\ Logging /\ outcome.how \in {"resolved", "rejected"} =>
       \A i \in Endpoint : ans[i] # "none" => \E row \in log : row.miner = i /\ row.about = ans[i]
  /\ \A row \in log : row.about = ans[row.miner]

(* A request does not stay open: neither a miner that answers without payload,  *)
(* nor one that throws, nor a slow one keeps the others' answers from the       *)
(* caller for ever.                                                             *)
RequestEnds == <>(outcome # Open)

(* Why it does: an open request has a call, a write or a result at work, and     *)
(* every step takes one of them on, or ends the request, and takes none back.  An *)
(* answer that cannot be logged turns into an exception, never into a new call.   *)
Left(i) == [idle |-> 4, waiting |-> 3, saving |-> 2, erring |-> 1, done |-> 0][call[i]]
SomeoneWorks ==
  outcome = Open => \/ \E i \in Endpoint : call[i] \in {"waiting", "saving", "erring"}
                    \/ ~Serial /\ \A i \in Endpoint : call[i] = "done"
RequestGoesForward ==
  [][/\ \A i \in Endpoint : Left(i)' <= Left(i)
     /\ result' \in {result, result + 1}
     /\ \/ outcome' # Open
        \/ result' = result + 1
        \/ \E i \in Endpoint : Left(i)' < Left(i)]_vars

(* For whoever makes it, the request is one of MinerRequest: a miner is heard     *)
(* when its call is over.  What becomes of the log, of an answer that cannot be   *)
(* logged, and in which order the loop goes through the results is nobody else's  *)
(* business.                                                                      *)
Heard == [i \in Endpoint |-> IF call[i] = "done" THEN ans[i] ELSE "none"]
Request == INSTANCE MinerRequest WITH heard <- Heard, verdict <- outcome
ImplementsMinerRequest == Request!Spec

(* What SyncQueue takes for granted of a push: its answer is a success, and a   *)
(* refusal only if the policy hands refusals back.                              *)
PushAnswers ==
  kind = "push" /\ outcome.how = "resolved" =>
    ans[outcome.by] \in {"success"} \cup (IF Serial THEN {"failure"} ELSE {})
=============================================================================
