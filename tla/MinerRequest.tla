---------------------------- MODULE MinerRequest ----------------------------
(* What a request to the miners is, for whoever makes it: the miners are heard,  *)
(* each at most once, and one of them, or none, decides the outcome.  A policy    *)
(* is the order in which they are heard and what decides.  How a call, its        *)
(* exception and the log are handled is left to MerchantRequestor.                *)
EXTENDS Integers

CONSTANTS
  N,            \* the number of miners, numbered by priority
  SendPolicy    \* Config.merchantapi.sendPolicy

VARIABLES
  kind,      \* a push or a status request
  heard,     \* what each miner has come to; "none" so far
  verdict    \* how the request settled, and by whose answer

vars == <<kind, heard, verdict>>

Miner == 1 .. N
Open  == [how |-> "open", by |-> 0]
Settled(how, i) == [how |-> how, by |-> i]

Alone     == {"empty", "error"}       \* leaves the question to the others
Decisive  == {"success", "failure"}

OneByOne == kind = "status" \/ SendPolicy # "ALL_FIRST_PRIORITY_SUCCESS"

Init ==
  /\ kind \in {"push", "status"}
  /\ heard = [i \in Miner |-> "none"]
  /\ verdict = Open

(* One by one, a miner is asked only when nobody before it had an answer; the     *)
(* first answer, accepting or refusing, is the outcome.                           *)
HearsNext(i) ==
  /\ OneByOne
  /\ \A j \in 1 .. i - 1 : heard[j] \in Alone
  /\ verdict' = IF heard'[i] \in Decisive THEN Settled("resolved", i)
                ELSE IF i = N THEN Settled("rejected", 0) ELSE Open

(* Asked all at once they are heard in any order, and nothing is decided yet.     *)
HearsAny == ~OneByOne /\ verdict' = verdict

Hear(i) ==
  /\ verdict = Open /\ heard[i] = "none"
  /\ \E a \in Alone \cup Decisive : heard' = [heard EXCEPT ![i] = a]
  /\ HearsNext(i) \/ HearsAny
  /\ UNCHANGED kind

IsFirst(i, what) == heard[i] = what /\ \A j \in 1 .. i - 1 : heard[j] # what
Nobody(what)     == \A i \in Miner : heard[i] # what

(* When all are heard, the best miner that accepts decides; if nobody does, the   *)
(* best one that refuses; if nobody has an answer, none.                          *)
Decide ==
  /\ verdict = Open /\ ~OneByOne /\ Nobody("none")
  /\ \/ \E i \in Miner : IsFirst(i, "success") /\ verdict' = Settled("resolved", i)
     \/ /\ Nobody("success")
        /\ \/ \E i \in Miner : IsFirst(i, "failure") /\ verdict' = Settled("rejected", i)
           \/ Nobody("failure") /\ verdict' = Settled("rejected", 0)
  /\ UNCHANGED <<kind, heard>>

(* The process may end before. *)
Dies ==
  /\ verdict = Open
  /\ verdict' = Settled("died", 0)
  /\ UNCHANGED <<kind, heard>>

Next == Decide \/ Dies \/ \E i \in Miner : Hear(i)
Spec == Init /\ [][Next]_vars
=============================================================================
