--------------------------- MODULE SyncQueueClaims ---------------------------
(* What the README of TXQ says of the sync queue, stated over SyncQueue, and a   *)
(* run refutes: see README.md.                                                   *)
EXTENDS SyncQueue

(* Nothing in the process is about to touch txid t any more. *)
Quiet(t) == /\ loop[t] = "none" /\ \A n \in Runs : At(t, n, "free")
            /\ t \notin dlqWrite /\ save[t] = "idle" /\ resync[t] = "idle"

(* README.md:318: completed "will be set to true when the transaction is        *)
(* confirmed".  A resync interleaved with the end of a run leaves a row that is *)
(* synced with success, which nobody looks at again, and not completed.         *)
SyncedIsCompleted ==
  \A t \in Txid : Quiet(t) /\ txsync[t].sync = "success" => tx[t].completed
=============================================================================
