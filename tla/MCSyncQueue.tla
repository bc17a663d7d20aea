---------------------------- MODULE MCSyncQueue ----------------------------
(* Values for the constants of SyncQueue. *)
EXTENDS SyncQueueClaims, SyncQueueTasks

AllPosts == PostKinds
RawPosts == {[raw |-> TRUE, nosync |-> FALSE]}

NosyncPosts == {[raw |-> TRUE, nosync |-> TRUE]}

NoManual == [k \in Kinds |-> IF k = "manual" THEN 0 ELSE 1]
TwoManual == [k \in Kinds |-> 2]
=============================================================================
