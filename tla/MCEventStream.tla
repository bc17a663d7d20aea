---------------------------- MODULE MCEventStream ----------------------------
(* Values for the constants of EventStream. *)
EXTENDS EventStreamClaims, TLC

CONSTANTS inserts, address, x1

Listens == x1 :> address
=============================================================================
