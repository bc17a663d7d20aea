------------------------------- MODULE Ledger -------------------------------
(* What the tables of TXQ are there for: a ledger, to which whole transactions   *)
(* are added one at a time, in any order (a child may come before its parent),   *)
(* and which knows the outputs that none of its transactions spends.             *)
EXTENDS Integers, Sequences

CONSTANTS
  Tx,       \* transactions
  Inputs,   \* Inputs[x][i]: the outpoint that the i-th input of x spends
  Outputs   \* the number of outputs of every transaction

VARIABLES
  saved,    \* the transactions of the ledger
  utxo      \* their outputs that no transaction of the ledger spends

vars == <<saved, utxo>>

Ins(x)     == {Inputs[x][i] : i \in 1 .. Len(Inputs[x])}
Outs(x)    == {x} \X (1 .. Outputs[x])
SpentBy(X) == UNION {Ins(x) : x \in X}

Init == saved = {} /\ utxo = {}

(* A double spend is never added.  What the new transaction spends goes, if it   *)
(* is there already, and of its own outputs those stay that nobody spends yet.   *)
Add(x) ==
  /\ x \notin saved
  /\ saved' = saved \cup {x}
  /\ Ins(x) \cap SpentBy(saved) = {}
  /\ utxo' = (utxo \cup Outs(x)) \ SpentBy(saved')

Next == \E x \in Tx : Add(x)
Spec == Init /\ [][Next]_vars
=============================================================================
