------------------------------ MODULE SaveTxs ------------------------------
(* How POST /tx (and the proxy) stores transactions, and the index that says     *)
(* which input spends which output.  SaveTxs.run writes tx, txin, txmeta, txout  *)
(* and txsync with one statement after another and no database transaction, so   *)
(* requests interleave between any two of them and may stop after any of them.   *)
(* A parent may be saved after its child: whichever of the two comes last has to *)
(* write the index, the child by updateSpendIndex, the parent by backfill.       *)
(* The enqueueing that follows is in SyncQueue; the events touch no table.       *)
EXTENDS Integers, Sequences

CONSTANTS
  Tx,        \* transactions
  Inputs,    \* Inputs[x][i]: the outpoint that the i-th input of x spends
  Outputs,   \* the number of outputs of every transaction
  Saver,     \* requests in flight at once
  Requests,  \* what a request may ask for: a sequence of entries
  Nothing    \* NULL

Entry    == [tx : Tx, raw : BOOLEAN]
Outpoint == UNION {{x} \X (1 .. Outputs[x]) : x \in Tx}
Txin     == UNION {{x} \X (1 .. Len(Inputs[x])) : x \in Tx}

(* Every transaction has an output; its inputs spend outputs of others.          *)
ASSUME TransactionAssumption ==
  /\ Outputs \in [Tx -> Nat \ {0}]
  /\ DOMAIN Inputs = Tx
  /\ \A x \in Tx : Inputs[x] \in Seq(Tx \X Nat)
  /\ \A x \in Tx : \A i \in 1 .. Len(Inputs[x]) : Inputs[x][i] \in Outpoint
ASSUME RequestAssumption == \A r \in Requests : r \in Seq(Entry) /\ r # <<>>
ASSUME NothingAssumption == Nothing \notin Txin

VARIABLES
  tx,       \* table tx: is there a row, and does it hold the bytes?
  txin,     \* table txin, a row being named by its primary key
  txmeta,   \* table txmeta
  txout,    \* table txout: the rows there are ...
  spend,    \* ... and their columns spend_txid and spend_index
  txsync,   \* table txsync
  saver,    \* the executions of SaveTxs.run
  saved     \* history: the transactions stored with bytes by a finished pass

vars == <<tx, txin, txmeta, txout, spend, txsync, saver, saved>>

Prev(in) == Inputs[in[1]][in[2]]
Idle     == [todo |-> <<>>, pc |-> "idle", i |-> 1, found |-> Nothing]
Awaiting == {"saveTx", "saveTxin", "saveTxmeta", "updateSpend", "saveTxout",
             "backfillRead", "backfillWrite", "insertTxsync"}

X(s)   == Head(saver[s].todo).tx       \* the transaction the pass of s is about
Raw(s) == Head(saver[s].todo).raw      \* and whether its bytes were posted
At(s, pc) == saver[s].pc = pc

(* A loop index of a pass points at an input or an output of its transaction.    *)
PlaceOK(s) ==
  /\ ~At(s, "idle") => saver[s].todo # <<>>
  /\ saver[s].pc \in {"saveTxin", "updateSpend"} =>
       Raw(s) /\ saver[s].i \in 1 .. Len(Inputs[X(s)])
  /\ saver[s].pc \in {"saveTxout", "backfillRead", "backfillWrite"} =>
       Raw(s) /\ saver[s].i \in 1 .. Outputs[X(s)]

TypeOK ==
  /\ tx \in [Tx -> {"norow", "absent", "present"}]
  /\ txin \subseteq Txin
  /\ txmeta \subseteq Tx
  /\ txout \subseteq Outpoint
  /\ spend \in [Outpoint -> Txin \cup {Nothing}]
  /\ txsync \subseteq Tx
  /\ saver \in [Saver -> [todo : Seq(Entry), pc : Awaiting \cup {"idle"}, i : Nat,
                          found : Txin \cup {Nothing}]]
  /\ \A s \in Saver : PlaceOK(s)
  /\ saved \subseteq Tx

Init ==
  /\ tx = [x \in Tx |-> "norow"]
  /\ txin = {}
  /\ txmeta = {}
  /\ txout = {}
  /\ spend = [o \in Outpoint |-> Nothing]
  /\ txsync = {}
  /\ saver = [s \in Saver |-> Idle]
  /\ saved = {}

-----------------------------------------------------------------------------
Moves(s, pc, i) ==
  saver' = [saver EXCEPT ![s] = [@ EXCEPT !.pc = pc, !.i = i, !.found = Nothing]]

(* A loop over the inputs goes on at input i, or is over. *)
Input(s, pc, i, after) ==
  IF i <= Len(Inputs[X(s)]) THEN Moves(s, pc, i) ELSE Moves(s, after, 1)

NextOutput_OneMore(s) == Moves(s, "saveTxout", saver[s].i + 1)  \* mutation: no end
NextOutput_LastLost(s) ==       \* mutation: the loop leaves out the last output
  IF saver[s].i + 1 < Outputs[X(s)] THEN Moves(s, "saveTxout", saver[s].i + 1)
                                    ELSE Moves(s, "insertTxsync", 1)
NextOutput(s) ==
  IF saver[s].i < Outputs[X(s)] THEN Moves(s, "saveTxout", saver[s].i + 1)
                                ELSE Moves(s, "insertTxsync", 1)

Starts(s, request) ==
  /\ At(s, "idle")
  /\ saver' = [saver EXCEPT ![s] = [Idle EXCEPT !.todo = request, !.pc = "saveTx"]]
  /\ UNCHANGED <<tx, txin, txmeta, txout, spend, txsync, saved>>

(* Whatever throws ends the request with an error; what it wrote stays.  A crash *)
(* of the process ends all of them like this.                                    *)
Fails(s) ==
  /\ ~At(s, "idle")
  /\ saver' = [saver EXCEPT ![s] = Idle]
  /\ UNCHANGED <<tx, txin, txmeta, txout, spend, txsync, saved>>

(* saveTx overwrites the bytes of an existing row, saveTxid leaves it alone.     *)
SaveTx(s) ==
  /\ At(s, "saveTx")
  /\ tx' = [tx EXCEPT ![X(s)] = IF Raw(s) THEN "present"
                                ELSE IF @ = "norow" THEN "absent" ELSE @]
  /\ IF Raw(s) THEN Input(s, "saveTxin", 1, "saveTxmeta") ELSE Moves(s, "saveTxmeta", 1)
  /\ UNCHANGED <<txin, txmeta, txout, spend, txsync, saved>>

(* ON CONFLICT(txid, index) DO NOTHING; a row of another transaction with the    *)
(* same previous outpoint violates the other unique index and ends the request.  *)
Conflicts(in) == \E other \in txin : other # in /\ Prev(other) = Prev(in)
SaveTxin_DoNothing(s) ==        \* mutation: ON CONFLICT DO NOTHING, for any index
  LET in == <<X(s), saver[s].i>> IN
  /\ At(s, "saveTxin")
  /\ txin' = IF Conflicts(in) THEN txin ELSE txin \cup {in}
  /\ Input(s, "saveTxin", saver[s].i + 1, "saveTxmeta")
  /\ UNCHANGED <<tx, txmeta, txout, spend, txsync, saved>>
SaveTxin(s) ==
  LET in == <<X(s), saver[s].i>> IN
  /\ At(s, "saveTxin")
  /\ \/ /\ in \in txin \/ ~Conflicts(in)
        /\ txin' = txin \cup {in}
        /\ Input(s, "saveTxin", saver[s].i + 1, "saveTxmeta")
     \/ /\ in \notin txin /\ Conflicts(in)
        /\ saver' = [saver EXCEPT ![s] = Idle]
        /\ UNCHANGED txin
  /\ UNCHANGED <<tx, txmeta, txout, spend, txsync, saved>>

SaveTxmeta(s) ==
  /\ At(s, "saveTxmeta")
  /\ txmeta' = txmeta \cup {X(s)}
  /\ IF Raw(s) THEN Input(s, "updateSpend", 1, "saveTxout") ELSE Moves(s, "insertTxsync", 1)
  /\ UNCHANGED <<tx, txin, txout, spend, txsync, saved>>

(* UPDATE txout ... WHERE txid AND index: nothing happens without the row.       *)
Marked(o, in) == [spend EXCEPT ![o] = IF o \in txout THEN in ELSE @]
UpdateSpend(s) ==
  LET in == <<X(s), saver[s].i>> IN
  /\ At(s, "updateSpend")
  /\ spend' = Marked(Prev(in), in)
  /\ Input(s, "updateSpend", saver[s].i + 1, "saveTxout")
  /\ UNCHANGED <<tx, txin, txmeta, txout, txsync, saved>>

(* ON CONFLICT DO NOTHING: saving again keeps the spend columns.                 *)
SaveTxout(s) ==
  /\ At(s, "saveTxout")
  /\ txout' = txout \cup {<<X(s), saver[s].i>>}
  /\ Moves(s, "backfillRead", saver[s].i)
  /\ UNCHANGED <<tx, txin, txmeta, spend, txsync, saved>>

(* backfillSpendIndexIfNeeded: look for the child, then write what was found.    *)
Spenders_Saved(o) ==     \* mutation: only children whose own save has finished
  {in \in txin : Prev(in) = o /\ in[1] \in txsync}
Spenders(o) == {in \in txin : Prev(in) = o}
BackfillRead(s) ==
  LET o == <<X(s), saver[s].i>> IN
  /\ At(s, "backfillRead")
  /\ \/ /\ Spenders(o) = {}
        /\ NextOutput(s)
     \/ \E in \in Spenders(o) :
          saver' = [saver EXCEPT ![s] = [@ EXCEPT !.pc = "backfillWrite", !.found = in]]
  /\ UNCHANGED <<tx, txin, txmeta, txout, spend, txsync, saved>>

BackfillWrite(s) ==
  /\ At(s, "backfillWrite")
  /\ spend' = Marked(<<X(s), saver[s].i>>, saver[s].found)
  /\ NextOutput(s)
  /\ UNCHANGED <<tx, txin, txmeta, txout, txsync, saved>>

(* The pass is over; the request goes on with its next entry.                    *)
InsertTxsync(s) ==
  /\ At(s, "insertTxsync")
  /\ txsync' = txsync \cup {X(s)}
  /\ saved' = IF Raw(s) THEN saved \cup {X(s)} ELSE saved
  /\ LET rest == Tail(saver[s].todo) IN
       saver' = [saver EXCEPT ![s] = IF rest = <<>> THEN Idle
                   ELSE [Idle EXCEPT !.todo = rest, !.pc = "saveTx"]]
  /\ UNCHANGED <<tx, txin, txmeta, txout, spend>>

Step(s) ==
  \/ SaveTx(s) \/ SaveTxin(s) \/ SaveTxmeta(s) \/ UpdateSpend(s) \/ SaveTxout(s)
  \/ BackfillRead(s) \/ BackfillWrite(s) \/ InsertTxsync(s)

Next == \E s \in Saver : \/ \E request \in Requests : Starts(s, request)
                         \/ Step(s) \/ Fails(s)

Spec == Init /\ [][Next]_vars

-----------------------------------------------------------------------------
(* The index never lies: whatever it names as the spender of an output is a      *)
(* stored input that spends that very output, also while a backfill writes what  *)
(* it read a statement earlier and another request is half way through.          *)
SpendSound ==
  \A o \in Outpoint : spend[o] # Nothing =>
    o \in txout /\ spend[o] \in txin /\ Prev(spend[o]) = o

(* The index is complete: once parent and child have both been saved, in either  *)
(* order or at the same time, the output is marked with the input that spends it,*)
(* whatever failed before.  Without it a spent output is reported as unspent and *)
(* counted in balances for ever.                                                 *)
SpendComplete ==
  \A x \in saved : \A i \in 1 .. Len(Inputs[x]) :
    Inputs[x][i][1] \in saved => spend[Inputs[x][i]] = <<x, i>>

(* What is visible is whole, though nothing is written in a transaction and any  *)
(* statement may be the last one of its request: a saved transaction has all its *)
(* rows, and an output is only ever listed when its transaction is stored with   *)
(* its bytes, its metadata and every one of its inputs.  The outputs of a refused*)
(* double spend, whose first inputs may well be stored, are thus never listed.   *)
HasRows(x)   == /\ tx[x] = "present" /\ x \in txmeta
                /\ \A i \in 1 .. Len(Inputs[x]) : <<x, i>> \in txin
RowsAreWhole ==
  /\ \A x \in saved : HasRows(x) /\ x \in txsync /\ ({x} \X (1 .. Outputs[x])) \subseteq txout
  /\ \A o \in txout : HasRows(o[1])

(* Two transactions that spend the same output never both have outputs listed,   *)
(* let alone are both saved.                                                     *)
Listed == {o[1] : o \in txout}
NoDoubleSpend ==
  \A x, y \in saved \cup Listed : \A i \in 1 .. Len(Inputs[x]), j \in 1 .. Len(Inputs[y]) :
    Inputs[x][i] = Inputs[y][j] => x = y /\ i = j

(* A recorded spend is final: no later save, repeated save or backfill replaces  *)
(* the spender of an output or takes the mark away.                              *)
SpendStable ==
  [][\A o \in Outpoint : spend[o] # Nothing => spend'[o] = spend[o]]_vars
=============================================================================
