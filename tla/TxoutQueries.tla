---------------------------- MODULE TxoutQueries ----------------------------
(* What GET /txout answers from the tables that SaveTxs writes: outputs, unspent *)
(* outputs and balances of addresses, scripthashes and groups of both.  Every    *)
(* answer is one SELECT, so it is a function of the tables at one moment; OFFSET *)
(* and LIMIT only cut it, in an order that no query asks for.                    *)
EXTENDS SaveTxs, FiniteSetsExt

CONSTANTS
  Address,
  AddressOf,    \* column address of an output; Nothing where the script has none
  ScriptHashOf, \* column scripthash
  Satoshis,     \* column satoshis
  Asked         \* the lists of outpoints that are asked for

ASSUME OutputAssumption ==
  /\ AddressOf \in [Outpoint -> Address \cup {Nothing}] /\ Nothing \notin Address
  /\ DOMAIN ScriptHashOf = Outpoint
  /\ Satoshis \in [Outpoint -> Nat]
ASSUME AskedAssumption == \A list \in Asked : list \in Seq(Tx \X Nat)

ScriptHash == {ScriptHashOf[o] : o \in Outpoint}

Unspent_Any(o) == o \in txout     \* mutation: AND spend_txid IS NULL is forgotten
Unspent(o)     == spend[o] = Nothing

(* ... = ANY(list): a row is found once, however often its id is listed.         *)
ByAddress(ids)    == {o \in txout : AddressOf[o] \in ids}
ByScriptHash(ids) == {o \in txout : ScriptHashOf[o] \in ids}
(* FROM txout, txoutgroup: an output comes once for each member it matches.      *)
ByGroup(members)  ==
  {row \in txout \X members : row[2] = AddressOf[row[1]] \/ row[2] = ScriptHashOf[row[1]]}

UtxosByAddress(ids)    == {o \in ByAddress(ids) : Unspent(o)}
UtxosByScriptHash(ids) == {o \in ByScriptHash(ids) : Unspent(o)}
UtxosByGroup(members)  == {row \in ByGroup(members) : Unspent(row[1])}

TxoutsByAddress(ids, unspent) == IF unspent THEN UtxosByAddress(ids) ELSE ByAddress(ids)
(* The route passes unspent = true whatever is asked. *)
TxoutsByScriptHash(ids, unspent) == UtxosByScriptHash(ids)
TxoutsByGroup(members) == ByGroup(members)

(* getTxoutsByOutpointArray looks up all outputs of the transactions and keeps   *)
(* those that its map of txids to indexes names.                                 *)
TxidToIndexMap(list) ==
  [x \in {list[k][1] : k \in DOMAIN list} |->
     {list[k][2] : k \in {j \in DOMAIN list : list[j][1] = x}}]
Keeps_Txid(map, o) == o[1] \in DOMAIN map    \* mutation: the second test is forgotten
Keeps(map, o)      == o[1] \in DOMAIN map /\ o[2] \in map[o[1]]
TxoutsByOutpoints(list) ==
  LET found == {o \in txout : o[1] \in {list[k][1] : k \in DOMAIN list}} IN
  {o \in found : Keeps(TxidToIndexMap(list), o)}

-----------------------------------------------------------------------------
(* Balances, given the transactions whose row in tx says completed.  The sum of  *)
(* no rows is NULL, the two sums are put together by UNION, which drops equal    *)
(* rows and promises no order, and the answer takes them as they come.           *)
Amount(value)  == IF value = Nothing THEN 0 ELSE value
SumOf(outputs) ==
  IF outputs = {} THEN Nothing ELSE MapThenSumSet(LAMBDA o : Satoshis[o], outputs)
UnionRows(a, b) == IF a = b THEN {<<a>>} ELSE {<<a, b>>, <<b, a>>}
Balance(rows) ==
  [confirmed |-> Amount(rows[1]), unconfirmed |-> IF Len(rows) = 2 THEN Amount(rows[2]) ELSE 0]
Balances(outputs, completed) ==
  LET joined == {o \in outputs : tx[o[1]] # "norow"} IN
  {Balance(rows) : rows \in UnionRows(SumOf({o \in joined : o[1] \in completed}),
                                      SumOf({o \in joined : o[1] \notin completed}))}

BalanceByAddresses(ids, completed)    == Balances(UtxosByAddress(ids), completed)
BalanceByScriptHashes(ids, completed) == Balances(UtxosByScriptHash(ids), completed)

-----------------------------------------------------------------------------
(* An output that a saved transaction spends is in no list of unspent outputs    *)
(* and in no balance any more, once its own transaction is saved too: a wallet   *)
(* that takes its inputs from TXQ does not spend twice.                          *)
SpentIsNotOffered ==
  \A x \in saved : \A i \in 1 .. Len(Inputs[x]) : Inputs[x][i][1] \in saved =>
    /\ Inputs[x][i] \notin UtxosByAddress(Address)
    /\ Inputs[x][i] \notin UtxosByScriptHash(ScriptHash)
    /\ \A row \in UtxosByGroup(Address \cup ScriptHash) : row[1] # Inputs[x][i]

(* And whatever happens between the statements of the saves, they come to the    *)
(* same as if every transaction were stored in one step and no other request ran *)
(* or failed: as far as saved transactions go, the outputs that are offered are  *)
(* those of a ledger.  The mark of a transaction that is not saved is left aside:*)
(* it is on its way in, or was refused after its first inputs.                   *)
UnspentBySaved ==
  {o \in ByScriptHash(ScriptHash) :
     o[1] \in saved /\ (Unspent(o) \/ spend[o][1] \notin saved)}
AsLedger == INSTANCE Ledger WITH utxo <- UnspentBySaved
ImplementsLedger == AsLedger!Spec

(* Asked for a list of outpoints, TXQ answers with the stored ones of the list,  *)
(* each once and nothing else, also when the list has several of a transaction.  *)
OutpointsAnswered ==
  \A list \in Asked : TxoutsByOutpoints(list) = {list[k] : k \in DOMAIN list} \cap txout

(* "Retrieve the balance for addresses" (README.md:693): of the unspent outputs  *)
(* of the addresses, confirmed are those of completed transactions and           *)
(* unconfirmed the others; at least in one order of the rows the answer says so. *)
Confirmed(outputs, completed)   == SumOf({o \in outputs : o[1] \in completed})
Unconfirmed(outputs, completed) == SumOf({o \in outputs : o[1] \notin completed})
TrueBalance(outputs, completed) ==
  [confirmed   |-> Amount(Confirmed(outputs, completed)),
   unconfirmed |-> Amount(Unconfirmed(outputs, completed))]
BalanceIsTrue ==
  \A ids \in SUBSET Address : \A completed \in SUBSET txsync :
    TrueBalance(UtxosByAddress(ids), completed) \in BalanceByAddresses(ids, completed)

(* When that can fail, and when it cannot go wrong.  The true answer is possible *)
(* exactly when the two sums differ or both are nothing, since UNION makes one   *)
(* row of two equal ones; it is the only possible answer exactly when both are   *)
(* nothing, since UNION may give the two rows in either order.                   *)
BalanceLimits(outputs, completed, answers) ==
  /\ TrueBalance(outputs, completed) \in answers <=>
       \/ Confirmed(outputs, completed) # Unconfirmed(outputs, completed)
       \/ Amount(Confirmed(outputs, completed)) = 0
  /\ answers = {TrueBalance(outputs, completed)} <=>
       TrueBalance(outputs, completed) = [confirmed |-> 0, unconfirmed |-> 0]
BalancesAsFarAsTrue ==
  \A completed \in SUBSET txsync :
    /\ \A ids \in SUBSET Address :
         BalanceLimits(UtxosByAddress(ids), completed, BalanceByAddresses(ids, completed))
    /\ \A ids \in SUBSET ScriptHash :
         BalanceLimits(UtxosByScriptHash(ids), completed, BalanceByScriptHashes(ids, completed))
=============================================================================
