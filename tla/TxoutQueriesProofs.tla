------------------------- MODULE TxoutQueriesProofs -------------------------
(* Proofs about the answers of TxoutQueries, for any transactions and outputs.  *)
EXTENDS TxoutQueries, SaveTxsProofs

(* A spent output is in no list of unspent outputs once parent and child are    *)
(* saved, whatever else is being saved or has failed.                           *)
THEOREM SpentNeverOffered == Spec => []SpentIsNotOffered
<1>1. TypeOK /\ SpendComplete => SpentIsNotOffered
  <2> SUFFICES ASSUME TypeOK, SpendComplete,
                      NEW x \in saved, NEW i \in 1 .. Len(Inputs[x]), Inputs[x][i][1] \in saved
               PROVE  ~Unspent(Inputs[x][i])
    BY DEF SpentIsNotOffered, UtxosByAddress, UtxosByScriptHash, UtxosByGroup
  <2>1. spend[Inputs[x][i]] = <<x, i>>
    BY DEF SpendComplete
  <2>2. <<x, i>> \in Txin
    BY DEF TypeOK, Txin
  <2> QED
    BY <2>1, <2>2, NothingAssumption DEF Unspent
<1> QED
  BY TypeCorrect, SpendsAreComplete, <1>1, PTL

-----------------------------------------------------------------------------
(* What the refinement rests on, each part a theorem of SaveTxs.                *)
Sound == TypeOK /\ SpendSound /\ SpendComplete /\ RowsAreWhole /\ NoDoubleSpend

(* As far as saved transactions go, an output is marked exactly if it is spent. *)
SavedOutputs  == UNION {AsLedger!Outs(x) : x \in saved}
MarkedIfSpent == UnspentBySaved = SavedOutputs \ AsLedger!SpentBy(saved)
LEMMA MarksFollow == Sound => MarkedIfSpent
<1>. SUFFICES ASSUME Sound PROVE MarkedIfSpent
  OBVIOUS
<1>. /\ saved \subseteq Tx /\ txout \subseteq Outpoint
     /\ \A o \in Outpoint : spend[o] \in Txin \cup {Nothing}
  BY DEF Sound, TypeOK
<1>1. \A o : o \in ByScriptHash(ScriptHash) /\ o[1] \in saved <=> o \in SavedOutputs
  <2>1. \A o \in txout : o \in ByScriptHash(ScriptHash)
    BY DEF ByScriptHash, ScriptHash
  <2>2. \A o \in txout : o[1] \in saved => o \in SavedOutputs
    BY OutpointParts DEF SavedOutputs, AsLedger!Outs
  <2>3. \A o \in SavedOutputs : o \in txout /\ o[1] \in saved
    BY DEF Sound, RowsAreWhole, SavedOutputs, AsLedger!Outs
  <2>. QED BY <2>1, <2>2, <2>3 DEF ByScriptHash
<1>2. ASSUME NEW o \in SavedOutputs, o \in AsLedger!SpentBy(saved)
      PROVE  ~Unspent(o) /\ spend[o][1] \in saved
  <2>1. PICK x \in saved : \E i \in 1 .. Len(Inputs[x]) : o = Inputs[x][i]
    BY <1>2 DEF AsLedger!SpentBy, AsLedger!Ins
  <2>2. PICK i \in 1 .. Len(Inputs[x]) : o = Inputs[x][i]
    BY <2>1
  <2>3. o[1] \in saved
    BY <1>1
  <2>4. spend[o] = <<x, i>>
    BY <2>2, <2>3 DEF Sound, SpendComplete
  <2>5. <<x, i>> \in Txin
    BY TxinMember
  <2>. QED BY <2>4, <2>5, NothingAssumption DEF Unspent
<1>3. ASSUME NEW o \in SavedOutputs, ~Unspent(o), spend[o][1] \in saved
      PROVE  o \in AsLedger!SpentBy(saved)
  <2>1. o \in Outpoint
    BY <1>1 DEF ByScriptHash
  <2>2. spend[o] \in Txin /\ Prev(spend[o]) = o
    BY <1>3, <2>1 DEF Sound, SpendSound, Unspent
  <2>3. spend[o][2] \in 1 .. Len(Inputs[spend[o][1]])
    BY <2>2, TxinParts
  <2>. QED BY <1>3, <2>2, <2>3 DEF Prev, AsLedger!SpentBy, AsLedger!Ins
<1>. QED BY <1>1, <1>2, <1>3 DEF UnspentBySaved, MarkedIfSpent

(* A pass with bytes that ends is the only step that saves, and saves one.      *)
LEMMA SavesOne ==
  ASSUME TypeOK, [Next]_vars
  PROVE  saved' = saved \/ \E x \in Tx \ saved : saved' = saved \cup {x}
<1>1. ASSUME NEW s \in Saver, InsertTxsync(s)
      PROVE  saved' = saved \/ \E x \in Tx \ saved : saved' = saved \cup {x}
  <2>1. X(s) \in Tx
    BY <1>1, EntryType DEF InsertTxsync, TypeOK, PlaceOK, At
  <2>. QED BY <1>1, <2>1 DEF InsertTxsync
<1>. QED
  BY <1>1 DEF Next, vars, Starts, Step, Fails, SaveTx, SaveTxin, SaveTxmeta,
              UpdateSpend, SaveTxout, BackfillRead, BackfillWrite

LEMMA LedgerStep ==
  ASSUME Sound, Sound', MarkedIfSpent, MarkedIfSpent', [Next]_vars
  PROVE  [AsLedger!Next]_(AsLedger!vars)
<1>1. /\ UnspentBySaved = SavedOutputs \ AsLedger!SpentBy(saved)
      /\ UnspentBySaved' = SavedOutputs' \ AsLedger!SpentBy(saved')
  BY DEF MarkedIfSpent, AsLedger!SpentBy, AsLedger!Ins
<1>2. CASE saved' = saved
  BY <1>1, <1>2 DEF AsLedger!vars, AsLedger!SpentBy, SavedOutputs
<1>3. ASSUME NEW x \in Tx \ saved, saved' = saved \cup {x}
      PROVE  AsLedger!Add(x)
  <2>1. AsLedger!Ins(x) \cap AsLedger!SpentBy(saved) = {}
    <3>. SUFFICES ASSUME NEW o \in AsLedger!Ins(x), NEW y \in saved, o \in AsLedger!Ins(y)
                  PROVE  FALSE
      BY DEF AsLedger!SpentBy
    <3>1. PICK i \in 1 .. Len(Inputs[x]) : o = Inputs[x][i]
      BY DEF AsLedger!Ins
    <3>2. PICK j \in 1 .. Len(Inputs[y]) : o = Inputs[y][j]
      BY DEF AsLedger!Ins
    <3>3. x \in saved' /\ y \in saved'
      BY <1>3
    <3>. QED BY <3>1, <3>2, <3>3 DEF Sound, NoDoubleSpend
  <2>2. SavedOutputs' = SavedOutputs \cup AsLedger!Outs(x)
    BY <1>3 DEF SavedOutputs, AsLedger!Outs
  <2>3. AsLedger!SpentBy(saved) \subseteq AsLedger!SpentBy(saved')
    BY <1>3 DEF AsLedger!SpentBy
  <2>4. UnspentBySaved' = (UnspentBySaved \cup AsLedger!Outs(x)) \ AsLedger!SpentBy(saved')
    BY <1>1, <2>2, <2>3
  <2>. QED BY <1>3, <2>1, <2>4 DEF AsLedger!Add
<1>. QED BY <1>2, <1>3, SavesOne DEF Sound, AsLedger!Next

(* The statements of all saves together implement a ledger: as far as saved     *)
(* transactions go, TXQ answers as if each had been stored in one step, with    *)
(* every other request before it or after it and none failing half way.         *)
THEOREM SavesAreALedger == Spec => ImplementsLedger
<1>1. Init => AsLedger!Init
  BY DEF Init, AsLedger!Init, UnspentBySaved
<1>2. Sound /\ Sound' /\ MarkedIfSpent /\ MarkedIfSpent' /\ [Next]_vars => [AsLedger!Next]_(AsLedger!vars)
  BY LedgerStep
<1>3. Spec => []Sound
  BY TypeCorrect, SpendsAreSound, SpendsAreComplete, SavedIsWhole, DoubleSpendsAreRefused, PTL DEF Sound
<1>. QED BY <1>1, <1>2, <1>3, MarksFollow, PTL DEF Spec, ImplementsLedger, AsLedger!Spec

-----------------------------------------------------------------------------
(* The map of txids to indexes keeps exactly the outpoints of the list.         *)
LEMMA IndexMap ==
  ASSUME NEW list \in Seq(Tx \X Nat), NEW o \in Tx \X Nat
  PROVE  Keeps(TxidToIndexMap(list), o) <=> \E k \in DOMAIN list : o = list[k]
<1> DEFINE map == TxidToIndexMap(list)
<1>1. \A k \in DOMAIN list : list[k] \in Tx \X Nat
  OBVIOUS
<1>2. DOMAIN map = {list[k][1] : k \in DOMAIN list}
  BY DEF TxidToIndexMap
<1>3. \A x \in DOMAIN map : map[x] = {list[k][2] : k \in {j \in DOMAIN list : list[j][1] = x}}
  BY DEF TxidToIndexMap
<1> HIDE DEF map
<1>4. ASSUME NEW k \in DOMAIN list, o = list[k] PROVE Keeps(map, o)
  BY <1>2, <1>3, <1>4 DEF Keeps
<1>5. ASSUME Keeps(map, o) PROVE \E k \in DOMAIN list : o = list[k]
  <2>1. PICK k \in {j \in DOMAIN list : list[j][1] = o[1]} : o[2] = list[k][2]
    BY <1>2, <1>3, <1>5 DEF Keeps
  <2>2. o = list[k]
    BY <1>1, <2>1
  <2> QED
    BY <2>1, <2>2
<1> QED
  BY <1>4, <1>5 DEF map

(* Exactly the stored outputs of the list are the answer, for every list.       *)
THEOREM OutpointsExact == Spec => []OutpointsAnswered
<1>1. TypeOK => OutpointsAnswered
  <2> SUFFICES ASSUME TypeOK, NEW list \in Asked
               PROVE  TxoutsByOutpoints(list) = {list[k] : k \in DOMAIN list} \cap txout
    BY DEF OutpointsAnswered
  <2>1. list \in Seq(Tx \X Nat)
    BY AskedAssumption
  <2>2. txout \subseteq Tx \X Nat
    <3>1. \A x \in Tx : Outputs[x] \in Nat
      BY TransactionAssumption
    <3> QED
      BY <3>1 DEF TypeOK, Outpoint
  <2>3. \A o \in txout : Keeps(TxidToIndexMap(list), o) <=> \E k \in DOMAIN list : o = list[k]
    BY <2>1, <2>2, IndexMap
  <2>4. \A o \in txout : Keeps(TxidToIndexMap(list), o) => o[1] \in {list[k][1] : k \in DOMAIN list}
    BY <2>3
  <2> QED
    BY <2>3, <2>4 DEF TxoutsByOutpoints
<1> QED
  BY TypeCorrect, <1>1, PTL

-----------------------------------------------------------------------------
(* Two sums go through UNION and come back in some order.                       *)
LEMMA UnionLimits ==
  ASSUME NEW c, NEW u, NEW answers,
         answers = {Balance(rows) : rows \in UnionRows(c, u)}
  PROVE  LET true == [confirmed |-> Amount(c), unconfirmed |-> Amount(u)]
         IN  /\ true \in answers <=> c # u \/ Amount(c) = 0
             /\ answers = {true} <=> true = [confirmed |-> 0, unconfirmed |-> 0]
<1> DEFINE true == [confirmed |-> Amount(c), unconfirmed |-> Amount(u)]
<1>1. CASE c = u
  <2>1. answers = {[confirmed |-> Amount(c), unconfirmed |-> 0]}
    BY <1>1 DEF UnionRows, Balance
  <2> QED
    BY <1>1, <2>1
<1>2. CASE c # u
  <2> DEFINE swapped == [confirmed |-> Amount(u), unconfirmed |-> Amount(c)]
  <2>1. answers = {true, swapped}
    <3>1. \A a, b : Len(<<a, b>>) = 2 /\ <<a, b>>[1] = a /\ <<a, b>>[2] = b
      OBVIOUS
    <3>2. Balance(<<c, u>>) = true /\ Balance(<<u, c>>) = swapped
      BY <3>1 DEF Balance
    <3>3. answers = {Balance(<<c, u>>), Balance(<<u, c>>)}
      BY <1>2 DEF UnionRows
    <3> QED
      BY <3>2, <3>3
  <2>2. answers = {true} <=> Amount(c) = Amount(u)
    <3>1. swapped = true <=> Amount(c) = Amount(u)
      <4>1. swapped = true => swapped.confirmed = true.confirmed
        OBVIOUS
      <4> QED
        BY <4>1
    <3> HIDE DEF true, swapped
    <3> QED
      BY <2>1, <3>1
  <2>3. Amount(c) = Amount(u) => Amount(c) = 0
    BY <1>2 DEF Amount
  <2> QED
    BY <1>2, <2>1, <2>2, <2>3
<1> QED
  BY <1>1, <1>2

(* The join with tx loses no output: a listed output has its row there.         *)
LEMMA JoinKeeps ==
  ASSUME RowsAreWhole, NEW outputs \in SUBSET txout, NEW completed
  PROVE  BalanceLimits(outputs, completed, Balances(outputs, completed))
<1>1. {o \in outputs : tx[o[1]] # "norow"} = outputs
  BY DEF RowsAreWhole, HasRows
<1>2. Balances(outputs, completed) =
        {Balance(rows) : rows \in UnionRows(Confirmed(outputs, completed),
                                            Unconfirmed(outputs, completed))}
  BY <1>1 DEF Balances, Confirmed, Unconfirmed
<1> QED
  BY <1>2, UnionLimits DEF BalanceLimits, TrueBalance

(* How far a balance can be trusted, for any outputs, amounts and addresses: it  *)
(* is right in some order of the rows unless both parts are the same non-zero    *)
(* amount, and certain only when there is nothing to report.                     *)
THEOREM BalancesCharacterised == Spec => []BalancesAsFarAsTrue
<1>1. RowsAreWhole => BalancesAsFarAsTrue
  <2> SUFFICES ASSUME RowsAreWhole PROVE BalancesAsFarAsTrue
    OBVIOUS
  <2>1. \A ids : UtxosByAddress(ids) \subseteq txout /\ UtxosByScriptHash(ids) \subseteq txout
    BY DEF UtxosByAddress, UtxosByScriptHash, ByAddress, ByScriptHash
  <2> QED
    BY <2>1, JoinKeeps DEF BalancesAsFarAsTrue, BalanceByAddresses, BalanceByScriptHashes
<1> QED
  BY <1>1, SavedIsWhole, PTL
=============================================================================
