---------------------------- MODULE ProxyProofs ----------------------------
(* Theorems about Proxy and the passes of SaveEvents, for every set of           *)
(* transactions, channels, groups and clients, and every list of requests.       *)
EXTENDS Proxy, TLAPS

(* What a step of the proxy is to the variables of SaveEvents. *)
SaveStep ==
  \/ \E c \in Client : \/ PassStep(c) \/ Fails(c) \/ Ends(c)
                       \/ \E row \in Row : pass[c] = "idle" /\ Begins(c, row)
  \/ \E g \in Group : AddGroupScriptIds(g) \/ DeleteGroupScriptIds(g)
  \/ PassesDie
  \/ UNCHANGED saveVars

(* A pass asks only for outputs that its transaction has. *)
OutputsExist == \A c \in Client : out[c] \in 1 .. Len(ScriptIds[of[c][1]])

SaveInv == SaveTypeOK /\ OutputsExist

-----------------------------------------------------------------------------
LEMMA Nonempty == AnyRequest \in Requests /\ AnyRow \in Row /\ Row # {}
  <1>1. AnyRequest \in Requests
    BY RequestAssumption DEF AnyRequest
  <1>2. AnyRequest.row \in Row
    BY <1>1, RequestAssumption DEF Request
  <1>. QED BY <1>1, <1>2 DEF AnyRow

LEMMA ScriptTypes ==
  ASSUME NEW row \in Row
  PROVE  /\ row[1] \in Tx
         /\ Len(ScriptIds[row[1]]) \in Nat /\ 1 \in 1 .. Len(ScriptIds[row[1]])
         /\ \A i \in 1 .. Len(ScriptIds[row[1]]) :
               i \in Output /\ ScriptIds[row[1]][i] \subseteq ScriptId
  <1>1. row[1] \in Tx
    BY DEF Row
  <1>2. PICK s \in Seq(SUBSET ScriptId) : s = ScriptIds[row[1]]
    BY <1>1, ScriptAssumption
  <1>3. s # <<>>
    BY <1>1, <1>2, ScriptAssumption
  <1>4. Len(s) \in Nat /\ Len(s) # 0 /\ \A i \in 1 .. Len(s) : s[i] \in SUBSET ScriptId
    BY <1>3
  <1>5. \A i \in 1 .. Len(s) : i \in Output
    BY <1>1, <1>2 DEF Output
  <1>. QED BY <1>1, <1>2, <1>4, <1>5

(* The step that begins, ends or kills a pass leaves its locals at the start.   *)
LEMMA PassTypes ==
  ASSUME SaveInv, NEW c \in Client, NEW row \in Row,
         NEW at \in Running \cup {"idle", "saved", "failed"}, Pass(c, at, row),
         lost' \subseteq Row
  PROVE  SaveInv'
  <1>1. Len(ScriptIds[row[1]]) \in Nat /\ 1 \in 1 .. Len(ScriptIds[row[1]]) /\ 1 \in Output
    BY ScriptTypes
  <1>2. SaveTypeOK'
    BY <1>1 DEF SaveInv, SaveTypeOK, Pass
  <1>3. OutputsExist'
    BY <1>1 DEF SaveInv, SaveTypeOK, OutputsExist, Pass
  <1>. QED BY <1>2, <1>3 DEF SaveInv

LEMMA SaveTypes == SaveInv /\ SaveStep => SaveInv'
  <1>. SUFFICES ASSUME SaveInv, SaveStep PROVE SaveInv'
    OBVIOUS
  <1>1. ASSUME NEW c \in Client, IsTxMetaExist(c) PROVE SaveInv'
    BY <1>1 DEF SaveInv, SaveTypeOK, OutputsExist, IsTxMetaExist, DidExist, Running
  <1>2. ASSUME NEW c \in Client, SaveTxmeta(c) PROVE SaveInv'
    BY <1>2 DEF SaveInv, SaveTypeOK, OutputsExist, SaveTxmeta, Running
  <1>3. ASSUME NEW c \in Client, SaveRows(c) PROVE SaveInv'
    <2>1. of[c] \in Row
      BY DEF SaveInv, SaveTypeOK
    <2>2. {p \in (1 .. Len(ScriptIds[of[c][1]])) \X Group : Has(member, of[c][1], p[1], p[2])}
             \subseteq Output \X Group
      BY <2>1, ScriptTypes
    <2>3. of[c][1] \in Tx
      BY <2>1, ScriptTypes
    <2>. QED BY <1>3, <2>2, <2>3 DEF SaveInv, SaveTypeOK, OutputsExist, SaveRows, Running
  <1>4. ASSUME NEW c \in Client, GetTx(c) PROVE SaveInv'
    <2>1. of[c] \in Row
      BY DEF SaveInv, SaveTypeOK
    <2>2. TellsScripts(c, 1) \subseteq Output \X (ScriptId \cup Group)
      BY <2>1, ScriptTypes DEF TellsScripts
    <2>. QED BY <1>4, <2>2 DEF SaveInv, SaveTypeOK, OutputsExist, GetTx, Running
  <1>5. ASSUME NEW c \in Client, TellGroups(c) PROVE SaveInv'
    <2>1. of[c] \in Row /\ out[c] \in 1 .. Len(ScriptIds[of[c][1]]) /\ told[c] \subseteq Output \X (ScriptId \cup Group)
      BY DEF SaveInv, SaveTypeOK, OutputsExist
    <2>2. out[c] \in Output /\ out[c] + 1 \in 1 .. Len(ScriptIds[of[c][1]]) /\ out[c] + 1 \in Output
      BY <1>5, <2>1, ScriptTypes DEF TellGroups, IsLastOutput
    <2>3. TellsScripts(c, out[c] + 1) \subseteq Output \X (ScriptId \cup Group)
      BY <2>1, <2>2, ScriptTypes DEF TellsScripts
    <2>4. TellsGroups(c) \subseteq Output \X (ScriptId \cup Group)
      BY <2>2 DEF TellsGroups, Groups
    <2>5. SaveTypeOK'
      BY <1>5, <2>1, <2>2, <2>3, <2>4 DEF SaveInv, SaveTypeOK, TellGroups
    <2>6. OutputsExist'
      BY <1>5, <2>2 DEF SaveInv, SaveTypeOK, OutputsExist, TellGroups
    <2>. QED BY <2>5, <2>6 DEF SaveInv
  <1>6. ASSUME NEW c \in Client, Announce(c) PROVE SaveInv'
    <2>1. of[c] \in Row /\ out[c] \in Output /\ told[c] \subseteq Output \X (ScriptId \cup Group)
      BY DEF SaveInv, SaveTypeOK
    <2>2. TellsGroups(c) \subseteq Output \X (ScriptId \cup Group)
      BY <2>1 DEF TellsGroups, Groups
    <2>. QED BY <1>6, <2>1, <2>2 DEF SaveInv, SaveTypeOK, OutputsExist, Announce, Running
  <1>7. ASSUME NEW c \in Client, SaveUpdatelog(c) PROVE SaveInv'
    BY <1>7 DEF SaveInv, SaveTypeOK, OutputsExist, SaveUpdatelog
  <1>8. ASSUME NEW c \in Client, Fails(c) PROVE SaveInv'
    <2>1. AnyRow \in Row
      BY Nonempty
    <2>2. Unheard({c}) \subseteq Row
      BY DEF Unheard, SaveInv, SaveTypeOK
    <2>3. lost' \subseteq Row
      BY <1>8, <2>2 DEF Fails, SaveInv, SaveTypeOK
    <2>4. Pass(c, "failed", AnyRow)
      BY <1>8 DEF Fails
    <2>. QED BY <2>1, <2>3, <2>4, PassTypes
  <1>9. ASSUME NEW c \in Client, Ends(c) PROVE SaveInv'
    <2>1. AnyRow \in Row
      BY Nonempty
    <2>2. Pass(c, "idle", AnyRow) /\ lost' \subseteq Row
      BY <1>9 DEF Ends, SaveInv, SaveTypeOK
    <2>. QED BY <2>1, <2>2, PassTypes
  <1>10. ASSUME NEW c \in Client, NEW row \in Row, Begins(c, row) PROVE SaveInv'
    <2>1. Pass(c, "exists", row) /\ lost' \subseteq Row
      BY <1>10 DEF Begins, SaveInv, SaveTypeOK
    <2>. QED BY <2>1, PassTypes DEF Running
  <1>11. ASSUME NEW g \in Group, AddGroupScriptIds(g) \/ DeleteGroupScriptIds(g) PROVE SaveInv'
    <2>1. PICK table : table \subseteq Group \X ScriptId /\ Edits(table)
      BY <1>11, ListAssumption DEF AddGroupScriptIds, DeleteGroupScriptIds, SaveInv, SaveTypeOK
    <2>2. \A d \in Client : {p \in since[d] : Has(table, of[d][1], p[1], p[2])} \subseteq Output \X Group
      BY DEF SaveInv, SaveTypeOK
    <2>. QED BY <2>1, <2>2 DEF SaveInv, SaveTypeOK, OutputsExist, Edits
  <1>12. ASSUME PassesDie PROVE SaveInv'
    <2>1. AnyRow \in Row /\ 1 \in Output /\ 1 \in 1 .. Len(ScriptIds[AnyRow[1]])
      BY Nonempty, ScriptTypes
    <2>2. Unheard(Client) \subseteq Row
      BY DEF Unheard, SaveInv, SaveTypeOK
    <2>3. SaveTypeOK'
      BY <1>12, <2>1, <2>2 DEF SaveInv, SaveTypeOK, PassesDie
    <2>4. OutputsExist'
      BY <1>12, <2>1 DEF OutputsExist, PassesDie
    <2>. QED BY <2>3, <2>4 DEF SaveInv
  <1>13. CASE UNCHANGED saveVars
    BY <1>13 DEF SaveInv, SaveTypeOK, OutputsExist, saveVars
  <1>. QED BY <1>1, <1>2, <1>3, <1>4, <1>5, <1>6, <1>7, <1>8, <1>9, <1>10, <1>11, <1>12, <1>13
          DEF SaveStep, PassStep

-----------------------------------------------------------------------------
(* The control variables of the proxy, and what ties them to the passes. *)
ProxyTypeOK ==
  /\ ledger \in [Tx -> {"unseen", "mempool", "mined"}]
  /\ taken \subseteq Row
  /\ pc \in [Client -> Open \cup {"idle", "answered"}]
  /\ req \in [Client -> Requests]
  /\ settled \in [Client -> BOOLEAN]
  /\ accepted \in [Client -> BOOLEAN]
Places == \A c \in Client : PlaceOK(c)
TInv   == SaveInv /\ ProxyTypeOK /\ Places

LEMMA RequestTypes ==
  ASSUME TInv, NEW c \in Client
  PROVE  req[c] \in Request /\ req[c].row \in Row /\ X(c) \in Tx
  <1>1. req[c] \in Request
    BY RequestAssumption DEF TInv, ProxyTypeOK
  <1>2. req[c].row \in Row
    BY <1>1 DEF Request
  <1>. QED BY <1>1, <1>2 DEF Row, X

LEMMA InitTypes == Init => TInv
  <1>. SUFFICES ASSUME Init PROVE TInv
    OBVIOUS
  <1>1. AnyRequest \in Requests /\ AnyRow \in Row
        /\ 1 \in Output /\ 1 \in 1 .. Len(ScriptIds[AnyRow[1]])
    BY Nonempty, ScriptTypes
  <1>2. SaveInv
    BY <1>1 DEF Init, SaveInit, SaveInv, SaveTypeOK, OutputsExist
  <1>3. ProxyTypeOK
    BY <1>1 DEF Init, ProxyTypeOK
  <1>4. Places
    BY DEF Init, SaveInit, Places, PlaceOK
  <1>. QED BY <1>2, <1>3, <1>4 DEF TInv

(* Every step of the proxy is one of the passes' steps; a pass begins only for a *)
(* client that has none.                                                         *)
LEMMA NextSaves == TInv /\ [Next]_vars => SaveStep
  <1>. SUFFICES ASSUME TInv, [Next]_vars PROVE SaveStep
    OBVIOUS
  <1>1. ASSUME NEW c \in Client, NEW r \in Requests, Arrives(c, r) PROVE SaveStep
    BY <1>1 DEF Arrives, SaveStep
  <1>2. ASSUME NEW c \in Client, StatusAnswered(c) PROVE SaveStep
    <2>1. pass[c] = "idle"
      BY <1>2 DEF StatusAnswered, TInv, Places, PlaceOK
    <2>2. req[c].row \in Row
      BY RequestTypes
    <2>. QED BY <1>2, <2>1, <2>2 DEF StatusAnswered, SaveStep
  <1>3. ASSUME NEW c \in Client, PreSaved(c) \/ Saved(c) PROVE SaveStep
    BY <1>3 DEF PreSaved, Saved, SaveStep
  <1>4. ASSUME NEW c \in Client, MinerAnswers(c) PROVE SaveStep
    <2>1. pass[c] = "idle"
      BY <1>4 DEF MinerAnswers, TInv, Places, PlaceOK
    <2>2. req[c].row \in Row
      BY RequestTypes
    <2>. QED BY <1>4, <2>1, <2>2 DEF MinerAnswers, SaveStep
  <1>5. ASSUME NEW c \in Client, Logged(c) PROVE SaveStep
    BY <1>5 DEF Logged, SaveStep
  <1>6. ASSUME NEW c \in Client, PassStep(c) \/ Fails(c) PROVE SaveStep
    BY <1>6 DEF SaveStep
  <1>7. ASSUME NEW g \in Group, AddGroupScriptIds(g) \/ DeleteGroupScriptIds(g) PROVE SaveStep
    BY <1>7 DEF SaveStep
  <1>8. ASSUME NEW x \in Tx, LedgerMoves(x) PROVE SaveStep
    BY <1>8 DEF LedgerMoves, SaveStep
  <1>9. CASE Dies
    BY <1>9 DEF Dies, SaveStep
  <1>10. CASE UNCHANGED vars
    BY <1>10 DEF vars, SaveStep
  <1>. QED BY <1>1, <1>2, <1>3, <1>4, <1>5, <1>6, <1>7, <1>8, <1>9, <1>10
          DEF Next, ProxyStep

LEMMA ClosesTypes ==
  ASSUME ProxyTypeOK, NEW C \in SUBSET Client, NEW how \in {"idle", "answered"}, Closes(C, how)
  PROVE  /\ pc' \in [Client -> Open \cup {"idle", "answered"}]
         /\ req' \in [Client -> Requests]
         /\ settled' \in [Client -> BOOLEAN]
         /\ accepted' \in [Client -> BOOLEAN]
  <1>1. AnyRequest \in Requests
    BY Nonempty
  <1>2. pc' \in [Client -> Open \cup {"idle", "answered"}] /\ req' \in [Client -> Requests]
    BY <1>1 DEF ProxyTypeOK, Closes
  <1>3. settled' \in [Client -> BOOLEAN]
    BY Zenon DEF ProxyTypeOK, Closes
  <1>4. accepted' \in [Client -> BOOLEAN]
    BY Zenon DEF ProxyTypeOK, Closes
  <1>. QED BY <1>2, <1>3, <1>4

LEMMA ProxyTypes == TInv /\ [Next]_vars => ProxyTypeOK'
  <1>. SUFFICES ASSUME TInv, [Next]_vars PROVE ProxyTypeOK'
    OBVIOUS
  <1>. ProxyTypeOK
    BY DEF TInv
  <1>1. ASSUME NEW c \in Client, NEW r \in Requests, Arrives(c, r) PROVE ProxyTypeOK'
    BY <1>1 DEF Arrives, ProxyTypeOK, Open
  <1>2. ASSUME NEW c \in Client, StatusAnswered(c) PROVE ProxyTypeOK'
    BY <1>2 DEF StatusAnswered, Moves, ProxyTypeOK, Open
  <1>3. ASSUME NEW c \in Client, PreSaved(c) PROVE ProxyTypeOK'
    BY <1>3 DEF PreSaved, Moves, ProxyTypeOK, Open
  <1>4. ASSUME NEW c \in Client, MinerAnswers(c) PROVE ProxyTypeOK'
    <2>1. X(c) \in Tx /\ req[c].row \in Row
      BY RequestTypes
    <2>2. ledger' \in [Tx -> {"unseen", "mempool", "mined"}] /\ taken' \subseteq Row
      BY <1>4, <2>1 DEF MinerAnswers, ProxyTypeOK
    <2>3. CASE \E how \in {"idle", "answered"} : Closes({c}, how)
      BY <2>2, <2>3, ClosesTypes DEF ProxyTypeOK
    <2>4. CASE \E to \in Open, ok \in BOOLEAN : Moves(c, to) /\ accepted' = [accepted EXCEPT ![c] = ok]
                                              /\ UNCHANGED settled
      BY <2>2, <2>4 DEF ProxyTypeOK, Moves
    <2>5. \A a : Commits(c, a) \in BOOLEAN
      BY DEF Commits
    <2>. QED BY <1>4, <2>3, <2>4, <2>5 DEF MinerAnswers, Replies, Open
  <1>5. ASSUME NEW c \in Client, Saved(c) PROVE ProxyTypeOK'
    <2>1. UNCHANGED <<ledger, taken>>
      BY <1>5 DEF Saved
    <2>2. CASE \E how \in {"idle", "answered"} : Closes({c}, how)
      BY <2>1, <2>2, ClosesTypes DEF ProxyTypeOK
    <2>3. CASE Moves(c, "log") /\ accepted' = [accepted EXCEPT ![c] = accepted[c]] /\ UNCHANGED settled
      BY <2>1, <2>3 DEF ProxyTypeOK, Moves, Open
    <2>. QED BY <1>5, <2>2, <2>3 DEF Saved, Replies
  <1>6. ASSUME NEW c \in Client, Logged(c) PROVE ProxyTypeOK'
    BY <1>6, ClosesTypes DEF Logged, ProxyTypeOK
  <1>7. CASE UNCHANGED proxyVars
    BY <1>7 DEF proxyVars, ProxyTypeOK
  <1>8. ASSUME NEW x \in Tx, LedgerMoves(x) PROVE ProxyTypeOK'
    BY <1>8 DEF LedgerMoves, ProxyTypeOK
  <1>9. CASE Dies
    BY <1>9, ClosesTypes DEF Dies, ProxyTypeOK
  <1>. QED BY <1>1, <1>2, <1>3, <1>4, <1>5, <1>6, <1>7, <1>8, <1>9
          DEF Next, ProxyStep, vars

LEMMA StepPlaces == TInv /\ [Next]_vars => Places'
  <1>. SUFFICES ASSUME TInv, [Next]_vars, NEW d \in Client PROVE PlaceOK(d)'
    BY DEF Places
  <1>. /\ PlaceOK(d) /\ pass \in [Client -> Running \cup {"idle", "saved", "failed"}]
       /\ of \in [Client -> Row] /\ pc \in [Client -> Open \cup {"idle", "answered"}]
       /\ req \in [Client -> Requests]
    BY DEF TInv, Places, SaveInv, SaveTypeOK, ProxyTypeOK
  <1>1. ASSUME NEW c \in Client, NEW r \in Requests, Arrives(c, r) PROVE PlaceOK(d)'
    BY <1>1 DEF Arrives, PlaceOK, Open, saveVars
  <1>2. ASSUME NEW c \in Client, StatusAnswered(c) PROVE PlaceOK(d)'
    BY <1>2 DEF StatusAnswered, Moves, Begins, Pass, PlaceOK, saveVars
  <1>3. ASSUME NEW c \in Client, PreSaved(c) PROVE PlaceOK(d)'
    BY <1>3 DEF PreSaved, Moves, Ends, Pass, PlaceOK
  <1>4. ASSUME NEW c \in Client, MinerAnswers(c) PROVE PlaceOK(d)'
    <2>1. CASE \E how \in {"idle", "answered"} : Closes({c}, how) /\ UNCHANGED saveVars
      BY <1>4, <2>1 DEF MinerAnswers, Closes, PlaceOK, saveVars
    <2>2. CASE Moves(c, "save") /\ Begins(c, req[c].row)
      BY <1>4, <2>2 DEF MinerAnswers, Moves, Begins, Pass, PlaceOK
    <2>3. CASE Moves(c, "log") /\ UNCHANGED saveVars
      BY <1>4, <2>3 DEF MinerAnswers, Moves, PlaceOK, saveVars
    <2>. QED BY <1>4, <2>1, <2>2, <2>3 DEF MinerAnswers, Replies
  <1>5. ASSUME NEW c \in Client, Saved(c) PROVE PlaceOK(d)'
    <2>1. CASE \E how \in {"idle", "answered"} : Closes({c}, how)
      BY <1>5, <2>1 DEF Saved, Closes, Ends, Pass, PlaceOK
    <2>2. CASE Moves(c, "log")
      BY <1>5, <2>2 DEF Saved, Moves, Ends, Pass, PlaceOK
    <2>. QED BY <1>5, <2>1, <2>2 DEF Saved, Replies
  <1>6. ASSUME NEW c \in Client, Logged(c) PROVE PlaceOK(d)'
    BY <1>6 DEF Logged, Closes, PlaceOK, saveVars
  <1>7. ASSUME NEW c \in Client, PassStep(c), UNCHANGED proxyVars PROVE PlaceOK(d)'
    <2>1. /\ pass[c] \in Running /\ pass' \in [Client -> Running \cup {"idle", "saved", "failed"}]
          /\ pass'[c] \in Running \cup {"saved"} /\ of' = of
          /\ \A e \in Client \ {c} : pass'[e] = pass[e]
      BY <1>7 DEF PassStep, IsTxMetaExist, SaveTxmeta, SaveRows, GetTx, TellGroups, Announce,
                  SaveUpdatelog, Running
    <2>. QED BY <1>7, <2>1 DEF PlaceOK, proxyVars, Running
  <1>8. ASSUME NEW c \in Client, Fails(c), UNCHANGED proxyVars PROVE PlaceOK(d)'
    BY <1>8 DEF Fails, Pass, PlaceOK, proxyVars, Running
  <1>9. ASSUME NEW g \in Group, AddGroupScriptIds(g) \/ DeleteGroupScriptIds(g), UNCHANGED proxyVars
        PROVE  PlaceOK(d)'
    BY <1>9 DEF AddGroupScriptIds, DeleteGroupScriptIds, Edits, PlaceOK, proxyVars
  <1>10. ASSUME NEW x \in Tx, LedgerMoves(x) PROVE PlaceOK(d)'
    BY <1>10 DEF LedgerMoves, PlaceOK, saveVars
  <1>11. CASE Dies
    BY <1>11 DEF Dies, PassesDie, Closes, PlaceOK, Open
  <1>12. CASE UNCHANGED vars
    BY <1>12 DEF vars, saveVars, proxyVars, PlaceOK
  <1>. QED BY <1>1, <1>2, <1>3, <1>4, <1>5, <1>6, <1>7, <1>8, <1>9, <1>10, <1>11, <1>12
          DEF Next, ProxyStep

LEMMA TypesHold == Spec => []TInv
  <1>1. Init => TInv
    BY InitTypes
  <1>2. TInv /\ [Next]_vars => TInv'
    BY NextSaves, SaveTypes, ProxyTypes, StepPlaces DEF TInv
  <1>. QED BY <1>1, <1>2, PTL DEF Spec

(* Tables, passes and requests keep their types; a request that saves has a pass *)
(* under way about its own transaction, and no other request has one: no pass is *)
(* left behind by the request that began it, and none is begun next to another.  *)
THEOREM TypeCorrect == Spec => []TypeOK
  <1>1. TInv => TypeOK
    BY DEF TInv, SaveInv, ProxyTypeOK, Places, TypeOK
  <1>. QED BY <1>1, TypesHold, PTL

-----------------------------------------------------------------------------
(* What a pass remembers of its first query stays true: rows are never removed. *)
ExistedStays == \A c \in Client : existed[c] => of[c] \in meta
NewInv == ExistedStays /\ NewIsAnnounced

(* A row that nobody has to announce any more after the step was announced, or   *)
(* its writer failed, or another pass still owes it.                             *)
LEMMA StillOwed ==
  ASSUME NewInv, NEW c \in Client, UNCHANGED meta,
         newtx \subseteq newtx', lost \subseteq lost',
         \A d \in Client \ {c} : pass'[d] = pass[d] /\ of'[d] = of[d] /\ existed'[d] = existed[d],
         Owes(c) => of[c] \in newtx' \cup lost'
  PROVE  NewIsAnnounced'
  <1>. SUFFICES ASSUME NEW row \in meta \ (newtx' \cup lost')
                PROVE  \E d \in Client : of'[d] = row /\ Owes(d)'
    BY DEF NewIsAnnounced
  <1>1. PICK d \in Client : of[d] = row /\ Owes(d)
    BY DEF NewInv, NewIsAnnounced
  <1>2. d # c
    BY <1>1
  <1>. QED BY <1>1, <1>2 DEF Owes

LEMMA NewStep == SaveInv /\ NewInv /\ SaveStep => NewInv'
  <1>. SUFFICES ASSUME SaveInv, NewInv, SaveStep PROVE NewInv'
    OBVIOUS
  <1>. USE DEF NewInv
  <1>. /\ pass \in [Client -> Running \cup {"idle", "saved", "failed"}]
       /\ of \in [Client -> Row] /\ existed \in [Client -> BOOLEAN]
    BY DEF SaveInv, SaveTypeOK
  <1>1. ASSUME NEW c \in Client, IsTxMetaExist(c) PROVE NewInv'
    <2>1. ExistedStays'
      BY <1>1 DEF ExistedStays, IsTxMetaExist, DidExist
    <2>2. ~Owes(c)
      BY <1>1 DEF IsTxMetaExist, Owes
    <2>. QED BY <1>1, <2>1, <2>2, StillOwed DEF IsTxMetaExist
  <1>2. ASSUME NEW c \in Client, SaveTxmeta(c) PROVE NewInv'
    <2>1. ExistedStays'
      BY <1>2 DEF ExistedStays, SaveTxmeta
    <2>2. ASSUME NEW row \in meta' \ (newtx' \cup lost') PROVE \E d \in Client : of'[d] = row /\ Owes(d)'
      <3>1. CASE row \in meta
        <4>1. PICK d \in Client : of[d] = row /\ Owes(d)
          BY <1>2, <2>2, <3>1 DEF NewIsAnnounced, SaveTxmeta
        <4>2. d # c
          BY <1>2, <4>1 DEF SaveTxmeta, Owes
        <4>. QED BY <1>2, <4>1, <4>2 DEF SaveTxmeta, Owes
      <3>2. CASE row \notin meta
        <4>1. row = of[c] /\ ~existed[c]
          BY <1>2, <2>2, <3>2 DEF SaveTxmeta, ExistedStays
        <4>. QED BY <1>2, <4>1 DEF SaveTxmeta, Owes
      <3>. QED BY <3>1, <3>2
    <2>. QED BY <2>1, <2>2 DEF NewIsAnnounced
  <1>3. ASSUME NEW c \in Client, SaveRows(c) \/ GetTx(c) \/ TellGroups(c) PROVE NewInv'
    <2>1. UNCHANGED <<meta, of, existed, newtx, lost>> /\ \A d \in Client : Owes(d)' <=> Owes(d)
      BY <1>3 DEF SaveRows, GetTx, TellGroups, Owes
    <2>. QED BY <2>1 DEF ExistedStays, NewIsAnnounced
  <1>4. ASSUME NEW c \in Client, Announce(c) PROVE NewInv'
    <2>1. ExistedStays'
      BY <1>4 DEF ExistedStays, Announce
    <2>2. Owes(c) => of[c] \in newtx'
      BY <1>4 DEF Announce, Owes
    <2>. QED BY <1>4, <2>1, <2>2, StillOwed DEF Announce
  <1>5. ASSUME NEW c \in Client, SaveUpdatelog(c) PROVE NewInv'
    <2>1. ExistedStays'
      BY <1>5 DEF ExistedStays, SaveUpdatelog
    <2>2. ~Owes(c)
      BY <1>5 DEF SaveUpdatelog, Owes
    <2>. QED BY <1>5, <2>1, <2>2, StillOwed DEF SaveUpdatelog
  <1>6. ASSUME NEW c \in Client, Fails(c) PROVE NewInv'
    <2>1. ExistedStays'
      BY <1>6 DEF ExistedStays, Fails, Pass
    <2>2. Owes(c) => of[c] \in newtx' \cup lost'
      BY <1>6 DEF Fails, Pass, Unheard
    <2>. QED BY <1>6, <2>1, <2>2, StillOwed DEF Fails, Pass
  <1>7. ASSUME NEW c \in Client, Ends(c) PROVE NewInv'
    <2>1. ExistedStays'
      BY <1>7 DEF ExistedStays, Ends, Pass
    <2>2. ~Owes(c)
      BY <1>7 DEF Ends, Owes
    <2>. QED BY <1>7, <2>1, <2>2, StillOwed DEF Ends, Pass
  <1>8. ASSUME NEW c \in Client, NEW row \in Row, pass[c] = "idle", Begins(c, row) PROVE NewInv'
    <2>1. ExistedStays'
      BY <1>8 DEF ExistedStays, Begins, Pass
    <2>2. ~Owes(c)
      BY <1>8 DEF Owes
    <2>. QED BY <1>8, <2>1, <2>2, StillOwed DEF Begins, Pass
  <1>9. CASE PassesDie
    <2>1. ExistedStays'
      BY <1>9 DEF ExistedStays, PassesDie
    <2>2. meta \ (newtx \cup lost) \subseteq Unheard(Client)
      BY DEF NewIsAnnounced, Unheard
    <2>3. meta' \ (newtx' \cup lost') = {}
      BY <1>9, <2>2 DEF PassesDie
    <2>. QED BY <2>1, <2>3 DEF NewIsAnnounced
  <1>10. CASE UNCHANGED <<meta, pass, of, existed, newtx, lost>>
    BY <1>10 DEF ExistedStays, NewIsAnnounced, Owes
  <1>. QED BY <1>1, <1>2, <1>3, <1>4, <1>5, <1>6, <1>7, <1>8, <1>9, <1>10
          DEF SaveStep, PassStep, AddGroupScriptIds, DeleteGroupScriptIds, Edits, saveVars

(* Every new row of a channel is announced as new, whatever passes about the     *)
(* same transaction interleave with the one that wrote it, unless that pass      *)
(* fails before.                                                                 *)
THEOREM NewRowsAreAnnounced == Spec => []NewIsAnnounced
  <1>1. Init => NewInv
    BY DEF Init, SaveInit, NewInv, ExistedStays, NewIsAnnounced
  <1>2. TInv /\ NewInv /\ [Next]_vars => NewInv'
    BY NextSaves, NewStep DEF TInv
  <1>3. NewInv => NewIsAnnounced
    BY DEF NewInv
  <1>. QED BY <1>1, <1>2, <1>3, TypesHold, PTL DEF Spec

-----------------------------------------------------------------------------
(* What a pass has done by the time it stands where it stands. *)
Done(c) ==
  /\ pass[c] \in {"getTx", "groups", "updatelog", "saved"} => of[c][1] \in stored
  /\ Announced(c) => of[c] \in newtx \cup updatetx
(* Which groups still have an id of an output, and which of them have been told. *)
Heard(c) ==
  /\ pass[c] \notin {"groups", "updatelog", "saved"} => told[c] = {} /\ out[c] = 1
  /\ \A p \in since[c] :
       /\ p \in (1 .. Len(ScriptIds[of[c][1]])) \X Group
       /\ Has(member, of[c][1], p[1], p[2])
       /\ pass[c] = "groups" /\ p[1] < out[c] => p \in told[c]
       /\ Announced(c) => p \in told[c]
PassInv == \A c \in Client : Done(c) /\ Heard(c)

(* A pass that is not started, over or dead has told nobody and owes nothing.   *)
LEMMA BlankPass ==
  ASSUME NEW c \in Client, pass'[c] \in {"idle", "exists", "failed"},
         told'[c] = {}, since'[c] = {}, out'[c] = 1
  PROVE  (Done(c) /\ Heard(c))'
  BY DEF Done, Heard, Announced

(* A step of one pass leaves what others have done. *)
LEMMA OtherPass ==
  ASSUME NEW d \in Client, Done(d), Heard(d),
         UNCHANGED <<member, pass[d], of[d], out[d], told[d], since[d]>>,
         stored \subseteq stored', newtx \subseteq newtx', updatetx \subseteq updatetx'
  PROVE  (Done(d) /\ Heard(d))'
  <1>1. Done(d)'
    BY DEF Done, Announced
  <1>2. Heard(d)'
    BY DEF Heard, Announced, Has
  <1>. QED BY <1>1, <1>2

LEMMA PassRestarts ==
  ASSUME SaveInv, PassInv, NEW c \in Client, NEW at \in {"idle", "exists", "failed"}, NEW row \in Row,
         Pass(c, at, row)
  PROVE  PassInv'
  <1>. SUFFICES ASSUME NEW d \in Client PROVE (Done(d) /\ Heard(d))'
    BY DEF PassInv
  <1>. Done(d) /\ Heard(d)
    BY DEF PassInv
  <1>1. CASE d = c
    BY <1>1, BlankPass DEF Pass, SaveInv, SaveTypeOK
  <1>2. CASE d # c
    BY <1>2, OtherPass DEF Pass, SaveInv, SaveTypeOK
  <1>. QED BY <1>1, <1>2

LEMMA PassStepInv ==
  ASSUME SaveInv, PassInv, NEW c \in Client, PassStep(c), NEW d \in Client
  PROVE  (Done(d) /\ Heard(d))'
  <1>. Done(d) /\ Heard(d) /\ Done(c) /\ Heard(c)
    BY DEF PassInv
  <1>1. /\ pass \in [Client -> Running \cup {"idle", "saved", "failed"}]
        /\ of \in [Client -> Row] /\ existed \in [Client -> BOOLEAN] /\ out \in [Client -> Output]
        /\ told \in [Client -> SUBSET (Output \X (ScriptId \cup Group))]
        /\ since \in [Client -> SUBSET (Output \X Group)]
    BY DEF SaveInv, SaveTypeOK
  <1>2. of[c] \in Row /\ of[c][1] \in Tx /\ Len(ScriptIds[of[c][1]]) \in Nat
        /\ out[c] \in 1 .. Len(ScriptIds[of[c][1]])
    BY <1>1, ScriptTypes DEF SaveInv, OutputsExist
  <1>3. CASE d # c
    <2>1. /\ UNCHANGED <<member, pass[d], of[d], out[d], told[d], since[d]>>
          /\ stored \subseteq stored' /\ newtx \subseteq newtx' /\ updatetx \subseteq updatetx'
      BY <1>1, <1>3 DEF PassStep, IsTxMetaExist, SaveTxmeta, SaveRows, GetTx, TellGroups, Announce, SaveUpdatelog
    <2>. QED BY <2>1, OtherPass
  <1>4. CASE d = c
    <2>1. CASE IsTxMetaExist(c) \/ SaveTxmeta(c)
      BY <1>1, <1>4, <2>1 DEF IsTxMetaExist, SaveTxmeta, Done, Heard, Announced, Has
    <2>2. CASE SaveRows(c)
      BY <1>1, <1>2, <1>4, <2>2 DEF SaveRows, Done, Heard, Announced, Has
    <2>3. CASE GetTx(c)
      <3>1. Done(c)'
        BY <1>1, <2>3 DEF GetTx, Done, Announced
      <3>2. out[c] = 1
        BY <2>3 DEF GetTx, Heard
      <3>3. pass'[c] = "groups" /\ UNCHANGED <<of, since, member, out>>
        BY <1>1, <2>3 DEF GetTx
      <3>4. ASSUME NEW p \in since[c], p[1] < out[c] PROVE FALSE
        BY <1>2, <3>2, <3>4 DEF Heard
      <3>5. Heard(c)'
        BY <3>3, <3>4 DEF Heard, Announced, Has
      <3>. QED BY <1>4, <3>1, <3>5
    <2>4. CASE TellGroups(c)
      <3>1. Done(c)'
        BY <1>1, <2>4 DEF TellGroups, Done, Announced
      <3>2. ASSUME NEW p \in since[c], p[1] = out[c] PROVE p \in TellsGroups(c)
        BY <3>2 DEF Heard, TellsGroups, Groups, Has
      <3>3. /\ pass'[c] = "groups" /\ out'[c] = out[c] + 1 /\ UNCHANGED <<of, since, member>>
            /\ told'[c] = told[c] \cup TellsGroups(c) \cup TellsScripts(c, out[c] + 1)
        BY <1>1, <2>4 DEF TellGroups
      <3>4. ASSUME NEW p \in since[c], p[1] < out[c] + 1 PROVE p \in told'[c]
        <4>1. p[1] \in Nat /\ (p[1] < out[c] => p \in told[c])
          BY <1>2, <2>4 DEF Heard, TellGroups
        <4>2. p[1] < out[c] \/ p[1] = out[c]
          BY <1>2, <3>4, <4>1
        <4>. QED BY <3>2, <3>3, <4>1, <4>2
      <3>5. Heard(c)'
        BY <3>3, <3>4 DEF Heard, Announced, Has
      <3>. QED BY <1>4, <3>1, <3>5
    <2>5. CASE Announce(c)
      <3>1. Done(c)'
        BY <1>1, <2>5 DEF Announce, Done, Announced
      <3>2. ASSUME NEW p \in since[c], p[1] = out[c] PROVE p \in TellsGroups(c)
        BY <3>2 DEF Heard, TellsGroups, Groups, Has
      <3>3. /\ pass'[c] \in {"updatelog", "saved"} /\ UNCHANGED <<of, since, member, out>>
            /\ told'[c] = told[c] \cup TellsGroups(c)
        BY <1>1, <2>5 DEF Announce
      <3>4. ASSUME NEW p \in since[c] PROVE p \in told'[c]
        <4>1. p[1] \in 1 .. Len(ScriptIds[of[c][1]]) /\ (p[1] < out[c] => p \in told[c])
          BY <2>5 DEF Heard, Announce
        <4>2. p[1] < out[c] \/ p[1] = out[c]
          BY <1>2, <2>5, <4>1 DEF Announce, IsLastOutput
        <4>. QED BY <3>2, <3>3, <4>2, <4>1
      <3>5. Heard(c)'
        BY <3>3, <3>4 DEF Heard, Announced, Has
      <3>. QED BY <1>4, <3>1, <3>5
    <2>6. CASE SaveUpdatelog(c)
      BY <1>1, <1>4, <2>6 DEF SaveUpdatelog, Done, Heard, Announced, Has
    <2>. QED BY <2>1, <2>2, <2>3, <2>4, <2>5, <2>6 DEF PassStep
  <1>. QED BY <1>3, <1>4

LEMMA PassInvStep == SaveInv /\ PassInv /\ SaveStep => PassInv'
  <1>. SUFFICES ASSUME SaveInv, PassInv, SaveStep PROVE PassInv'
    OBVIOUS
  <1>1. ASSUME NEW c \in Client, PassStep(c) PROVE PassInv'
    BY <1>1, PassStepInv DEF PassInv
  <1>2. ASSUME NEW c \in Client, Fails(c) PROVE PassInv'
    <2>1. AnyRow \in Row /\ Pass(c, "failed", AnyRow)
      BY <1>2, Nonempty DEF Fails
    <2>. QED BY <2>1, PassRestarts
  <1>3. ASSUME NEW c \in Client, Ends(c) PROVE PassInv'
    <2>1. AnyRow \in Row /\ Pass(c, "idle", AnyRow)
      BY <1>3, Nonempty DEF Ends
    <2>. QED BY <2>1, PassRestarts
  <1>4. ASSUME NEW c \in Client, NEW row \in Row, Begins(c, row) PROVE PassInv'
    <2>1. Pass(c, "exists", row)
      BY <1>4 DEF Begins
    <2>. QED BY <2>1, PassRestarts
  <1>5. ASSUME NEW g \in Group, AddGroupScriptIds(g) \/ DeleteGroupScriptIds(g) PROVE PassInv'
    <2>1. PICK table : Edits(table)
      BY <1>5 DEF AddGroupScriptIds, DeleteGroupScriptIds
    <2>. SUFFICES ASSUME NEW d \in Client PROVE (Done(d) /\ Heard(d))'
      BY DEF PassInv
    <2>2. Done(d) /\ Heard(d)
      BY DEF PassInv
    <2>3. since'[d] = {p \in since[d] : Has(member', of[d][1], p[1], p[2])}
      BY <2>1 DEF Edits
    <2>4. Done(d)'
      BY <2>1, <2>2 DEF Edits, Done, Announced
    <2>5. Heard(d)'
      BY <2>1, <2>2, <2>3 DEF Edits, Heard, Announced
    <2>. QED BY <2>4, <2>5
  <1>6. CASE PassesDie
    <2>. SUFFICES ASSUME NEW d \in Client PROVE (Done(d) /\ Heard(d))'
      BY DEF PassInv
    <2>. QED BY <1>6, BlankPass DEF PassesDie
  <1>7. CASE UNCHANGED saveVars
    BY <1>7 DEF saveVars, PassInv, Done, Heard, Announced, Has
  <1>. QED BY <1>1, <1>2, <1>3, <1>4, <1>5, <1>6, <1>7 DEF SaveStep

LEMMA PassesHold == Spec => []PassInv
  <1>1. Init => PassInv
    BY DEF Init, SaveInit, PassInv, Done, Heard, Announced
  <1>2. TInv /\ PassInv /\ [Next]_vars => PassInv'
    BY NextSaves, PassInvStep DEF TInv
  <1>. QED BY <1>1, <1>2, TypesHold, PTL DEF Spec

(* However groups are edited while a pass goes through its outputs, a group that *)
(* has kept an id of an output since it was stored has heard of it when the pass *)
(* announces the transaction, and nobody hears of an output that is not stored.  *)
THEOREM GroupsAreTold == Spec => []GroupsHear
  <1>1. PassInv => GroupsHear
    BY DEF PassInv, GroupsHear, Done, Heard, Announced
  <1>. QED BY <1>1, PassesHold, PTL

-----------------------------------------------------------------------------
(* Somebody vouches for a row: the miner that took it from its channel, or those *)
(* that know the transaction, when a push in the channel asks for the check.     *)
Checked(row) == Known(row[1]) /\ \E r \in Requests : HoldsUp(r) /\ r.row = row
Vouched(row) == row \in taken \/ Checked(row)
(* So it is for every pass under way, and therefore for what passes write; and a *)
(* request that is held up is one that asks for the check.                       *)
VouchInv ==
  /\ \A row \in meta : Vouched(row)
  /\ \A c \in Client : pass[c] \notin {"idle", "failed"} => Vouched(of[c])
  /\ \A c \in Client : pc[c] = "asking" => HoldsUp(req[c])

LEMMA VouchedStays == TInv /\ [Next]_vars => \A row \in Row : Vouched(row) => Vouched(row)'
  <1>. SUFFICES ASSUME TInv, [Next]_vars, NEW row \in Row, Vouched(row) PROVE Vouched(row)'
    OBVIOUS
  <1>. ledger \in [Tx -> {"unseen", "mempool", "mined"}] /\ row[1] \in Tx
    BY DEF TInv, ProxyTypeOK, Row
  <1>1. CASE UNCHANGED <<ledger, taken>>
    BY <1>1 DEF Vouched, Checked, Known
  <1>2. ASSUME NEW c \in Client, MinerAnswers(c) PROVE Vouched(row)'
    <2>1. taken \subseteq taken' /\ (Known(row[1]) => Known(row[1])')
      BY <1>2 DEF MinerAnswers, Known
    <2>. QED BY <2>1 DEF Vouched, Checked
  <1>3. ASSUME NEW y \in Tx, LedgerMoves(y) PROVE Vouched(row)'
    BY <1>3 DEF LedgerMoves, Vouched, Checked, Known
  <1>. QED BY <1>1, <1>2, <1>3 DEF Next, ProxyStep, Arrives, StatusAnswered, PreSaved, Saved, Logged,
                Dies, proxyVars, vars

(* Only an arrival starts to ask, and only for a request that is held up.       *)
LEMMA AskingStep ==
  TInv /\ VouchInv /\ [Next]_vars => \A c \in Client : pc'[c] = "asking" => HoldsUp(req'[c])
  <1>. SUFFICES ASSUME TInv, VouchInv, [Next]_vars, NEW c \in Client, pc'[c] = "asking"
                PROVE  HoldsUp(req'[c])
    OBVIOUS
  <1>1. pc \in [Client -> Open \cup {"idle", "answered"}] /\ req \in [Client -> Requests]
    BY DEF TInv, ProxyTypeOK
  <1>2. pc[c] = "asking" => HoldsUp(req[c])
    BY DEF VouchInv
  <1>3. CASE UNCHANGED <<pc, req>>
    BY <1>2, <1>3
  <1>4. ASSUME NEW d \in Client, NEW r \in Requests, Arrives(d, r) PROVE HoldsUp(req'[c])
    BY <1>1, <1>2, <1>4 DEF Arrives
  <1>5. ASSUME NEW d \in Client, NEW to, Moves(d, to), to # "asking" PROVE HoldsUp(req'[c])
    BY <1>1, <1>2, <1>5 DEF Moves
  <1>6. ASSUME NEW D, NEW how, Closes(D, how), how # "asking" PROVE HoldsUp(req'[c])
    BY <1>1, <1>2, <1>6 DEF Closes
  <1>7. ASSUME NEW d \in Client, ProxyStep(d) PROVE HoldsUp(req'[c])
    BY <1>3, <1>5, <1>6, <1>7 DEF ProxyStep, StatusAnswered, PreSaved, MinerAnswers, Saved, Logged,
       Replies, proxyVars
  <1>. QED BY <1>3, <1>4, <1>6, <1>7 DEF Next, Dies, LedgerMoves, proxyVars, vars

(* What a step does to meta and to a pass: the row of a pass is written only by  *)
(* that pass, and the transaction of a pass changes only when it begins or ends. *)
LEMMA PassesWrite ==
  ASSUME SaveInv, NEW c \in Client, PassStep(c)
  PROVE  /\ meta' \subseteq meta \cup {of[c]} /\ of' = of /\ pass[c] \in Running
         /\ \A d \in Client \ {c} : pass'[d] = pass[d]
  BY DEF SaveInv, SaveTypeOK, PassStep, IsTxMetaExist, SaveTxmeta, SaveRows, GetTx, TellGroups,
         Announce, SaveUpdatelog, Running

LEMMA VouchStep == TInv /\ VouchInv /\ [Next]_vars => VouchInv'
  <1>. SUFFICES ASSUME TInv, VouchInv, [Next]_vars PROVE VouchInv'
    OBVIOUS
  <1>1. /\ pass \in [Client -> Running \cup {"idle", "saved", "failed"}]
        /\ of \in [Client -> Row] /\ meta \subseteq Row /\ req \in [Client -> Requests]
        /\ ledger \in [Tx -> {"unseen", "mempool", "mined"}]
    BY DEF TInv, SaveInv, SaveTypeOK, ProxyTypeOK
  <1>2. /\ \A row \in Row : Vouched(row) => Vouched(row)'
        /\ \A c \in Client : pc'[c] = "asking" => HoldsUp(req'[c])
    BY VouchedStays, AskingStep
  <1>3. CASE UNCHANGED <<meta, pass, of>>
    BY <1>1, <1>2, <1>3 DEF VouchInv
  <1>4. ASSUME NEW c \in Client, PassStep(c) PROVE VouchInv'
    <2>1. /\ meta' \subseteq meta \cup {of[c]} /\ of' = of /\ pass[c] \notin {"idle", "failed"}
          /\ \A d \in Client \ {c} : pass'[d] = pass[d]
      BY <1>4, PassesWrite DEF TInv, Running
    <2>2. Vouched(of[c])'
      BY <1>1, <1>2, <2>1 DEF VouchInv
    <2>. QED BY <1>1, <1>2, <2>1, <2>2 DEF VouchInv
  <1>5. ASSUME NEW c \in Client, NEW at, NEW row, Pass(c, at, row), at \notin {"idle", "failed"} => Vouched(row)'
        PROVE  VouchInv'
    BY <1>1, <1>2, <1>5 DEF VouchInv, Pass
  <1>6. ASSUME NEW c \in Client, StatusAnswered(c) PROVE VouchInv'
    <2>1. PICK a \in StatusAnswers(X(c)) :
             IF IsAcceptedStatus(a) THEN Begins(c, req[c].row) ELSE UNCHANGED saveVars
      BY <1>6 DEF StatusAnswered
    <2>2. CASE IsAcceptedStatus(a)
      <3>1. Known(X(c))
        BY <2>1, <2>2 DEF StatusAnswers, IsAcceptedStatus, Known
      <3>2. HoldsUp(req[c]) /\ req[c] \in Requests /\ UNCHANGED <<ledger, taken>>
        BY <1>1, <1>6 DEF StatusAnswered, VouchInv
      <3>3. PICK row : row = req[c].row
        OBVIOUS
      <3>4. Vouched(row)'
        BY <3>1, <3>2, <3>3 DEF Vouched, Checked, Known, X
      <3>. QED BY <1>5, <2>1, <2>2, <3>3, <3>4 DEF Begins
    <2>3. CASE ~IsAcceptedStatus(a)
      BY <1>3, <2>1, <2>3 DEF saveVars
    <2>. QED BY <2>2, <2>3
  <1>7. ASSUME NEW c \in Client, PreSaved(c) \/ Saved(c) PROVE VouchInv'
    BY <1>5, <1>7 DEF PreSaved, Saved, Ends
  <1>8. ASSUME NEW c \in Client, MinerAnswers(c) PROVE VouchInv'
    <2>1. CASE UNCHANGED saveVars
      BY <1>3, <2>1 DEF saveVars
    <2>2. CASE Begins(c, req[c].row) /\ req[c].row \in taken'
      <3>1. PICK row : row = req[c].row
        OBVIOUS
      <3>. QED BY <1>5, <2>2, <3>1 DEF Begins, Vouched
    <2>. QED BY <1>8, <2>1, <2>2 DEF MinerAnswers, Commits, IsAcceptedPush
  <1>9. ASSUME NEW c \in Client, Fails(c) PROVE VouchInv'
    BY <1>5, <1>9 DEF Fails
  <1>10. CASE Dies
    BY <1>1, <1>2, <1>10 DEF Dies, PassesDie, VouchInv
  <1>. QED BY <1>3, <1>4, <1>6, <1>7, <1>8, <1>9, <1>10
          DEF Next, ProxyStep, Arrives, Logged, LedgerMoves, AddGroupScriptIds, DeleteGroupScriptIds,
              Edits, saveVars, vars

(* Nothing is saved, in a channel, but what a miner took from a push there, or   *)
(* what miners knew and a push there asked to have checked: for any number of    *)
(* requests, whatever fails.                                                     *)
THEOREM SavesAreVouched == Spec => []SavedIsVouched
  <1>1. Init => VouchInv
    BY DEF Init, SaveInit, VouchInv
  <1>2. VouchInv => SavedIsVouched
    BY DEF VouchInv, Vouched, Checked, SavedIsVouched
  <1>. QED BY <1>1, <1>2, VouchStep, TypesHold, PTL DEF Spec

-----------------------------------------------------------------------------
(* The transaction of a client's request is stored and announced. *)
Kept(c) == X(c) \in stored /\ req[c].row \in newtx \cup updatetx
Keeps(c) ==
  /\ settled[c] => pc[c] \in Open /\ Kept(c)
  /\ accepted[c] => pc[c] \in {"save", "log"} /\ (pc[c] = "log" => Kept(c))
KeepInv == \A c \in Client : Keeps(c)
(* What the property asks of one client's step. *)
AnswerKept(c) ==
  pc[c] \in Open /\ pc'[c] = "answered" /\ IsPush(c) /\ (accepted[c] \/ settled[c]) =>
    X(c) \in stored' /\ req[c].row \in newtx' \cup updatetx'

LEMMA TablesGrow ==
  SaveInv /\ SaveStep => stored \subseteq stored' /\ newtx \subseteq newtx' /\ updatetx \subseteq updatetx'
  BY DEF SaveStep, PassStep, Fails, Ends, Begins, Pass, AddGroupScriptIds, DeleteGroupScriptIds, Edits,
         PassesDie, saveVars, IsTxMetaExist, SaveTxmeta, SaveRows, GetTx, TellGroups, Announce, SaveUpdatelog

(* The save a request waits for has done its work when it has succeeded. *)
LEMMA SavedIsKept ==
  ASSUME TInv, PassInv, NEW c \in Client, pc[c] \in {"presave", "save"}, pass[c] = "saved"
  PROVE  Kept(c)
  <1>1. of[c] = req[c].row
    BY DEF TInv, Places, PlaceOK
  <1>2. Done(c)
    BY DEF PassInv
  <1>. QED BY <1>1, <1>2 DEF Done, Announced, Kept, X

(* A step that leaves a client alone, or closes its request. *)
LEMMA KeepsAlone ==
  ASSUME NEW d \in Client, Keeps(d), UNCHANGED <<pc[d], req[d], settled[d], accepted[d]>>,
         stored \subseteq stored', newtx \subseteq newtx', updatetx \subseteq updatetx'
  PROVE  Keeps(d)' /\ AnswerKept(d)
  BY DEF Keeps, Kept, X, AnswerKept, Open

LEMMA KeepsClosed ==
  ASSUME ProxyTypeOK, NEW d \in Client, Keeps(d), NEW C, NEW how, Closes(C, how), d \in C,
         accepted[d] => Kept(d),
         stored \subseteq stored', newtx \subseteq newtx', updatetx \subseteq updatetx'
  PROVE  Keeps(d)' /\ AnswerKept(d)
  <1>1. settled'[d] = FALSE /\ accepted'[d] = FALSE
    BY DEF Closes
  <1>. QED BY <1>1 DEF Keeps, Kept, X, AnswerKept

(* The ways on to the save and to the log; accepted is what the miner said.      *)
MovesOn(c) ==
  /\ pc[c] \in {"forward", "save"} /\ UNCHANGED settled
  /\ \E ok \in BOOLEAN : accepted' = [accepted EXCEPT ![c] = ok]
  /\ \/ Moves(c, "save")
     \/ Moves(c, "log") /\ (accepted'[c] => Kept(c))

LEMMA MovesOnKeeps ==
  ASSUME ProxyTypeOK, NEW c \in Client, MovesOn(c), NEW d \in Client, Keeps(d),
         stored \subseteq stored', newtx \subseteq newtx', updatetx \subseteq updatetx'
  PROVE  Keeps(d)' /\ AnswerKept(d)
  <1>1. CASE d = c
    <2>1. pc[d] \in Open /\ pc'[d] \in {"save", "log"} /\ UNCHANGED <<req, settled>>
          /\ (pc'[d] = "log" /\ accepted'[d] => Kept(d))
      BY <1>1 DEF MovesOn, Moves, ProxyTypeOK, Open
    <2>. QED BY <2>1 DEF Keeps, Kept, X, AnswerKept, Open
  <1>2. CASE d # c
    <2>1. UNCHANGED <<pc[d], req[d], settled[d]>>
      BY <1>2 DEF MovesOn, Moves, ProxyTypeOK
    <2>2. UNCHANGED accepted[d]
      BY <1>2, Zenon DEF MovesOn, ProxyTypeOK
    <2>. QED BY <2>1, <2>2, KeepsAlone
  <1>. QED BY <1>1, <1>2

LEMMA KeepStep ==
  TInv /\ PassInv /\ KeepInv /\ [Next]_vars => KeepInv' /\ \A d \in Client : AnswerKept(d)
  <1>. SUFFICES ASSUME TInv, PassInv, KeepInv, [Next]_vars, NEW d \in Client
                PROVE  Keeps(d)' /\ AnswerKept(d)
    BY DEF KeepInv
  <1>0. /\ stored \subseteq stored' /\ newtx \subseteq newtx' /\ updatetx \subseteq updatetx'
        /\ Keeps(d) /\ ProxyTypeOK
    BY NextSaves, TablesGrow DEF TInv, KeepInv
  <1>1. CASE UNCHANGED <<pc, req, settled, accepted>>
    BY <1>0, <1>1, KeepsAlone
  <1>2. ASSUME NEW c \in Client, NEW r \in Requests, Arrives(c, r) PROVE Keeps(d)' /\ AnswerKept(d)
    <2>1. CASE d = c
      <3>1. pc[d] \notin Open /\ UNCHANGED <<settled, accepted>>
        BY <1>2, <2>1 DEF Arrives
      <3>2. ~settled[d] /\ ~accepted[d]
        BY <1>0, <3>1 DEF Keeps, Open
      <3>. QED BY <3>1, <3>2 DEF Keeps, AnswerKept
    <2>2. CASE d # c
      BY <1>0, <1>2, <2>2, KeepsAlone DEF Arrives, ProxyTypeOK
    <2>. QED BY <2>1, <2>2
  <1>3. ASSUME NEW c \in Client, StatusAnswered(c) PROVE Keeps(d)' /\ AnswerKept(d)
    <2>1. \E to \in {"presave", "forward"} : Moves(c, to)
      BY <1>3 DEF StatusAnswered
    <2>2. CASE d = c
      <3>1. pc[d] = "asking" /\ pc'[d] \in {"presave", "forward"} /\ UNCHANGED <<req, settled, accepted>>
        BY <1>0, <1>3, <2>1, <2>2 DEF StatusAnswered, Moves, ProxyTypeOK
      <3>. QED BY <1>0, <3>1 DEF Keeps, Kept, X, AnswerKept, Open
    <2>3. CASE d # c
      BY <1>0, <1>3, <2>1, <2>3, KeepsAlone DEF StatusAnswered, Moves, ProxyTypeOK
    <2>. QED BY <2>2, <2>3
  <1>4. ASSUME NEW c \in Client, PreSaved(c) PROVE Keeps(d)' /\ AnswerKept(d)
    <2>1. CASE d = c
      <3>1. pc[d] = "presave" /\ pc'[d] = "forward" /\ UNCHANGED <<req, accepted>>
        BY <1>0, <1>4, <2>1 DEF PreSaved, Moves, ProxyTypeOK
      <3>2. settled'[d] = (pass[d] = "saved")
        BY <1>0, <1>4, <2>1, Zenon DEF PreSaved, ProxyTypeOK
      <3>3. pass[d] = "saved" => Kept(d)
        BY <3>1, SavedIsKept
      <3>. QED BY <1>0, <3>1, <3>2, <3>3 DEF Keeps, Kept, X, AnswerKept, Open
    <2>2. CASE d # c
      <3>1. UNCHANGED <<pc[d], req[d], accepted[d]>>
        BY <1>0, <1>4, <2>2 DEF PreSaved, Moves, ProxyTypeOK
      <3>2. UNCHANGED settled[d]
        BY <1>0, <1>4, <2>2, Zenon DEF PreSaved, ProxyTypeOK
      <3>. QED BY <1>0, <3>1, <3>2, KeepsAlone
    <2>. QED BY <2>1, <2>2
  <1>5. ASSUME NEW C \in SUBSET Client, NEW how, Closes(C, how), \A c \in C : accepted[c] => Kept(c)
        PROVE  Keeps(d)' /\ AnswerKept(d)
    <2>1. CASE d \in C
      BY <1>0, <1>5, <2>1, KeepsClosed
    <2>2. CASE d \notin C
      <3>1. UNCHANGED <<pc[d], req[d]>>
        BY <1>5, <2>2 DEF Closes
      <3>2. UNCHANGED settled[d]
        BY <1>0, <1>5, <2>2, Zenon DEF Closes, ProxyTypeOK
      <3>3. UNCHANGED accepted[d]
        BY <1>0, <1>5, <2>2, Zenon DEF Closes, ProxyTypeOK
      <3>. QED BY <1>0, <3>1, <3>2, <3>3, KeepsAlone
    <2>. QED BY <2>1, <2>2
  <1>6. ASSUME NEW c \in Client, MovesOn(c) PROVE Keeps(d)' /\ AnswerKept(d)
    BY <1>0, <1>6, MovesOnKeeps
  <1>7. ASSUME NEW c \in Client, MinerAnswers(c) PROVE Keeps(d)' /\ AnswerKept(d)
    <2>1. pc[c] = "forward" /\ ~accepted[c]
      BY <1>7 DEF MinerAnswers, KeepInv, Keeps
    <2>2. CASE \E how \in {"idle", "answered"} : Closes({c}, how)
      BY <1>5, <2>1, <2>2
    <2>3. PICK a : \/ Closes({c}, "idle")
                   \/ /\ Moves(c, "save")
                      /\ accepted' = [accepted EXCEPT ![c] = Commits(c, a)]
                      /\ UNCHANGED settled
                   \/ ~(IsPush(c) /\ IsAcceptedPush(a)) /\ Replies(c, Commits(c, a))
      BY <1>7, Zenon DEF MinerAnswers
    <2>4. Commits(c, a) \in BOOLEAN
      BY DEF Commits
    <2>5. CASE Moves(c, "save") /\ accepted' = [accepted EXCEPT ![c] = Commits(c, a)] /\ UNCHANGED settled
      <3>1. MovesOn(c)
        BY <2>1, <2>4, <2>5, Zenon DEF MovesOn
      <3>. QED BY <1>6, <3>1
    <2>6. CASE /\ Moves(c, "log") /\ accepted' = [accepted EXCEPT ![c] = Commits(c, a)]
               /\ UNCHANGED settled /\ ~(IsPush(c) /\ IsAcceptedPush(a))
      <3>1. ~Commits(c, a)
        BY <2>6 DEF Commits, IsAcceptedPush
      <3>2. ~accepted'[c]
        BY <1>0, <2>6, <3>1, Zenon DEF ProxyTypeOK
      <3>3. MovesOn(c)
        BY <2>1, <2>4, <2>6, <3>2, Zenon DEF MovesOn
      <3>. QED BY <1>6, <3>3
    <2>. QED BY <2>2, <2>3, <2>5, <2>6, Zenon DEF Replies
  <1>8. ASSUME NEW c \in Client, Saved(c) PROVE Keeps(d)' /\ AnswerKept(d)
    <2>1. pc[c] = "save" /\ (pass[c] = "saved" => Kept(c))
      BY <1>8, SavedIsKept DEF Saved
    <2>2. CASE pass[c] = "saved"
      <3>1. Replies(c, accepted[c]) /\ accepted[c] \in BOOLEAN
        BY <1>0, <1>8, <2>2 DEF Saved, ProxyTypeOK
      <3>2. CASE Logging
        <4>1. MovesOn(c)
          BY <2>1, <2>2, <3>1, <3>2, Zenon DEF MovesOn, Replies
        <4>. QED BY <1>6, <4>1
      <3>3. CASE ~Logging
        BY <1>5, <2>1, <2>2, <3>1, <3>3 DEF Replies
      <3>. QED BY <3>2, <3>3
    <2>3. CASE pass[c] # "saved"
      (* The save has failed: whoever accepted, the client does not get the answer. *)
      <3>1. Closes({c}, "idle")
        BY <1>8, <2>3 DEF Saved
      <3>2. CASE d = c
        <4>1. pc'[d] = "idle" /\ settled'[d] = FALSE /\ accepted'[d] = FALSE
          BY <1>0, <3>1, <3>2 DEF Closes
        <4>. QED BY <4>1 DEF Keeps, AnswerKept
      <3>3. CASE d # c
        <4>1. UNCHANGED <<pc[d], req[d]>>
          BY <3>1, <3>3 DEF Closes
        <4>2. UNCHANGED settled[d]
          BY <1>0, <3>1, <3>3, Zenon DEF Closes, ProxyTypeOK
        <4>3. UNCHANGED accepted[d]
          BY <1>0, <3>1, <3>3, Zenon DEF Closes, ProxyTypeOK
        <4>. QED BY <1>0, <4>1, <4>2, <4>3, KeepsAlone
      <3>. QED BY <3>2, <3>3
    <2>. QED BY <2>2, <2>3
  <1>9. ASSUME NEW c \in Client, Logged(c) PROVE Keeps(d)' /\ AnswerKept(d)
    <2>1. accepted[c] => Kept(c)
      BY <1>9 DEF Logged, KeepInv, Keeps
    <2>. QED BY <1>5, <1>9, <2>1 DEF Logged
  <1>10. CASE Dies
    <2>. DEFINE C == {c \in Client : pc[c] \in Open}
    <2>1. Closes(C, "idle")
      BY <1>10 DEF Dies
    <2>2. CASE d \in C
      <3>1. pc'[d] = "idle" /\ settled'[d] = FALSE /\ accepted'[d] = FALSE
        BY <2>1, <2>2 DEF Closes
      <3>. QED BY <3>1 DEF Keeps, AnswerKept
    <2>3. CASE d \notin C
      <3>1. pc[d] \notin Open /\ UNCHANGED <<pc[d], req[d]>>
        BY <2>1, <2>3 DEF Closes
      <3>2. settled'[d] = FALSE /\ accepted'[d] = FALSE
        BY <1>0, <2>1, <2>3, <3>1, Zenon DEF Closes, Keeps, Open
      <3>. QED BY <3>1, <3>2 DEF Keeps, AnswerKept
    <2>. QED BY <2>2, <2>3
  <1>. QED BY <1>1, <1>2, <1>3, <1>4, <1>7, <1>8, <1>9, <1>10
          DEF Next, ProxyStep, LedgerMoves, proxyVars, vars

(* When a client has got the answer of a miner that accepts its push, or the     *)
(* answer to a push whose transaction was found in a block, the transaction is   *)
(* stored and announced: no failure, exit or other request comes between.        *)
THEOREM CommitmentsAreKept == Spec => CommittedIsKept
  <1>1. Init => KeepInv
    <2>1. ASSUME Init, NEW c \in Client PROVE settled[c] = FALSE /\ accepted[c] = FALSE
      BY <2>1, Zenon DEF Init
    <2>. QED BY <2>1 DEF KeepInv, Keeps
  <1>2. TInv /\ PassInv /\ KeepInv /\ [Next]_vars => KeepInv' /\ \A d \in Client : AnswerKept(d)
    BY KeepStep
  <1>3. (\A d \in Client : AnswerKept(d)) =>
        [\A c \in Client :
           pc[c] \in Open /\ pc'[c] = "answered" /\ IsPush(c) /\ (accepted[c] \/ settled[c]) =>
             X(c) \in stored' /\ req[c].row \in newtx' \cup updatetx']_vars
    BY DEF AnswerKept
  <1>. QED BY <1>1, <1>2, <1>3, TypesHold, PassesHold, PTL DEF Spec, CommittedIsKept

-----------------------------------------------------------------------------
(* The condition on which one of the steps of a request can be taken, which is   *)
(* what ENABLED ProxyStep(c) comes to; the calls of a pass are always possible.  *)
HasNextCall(c) ==
  \/ pc[c] = "asking" /\ StatusAnswers(X(c)) # {}
  \/ pc[c] = "presave" /\ HeldUp(c)
  \/ /\ pc[c] = "forward"
     /\ (IF IsPush(c) THEN PushAnswers(X(c)) ELSE {"success"} \cup Odd) # {}
  \/ pc[c] = "save" /\ pass[c] \in {"saved", "failed"}
  \/ pc[c] = "log"
  \/ pass[c] \in Running

(* An open request is never stuck: its next call can settle, or its pass goes on,*)
(* however the passes and requests of others have gone.                          *)
THEOREM NeverStuck == Spec => [](\A c \in Client : pc[c] \in Open => HasNextCall(c))
  <1>1. TInv => \A c \in Client : pc[c] \in Open => HasNextCall(c)
    <2>. SUFFICES ASSUME TInv, NEW c \in Client, pc[c] \in Open PROVE HasNextCall(c)
      OBVIOUS
    <2>1. CASE pc[c] \in {"presave", "save"}
      <3>1. pass[c] \in Running \cup {"saved", "failed"}
        BY <2>1 DEF TInv, SaveInv, SaveTypeOK, Places, PlaceOK
      <3>. QED BY <2>1, <3>1 DEF HasNextCall, HeldUp, Running
    <2>2. CASE pc[c] \in {"asking", "forward", "log"}
      BY <2>2 DEF HasNextCall, StatusAnswers, PushAnswers, Odd
    <2>. QED BY <2>1, <2>2 DEF Open
  <1>. QED BY <1>1, TypesHold, PTL

(* Where a request and its pass stand, when a step leaves the client alone.      *)
Still(c) == UNCHANGED <<pc[c], pass[c], of[c], out[c]>>

LEMMA LeaveStage ==
  ASSUME NEW c \in Client, pc[c] \in Open, pc'[c] # pc[c],
         \/ pc'[c] \in {"idle", "answered"}
         \/ pc[c] = "asking" /\ pc'[c] \in {"presave", "forward"}
         \/ pc[c] = "presave" /\ pc'[c] = "forward"
         \/ pc[c] = "forward" /\ pc'[c] \in {"save", "log"}
         \/ pc[c] = "save" /\ pc'[c] = "log"
  PROVE  Advances(c)
  <1>1. StagesLeft(c)' < StagesLeft(c)
    BY DEF StagesLeft, Open
  <1>. QED BY <1>1 DEF Advances

LEMMA PassAdvances ==
  ASSUME TInv, NEW c \in Client, PassStep(c), UNCHANGED pc
  PROVE  /\ Advances(c)
         /\ \A d \in Client \ {c} : Still(d)
  <1>. /\ pass \in [Client -> Running \cup {"idle", "saved", "failed"}]
       /\ of \in [Client -> Row] /\ out \in [Client -> Output]
    BY DEF TInv, SaveInv, SaveTypeOK
  <1>1. CASE TellGroups(c)
    <2>1. out[c] \in 1 .. Len(ScriptIds[of[c][1]]) /\ of[c] \in Row
      BY DEF TInv, SaveInv, OutputsExist
    <2>2. out[c] < Len(ScriptIds[of[c][1]])
      BY <1>1, <2>1, ScriptTypes DEF TellGroups, IsLastOutput
    <2>3. UNCHANGED <<pc[c], pass[c], of[c]>> /\ out'[c] = out[c] + 1
      BY <1>1 DEF TellGroups
    <2>4. \A d \in Client \ {c} : Still(d)
      BY <1>1 DEF TellGroups, Still
    <2>. QED BY <2>2, <2>3, <2>4 DEF Advances
  <1>2. CASE ~TellGroups(c)
    <2>1. /\ of' = of /\ out' = out /\ \A d \in Client \ {c} : pass'[d] = pass[d]
          /\ \/ pass[c] = "exists" /\ pass'[c] = "meta"
             \/ pass[c] = "meta" /\ pass'[c] = "rows"
             \/ pass[c] = "rows" /\ pass'[c] = "getTx"
             \/ pass[c] = "getTx" /\ pass'[c] = "groups"
             \/ pass[c] = "groups" /\ pass'[c] \in {"updatelog", "saved"}
             \/ pass[c] = "updatelog" /\ pass'[c] = "saved"
      BY <1>2 DEF PassStep, IsTxMetaExist, SaveTxmeta, SaveRows, GetTx, Announce, SaveUpdatelog
    <2>2. CallsLeft(c)' < CallsLeft(c)
      BY <2>1 DEF CallsLeft
    <2>. QED BY <2>1, <2>2 DEF Advances, Still
  <1>. QED BY <1>1, <1>2

(* A step of the client's own that is not a call of its pass ends a stage.       *)
LEMMA StageAdvances ==
  ASSUME TInv, NEW c \in Client,
         StatusAnswered(c) \/ PreSaved(c) \/ MinerAnswers(c) \/ Saved(c) \/ Logged(c)
  PROVE  /\ Advances(c)
         /\ \A d \in Client \ {c} : Still(d)
  <1>. /\ pass \in [Client -> Running \cup {"idle", "saved", "failed"}]
       /\ of \in [Client -> Row] /\ out \in [Client -> Output]
       /\ pc \in [Client -> Open \cup {"idle", "answered"}]
    BY DEF TInv, SaveInv, SaveTypeOK, ProxyTypeOK
  <1>1. \A d \in Client \ {c} : UNCHANGED <<pass[d], of[d], out[d]>>
    <2>1. UNCHANGED saveVars \/ \E at, row : Pass(c, at, row)
      BY DEF StatusAnswered, PreSaved, MinerAnswers, Saved, Logged, Begins, Ends
    <2>. QED BY <2>1 DEF saveVars, Pass
  <1>2. \/ \E how \in {"idle", "answered"} : Closes({c}, how)
        \/ pc[c] = "asking" /\ \E to \in {"presave", "forward"} : Moves(c, to)
        \/ pc[c] = "presave" /\ Moves(c, "forward")
        \/ pc[c] = "forward" /\ \E to \in {"save", "log"} : Moves(c, to)
        \/ pc[c] = "save" /\ Moves(c, "log")
    BY DEF StatusAnswered, PreSaved, MinerAnswers, Saved, Logged, Replies
  <1>3. \A d \in Client \ {c} : pc'[d] = pc[d]
    BY <1>2 DEF Closes, Moves
  <1>4. /\ pc[c] \in Open /\ pc'[c] # pc[c]
        /\ \/ pc'[c] \in {"idle", "answered"}
           \/ pc[c] = "asking" /\ pc'[c] \in {"presave", "forward"}
           \/ pc[c] = "presave" /\ pc'[c] = "forward"
           \/ pc[c] = "forward" /\ pc'[c] \in {"save", "log"}
           \/ pc[c] = "save" /\ pc'[c] = "log"
    <2>1. pc[c] \in Open
      BY DEF StatusAnswered, PreSaved, MinerAnswers, Saved, Logged, Open
    <2>. QED BY <1>2, <2>1 DEF Closes, Moves, Open
  <1>. QED BY <1>1, <1>3, <1>4, LeaveStage DEF Still

(* No step takes an open request back, and each of its own takes it on.          *)
THEOREM RequestsGoForward == Spec => RequestGoesForward
  <1>1. TInv /\ [Next]_vars =>
          \A c \in Client : pc[c] \in Open =>
            (ProxyStep(c) => Advances(c)) /\ (Advances(c) \/ Still(c))
    <2>. SUFFICES ASSUME TInv, [Next]_vars, NEW c \in Client, pc[c] \in Open
                  PROVE  (ProxyStep(c) => Advances(c)) /\ (Advances(c) \/ Still(c))
      OBVIOUS
    <2>1. ASSUME NEW d \in Client, ProxyStep(d)
          PROVE  Advances(d) /\ \A e \in Client \ {d} : Still(e)
      BY <2>1, PassAdvances, StageAdvances DEF ProxyStep, proxyVars
    <2>2. ASSUME NEW d \in Client, Fails(d), UNCHANGED proxyVars PROVE Advances(c) \/ Still(c)
      <3>1. /\ pass \in [Client -> Running \cup {"idle", "saved", "failed"}]
            /\ of \in [Client -> Row] /\ out \in [Client -> Output]
        BY DEF TInv, SaveInv, SaveTypeOK
      <3>2. CASE c = d
        <4>1. pass[c] \in Running /\ pass'[c] = "failed" /\ pc'[c] = pc[c]
          BY <2>2, <3>1, <3>2 DEF Fails, Pass, proxyVars
        <4>2. CallsLeft(c)' < CallsLeft(c)
          BY <4>1 DEF CallsLeft, Running
        <4>. QED BY <4>1, <4>2 DEF Advances
      <3>3. CASE c # d
        BY <2>2, <3>1, <3>3 DEF Fails, Pass, proxyVars, Still
      <3>. QED BY <3>2, <3>3
    <2>3. ASSUME Dies PROVE Advances(c)
      <3>1. pc'[c] = "idle"
        BY <2>3 DEF Dies, Closes
      <3>. QED BY <2>1, <3>1, LeaveStage DEF Open
    <2>4. ASSUME NEW d \in Client, NEW r \in Requests, Arrives(d, r) PROVE Still(c)
      BY <2>4 DEF Arrives, Still, saveVars, TInv, ProxyTypeOK
    <2>5. ASSUME NEW g \in Group, AddGroupScriptIds(g) \/ DeleteGroupScriptIds(g), UNCHANGED proxyVars
          PROVE  Still(c)
      BY <2>5 DEF AddGroupScriptIds, DeleteGroupScriptIds, Edits, proxyVars, Still
    <2>6. ASSUME NEW x \in Tx, LedgerMoves(x) PROVE Still(c)
      BY <2>6 DEF LedgerMoves, Still, saveVars
    <2>7. ASSUME UNCHANGED vars PROVE Still(c)
      BY <2>7 DEF vars, saveVars, proxyVars, Still
    <2>8. ProxyStep(c) => Advances(c)
      BY <2>1
    <2>9. ASSUME NEW d \in Client, ProxyStep(d) PROVE Advances(c) \/ Still(c)
      BY <2>1, <2>9
    <2>10. ASSUME Next PROVE Advances(c) \/ Still(c)
      <3>1. CASE Dies
        BY <2>3, <3>1
      <3>. QED
        BY <3>1, <2>2, <2>4, <2>5, <2>6, <2>9, <2>10, Zenon DEF Next
    <2>. QED BY <2>7, <2>8, <2>10
  <1>2. (\A c \in Client : pc[c] \in Open =>
            (ProxyStep(c) => Advances(c)) /\ (Advances(c) \/ Still(c)))
        => [\A c \in Client : pc[c] \in Open =>
              /\ ProxyStep(c) => Advances(c)
              /\ Advances(c) \/ UNCHANGED <<pc[c], pass[c], of[c], out[c]>>]_vars
    BY DEF Still
  <1>. QED BY <1>1, <1>2, TypesHold, PTL DEF Spec, RequestGoesForward
=============================================================================
