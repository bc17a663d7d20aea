------------------------------- MODULE Proxy -------------------------------
(* The Merchant API proxy: a client talks to a miner through TXQ, and what the   *)
(* miner accepts is kept.  A push that asks for it (checkstatus) is held up until *)
(* the miners have said what they know of the transaction: one they know, meant  *)
(* to be one in a block, is saved whatever becomes of the push, which the miner  *)
(* refuses for missing inputs.  The answer of the miner is held back until TXQ   *)
(* has saved and logged what it has to.                                          *)
(* The requests of several clients, about the same transaction, interleave; any  *)
(* of their awaited calls may fail, and the process may exit between two.        *)
EXTENDS SaveEvents

CONSTANTS
  Requests,   \* what a client may ask for
  Logging     \* Config.merchantapi.enableResponseLogging

(* asked: a header or the query has checkstatus=true.  route: by /mapi, or by    *)
(* /merchantapi/<miner>, where the path the router sees begins with /mapi.       *)
(* parses: the body has a rawtx that bsv can parse (without one the check makes  *)
(* an empty transaction, which no miner knows).  row: the transaction and the    *)
(* channel header; without meaning for a fee quote.                              *)
Request == [event : {"push", "status", "feeQuote", "other"}, row : Row, parses : BOOLEAN,
            asked : BOOLEAN, route : {"mapi", "merchantapi"}]

ASSUME RequestAssumption == Requests \subseteq Request /\ Requests # {}
ASSUME ProxyLoggingAssumption == Logging \in BOOLEAN

VARIABLES
  ledger,   \* the outside world: what the miners know of a transaction
  taken,    \* history: the pushes a miner accepted, by transaction and channel
  pc,       \* where the request of a client stands
  req,      \* the request
  settled,  \* the miners knew its transaction, and it was saved, before the push
  accepted  \* the miner has accepted its push

proxyVars == <<ledger, taken, pc, req, settled, accepted>>
vars      == <<saveVars, proxyVars>>

(* What the miners know of a transaction only grows; that one may drop it again  *)
(* shows in its answers, which may deny or refuse it at any time.                *)
(* A miner accepts a push (or knows the transaction already), refuses it, or     *)
(* answers something else: JSON without a payload, no JSON, an HTTP error, or    *)
(* nothing before the connection breaks.                                         *)
Odd     == {"bare", "junk", "httpError", "unreachable"}
Answer  == {"success", "known", "refused"} \cup Odd
PushAnswers(x) == {"refused"} \cup Odd \cup (IF ledger[x] = "mined" THEN {"known"} ELSE {"success"})
                               \cup (IF ledger[x] = "mempool" THEN {"known"} ELSE {})
StatusAnswers(x) == {"none", "missing"} \cup (IF ledger[x] = "unseen" THEN {} ELSE {"unconfirmed"})
                                        \cup (IF ledger[x] = "mined" THEN {"confirmed"} ELSE {})

Open == {"asking", "presave", "forward", "save", "log"}
AnyRequest == CHOOSE r \in Requests : TRUE
X(c) == req[c].row[1]
IsPush(c) == req[c].event = "push"

(* A request that saves has a pass under way, about its own row; nobody else has. *)
PlaceOK(c) ==
  IF pc[c] \in {"presave", "save"} THEN pass[c] # "idle" /\ (pass[c] # "failed" => of[c] = req[c].row)
                                  ELSE pass[c] = "idle"

TypeOK ==
  /\ SaveTypeOK
  /\ ledger \in [Tx -> {"unseen", "mempool", "mined"}]
  /\ taken \subseteq Row
  /\ pc \in [Client -> Open \cup {"idle", "answered"}]
  /\ req \in [Client -> Requests]
  /\ settled \in [Client -> BOOLEAN]
  /\ accepted \in [Client -> BOOLEAN]
  /\ \A c \in Client : PlaceOK(c)

Init ==
  /\ SaveInit
  /\ ledger = [x \in Tx |-> "unseen"]
  /\ taken = {}
  /\ pc = [c \in Client |-> "idle"]
  /\ req = [c \in Client |-> AnyRequest]
  /\ settled = [c \in Client |-> FALSE]
  /\ accepted = [c \in Client |-> FALSE]

Moves(c, to) == /\ pc' = [pc EXCEPT ![c] = to]
                /\ UNCHANGED req

(* The client gets an answer, or an error, or nothing: the request is over. *)
Closes(C, how) ==
  /\ pc' = [c \in Client |-> IF c \in C THEN how ELSE pc[c]]
  /\ req' = [c \in Client |-> IF c \in C THEN AnyRequest ELSE req[c]]
  /\ settled' = [c \in Client |-> c \notin C /\ settled[c]]
  /\ accepted' = [c \in Client |-> c \notin C /\ accepted[c]]
-----------------------------------------------------------------------------
(* proxyReqPathResolver.  The path test knows the form of /mapi requests only.   *)
HoldsUp(r) == r.event = "push" /\ r.asked /\ r.route = "mapi" /\ r.parses
Arrives(c, r) ==
  /\ pc[c] \notin Open
  /\ pc' = [pc EXCEPT ![c] = IF HoldsUp(r) THEN "asking" ELSE "forward"]
  /\ req' = [req EXCEPT ![c] = r]
  /\ UNCHANGED <<saveVars, ledger, taken, settled, accepted>>

(* processTransactionStatus: MerchantRequestor settles, with an answer or        *)
(* without.  Any valid success with numbers that are not negative is a reason to *)
(* save, also the one for a transaction without a block: block height 0, no      *)
(* confirmations.                                                                *)
IsAcceptedStatus_Any(a) == a # "none"   \* mutation: returnResult is not looked at
IsAcceptedStatus(a) == a \in {"confirmed", "unconfirmed"}
StatusAnswered(c) ==
  /\ pc[c] = "asking"
  /\ \E a \in StatusAnswers(X(c)) :
       IF IsAcceptedStatus(a)
         THEN Moves(c, "presave") /\ Begins(c, req[c].row)
         ELSE Moves(c, "forward") /\ UNCHANGED saveVars
  /\ UNCHANGED <<ledger, taken, settled, accepted>>

(* The request goes on to the miner whether or not its transaction was saved.    *)
HeldUp_OnlySaved(c) == pass[c] = "saved"   \* mutation: the exception is not caught
HeldUp(c) == pass[c] \in {"saved", "failed"}
PreSaved_NotAwaited(c) ==          \* mutation: the save is started and left alone
  /\ pc[c] = "presave"
  /\ Moves(c, "forward")
  /\ UNCHANGED <<saveVars, ledger, taken, settled, accepted>>
PreSaved(c) ==
  /\ pc[c] = "presave"
  /\ HeldUp(c)
  /\ Moves(c, "forward")
  /\ settled' = [settled EXCEPT ![c] = pass[c] = "saved"]
  /\ Ends(c)
  /\ UNCHANGED <<ledger, taken, accepted>>

-----------------------------------------------------------------------------
(* userResDecorator: a 2xx answer is parsed, and the transaction of an accepted  *)
(* push is saved; any other answer is only logged.  An exception on the way, as  *)
(* for a push whose bytes do not parse, is what the client gets instead of the   *)
(* answer.                                                                       *)
IsAcceptedPush_Success(a) == a = "success"       \* mutation: "already known" is a refusal
IsAcceptedPush(a) == a \in {"success", "known"}
Throws(c, a) == \/ a \in {"unreachable", "junk"}
                \/ a # "httpError" /\ IsPush(c) /\ ~req[c].parses
                \/ a = "bare" /\ Logging
(* merchantapilog is written before the client gets the miner's answer.          *)
Commits(c, a) == IsPush(c) /\ a \in {"success", "known"}
Replies(c, ok) == IF Logging THEN /\ Moves(c, "log")
                                  /\ accepted' = [accepted EXCEPT ![c] = ok]
                                  /\ UNCHANGED settled
                             ELSE Closes({c}, "answered")

MinerAnswers(c) ==
  /\ pc[c] = "forward"
  /\ \E a \in IF IsPush(c) THEN PushAnswers(X(c)) ELSE {"success"} \cup Odd :
       /\ IF Commits(c, a)
            THEN /\ taken' = taken \cup {req[c].row}
                 /\ ledger' = [ledger EXCEPT ![X(c)] = IF @ = "unseen" THEN "mempool" ELSE @]
            ELSE UNCHANGED <<taken, ledger>>
       /\ \/ /\ Throws(c, a)
             /\ Closes({c}, "idle")
             /\ UNCHANGED saveVars
          \/ /\ ~Throws(c, a) /\ IsPush(c) /\ IsAcceptedPush(a)
             /\ Moves(c, "save")
             /\ accepted' = [accepted EXCEPT ![c] = Commits(c, a)]
             /\ Begins(c, req[c].row)
             /\ UNCHANGED settled
          \/ /\ ~Throws(c, a) /\ ~(IsPush(c) /\ IsAcceptedPush(a))
             /\ Replies(c, Commits(c, a))
             /\ UNCHANGED saveVars

Saved(c) ==
  /\ pc[c] = "save"
  /\ Ends(c)
  /\ IF pass[c] = "saved" THEN Replies(c, accepted[c]) ELSE Closes({c}, "idle")
  /\ UNCHANGED <<ledger, taken>>

Logged(c) ==
  /\ pc[c] = "log"
  /\ \E how \in {"answered", "idle"} : Closes({c}, how)
  /\ UNCHANGED <<saveVars, ledger, taken>>

ProxyStep(c) ==
  \/ StatusAnswered(c) \/ PreSaved(c) \/ MinerAnswers(c) \/ Saved(c) \/ Logged(c)
  \/ PassStep(c) /\ UNCHANGED proxyVars

(* The process exits: whoever waits for an answer gets none.                     *)
Dies ==
  /\ Closes({c \in Client : pc[c] \in Open}, "idle")
  /\ PassesDie
  /\ UNCHANGED <<ledger, taken>>

(* Somebody else broadcasts the transaction; a block takes it. *)
LedgerMoves(x) ==
  /\ ledger[x] # "mined"
  /\ ledger' = [ledger EXCEPT ![x] = IF @ = "unseen" THEN "mempool" ELSE "mined"]
  /\ UNCHANGED <<saveVars, taken, pc, req, settled, accepted>>

Next ==
  \/ \E c \in Client : \/ \E r \in Requests : Arrives(c, r)
                       \/ ProxyStep(c)
                       \/ Fails(c) /\ UNCHANGED proxyVars
  \/ \E g \in Group : (AddGroupScriptIds(g) \/ DeleteGroupScriptIds(g)) /\ UNCHANGED proxyVars
  \/ \E x \in Tx : LedgerMoves(x)
  \/ Dies

Spec == Init /\ [][Next]_vars

-----------------------------------------------------------------------------
(* What a client was told is kept: when it has got the answer of a miner that    *)
(* accepts its push, or when the miners were found to know the transaction,      *)
(* whatever the miner then said of it, all rows of the transaction are stored    *)
(* and its channel has heard of it.                                              *)
CommittedIsKept ==
  [][\A c \in Client :
       pc[c] \in Open /\ pc'[c] = "answered" /\ IsPush(c)
         /\ (accepted[c] \/ settled[c]) =>
       X(c) \in stored' /\ req[c].row \in newtx' \cup updatetx']_vars

(* The proxy does not fill the database with whatever it is sent: what it has    *)
(* begun to save, in a channel, is either what a miner accepted in answer to a   *)
(* push in that channel, or what the miners knew and a push there asked to have  *)
(* checked (IsAcceptedStatus before the push, IsAcceptedPush after it).          *)
Known(x) == ledger[x] # "unseen"
SavedIsVouched ==
  \A row \in meta :
    row \in taken \/ (Known(row[1]) /\ \E r \in Requests : HoldsUp(r) /\ r.row = row)

(* No request is held up for ever: not when its bytes do not parse, when the     *)
(* miners' status is an error, or when a save before or after the push fails.    *)
(* There is always a call under way that leads on.                               *)
RequestMovesOn == \A c \in Client : pc[c] \in Open => ENABLED ProxyStep(c)

(* And a request only goes forward: every step of its own takes it to a later    *)
(* stage, or its pass to a later call, or to the next output, and nobody else's  *)
(* step takes it back.  So it ends if the calls settle.                          *)
StagesLeft(c) ==
  CASE pc[c] = "asking" -> 5 [] pc[c] = "presave" -> 4 [] pc[c] = "forward" -> 3
    [] pc[c] = "save" -> 2   [] pc[c] = "log" -> 1     [] OTHER -> 0
CallsLeft(c) ==
  CASE pass[c] = "exists" -> 6 [] pass[c] = "meta" -> 5   [] pass[c] = "rows" -> 4
    [] pass[c] = "getTx" -> 3  [] pass[c] = "groups" -> 2 [] pass[c] = "updatelog" -> 1
    [] OTHER -> 0
Advances(c) ==
  \/ StagesLeft(c)' < StagesLeft(c)
  \/ pc'[c] = pc[c] /\ CallsLeft(c)' < CallsLeft(c)
  \/ /\ UNCHANGED <<pc[c], pass[c], of[c]>>
     /\ out'[c] = out[c] + 1 /\ out[c] < Len(ScriptIds[of[c][1]])
RequestGoesForward ==
  [][\A c \in Client : pc[c] \in Open =>
       /\ ProxyStep(c) => Advances(c)
       /\ Advances(c) \/ UNCHANGED <<pc[c], pass[c], of[c], out[c]>>]_vars

(* The comment in ProxyAndSaveRequestIfCheckStatus.ts:110-112: a transaction is   *)
(* saved before its push if and only if it was confirmed, since the database     *)
(* could otherwise be polluted with unconfirmed ones.  Here only the half that   *)
(* forbids: what is saved was accepted by a miner, in answer to a push, or is in *)
(* a block.                                                                      *)
SavedIsCommitted == \A row \in meta : row \in taken \/ ledger[row[1]] = "mined"
=============================================================================
