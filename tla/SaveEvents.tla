----------------------------- MODULE SaveEvents -----------------------------
(* What a pass of SaveTxs.run announces, and to whom.  A pass asks whether the  *)
(* transaction has a row in the channel, writes its rows (SaveTxs takes these   *)
(* writes apart), and then tells the listeners: those of every output's address *)
(* and scripthash, those of the output groups it is in, and those of the        *)
(* channel, as newtx or updatetx.  Other passes, and requests that change the   *)
(* groups, run between any two of its awaited calls.                            *)
(* Proxy makes these actions part of a specification.                           *)
EXTENDS Integers, Sequences

CONSTANTS
  Tx, Channel, Group, ScriptId,
  Client,      \* the connections whose requests may have a pass under way
  ScriptIds,   \* ScriptIds[x][i]: the address, if any, and scripthash of output i of x
  Lists,       \* bound: the lists of script ids that are added to groups or deleted
  UpdateLog    \* Config.enableUpdateLogging

ASSUME ScriptAssumption ==
  /\ ScriptIds \in [Tx -> Seq(SUBSET ScriptId)]
  /\ \A x \in Tx : ScriptIds[x] # <<>>
ASSUME ListAssumption == Lists \subseteq SUBSET ScriptId
ASSUME UpdateLogAssumption == UpdateLog \in BOOLEAN

VARIABLES
  meta,     \* table txmeta: <<transaction, channel>>
  stored,   \* the transactions all of whose rows a pass has written
  member,   \* table txoutgroup: <<group, script id>>
  pass,     \* where the pass of a client's request stands
  of,       \* the row <<transaction, channel>> it is about
  existed,  \* didExistBefore
  out,      \* the output whose groups it asks for
  told,     \* history: <<i, listener>>, whom it has told of which output
  since,    \* history: <<i, group>>, the groups output i has been in since it was stored
  newtx, updatetx,  \* history: the rows announced as new and as updated
  lost      \* history: the rows whose writer failed before it announced them

saveVars == <<meta, stored, member, pass, of, existed, out, told, since,
              newtx, updatetx, lost>>

Output  == UNION {1 .. Len(ScriptIds[x]) : x \in Tx}
Row     == Tx \X Channel
Running == {"exists", "meta", "rows", "getTx", "groups", "updatelog"}
AnyRow  == CHOOSE row \in Row : TRUE
(* Between the INSERT of the row and the announcement. *)
Owes(c) == pass[c] \in {"rows", "getTx", "groups"} /\ ~existed[c]
Unheard(C) == {of[c] : c \in {d \in C : Owes(d)}} \ newtx

SaveTypeOK ==
  /\ meta \subseteq Row /\ newtx \subseteq Row /\ updatetx \subseteq Row /\ lost \subseteq Row
  /\ stored \subseteq Tx
  /\ member \subseteq Group \X ScriptId
  /\ pass \in [Client -> Running \cup {"idle", "saved", "failed"}]
  /\ of \in [Client -> Row]
  /\ existed \in [Client -> BOOLEAN]
  /\ out \in [Client -> Output]
  /\ told \in [Client -> SUBSET (Output \X (ScriptId \cup Group))]
  /\ since \in [Client -> SUBSET (Output \X Group)]

SaveInit ==
  /\ meta = {} /\ stored = {} /\ member = {} /\ newtx = {} /\ updatetx = {} /\ lost = {}
  /\ pass = [c \in Client |-> "idle"]
  /\ of = [c \in Client |-> AnyRow]
  /\ existed = [c \in Client |-> FALSE]
  /\ out = [c \in Client |-> 1]
  /\ told = [c \in Client |-> {}]
  /\ since = [c \in Client |-> {}]

-----------------------------------------------------------------------------
(* getTxoutgroupNamesByScriptIds: the groups that have any of the output's ids. *)
Groups_All(x, i) ==     \* mutation: ALL for ANY
  {g \in Group : \A id \in ScriptIds[x][i] : <<g, id>> \in member}
Groups(x, i) == {g \in Group : \E id \in ScriptIds[x][i] : <<g, id>> \in member}

(* One statement each, with a list of script ids; ON CONFLICT DO NOTHING.        *)
Has(table, x, i, g) == \E id \in ScriptIds[x][i] : <<g, id>> \in table
Edits(table) ==
  /\ member' = table
  /\ since' = [c \in Client |-> {p \in since[c] : Has(table, of[c][1], p[1], p[2])}]
  /\ UNCHANGED <<meta, stored, pass, of, existed, out, told, newtx, updatetx, lost>>
AddGroupScriptIds(g) ==
  \E ids \in Lists : ~({g} \X ids \subseteq member) /\ Edits(member \cup ({g} \X ids))
DeleteGroupScriptIds(g) ==
  \E ids \in Lists : {g} \X ids \cap member # {} /\ Edits(member \ ({g} \X ids))

-----------------------------------------------------------------------------
(* The locals of a pass come and go with it.                                    *)
Pass(c, at, row) ==
  /\ pass' = [pass EXCEPT ![c] = at]
  /\ of' = [of EXCEPT ![c] = row]
  /\ existed' = [existed EXCEPT ![c] = FALSE]
  /\ out' = [out EXCEPT ![c] = 1]
  /\ told' = [told EXCEPT ![c] = {}]
  /\ since' = [since EXCEPT ![c] = {}]
  /\ UNCHANGED <<meta, stored, member, newtx, updatetx>>
Begins(c, row) == Pass(c, "exists", row) /\ UNCHANGED lost
Ends(c) ==
  /\ pass[c] \in {"saved", "failed"}
  /\ Pass(c, "idle", AnyRow) /\ UNCHANGED lost

(* Whatever throws ends the pass; what it wrote and told stays.                 *)
Fails(c) ==
  /\ pass[c] \in Running
  /\ lost' = lost \cup Unheard({c})
  /\ Pass(c, "failed", AnyRow)

DidExist_AnyChannel(row) == \E ch \in Channel : <<row[1], ch>> \in meta  \* mutation
DidExist(row) == row \in meta
IsTxMetaExist(c) ==
  /\ pass[c] = "exists"
  /\ pass' = [pass EXCEPT ![c] = "meta"]
  /\ existed' = [existed EXCEPT ![c] = DidExist(of[c])]
  /\ UNCHANGED <<meta, stored, member, of, out, told, since, newtx, updatetx, lost>>

SaveTxmeta(c) ==
  /\ pass[c] = "meta"
  /\ pass' = [pass EXCEPT ![c] = "rows"]
  /\ meta' = meta \cup {of[c]}
  /\ UNCHANGED <<stored, member, of, existed, out, told, since, newtx, updatetx, lost>>

(* The outputs, the spend index and txsync; enqTxStatus is in SyncQueue. *)
SaveRows(c) ==
  LET x == of[c][1] IN
  /\ pass[c] = "rows"
  /\ pass' = [pass EXCEPT ![c] = "getTx"]
  /\ stored' = stored \cup {x}
  /\ since' = [since EXCEPT ![c] = {p \in (1 .. Len(ScriptIds[x])) \X Group : Has(member, x, p[1], p[2])}]
  /\ UNCHANGED <<meta, member, of, existed, out, told, newtx, updatetx, lost>>

(* The event of an output is pushed to its address and scripthash at once, and  *)
(* then its groups are asked for.                                               *)
TellsScripts(c, i) == {i} \X ScriptIds[of[c][1]][i]
GetTx(c) ==
  /\ pass[c] = "getTx"
  /\ pass' = [pass EXCEPT ![c] = "groups"]
  /\ told' = [told EXCEPT ![c] = TellsScripts(c, 1)]
  /\ UNCHANGED <<meta, stored, member, of, existed, out, since, newtx, updatetx, lost>>

(* The groups of one output are here; the next output follows, or the channel.  *)
IsLastOutput(c) == out[c] = Len(ScriptIds[of[c][1]])
TellsGroups(c)  == {out[c]} \X Groups(of[c][1], out[c])
TellGroups(c) ==
  /\ pass[c] = "groups"
  /\ ~IsLastOutput(c)
  /\ out' = [out EXCEPT ![c] = @ + 1]
  /\ told' = [told EXCEPT ![c] = @ \cup TellsGroups(c) \cup TellsScripts(c, out[c] + 1)]
  /\ UNCHANGED <<meta, stored, member, pass, of, existed, since, newtx, updatetx, lost>>

Announce(c) ==
  /\ pass[c] = "groups"
  /\ IsLastOutput(c)
  /\ told' = [told EXCEPT ![c] = @ \cup TellsGroups(c)]
  /\ newtx' = IF existed[c] THEN newtx ELSE newtx \cup {of[c]}
  /\ updatetx' = IF existed[c] THEN updatetx \cup {of[c]} ELSE updatetx
  /\ pass' = [pass EXCEPT ![c] = IF UpdateLog THEN "updatelog" ELSE "saved"]
  /\ UNCHANGED <<meta, stored, member, of, existed, out, since, lost>>

(* The row of updatelog, and the event about it. *)
SaveUpdatelog(c) ==
  /\ pass[c] = "updatelog"
  /\ pass' = [pass EXCEPT ![c] = "saved"]
  /\ UNCHANGED <<meta, stored, member, of, existed, out, told, since, newtx, updatetx, lost>>

PassStep(c) ==
  \/ IsTxMetaExist(c) \/ SaveTxmeta(c) \/ SaveRows(c) \/ GetTx(c)
  \/ TellGroups(c) \/ Announce(c) \/ SaveUpdatelog(c)

(* The process exits: all passes end.                                           *)
PassesDie ==
  /\ pass' = [c \in Client |-> "idle"]
  /\ of' = [c \in Client |-> AnyRow]
  /\ existed' = [c \in Client |-> FALSE]
  /\ out' = [c \in Client |-> 1]
  /\ told' = [c \in Client |-> {}]
  /\ since' = [c \in Client |-> {}]
  /\ lost' = lost \cup Unheard(Client)
  /\ UNCHANGED <<meta, stored, member, newtx, updatetx>>

-----------------------------------------------------------------------------
(* Every new row of a channel is announced as new, although two passes about one *)
(* transaction read didExistBefore before either has written: while a row is not *)
(* announced, a pass that will do so is under way, unless such a pass failed.    *)
NewIsAnnounced ==
  \A row \in meta \ (newtx \cup lost) : \E c \in Client : of[c] = row /\ Owes(c)

(* A group hears of every output that it has had an id of since the output was   *)
(* stored, whatever other ids and groups are edited meanwhile; and a listener    *)
(* that hears of an output finds it stored.                                      *)
Announced(c) == pass[c] \in {"updatelog", "saved"}
GroupsHear ==
  \A c \in Client :
    /\ Announced(c) => since[c] \subseteq told[c]
    /\ told[c] # {} => of[c][1] \in stored
=============================================================================
