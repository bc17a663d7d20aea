----------------------------- MODULE EventStream -----------------------------
(* Server-sent events of TXQ: EventService keeps, per channel, a buffer of      *)
(* recent events and the handlers of the HTTP connections that listen.  Clients *)
(* are EventSource objects of browsers: one connection at a time, always to the *)
(* same channel, reconnecting with the last event id they have seen.            *)
(*                                                                              *)
(* All of it is memory of the one process.                                      *)
EXTENDS Integers, Sequences

CONSTANTS
  Channel,
  Explicit,        \* the channels whose events carry ids of a database table
  Client,
  Subscribes,      \* the channel each client listens to
  CheckLimit,      \* a buffer longer than this ... (15000 in the code)
  TruncateMax,     \* ... loses this many of its oldest events (10000)
  Ids,             \* bound: the ids a database table gives
  MaxEvents,       \* bound: events pushed while a channel's data lives
  MaxConns         \* bound: connections of a client

ASSUME ChannelAssumption ==
  /\ Explicit \subseteq Channel
  /\ Subscribes \in [Client -> Channel]
  /\ Ids \subseteq Nat \ {0}
ASSUME TruncateAssumption ==
  /\ CheckLimit \in Nat
  /\ TruncateMax \in 1 .. CheckLimit
ASSUME EventBoundAssumption ==
  /\ MaxEvents \in Nat
  /\ MaxConns \in Nat

VARIABLES
  chan,      \* channelMapEvents: the data of each channel
  joining,   \* handlers that wait to be added by handleSSEChannelEvents
  client     \* the other side: what each EventSource has got

vars == <<chan, joining, client>>

(* An event is its id and its number among the events of this channel data; the *)
(* number is for the properties only, as are pushed, since and got.             *)
Event   == [id : Nat, number : Nat]
Handler == [client : Client, conn : Nat]
ChannelData == [live : BOOLEAN, old : BOOLEAN, largestId : Nat, pushed : Nat,
                events : Seq(Event), sseHandlers : SUBSET [of : Handler, old : BOOLEAN]]
Absent  == [live |-> FALSE, old |-> FALSE, largestId |-> 0, pushed |-> 0,
            events |-> <<>>, sseHandlers |-> {}]

TypeOK ==
  /\ chan \in [Channel -> ChannelData]
  /\ joining \subseteq Handler
  /\ client \in [Client -> [open : BOOLEAN, conn : 0 .. MaxConns, lastId : Nat \cup {-1},
                            since : Nat, got : Seq(Nat)]]

Init ==
  /\ chan = [c \in Channel |-> Absent]
  /\ joining = {}
  /\ client = [x \in Client |-> [open |-> FALSE, conn |-> 0, lastId |-> 0, since |-> 0,
                                 got |-> <<>>]]

(* The routes under /sse name a channel by their path. *)
ChannelOf(x) == Subscribes[x]

(* initChannel, getChannelData: the data is created when it is first asked for. *)
Data(c) == [chan[c] EXCEPT !.live = TRUE]

HandlersOf(c)    == {h.of : h \in chan[c].sseHandlers}
Connection(x)    == [client |-> x, conn |-> client[x].conn]
(* An event reaches a client by the handler of the connection that is open: the *)
(* listeners of a closed one are removed, its handler stays.                    *)
Registered(x)    == client[x].open /\ Connection(x) \in HandlersOf(ChannelOf(x))

-----------------------------------------------------------------------------
(* removeOldChannelEvents. *)
Recent_KeepsOld(events) ==    \* mutation: slice(0, max)
  IF Len(events) > CheckLimit THEN SubSeq(events, 1, TruncateMax) ELSE events
Recent(events) ==
  IF Len(events) > CheckLimit THEN SubSeq(events, TruncateMax + 1, Len(events)) ELSE events

(* An id of the database may be one that was pushed before (an update of a row  *)
(* has the row's id), and two requests may push theirs in either order.         *)
NextIds_Buffer(c) == IF c \in Explicit THEN Ids ELSE {Len(chan[c].events) + 1}   \* mutation
NextIds_Default(c) == IF c \in Explicit THEN Ids ELSE {-1}   \* mutation: no id is left at -1
NextIds(c)        == IF c \in Explicit THEN Ids ELSE {chan[c].largestId + 1}

Largest(a, b) == IF a > b THEN a ELSE b

(* pushChannelEvent: buffer, then every handler, then truncation, all at once.  *)
Hears_Fresh(x, c) ==   \* mutation: expired handlers are skipped before they are swept
  ChannelOf(x) = c /\ client[x].open /\ [of |-> Connection(x), old |-> FALSE] \in chan[c].sseHandlers
Hears(x, c) == ChannelOf(x) = c /\ Registered(x)
Push(c) ==
  /\ chan[c].pushed < MaxEvents
  /\ \E id \in NextIds(c) :
       LET event == [id |-> id, number |-> chan[c].pushed + 1] IN
       /\ chan' = [chan EXCEPT ![c] =
            [Data(c) EXCEPT !.largestId = Largest(chan[c].largestId, id),
                            !.pushed = event.number,
                            !.events = Recent(Append(chan[c].events, event))]]
       /\ client' = [x \in Client |->
            IF Hears(x, c)
              THEN [client[x] EXCEPT !.lastId = id, !.got = Append(client[x].got, event.number)]
              ELSE client[x]]
  /\ UNCHANGED joining

Away(x) == [client[x] EXCEPT !.open = FALSE, !.since = 0, !.got = <<>>]

(* The process exits and is started again; the clients notice and come back.    *)
Dies ==
  /\ chan' = [c \in Channel |-> Absent]
  /\ joining' = {}
  /\ client' = [x \in Client |-> Away(x)]

(* getChannelMissedMessages reads channelData[i] where channelData.events[i] is *)
(* meant: with an event in the buffer it throws, through init() and             *)
(* handleSSEChannelEvents, whose promise nobody awaits: the process exits.      *)
Replays(x) ==
  LET c == ChannelOf(x) IN
  /\ client[x].lastId # 0 /\ client[x].lastId <= chan[c].largestId
  /\ chan[c].events # <<>>

(* SSEHandler.init: the client is told "connected", an event with id -1.        *)
Connected(x) == [open |-> TRUE, conn |-> client[x].conn + 1, lastId |-> -1,
                 since |-> 0, got |-> <<>>]

(* handleSSEChannelEvents up to its await. *)
Connect(x) ==
  /\ ~client[x].open /\ client[x].conn < MaxConns
  /\ IF Replays(x) THEN Dies ELSE
       /\ chan' = [chan EXCEPT ![ChannelOf(x)] = Data(ChannelOf(x))]
       /\ client' = [client EXCEPT ![x] = Connected(x)]
       /\ joining' = joining \cup {[client |-> x, conn |-> Connected(x).conn]}

(* The rest of it: the handler is added, also that of a connection closed by now. *)
Joins(h) == client[h.client].open /\ h = Connection(h.client)
Register(h) ==
  LET c == ChannelOf(h.client) IN
  /\ h \in joining
  /\ joining' = joining \ {h}
  /\ chan' = [chan EXCEPT ![c] = [Data(c) EXCEPT
                !.sseHandlers = @ \cup {[of |-> h, old |-> FALSE]}]]
  /\ client' = [client EXCEPT ![h.client].since = IF Joins(h)
                                                  THEN chan[c].pushed ELSE @]

(* The client goes away, or the network does. *)
Close(x) ==
  /\ client[x].open
  /\ client' = [client EXCEPT ![x] = Away(x)]
  /\ UNCHANGED <<chan, joining>>

(* The process may exit for any other reason. *)
Crash == Dies

(* AGE_SECONDS pass: what exists now is old.  The time of a channel's data is   *)
(* that of its creation, however much it is used.                               *)
HourPasses ==
  /\ chan' = [c \in Channel |->
       [chan[c] EXCEPT !.old = chan[c].live,
                       !.sseHandlers = {[of |-> h, old |-> TRUE] : h \in HandlersOf(c)}]]
  /\ UNCHANGED <<joining, client>>

(* cleanExpiredFromMaps, every minute: old channels, then old handlers. *)
Swept_Unused(data) ==      \* mutation: a channel with handlers is left alone
  IF data.old /\ data.sseHandlers = {} THEN Absent ELSE data
Swept(data) ==
  IF data.old THEN Absent
              ELSE [data EXCEPT !.sseHandlers = {h \in data.sseHandlers : ~h.old}]
Sweep ==
  /\ chan' = [c \in Channel |-> Swept(chan[c])]
  /\ UNCHANGED <<joining, client>>

Next ==
  \/ HourPasses \/ Sweep \/ Crash
  \/ \E c \in Channel : Push(c)
  \/ \E x \in Client : Connect(x) \/ Close(x)
  \/ \E h \in joining : Register(h)

Spec == Init /\ [][Next]_vars

(* Time passes and the garbage collector's timer is armed again whatever        *)
(* happens in it.  Nothing is assumed of pushes or clients.                     *)
FairSpec == Spec /\ WF_vars(HourPasses) /\ WF_vars(Sweep)

-----------------------------------------------------------------------------
(* The buffer holds the latest events of the channel, all of them in a row, and *)
(* never fewer than truncation promises to keep: no event is lost from the      *)
(* middle or the wrong end.                                                     *)
BufferIsRecent ==
  \A c \in Channel :
    LET events == chan[c].events
        before == chan[c].pushed - Len(events) IN
    /\ \A k \in 1 .. Len(events) : events[k].number = before + k
    /\ Len(events) <= CheckLimit
    /\ before # 0 => Len(events) > CheckLimit - TruncateMax

(* While its handler is registered, a client that stays connected gets every    *)
(* event of its channel, once and in order, whatever other clients, the         *)
(* truncation and the garbage collector do.                                     *)
SubscriberMissesNothing ==
  \A x \in Client : Registered(x) =>
    LET c == ChannelOf(x) IN
    client[x].got = [k \in 1 .. chan[c].pushed - client[x].since |-> client[x].since + k]

(* Where TXQ numbers events itself, an event never takes the id of another one  *)
(* of the buffer, also after truncations: a client can name its last one.       *)
IdsAreDistinct ==
  \A c \in Channel \ Explicit : \A j, k \in 1 .. Len(chan[c].events) :
    j < k => chan[c].events[j].id < chan[c].events[k].id

(* The handler of a closed connection does not stay for ever.                   *)
ClosedIsCollected ==
  \A x \in Client : \A k \in 1 .. MaxConns :
    LET h == [client |-> x, conn |-> k] IN
    h \in HandlersOf(ChannelOf(x)) ~> h \notin HandlersOf(ChannelOf(x))

(* For the same end, step by step: a handler is young or old, and once old it    *)
(* is never young again, whoever is added meanwhile; and a pass of the garbage   *)
(* collector leaves no handler that was old.  So an hour and a pass after it     *)
(* suffice for any handler.                                                      *)
HandlersOnlyAge ==
  [][\A c \in Channel : \A h \in chan[c].sseHandlers : h.old =>
       /\ [of |-> h.of, old |-> FALSE] \notin chan'[c].sseHandlers
       /\ Sweep => h.of \notin HandlersOf(c)']_vars
=============================================================================
