-------------------------- MODULE EventStreamProofs --------------------------
(* Proofs about EventStream, for any channels, clients, limits and bounds.      *)
EXTENDS EventStream, SequenceTheorems, TLAPS

(* The buffer of one channel: its events are the last ones, in a row; where TXQ *)
(* gives the ids, they grow, and the largest is known.                          *)
Kept(events, pushed) ==
  /\ \A k \in 1 .. Len(events) : events[k].number = (pushed - Len(events)) + k
  /\ Len(events) <= CheckLimit
  /\ pushed # Len(events) => Len(events) > CheckLimit - TruncateMax
Growing(events, largestId) ==
  /\ \A k \in 1 .. Len(events) : events[k].id <= largestId
  /\ \A j, k \in 1 .. Len(events) : j < k => events[j].id < events[k].id
Buffered(c) ==
  /\ Kept(chan[c].events, chan[c].pushed)
  /\ c \notin Explicit => Growing(chan[c].events, chan[c].largestId)

(* Truncation takes d events from the old end, and only from a full buffer.     *)
LEMMA RecentShape ==
  ASSUME NEW s \in Seq(Event), Len(s) <= CheckLimit + 1
  PROVE  /\ Recent(s) \in Seq(Event)
         /\ \E d \in Nat :
              /\ Len(Recent(s)) = Len(s) - d
              /\ Len(Recent(s)) <= CheckLimit
              /\ d # 0 => Len(Recent(s)) > CheckLimit - TruncateMax
              /\ \A k \in 1 .. Len(Recent(s)) : k + d \in 1 .. Len(s) /\ Recent(s)[k] = s[k + d]
<1> USE TruncateAssumption
<1>0. Len(s) \in Nat
  BY LenProperties
<1>1. CASE Len(s) > CheckLimit
  <2>1. Recent(s) = SubSeq(s, TruncateMax + 1, Len(s))
    BY <1>1 DEF Recent
  <2>2. \A k \in TruncateMax + 1 .. Len(s) : s[k] \in Event
    BY <1>0, ElementOfSeq
  <2>3. /\ Recent(s) \in Seq(Event)
        /\ Len(Recent(s)) = Len(s) - TruncateMax
        /\ \A k \in 1 .. Len(s) - TruncateMax : Recent(s)[k] = s[k + TruncateMax]
    BY <1>0, <1>1, <2>1, <2>2, SubSeqProperties
  <2>4. \A k \in 1 .. Len(s) - TruncateMax : k + TruncateMax \in 1 .. Len(s)
    BY <1>0
  <2>5. Len(Recent(s)) <= CheckLimit /\ Len(Recent(s)) > CheckLimit - TruncateMax
    BY <1>0, <1>1, <2>3
  <2>6. TruncateMax \in Nat
    OBVIOUS
  <2>7. \A k \in 1 .. Len(Recent(s)) : /\ k + TruncateMax \in 1 .. Len(s)
                                       /\ Recent(s)[k] = s[k + TruncateMax]
    BY <2>3, <2>4
  <2> QED
    BY <2>3, <2>5, <2>6, <2>7
<1>2. CASE ~(Len(s) > CheckLimit)
  <2>1. Recent(s) = s
    BY <1>2 DEF Recent
  <2> QED
    BY <1>0, <1>2, <2>1
<1> QED
  BY <1>1, <1>2

(* What a push does to the buffer. *)
LEMMA BufferPush ==
  ASSUME NEW old \in Seq(Event), NEW pushed \in Nat, NEW event \in Event,
         event.number = pushed + 1, Kept(old, pushed)
  PROVE  /\ Recent(Append(old, event)) \in Seq(Event)
         /\ Kept(Recent(Append(old, event)), pushed + 1)
         /\ \A largestId \in Nat :
              Growing(old, largestId) /\ event.id = largestId + 1 =>
                Growing(Recent(Append(old, event)), largestId + 1)
<1>1. PICK s : s = Append(old, event)
  OBVIOUS
<1>2. Len(old) \in Nat
  BY LenProperties
<1>3. /\ s \in Seq(Event) /\ Len(s) = Len(old) + 1 /\ s[Len(s)] = event
      /\ \A k \in 1 .. Len(old) : s[k] = old[k]
  BY <1>1, <1>2, AppendProperties
<1>4. \A k \in 1 .. Len(s) : k = Len(s) \/ k \in 1 .. Len(old)
  BY <1>2, <1>3
<1>5. Len(s) <= CheckLimit + 1
  BY <1>2, <1>3, TruncateAssumption DEF Kept
<1>6. PICK r : r = Recent(s)
  OBVIOUS
<1>7. r \in Seq(Event)
  BY <1>3, <1>5, <1>6, RecentShape
<1>8. PICK d \in Nat :
        /\ Len(r) = Len(s) - d
        /\ Len(r) <= CheckLimit
        /\ d # 0 => Len(r) > CheckLimit - TruncateMax
        /\ \A k \in 1 .. Len(r) : k + d \in 1 .. Len(s) /\ r[k] = s[k + d]
  BY <1>3, <1>5, <1>6, RecentShape
<1>9. Len(r) \in Nat
  BY <1>7, LenProperties
<1>10. \A k \in 1 .. Len(s) : s[k].number = (pushed - Len(old)) + k
  <2>1. \A k \in 1 .. Len(old) : s[k].number = (pushed - Len(old)) + k
    BY <1>3 DEF Kept
  <2>2. s[Len(s)].number = (pushed - Len(old)) + Len(s)
    BY <1>2, <1>3
  <2> QED
    BY <1>4, <2>1, <2>2
<1>11. Kept(r, pushed + 1)
  <2>1. ASSUME NEW k \in 1 .. Len(r) PROVE r[k].number = ((pushed + 1) - Len(r)) + k
    <3>1. k + d \in 1 .. Len(s) /\ r[k] = s[k + d]
      BY <1>8
    <3>2. r[k].number = (pushed - Len(old)) + (k + d)
      BY <1>10, <3>1
    <3> QED
      BY <1>2, <1>3, <1>8, <3>2
  <2>2. pushed + 1 # Len(r) => Len(r) > CheckLimit - TruncateMax
    BY <1>2, <1>3, <1>8, TruncateAssumption DEF Kept
  <2> QED
    BY <1>8, <2>1, <2>2 DEF Kept
<1>12. ASSUME NEW largestId \in Nat, Growing(old, largestId), event.id = largestId + 1
       PROVE  Growing(r, largestId + 1)
  <2>1. \A k \in 1 .. Len(old) : s[k].id <= largestId /\ s[k].id \in Nat
    <3>1. \A k \in 1 .. Len(old) : old[k] \in Event
      BY ElementOfSeq
    <3> QED
      BY <1>3, <1>12, <3>1 DEF Growing, Event
  <2>2. s[Len(s)].id = largestId + 1
    BY <1>3, <1>12
  <2>3. \A k \in 1 .. Len(s) : s[k].id <= largestId + 1
    BY <1>4, <1>12, <2>1, <2>2
  <2>4. ASSUME NEW j \in 1 .. Len(s), NEW k \in 1 .. Len(s), j < k
        PROVE  s[j].id < s[k].id
    <3>1. j \in 1 .. Len(old)
      BY <1>2, <1>3, <2>4
    <3>2. CASE k = Len(s)
      BY <1>12, <2>1, <2>2, <3>1, <3>2
    <3>3. CASE k \in 1 .. Len(old)
      BY <1>3, <1>12, <2>4, <3>1, <3>3 DEF Growing
    <3> QED
      BY <1>4, <3>2, <3>3
  <2>5. ASSUME NEW j \in 1 .. Len(r), NEW k \in 1 .. Len(r), j < k
        PROVE  r[j].id < r[k].id
    <3>1. j + d \in 1 .. Len(s) /\ k + d \in 1 .. Len(s) /\ r[j] = s[j + d] /\ r[k] = s[k + d]
      BY <1>8
    <3>2. j + d < k + d
      BY <1>8, <2>5
    <3> QED
      BY <2>4, <3>1, <3>2
  <2>6. \A k \in 1 .. Len(r) : r[k].id <= largestId + 1
    BY <1>8, <2>3
  <2> QED
    BY <2>5, <2>6 DEF Growing
<1> QED
  BY <1>1, <1>6, <1>7, <1>11, <1>12

-----------------------------------------------------------------------------
(* Connections: handlers are those of connections up to the present one, and a  *)
(* connection that still waits to be added has no handler and got nothing.      *)
Conns ==
  /\ \A c \in Channel : \A h \in HandlersOf(c) : h.conn <= client[h.client].conn
  /\ \A h \in joining : /\ h.conn <= client[h.client].conn
                        /\ h \notin HandlersOf(ChannelOf(h.client))
                        /\ Joins(h) => client[h.client].got = <<>>

(* SubscriberMissesNothing, element by element. *)
Gets(x) ==
  /\ client[x].since <= chan[ChannelOf(x)].pushed
  /\ Len(client[x].got) = chan[ChannelOf(x)].pushed - client[x].since
  /\ \A k \in 1 .. Len(client[x].got) : client[x].got[k] = client[x].since + k

StreamInv ==
  /\ TypeOK
  /\ \A c \in Channel : Buffered(c)
  /\ Conns
  /\ \A x \in Client : Registered(x) => Gets(x)

LEMMA ChannelOfIn == ASSUME NEW x \in Client PROVE ChannelOf(x) \in Channel
BY ChannelAssumption DEF ChannelOf

LEMMA FieldTypes ==
  ASSUME TypeOK
  PROVE  /\ \A c \in Channel :
              /\ chan[c].live \in BOOLEAN /\ chan[c].old \in BOOLEAN
              /\ chan[c].largestId \in Nat /\ chan[c].pushed \in Nat
              /\ chan[c].events \in Seq(Event)
              /\ chan[c].sseHandlers \subseteq [of : Handler, old : BOOLEAN]
              /\ HandlersOf(c) \subseteq Handler
         /\ \A x \in Client :
              /\ client[x].open \in BOOLEAN /\ client[x].conn \in Nat /\ client[x].since \in Nat
              /\ client[x].lastId \in Nat \cup {-1} /\ client[x].got \in Seq(Nat)
              /\ client[x].conn <= MaxConns
         /\ \A h \in Handler : h.client \in Client /\ h.conn \in Nat
<1>1. ASSUME NEW c \in Channel
      PROVE  /\ chan[c].live \in BOOLEAN /\ chan[c].old \in BOOLEAN
             /\ chan[c].largestId \in Nat /\ chan[c].pushed \in Nat
             /\ chan[c].events \in Seq(Event)
             /\ chan[c].sseHandlers \subseteq [of : Handler, old : BOOLEAN]
             /\ HandlersOf(c) \subseteq Handler
  <2>1. chan[c] \in ChannelData
    BY DEF TypeOK
  <2>2. /\ chan[c].live \in BOOLEAN /\ chan[c].old \in BOOLEAN
        /\ chan[c].largestId \in Nat /\ chan[c].pushed \in Nat
        /\ chan[c].events \in Seq(Event)
        /\ chan[c].sseHandlers \subseteq [of : Handler, old : BOOLEAN]
    BY <2>1 DEF ChannelData
  <2> QED
    BY <2>2 DEF HandlersOf
<1>2. ASSUME NEW x \in Client
      PROVE  /\ client[x].open \in BOOLEAN /\ client[x].conn \in Nat /\ client[x].since \in Nat
             /\ client[x].lastId \in Nat \cup {-1} /\ client[x].got \in Seq(Nat)
             /\ client[x].conn <= MaxConns
  BY EventBoundAssumption DEF TypeOK
<1>3. \A h \in Handler : h.client \in Client /\ h.conn \in Nat
  BY DEF Handler
<1> QED
  BY <1>1, <1>2, <1>3

(* Asking for a channel's data makes it live. *)
LEMMA DataRecord ==
  ASSUME NEW E, NEW H,
         NEW data \in [live : BOOLEAN, old : BOOLEAN, largestId : Nat, pushed : Nat,
                       events : E, sseHandlers : H]
  PROVE  data = [live |-> data.live, old |-> data.old, largestId |-> data.largestId,
                 pushed |-> data.pushed, events |-> data.events,
                 sseHandlers |-> data.sseHandlers]
OBVIOUS

LEMMA LiveField ==
  ASSUME NEW r, NEW a, NEW b, NEW d, NEW e, NEW f, NEW g, NEW t,
         r = [live |-> a, old |-> b, largestId |-> d, pushed |-> e, events |-> f,
              sseHandlers |-> g]
  PROVE  [r EXCEPT !.live = t]
         = [live |-> t, old |-> b, largestId |-> d, pushed |-> e, events |-> f,
            sseHandlers |-> g]
OBVIOUS

LEMMA DataFields ==
  ASSUME NEW data \in ChannelData
  PROVE  [data EXCEPT !.live = TRUE]
         = [live |-> TRUE, old |-> data.old, largestId |-> data.largestId,
            pushed |-> data.pushed, events |-> data.events, sseHandlers |-> data.sseHandlers]
<1>1. data = [live |-> data.live, old |-> data.old, largestId |-> data.largestId,
              pushed |-> data.pushed, events |-> data.events, sseHandlers |-> data.sseHandlers]
  BY DataRecord DEF ChannelData
<1>2. PICK r, a, b, d, e, f, g, t :
        /\ r = data /\ a = data.live /\ b = data.old /\ d = data.largestId
        /\ e = data.pushed /\ f = data.events /\ g = data.sseHandlers /\ t = TRUE
  OBVIOUS
<1>3. r = [live |-> a, old |-> b, largestId |-> d, pushed |-> e, events |-> f,
           sseHandlers |-> g]
  BY <1>1, <1>2
<1>4. [r EXCEPT !.live = t] = [live |-> t, old |-> b, largestId |-> d, pushed |-> e,
                               events |-> f, sseHandlers |-> g]
  BY <1>3, LiveField
<1> QED
  BY <1>2, <1>4

(* The handlers of a channel when one more is added, and when all grow old. *)
LEMMA HandlersAdded ==
  ASSUME NEW S, NEW h
  PROVE  {g.of : g \in S \cup {[of |-> h, old |-> FALSE]}} = {g.of : g \in S} \cup {h}
<1>1. ASSUME NEW t \in {g.of : g \in S} \cup {h}
      PROVE  t \in {g.of : g \in S \cup {[of |-> h, old |-> FALSE]}}
  <2>1. [of |-> h, old |-> FALSE].of = h
    OBVIOUS
  <2> QED
    BY <2>1
<1>2. ASSUME NEW t \in {g.of : g \in S \cup {[of |-> h, old |-> FALSE]}}
      PROVE  t \in {g.of : g \in S} \cup {h}
  OBVIOUS
<1> QED
  BY <1>1, <1>2

LEMMA HandlersAged ==
  ASSUME NEW S, NEW T, S = {h.of : h \in {[of |-> h, old |-> TRUE] : h \in T}}
  PROVE  S = T
<1>1. ASSUME NEW t \in T PROVE t \in S
  <2>1. [of |-> t, old |-> TRUE].of = t
    OBVIOUS
  <2>2. [of |-> t, old |-> TRUE] \in {[of |-> h, old |-> TRUE] : h \in T}
    OBVIOUS
  <2> QED
    BY <2>1, <2>2
<1>2. ASSUME NEW t \in S PROVE t \in T
  <2>1. PICK r \in {[of |-> h, old |-> TRUE] : h \in T} : t = r.of
    OBVIOUS
  <2> QED
    BY <2>1
<1> QED
  BY <1>1, <1>2

LEMMA AbsentData ==
  /\ Absent \in ChannelData
  /\ Kept(Absent.events, Absent.pushed) /\ Growing(Absent.events, Absent.largestId)
  /\ Absent.sseHandlers = {}
<1>1. Absent.events = <<>> /\ Absent.pushed = 0 /\ Absent.sseHandlers = {} /\ Absent.largestId = 0
  BY DEF Absent
<1>2. <<>> \in Seq(Event) /\ Len(<<>>) = 0
  BY EmptySeq
<1>3. Absent \in ChannelData
  BY <1>2 DEF Absent, ChannelData
<1> QED
  BY <1>1, <1>2, <1>3, TruncateAssumption DEF Kept, Growing

LEMMA StreamInit == Init => StreamInv
<1> SUFFICES ASSUME Init PROVE StreamInv
  OBVIOUS
<1>1. \A c \in Channel : chan[c] = Absent
  BY DEF Init
<1>2. TypeOK
  <2>1. chan \in [Channel -> ChannelData]
    BY AbsentData DEF Init
  <2>2. <<>> \in Seq(Nat)
    BY EmptySeq
  <2>3. client \in [Client -> [open : BOOLEAN, conn : 0 .. MaxConns, lastId : Nat \cup {-1},
                               since : Nat, got : Seq(Nat)]]
    BY <2>2, EventBoundAssumption DEF Init
  <2> QED
    BY <2>1, <2>3 DEF TypeOK, Init
<1>3. \A c \in Channel : Buffered(c)
  BY <1>1, AbsentData DEF Buffered
<1>4. \A c \in Channel : HandlersOf(c) = {}
  BY <1>1, AbsentData DEF HandlersOf
<1>5. Conns
  BY <1>4 DEF Conns, Init
<1>6. \A x \in Client : ~Registered(x)
  BY DEF Init, Registered
<1> QED
  BY <1>2, <1>3, <1>5, <1>6 DEF StreamInv

(* A step that adds no handler, lets no client open and changes no connection's *)
(* count keeps what is known of connections.                                    *)
LEMMA ConnsKept ==
  ASSUME TypeOK, Conns, joining' \subseteq joining,
         \A c \in Channel : HandlersOf(c)' \subseteq HandlersOf(c),
         \A x \in Client : /\ client'[x].conn = client[x].conn
                           /\ client'[x].open => client[x].open
                           /\ client'[x].open /\ client[x].got = <<>> =>
                                client'[x].got = <<>> \/ Registered(x)
  PROVE  Conns'
<1>1. ASSUME NEW c \in Channel, NEW h \in HandlersOf(c)' PROVE h.conn <= client'[h.client].conn
  <2>1. h \in HandlersOf(c) /\ h.client \in Client
    BY FieldTypes
  <2> QED
    BY <2>1 DEF Conns
<1>2. ASSUME NEW h \in joining'
      PROVE  /\ h.conn <= client'[h.client].conn
             /\ h \notin HandlersOf(ChannelOf(h.client))'
             /\ Joins(h)' => client'[h.client].got = <<>>
  <2>1. h \in joining /\ h.client \in Client /\ ChannelOf(h.client) \in Channel
    BY FieldTypes, ChannelOfIn DEF TypeOK
  <2>2. h.conn <= client'[h.client].conn /\ h \notin HandlersOf(ChannelOf(h.client))'
    BY <2>1 DEF Conns, ChannelOf
  <2>3. ASSUME Joins(h)' PROVE client'[h.client].got = <<>>
    <3>1. Joins(h)
      BY <2>1, <2>3 DEF Joins, Connection
    <3>2. ~Registered(h.client)
      BY <2>1, <3>1 DEF Conns, Joins, Registered
    <3> QED
      BY <2>1, <2>3, <3>1, <3>2 DEF Conns, Joins
  <2> QED
    BY <2>2, <2>3
<1> QED
  BY <1>1, <1>2 DEF Conns, ChannelOf, HandlersOf

(* The process exits: nothing is left but the clients' counts. *)
LEMMA DiesKeeps == ASSUME StreamInv, Dies PROVE StreamInv'
<1> USE DEF StreamInv
<1>1. /\ \A c \in Channel : chan'[c] = Absent
      /\ joining' = {} /\ \A x \in Client : client'[x] = Away(x)
  BY DEF Dies
<1>2. \A x \in Client : Away(x) \in [open : BOOLEAN, conn : 0 .. MaxConns, lastId : Nat \cup {-1},
                                     since : Nat, got : Seq(Nat)] /\ Away(x).open = FALSE
  <2>1. <<>> \in Seq(Nat)
    BY EmptySeq
  <2> QED
    BY <2>1 DEF Away, TypeOK
<1>3. TypeOK'
  BY <1>1, <1>2, AbsentData DEF Dies, TypeOK
<1>4. \A c \in Channel : Buffered(c)'
  BY <1>1, AbsentData DEF Buffered
<1>5. \A c \in Channel : HandlersOf(c)' = {}
  BY <1>1, AbsentData DEF HandlersOf
<1>6. Conns'
  BY <1>1, <1>5 DEF Conns
<1>7. \A x \in Client : ~Registered(x)'
  BY <1>1, <1>2 DEF Registered
<1> QED
  BY <1>3, <1>4, <1>6, <1>7

(* pushChannelEvent *)
LEMMA PushKeeps == ASSUME StreamInv, NEW c \in Channel, Push(c) PROVE StreamInv'
<1> USE DEF StreamInv
<1>1. PICK id \in NextIds(c) :
        LET event == [id |-> id, number |-> chan[c].pushed + 1] IN
        /\ chan' = [chan EXCEPT ![c] =
             [Data(c) EXCEPT !.largestId = Largest(chan[c].largestId, id),
                             !.pushed = event.number,
                             !.events = Recent(Append(chan[c].events, event))]]
        /\ client' = [x \in Client |->
             IF Hears(x, c)
               THEN [client[x] EXCEPT !.lastId = id, !.got = Append(client[x].got, event.number)]
               ELSE client[x]]
  BY DEF Push
<1>2. PICK event : event = [id |-> id, number |-> chan[c].pushed + 1]
  OBVIOUS
<1>3. PICK buffer : buffer = Recent(Append(chan[c].events, event))
  OBVIOUS
<1>4. /\ chan[c].pushed \in Nat /\ chan[c].largestId \in Nat /\ chan[c].events \in Seq(Event)
      /\ chan[c] \in ChannelData
  BY FieldTypes DEF TypeOK
<1>5. id \in Nat /\ (c \notin Explicit => id = chan[c].largestId + 1)
  BY <1>4, ChannelAssumption DEF NextIds
<1>6. event \in Event /\ event.id = id /\ event.number = chan[c].pushed + 1
  BY <1>2, <1>4, <1>5 DEF Event
<1>7. /\ buffer \in Seq(Event) /\ Kept(buffer, chan[c].pushed + 1)
      /\ c \notin Explicit => Growing(buffer, chan[c].largestId + 1)
  BY <1>3, <1>4, <1>5, <1>6, BufferPush DEF Buffered
<1>8. Largest(chan[c].largestId, id) \in Nat
      /\ (c \notin Explicit => Largest(chan[c].largestId, id) = chan[c].largestId + 1)
  BY <1>4, <1>5 DEF Largest
<1>9. chan' = [chan EXCEPT ![c] =
        [live |-> TRUE, old |-> chan[c].old, largestId |-> Largest(chan[c].largestId, id),
         pushed |-> chan[c].pushed + 1, events |-> buffer, sseHandlers |-> chan[c].sseHandlers]]
  <2>1. [Data(c) EXCEPT !.largestId = Largest(chan[c].largestId, id),
                        !.pushed = event.number, !.events = buffer]
        = [live |-> TRUE, old |-> chan[c].old, largestId |-> Largest(chan[c].largestId, id),
           pushed |-> chan[c].pushed + 1, events |-> buffer, sseHandlers |-> chan[c].sseHandlers]
    <3>1. Data(c) = [live |-> TRUE, old |-> chan[c].old, largestId |-> chan[c].largestId,
                     pushed |-> chan[c].pushed, events |-> chan[c].events,
                     sseHandlers |-> chan[c].sseHandlers]
      BY <1>4, DataFields DEF Data
    <3>2. PICK data, a, b, d, e, f, g, x, y :
            /\ data = Data(c) /\ a = TRUE /\ b = chan[c].old /\ d = chan[c].largestId
            /\ e = chan[c].pushed /\ f = chan[c].events /\ g = chan[c].sseHandlers
            /\ x = Largest(chan[c].largestId, id) /\ y = event.number
      OBVIOUS
    <3>3. data = [live |-> a, old |-> b, largestId |-> d, pushed |-> e, events |-> f,
                  sseHandlers |-> g]
      BY <3>1, <3>2
    <3>4. PICK r1 : r1 = [data EXCEPT !.largestId = x]
      OBVIOUS
    <3>5. r1 = [live |-> a, old |-> b, largestId |-> x, pushed |-> e, events |-> f,
                sseHandlers |-> g]
      BY <3>3, <3>4
    <3>6. PICK r2 : r2 = [r1 EXCEPT !.pushed = y]
      OBVIOUS
    <3>7. r2 = [live |-> a, old |-> b, largestId |-> x, pushed |-> y, events |-> f,
                sseHandlers |-> g]
      BY <3>5, <3>6
    <3>8. PICK r3 : r3 = [r2 EXCEPT !.events = buffer]
      OBVIOUS
    <3>9. r3 = [live |-> a, old |-> b, largestId |-> x, pushed |-> y, events |-> buffer,
                sseHandlers |-> g]
      BY <3>7, <3>8
    <3>10. r3 = [data EXCEPT !.largestId = x, !.pushed = y, !.events = buffer]
      BY <3>4, <3>6, <3>8, Zenon
    <3> QED
      BY <1>6, <3>2, <3>9, <3>10
  <2> QED
    BY <1>1, <1>2, <1>3, <2>1
<1>10. /\ chan'[c].pushed = chan[c].pushed + 1 /\ chan'[c].events = buffer
       /\ chan'[c].largestId = Largest(chan[c].largestId, id)
       /\ chan'[c].sseHandlers = chan[c].sseHandlers
       /\ \A d \in Channel : d # c => chan'[d] = chan[d]
  BY <1>9 DEF TypeOK
<1>11. chan' \in [Channel -> ChannelData]
  <2>1. [live |-> TRUE, old |-> chan[c].old, largestId |-> Largest(chan[c].largestId, id),
         pushed |-> chan[c].pushed + 1, events |-> buffer, sseHandlers |-> chan[c].sseHandlers]
        \in ChannelData
    BY <1>4, <1>7, <1>8, FieldTypes DEF ChannelData
  <2> QED
    BY <1>9, <2>1 DEF TypeOK
<1>12. \A d \in Channel : Buffered(d)'
  BY <1>7, <1>8, <1>10 DEF Buffered
<1>13. \A d \in Channel : HandlersOf(d)' = HandlersOf(d)
  BY <1>10 DEF HandlersOf
<1>14. \A x \in Client :
         /\ client'[x].open = client[x].open /\ client'[x].conn = client[x].conn
         /\ client'[x].since = client[x].since
         /\ IF Hears(x, c) THEN client'[x].got = Append(client[x].got, chan[c].pushed + 1)
                                /\ client'[x].lastId = id
                           ELSE client'[x] = client[x]
         /\ DOMAIN client'[x] = DOMAIN client[x]
  BY <1>1 DEF TypeOK
<1>15. TypeOK'
  <2>1. \A x \in Client : Append(client[x].got, chan[c].pushed + 1) \in Seq(Nat)
    BY <1>4, FieldTypes, AppendProperties
  <2>2. ASSUME NEW x \in Client
        PROVE  client'[x] \in [open : BOOLEAN, conn : 0 .. MaxConns, lastId : Nat \cup {-1},
                               since : Nat, got : Seq(Nat)]
    BY <1>1, <1>5, <1>6, <2>1 DEF TypeOK
  <2> QED
    BY <1>1, <1>11, <2>2 DEF TypeOK, Push
<1>16. \A x \in Client : Registered(x)' = Registered(x)
  BY <1>13, <1>14, ChannelOfIn DEF Registered, ChannelOf, Connection
<1>17. Conns'
  BY <1>13, <1>14, ConnsKept DEF Push, Hears
<1>18. ASSUME NEW x \in Client, Registered(x)' PROVE Gets(x)'
  <2>1. Registered(x) /\ Gets(x) /\ ChannelOf(x) \in Channel
    BY <1>16, <1>18, ChannelOfIn
  <2>2. CASE ChannelOf(x) = c
    <3>1. /\ client'[x].got = Append(client[x].got, chan[c].pushed + 1)
          /\ client[x].got \in Seq(Nat) /\ client[x].since \in Nat /\ Len(client[x].got) \in Nat
      BY <1>14, <2>1, <2>2, FieldTypes, LenProperties DEF Hears
    <3>2. /\ Len(client'[x].got) = Len(client[x].got) + 1
          /\ client'[x].got[Len(client[x].got) + 1] = chan[c].pushed + 1
          /\ \A k \in 1 .. Len(client[x].got) : client'[x].got[k] = client[x].got[k]
      BY <1>4, <3>1, AppendProperties
    <3>3. \A k \in 1 .. Len(client'[x].got) : k \in 1 .. Len(client[x].got)
                                              \/ k = Len(client[x].got) + 1
      BY <3>1, <3>2
    <3>4. Len(client[x].got) = chan[c].pushed - client[x].since /\ client'[x].since = client[x].since
      BY <1>14, <2>1, <2>2 DEF Gets
    <3>5. \A k \in 1 .. Len(client'[x].got) : client'[x].got[k] = client'[x].since + k
      <4>1. \A k \in 1 .. Len(client[x].got) : client'[x].got[k] = client'[x].since + k
        BY <2>1, <3>2, <3>4 DEF Gets
      <4>2. client'[x].got[Len(client[x].got) + 1] = client'[x].since + (Len(client[x].got) + 1)
        BY <1>4, <3>1, <3>2, <3>4
      <4> QED
        BY <3>3, <4>1, <4>2
    <3>6. /\ client'[x].since <= chan'[c].pushed
          /\ Len(client'[x].got) = chan'[c].pushed - client'[x].since
      BY <1>4, <1>10, <2>1, <2>2, <3>1, <3>2, <3>4 DEF Gets
    <3> QED
      BY <2>2, <3>5, <3>6 DEF Gets, ChannelOf
  <2>3. CASE ChannelOf(x) # c
    BY <1>10, <1>14, <2>1, <2>3 DEF Gets, Hears, ChannelOf
  <2> QED
    BY <2>2, <2>3
<1> QED
  BY <1>12, <1>15, <1>17, <1>18

(* SSEHandler.init and handleSSEChannelEvents up to its await. *)
LEMMA ConnectKeeps == ASSUME StreamInv, NEW x \in Client, Connect(x) PROVE StreamInv'
<1> USE DEF StreamInv
<1>1. CASE Replays(x)
  BY <1>1, DiesKeeps DEF Connect
<1>2. CASE ~Replays(x)
  <2>1. PICK c \in Channel : c = ChannelOf(x)
    BY ChannelOfIn
  <2>2. PICK h : h = [client |-> x, conn |-> client[x].conn + 1]
    OBVIOUS
  <2>3. /\ ~client[x].open /\ client[x].conn < MaxConns
        /\ chan' = [chan EXCEPT ![c] = [chan[c] EXCEPT !.live = TRUE]]
        /\ client' = [client EXCEPT ![x] = Connected(x)]
        /\ joining' = joining \cup {h}
    BY <1>2, <2>1, <2>2 DEF Connect, Data, Connected
  <2>4. client[x].conn \in Nat /\ chan[c] \in ChannelData
    BY FieldTypes DEF TypeOK
  <2>5. /\ Connected(x) \in [open : BOOLEAN, conn : 0 .. MaxConns, lastId : Nat \cup {-1},
                             since : Nat, got : Seq(Nat)]
        /\ Connected(x).conn = client[x].conn + 1 /\ Connected(x).got = <<>>
    <3>1. <<>> \in Seq(Nat)
      BY EmptySeq
    <3> QED
      BY <2>3, <2>4, <3>1, EventBoundAssumption DEF Connected
  <2>6. /\ client'[x].conn = client[x].conn + 1 /\ client'[x].got = <<>>
        /\ \A y \in Client : y # x => client'[y] = client[y]
    BY <2>3, <2>5 DEF TypeOK
  <2>7. /\ [chan[c] EXCEPT !.live = TRUE] \in ChannelData
        /\ \A d \in Channel : /\ chan'[d].sseHandlers = chan[d].sseHandlers
                              /\ chan'[d].events = chan[d].events
                              /\ chan'[d].pushed = chan[d].pushed
                              /\ chan'[d].largestId = chan[d].largestId
    BY <2>3, <2>4 DEF ChannelData, TypeOK
  <2>8. h \in Handler /\ h.client = x /\ h.conn = client[x].conn + 1
    BY <2>2, <2>4 DEF Handler
  <2>9. TypeOK'
    BY <2>3, <2>5, <2>7, <2>8 DEF TypeOK
  <2>10. \A d \in Channel : Buffered(d)' /\ HandlersOf(d)' = HandlersOf(d)
    BY <2>7 DEF Buffered, HandlersOf
  <2>11. \A y \in Client : client[y].conn \in Nat /\ client'[y].conn >= client[y].conn
                           /\ client'[y].conn \in Nat
    BY <2>4, <2>6, FieldTypes
  <2>12. ASSUME NEW d \in Channel, NEW g \in HandlersOf(d)' PROVE g.conn <= client'[g.client].conn
    <3>1. g \in HandlersOf(d) /\ g \in Handler /\ g.client \in Client /\ g.conn \in Nat
      BY <2>10, FieldTypes
    <3>2. g.conn <= client[g.client].conn
      BY <3>1 DEF Conns
    <3> QED
      BY <2>11, <3>1, <3>2
  <2>13. ASSUME NEW g \in joining'
         PROVE  /\ g.conn <= client'[g.client].conn
                /\ g \notin HandlersOf(ChannelOf(g.client))'
                /\ Joins(g)' => client'[g.client].got = <<>>
    <3>1. CASE g = h
      <4>1. h \notin HandlersOf(c)
        BY <2>4, <2>8 DEF Conns
      <4> QED
        BY <2>1, <2>4, <2>6, <2>8, <2>10, <3>1, <4>1 DEF ChannelOf
    <3>2. CASE g \in joining
      <4>1. g \in Handler /\ g.client \in Client /\ g.conn \in Nat /\ ChannelOf(g.client) \in Channel
        BY <3>2, FieldTypes, ChannelOfIn DEF TypeOK
      <4>2. g.conn <= client[g.client].conn /\ g \notin HandlersOf(ChannelOf(g.client))
        BY <3>2 DEF Conns
      <4>3. g.conn <= client'[g.client].conn
        BY <2>11, <4>1, <4>2
      <4>4. g \notin HandlersOf(ChannelOf(g.client))'
        BY <2>10, <4>1, <4>2 DEF ChannelOf
      <4>5. ASSUME Joins(g)' PROVE client'[g.client].got = <<>>
        <5>1. CASE g.client = x
          BY <2>6, <5>1
        <5>2. CASE g.client # x
          BY <2>6, <3>2, <4>1, <4>5, <5>2 DEF Conns, Joins, Connection
        <5> QED
          BY <5>1, <5>2
      <4> QED
        BY <4>3, <4>4, <4>5
    <3> QED
      BY <2>3, <3>1, <3>2
  <2>14. Conns'
    BY <2>12, <2>13 DEF Conns, ChannelOf, HandlersOf
  <2>15. ASSUME NEW y \in Client, Registered(y)' PROVE Gets(y)'
    <3>1. ChannelOf(y) \in Channel
      BY ChannelOfIn
    <3>2. CASE y = x
      <4>1. [client |-> x, conn |-> client[x].conn + 1] \in HandlersOf(c)
        BY <2>1, <2>6, <2>10, <2>15, <3>2 DEF Registered, Connection, ChannelOf
      <4> QED
        BY <2>2, <2>4, <2>8, <4>1 DEF Conns
    <3>3. CASE y # x
      <4>1. client'[y] = client[y] /\ Registered(y)
        BY <2>6, <2>10, <2>15, <3>1, <3>3 DEF Registered, Connection, ChannelOf
      <4> QED
        BY <2>7, <3>1, <4>1 DEF Gets, ChannelOf
    <3> QED
      BY <3>2, <3>3
  <2> QED
    BY <2>9, <2>10, <2>14, <2>15
<1> QED
  BY <1>1, <1>2

(* The rest of handleSSEChannelEvents: the handler is added. *)
LEMMA RegisterKeeps == ASSUME StreamInv, NEW h \in joining, Register(h) PROVE StreamInv'
<1> USE DEF StreamInv
<1>1. PICK c \in Channel : c = ChannelOf(h.client)
  BY FieldTypes, ChannelOfIn DEF TypeOK
<1>2. PICK since : since = IF Joins(h) THEN chan[c].pushed ELSE client[h.client].since
  OBVIOUS
<1>3. h \in Handler /\ h.client \in Client /\ h.conn \in Nat /\ chan[c] \in ChannelData
  BY FieldTypes DEF TypeOK
<1>4. since \in Nat
  BY <1>2, <1>3, FieldTypes
<1>5. PICK data : data = [live |-> TRUE, old |-> chan[c].old, largestId |-> chan[c].largestId,
                          pushed |-> chan[c].pushed, events |-> chan[c].events,
                          sseHandlers |-> chan[c].sseHandlers \cup {[of |-> h, old |-> FALSE]}]
  OBVIOUS
<1>6. /\ joining' = joining \ {h}
      /\ chan' = [chan EXCEPT ![c] = data]
      /\ client' = [client EXCEPT ![h.client] = [client[h.client] EXCEPT !.since = since]]
  <2>1. Data(c) = [live |-> TRUE, old |-> chan[c].old, largestId |-> chan[c].largestId,
                   pushed |-> chan[c].pushed, events |-> chan[c].events,
                   sseHandlers |-> chan[c].sseHandlers]
    BY <1>3, DataFields DEF Data
  <2>2. PICK r, a, b, d, e, f, g :
          /\ r = Data(c) /\ a = TRUE /\ b = chan[c].old /\ d = chan[c].largestId
          /\ e = chan[c].pushed /\ f = chan[c].events /\ g = chan[c].sseHandlers
    OBVIOUS
  <2>3. r = [live |-> a, old |-> b, largestId |-> d, pushed |-> e, events |-> f,
             sseHandlers |-> g]
    BY <2>1, <2>2
  <2>4. [r EXCEPT !.sseHandlers = @ \cup {[of |-> h, old |-> FALSE]}]
        = [live |-> a, old |-> b, largestId |-> d, pushed |-> e, events |-> f,
           sseHandlers |-> g \cup {[of |-> h, old |-> FALSE]}]
    BY <2>3
  <2>5. [Data(c) EXCEPT !.sseHandlers = @ \cup {[of |-> h, old |-> FALSE]}] = data
    BY <1>5, <2>2, <2>4
  <2> QED
    BY <1>1, <1>2, <2>5 DEF Register
<1>7. /\ data \in ChannelData
      /\ \A d \in Channel : /\ chan'[d].events = chan[d].events
                            /\ chan'[d].pushed = chan[d].pushed
                            /\ chan'[d].largestId = chan[d].largestId
                            /\ d # c => chan'[d] = chan[d]
      /\ chan'[c].sseHandlers = chan[c].sseHandlers \cup {[of |-> h, old |-> FALSE]}
  <2>1. [of |-> h, old |-> FALSE] \in [of : Handler, old : BOOLEAN]
    BY <1>3
  <2>2. chan[c].sseHandlers \cup {[of |-> h, old |-> FALSE]} \in SUBSET [of : Handler, old : BOOLEAN]
    BY <2>1, FieldTypes
  <2>3. data \in ChannelData
    BY <1>3, <1>5, <2>2, FieldTypes DEF ChannelData
  <2> QED
    BY <1>5, <1>6, <2>3 DEF TypeOK
<1>8. /\ \A x \in Client : /\ client'[x].open = client[x].open
                           /\ client'[x].conn = client[x].conn
                           /\ client'[x].got = client[x].got
                           /\ x # h.client => client'[x] = client[x]
      /\ client'[h.client].since = since
  BY <1>3, <1>6 DEF TypeOK
<1>9. TypeOK'
  <2>1. [client[h.client] EXCEPT !.since = since]
          \in [open : BOOLEAN, conn : 0 .. MaxConns, lastId : Nat \cup {-1},
               since : Nat, got : Seq(Nat)]
    BY <1>3, <1>4 DEF TypeOK
  <2>2. chan' \in [Channel -> ChannelData]
    BY <1>6, <1>7 DEF TypeOK
  <2> QED
    BY <1>6, <2>1, <2>2 DEF TypeOK
<1>10. /\ \A d \in Channel : d # c => HandlersOf(d)' = HandlersOf(d)
       /\ HandlersOf(c)' = HandlersOf(c) \cup {h}
  BY <1>7, HandlersAdded DEF HandlersOf
<1>11. \A d \in Channel : Buffered(d)'
  BY <1>7 DEF Buffered
<1>12. Conns'
  <2>1. ASSUME NEW d \in Channel, NEW g \in HandlersOf(d)' PROVE g.conn <= client'[g.client].conn
    <3>1. g = h \/ g \in HandlersOf(d)
      BY <1>10
    <3>2. g \in Handler /\ g.client \in Client
      BY <1>3, <3>1, FieldTypes
    <3> QED
      BY <1>8, <3>1, <3>2 DEF Conns
  <2>2. ASSUME NEW g \in joining'
        PROVE  /\ g.conn <= client'[g.client].conn
               /\ g \notin HandlersOf(ChannelOf(g.client))'
               /\ Joins(g)' => client'[g.client].got = <<>>
    <3>1. g \in joining /\ g # h /\ g.client \in Client /\ ChannelOf(g.client) \in Channel
      BY <1>6, FieldTypes, ChannelOfIn DEF TypeOK
    <3>2. g \notin HandlersOf(ChannelOf(g.client))'
      BY <1>10, <3>1 DEF Conns, ChannelOf
    <3> QED
      BY <1>8, <3>1, <3>2 DEF Conns, Joins, Connection
  <2> QED
    BY <2>1, <2>2 DEF Conns, ChannelOf, HandlersOf
<1>13. ASSUME NEW x \in Client, Registered(x)' PROVE Gets(x)'
  <2>1. ChannelOf(x) \in Channel
    BY ChannelOfIn
  <2>2. CASE x = h.client /\ Joins(h)
    <3>1. client'[x].got = <<>> /\ client'[x].since = chan'[c].pushed /\ chan'[c].pushed \in Nat
      BY <1>2, <1>3, <1>7, <1>8, <2>2, FieldTypes DEF Conns
    <3>2. Len(<<>>) = 0
      BY EmptySeq
    <3> QED
      BY <1>1, <2>2, <3>1, <3>2 DEF Gets, ChannelOf
  <2>3. CASE ~(x = h.client /\ Joins(h))
    <3>1. client'[x].since = client[x].since
      BY <1>2, <1>8, <2>3
    <3>2. client[x].open /\ Connection(x) \in HandlersOf(ChannelOf(x))'
      BY <1>8, <1>13, <2>1 DEF Registered, Connection, ChannelOf
    <3>3. Connection(x) # h
      BY <2>3, <3>2 DEF Connection, Joins
    <3>4. Registered(x)
      BY <1>1, <1>10, <2>1, <3>2, <3>3 DEF Registered
    <3> QED
      BY <1>7, <1>8, <2>1, <3>1, <3>4 DEF Gets, ChannelOf
  <2> QED
    BY <2>2, <2>3
<1> QED
  BY <1>9, <1>11, <1>12, <1>13

(* The client goes away. *)
LEMMA CloseKeeps == ASSUME StreamInv, NEW x \in Client, Close(x) PROVE StreamInv'
<1> USE DEF StreamInv
<1>1. /\ UNCHANGED <<chan, joining>> /\ client' = [client EXCEPT ![x] = Away(x)]
      /\ \A c \in Channel : HandlersOf(c)' = HandlersOf(c)
  BY DEF Close, HandlersOf
<1>2. /\ Away(x) \in [open : BOOLEAN, conn : 0 .. MaxConns, lastId : Nat \cup {-1},
                      since : Nat, got : Seq(Nat)]
      /\ Away(x).open = FALSE /\ Away(x).conn = client[x].conn
  <2>1. <<>> \in Seq(Nat)
    BY EmptySeq
  <2> QED
    BY <2>1 DEF Away, TypeOK
<1>3. /\ client'[x].open = FALSE /\ client'[x].conn = client[x].conn
      /\ \A y \in Client : y # x => client'[y] = client[y]
  BY <1>1, <1>2 DEF TypeOK
<1>4. TypeOK'
  BY <1>1, <1>2 DEF TypeOK
<1>5. \A c \in Channel : Buffered(c)'
  BY <1>1 DEF Buffered
<1>6. Conns'
  BY <1>1, <1>3, ConnsKept
<1>7. ASSUME NEW y \in Client, Registered(y)' PROVE Gets(y)'
  <2>1. y # x /\ client'[y] = client[y]
    BY <1>3, <1>7 DEF Registered
  <2>2. Registered(y)
    BY <1>1, <1>7, <2>1, ChannelOfIn DEF Registered, Connection, ChannelOf
  <2> QED
    BY <1>1, <2>1, <2>2 DEF Gets, ChannelOf
<1> QED
  BY <1>4, <1>5, <1>6, <1>7

(* A step of the clock or of the collector: a channel's data is as it was, but  *)
(* for ages and handlers that are gone, or it is gone as a whole.               *)
LEMMA CollectorKeeps ==
  ASSUME StreamInv, UNCHANGED <<joining, client>>, chan' \in [Channel -> ChannelData],
         \A c \in Channel :
           \/ chan'[c] = Absent
           \/ /\ chan'[c].events = chan[c].events /\ chan'[c].pushed = chan[c].pushed
              /\ chan'[c].largestId = chan[c].largestId
              /\ HandlersOf(c)' \subseteq HandlersOf(c)
  PROVE  StreamInv'
<1> USE DEF StreamInv
<1>1. TypeOK'
  BY DEF TypeOK
<1>2. \A c \in Channel : Buffered(c)'
  BY AbsentData DEF Buffered
<1>3. \A c \in Channel : chan'[c] = Absent => HandlersOf(c)' = {}
  BY AbsentData DEF HandlersOf
<1>4. \A c \in Channel : HandlersOf(c)' \subseteq HandlersOf(c)
  BY <1>3
<1>5. Conns'
  BY <1>4, ConnsKept
<1>6. ASSUME NEW x \in Client, Registered(x)' PROVE Gets(x)'
  <2>1. ChannelOf(x) \in Channel /\ HandlersOf(ChannelOf(x))' # {}
    BY <1>6, ChannelOfIn DEF Registered, ChannelOf
  <2>2. chan'[ChannelOf(x)].pushed = chan[ChannelOf(x)].pushed
    BY <1>3, <2>1
  <2>3. Registered(x)
    BY <1>4, <1>6, <2>1 DEF Registered, Connection, ChannelOf
  <2> QED
    BY <2>2, <2>3 DEF Gets, ChannelOf
<1> QED
  BY <1>1, <1>2, <1>5, <1>6

LEMMA HourKeeps == ASSUME StreamInv, HourPasses PROVE StreamInv'
<1>1. ASSUME NEW c \in Channel
      PROVE  /\ chan'[c] \in ChannelData
             /\ chan'[c].events = chan[c].events /\ chan'[c].pushed = chan[c].pushed
             /\ chan'[c].largestId = chan[c].largestId
             /\ chan'[c].sseHandlers = {[of |-> h, old |-> TRUE] : h \in HandlersOf(c)}
  <2>1. /\ chan[c] \in ChannelData /\ HandlersOf(c) \subseteq Handler /\ chan[c].live \in BOOLEAN
        /\ chan'[c] = [chan[c] EXCEPT
             !.old = chan[c].live,
             !.sseHandlers = {[of |-> h, old |-> TRUE] : h \in HandlersOf(c)}]
    BY FieldTypes DEF HourPasses, StreamInv, TypeOK
  <2>2. PICK handlers : handlers = {[of |-> h, old |-> TRUE] : h \in HandlersOf(c)}
    OBVIOUS
  <2>3. handlers \in SUBSET [of : Handler, old : BOOLEAN]
    <3>1. \A h \in Handler : [of |-> h, old |-> TRUE] \in [of : Handler, old : BOOLEAN]
      OBVIOUS
    <3> QED
      BY <2>1, <2>2, <3>1
  <2>4. chan'[c] = [chan[c] EXCEPT !.old = chan[c].live, !.sseHandlers = handlers]
    BY <2>1, <2>2
  <2> QED
    BY <2>1, <2>2, <2>3, <2>4 DEF ChannelData
<1>2. \A c \in Channel : HandlersOf(c)' = HandlersOf(c)
  <2> SUFFICES ASSUME NEW c \in Channel PROVE HandlersOf(c)' = HandlersOf(c)
    OBVIOUS
  <2>1. HandlersOf(c)' = {h.of : h \in {[of |-> h, old |-> TRUE] : h \in HandlersOf(c)}}
    BY <1>1 DEF HandlersOf
  <2> QED
    BY <2>1, HandlersAged
<1>3. chan' \in [Channel -> ChannelData]
  BY <1>1 DEF HourPasses
<1> QED
  BY <1>1, <1>2, <1>3, CollectorKeeps DEF HourPasses

LEMMA SweepKeeps == ASSUME StreamInv, Sweep PROVE StreamInv'
<1>1. ASSUME NEW c \in Channel
      PROVE  /\ chan'[c] \in ChannelData
             /\ \/ chan'[c] = Absent
                \/ /\ chan'[c].events = chan[c].events /\ chan'[c].pushed = chan[c].pushed
                   /\ chan'[c].largestId = chan[c].largestId
                   /\ chan'[c].sseHandlers \subseteq chan[c].sseHandlers
  <2>1. chan[c] \in ChannelData /\ chan'[c] = Swept(chan[c])
    BY DEF Sweep, StreamInv, TypeOK
  <2>2. CASE chan[c].old
    BY <2>1, <2>2, AbsentData DEF Swept
  <2>3. CASE ~chan[c].old
    <3>1. PICK handlers : handlers = {h \in chan[c].sseHandlers : ~h.old}
      OBVIOUS
    <3>2. handlers \subseteq chan[c].sseHandlers
      BY <3>1
    <3>3. chan'[c] = [chan[c] EXCEPT !.sseHandlers = handlers]
      BY <2>1, <2>3, <3>1 DEF Swept
    <3> QED
      BY <2>1, <3>2, <3>3 DEF ChannelData
  <2> QED
    BY <2>2, <2>3
<1>2. \A c \in Channel : chan'[c].sseHandlers \subseteq chan[c].sseHandlers =>
                           HandlersOf(c)' \subseteq HandlersOf(c)
  BY DEF HandlersOf
<1>3. chan' \in [Channel -> ChannelData]
  BY <1>1 DEF Sweep
<1> QED
  BY <1>1, <1>2, <1>3, CollectorKeeps DEF Sweep

LEMMA StreamStep == StreamInv /\ [Next]_vars => StreamInv'
<1> SUFFICES ASSUME StreamInv, [Next]_vars PROVE StreamInv'
  OBVIOUS
<1>1. CASE UNCHANGED vars
  BY <1>1 DEF vars, StreamInv, TypeOK, Buffered, Conns, HandlersOf, Registered, Connection,
              Joins, Gets, ChannelOf
<1>2. CASE Next
  BY <1>2, PushKeeps, ConnectKeeps, RegisterKeeps, CloseKeeps, DiesKeeps, HourKeeps, SweepKeeps
  DEF Next, Crash
<1> QED
  BY <1>1, <1>2

-----------------------------------------------------------------------------
(* The data of the channels, the handlers and the clients keep their types.     *)
THEOREM TypeCorrect == Spec => []TypeOK
<1>1. StreamInv => TypeOK
  BY DEF StreamInv
<1> QED
  BY StreamInit, StreamStep, <1>1, PTL DEF Spec

(* The buffer holds the latest events in a row, for any limits of truncation.   *)
THEOREM BuffersAreRecent == Spec => []BufferIsRecent
<1>1. StreamInv => BufferIsRecent
  <2> SUFFICES ASSUME StreamInv, NEW c \in Channel
               PROVE  LET events == chan[c].events
                          before == chan[c].pushed - Len(events) IN
                      /\ \A k \in 1 .. Len(events) : events[k].number = before + k
                      /\ Len(events) <= CheckLimit
                      /\ before # 0 => Len(events) > CheckLimit - TruncateMax
    BY DEF BufferIsRecent
  <2>1. /\ Kept(chan[c].events, chan[c].pushed) /\ chan[c].pushed \in Nat
        /\ Len(chan[c].events) \in Nat
    BY FieldTypes, LenProperties DEF StreamInv, Buffered
  <2> QED
    BY <2>1 DEF Kept
<1> QED
  BY StreamInit, StreamStep, <1>1, PTL DEF Spec

(* A connected client whose handler is registered gets every event of its       *)
(* channel, once and in order.                                                  *)
THEOREM SubscribersMissNothing == Spec => []SubscriberMissesNothing
<1>1. StreamInv => SubscriberMissesNothing
  <2> SUFFICES ASSUME StreamInv, NEW x \in Client, Registered(x)
               PROVE  LET c == ChannelOf(x) IN
                      client[x].got = [k \in 1 .. chan[c].pushed - client[x].since |->
                                         client[x].since + k]
    BY DEF SubscriberMissesNothing
  <2>1. Gets(x) /\ client[x].got \in Seq(Nat)
    BY FieldTypes DEF StreamInv
  <2>2. client[x].got = [k \in 1 .. Len(client[x].got) |-> client[x].got[k]]
    BY <2>1, LenProperties
  <2> QED
    BY <2>1, <2>2 DEF Gets
<1> QED
  BY StreamInit, StreamStep, <1>1, PTL DEF Spec

(* Where TXQ numbers events itself, no two events of a buffer share an id.      *)
THEOREM EventIdsAreDistinct == Spec => []IdsAreDistinct
<1>1. StreamInv => IdsAreDistinct
  BY DEF StreamInv, Buffered, Growing, IdsAreDistinct
<1> QED
  BY StreamInit, StreamStep, <1>1, PTL DEF Spec

-----------------------------------------------------------------------------
(* A handler of a channel is young or old, not both. *)
OneAge == \A c \in Channel : \A g, h \in chan[c].sseHandlers : g.of = h.of => g = h

(* What a step does to the handlers of a channel: it drops some, adds one that  *)
(* was not there, or makes all of them old.                                     *)
Drops(c) == chan'[c].sseHandlers \subseteq chan[c].sseHandlers
Adds(c)  == \E h : /\ h \notin HandlersOf(c)
                   /\ chan'[c].sseHandlers = chan[c].sseHandlers \cup {[of |-> h, old |-> FALSE]}
Ages(c)  == chan'[c].sseHandlers = {[of |-> h, old |-> TRUE] : h \in HandlersOf(c)}

LEMMA DataHandlers ==
  ASSUME NEW data \in ChannelData
  PROVE  [data EXCEPT !.live = TRUE].sseHandlers = data.sseHandlers
BY DataFields

LEMMA HandlersStep ==
  ASSUME StreamInv, [Next]_vars, NEW c \in Channel
  PROVE  Drops(c) \/ Adds(c) \/ Ages(c)
<1> USE DEF StreamInv
<1>0. chan \in [Channel -> ChannelData] /\ chan[c] \in ChannelData
  BY DEF TypeOK
<1>1. CASE Dies
  <2>1. chan'[c] = Absent
    BY <1>1 DEF Dies
  <2> QED
    BY <2>1, AbsentData DEF Drops
<1>2. CASE HourPasses
  <2>1. PICK handlers : handlers = {[of |-> h, old |-> TRUE] : h \in HandlersOf(c)}
    OBVIOUS
  <2>2. chan'[c] = [chan[c] EXCEPT !.old = chan[c].live, !.sseHandlers = handlers]
    BY <1>2, <2>1 DEF HourPasses
  <2>3. chan'[c].sseHandlers = handlers
    BY <1>0, <2>2 DEF ChannelData
  <2> QED
    BY <2>1, <2>3 DEF Ages
<1>3. CASE Sweep
  <2>1. PICK handlers : handlers = {h \in chan[c].sseHandlers : ~h.old}
    OBVIOUS
  <2>2. chan'[c] = Absent \/ chan'[c] = [chan[c] EXCEPT !.sseHandlers = handlers]
    BY <1>3, <2>1 DEF Sweep, Swept
  <2>3. chan'[c] = Absent \/ chan'[c].sseHandlers = handlers
    BY <1>0, <2>2 DEF ChannelData
  <2>4. handlers \subseteq chan[c].sseHandlers
    BY <2>1
  <2> QED
    BY <2>3, <2>4, AbsentData DEF Drops
<1>4. ASSUME NEW d \in Channel, Push(d) PROVE Drops(c)
  <2>0. PICK id \in NextIds(d) :
          chan' = [chan EXCEPT ![d] =
            [Data(d) EXCEPT !.largestId = Largest(chan[d].largestId, id),
                            !.pushed = [id |-> id, number |-> chan[d].pushed + 1].number,
                            !.events = Recent(Append(chan[d].events,
                                                     [id |-> id, number |-> chan[d].pushed + 1]))]]
    BY <1>4 DEF Push
  <2>1. PICK number, events :
          /\ number = [id |-> id, number |-> chan[d].pushed + 1].number
          /\ events = Recent(Append(chan[d].events, [id |-> id, number |-> chan[d].pushed + 1]))
    OBVIOUS
  <2>2. CASE c = d
    <3>1. Data(c) = [live |-> TRUE, old |-> chan[c].old, largestId |-> chan[c].largestId,
                     pushed |-> chan[c].pushed, events |-> chan[c].events,
                     sseHandlers |-> chan[c].sseHandlers]
      BY <1>0, DataFields DEF Data
    <3>2. chan'[c].sseHandlers = Data(c).sseHandlers
      <4>1. PICK l, r : l = Largest(chan[d].largestId, id) /\ r = Data(d)
        OBVIOUS
      <4>2. chan'[c] = [r EXCEPT !.largestId = l, !.pushed = number, !.events = events]
        BY <1>0, <2>0, <2>1, <2>2, <4>1
      <4>3. r = [live |-> TRUE, old |-> chan[c].old, largestId |-> chan[c].largestId,
                 pushed |-> chan[c].pushed, events |-> chan[c].events,
                 sseHandlers |-> chan[c].sseHandlers]
        BY <2>2, <3>1, <4>1
      <4> QED
        BY <2>2, <4>1, <4>2, <4>3
    <3> QED
      BY <3>1, <3>2 DEF Drops
  <2>3. CASE c # d
    BY <1>0, <2>0, <2>3 DEF Drops
  <2> QED
    BY <2>2, <2>3
<1>5. ASSUME NEW x \in Client, Connect(x), ~Dies PROVE Drops(c)
  <2>1. chan' = [chan EXCEPT ![ChannelOf(x)] = Data(ChannelOf(x))]
    BY <1>5 DEF Connect
  <2> QED
    BY <1>0, <2>1, DataHandlers DEF Data, Drops
<1>6. ASSUME NEW h \in joining, Register(h) PROVE Drops(c) \/ Adds(c)
  <2>1. PICK d \in Channel : d = ChannelOf(h.client)
    BY FieldTypes, ChannelOfIn DEF TypeOK
  <2>2. PICK young : young = [of |-> h, old |-> FALSE]
    OBVIOUS
  <2>3. chan' = [chan EXCEPT ![d] = [Data(d) EXCEPT !.sseHandlers = @ \cup {young}]]
    BY <1>6, <2>1, <2>2 DEF Register
  <2>4. CASE c = d
    <3>1. PICK r, handlers : /\ r = Data(c) /\ handlers = chan[c].sseHandlers
      OBVIOUS
    <3>2. r = [live |-> TRUE, old |-> chan[c].old, largestId |-> chan[c].largestId,
               pushed |-> chan[c].pushed, events |-> chan[c].events, sseHandlers |-> handlers]
      BY <1>0, <3>1, DataFields DEF Data
    <3>3. chan'[c] = [r EXCEPT !.sseHandlers = @ \cup {young}]
      BY <1>0, <2>3, <2>4, <3>1
    <3>4. chan'[c].sseHandlers = handlers \cup {young}
      BY <3>2, <3>3
    <3>5. h \notin HandlersOf(c)
      BY <2>1, <2>4 DEF Conns
    <3> QED
      BY <2>2, <3>1, <3>4, <3>5 DEF Adds
  <2>5. CASE c # d
    BY <1>0, <2>3, <2>5 DEF Drops
  <2> QED
    BY <2>4, <2>5
<1>7. CASE UNCHANGED chan
  BY <1>7 DEF Drops
<1> QED
  BY <1>1, <1>2, <1>3, <1>4, <1>5, <1>6, <1>7 DEF Next, Crash, Close, vars

(* An old handler stays old, and a pass of the collector takes it. *)
LEMMA AgeStep ==
  ASSUME StreamInv, OneAge, [Next]_vars
  PROVE  /\ OneAge'
         /\ \A c \in Channel : \A h \in chan[c].sseHandlers : h.old =>
              /\ [of |-> h.of, old |-> FALSE] \notin chan'[c].sseHandlers
              /\ Sweep => h.of \notin HandlersOf(c)'
<1>1. OneAge'
  <2> SUFFICES ASSUME NEW c \in Channel, NEW g \in chan'[c].sseHandlers,
                      NEW h \in chan'[c].sseHandlers, g.of = h.of
               PROVE  g = h
    BY DEF OneAge
  <2>1. CASE Drops(c)
    BY <2>1 DEF Drops, OneAge
  <2>2. CASE Adds(c)
    <3>1. PICK k, young :
            /\ k \notin HandlersOf(c) /\ young = [of |-> k, old |-> FALSE] /\ young.of = k
            /\ chan'[c].sseHandlers = chan[c].sseHandlers \cup {young}
      BY <2>2 DEF Adds
    <3>2. \A f \in chan[c].sseHandlers : f.of # k
      BY <3>1 DEF HandlersOf
    <3> QED
      BY <3>1, <3>2 DEF OneAge
  <2>3. CASE Ages(c)
    <3>1. PICK j, k : g = [of |-> j, old |-> TRUE] /\ h = [of |-> k, old |-> TRUE]
      BY <2>3 DEF Ages
    <3> QED
      BY <3>1
  <2> QED
    BY <2>1, <2>2, <2>3, HandlersStep
<1>2. ASSUME NEW c \in Channel, NEW h \in chan[c].sseHandlers, h.old
      PROVE  [of |-> h.of, old |-> FALSE] \notin chan'[c].sseHandlers
  <2>1. PICK young : young = [of |-> h.of, old |-> FALSE] /\ young.of = h.of /\ young.old = FALSE
    <3>1. [of |-> h.of, old |-> FALSE].of = h.of
      OBVIOUS
    <3>2. [of |-> h.of, old |-> FALSE].old = FALSE
      OBVIOUS
    <3> QED
      BY <3>1, <3>2
  <2>2. young # h /\ young \notin chan[c].sseHandlers
    BY <1>2, <2>1 DEF OneAge
  <2>3. CASE Drops(c)
    BY <2>1, <2>2, <2>3 DEF Drops
  <2>4. CASE Adds(c)
    <3>1. PICK k, added :
            /\ k \notin HandlersOf(c) /\ added = [of |-> k, old |-> FALSE] /\ added.of = k
            /\ chan'[c].sseHandlers = chan[c].sseHandlers \cup {added}
      BY <2>4 DEF Adds
    <3>2. h.of # k
      BY <3>1 DEF HandlersOf
    <3> QED
      BY <2>1, <2>2, <3>1, <3>2
  <2>5. CASE Ages(c)
    <3>1. \A f \in chan'[c].sseHandlers : f.old = TRUE
      BY <2>5 DEF Ages
    <3> QED
      BY <2>1, <3>1
  <2> QED
    BY <2>1, <2>3, <2>4, <2>5, HandlersStep
<1>3. ASSUME NEW c \in Channel, NEW h \in chan[c].sseHandlers, h.old, Sweep
      PROVE  h.of \notin HandlersOf(c)'
  <2>0. chan[c] \in ChannelData
    BY DEF StreamInv, TypeOK
  <2>1. PICK handlers : handlers = {g \in chan[c].sseHandlers : ~g.old}
    OBVIOUS
  <2>2. chan'[c] = Absent \/ chan'[c] = [chan[c] EXCEPT !.sseHandlers = handlers]
    BY <1>3, <2>1 DEF Sweep, Swept
  <2>3. chan'[c].sseHandlers \subseteq handlers
    BY <2>0, <2>2, AbsentData DEF ChannelData
  <2>4. \A g \in handlers : g.of # h.of
    BY <1>3, <2>1 DEF OneAge
  <2> QED
    BY <2>3, <2>4 DEF HandlersOf
<1> QED
  BY <1>1, <1>2, <1>3

(* Handlers only age: an hour makes all of them old, none gets young again, and *)
(* the next pass of the collector takes them.  What is left to TLC of           *)
(* ClosedIsCollected is that the hour and the pass come.                        *)
THEOREM HandlersGetOld == Spec => HandlersOnlyAge
<1> DEFINE Older == \A c \in Channel : \A h \in chan[c].sseHandlers : h.old =>
                      /\ [of |-> h.of, old |-> FALSE] \notin chan'[c].sseHandlers
                      /\ Sweep => h.of \notin HandlersOf(c)'
<1>1. Init => OneAge
  BY AbsentData DEF Init, OneAge
<1>2. StreamInv /\ OneAge /\ [Next]_vars => OneAge' /\ Older
  BY AgeStep
<1>3. StreamInv /\ OneAge /\ [Next]_vars => [Older]_vars
  BY <1>2
<1>4. StreamInv /\ OneAge /\ [Next]_vars => OneAge'
  BY <1>2
<1> HIDE DEF Older
<1>5. Spec => [][Older]_vars
  BY StreamInit, StreamStep, <1>1, <1>3, <1>4, PTL DEF Spec
<1> QED
  BY <1>5 DEF HandlersOnlyAge, Older
=============================================================================
