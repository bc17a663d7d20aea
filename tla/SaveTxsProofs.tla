--------------------------- MODULE SaveTxsProofs ---------------------------
(* The spend index is sound, final and complete and what is visible is whole,    *)
(* for any transactions, requests and number of requests in flight.              *)
EXTENDS SaveTxs, TLAPS

(* How far the passes have come: an input is stored when its txin row is known   *)
(* to be written, told when updateSpend has been called for it; an output is     *)
(* kept when its txout row is known to be written, filled when its backfill is   *)
(* over.  A finished pass counts by saved, one under way by its place.           *)
PastTxin(s, i)  ==
  \/ At(s, "saveTxin") /\ i < saver[s].i
  \/ /\ saver[s].pc \in {"saveTxmeta", "updateSpend", "saveTxout", "backfillRead",
                         "backfillWrite", "insertTxsync"}
     /\ Raw(s)
PastSpend(s, i) ==
  \/ At(s, "updateSpend") /\ i < saver[s].i
  \/ /\ saver[s].pc \in {"saveTxout", "backfillRead", "backfillWrite", "insertTxsync"}
     /\ Raw(s)
PastTxout(s, j) ==
  \/ At(s, "saveTxout") /\ j < saver[s].i
  \/ saver[s].pc \in {"backfillRead", "backfillWrite"} /\ j <= saver[s].i
  \/ At(s, "insertTxsync") /\ Raw(s)
PastBackfill(s, j) ==
  \/ saver[s].pc \in {"saveTxout", "backfillRead", "backfillWrite"} /\ j < saver[s].i
  \/ At(s, "insertTxsync") /\ Raw(s)

Stored(in) == in[1] \in saved \/ \E s \in Saver : PastTxin(s, in[2]) /\ X(s) = in[1]
Told(in)   == in[1] \in saved \/ \E s \in Saver : PastSpend(s, in[2]) /\ X(s) = in[1]
Kept(o)    == o[1] \in saved \/ \E s \in Saver : PastTxout(s, o[2]) /\ X(s) = o[1]
Filled(o)  == o[1] \in saved \/ \E s \in Saver : PastBackfill(s, o[2]) /\ X(s) = o[1]

(* The inductive invariant.                                                      *)
StoredHasRow == \A in \in Txin : Stored(in) => in \in txin
KeptHasRow   == \A o \in Outpoint : Kept(o) => o \in txout
OneSpender   == \A a, b \in txin : Prev(a) = Prev(b) => a = b
FoundIsSpender ==
  \A s \in Saver : At(s, "backfillWrite") =>
    saver[s].found \in txin /\ Prev(saver[s].found) = <<X(s), saver[s].i>>
Indexed == \A in \in Txin : Told(in) /\ Filled(Prev(in)) => spend[Prev(in)] = in

SpendInv == /\ TypeOK /\ StoredHasRow /\ KeptHasRow /\ OneSpender /\ FoundIsSpender
            /\ SpendSound /\ Indexed

-----------------------------------------------------------------------------
(* What the loops read is there: entries, inputs and outputs.                    *)
LEMMA EntryType ==
  ASSUME TypeOK, NEW s \in Saver, ~At(s, "idle")
  PROVE  /\ Head(saver[s].todo) \in Entry
         /\ X(s) \in Tx /\ Raw(s) \in BOOLEAN
         /\ Len(Inputs[X(s)]) \in Nat /\ Outputs[X(s)] \in Nat \ {0}
<1>1. saver[s].todo \in Seq(Entry) /\ saver[s].todo # <<>>
  BY DEF TypeOK, PlaceOK
<1>2. Head(saver[s].todo) \in Entry
  BY <1>1
<1>3. X(s) \in Tx /\ Raw(s) \in BOOLEAN
  BY <1>2 DEF X, Raw, Entry
<1>4. Inputs[X(s)] \in Seq(Tx \X Nat)
  BY <1>3, TransactionAssumption
<1> QED
  BY <1>2, <1>3, <1>4, TransactionAssumption

LEMMA TxinMember ==
  ASSUME NEW x \in Tx, NEW i \in 1 .. Len(Inputs[x])
  PROVE  <<x, i>> \in Txin /\ Prev(<<x, i>>) = Inputs[x][i] /\ Inputs[x][i] \in Outpoint
BY TransactionAssumption DEF Txin, Prev

LEMMA TxinParts ==
  ASSUME NEW in \in Txin
  PROVE  /\ in[1] \in Tx /\ in[2] \in 1 .. Len(Inputs[in[1]]) /\ in = <<in[1], in[2]>>
         /\ Prev(in) \in Outpoint
BY TransactionAssumption DEF Txin, Prev

LEMMA OutpointMember ==
  ASSUME NEW x \in Tx, NEW j \in 1 .. Outputs[x]
  PROVE  <<x, j>> \in Outpoint
BY DEF Outpoint

LEMMA OutpointParts ==
  ASSUME NEW o \in Outpoint
  PROVE  o[1] \in Tx /\ o[2] \in 1 .. Outputs[o[1]] /\ o = <<o[1], o[2]>>
BY DEF Outpoint

(* A move of one saver keeps the others and its own entries.                     *)
LEMMA MovesSaver ==
  ASSUME TypeOK, NEW s \in Saver, NEW pc, NEW i, Moves(s, pc, i)
  PROVE  /\ saver'[s].todo = saver[s].todo /\ saver'[s].pc = pc /\ saver'[s].i = i
         /\ saver'[s].found = Nothing
         /\ \A r \in Saver : r # s => saver'[r] = saver[r]
BY DEF TypeOK, Moves

LEMMA MovesType ==
  ASSUME TypeOK, NEW s \in Saver, ~At(s, "idle"),
         NEW pc \in Awaiting, NEW i \in Nat, Moves(s, pc, i),
         pc \in {"saveTxin", "updateSpend"} => Raw(s) /\ i \in 1 .. Len(Inputs[X(s)]),
         pc \in {"saveTxout", "backfillRead", "backfillWrite"} =>
           Raw(s) /\ i \in 1 .. Outputs[X(s)]
  PROVE  /\ saver' \in [Saver -> [todo : Seq(Entry), pc : Awaiting \cup {"idle"}, i : Nat,
                                  found : Txin \cup {Nothing}]]
         /\ \A r \in Saver : PlaceOK(r)'
<1>1. [saver[s] EXCEPT !.pc = pc, !.i = i, !.found = Nothing]
        \in [todo : Seq(Entry), pc : Awaiting \cup {"idle"}, i : Nat,
             found : Txin \cup {Nothing}]
  BY DEF TypeOK
<1>2. saver' = [saver EXCEPT ![s] = [saver[s] EXCEPT !.pc = pc, !.i = i, !.found = Nothing]]
  BY DEF Moves
<1>3. PlaceOK(s)'
  <2>1. saver[s].todo # <<>>
    BY DEF TypeOK, PlaceOK
  <2> QED
    BY <2>1, MovesSaver DEF PlaceOK, At, X, Raw
<1>4. ASSUME NEW r \in Saver, r # s PROVE PlaceOK(r)'
  <2>1. saver'[r] = saver[r]
    BY <1>4, MovesSaver
  <2> QED
    BY <2>1 DEF TypeOK, PlaceOK, At, X, Raw
<1> QED
  BY <1>1, <1>2, <1>3, <1>4 DEF TypeOK

(* The two loops go on inside their bounds or end.                               *)
LEMMA InputMoves ==
  ASSUME TypeOK, NEW s \in Saver, ~At(s, "idle"), Raw(s), NEW i \in Nat \ {0},
         NEW pc \in {"saveTxin", "updateSpend"}, NEW after \in {"saveTxmeta", "saveTxout"},
         Input(s, pc, i, after)
  PROVE  \/ Moves(s, pc, i) /\ i \in 1 .. Len(Inputs[X(s)])
         \/ Moves(s, after, 1) /\ i > Len(Inputs[X(s)])
BY EntryType DEF Input

LEMMA OutputMoves ==
  ASSUME TypeOK, NEW s \in Saver, saver[s].pc \in {"backfillRead", "backfillWrite"},
         NextOutput(s)
  PROVE  \/ /\ Moves(s, "saveTxout", saver[s].i + 1)
            /\ saver[s].i + 1 \in 1 .. Outputs[X(s)]
         \/ /\ Moves(s, "insertTxsync", 1)
            /\ saver[s].i = Outputs[X(s)]
<1>1. ~At(s, "idle") /\ saver[s].i \in 1 .. Outputs[X(s)]
  BY DEF TypeOK, PlaceOK, At
<1> QED
  BY <1>1, EntryType DEF NextOutput

-----------------------------------------------------------------------------
LEMMA TypeInit == Init => TypeOK
<1> SUFFICES ASSUME Init PROVE TypeOK
  OBVIOUS
<1>1. Idle \in [todo : Seq(Entry), pc : Awaiting \cup {"idle"}, i : Nat,
                found : Txin \cup {Nothing}]
  BY DEF Idle
<1> QED
  BY <1>1 DEF Init, TypeOK, PlaceOK, At, Idle

(* Steps that put a saver in a place without a loop index.                       *)
LEMMA PlaceType ==
  ASSUME TypeOK, NEW s \in Saver, NEW r \in {Idle} \cup [todo : Seq(Entry) \ {<<>>},
                   pc : {"saveTx"}, i : {1}, found : {Nothing}],
         saver' = [saver EXCEPT ![s] = r]
  PROVE  /\ saver' \in [Saver -> [todo : Seq(Entry), pc : Awaiting \cup {"idle"}, i : Nat,
                                  found : Txin \cup {Nothing}]]
         /\ \A q \in Saver : PlaceOK(q)'
<1>1. r \in [todo : Seq(Entry), pc : Awaiting \cup {"idle"}, i : Nat,
             found : Txin \cup {Nothing}]
  <2>1. CASE r = Idle
    BY <2>1 DEF Idle
  <2>2. CASE r \in [todo : Seq(Entry) \ {<<>>}, pc : {"saveTx"}, i : {1}, found : {Nothing}]
    BY <2>2 DEF Awaiting
  <2> QED
    BY <2>1, <2>2
<1>2. PlaceOK(s)'
  BY DEF TypeOK, PlaceOK, At, Idle
<1>3. ASSUME NEW q \in Saver, q # s PROVE PlaceOK(q)'
  <2>1. saver'[q] = saver[q]
    BY <1>3 DEF TypeOK
  <2> QED
    BY <2>1 DEF TypeOK, PlaceOK, At, X, Raw
<1> QED
  BY <1>1, <1>2, <1>3 DEF TypeOK

LEMMA TypeStep == TypeOK /\ [Next]_vars => TypeOK'
<1> SUFFICES ASSUME TypeOK, [Next]_vars PROVE TypeOK'
  OBVIOUS
<1>1. CASE UNCHANGED vars
  BY <1>1 DEF vars, TypeOK, PlaceOK, At, X, Raw
<1> SUFFICES ASSUME Next PROVE TypeOK'
  BY <1>1
<1> PICK s \in Saver : (\E request \in Requests : Starts(s, request)) \/ Step(s) \/ Fails(s)
  BY DEF Next
<1>2. ASSUME NEW request \in Requests, Starts(s, request) PROVE TypeOK'
  <2>1. [Idle EXCEPT !.todo = request, !.pc = "saveTx"]
          \in [todo : Seq(Entry) \ {<<>>}, pc : {"saveTx"}, i : {1}, found : {Nothing}]
    BY RequestAssumption DEF Idle
  <2> QED
    BY <1>2, <2>1, PlaceType DEF Starts, TypeOK
<1>3. CASE Fails(s)
  BY <1>3, PlaceType DEF Fails, TypeOK
<1>4. CASE SaveTx(s)
  <2>1. ~At(s, "idle")
    BY <1>4 DEF SaveTx, At
  <2>2. X(s) \in Tx
    BY <2>1, EntryType
  <2>3. tx' \in [Tx -> {"norow", "absent", "present"}]
    BY <1>4, <2>2 DEF SaveTx, TypeOK
  <2>4. \/ Raw(s) /\ Moves(s, "saveTxin", 1) /\ 1 \in 1 .. Len(Inputs[X(s)])
        \/ Moves(s, "saveTxmeta", 1)
    BY <1>4, <2>1, InputMoves DEF SaveTx
  <2>5. /\ saver' \in [Saver -> [todo : Seq(Entry), pc : Awaiting \cup {"idle"}, i : Nat,
                                 found : Txin \cup {Nothing}]]
        /\ \A q \in Saver : PlaceOK(q)'
    BY <2>1, <2>4, MovesType DEF Awaiting
  <2> QED
    BY <1>4, <2>3, <2>5 DEF SaveTx, TypeOK
<1>5. CASE SaveTxin(s)
  <2>1. ~At(s, "idle") /\ Raw(s) /\ saver[s].i \in 1 .. Len(Inputs[X(s)])
    BY <1>5 DEF SaveTxin, At, TypeOK, PlaceOK
  <2>2. <<X(s), saver[s].i>> \in Txin
    BY <2>1, EntryType, TxinMember
  <2>3. saver[s].i + 1 \in Nat \ {0}
    BY DEF TypeOK
  <2>4. CASE Input(s, "saveTxin", saver[s].i + 1, "saveTxmeta")
    <3>1. \/ /\ Moves(s, "saveTxin", saver[s].i + 1)
             /\ saver[s].i + 1 \in 1 .. Len(Inputs[X(s)])
          \/ Moves(s, "saveTxmeta", 1)
      BY <2>1, <2>3, <2>4, InputMoves
    <3>2. /\ saver' \in [Saver -> [todo : Seq(Entry), pc : Awaiting \cup {"idle"}, i : Nat,
                                   found : Txin \cup {Nothing}]]
          /\ \A q \in Saver : PlaceOK(q)'
      BY <2>1, <2>3, <3>1, MovesType DEF Awaiting
    <3> QED
      BY <1>5, <2>2, <3>2 DEF SaveTxin, TypeOK
  <2>5. CASE saver' = [saver EXCEPT ![s] = Idle]
    BY <1>5, <2>2, <2>5, PlaceType DEF SaveTxin, TypeOK
  <2> QED
    BY <1>5, <2>4, <2>5 DEF SaveTxin
<1>6. CASE SaveTxmeta(s)
  <2>1. ~At(s, "idle")
    BY <1>6 DEF SaveTxmeta, At
  <2>2. X(s) \in Tx
    BY <2>1, EntryType
  <2>3. \/ Raw(s) /\ Moves(s, "updateSpend", 1) /\ 1 \in 1 .. Len(Inputs[X(s)])
        \/ Raw(s) /\ Moves(s, "saveTxout", 1)
        \/ Moves(s, "insertTxsync", 1)
    BY <1>6, <2>1, InputMoves DEF SaveTxmeta
  <2>4. /\ saver' \in [Saver -> [todo : Seq(Entry), pc : Awaiting \cup {"idle"}, i : Nat,
                                 found : Txin \cup {Nothing}]]
        /\ \A q \in Saver : PlaceOK(q)'
    BY <2>1, <2>3, MovesType, EntryType DEF Awaiting
  <2> QED
    BY <1>6, <2>2, <2>4 DEF SaveTxmeta, TypeOK
<1>7. CASE UpdateSpend(s)
  <2>1. ~At(s, "idle") /\ Raw(s) /\ saver[s].i \in 1 .. Len(Inputs[X(s)])
    BY <1>7 DEF UpdateSpend, At, TypeOK, PlaceOK
  <2>2. <<X(s), saver[s].i>> \in Txin
    BY <2>1, EntryType, TxinMember
  <2>3. saver[s].i + 1 \in Nat \ {0}
    BY DEF TypeOK
  <2>4. \/ /\ Moves(s, "updateSpend", saver[s].i + 1)
           /\ saver[s].i + 1 \in 1 .. Len(Inputs[X(s)])
        \/ Moves(s, "saveTxout", 1)
    BY <1>7, <2>1, <2>3, InputMoves DEF UpdateSpend
  <2>5. /\ saver' \in [Saver -> [todo : Seq(Entry), pc : Awaiting \cup {"idle"}, i : Nat,
                                 found : Txin \cup {Nothing}]]
        /\ \A q \in Saver : PlaceOK(q)'
    BY <2>1, <2>3, <2>4, MovesType, EntryType DEF Awaiting
  <2>6. spend' \in [Outpoint -> Txin \cup {Nothing}]
    BY <1>7, <2>2 DEF UpdateSpend, Marked, TypeOK
  <2> QED
    BY <1>7, <2>5, <2>6 DEF UpdateSpend, TypeOK
<1>8. CASE SaveTxout(s)
  <2>1. ~At(s, "idle") /\ Raw(s) /\ saver[s].i \in 1 .. Outputs[X(s)]
    BY <1>8 DEF SaveTxout, At, TypeOK, PlaceOK
  <2>2. <<X(s), saver[s].i>> \in Outpoint
    BY <2>1, EntryType, OutpointMember
  <2>3. saver[s].i \in Nat
    BY DEF TypeOK
  <2>4. /\ saver' \in [Saver -> [todo : Seq(Entry), pc : Awaiting \cup {"idle"}, i : Nat,
                                 found : Txin \cup {Nothing}]]
        /\ \A q \in Saver : PlaceOK(q)'
    BY <1>8, <2>1, <2>3, MovesType DEF SaveTxout, Awaiting
  <2> QED
    BY <1>8, <2>2, <2>4 DEF SaveTxout, TypeOK
<1>9. ASSUME saver[s].pc \in {"backfillRead", "backfillWrite"}, NextOutput(s)
      PROVE  /\ saver' \in [Saver -> [todo : Seq(Entry), pc : Awaiting \cup {"idle"}, i : Nat,
                                      found : Txin \cup {Nothing}]]
             /\ \A q \in Saver : PlaceOK(q)'
  <2>1. ~At(s, "idle") /\ Raw(s) /\ saver[s].i + 1 \in Nat
    BY <1>9 DEF At, TypeOK, PlaceOK
  <2> QED
    BY <1>9, <2>1, OutputMoves, MovesType DEF Awaiting
<1>10. CASE BackfillRead(s)
  <2>1. CASE NextOutput(s)
    BY <1>9, <1>10, <2>1 DEF BackfillRead, At, TypeOK
  <2>2. ASSUME NEW in \in Spenders(<<X(s), saver[s].i>>),
               saver' = [saver EXCEPT ![s] = [@ EXCEPT !.pc = "backfillWrite", !.found = in]]
        PROVE  TypeOK'
    <3>1. in \in Txin
      BY <2>2 DEF Spenders, TypeOK
    <3>2. saver' \in [Saver -> [todo : Seq(Entry), pc : Awaiting \cup {"idle"}, i : Nat,
                                found : Txin \cup {Nothing}]]
      <4>1. [saver[s] EXCEPT !.pc = "backfillWrite", !.found = in]
              \in [todo : Seq(Entry), pc : Awaiting \cup {"idle"}, i : Nat,
                   found : Txin \cup {Nothing}]
        BY <3>1 DEF TypeOK, Awaiting
      <4> QED
        BY <2>2, <4>1 DEF TypeOK
    <3>3. ASSUME NEW q \in Saver PROVE PlaceOK(q)'
      BY <1>10, <2>2 DEF BackfillRead, TypeOK, PlaceOK, At, X, Raw
    <3> QED
      BY <1>10, <3>2, <3>3 DEF BackfillRead, TypeOK
  <2> QED
    BY <1>10, <2>1, <2>2 DEF BackfillRead
<1>11. CASE BackfillWrite(s)
  <2>1. spend' \in [Outpoint -> Txin \cup {Nothing}]
    BY <1>11 DEF BackfillWrite, Marked, TypeOK
  <2> QED
    BY <1>9, <1>11, <2>1 DEF BackfillWrite, At, TypeOK
<1>12. CASE InsertTxsync(s)
  <2>1. ~At(s, "idle")
    BY <1>12 DEF InsertTxsync, At
  <2>2. X(s) \in Tx
    BY <2>1, EntryType
  <2>3. saver[s].todo \in Seq(Entry) /\ saver[s].todo # <<>>
    BY <2>1 DEF TypeOK, PlaceOK
  <2>4. Tail(saver[s].todo) \in Seq(Entry)
    BY <2>3
  <2>5. CASE Tail(saver[s].todo) = <<>>
    BY <1>12, <2>2, <2>5, PlaceType DEF InsertTxsync, TypeOK
  <2>6. CASE Tail(saver[s].todo) # <<>>
    <3>1. [Idle EXCEPT !.todo = Tail(saver[s].todo), !.pc = "saveTx"]
            \in [todo : Seq(Entry) \ {<<>>}, pc : {"saveTx"}, i : {1}, found : {Nothing}]
      BY <2>4, <2>6 DEF Idle
    <3> QED
      BY <1>12, <2>2, <2>6, <3>1, PlaceType DEF InsertTxsync, TypeOK
  <2> QED
    BY <2>5, <2>6
<1> QED
  BY <1>2, <1>3, <1>4, <1>5, <1>6, <1>7, <1>8, <1>10, <1>11, <1>12 DEF Step

(* The tables and the places of the savers have their types.                     *)
THEOREM TypeCorrect == Spec => []TypeOK
BY TypeInit, TypeStep, PTL DEF Spec

-----------------------------------------------------------------------------
(* How a step moves the progress of the passes: what each set may gain.          *)
Progress(stored, told, kept, filled) ==
  /\ \A in \in Txin : Stored(in)' => Stored(in) \/ in \in stored
  /\ \A in \in Txin : Told(in)' => Told(in) \/ in \in told
  /\ \A o \in Outpoint : Kept(o)' => Kept(o) \/ o \in kept
  /\ \A o \in Outpoint : Filled(o)' => Filled(o) \/ o \in filled

(* It is enough to look at the pass of the saver that moves.                     *)
LEMMA ProgressOf ==
  ASSUME TypeOK, NEW s \in Saver, UNCHANGED saved,
         \A r \in Saver : r # s => saver'[r] = saver[r],
         NEW stored, NEW told, NEW kept, NEW filled,
         \A in \in Txin : PastTxin(s, in[2])' /\ X(s)' = in[1] =>
           (PastTxin(s, in[2]) /\ X(s) = in[1]) \/ in \in stored,
         \A in \in Txin : PastSpend(s, in[2])' /\ X(s)' = in[1] =>
           (PastSpend(s, in[2]) /\ X(s) = in[1]) \/ in \in told,
         \A o \in Outpoint : PastTxout(s, o[2])' /\ X(s)' = o[1] =>
           (PastTxout(s, o[2]) /\ X(s) = o[1]) \/ o \in kept,
         \A o \in Outpoint : PastBackfill(s, o[2])' /\ X(s)' = o[1] =>
           (PastBackfill(s, o[2]) /\ X(s) = o[1]) \/ o \in filled
  PROVE  Progress(stored, told, kept, filled)
<1>1. ASSUME NEW in \in Txin, Stored(in)' PROVE Stored(in) \/ in \in stored
  <2>1. CASE in[1] \in saved
    BY <2>1 DEF Stored
  <2>2. ASSUME NEW r \in Saver, PastTxin(r, in[2])', X(r)' = in[1]
        PROVE  Stored(in) \/ in \in stored
    BY <2>2 DEF Stored, PastTxin, X, Raw, At
  <2> QED
    BY <1>1, <2>1, <2>2 DEF Stored
<1>2. ASSUME NEW in \in Txin, Told(in)' PROVE Told(in) \/ in \in told
  <2>1. CASE in[1] \in saved
    BY <2>1 DEF Told
  <2>2. ASSUME NEW r \in Saver, PastSpend(r, in[2])', X(r)' = in[1]
        PROVE  Told(in) \/ in \in told
    BY <2>2 DEF Told, PastSpend, X, Raw, At
  <2> QED
    BY <1>2, <2>1, <2>2 DEF Told
<1>3. ASSUME NEW o \in Outpoint, Kept(o)' PROVE Kept(o) \/ o \in kept
  <2>1. CASE o[1] \in saved
    BY <2>1 DEF Kept
  <2>2. ASSUME NEW r \in Saver, PastTxout(r, o[2])', X(r)' = o[1]
        PROVE  Kept(o) \/ o \in kept
    BY <2>2 DEF Kept, PastTxout, X, Raw, At
  <2> QED
    BY <1>3, <2>1, <2>2 DEF Kept
<1>4. ASSUME NEW o \in Outpoint, Filled(o)' PROVE Filled(o) \/ o \in filled
  <2>1. CASE o[1] \in saved
    BY <2>1 DEF Filled
  <2>2. ASSUME NEW r \in Saver, PastBackfill(r, o[2])', X(r)' = o[1]
        PROVE  Filled(o) \/ o \in filled
    BY <2>2 DEF Filled, PastBackfill, X, Raw, At
  <2> QED
    BY <1>4, <2>1, <2>2 DEF Filled
<1> QED
  BY <1>1, <1>2, <1>3, <1>4 DEF Progress

LEMMA StartsProgress ==
  ASSUME TypeOK, NEW s \in Saver, NEW request \in Requests, Starts(s, request)
  PROVE  Progress({}, {}, {}, {})
<1>1. saver'[s].pc = "saveTx" /\ \A r \in Saver : r # s => saver'[r] = saver[r]
  BY DEF Starts, Idle, TypeOK
<1> QED
  BY <1>1, ProgressOf DEF Starts, PastTxin, PastSpend, PastTxout, PastBackfill, At

LEMMA FailsProgress ==
  ASSUME TypeOK, NEW s \in Saver, UNCHANGED saved, saver' = [saver EXCEPT ![s] = Idle]
  PROVE  Progress({}, {}, {}, {})
<1>1. saver'[s].pc = "idle" /\ \A r \in Saver : r # s => saver'[r] = saver[r]
  BY DEF Idle, TypeOK
<1> QED
  BY <1>1, ProgressOf DEF PastTxin, PastSpend, PastTxout, PastBackfill, At

LEMMA SaveTxProgress ==
  ASSUME TypeOK, NEW s \in Saver, SaveTx(s)
  PROVE  Progress({}, {}, {}, {})
<1>1. ~At(s, "idle")
  BY DEF SaveTx, At
<1>2. \/ Moves(s, "saveTxin", 1)
      \/ Moves(s, "saveTxmeta", 1) /\ (Raw(s) => 1 > Len(Inputs[X(s)]))
  BY <1>1, InputMoves DEF SaveTx
<1>3. X(s)' = X(s) /\ Raw(s)' = Raw(s)
  BY <1>2, MovesSaver DEF X, Raw
<1>4. ASSUME NEW in \in Txin, X(s)' = in[1] PROVE ~PastTxin(s, in[2])'
  <2>1. in[2] \in 1 .. Len(Inputs[X(s)]) /\ Len(Inputs[X(s)]) \in Nat
    BY <1>1, <1>3, <1>4, EntryType, TxinParts
  <2> QED
    BY <1>2, <1>3, <2>1, MovesSaver DEF PastTxin, At
<1>5. /\ \A i : ~PastSpend(s, i)' /\ ~PastTxout(s, i)' /\ ~PastBackfill(s, i)'
      /\ \A r \in Saver : r # s => saver'[r] = saver[r]
  BY <1>2, MovesSaver DEF PastSpend, PastTxout, PastBackfill, At
<1>6. UNCHANGED saved
  BY DEF SaveTx
<1> QED
  BY <1>4, <1>5, <1>6, ProgressOf

LEMMA SaveTxinProgress ==
  ASSUME TypeOK, NEW s \in Saver, SaveTxin(s)
  PROVE  \/ Progress({<<X(s), saver[s].i>>}, {}, {}, {}) /\ <<X(s), saver[s].i>> \in txin'
         \/ Progress({}, {}, {}, {})
<1>1. ~At(s, "idle") /\ Raw(s) /\ saver[s].i \in 1 .. Len(Inputs[X(s)])
  BY DEF SaveTxin, At, TypeOK, PlaceOK
<1>2. UNCHANGED saved
  BY DEF SaveTxin
<1>3. CASE saver' = [saver EXCEPT ![s] = Idle]
  BY <1>2, <1>3, FailsProgress
<1>4. CASE /\ Input(s, "saveTxin", saver[s].i + 1, "saveTxmeta")
           /\ txin' = txin \cup {<<X(s), saver[s].i>>}
  <2>1. saver[s].i + 1 \in Nat \ {0} /\ saver[s].i \in Nat
    BY DEF TypeOK
  <2>2. \/ Moves(s, "saveTxin", saver[s].i + 1)
        \/ Moves(s, "saveTxmeta", 1) /\ saver[s].i + 1 > Len(Inputs[X(s)])
    BY <1>1, <1>4, <2>1, InputMoves
  <2>3. X(s)' = X(s) /\ Raw(s)' = Raw(s)
    BY <2>2, MovesSaver DEF X, Raw
  <2>4. ASSUME NEW in \in Txin, X(s)' = in[1], PastTxin(s, in[2])'
        PROVE  PastTxin(s, in[2]) \/ in \in {<<X(s), saver[s].i>>}
    <3>1. /\ in[2] \in 1 .. Len(Inputs[X(s)]) /\ Len(Inputs[X(s)]) \in Nat
          /\ in = <<X(s), in[2]>>
      BY <1>1, <2>3, <2>4, EntryType, TxinParts
    <3>2. in[2] < saver[s].i \/ in[2] = saver[s].i
      BY <2>1, <2>2, <2>4, <3>1, MovesSaver DEF PastTxin, At
    <3> QED
      BY <3>1, <3>2 DEF PastTxin, SaveTxin
  <2>5. /\ \A i : ~PastSpend(s, i)' /\ ~PastTxout(s, i)' /\ ~PastBackfill(s, i)'
        /\ \A r \in Saver : r # s => saver'[r] = saver[r]
    BY <2>2, MovesSaver DEF PastSpend, PastTxout, PastBackfill, At
  <2>6. Progress({<<X(s), saver[s].i>>}, {}, {}, {})
    BY <1>2, <2>3, <2>4, <2>5, ProgressOf
  <2> QED
    BY <1>4, <2>6
<1> QED
  BY <1>3, <1>4 DEF SaveTxin

LEMMA SaveTxmetaProgress ==
  ASSUME TypeOK, NEW s \in Saver, SaveTxmeta(s)
  PROVE  Progress({}, {}, {}, {})
<1>1. ~At(s, "idle") /\ At(s, "saveTxmeta") /\ UNCHANGED saved
  BY DEF SaveTxmeta, At
<1>2. \/ Moves(s, "updateSpend", 1)
      \/ Moves(s, "saveTxout", 1) /\ 1 > Len(Inputs[X(s)])
      \/ Moves(s, "insertTxsync", 1) /\ ~Raw(s)
  BY <1>1, InputMoves DEF SaveTxmeta
<1>3. X(s)' = X(s) /\ Raw(s)' = Raw(s)
  BY <1>2, MovesSaver DEF X, Raw
<1>4. ASSUME NEW in \in Txin, X(s)' = in[1] PROVE ~PastSpend(s, in[2])'
  <2>1. in[2] \in 1 .. Len(Inputs[X(s)]) /\ Len(Inputs[X(s)]) \in Nat
    BY <1>1, <1>3, <1>4, EntryType, TxinParts
  <2> QED
    BY <1>2, <1>3, <2>1, MovesSaver DEF PastSpend, At
<1>5. ASSUME NEW o \in Outpoint, X(s)' = o[1]
      PROVE  ~PastTxout(s, o[2])' /\ ~PastBackfill(s, o[2])'
  <2>1. o[2] \in 1 .. Outputs[X(s)] /\ Outputs[X(s)] \in Nat
    BY <1>1, <1>3, <1>5, EntryType, OutpointParts
  <2> QED
    BY <1>2, <1>3, <2>1, MovesSaver DEF PastTxout, PastBackfill, At
<1>6. \A i : PastTxin(s, i)' => PastTxin(s, i)
  BY <1>1, <1>2, <1>3, MovesSaver DEF PastTxin, At
<1>7. \A r \in Saver : r # s => saver'[r] = saver[r]
  BY <1>2, MovesSaver
<1> QED
  BY <1>1, <1>3, <1>4, <1>5, <1>6, <1>7, ProgressOf

LEMMA UpdateSpendProgress ==
  ASSUME TypeOK, NEW s \in Saver, UpdateSpend(s)
  PROVE  Progress({}, {<<X(s), saver[s].i>>}, {}, {})
<1>1. ~At(s, "idle") /\ Raw(s) /\ saver[s].i \in 1 .. Len(Inputs[X(s)])
  BY DEF UpdateSpend, At, TypeOK, PlaceOK
<1>2. saver[s].i + 1 \in Nat \ {0} /\ saver[s].i \in Nat
  BY DEF TypeOK
<1>3. \/ Moves(s, "updateSpend", saver[s].i + 1)
      \/ Moves(s, "saveTxout", 1) /\ saver[s].i + 1 > Len(Inputs[X(s)])
  BY <1>1, <1>2, InputMoves DEF UpdateSpend
<1>4. X(s)' = X(s) /\ Raw(s)' = Raw(s)
  BY <1>3, MovesSaver DEF X, Raw
<1>5. ASSUME NEW in \in Txin, X(s)' = in[1], PastSpend(s, in[2])'
      PROVE  PastSpend(s, in[2]) \/ in \in {<<X(s), saver[s].i>>}
  <2>1. /\ in[2] \in 1 .. Len(Inputs[X(s)]) /\ Len(Inputs[X(s)]) \in Nat
        /\ in = <<X(s), in[2]>>
    BY <1>1, <1>4, <1>5, EntryType, TxinParts
  <2>2. in[2] < saver[s].i \/ in[2] = saver[s].i
    BY <1>2, <1>3, <1>5, <2>1, MovesSaver DEF PastSpend, At
  <2> QED
    BY <2>1, <2>2 DEF PastSpend, UpdateSpend
<1>6. ASSUME NEW o \in Outpoint, X(s)' = o[1]
      PROVE  ~PastTxout(s, o[2])' /\ ~PastBackfill(s, o[2])'
  <2>1. o[2] \in 1 .. Outputs[X(s)] /\ Outputs[X(s)] \in Nat
    BY <1>1, <1>4, <1>6, EntryType, OutpointParts
  <2> QED
    BY <1>3, <1>4, <2>1, MovesSaver DEF PastTxout, PastBackfill, At
<1>7. \A i : PastTxin(s, i)
  BY <1>1 DEF UpdateSpend, PastTxin, At
<1>8. UNCHANGED saved /\ \A r \in Saver : r # s => saver'[r] = saver[r]
  BY <1>3, MovesSaver DEF UpdateSpend
<1> QED
  BY <1>4, <1>5, <1>6, <1>7, <1>8, ProgressOf

LEMMA SaveTxoutProgress ==
  ASSUME TypeOK, NEW s \in Saver, SaveTxout(s)
  PROVE  Progress({}, {}, {<<X(s), saver[s].i>>}, {})
<1>1. /\ ~At(s, "idle") /\ At(s, "saveTxout") /\ Raw(s)
      /\ saver[s].i \in 1 .. Outputs[X(s)]
  BY DEF SaveTxout, At, TypeOK, PlaceOK
<1>2. Moves(s, "backfillRead", saver[s].i) /\ saver[s].i \in Nat
  BY DEF SaveTxout, TypeOK
<1>3. X(s)' = X(s) /\ Raw(s)' = Raw(s)
  BY <1>2, MovesSaver DEF X, Raw
<1>4. (\A i : PastTxin(s, i)) /\ (\A i : PastSpend(s, i))
  BY <1>1 DEF PastTxin, PastSpend, At
<1>5. ASSUME NEW o \in Outpoint, X(s)' = o[1]
      PROVE  /\ PastTxout(s, o[2])' => PastTxout(s, o[2]) \/ o \in {<<X(s), saver[s].i>>}
             /\ PastBackfill(s, o[2])' => PastBackfill(s, o[2])
  <2>1. /\ o[2] \in 1 .. Outputs[X(s)] /\ Outputs[X(s)] \in Nat
        /\ o = <<X(s), o[2]>>
    BY <1>1, <1>3, <1>5, EntryType, OutpointParts
  <2>2. PastTxout(s, o[2])' => o[2] < saver[s].i \/ o[2] = saver[s].i
    BY <1>2, <2>1, MovesSaver DEF PastTxout, At
  <2>3. PastBackfill(s, o[2])' => o[2] < saver[s].i
    BY <1>2, MovesSaver DEF PastBackfill, At
  <2> QED
    BY <1>1, <2>1, <2>2, <2>3 DEF PastTxout, PastBackfill, At
<1>6. UNCHANGED saved /\ \A r \in Saver : r # s => saver'[r] = saver[r]
  BY <1>2, MovesSaver DEF SaveTxout
<1> QED
  BY <1>3, <1>4, <1>5, <1>6, ProgressOf

LEMMA NextOutputProgress ==
  ASSUME TypeOK, NEW s \in Saver, saver[s].pc \in {"backfillRead", "backfillWrite"},
         NextOutput(s), UNCHANGED saved
  PROVE  Progress({}, {}, {}, {<<X(s), saver[s].i>>})
<1>1. ~At(s, "idle") /\ Raw(s) /\ saver[s].i \in 1 .. Outputs[X(s)]
  BY DEF At, TypeOK, PlaceOK
<1>2. saver[s].i \in Nat
  BY DEF TypeOK
<1>3. \/ Moves(s, "saveTxout", saver[s].i + 1)
      \/ Moves(s, "insertTxsync", 1) /\ saver[s].i = Outputs[X(s)]
  BY OutputMoves
<1>4. X(s)' = X(s) /\ Raw(s)' = Raw(s)
  BY <1>3, MovesSaver DEF X, Raw
<1>5. (\A i : PastTxin(s, i)) /\ (\A i : PastSpend(s, i))
  BY <1>1 DEF PastTxin, PastSpend, At
<1>6. ASSUME NEW o \in Outpoint, X(s)' = o[1]
      PROVE  /\ PastTxout(s, o[2])' => PastTxout(s, o[2])
             /\ PastBackfill(s, o[2])' =>
                  PastBackfill(s, o[2]) \/ o \in {<<X(s), saver[s].i>>}
  <2>1. /\ o[2] \in 1 .. Outputs[X(s)] /\ Outputs[X(s)] \in Nat
        /\ o = <<X(s), o[2]>>
    BY <1>1, <1>4, <1>6, EntryType, OutpointParts
  <2>2. PastTxout(s, o[2])' => o[2] <= saver[s].i
    BY <1>2, <1>3, <2>1, MovesSaver DEF PastTxout, At
  <2>3. PastBackfill(s, o[2])' => o[2] < saver[s].i \/ o[2] = saver[s].i
    BY <1>2, <1>3, <2>1, MovesSaver DEF PastBackfill, At
  <2> QED
    BY <2>1, <2>2, <2>3 DEF PastTxout, PastBackfill, At
<1>7. \A r \in Saver : r # s => saver'[r] = saver[r]
  BY <1>3, MovesSaver
<1> QED
  BY <1>4, <1>5, <1>6, <1>7, ProgressOf

LEMMA FoundProgress ==
  ASSUME TypeOK, NEW s \in Saver, At(s, "backfillRead"), NEW in, UNCHANGED saved,
         saver' = [saver EXCEPT ![s] = [@ EXCEPT !.pc = "backfillWrite", !.found = in]]
  PROVE  Progress({}, {}, {}, {})
<1>1. saver' = [saver EXCEPT ![s] = [saver[s] EXCEPT !.pc = "backfillWrite", !.found = in]]
  OBVIOUS
<1>2. /\ saver'[s].todo = saver[s].todo /\ saver'[s].pc = "backfillWrite"
      /\ saver'[s].i = saver[s].i
      /\ \A r \in Saver : r # s => saver'[r] = saver[r]
  BY <1>1 DEF TypeOK
<1>3. X(s)' = X(s) /\ Raw(s)' = Raw(s)
  BY <1>2 DEF X, Raw
<1>4. \A i : /\ PastTxin(s, i)' => PastTxin(s, i)
             /\ PastSpend(s, i)' => PastSpend(s, i)
             /\ PastTxout(s, i)' => PastTxout(s, i)
             /\ PastBackfill(s, i)' => PastBackfill(s, i)
  BY <1>2, <1>3 DEF PastTxin, PastSpend, PastTxout, PastBackfill, At
<1> QED
  BY <1>2, <1>3, <1>4, ProgressOf

(* The end of a pass hands its progress over from its place to saved.            *)
LEMMA InsertTxsyncProgress ==
  ASSUME TypeOK, NEW s \in Saver, InsertTxsync(s)
  PROVE  Progress({}, {}, {}, {})
<1>1. At(s, "insertTxsync") /\ saver[s].pc = "insertTxsync"
  BY DEF InsertTxsync, At
<1>2. saver'[s].pc \in {"idle", "saveTx"} /\ \A r \in Saver : r # s => saver'[r] = saver[r]
  BY DEF InsertTxsync, Idle, TypeOK
<1>3. \A i : ~PastTxin(s, i)' /\ ~PastSpend(s, i)' /\ ~PastTxout(s, i)' /\ ~PastBackfill(s, i)'
  BY <1>2 DEF PastTxin, PastSpend, PastTxout, PastBackfill, At
<1>4. \A r \in Saver : r # s =>
        /\ X(r)' = X(r)
        /\ \A i : /\ PastTxin(r, i)' = PastTxin(r, i)
                  /\ PastSpend(r, i)' = PastSpend(r, i)
                  /\ PastTxout(r, i)' = PastTxout(r, i)
                  /\ PastBackfill(r, i)' = PastBackfill(r, i)
  BY <1>2 DEF PastTxin, PastSpend, PastTxout, PastBackfill, At, X, Raw
<1>5. Raw(s) => \A i : PastTxin(s, i) /\ PastSpend(s, i) /\ PastTxout(s, i) /\ PastBackfill(s, i)
  BY <1>1 DEF PastTxin, PastSpend, PastTxout, PastBackfill, At
<1>6. \A x : x \in saved' => x \in saved \/ (Raw(s) /\ x = X(s))
  BY DEF InsertTxsync
<1>7. ASSUME NEW in \in Txin PROVE /\ Stored(in)' => Stored(in)
                                   /\ Told(in)' => Told(in)
  BY <1>3, <1>4, <1>5, <1>6 DEF Stored, Told
<1>8. ASSUME NEW o \in Outpoint PROVE /\ Kept(o)' => Kept(o)
                                      /\ Filled(o)' => Filled(o)
  BY <1>3, <1>4, <1>5, <1>6 DEF Kept, Filled
<1> QED
  BY <1>7, <1>8 DEF Progress

-----------------------------------------------------------------------------
LEMMA ToldStored ==
  ASSUME TypeOK, NEW in \in Txin, Told(in)
  PROVE  Stored(in)
BY DEF Told, Stored, PastSpend, PastTxin, At, TypeOK, PlaceOK

LEMMA FilledKept ==
  ASSUME TypeOK, NEW o \in Outpoint, Filled(o)
  PROVE  Kept(o)
<1>1. ASSUME NEW s \in Saver, PastBackfill(s, o[2]), X(s) = o[1]
      PROVE  PastTxout(s, o[2])
  <2>1. saver[s].i \in Nat /\ o[2] \in Nat
    BY OutpointParts, TransactionAssumption DEF TypeOK
  <2> QED
    BY <1>1, <2>1 DEF PastBackfill, PastTxout, At
<1> QED
  BY <1>1 DEF Filled, Kept

LEMMA SpendInit == Init => SpendInv
<1> SUFFICES ASSUME Init PROVE SpendInv
  OBVIOUS
<1>1. \A s \in Saver : saver[s].pc = "idle"
  BY DEF Init, Idle
<1>2. \A s \in Saver : \A i : ~PastTxin(s, i) /\ ~PastTxout(s, i) /\ ~PastSpend(s, i)
  BY <1>1 DEF PastTxin, PastTxout, PastSpend, At
<1>3. (\A in \in Txin : ~Stored(in) /\ ~Told(in)) /\ \A o \in Outpoint : ~Kept(o)
  BY <1>2 DEF Init, Stored, Told, Kept
<1>4. FoundIsSpender
  BY <1>1 DEF FoundIsSpender, At
<1>5. SpendSound /\ OneSpender
  BY DEF Init, SpendSound, OneSpender
<1> QED
  BY <1>3, <1>4, <1>5, TypeInit DEF SpendInv, StoredHasRow, KeptHasRow, Indexed

(* A step that touches no table of the index.                                    *)
LEMMA QuietKeeps ==
  ASSUME SpendInv, Progress({}, {}, {}, {}), UNCHANGED <<txin, txout, spend>>
  PROVE  (StoredHasRow /\ KeptHasRow /\ OneSpender /\ SpendSound /\ Indexed)'
<1>1. StoredHasRow' /\ KeptHasRow'
  BY DEF SpendInv, Progress, StoredHasRow, KeptHasRow
<1>2. OneSpender' /\ SpendSound'
  BY DEF SpendInv, OneSpender, SpendSound, Prev
<1>3. ASSUME NEW in \in Txin, Told(in)', Filled(Prev(in))'
      PROVE  spend[Prev(in)] = in
  <2>1. Told(in) /\ Filled(Prev(in))
    BY <1>3, TxinParts DEF Progress
  <2> QED
    BY <2>1 DEF SpendInv, Indexed
<1> QED
  BY <1>1, <1>2, <1>3 DEF Indexed, Prev

LEMMA FoundKeeps ==
  ASSUME TypeOK, FoundIsSpender, NEW s \in Saver, txin \subseteq txin',
         \A r \in Saver : r # s => saver'[r] = saver[r],
         saver'[s].pc # "backfillWrite"
  PROVE  FoundIsSpender'
<1> SUFFICES ASSUME NEW r \in Saver, At(r, "backfillWrite")'
             PROVE  /\ saver'[r].found \in txin'
                    /\ Prev(saver'[r].found) = <<X(r)', saver'[r].i>>
  BY DEF FoundIsSpender, Prev, At
<1>1. r # s
  BY DEF At
<1>2. saver'[r] = saver[r]
  BY <1>1
<1> QED
  BY <1>2 DEF FoundIsSpender, At, X

LEMMA MovesFound ==
  ASSUME TypeOK, FoundIsSpender, NEW s \in Saver, txin \subseteq txin',
         NEW pc, NEW i, Moves(s, pc, i), pc # "backfillWrite"
  PROVE  FoundIsSpender'
BY MovesSaver, FoundKeeps

(* The UPDATE of the index, by the child or by the parent, with a stored spender.*)
LEMMA MarkKeeps ==
  ASSUME SpendInv, NEW in \in txin, UNCHANGED <<txin, txout>>,
         spend' = Marked(Prev(in), in)
  PROVE  /\ SpendSound'
         /\ \A o \in Outpoint : spend[o] # Nothing => spend'[o] = spend[o]
         /\ Prev(in) \in txout => spend'[Prev(in)] = in
<1>1. in \in Txin /\ Prev(in) \in Outpoint
  BY TxinParts DEF SpendInv, TypeOK
<1>2. \A o \in Outpoint : spend'[o] = IF o = Prev(in) /\ o \in txout THEN in ELSE spend[o]
  BY <1>1 DEF Marked, SpendInv, TypeOK
<1>3. \A o \in Outpoint : spend[o] # Nothing => spend'[o] = spend[o]
  BY <1>2 DEF SpendInv, SpendSound, OneSpender
<1>4. SpendSound'
  BY <1>2 DEF SpendInv, SpendSound, Prev
<1> QED
  BY <1>1, <1>2, <1>3, <1>4

(* What was indexed stays indexed when spenders are only added.                  *)
LEMMA IndexedKeeps ==
  ASSUME SpendInv, NEW in \in Txin, Told(in), Filled(Prev(in)),
         \A o \in Outpoint : spend[o] # Nothing => spend'[o] = spend[o]
  PROVE  spend'[Prev(in)] = in
<1>1. spend[Prev(in)] = in /\ Prev(in) \in Outpoint
  BY TxinParts DEF SpendInv, Indexed
<1>2. in # Nothing
  BY NothingAssumption
<1> QED
  BY <1>1, <1>2

-----------------------------------------------------------------------------
LEMMA SaveTxinKeeps ==
  ASSUME SpendInv, TypeOK', NEW s \in Saver, SaveTxin(s)
  PROVE  SpendInv'
<1> DEFINE in == <<X(s), saver[s].i>>
<1>1. ~At(s, "idle") /\ Raw(s) /\ saver[s].i \in 1 .. Len(Inputs[X(s)])
  BY DEF SaveTxin, At, SpendInv, TypeOK, PlaceOK
<1>2. in \in Txin
  BY <1>1, EntryType, TxinMember DEF SpendInv
<1>3. UNCHANGED <<txout, spend, saved>>
  BY DEF SaveTxin
<1>4. CASE saver' = [saver EXCEPT ![s] = Idle] /\ UNCHANGED txin
  <2>1. FoundIsSpender'
    BY <1>4, FoundKeeps DEF SpendInv, TypeOK, Idle
  <2> QED
    BY <1>3, <1>4, <2>1, FailsProgress, QuietKeeps DEF SpendInv
<1>5. CASE /\ in \in txin \/ ~Conflicts(in)
           /\ txin' = txin \cup {in}
           /\ Input(s, "saveTxin", saver[s].i + 1, "saveTxmeta")
  <2>1. OneSpender'
    BY <1>5 DEF SpendInv, OneSpender, Conflicts, Prev
  <2>2. FoundIsSpender'
    <3>1. saver[s].i + 1 \in Nat \ {0}
      BY DEF SpendInv, TypeOK
    <3>2. Moves(s, "saveTxin", saver[s].i + 1) \/ Moves(s, "saveTxmeta", 1)
      BY <1>1, <1>5, <3>1, InputMoves DEF SpendInv
    <3> QED
      BY <1>5, <3>2, MovesFound DEF SpendInv
  <2>3. SpendSound'
    BY <1>3, <1>5 DEF SpendInv, SpendSound, Prev
  <2>4. /\ \A q \in Txin : Stored(q)' => Stored(q) \/ q = in
        /\ \A q \in Txin : Told(q)' => Told(q)
        /\ \A o \in Outpoint : Kept(o)' => Kept(o)
        /\ \A o \in Outpoint : Filled(o)' => Filled(o)
    BY SaveTxinProgress DEF Progress, SpendInv
  <2>5. StoredHasRow' /\ KeptHasRow'
    BY <1>3, <1>5, <2>4 DEF SpendInv, StoredHasRow, KeptHasRow
  <2>6. Indexed'
    BY <1>3, <2>4, TxinParts DEF SpendInv, Indexed, Prev
  <2> QED
    BY <2>1, <2>2, <2>3, <2>5, <2>6 DEF SpendInv
<1> QED
  BY <1>4, <1>5 DEF SaveTxin

LEMMA UpdateSpendKeeps ==
  ASSUME SpendInv, TypeOK', NEW s \in Saver, UpdateSpend(s)
  PROVE  /\ SpendInv'
         /\ \A o \in Outpoint : spend[o] # Nothing => spend'[o] = spend[o]
<1> DEFINE in == <<X(s), saver[s].i>>
<1>1. ~At(s, "idle") /\ Raw(s) /\ saver[s].i \in 1 .. Len(Inputs[X(s)])
  BY DEF UpdateSpend, At, SpendInv, TypeOK, PlaceOK
<1>2. in \in Txin
  BY <1>1, EntryType, TxinMember DEF SpendInv
<1>3. UNCHANGED <<txin, txout, saved>> /\ spend' = Marked(Prev(in), in)
  BY DEF UpdateSpend
<1>4. PastTxin(s, in[2]) /\ X(s) = in[1]
  BY <1>1 DEF UpdateSpend, PastTxin, At
<1>5. in \in txin
  BY <1>2, <1>4 DEF SpendInv, StoredHasRow, Stored
<1> HIDE DEF in
<1>6. /\ SpendSound'
      /\ \A o \in Outpoint : spend[o] # Nothing => spend'[o] = spend[o]
      /\ Prev(in) \in txout => spend'[Prev(in)] = in
  BY <1>3, <1>5, MarkKeeps
<1>7. FoundIsSpender'
  <2>1. saver[s].i + 1 \in Nat \ {0}
    BY DEF SpendInv, TypeOK
  <2>2. Moves(s, "updateSpend", saver[s].i + 1) \/ Moves(s, "saveTxout", 1)
    BY <1>1, <2>1, InputMoves DEF SpendInv, UpdateSpend
  <2> QED
    BY <1>3, <2>2, MovesFound DEF SpendInv
<1>8. /\ \A q \in Txin : Stored(q)' => Stored(q)
      /\ \A q \in Txin : Told(q)' => Told(q) \/ q = in
      /\ \A o \in Outpoint : Kept(o)' => Kept(o)
      /\ \A o \in Outpoint : Filled(o)' => Filled(o)
  BY UpdateSpendProgress DEF Progress, SpendInv, in
<1>9. StoredHasRow' /\ KeptHasRow' /\ OneSpender'
  BY <1>3, <1>8 DEF SpendInv, StoredHasRow, KeptHasRow, OneSpender, Prev
<1>10. ASSUME NEW q \in Txin, Told(q)', Filled(Prev(q))'
       PROVE  spend'[Prev(q)] = q
  <2>1. Filled(Prev(q)) /\ Prev(q) \in Outpoint
    BY <1>8, <1>10, TxinParts
  <2>2. CASE Told(q)
    BY <1>6, <2>1, <2>2, IndexedKeeps
  <2>3. CASE q = in
    BY <1>6, <2>1, <2>3, FilledKept DEF SpendInv, KeptHasRow
  <2> QED
    BY <1>8, <1>10, <2>2, <2>3
<1> QED
  BY <1>6, <1>7, <1>9, <1>10 DEF SpendInv, Indexed, Prev

LEMMA SaveTxoutKeeps ==
  ASSUME SpendInv, TypeOK', NEW s \in Saver, SaveTxout(s)
  PROVE  SpendInv'
<1>1. /\ UNCHANGED <<txin, spend, saved>> /\ txout' = txout \cup {<<X(s), saver[s].i>>}
      /\ Moves(s, "backfillRead", saver[s].i)
  BY DEF SaveTxout
<1>2. /\ \A q \in Txin : Stored(q)' => Stored(q)
      /\ \A q \in Txin : Told(q)' => Told(q)
      /\ \A o \in Outpoint : Kept(o)' => Kept(o) \/ o = <<X(s), saver[s].i>>
      /\ \A o \in Outpoint : Filled(o)' => Filled(o)
  BY SaveTxoutProgress DEF Progress, SpendInv
<1>3. StoredHasRow' /\ KeptHasRow' /\ OneSpender' /\ SpendSound'
  BY <1>1, <1>2 DEF SpendInv, StoredHasRow, KeptHasRow, OneSpender, SpendSound, Prev
<1>4. Indexed'
  BY <1>1, <1>2, TxinParts DEF SpendInv, Indexed, Prev
<1>5. FoundIsSpender'
  BY <1>1, MovesFound DEF SpendInv
<1> QED
  BY <1>3, <1>4, <1>5 DEF SpendInv

(* The output whose backfill ends has no stored spender, or the index names it.  *)
LEMMA BackfillKeeps ==
  ASSUME SpendInv, TypeOK', NEW s \in Saver, NextOutput(s),
         saver[s].pc \in {"backfillRead", "backfillWrite"},
         UNCHANGED <<txin, txout, saved>>, SpendSound',
         \A o \in Outpoint : spend[o] # Nothing => spend'[o] = spend[o],
         \A in \in txin : Prev(in) = <<X(s), saver[s].i>> => spend'[Prev(in)] = in
  PROVE  SpendInv'
<1>1. /\ \A q \in Txin : Stored(q)' => Stored(q)
      /\ \A q \in Txin : Told(q)' => Told(q)
      /\ \A o \in Outpoint : Kept(o)' => Kept(o)
      /\ \A o \in Outpoint : Filled(o)' => Filled(o) \/ o = <<X(s), saver[s].i>>
  BY NextOutputProgress DEF Progress, SpendInv
<1>2. StoredHasRow' /\ KeptHasRow' /\ OneSpender'
  BY <1>1 DEF SpendInv, StoredHasRow, KeptHasRow, OneSpender, Prev
<1>3. FoundIsSpender'
  BY OutputMoves, MovesFound DEF SpendInv
<1>4. ASSUME NEW q \in Txin, Told(q)', Filled(Prev(q))'
      PROVE  spend'[Prev(q)] = q
  <2>1. Told(q) /\ q \in txin
    BY <1>1, <1>4, ToldStored DEF SpendInv, StoredHasRow
  <2>2. CASE Filled(Prev(q))
    BY <2>1, <2>2, IndexedKeeps
  <2>3. CASE Prev(q) = <<X(s), saver[s].i>>
    BY <2>1, <2>3
  <2> QED
    BY <1>1, <1>4, <2>2, <2>3, TxinParts
<1> QED
  BY <1>2, <1>3, <1>4 DEF SpendInv, Indexed, Prev

LEMMA BackfillReadKeeps ==
  ASSUME SpendInv, TypeOK', NEW s \in Saver, BackfillRead(s)
  PROVE  SpendInv'
<1>1. UNCHANGED <<txin, txout, spend, saved>> /\ At(s, "backfillRead")
  BY DEF BackfillRead
<1>2. CASE NextOutput(s) /\ Spenders(<<X(s), saver[s].i>>) = {}
  <2>1. SpendSound'
    BY <1>1 DEF SpendInv, SpendSound, Prev
  <2>2. \A in \in txin : Prev(in) # <<X(s), saver[s].i>>
    BY <1>2 DEF Spenders
  <2> QED
    BY <1>1, <1>2, <2>1, <2>2, BackfillKeeps DEF At
<1>3. ASSUME NEW in \in Spenders(<<X(s), saver[s].i>>),
             saver' = [saver EXCEPT ![s] = [@ EXCEPT !.pc = "backfillWrite", !.found = in]]
      PROVE  SpendInv'
  <2>1. in \in txin /\ Prev(in) = <<X(s), saver[s].i>>
    BY <1>3 DEF Spenders
  <2>2. saver' = [saver EXCEPT ![s] = [saver[s] EXCEPT !.pc = "backfillWrite", !.found = in]]
    BY <1>3
  <2>3. /\ saver'[s].found = in /\ saver'[s].i = saver[s].i /\ X(s)' = X(s)
        /\ \A r \in Saver : r # s => saver'[r] = saver[r]
    BY <2>2 DEF SpendInv, TypeOK, X
  <2>4. FoundIsSpender'
    BY <1>1, <2>1, <2>3 DEF SpendInv, FoundIsSpender, At, X, Prev
  <2>5. Progress({}, {}, {}, {})
    BY <1>1, <1>3, FoundProgress DEF SpendInv
  <2> QED
    BY <1>1, <2>4, <2>5, QuietKeeps DEF SpendInv
<1> QED
  BY <1>2, <1>3 DEF BackfillRead

LEMMA BackfillWriteKeeps ==
  ASSUME SpendInv, TypeOK', NEW s \in Saver, BackfillWrite(s)
  PROVE  /\ SpendInv'
         /\ \A o \in Outpoint : spend[o] # Nothing => spend'[o] = spend[o]
<1>1. PICK in : in = saver[s].found
  OBVIOUS
<1>2. in \in txin /\ Prev(in) = <<X(s), saver[s].i>>
  BY <1>1 DEF BackfillWrite, SpendInv, FoundIsSpender
<1>3. UNCHANGED <<txin, txout, saved>> /\ NextOutput(s) /\ spend' = Marked(Prev(in), in)
  BY <1>1, <1>2 DEF BackfillWrite
<1>4. /\ SpendSound'
      /\ \A o \in Outpoint : spend[o] # Nothing => spend'[o] = spend[o]
      /\ Prev(in) \in txout => spend'[Prev(in)] = in
  BY <1>2, <1>3, MarkKeeps
<1>5. Prev(in) \in txout
  <2>1. Prev(in) \in Outpoint
    BY <1>2, TxinParts DEF SpendInv, TypeOK
  <2>2. saver[s].i \in Nat /\ PastTxout(s, saver[s].i)
    BY DEF BackfillWrite, PastTxout, At, SpendInv, TypeOK
  <2>3. Kept(Prev(in))
    BY <1>2, <2>2 DEF Kept
  <2> QED
    BY <2>1, <2>3 DEF SpendInv, KeptHasRow
<1>6. \A q \in txin : Prev(q) = <<X(s), saver[s].i>> => spend'[Prev(q)] = q
  BY <1>2, <1>4, <1>5 DEF SpendInv, OneSpender
<1> QED
  BY <1>3, <1>4, <1>6, BackfillKeeps DEF BackfillWrite, At

(* The inductive step, and with it the finality of a recorded spend.             *)
LEMMA SpendStep ==
  SpendInv /\ [Next]_vars =>
    SpendInv' /\ \A o \in Outpoint : spend[o] # Nothing => spend'[o] = spend[o]
<1> SUFFICES ASSUME SpendInv, [Next]_vars
             PROVE  /\ SpendInv'
                    /\ \A o \in Outpoint : spend[o] # Nothing => spend'[o] = spend[o]
  OBVIOUS
<1>1. TypeOK'
  BY TypeStep DEF SpendInv
<1>2. CASE UNCHANGED vars
  <2>1. Progress({}, {}, {}, {})
    BY <1>2 DEF vars, Progress, Stored, Told, Kept, Filled, PastTxin, PastSpend,
                PastTxout, PastBackfill, At, X, Raw
  <2>2. FoundIsSpender'
    BY <1>2 DEF vars, SpendInv, FoundIsSpender, At, X, Prev
  <2> QED
    BY <1>1, <1>2, <2>1, <2>2, QuietKeeps DEF vars, SpendInv
<1>3. CASE Next
  <2> PICK s \in Saver :
        (\E request \in Requests : Starts(s, request)) \/ Step(s) \/ Fails(s)
    BY <1>3 DEF Next
  <2>1. ASSUME Progress({}, {}, {}, {}), UNCHANGED <<txin, txout, spend>>,
               \A r \in Saver : r # s => saver'[r] = saver[r],
               saver'[s].pc # "backfillWrite"
        PROVE  /\ SpendInv'
               /\ \A o \in Outpoint : spend[o] # Nothing => spend'[o] = spend[o]
    BY <1>1, <2>1, QuietKeeps, FoundKeeps DEF SpendInv
  <2>2. ASSUME NEW request \in Requests, Starts(s, request)
        PROVE  /\ SpendInv'
               /\ \A o \in Outpoint : spend[o] # Nothing => spend'[o] = spend[o]
    <3>1. saver'[s].pc = "saveTx" /\ \A r \in Saver : r # s => saver'[r] = saver[r]
      BY <2>2 DEF Starts, Idle, SpendInv, TypeOK
    <3> QED
      BY <2>1, <2>2, <3>1, StartsProgress DEF Starts, SpendInv
  <2>3. CASE Fails(s)
    <3>1. saver'[s].pc = "idle" /\ \A r \in Saver : r # s => saver'[r] = saver[r]
      BY <2>3 DEF Fails, Idle, SpendInv, TypeOK
    <3> QED
      BY <2>1, <2>3, <3>1, FailsProgress DEF Fails, SpendInv
  <2>4. CASE SaveTx(s)
    <3>1. Moves(s, "saveTxin", 1) \/ Moves(s, "saveTxmeta", 1)
      BY <2>4 DEF SaveTx, Input
    <3>2. saver'[s].pc # "backfillWrite" /\ \A r \in Saver : r # s => saver'[r] = saver[r]
      BY <3>1, MovesSaver DEF SpendInv
    <3> QED
      BY <2>1, <2>4, <3>2, SaveTxProgress DEF SaveTx, SpendInv
  <2>5. CASE SaveTxin(s)
    BY <1>1, <2>5, SaveTxinKeeps DEF SaveTxin
  <2>6. CASE SaveTxmeta(s)
    <3>1. \/ Moves(s, "updateSpend", 1) \/ Moves(s, "saveTxout", 1)
          \/ Moves(s, "insertTxsync", 1)
      BY <2>6 DEF SaveTxmeta, Input
    <3>2. saver'[s].pc # "backfillWrite" /\ \A r \in Saver : r # s => saver'[r] = saver[r]
      BY <3>1, MovesSaver DEF SpendInv
    <3> QED
      BY <2>1, <2>6, <3>2, SaveTxmetaProgress DEF SaveTxmeta, SpendInv
  <2>7. CASE UpdateSpend(s)
    BY <1>1, <2>7, UpdateSpendKeeps
  <2>8. CASE SaveTxout(s)
    BY <1>1, <2>8, SaveTxoutKeeps DEF SaveTxout
  <2>9. CASE BackfillRead(s)
    BY <1>1, <2>9, BackfillReadKeeps DEF BackfillRead
  <2>10. CASE BackfillWrite(s)
    BY <1>1, <2>10, BackfillWriteKeeps
  <2>11. CASE InsertTxsync(s)
    <3>1. saver'[s].pc \in {"idle", "saveTx"} /\ \A r \in Saver : r # s => saver'[r] = saver[r]
      BY <2>11 DEF InsertTxsync, Idle, SpendInv, TypeOK
    <3> QED
      BY <2>1, <2>11, <3>1, InsertTxsyncProgress DEF InsertTxsync, SpendInv
  <2> QED
    BY <2>2, <2>3, <2>4, <2>5, <2>6, <2>7, <2>8, <2>9, <2>10, <2>11 DEF Step
<1> QED
  BY <1>2, <1>3

LEMMA SpendInvariant == Spec => []SpendInv
BY SpendInit, SpendStep, PTL DEF Spec

-----------------------------------------------------------------------------
(* The index never names a spender that is not a stored input of that output.    *)
THEOREM SpendsAreSound == Spec => []SpendSound
BY SpendInvariant, PTL DEF SpendInv

(* Parent and child saved, in whatever order and at whatever time: the output is *)
(* marked.  Told and Filled say who had to see whom.                             *)
THEOREM SpendsAreComplete == Spec => []SpendComplete
<1>1. SpendInv => SpendComplete
  <2> SUFFICES ASSUME SpendInv, NEW x \in saved, NEW i \in 1 .. Len(Inputs[x]),
                      Inputs[x][i][1] \in saved
               PROVE  spend[Inputs[x][i]] = <<x, i>>
    BY DEF SpendComplete
  <2>1. x \in Tx
    BY DEF SpendInv, TypeOK
  <2>2. <<x, i>> \in Txin /\ Prev(<<x, i>>) = Inputs[x][i]
    BY <2>1, TxinMember
  <2>3. Told(<<x, i>>) /\ Filled(Prev(<<x, i>>))
    BY <2>2 DEF Told, Filled
  <2> QED
    BY <2>2, <2>3 DEF SpendInv, Indexed
<1> QED
  BY <1>1, SpendInvariant, PTL

-----------------------------------------------------------------------------
(* The rows a pass has written so far, which a saved transaction and a listed    *)
(* output inherit from it.                                                       *)
PassRows(s) ==
  /\ saver[s].pc \notin {"idle", "saveTx"} /\ Raw(s) => tx[X(s)] = "present"
  /\ saver[s].pc \in {"updateSpend", "saveTxout", "backfillRead", "backfillWrite",
                      "insertTxsync"} => X(s) \in txmeta
SavedRows   == \A x \in saved : tx[x] = "present" /\ x \in txmeta /\ x \in txsync
OutputsRows == \A o \in txout : HasRows(o[1])

RowsInv == SpendInv /\ (\A s \in Saver : PassRows(s)) /\ SavedRows /\ OutputsRows

(* No step removes a row or the bytes of one.                                    *)
Grows ==
  /\ \A x \in Tx : tx[x] = "present" => tx'[x] = "present"
  /\ txin \subseteq txin' /\ txmeta \subseteq txmeta' /\ txsync \subseteq txsync'

LEMMA RowsGrow ==
  ASSUME TypeOK, [Next]_vars
  PROVE  Grows
<1>1. CASE UNCHANGED vars
  BY <1>1 DEF vars, Grows
<1>2. CASE Next
  <2> PICK s \in Saver : (\E request \in Requests : Starts(s, request)) \/ Step(s) \/ Fails(s)
    BY <1>2 DEF Next
  <2>1. CASE SaveTx(s)
    <3>1. X(s) \in Tx
      BY <2>1, EntryType DEF SaveTx, At
    <3>2. \A x \in Tx : tx[x] = "present" => tx'[x] = "present"
      BY <2>1, <3>1 DEF SaveTx, TypeOK
    <3> QED
      BY <2>1, <3>2 DEF SaveTx, Grows
  <2>2. CASE ~SaveTx(s)
    <3>1. UNCHANGED tx
      BY <2>2 DEF Step, Starts, Fails, SaveTxin, SaveTxmeta, UpdateSpend, SaveTxout,
                  BackfillRead, BackfillWrite, InsertTxsync
    <3>2. txin \subseteq txin' /\ txmeta \subseteq txmeta' /\ txsync \subseteq txsync'
      BY <2>2 DEF Step, Starts, Fails, SaveTxin, SaveTxmeta, UpdateSpend, SaveTxout,
                  BackfillRead, BackfillWrite, InsertTxsync
    <3> QED
      BY <3>1, <3>2 DEF Grows
  <2> QED
    BY <2>1, <2>2
<1> QED
  BY <1>1, <1>2

LEMMA HasRowsKept ==
  ASSUME Grows, NEW x \in Tx, HasRows(x)
  PROVE  HasRows(x)'
BY DEF Grows, HasRows

(* A pass that moves on keeps what it has written; the metadata is written by    *)
(* the step that enters the second half.                                         *)
LEMMA MoveKeepsRows ==
  ASSUME TypeOK, Grows, NEW s \in Saver, PassRows(s), ~At(s, "idle"),
         NEW pc, NEW i, Moves(s, pc, i),
         Raw(s) => tx'[X(s)] = "present",
         pc \in {"saveTxin", "saveTxmeta"} \/ X(s) \in txmeta'
  PROVE  PassRows(s)'
<1>1. X(s)' = X(s) /\ Raw(s)' = Raw(s) /\ saver'[s].pc = pc
  BY MovesSaver DEF X, Raw
<1> QED
  BY <1>1 DEF PassRows

LEMMA PassRowsKept ==
  ASSUME TypeOK, Grows, NEW r \in Saver, PassRows(r), saver'[r] = saver[r]
  PROVE  PassRows(r)'
<1>1. X(r)' = X(r) /\ Raw(r)' = Raw(r) /\ saver'[r].pc = saver[r].pc
  BY DEF X, Raw
<1>2. saver[r].pc # "idle" => X(r) \in Tx
  BY EntryType DEF At
<1> QED
  BY <1>1, <1>2 DEF PassRows, Grows

(* One step of one pass, its own rows.                                           *)
LEMMA StepRows ==
  ASSUME RowsInv, Grows, NEW s \in Saver, Step(s)
  PROVE  /\ PassRows(s)'
         /\ \A r \in Saver : r # s => saver'[r] = saver[r]
<1> USE DEF RowsInv, SpendInv
<1>1. ~At(s, "idle") /\ PassRows(s)
  BY DEF Step, SaveTx, SaveTxin, SaveTxmeta, UpdateSpend, SaveTxout, BackfillRead,
         BackfillWrite, InsertTxsync, At
<1>2. X(s) \in Tx
  BY <1>1, EntryType
<1>3. CASE SaveTx(s)
  <2>1. Moves(s, "saveTxin", 1) \/ Moves(s, "saveTxmeta", 1)
    BY <1>3 DEF SaveTx, Input
  <2>2. Raw(s) => tx'[X(s)] = "present"
    BY <1>2, <1>3 DEF SaveTx, TypeOK
  <2> QED
    BY <1>1, <2>1, <2>2, MoveKeepsRows, MovesSaver
<1>4. ASSUME ~At(s, "saveTx") PROVE Raw(s) => tx'[X(s)] = "present"
  BY <1>1, <1>2, <1>4 DEF PassRows, Grows, At
<1>5. CASE SaveTxin(s)
  <2>1. CASE saver' = [saver EXCEPT ![s] = Idle]
    BY <2>1 DEF PassRows, Idle, TypeOK
  <2>2. CASE Input(s, "saveTxin", saver[s].i + 1, "saveTxmeta")
    <3>1. Moves(s, "saveTxin", saver[s].i + 1) \/ Moves(s, "saveTxmeta", 1)
      BY <2>2 DEF Input
    <3>2. Raw(s) => tx'[X(s)] = "present"
      BY <1>4, <1>5 DEF SaveTxin, At
    <3> QED
      BY <1>1, <3>1, <3>2, MoveKeepsRows, MovesSaver
  <2> QED
    BY <1>5, <2>1, <2>2 DEF SaveTxin
<1>6. CASE SaveTxmeta(s)
  <2>1. \E pc, i : Moves(s, pc, i)
    BY <1>6 DEF SaveTxmeta, Input
  <2>2. (Raw(s) => tx'[X(s)] = "present") /\ X(s) \in txmeta'
    BY <1>4, <1>6 DEF SaveTxmeta, At
  <2> QED
    BY <1>1, <2>1, <2>2, MoveKeepsRows, MovesSaver
<1>7. CASE UpdateSpend(s) \/ SaveTxout(s) \/ (NextOutput(s) /\ (BackfillRead(s) \/ BackfillWrite(s)))
  <2>1. \E pc, i : Moves(s, pc, i)
    BY <1>7 DEF UpdateSpend, SaveTxout, Input, NextOutput
  <2>2. saver[s].pc \in {"updateSpend", "saveTxout", "backfillRead", "backfillWrite"}
    BY <1>7 DEF UpdateSpend, SaveTxout, BackfillRead, BackfillWrite, At
  <2>3. (Raw(s) => tx'[X(s)] = "present") /\ X(s) \in txmeta'
    BY <1>1, <1>4, <2>2 DEF PassRows, Grows, At
  <2> QED
    BY <1>1, <2>1, <2>3, MoveKeepsRows, MovesSaver
<1>8. CASE BackfillRead(s) /\ ~NextOutput(s)
  <2>1. PICK in : saver' = [saver EXCEPT ![s] = [saver[s] EXCEPT !.pc = "backfillWrite",
                                                                 !.found = in]]
    BY <1>8 DEF BackfillRead
  <2>2. /\ saver'[s].todo = saver[s].todo
        /\ \A r \in Saver : r # s => saver'[r] = saver[r]
    BY <2>1 DEF TypeOK
  <2>3. X(s)' = X(s) /\ Raw(s)' = Raw(s) /\ At(s, "backfillRead") /\ txmeta' = txmeta
    BY <1>8, <2>2 DEF X, Raw, BackfillRead
  <2>4. (Raw(s) => tx'[X(s)] = "present") /\ X(s) \in txmeta
    BY <1>1, <1>4, <2>3 DEF PassRows, At
  <2> QED
    BY <2>2, <2>3, <2>4 DEF PassRows
<1>9. CASE InsertTxsync(s)
  <2>1. saver'[s].pc \in {"idle", "saveTx"} /\ \A r \in Saver : r # s => saver'[r] = saver[r]
    BY <1>9 DEF InsertTxsync, Idle, TypeOK
  <2> QED
    BY <2>1 DEF PassRows
<1> QED
  BY <1>3, <1>5, <1>6, <1>7, <1>8, <1>9 DEF Step, BackfillWrite

(* The rows are there when a pass lists its first output, and when it ends.      *)
LEMMA RowsStep == RowsInv /\ [Next]_vars => RowsInv'
<1> SUFFICES ASSUME RowsInv, [Next]_vars PROVE RowsInv'
  OBVIOUS
<1>1. SpendInv' /\ Grows /\ TypeOK
  BY SpendStep, RowsGrow DEF RowsInv, SpendInv
<1>2. \A s \in Saver : PassRows(s)'
  <2>1. CASE UNCHANGED vars
    BY <1>1, <2>1, PassRowsKept DEF vars, RowsInv
  <2>2. CASE Next
    <3> PICK s \in Saver : (\E request \in Requests : Starts(s, request)) \/ Step(s) \/ Fails(s)
      BY <2>2 DEF Next
    <3>1. PassRows(s)' /\ \A r \in Saver : r # s => saver'[r] = saver[r]
      <4>1. CASE Step(s)
        BY <1>1, <4>1, StepRows
      <4>2. CASE Fails(s)
        BY <1>1, <4>2 DEF Fails, PassRows, Idle, TypeOK
      <4>3. ASSUME NEW request \in Requests, Starts(s, request)
            PROVE  PassRows(s)' /\ \A r \in Saver : r # s => saver'[r] = saver[r]
        BY <1>1, <4>3 DEF Starts, PassRows, Idle, TypeOK
      <4> QED
        BY <4>1, <4>2, <4>3
    <3> QED
      BY <1>1, <3>1, PassRowsKept DEF RowsInv
  <2> QED
    BY <2>1, <2>2
<1>3. SavedRows'
  <2> SUFFICES ASSUME NEW x \in saved'
               PROVE  tx'[x] = "present" /\ x \in txmeta' /\ x \in txsync'
    BY DEF SavedRows
  <2>1. CASE x \in saved
    BY <1>1, <2>1 DEF RowsInv, SavedRows, Grows, TypeOK
  <2>2. CASE x \notin saved
    <3>1. PICK s \in Saver : InsertTxsync(s) /\ Raw(s) /\ x = X(s)
      BY <2>2 DEF Next, vars, Starts, Step, Fails, SaveTx, SaveTxin, SaveTxmeta,
                  UpdateSpend, SaveTxout, BackfillRead, BackfillWrite, InsertTxsync
    <3>2. PassRows(s) /\ At(s, "insertTxsync") /\ UNCHANGED <<tx, txmeta>> /\ x \in txsync'
      BY <3>1 DEF RowsInv, InsertTxsync
    <3> QED
      BY <3>1, <3>2 DEF PassRows, At
  <2> QED
    BY <2>1, <2>2
<1>4. OutputsRows'
  <2> SUFFICES ASSUME NEW o \in txout' PROVE HasRows(o[1])'
    BY DEF OutputsRows
  <2>1. CASE o \in txout
    <3>1. o[1] \in Tx
      BY <1>1, <2>1, OutpointParts DEF TypeOK
    <3> QED
      BY <1>1, <2>1, <3>1, HasRowsKept DEF RowsInv, OutputsRows
  <2>2. CASE o \notin txout
    <3>1. PICK s \in Saver : SaveTxout(s) /\ o = <<X(s), saver[s].i>>
      BY <2>2 DEF Next, vars, Starts, Step, Fails, SaveTx, SaveTxin, SaveTxmeta,
                  UpdateSpend, SaveTxout, BackfillRead, BackfillWrite, InsertTxsync
    <3>2. PassRows(s) /\ Raw(s) /\ X(s) \in Tx /\ At(s, "saveTxout")
      BY <1>1, <3>1, EntryType DEF RowsInv, SaveTxout, TypeOK, PlaceOK, At
    <3>3. tx[X(s)] = "present" /\ X(s) \in txmeta
      BY <3>2 DEF PassRows, At
    <3>4. ASSUME NEW i \in 1 .. Len(Inputs[X(s)]) PROVE <<X(s), i>> \in txin
      <4>1. <<X(s), i>> \in Txin
        BY <3>2, TxinMember
      <4>2. Stored(<<X(s), i>>)
        BY <3>2 DEF Stored, PastTxin, At
      <4> QED
        BY <4>1, <4>2 DEF RowsInv, SpendInv, StoredHasRow
    <3>5. HasRows(X(s))
      BY <3>3, <3>4 DEF HasRows
    <3>6. o[1] \in Tx /\ HasRows(o[1])
      BY <3>1, <3>2, <3>5
    <3> QED
      BY <1>1, <3>6, HasRowsKept
  <2> QED
    BY <2>1, <2>2
<1> QED
  BY <1>1, <1>2, <1>3, <1>4 DEF RowsInv

LEMMA RowsInvariant == Spec => []RowsInv
<1>1. Init => RowsInv
  BY SpendInit DEF Init, RowsInv, PassRows, SavedRows, OutputsRows, Idle
<1> QED
  BY <1>1, RowsStep, PTL DEF Spec

LEMMA InvWhole == RowsInv => RowsAreWhole
<1> SUFFICES ASSUME RowsInv PROVE RowsAreWhole
  OBVIOUS
<1>1. ASSUME NEW x \in saved
      PROVE  HasRows(x) /\ x \in txsync /\ ({x} \X (1 .. Outputs[x])) \subseteq txout
  <2>1. x \in Tx
    BY DEF RowsInv, SpendInv, TypeOK
  <2>2. \A i \in 1 .. Len(Inputs[x]) : <<x, i>> \in txin
    BY <2>1, TxinMember DEF RowsInv, SpendInv, StoredHasRow, Stored
  <2>3. \A j \in 1 .. Outputs[x] : <<x, j>> \in txout
    BY <2>1, OutpointMember DEF RowsInv, SpendInv, KeptHasRow, Kept
  <2> QED
    BY <2>2, <2>3 DEF RowsInv, SavedRows, HasRows
<1> QED
  BY <1>1 DEF RowsAreWhole, RowsInv, OutputsRows

(* A saved transaction has all of its rows, and an output is listed only when    *)
(* its transaction is stored with bytes, metadata and every input, whichever     *)
(* statement was the last one of any request.                                    *)
THEOREM SavedIsWhole == Spec => []RowsAreWhole
BY RowsInvariant, InvWhole, PTL

(* Of two transactions that spend the same output at most one has outputs listed.*)
THEOREM DoubleSpendsAreRefused == Spec => []NoDoubleSpend
<1>1. RowsInv => NoDoubleSpend
  <2> SUFFICES ASSUME RowsInv, NEW x \in saved \cup Listed, NEW y \in saved \cup Listed,
                      NEW i \in 1 .. Len(Inputs[x]), NEW j \in 1 .. Len(Inputs[y]),
                      Inputs[x][i] = Inputs[y][j]
               PROVE  x = y /\ i = j
    BY DEF NoDoubleSpend
  <2>1. ASSUME NEW z \in saved \cup Listed PROVE z \in Tx /\ HasRows(z)
    <3>1. z \in saved => z \in Tx
      BY DEF RowsInv, SpendInv, TypeOK
    <3>2. z \in Listed => z \in Tx
      BY OutpointParts DEF RowsInv, SpendInv, TypeOK, Listed
    <3>3. HasRows(z)
      BY InvWhole DEF RowsAreWhole, Listed
    <3> QED
      BY <3>1, <3>2, <3>3
  <2>2. <<x, i>> \in txin /\ <<y, j>> \in txin
    BY <2>1 DEF HasRows
  <2>3. Prev(<<x, i>>) = Inputs[x][i] /\ Prev(<<y, j>>) = Inputs[y][j]
    BY DEF Prev
  <2>4. <<x, i>> = <<y, j>>
    BY <2>2, <2>3 DEF RowsInv, SpendInv, OneSpender
  <2> QED
    BY <2>4
<1> QED
  BY <1>1, RowsInvariant, PTL

(* No step takes the mark of a spent output away or gives it to another spender. *)
THEOREM SpendsAreFinal == Spec => SpendStable
<1>1. SpendInv /\ [Next]_vars =>
        [\A o \in Outpoint : spend[o] # Nothing => spend'[o] = spend[o]]_vars
  BY SpendStep
<1> QED
  BY <1>1, SpendInvariant, PTL DEF Spec, SpendStable
=============================================================================
