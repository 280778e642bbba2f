------------------------ MODULE QueueFloorTableProofs ------------------------
(***************************************************************************)
(* Proofs about the tables of QueueFloor when one handler at a time is     *)
(* under way, in a venue that uses tables and whose staff respect them.    *)
(* What a handler has read of the tables is still so when it writes        *)
(* (TableHand), and the tables of called and seated guests are theirs      *)
(* (TablesHeld, which is CalledHoldsReservation and SeatedHoldsTable).     *)
(***************************************************************************)
EXTENDS QueueFloorSerialProofs

\* Staff who respect reservations and the guests who sit: an occupied table is
\* cleared, not reserved or, where that would not close its guest, freed.
Disciplined ==
  /\ UsesTables /\ HostDiscipline
  /\ <<"OCCUPIED", "RESERVED">> \notin StaffMoves
  /\ ManualDispatch => ~ExternalTms /\ <<"OCCUPIED", "FREE">> \notin StaffMoves

\* Guests who may hold a table, and what their table's status must be.
Holders == With({"NOTIFIED", "SEATED"})
HeldAs(status) == IF status = "NOTIFIED" THEN "RESERVED" ELSE "OCCUPIED"

TablesHeld ==
  \A e \in Holders : entries[e].table # NoTable =>
    /\ tables[entries[e].table] = HeldAs(entries[e].status)
    /\ \A f \in Holders \ {e} : entries[f].table # entries[e].table

\* No called guest has table t, and setting it to `to` leaves nobody seated
\* at a table that is not occupied.
MayBecomeTable(t, to) ==
  /\ \A f \in With({"NOTIFIED"}) : entries[f].table # t
  /\ tables[t] = "OCCUPIED" =>
       to \in {"OCCUPIED", "CLEARING"} \/ (to = "FREE" /\ ~ManualDispatch)

PollPoints == SweepPoints \cup {"table.tx"}

\* What is in hand about tables is still true.
TablesTrue(r) ==
  /\ r.at \in {"seat.table", "seat.tx"} => HostMaySeat(r.e, r.t)
  /\ r.at = "seat.tx" => tables[r.t] \in {"FREE", "RESERVED"}
  /\ r.at \in {"cancel.tx", "complete.tx"} => r.t = entries[r.e].table
  /\ r.at = "noshow.tx" => r.t \in {NoTable, entries[r.e].table}
  /\ r.at = "table.tx" => MayBecomeTable(r.t, r.to)
  /\ r.at = "clearActive.tx" => Active \subseteq r.listed
  /\ r.at = "reset.tx" => \A e \in Holders : entries[e].table = NoTable
  /\ r.at \in {"advance.entry", "advance.tx"} => tables[r.t] = "FREE"
  /\ r.tick = "sweep" => \A e \in r.listed : r.held[e] \in {NoTable, entries[e].table}
  /\ r.tick = "poll" => r.at \in PollPoints
  /\ \A t \in Tables : r.updates[t] # "none" =>
       r.tick = "poll" /\ r.t # t /\ MayBecomeTable(t, r.updates[t])

TableHand == \A w \in Handlers : TablesTrue(req[w])

TableInv == SerialInv /\ TableHand /\ TablesHeld

-----------------------------------------------------------------------------

\* TablesHeld says of both kinds of guests what the two invariants say.
LEMMA HeldIsBoth ==
  ASSUME entries \in [Entries -> EntryRow]
  PROVE  TablesHeld <=> CalledHoldsReservation /\ SeatedHoldsTable
<1>1. ASSUME TablesHeld PROVE CalledHoldsReservation /\ SeatedHoldsTable
  BY <1>1 DEF TablesHeld, HeldAs, Holders, With, CalledHoldsReservation, SeatedHoldsTable
<1>2. ASSUME CalledHoldsReservation, SeatedHoldsTable PROVE TablesHeld
  BY <1>2 DEF TablesHeld, HeldAs, Holders, With, CalledHoldsReservation, SeatedHoldsTable
<1>3. QED
  BY <1>1, <1>2

\* Whoever holds a table after a step held it before, and it is as it was.
LEMMA HeldKept ==
  ASSUME TablesHeld,
         \A e \in Entries :
           entries'[e].status \in {"NOTIFIED", "SEATED"} /\ entries'[e].table # NoTable =>
             /\ entries[e].status = entries'[e].status /\ entries[e].table = entries'[e].table
             /\ tables'[entries[e].table] = tables[entries[e].table]
  PROVE  TablesHeld'
BY DEF TablesHeld, Holders, HeldAs, With

\* A guest takes a table that nobody else holds.
LEMMA HeldTaken ==
  ASSUME TablesHeld, entries \in [Entries -> EntryRow], tables \in [Tables -> TableStatus],
         NEW x \in Entries, NEW t \in Tables, NEW row, NEW status,
         entries' = [entries EXCEPT ![x] = row], tables' = [tables EXCEPT ![t] = status],
         row.table = t,
         \/ row.status = "NOTIFIED" /\ status = "RESERVED"
         \/ row.status = "SEATED" /\ status = "OCCUPIED",
         \A f \in Holders \ {x} : entries[f].table # t
  PROVE  TablesHeld'
<1>1. \A e \in Entries : entries[e].table \in Tables \cup {NoTable}
  BY DEF EntryRow
<1>2. ASSUME NEW e \in Holders', entries'[e].table # NoTable
      PROVE  /\ tables'[entries'[e].table] = HeldAs(entries'[e].status)
             /\ \A f \in Holders' \ {e} : entries'[f].table # entries'[e].table
  <2>1. CASE e = x
    BY <1>2, <2>1 DEF Holders, HeldAs, With
  <2>2. CASE e # x
    BY <1>1, <1>2, <2>2 DEF TablesHeld, Holders, With
  <2>3. QED
    BY <2>1, <2>2
<1>3. QED
  BY <1>2 DEF TablesHeld, HeldAs

\* A step of the one handler, after which what it has in hand is true.
LEMMA TableStep ==
  ASSUME Serial, IInv, NEW w \in Handlers, NEW r, req' = [req EXCEPT ![w] = r],
         TablesTrue(r)'
  PROVE  TableHand'
<1>1. SUFFICES ASSUME NEW v \in Handlers PROVE TablesTrue(req[v])'
  BY DEF TableHand
<1>2. v = w /\ req'[v] = r
  BY DEF Serial, IInv, TypeOK
<1>3. QED
  BY <1>2 DEF TablesTrue

\* A step that only reads.
LEMMA TableRead ==
  ASSUME Serial, TableInv, NEW w \in Handlers, NEW r, req' = [req EXCEPT ![w] = r],
         UNCHANGED <<entries, tables>>, TablesTrue(r)
  PROVE  TableHand' /\ TablesHeld'
<1>1. TablesTrue(r)'
  BY DEF TablesTrue, Active, Holders, With, HostMaySeat, MayBecomeTable
<1>2. TableHand'
  BY <1>1, TableStep DEF TableInv, SerialInv
<1>3. TablesHeld'
  BY DEF TableInv, TablesHeld, Holders, With
<1>4. QED
  BY <1>2, <1>3

\* A step that writes: the handler keeps the rest of a sweep or of a poll.
LEMMA TableWrite ==
  ASSUME Serial, IInv, NEW w \in Handlers, NEW r, req' = [req EXCEPT ![w] = r],
         Free(r),
         r.tick = "sweep" => \A e \in r.listed : r.held[e] \in {NoTable, entries'[e].table},
         r.tick = "poll" => r.at \in PollPoints,
         \A t \in Tables : r.updates[t] # "none" =>
           /\ r.tick = "poll" /\ r.t # t
           /\ \A f \in Entries : entries'[f].status = "NOTIFIED" => entries'[f].table # t
           /\ tables'[t] = "OCCUPIED" =>
                r.updates[t] \in {"OCCUPIED", "CLEARING"}
                  \/ (r.updates[t] = "FREE" /\ ~ManualDispatch)
  PROVE  TableHand'
<1>1. \A t \in Tables : r.updates[t] # "none" => MayBecomeTable(t, r.updates[t])'
  BY DEF MayBecomeTable, With
<1>2. TablesTrue(r)'
  BY <1>1 DEF TablesTrue, Free
<1>3. QED
  BY <1>2, TableStep

-----------------------------------------------------------------------------
(* Reads *)

\* New requests: staff and guests ask for tables that are theirs to ask for.
LEMMA TableRequest ==
  ASSUME Serial, Disciplined, TableInv, NEW w \in Handlers, NewRequest(w)
  PROVE  TableHand' /\ TablesHeld'
<1> DEFINE Kept == TableHand' /\ TablesHeld'
<1>0. ASSUME NEW r, req' = [req EXCEPT ![w] = r], UNCHANGED <<entries, tables>>,
             r.at \in {"join.dup", "notify.first", "reorder.up", "reorder.down",
                       "prioritize.read"},
             r.tick = "none", \A t \in Tables : r.updates[t] = "none"
      PROVE  Kept
  <2>1. TablesTrue(r)
    BY <1>0 DEF TablesTrue
  <2>2. QED
    BY <1>0, <2>1, TableRead
<1>1. ASSUME NEW e \in Entries, JoinCount(w, e) PROVE Kept
  <2> DEFINE r == [Idle EXCEPT !.at = "join.dup", !.e = e, !.n = Cardinality(Active) + 1]
  <2>1. r.at = "join.dup" /\ r.tick = "none" /\ \A t \in Tables : r.updates[t] = "none"
    BY DEF Idle
  <2>2. QED
    BY <1>0, <1>1, <2>1 DEF JoinCount, Begin
<1>2. ASSUME NEW e \in Entries, NotifyRead(w, e) PROVE Kept
  <2> DEFINE r == [Idle EXCEPT !.at = "notify.first", !.e = e]
  <2>1. r.at = "notify.first" /\ r.tick = "none" /\ \A t \in Tables : r.updates[t] = "none"
    BY DEF Idle
  <2>2. QED
    BY <1>0, <1>2, <2>1 DEF NotifyRead, Begin
<1>3. ASSUME NEW e \in Entries, NoShowRead(w, e) PROVE Kept
  <2> DEFINE r == [Idle EXCEPT !.at = "noshow.tx", !.e = e, !.t = ReservedTable(e)]
  <2>1. req' = [req EXCEPT ![w] = r] /\ TablesTrue(r)
    BY <1>3 DEF NoShowRead, Begin, TablesTrue, Idle, ReservedTable
  <2>2. QED
    BY <1>3, <2>1, TableRead DEF NoShowRead
<1>4. ASSUME NEW e \in Entries, SeatRead(w, e) PROVE Kept
  <2>1. PICK t \in Tables \cup {NoTable} :
          /\ HostMaySeat(e, t)
          /\ Begin(w, [Idle EXCEPT !.at = "seat.table", !.e = e, !.t = t])
    BY <1>4 DEF SeatRead, Disciplined
  <2> DEFINE r == [Idle EXCEPT !.at = "seat.table", !.e = e, !.t = t]
  <2>2. req' = [req EXCEPT ![w] = r] /\ TablesTrue(r)
    BY <2>1 DEF Begin, TablesTrue, Idle
  <2>3. QED
    BY <1>4, <2>2, TableRead DEF SeatRead
<1>5. ASSUME NEW e \in Entries, CancelRead(w, e) PROVE Kept
  <2> DEFINE r == [Idle EXCEPT !.at = "cancel.tx", !.e = e, !.t = entries[e].table]
  <2>1. req' = [req EXCEPT ![w] = r] /\ TablesTrue(r)
    BY <1>5 DEF CancelRead, Begin, TablesTrue, Idle
  <2>2. QED
    BY <1>5, <2>1, TableRead DEF CancelRead
<1>6. ASSUME NEW e \in Entries, CompleteRead(w, e) PROVE Kept
  <2> DEFINE r == [Idle EXCEPT !.at = "complete.tx", !.e = e, !.t = entries[e].table]
  <2>1. req' = [req EXCEPT ![w] = r] /\ TablesTrue(r)
    BY <1>6 DEF CompleteRead, Begin, TablesTrue, Idle, Disciplined
  <2>2. QED
    BY <1>6, <2>1, TableRead DEF CompleteRead
<1>7. ASSUME NEW e \in Entries, NEW point \in Points, ReorderRead(w, e, point) PROVE Kept
  <2> DEFINE r == [Idle EXCEPT !.at = point, !.e = e]
  <2>1. r.at = point /\ r.tick = "none" /\ \A t \in Tables : r.updates[t] = "none"
    BY DEF Idle
  <2>2. QED
    BY <1>0, <1>7, <2>1 DEF ReorderRead, Begin
<1>8. ASSUME NEW point \in Points, ClearRead(w, point) PROVE Kept
  <2> DEFINE read == IF point = "clearActive.tx" THEN Active
                     ELSE With({"WAITING", "NOTIFIED", "SEATED"})
             held == [e \in Entries |-> IF e \in read THEN entries[e].table ELSE NoTable]
             r == [Idle EXCEPT !.at = point, !.listed = read, !.held = held]
  <2>1. req' = [req EXCEPT ![w] = r] /\ point \in {"clearActive.tx", "clearAll.tx"}
    BY <1>8 DEF ClearRead, Begin
  <2>2. TablesTrue(r)
    BY <2>1 DEF TablesTrue, Idle
  <2>3. QED
    BY <1>8, <2>1, <2>2, TableRead DEF ClearRead
<1>9. ASSUME NEW t \in Tables, NEW to \in TableStatus, StaffTable(w, t, to) PROVE Kept
  <2> DEFINE r == [Idle EXCEPT !.at = "table.tx", !.t = t, !.to = to]
  <2>1. MayBecomeTable(t, to)
    BY <1>9 DEF StaffTable, Disciplined, MayBecomeTable, TableStatus
  <2>2. req' = [req EXCEPT ![w] = r] /\ TablesTrue(r)
    BY <1>9, <2>1 DEF StaffTable, Begin, TablesTrue, Idle
  <2>3. QED
    BY <1>9, <2>2, TableRead DEF StaffTable
<1>10. CASE ResetRead(w)
  <2>1. \A e \in Holders : entries[e].table = NoTable
    BY <1>10 DEF ResetRead, Disciplined, Holders
  <2> DEFINE r == [Idle EXCEPT !.at = "reset.tx"]
  <2>2. req' = [req EXCEPT ![w] = r] /\ TablesTrue(r)
    BY <1>10, <2>1 DEF ResetRead, Begin, TablesTrue, Idle
  <2>3. QED
    BY <1>10, <2>2, TableRead DEF ResetRead
<1>11. QED
  BY <1>1, <1>2, <1>3, <1>4, <1>5, <1>6, <1>7, <1>8, <1>9, <1>10 DEF NewRequest

\* Where a handler goes when it moves on: what its tick has left stays true.
LEMMA MovesOn ==
  ASSUME NEW r \in Request, TablesTrue(r), NEW u \in {Idle, Finished(r), OfferNext(r)}
  PROVE  TablesTrue(u)
<1>1. TablesTrue(Idle)
  BY DEF TablesTrue, Idle
<1>2. TablesTrue(Finished(r))
  <2>1. CASE r.tick = "none"
    BY <1>1, <2>1 DEF Finished
  <2>2. CASE r.tick # "none"
    <3> DEFINE q == [Idle EXCEPT !.at = "tick", !.tick = r.tick, !.listed = r.listed,
                                 !.held = r.held, !.updates = r.updates]
    <3>1. /\ q.at = "tick" /\ q.tick = r.tick /\ q.listed = r.listed /\ q.held = r.held
          /\ q.updates = r.updates /\ q.t = NoTable
      BY DEF Idle
    <3> HIDE DEF q
    <3>2. TablesTrue(q)
      BY <3>1, NoTableAssumption DEF TablesTrue, PollPoints, SweepPoints
    <3>3. QED
      BY <2>2, <3>2 DEF Finished, q
  <2>3. QED
    BY <2>1, <2>2
<1>3. TablesTrue(OfferNext(r))
  <2>1. CASE r.t = NoTable
    BY <1>2, <2>1 DEF OfferNext
  <2>2. CASE r.t # NoTable
    BY <2>2 DEF OfferNext, TablesTrue, Request, PollPoints, SweepPoints
  <2>3. QED
    BY <2>1, <2>2
<1>4. QED
  BY <1>1, <1>2, <1>3

\* Reads in the middle of a request, and moving on.
LEMMA TableStepRead ==
  ASSUME Serial, Disciplined, TableInv, NEW w \in Handlers,
         \/ JoinDuplicate(w) \/ NotifyFirst(w) \/ ReorderPlan(w) \/ ResequenceRead(w)
         \/ SeatTable(w) \/ AdvanceTable(w) \/ AdvanceEntry(w)
  PROVE  TableHand' /\ TablesHeld'
<1> DEFINE Kept == TableHand' /\ TablesHeld'
<1>1. req[w] \in Request /\ TablesTrue(req[w]) /\ UNCHANGED <<entries, tables>>
  BY HandTyped DEF TableInv, SerialInv, TableHand, JoinDuplicate, NotifyFirst, ReorderPlan,
                   ResequenceRead, SeatTable, AdvanceTable, AdvanceEntry
<1>2. ASSUME NEW u \in {Idle, Finished(req[w]), OfferNext(req[w])},
             req' = [req EXCEPT ![w] = u]
      PROVE  Kept
  BY <1>1, <1>2, MovesOn, TableRead
<1>3. ASSUME NEW p \in {"join.create", "notify.write", "reseq.write"}, NEW plan,
             p = "reseq.write" \/ req[w].at \in {"join.dup", "notify.first"},
             req' = [req EXCEPT ![w] = [req[w] EXCEPT !.at = p, !.plan = plan]]
      PROVE  Kept
  <2> DEFINE r == [req[w] EXCEPT !.at = p, !.plan = plan]
  <2>1. TablesTrue(r)
    BY <1>1, <1>3 DEF TablesTrue, Request, PollPoints, SweepPoints
  <2>2. QED
    BY <1>1, <1>3, <2>1, TableRead
<1>4. ASSUME NEW p, req' = [req EXCEPT ![w] = [req[w] EXCEPT !.at = p]]
      PROVE  req' = [req EXCEPT ![w] = [req[w] EXCEPT !.at = p, !.plan = req[w].plan]]
  BY <1>1, <1>4 DEF Request
<1>5. CASE JoinDuplicate(w)
  BY <1>2, <1>3, <1>4, <1>5 DEF JoinDuplicate, Goto, At
<1>6. CASE NotifyFirst(w)
  BY <1>2, <1>3, <1>4, <1>6 DEF NotifyFirst, Goto, At
<1>7. CASE ReorderPlan(w)
  BY <1>2, <1>3, <1>7 DEF ReorderPlan, Goto
<1>8. CASE ResequenceRead(w)
  <2>1. \/ req' = [req EXCEPT ![w] = OfferNext(req[w])]
        \/ \E plan : req' = [req EXCEPT ![w] = [req[w] EXCEPT !.at = "reseq.write",
                                                              !.plan = plan]]
    BY <1>8 DEF ResequenceRead, Goto
  <2>2. QED
    BY <1>2, <1>3, <2>1
<1>9. CASE SeatTable(w)
  <2>1. CASE tables[req[w].t] \notin {"FREE", "RESERVED"}
    BY <1>2, <1>9, <2>1 DEF SeatTable, Goto
  <2>2. CASE tables[req[w].t] \in {"FREE", "RESERVED"}
    <3> DEFINE r == [req[w] EXCEPT !.at = "seat.tx"]
    <3>1. TablesTrue(r)
      BY <1>1, <1>9, <2>2 DEF TablesTrue, SeatTable, At, Request, PollPoints, SweepPoints
    <3>2. QED
      BY <1>1, <1>9, <2>2, <3>1, TableRead DEF SeatTable, Goto
  <2>3. QED
    BY <2>1, <2>2
<1>10. CASE AdvanceTable(w)
  <2>1. CASE Goto(w, Finished(req[w]))
    BY <1>2, <2>1 DEF Goto
  <2>2. CASE tables[req[w].t] = "FREE" /\ Goto(w, [req[w] EXCEPT !.at = "advance.entry"])
    <3> DEFINE r == [req[w] EXCEPT !.at = "advance.entry"]
    <3>1. TablesTrue(r)
      BY <1>1, <2>2 DEF TablesTrue, Request, PollPoints, SweepPoints
    <3>2. QED
      BY <1>1, <2>2, <3>1, TableRead DEF Goto
  <2>3. QED
    BY <1>10, <2>1, <2>2 DEF AdvanceTable
<1>11. CASE AdvanceEntry(w)
  <2>1. CASE Goto(w, Finished(req[w]))
    BY <1>2, <2>1 DEF Goto
  <2>2. ASSUME NEW e, Goto(w, [req[w] EXCEPT !.at = "advance.tx", !.e = e]) PROVE Kept
    <3> DEFINE r == [req[w] EXCEPT !.at = "advance.tx", !.e = e]
    <3>1. TablesTrue(r)
      BY <1>1, <1>11 DEF AdvanceEntry, At, TablesTrue, Request, PollPoints, SweepPoints
    <3>2. QED
      BY <1>1, <2>2, <3>1, TableRead DEF Goto
  <2>3. QED
    BY <1>11, <2>1, <2>2 DEF AdvanceEntry
<1>12. QED
  BY <1>5, <1>6, <1>7, <1>8, <1>9, <1>10, <1>11

\* The reads of a tick: the sweep lists called guests with their reservations,
\* the poll leaves reserved tables alone.
LEMMA TableTickRead ==
  ASSUME Serial, Disciplined, TableInv, NEW w \in Handlers,
         \/ TickStart(w) \/ PollRead(w) \/ TickEnd(w) \/ Fail(w)
         \/ \E t \in Tables : PollTable(w, t)
  PROVE  TableHand' /\ TablesHeld'
<1>1. /\ req[w] \in Request /\ TablesTrue(req[w])
      /\ entries \in [Entries -> EntryRow] /\ tables \in [Tables -> TableStatus]
  BY HandTyped DEF TableInv, SerialInv, TableHand, IInv, TypeOK
<1>2. TablesTrue(Idle)
  BY <1>1, MovesOn
<1>3. CASE TickStart(w)
  <2> DEFINE held == [e \in Entries |-> IF e \in Lapsing THEN ReservedTable(e) ELSE NoTable]
             r == [Idle EXCEPT !.at = "tick", !.tick = "sweep", !.listed = Lapsing,
                               !.held = held]
  <2>1. \A e \in Lapsing : held[e] \in {NoTable, entries[e].table}
    BY DEF Lapsing, With, ReservedTable
  <2>2. TablesTrue(r)
    <3>1. /\ r.at = "tick" /\ r.tick = "sweep" /\ r.listed = Lapsing /\ r.held = held
          /\ \A t \in Tables : r.updates[t] = "none"
      BY DEF Idle
    <3> HIDE DEF r, held
    <3>2. QED
      BY <2>1, <3>1 DEF TablesTrue
  <2>3. req' = [req EXCEPT ![w] = r] /\ UNCHANGED <<entries, tables>>
    BY <1>3 DEF TickStart, Goto
  <2>4. QED
    BY <2>2, <2>3, TableRead
<1>4. CASE PollRead(w)
  <2>1. CASE Goto(w, Idle)
    BY <1>2, <1>4, <2>1, TableRead DEF PollRead, Goto
  <2>2. ASSUME NEW S \in SUBSET {t \in Tables : tables[t] # "RESERVED"},
               NEW reported \in [S -> IF ExternalTms THEN External ELSE {"FREE"}],
               \A t \in S : IF ExternalTms THEN reported[t] # tables[t]
                                           ELSE tables[t] = "CLEARING",
               Goto(w, [Idle EXCEPT !.at = "tick", !.tick = "poll",
                          !.updates = [t \in Tables |-> IF t \in S THEN reported[t]
                                                                  ELSE "none"]])
        PROVE  TableHand' /\ TablesHeld'
    <3> DEFINE updates == [t \in Tables |-> IF t \in S THEN reported[t] ELSE "none"]
               r == [Idle EXCEPT !.at = "tick", !.tick = "poll", !.updates = updates]
    <3>1. ASSUME NEW t \in S PROVE MayBecomeTable(t, reported[t])
      <4>1. tables[t] # "RESERVED" /\ t # NoTable
        BY <2>2, NoTableAssumption
      <4>2. \A f \in With({"NOTIFIED"}) : entries[f].table # t
        BY <4>1 DEF TableInv, TablesHeld, Holders, HeldAs, With
      <4>3. CASE ExternalTms
        <5>1. reported[t] \in {"FREE", "OCCUPIED", "CLEARING"} /\ ~ManualDispatch
          BY <2>2, <4>3 DEF External, Disciplined
        <5>2. QED
          BY <4>2, <5>1 DEF MayBecomeTable
      <4>4. CASE ~ExternalTms
        BY <2>2, <4>2, <4>4 DEF MayBecomeTable
      <4>5. QED
        BY <4>3, <4>4
    <3>2. \A t \in Tables : updates[t] # "none" => MayBecomeTable(t, updates[t])
      BY <3>1
    <3>3. TablesTrue(r)
      <4>1. r.at = "tick" /\ r.tick = "poll" /\ r.updates = updates /\ r.t = NoTable
        BY DEF Idle
      <4> HIDE DEF r, updates
      <4>2. QED
        BY <3>2, <4>1, NoTableAssumption DEF TablesTrue, PollPoints, SweepPoints
    <3>4. QED
      BY <1>4, <2>2, <3>3, TableRead DEF PollRead, Goto
  <2>3. QED
    BY <1>4, <2>1, <2>2, ZenonT(60) DEF PollRead
<1>5. ASSUME NEW t \in Tables, PollTable(w, t)
      PROVE  TableHand' /\ TablesHeld'
  <2> DEFINE r == [req[w] EXCEPT !.at = "table.tx", !.t = t, !.to = req[w].updates[t],
                                 !.updates[t] = "none"]
  <2>1. /\ r.at = "table.tx" /\ r.tick = "poll" /\ r.t = t /\ r.to = req[w].updates[t]
        /\ \A s \in Tables : r.updates[s] = IF s = t THEN "none" ELSE req[w].updates[s]
    BY <1>1, <1>5 DEF Request, PollTable
  <2>2. MayBecomeTable(r.t, r.to)
    BY <1>1, <1>5, <2>1 DEF TablesTrue, PollTable
  <2>3. req' = [req EXCEPT ![w] = r] /\ UNCHANGED <<entries, tables>>
    BY <1>5 DEF PollTable, Goto
  <2> HIDE DEF r
  <2>4. TablesTrue(r)
    BY <1>1, <2>1, <2>2 DEF TablesTrue, PollPoints, SweepPoints
  <2>5. QED
    BY <2>3, <2>4, TableRead
<1>6. CASE TickEnd(w) \/ Fail(w)
  BY <1>2, <1>6, TableRead DEF TickEnd, Fail, Goto
<1>7. QED
  BY <1>3, <1>4, <1>5, <1>6

-----------------------------------------------------------------------------
(* Writes *)

\* An entry gives up its table, or had none to give up.
LEMMA HeldGivenUp ==
  ASSUME TablesHeld, entries \in [Entries -> EntryRow], NEW x \in Entries, NEW row,
         entries' = [entries EXCEPT ![x] = row],
         row.status \in {"NOTIFIED", "SEATED"} => row.table = NoTable,
         x \in Holders \/ entries[x].table = NoTable,
         NEW t \in {NoTable, entries[x].table},
         \A s \in Tables : s # t => tables'[s] = tables[s]
  PROVE  TablesHeld'
<1>1. ASSUME NEW e \in Entries, entries'[e].status \in {"NOTIFIED", "SEATED"},
             entries'[e].table # NoTable
      PROVE  /\ entries[e].status = entries'[e].status
             /\ entries[e].table = entries'[e].table
             /\ tables'[entries[e].table] = tables[entries[e].table]
  <2>1. e # x /\ entries'[e] = entries[e] /\ entries[e].table \in Tables
    BY <1>1 DEF EntryRow
  <2>2. entries[e].table # t
    BY <1>1, <2>1 DEF TablesHeld, Holders, With
  <2>3. QED
    BY <2>1, <2>2
<1>2. QED
  BY <1>1, HeldKept

\* Where a handler goes after a write, and what its tick has left.
LEMMA TickGoesOn ==
  ASSUME NEW r \in Request, \A t \in Tables : r.updates[t] # "none" => r.tick = "poll" /\ r.t # t,
         NEW u \in {Idle, Finished(r), OfferNext(r), Resequence(r),
                    Resequence([r EXCEPT !.t = NoTable])}
  PROVE  /\ Free(u)
         /\ u.tick = "sweep" => r.tick = "sweep" /\ u.listed = r.listed /\ u.held = r.held
         /\ u.tick = "poll" => u.at \in PollPoints
         /\ \A t \in Tables : u.updates[t] # "none" =>
              u.tick = "poll" /\ u.t # t /\ u.updates[t] = r.updates[t]
<1> DEFINE Fine(v) ==
       /\ v.tick # "none" => v.at # "idle"
       /\ v.tick = "sweep" => r.tick = "sweep" /\ v.listed = r.listed /\ v.held = r.held
       /\ \A t \in Tables : v.updates[t] # "none" =>
            v.tick = "poll" /\ v.t # t /\ v.updates[t] = r.updates[t]
<1>1. Fine(Idle)
  BY DEF Idle
<1>2. Fine(Finished(r))
  <2>1. CASE r.tick = "none"
    BY <1>1, <2>1 DEF Finished
  <2>2. CASE r.tick # "none"
    <3> DEFINE q == [Idle EXCEPT !.at = "tick", !.tick = r.tick, !.listed = r.listed,
                                 !.held = r.held, !.updates = r.updates]
    <3>1. /\ q.at = "tick" /\ q.tick = r.tick /\ q.listed = r.listed /\ q.held = r.held
          /\ q.updates = r.updates /\ q.t = NoTable
      BY DEF Idle
    <3> HIDE DEF q
    <3>2. QED
      BY <2>2, <3>1, NoTableAssumption DEF Finished, q
  <2>3. QED
    BY <2>1, <2>2
<1>3. Fine(OfferNext(r))
  BY <1>2 DEF OfferNext, Request
<1>4. Fine(Resequence(r))
  BY DEF Resequence, Request
<1>5. Fine(Resequence([r EXCEPT !.t = NoTable]))
  BY NoTableAssumption DEF Resequence, Request
<1>6. Fine(u)
  BY <1>1, <1>2, <1>3, <1>4, <1>5
<1>7. Free(u)
  BY AfterWrite
<1>8. QED
  BY <1>6, <1>7 DEF Free, PollPoints, SweepPoints

\* What a write must leave true of the handler's tick.
LEMMA TickWrite ==
  ASSUME Serial, IInv, NEW w \in Handlers, NEW r \in Request,
         \A t \in Tables : r.updates[t] # "none" =>
           /\ r.tick = "poll" /\ r.t # t
           /\ \A f \in Entries : entries'[f].status = "NOTIFIED" => entries'[f].table # t
           /\ tables'[t] = "OCCUPIED" =>
                r.updates[t] \in {"OCCUPIED", "CLEARING"}
                  \/ (r.updates[t] = "FREE" /\ ~ManualDispatch),
         r.tick = "sweep" => \A e \in r.listed : r.held[e] \in {NoTable, entries'[e].table},
         NEW u \in {Idle, Finished(r), OfferNext(r), Resequence(r),
                    Resequence([r EXCEPT !.t = NoTable])},
         req' = [req EXCEPT ![w] = u]
  PROVE  TableHand'
<1>1. /\ Free(u)
      /\ u.tick = "sweep" => r.tick = "sweep" /\ u.listed = r.listed /\ u.held = r.held
      /\ u.tick = "poll" => u.at \in PollPoints
      /\ \A t \in Tables : u.updates[t] # "none" =>
           u.tick = "poll" /\ u.t # t /\ u.updates[t] = r.updates[t]
  BY TickGoesOn
<1>2. QED
  BY <1>1, TableWrite

\* The writes of a request, which has no tick to go back to.
LEMMA RequestWrite ==
  ASSUME Serial, TableInv, NEW w \in Handlers,
         req[w].at \notin PollPoints,
         NEW u \in {Idle, Resequence(req[w]), Resequence([req[w] EXCEPT !.t = NoTable])},
         req' = [req EXCEPT ![w] = u]
  PROVE  TableHand'
<1>1. /\ req[w] \in Request /\ StillTrue(req[w]) /\ TablesTrue(req[w]) /\ IInv
  BY HandTyped DEF TableInv, SerialInv, LoneHand, TableHand
<1>2. /\ req[w].tick # "sweep" /\ \A t \in Tables : req[w].updates[t] = "none"
  BY <1>1 DEF StillTrue, TablesTrue, PollPoints
<1>3. QED
  BY <1>1, <1>2, TickWrite

\* The writes of one row: a guest takes a table nobody holds, or gives up
\* their own.
LEMMA TableOneRowWrite ==
  ASSUME Serial, Disciplined, TableInv, NEW w \in Handlers,
         \/ JoinCreate(w) \/ NotifyWrite(w) \/ NoShowTx(w) \/ SeatTx(w)
         \/ CancelTx(w) \/ CompleteTx(w)
  PROVE  TableHand' /\ TablesHeld'
<1> DEFINE e == req[w].e
           t == req[w].t
<1>1. /\ req[w] \in Request /\ HandOK(req[w]) /\ StillTrue(req[w]) /\ TablesTrue(req[w])
      /\ t \in Tables \cup {NoTable} /\ IInv /\ TablesHeld
      /\ entries \in [Entries -> EntryRow] /\ tables \in [Tables -> TableStatus]
  BY HandTyped DEF TableInv, SerialInv, LoneHand, TableHand, IInv, TypeOK, Request
<1>2. e \in Entries /\ entries[e] \in EntryRow /\ GoodRow(entries[e])
  BY <1>1 DEF JoinCreate, NotifyWrite, NoShowTx, SeatTx, CancelTx, CompleteTx, At, HandOK,
              Joining, ReadPoints, IInv, RowShape
<1>3. TableHand'
  <2>1. req[w].at \notin PollPoints
    BY DEF JoinCreate, NotifyWrite, NoShowTx, SeatTx, CancelTx, CompleteTx, At, PollPoints,
           SweepPoints
  <2>2. \/ req' = [req EXCEPT ![w] = Idle]
        \/ req' = [req EXCEPT ![w] = Resequence(req[w])]
        \/ req' = [req EXCEPT ![w] = Resequence([req[w] EXCEPT !.t = NoTable])]
    BY DEF JoinCreate, NotifyWrite, NoShowTx, SeatTx, CancelTx, CompleteTx, Goto
  <2>3. QED
    BY <2>1, <2>2, RequestWrite
<1>4. CASE JoinCreate(w)
  <2> DEFINE row == [status |-> "WAITING", position |-> req[w].n, table |-> NoTable,
                     deadline |-> "none", expired |-> FALSE]
  <2>1. entries[e].table = NoTable
    BY <1>1, <1>2, <1>4 DEF JoinCreate, At, HandOK, Joining, GoodRow
  <2>2. entries' = [entries EXCEPT ![e] = row] /\ tables' = tables
    BY <1>4 DEF JoinCreate
  <2>3. row.status = "WAITING"
    OBVIOUS
  <2> HIDE DEF row
  <2>4. QED
    BY <1>1, <1>2, <1>3, <2>1, <2>2, <2>3, HeldGivenUp
<1>5. CASE NotifyWrite(w)
  <2> DEFINE row == Called(entries[e], entries[e].table)
  <2>1. entries[e].table = NoTable
    BY <1>1, <1>2, <1>5 DEF NotifyWrite, At, StillTrue, First, Waiting, With, GoodRow
  <2>2. entries' = [entries EXCEPT ![e] = row] /\ tables' = tables
    BY <1>5 DEF NotifyWrite
  <2>3. row.table = NoTable
    BY <1>2, <2>1 DEF Called, EntryRow
  <2> HIDE DEF row
  <2>4. QED
    BY <1>1, <1>2, <1>3, <2>1, <2>2, <2>3, HeldGivenUp
<1>6. CASE NoShowTx(w)
  <2>1. e \in Holders /\ t \in {NoTable, entries[e].table}
    BY <1>1, <1>6 DEF NoShowTx, At, StillTrue, TablesTrue, Holders, With
  <2>2. /\ entries' = [entries EXCEPT ![e] = NoShow(entries[e])]
        /\ \A s \in Tables : s # t => tables'[s] = tables[s]
    BY <1>1, <1>6 DEF NoShowTx, Freed
  <2>3. NoShow(entries[e]).status = "NO_SHOW"
    BY <1>2, RowChanges
  <2>4. QED
    BY <1>1, <1>2, <1>3, <2>1, <2>2, <2>3, HeldGivenUp
<1>7. CASE SeatTx(w)
  <2>1. /\ UsesTables /\ ~QueueComplete /\ t \in Tables /\ t # NoTable
        /\ tables[t] \in {"FREE", "RESERVED"}
        /\ \A f \in With({"NOTIFIED"}) \ {e} : entries[f].table # t
    BY <1>1, <1>7, SwitchAssumption, NoTableAssumption
       DEF SeatTx, At, HandOK, TablesTrue, HostMaySeat, Disciplined
  <2> DEFINE row == Seated(entries[e], t)
  <2>2. row.status = "SEATED" /\ row.table = t
    BY <1>2, <2>1 DEF Seated, EntryRow
  <2>3. \A f \in Holders \ {e} : entries[f].table # t
    BY <1>1, <2>1 DEF TablesHeld, Holders, HeldAs, With
  <2>4. entries' = [entries EXCEPT ![e] = row] /\ tables' = [tables EXCEPT ![t] = "OCCUPIED"]
    BY <1>7, <2>1 DEF SeatTx
  <2>5. TablesHeld'
    <3>1. TablesHeld /\ entries \in [Entries -> EntryRow] /\ tables \in [Tables -> TableStatus]
      BY <1>1
    <3>2. e \in Entries /\ t \in Tables
      BY <1>2, <2>1
    <3> HIDE DEF e, t, row
    <3>3. QED
      BY <3>1, <3>2, <2>2, <2>3, <2>4, HeldTaken, ZenonT(60)
  <2>6. QED
    BY <1>3, <2>5
<1>8. CASE CancelTx(w)
  <2>1. t = entries[e].table /\ (e \in Holders \/ entries[e].table = NoTable)
    BY <1>1, <1>2, <1>8 DEF CancelTx, At, StillTrue, TablesTrue, Holders, Active, With, GoodRow
  <2>2. /\ entries' = [entries EXCEPT ![e] = Cancelled(entries[e])]
        /\ \A s \in Tables : s # t => tables'[s] = tables[s]
    BY <1>1, <1>8 DEF CancelTx, Freed
  <2>3. Cancelled(entries[e]).status = "CANCELLED"
    BY <1>2, RowChanges
  <2>4. QED
    BY <1>1, <1>2, <1>3, <2>1, <2>2, <2>3, HeldGivenUp
<1>9. CASE CompleteTx(w)
  <2>1. t = entries[e].table /\ (e \in Holders \/ entries[e].table = NoTable)
    BY <1>1, <1>2, <1>9 DEF CompleteTx, At, StillTrue, TablesTrue, Holders, With, GoodRow
  <2>2. /\ entries' = [entries EXCEPT ![e] = Completed(entries[e], t)]
        /\ \A s \in Tables : s # t => tables'[s] = tables[s]
    BY <1>1, <1>9 DEF CompleteTx
  <2>3. Completed(entries[e], t).status = "COMPLETED"
    BY <1>1, <1>2, RowChanges
  <2>4. QED
    BY <1>1, <1>2, <1>3, <2>1, <2>2, <2>3, HeldGivenUp
<1>10. QED
  BY <1>4, <1>5, <1>6, <1>7, <1>8, <1>9

\* tryAdvanceQueue reserves a table that is free, so nobody's.
LEMMA TableAdvance ==
  ASSUME Serial, Disciplined, TableInv, NEW w \in Handlers, AdvanceTx(w)
  PROVE  TableHand' /\ TablesHeld'
<1> DEFINE e == req[w].e
           t == req[w].t
           row == Called(entries[e], t)
<1>1. /\ req[w] \in Request /\ HandOK(req[w]) /\ StillTrue(req[w]) /\ TablesTrue(req[w])
      /\ IInv /\ TablesHeld
      /\ entries \in [Entries -> EntryRow] /\ tables \in [Tables -> TableStatus]
  BY HandTyped DEF TableInv, SerialInv, LoneHand, TableHand, IInv, TypeOK
<1>2. /\ req[w].at = "advance.tx" /\ e \in Entries /\ t \in Tables /\ tables[t] = "FREE"
      /\ e \in Waiting /\ t # NoTable /\ req[w].t = t
  BY <1>1, NoTableAssumption DEF AdvanceTx, At, HandOK, ReadPoints, StillTrue, TablesTrue, First,
     Fitting
<1>3. /\ entries' = [entries EXCEPT ![e] = row] /\ tables' = [tables EXCEPT ![t] = "RESERVED"]
      /\ req' = [req EXCEPT ![w] = Finished(req[w])]
  BY DEF AdvanceTx, Goto
<1>4. row.status = "NOTIFIED" /\ row.table = t
  BY <1>1, <1>2 DEF Called, EntryRow
<1>5. \A f \in Holders \ {e} : entries[f].table # t
  BY <1>1, <1>2 DEF TablesHeld, Holders, HeldAs, With
<1> HIDE DEF row
<1>6. TablesHeld'
  BY <1>1, <1>2, <1>3, <1>4, <1>5, HeldTaken
<1>7. ASSUME NEW s \in Tables, req[w].updates[s] # "none"
      PROVE  /\ req[w].tick = "poll" /\ req[w].t # s
             /\ \A f \in Entries : entries'[f].status = "NOTIFIED" => entries'[f].table # s
             /\ tables'[s] = "OCCUPIED" =>
                  req[w].updates[s] \in {"OCCUPIED", "CLEARING"}
                    \/ (req[w].updates[s] = "FREE" /\ ~ManualDispatch)
  BY <1>1, <1>2, <1>3, <1>4, <1>7 DEF TablesTrue, MayBecomeTable, With
<1>8. req[w].tick = "sweep" =>
        \A f \in req[w].listed : req[w].held[f] \in {NoTable, entries'[f].table}
  BY <1>1, <1>2, <1>3 DEF TablesTrue, StillTrue, With, Waiting
<1>9. QED
  BY <1>1, <1>3, <1>6, <1>7, <1>8, TickWrite

\* Writing a position touches no table.
LEMMA TableResequenceWrite ==
  ASSUME Serial, TableInv, NEW w \in Handlers, ResequenceWrite(w)
  PROVE  TableHand' /\ TablesHeld'
<1>1. PICK e \in Entries :
        /\ entries' = [entries EXCEPT ![e].position = req[w].plan[e]]
        /\ LET r == [req[w] EXCEPT !.plan[e] = 0]
           IN Goto(w, IF r.plan = NoPlan THEN OfferNext(r) ELSE r)
  BY DEF ResequenceWrite
<1>2. /\ req[w] \in Request /\ TablesTrue(req[w]) /\ req[w].at = "reseq.write"
      /\ entries \in [Entries -> EntryRow] /\ tables' = tables /\ IInv /\ TablesHeld
  BY HandTyped DEF TableInv, SerialInv, TableHand, ResequenceWrite, At, IInv, TypeOK
<1> DEFINE q == [req[w] EXCEPT !.plan[e] = 0]
<1>3. /\ q \in Request /\ q.at = "reseq.write" /\ q.tick = req[w].tick /\ q.t = req[w].t
      /\ q.updates = req[w].updates /\ q.listed = req[w].listed /\ q.held = req[w].held
  BY <1>2 DEF Request
<1>4. \A f \in Entries : /\ entries'[f].status = entries[f].status
                         /\ entries'[f].table = entries[f].table
  BY <1>1, <1>2 DEF EntryRow
<1>5. TablesHeld'
  BY <1>2, <1>4 DEF TablesHeld, Holders, With
<1>6. req' = [req EXCEPT ![w] = IF q.plan = NoPlan THEN OfferNext(q) ELSE q]
  BY <1>1 DEF Goto
<1> HIDE DEF q
<1>7. ASSUME NEW s \in Tables, q.updates[s] # "none"
      PROVE  /\ q.tick = "poll" /\ q.t # s
             /\ \A f \in Entries : entries'[f].status = "NOTIFIED" => entries'[f].table # s
             /\ tables'[s] = "OCCUPIED" =>
                  q.updates[s] \in {"OCCUPIED", "CLEARING"}
                    \/ (q.updates[s] = "FREE" /\ ~ManualDispatch)
  BY <1>2, <1>3, <1>4, <1>7 DEF TablesTrue, MayBecomeTable, With
<1>8. q.tick = "sweep" => \A f \in q.listed : q.held[f] \in {NoTable, entries'[f].table}
  <2>1. q.listed \subseteq Entries
    BY <1>3 DEF Request
  <2>2. QED
    BY <1>2, <1>3, <1>4, <2>1 DEF TablesTrue
<1>9. CASE q.plan = NoPlan
  BY <1>2, <1>3, <1>5, <1>6, <1>7, <1>8, <1>9, TickWrite
<1>10. CASE q.plan # NoPlan
  <2>1. Free(q) /\ q.at \in PollPoints
    BY <1>3 DEF Free, PollPoints, SweepPoints
  <2>2. QED
    BY <1>2, <1>5, <1>6, <1>7, <1>8, <1>10, <2>1, TableWrite
<1>11. QED
  BY <1>9, <1>10

\* The bulk clears, table changes and the reset of all tables.
LEMMA TableOtherWrite ==
  ASSUME Serial, Disciplined, TableInv, NEW w \in Handlers,
         ClearActiveTx(w) \/ ClearAllTx(w) \/ TableTx(w) \/ ResetAllTables(w)
  PROVE  TableHand' /\ TablesHeld'
<1>1. /\ req[w] \in Request /\ HandOK(req[w]) /\ StillTrue(req[w]) /\ TablesTrue(req[w])
      /\ IInv /\ TablesHeld
      /\ entries \in [Entries -> EntryRow] /\ tables \in [Tables -> TableStatus]
  BY HandTyped DEF TableInv, SerialInv, LoneHand, TableHand, IInv, TypeOK
<1>2. ASSUME NEW e \in Entries, entries[e].status \in {"NOTIFIED", "SEATED"},
             entries[e].table # NoTable
      PROVE  /\ entries[e].table \in Tables
             /\ tables[entries[e].table] = HeldAs(entries[e].status)
  BY <1>1, <1>2 DEF TablesHeld, Holders, With, EntryRow
<1>3. CASE ClearActiveTx(w)
  <2>1. /\ req[w].at = "clearActive.tx" /\ req' = [req EXCEPT ![w] = Idle]
        /\ entries' = [e \in Entries |-> IF e \in Active \cap req[w].listed
                                         THEN Cancelled(entries[e]) ELSE entries[e]]
        /\ \A t \in Tables : tables[t] # "RESERVED" => tables'[t] = tables[t]
    BY <1>1, <1>3 DEF ClearActiveTx, Goto, At
  <2>2. TableHand'
    BY <2>1, RequestWrite DEF PollPoints, SweepPoints
  <2>3. Active \subseteq req[w].listed
    BY <1>1, <2>1 DEF TablesTrue
  <2>4. ASSUME NEW e \in Entries, entries'[e].status \in {"NOTIFIED", "SEATED"}
        PROVE  entries'[e] = entries[e] /\ entries[e].status = "SEATED"
    <3>1. e \notin Active
      BY <1>1, <2>1, <2>3, <2>4 DEF Cancelled, EntryRow
    <3>2. QED
      BY <2>1, <2>4, <3>1 DEF Active, With
  <2>5. QED
    BY <1>2, <1>1, <2>1, <2>2, <2>4, HeldKept DEF HeldAs
<1>4. CASE ClearAllTx(w)
  <2>1. /\ req[w].at = "clearAll.tx" /\ req' = [req EXCEPT ![w] = Idle]
        /\ entries' = [e \in Entries |->
             CASE e \in Active -> Cancelled(entries[e])
               [] entries[e].status = "SEATED" ->
                    Completed(entries[e], IF UsesTables THEN entries[e].table ELSE NoTable)
               [] OTHER -> entries[e]]
    BY <1>4 DEF ClearAllTx, Goto, At
  <2>2. TableHand'
    BY <2>1, RequestWrite DEF PollPoints, SweepPoints
  <2>3. ASSUME NEW e \in Entries PROVE entries'[e].status \notin {"NOTIFIED", "SEATED"}
    <3>1. CASE e \in Active
      <4>1. entries'[e] = Cancelled(entries[e])
        BY <2>1, <3>1 DEF Active, With
      <4>2. QED
        BY <1>1, <4>1 DEF Cancelled, EntryRow
    <3>2. CASE entries[e].status = "SEATED"
      <4>1. entries'[e] = Completed(entries[e], IF UsesTables THEN entries[e].table ELSE NoTable)
        BY <2>1, <3>2 DEF Active, With
      <4>2. QED
        BY <1>1, <4>1 DEF Completed, EntryRow
    <3>3. CASE e \notin Active /\ entries[e].status # "SEATED"
      <4>1. entries'[e] = entries[e]
        BY <2>1, <3>3
      <4>2. QED
        BY <3>3, <4>1 DEF Active, With
    <3>4. QED
      BY <3>1, <3>2, <3>3
  <2>4. QED
    BY <1>1, <2>2, <2>3, HeldKept
<1>5. CASE TableTx(w)
  <2> DEFINE t == req[w].t
             to == req[w].to
             closes == to = "CLEARING" \/ (to = "FREE" /\ ~ManualDispatch)
             q == [req[w] EXCEPT !.to = "none", !.t = IF to = "FREE" THEN t ELSE NoTable]
             u == IF closes THEN Resequence(q) ELSE OfferNext(q)
  <2>1. /\ req' = [req EXCEPT ![w] = u] /\ req[w].at = "table.tx"
        /\ tables' = [tables EXCEPT ![t] = to]
        /\ entries' = [e \in Entries |->
             IF closes /\ entries[e].status = "SEATED" /\ entries[e].table = t
             THEN Completed(entries[e], t) ELSE entries[e]]
    BY <1>5 DEF TableTx, Goto, At
  <2>2. MayBecomeTable(t, to) /\ t \in Tables
    BY <1>1, <2>1 DEF TablesTrue, HandOK
  <2>3. ASSUME NEW e \in Entries, entries'[e].status \in {"NOTIFIED", "SEATED"}
        PROVE  /\ entries'[e] = entries[e]
               /\ closes /\ entries[e].status = "SEATED" => entries[e].table # t
    <3> HIDE DEF closes
    <3>1. Completed(entries[e], t).status = "COMPLETED"
      BY <1>1 DEF Completed, EntryRow
    <3>2. QED
      BY <2>1, <2>3, <3>1
  <2>4. ASSUME NEW e \in Entries, entries'[e].status \in {"NOTIFIED", "SEATED"},
               entries'[e].table # NoTable
        PROVE  tables'[entries[e].table] = tables[entries[e].table]
    <3>1. /\ entries[e].status \in {"NOTIFIED", "SEATED"} /\ entries[e].table # NoTable
          /\ closes /\ entries[e].status = "SEATED" => entries[e].table # t
      BY <2>3, <2>4
    <3>2. CASE entries[e].table # t
      BY <1>1, <2>1, <3>2
    <3>3. CASE entries[e].table = t
      <4>1. entries[e].status = "SEATED" /\ ~closes
        BY <2>2, <3>1, <3>3 DEF MayBecomeTable, With
      <4>2. tables[t] = "OCCUPIED"
        BY <1>2, <3>1, <3>3, <4>1 DEF HeldAs
      <4>3. to = "OCCUPIED"
        BY <2>2, <4>1, <4>2 DEF MayBecomeTable
      <4>4. QED
        BY <1>1, <2>1, <2>2, <3>3, <4>2, <4>3
    <3>4. QED
      BY <3>2, <3>3
  <2>5. TablesHeld'
    BY <1>1, <2>3, <2>4, HeldKept
  <2>6. /\ q \in Request /\ q.tick = req[w].tick /\ q.updates = req[w].updates
        /\ q.t \in {t, NoTable} /\ q.at = "table.tx"
    BY <1>1, <2>1 DEF Request
  <2>7. req[w].tick # "sweep"
    BY <1>1, <2>1 DEF StillTrue, SweepPoints
  <2>8. ASSUME NEW s \in Tables, q.updates[s] # "none"
        PROVE  /\ q.tick = "poll" /\ q.t # s
               /\ \A f \in Entries : entries'[f].status = "NOTIFIED" => entries'[f].table # s
               /\ tables'[s] = "OCCUPIED" =>
                    q.updates[s] \in {"OCCUPIED", "CLEARING"}
                      \/ (q.updates[s] = "FREE" /\ ~ManualDispatch)
    <3> HIDE DEF q, closes
    <3>1. req[w].tick = "poll" /\ t # s /\ MayBecomeTable(s, req[w].updates[s])
      BY <1>1, <2>6, <2>8 DEF TablesTrue
    <3>2. tables'[s] = tables[s] /\ s # NoTable
      BY <1>1, <2>1, <3>1, NoTableAssumption
    <3>3. QED
      BY <2>3, <2>6, <3>1, <3>2 DEF MayBecomeTable, With
  <2>9. TableHand'
    <3>1. u \in {OfferNext(q), Resequence(q)}
      OBVIOUS
    <3> HIDE DEF q, u
    <3>2. QED
      BY <1>1, <2>1, <2>6, <2>7, <2>8, <3>1, TickWrite
  <2>10. QED
    BY <2>5, <2>9
<1>6. CASE ResetAllTables(w)
  <2>1. req[w].at = "reset.tx" /\ req' = [req EXCEPT ![w] = Idle] /\ entries' = entries
    BY <1>6 DEF ResetAllTables, Goto, At
  <2>2. TableHand'
    BY <2>1, RequestWrite DEF PollPoints, SweepPoints
  <2>3. \A e \in Holders : entries[e].table = NoTable
    BY <1>1, <2>1 DEF TablesTrue
  <2>4. QED
    BY <2>1, <2>2, <2>3 DEF TablesHeld, Holders, With
<1>7. QED
  BY <1>3, <1>4, <1>5, <1>6

\* The sweep takes from a guest the reservation it read, or none.
LEMMA TableSweep ==
  ASSUME Serial, Disciplined, TableInv, NEW w \in Handlers, NEW e \in Entries, SweepEntry(w, e)
  PROVE  TableHand' /\ TablesHeld'
<1> DEFINE t == req[w].held[e]
           q == [req[w] EXCEPT !.listed = @ \ {e}, !.held[e] = NoTable, !.t = t]
           row == Lapsed(entries[e])
<1>1. /\ req[w] \in Request /\ StillTrue(req[w]) /\ TablesTrue(req[w]) /\ IInv /\ TablesHeld
      /\ entries \in [Entries -> EntryRow] /\ tables \in [Tables -> TableStatus]
  BY HandTyped DEF TableInv, SerialInv, LoneHand, TableHand, IInv, TypeOK
<1>2. /\ req[w].tick = "sweep" /\ e \in req[w].listed
      /\ entries' = [entries EXCEPT ![e] = row]
      /\ \A s \in Tables : s # t => tables'[s] = tables[s]
      /\ req' = [req EXCEPT ![w] = IF ManualRemove THEN OfferNext(q) ELSE Resequence(q)]
  BY <1>1 DEF SweepEntry, Goto, At, Freed
<1>3. e \in Holders /\ t \in {NoTable, entries[e].table}
  BY <1>1, <1>2 DEF StillTrue, TablesTrue, With, Holders
<1>4. row.table = NoTable
  BY <1>1 DEF Lapsed, NoShow, EntryRow
<1>5. /\ q \in Request /\ q.tick = "sweep" /\ q.listed = req[w].listed \ {e}
      /\ \A f \in q.listed : q.held[f] = req[w].held[f]
      /\ q.updates = req[w].updates
  BY <1>1, <1>2 DEF Request
<1> HIDE DEF row, q
<1>6. TablesHeld'
  BY <1>1, <1>2, <1>3, <1>4, HeldGivenUp
<1>7. \A f \in q.listed : q.held[f] \in {NoTable, entries'[f].table}
  <2>1. ASSUME NEW f \in q.listed PROVE q.held[f] \in {NoTable, entries'[f].table}
    <3>1. f \in req[w].listed /\ f # e /\ f \in Entries /\ q.held[f] = req[w].held[f]
      BY <1>1, <1>5, <2>1 DEF Request
    <3>2. req[w].held[f] \in {NoTable, entries[f].table}
      BY <1>1, <1>2, <3>1 DEF TablesTrue
    <3>3. entries'[f] = entries[f]
      BY <1>1, <1>2, <3>1
    <3>4. QED
      BY <3>1, <3>2, <3>3
  <2>2. QED
    BY <2>1
<1>8. \A s \in Tables : q.updates[s] = "none"
  BY <1>1, <1>2, <1>5 DEF TablesTrue
<1>9. QED
  BY <1>1, <1>2, <1>5, <1>6, <1>7, <1>8, TickWrite

\* The end of a response window touches no table.
LEMMA TableLapse ==
  ASSUME TableInv, NEW e \in Entries, WindowLapses(e)
  PROVE  TableHand' /\ TablesHeld'
<1>1. /\ tables' = tables /\ req' = req
      /\ \A f \in Entries : /\ entries'[f].status = entries[f].status
                            /\ entries'[f].table = entries[f].table
  BY LoneLapse DEF TableInv, SerialInv, WindowLapses
<1>2. /\ With({"NOTIFIED"})' = With({"NOTIFIED"}) /\ Holders' = Holders /\ Active' = Active
      /\ Holders \subseteq Entries /\ With({"NOTIFIED"}) \subseteq Entries
  BY <1>1 DEF With, Holders, Active
<1>3. TablesHeld'
  BY <1>1, <1>2 DEF TableInv, TablesHeld
<1>4. ASSUME NEW w \in Handlers PROVE TablesTrue(req[w])'
  <2>1. /\ req[w] \in Request /\ StillTrue(req[w]) /\ TablesTrue(req[w]) /\ HandOK(req[w])
    BY HandTyped DEF TableInv, SerialInv, LoneHand, TableHand
  <2>2. \A x \in Entries : \A t : HostMaySeat(x, t) => HostMaySeat(x, t)'
    BY <1>1, <1>2 DEF HostMaySeat
  <2>3. \A t, to : MayBecomeTable(t, to) => MayBecomeTable(t, to)'
    BY <1>1, <1>2 DEF MayBecomeTable
  <2>4. /\ req[w].at \in {"seat.table", "seat.tx", "cancel.tx", "complete.tx", "noshow.tx"} =>
             req[w].e \in Entries
        /\ req[w].tick = "sweep" => req[w].listed \subseteq Entries
    BY <2>1 DEF HandOK, ReadPoints, Request
  <2>5. QED
    BY <1>1, <1>2, <2>1, <2>2, <2>3, <2>4 DEF TablesTrue
<1>5. QED
  BY <1>1, <1>3, <1>4 DEF TableHand

-----------------------------------------------------------------------------

\* Every step keeps what the handler has in hand true of the tables, and the
\* tables with their guests.
LEMMA TableNext ==
  ASSUME Serial, Disciplined, TableInv, Next
  PROVE  TableHand' /\ TablesHeld'
<1>1. ASSUME NEW w \in Handlers, NewRequest(w) \/ Step(w) \/ TickStart(w) \/ Fail(w)
      PROVE  TableHand' /\ TablesHeld'
  <2>1. CASE NewRequest(w)
    BY <2>1, TableRequest
  <2>2. CASE \/ JoinDuplicate(w) \/ NotifyFirst(w) \/ ReorderPlan(w) \/ ResequenceRead(w)
             \/ SeatTable(w) \/ AdvanceTable(w) \/ AdvanceEntry(w)
    BY <2>2, TableStepRead
  <2>3. CASE TickStart(w) \/ PollRead(w) \/ TickEnd(w) \/ Fail(w)
               \/ \E t \in Tables : PollTable(w, t)
    BY <2>3, TableTickRead
  <2>4. CASE \/ JoinCreate(w) \/ NotifyWrite(w) \/ NoShowTx(w) \/ SeatTx(w)
             \/ CancelTx(w) \/ CompleteTx(w)
    BY <2>4, TableOneRowWrite
  <2>5. CASE AdvanceTx(w)
    BY <2>5, TableAdvance
  <2>6. CASE ResequenceWrite(w)
    BY <2>6, TableResequenceWrite
  <2>7. CASE ClearActiveTx(w) \/ ClearAllTx(w) \/ TableTx(w) \/ ResetAllTables(w)
    BY <2>7, TableOtherWrite
  <2>8. CASE \E e \in Entries : SweepEntry(w, e)
    BY <2>8, TableSweep
  <2>9. QED
    BY <1>1, <2>1, <2>2, <2>3, <2>4, <2>5, <2>6, <2>7, <2>8 DEF Step
<1>2. ASSUME NEW e \in Entries, WindowLapses(e)
      PROVE  TableHand' /\ TablesHeld'
  BY <1>2, TableLapse
<1>3. QED
  BY <1>1, <1>2 DEF Next

\* The invariant of a disciplined venue that handles one request at a time.
LEMMA TableInvariance == ASSUME Serial, Disciplined PROVE Spec => []TableInv
<1>1. Init => TableHand /\ TablesHeld
  BY DEF Init, TableHand, TablesTrue, Idle, TablesHeld, Holders, With
<1>2. SerialInv /\ TableHand /\ TablesHeld /\ SerialInv' /\ [Next]_vars => (TableHand /\ TablesHeld)'
  <2>1. SUFFICES ASSUME TableInv, [Next]_vars PROVE (TableHand /\ TablesHeld)'
    BY DEF TableInv
  <2>2. CASE Next
    BY <2>1, <2>2, TableNext
  <2>3. CASE UNCHANGED vars
    BY <2>1, <2>3 DEF vars, TableInv, TableHand, TablesHeld, TablesTrue, Holders, Active, With,
                      HostMaySeat, MayBecomeTable
  <2>4. QED
    BY <2>1, <2>2, <2>3
<1>3. QED
  BY <1>1, <1>2, SerialInvariance, PTL DEF Spec, TableInv

\* The reservation that tryAdvanceQueue made stays one guest's, in venues whose
\* staff respect it and that handle one request at a time: no seating, release,
\* poll, sweep, bulk clear or failed handler gives it to anybody else.
THEOREM CalledHoldsReservationSerially ==
  ASSUME Serial, Disciplined PROVE Spec => []CalledHoldsReservation
<1>1. TableInv => CalledHoldsReservation
  BY HeldIsBoth DEF TableInv, SerialInv, IInv, TypeOK
<1>2. QED
  BY <1>1, TableInvariance, PTL

\* A seated guest's table stays OCCUPIED and theirs alone until the guest is
\* completed, in the same venues.
THEOREM SeatedHoldsTableSerially ==
  ASSUME Serial, Disciplined PROVE Spec => []SeatedHoldsTable
<1>1. TableInv => SeatedHoldsTable
  BY HeldIsBoth DEF TableInv, SerialInv, IInv, TypeOK
<1>2. QED
  BY <1>1, TableInvariance, PTL

\* No table is on offer to two guests at once.
THEOREM OneOfferPerTableSerially ==
  ASSUME Serial, Disciplined PROVE Spec => []OneOfferPerTable
<1>1. CalledHoldsReservation => OneOfferPerTable
  BY DEF CalledHoldsReservation, OneOfferPerTable, With
<1>2. QED
  BY <1>1, CalledHoldsReservationSerially, PTL
=============================================================================
