-------------------------- MODULE QueueFloorProofs --------------------------
(***************************************************************************)
(* Proofs about QueueFloor for every number of entries, tables and         *)
(* overlapping handlers and every venue configuration.                     *)
(*                                                                         *)
(* RowShape is not inductive: what a handler writes depends on what it     *)
(* read earlier.  InHand says what stays true of that knowledge while      *)
(* other handlers run, and JoinersApart that two joins never create the    *)
(* same row.  StepKeepsInv collects what an action must show.              *)
(***************************************************************************)
EXTENDS QueueFloor, FiniteSetTheorems, TLAPS

Joining(r) == r.at \in {"join.dup", "join.create"}

\* The points at which the entry in hand was read from the database.
ReadPoints == {"notify.first", "notify.write", "noshow.tx", "reorder.up",
               "reorder.down", "prioritize.read", "seat.table", "seat.tx",
               "cancel.tx", "complete.tx", "advance.tx"}

HandOK(r) ==
  /\ Joining(r) => r.e \in Entries /\ entries[r.e].status = "ABSENT"
  /\ r.at \in ReadPoints => r.e \in Entries /\ entries[r.e].status # "ABSENT"
  /\ r.at \in {"notify.first", "notify.write"} => ManualDispatch
  /\ r.at \in {"seat.table", "seat.tx"} => (UsesTables => r.t \in Tables)
  /\ r.at \in {"table.tx", "advance.table", "advance.entry", "advance.tx"} =>
       r.t \in Tables
  /\ r.at = "table.tx" => r.to \in TableStatus
  /\ r.tick = "sweep" =>
       \A e \in r.listed : entries[e].status \notin {"ABSENT", "WAITING"}

InHand == \A w \in Handlers : HandOK(req[w])

JoinersApart ==
  \A v, w \in Handlers : Joining(req[v]) /\ Joining(req[w]) /\ v # w =>
                           req[v].e # req[w].e

IInv == TypeOK /\ RowShape /\ InHand /\ JoinersApart

\* A step of w turns no created row back and creates only the row w joins.
RowsAdvance(w) ==
  \A e \in Entries :
    /\ entries[e].status = "ABSENT" =>
         \/ entries'[e].status = "ABSENT"
         \/ Joining(req[w]) /\ req[w].e = e
    /\ entries[e].status # "ABSENT" => entries'[e].status # "ABSENT"
    /\ entries[e].status \notin {"ABSENT", "WAITING"} =>
         entries'[e].status \notin {"ABSENT", "WAITING"}

\* What w remembers after its step keeps it apart from the other joins.
StaysApart(w, r) ==
  Joining(r) => \/ Joining(req[w]) /\ req[w].e = r.e
                \/ \A v \in Handlers \ {w} : Joining(req[v]) => req[v].e # r.e

-----------------------------------------------------------------------------

\* The premises under which a step of handler w keeps the invariant.
LEMMA StepKeepsInv ==
  ASSUME IInv, NEW w \in Handlers, NEW r \in Request,
         req' = [req EXCEPT ![w] = r],
         entries' \in [Entries -> EntryRow], tables' \in [Tables -> TableStatus],
         RowsAdvance(w), StaysApart(w, r), HandOK(r)', RowShape'
  PROVE  IInv'
<1>1. TypeOK'
  BY DEF TypeOK, IInv
<1>2. /\ req'[w] = r
      /\ \A v \in Handlers \ {w} : req'[v] = req[v]
  BY DEF TypeOK, IInv
<1>3. InHand'
  <2>1. SUFFICES ASSUME NEW v \in Handlers PROVE HandOK(req[v])'
    BY DEF InHand
  <2>2. CASE v = w
    BY <2>2, <1>2 DEF HandOK
  <2>3. CASE v # w
    <3>1. HandOK(req[v]) /\ req'[v] = req[v] /\ req[v] \in Request
      BY <2>3, <1>2 DEF IInv, InHand, TypeOK
    <3>2. Joining(req[v]) /\ Joining(req[w]) => req[v].e # req[w].e
      BY <2>3 DEF IInv, JoinersApart
    <3>3. QED
      BY <3>1, <3>2 DEF HandOK, RowsAdvance, Request, Joining, ReadPoints
  <2>4. QED
    BY <2>2, <2>3
<1>4. JoinersApart'
  <2>1. SUFFICES ASSUME NEW v \in Handlers, NEW u \in Handlers, v # u,
                        Joining(req'[v]), Joining(req'[u])
                 PROVE req'[v].e # req'[u].e
    BY DEF JoinersApart, Joining
  <2>2. QED
    BY <2>1, <1>2 DEF StaysApart, IInv, JoinersApart, Joining
<1>5. QED
  BY <1>1, <1>3, <1>4 DEF IInv

\* A step that only reads: what it puts in hand must be right.
LEMMA ReadKeepsInv ==
  ASSUME IInv, NEW w \in Handlers, NEW r \in Request,
         req' = [req EXCEPT ![w] = r], UNCHANGED <<entries, tables>>,
         StaysApart(w, r), HandOK(r)
  PROVE  IInv'
<1>1. entries' \in [Entries -> EntryRow] /\ tables' \in [Tables -> TableStatus]
  BY DEF IInv, TypeOK
<1>2. RowsAdvance(w)
  BY DEF RowsAdvance
<1>3. RowShape' /\ HandOK(r)'
  BY DEF IInv, RowShape, HandOK
<1>4. QED
  BY <1>1, <1>2, <1>3, StepKeepsInv

\* The points a handler is at after a write.
LEMMA Control ==
  ASSUME NEW r \in Request
  PROVE  /\ Idle \in Request /\ Finished(r) \in Request
         /\ OfferNext(r) \in Request /\ Resequence(r) \in Request
<1>1. Idle \in Request
  BY DEF Idle, Request, Points, NoPlan
<1>2. Finished(r) \in Request
  <2>1. CASE r.tick = "none"
    BY <1>1, <2>1 DEF Finished
  <2>2. CASE r.tick # "none"
    BY <2>2, ZenonT(60) DEF Finished, Request, Points, Idle, NoPlan
  <2>3. QED
    BY <2>1, <2>2
<1>3. OfferNext(r) \in Request
  BY <1>2 DEF OfferNext, Request, Points
<1>4. Resequence(r) \in Request
  BY DEF Resequence, Request, Points
<1>5. QED
  BY <1>1, <1>2, <1>3, <1>4

\* A step that ends a request keeps nothing in hand.
LEMMA IdleKeepsInv ==
  ASSUME IInv, NEW w \in Handlers, req' = [req EXCEPT ![w] = Idle],
         UNCHANGED <<entries, tables>>
  PROVE  IInv'
<1>1. Idle \in Request
  <2>1. req[w] \in Request
    BY DEF IInv, TypeOK
  <2>2. QED
    BY <2>1, Control
<1>2. HandOK(Idle) /\ StaysApart(w, Idle)
  BY DEF HandOK, StaysApart, Idle, Joining, ReadPoints
<1>3. QED
  BY <1>1, <1>2, ReadKeepsInv

\* Points at which nothing read from the database is in hand but the rows of
\* a sweep and a table to offer.
Free(r) ==
  /\ r.at \in {"idle", "tick", "reseq.read", "reseq.write", "advance.table"}
  /\ r.at = "advance.table" => r.t \in Tables

\* A handler that goes on after a write is free.
LEMMA GoesFree ==
  ASSUME NEW r \in Request
  PROVE  /\ Free(Idle) /\ Idle.tick = "none"
         /\ Free(Finished(r)) /\ Finished(r).tick = r.tick
         /\ r.tick # "none" => Finished(r).listed = r.listed
         /\ Free(OfferNext(r)) /\ OfferNext(r).tick = r.tick
         /\ r.tick # "none" => OfferNext(r).listed = r.listed
         /\ Free(Resequence(r)) /\ Resequence(r).tick = r.tick
         /\ Resequence(r).listed = r.listed
<1>1. Free(Idle) /\ Idle.tick = "none"
  BY DEF Free, Idle
<1>2. /\ Free(Finished(r)) /\ Finished(r).tick = r.tick
      /\ r.tick # "none" => Finished(r).listed = r.listed
  BY DEF Free, Idle, Finished, Request
<1>3. /\ Free(OfferNext(r)) /\ OfferNext(r).tick = r.tick
      /\ r.tick # "none" => OfferNext(r).listed = r.listed
  BY <1>2 DEF OfferNext, Free, Request
<1>4. /\ Free(Resequence(r)) /\ Resequence(r).tick = r.tick
      /\ Resequence(r).listed = r.listed
  BY DEF Resequence, Free, Request
<1>5. QED
  BY <1>1, <1>2, <1>3, <1>4

\* What a write of w may do to the row of entry e.
RowOK(w, e) ==
  \/ /\ entries'[e].status = entries[e].status
     /\ GoodRow(entries[e]) => GoodRow(entries'[e])
  \/ /\ GoodRow(entries'[e])
     /\ entries'[e].status # "ABSENT"
     /\ \/ Joining(req[w]) /\ req[w].e = e
        \/ entries[e].status # "ABSENT"
     /\ entries[e].status \notin {"ABSENT", "WAITING"} =>
          entries'[e].status # "WAITING"

\* A step that writes: every row it changes stays well formed, no row is
\* turned back, and the handler is free afterwards.
LEMMA WriteKeepsInv ==
  ASSUME IInv, NEW w \in Handlers, NEW r \in Request,
         req' = [req EXCEPT ![w] = r],
         entries' \in [Entries -> EntryRow], tables' \in [Tables -> TableStatus],
         \A e \in Entries : RowOK(w, e),
         Free(r),
         r.tick = "sweep" => req[w].tick = "sweep" /\ r.listed \subseteq req[w].listed
  PROVE  IInv'
<1>1. RowsAdvance(w)
  BY DEF RowsAdvance, RowOK
<1>2. RowShape'
  BY DEF RowOK, RowShape, IInv, GoodRow
<1>3. StaysApart(w, r)
  BY DEF StaysApart, Free, Joining
<1>4. HandOK(r)'
  <2>1. HandOK(req[w])
    BY DEF IInv, InHand
  <2>2. r.listed \subseteq Entries
    BY DEF Request
  <2>3. QED
    BY <1>1, <2>1, <2>2 DEF HandOK, Free, Joining, ReadPoints, RowsAdvance
<1>5. QED
  BY <1>1, <1>2, <1>3, <1>4, StepKeepsInv

\* No row is created when the service starts.
LEMMA InitInv == Init => IInv
<1>1. SUFFICES ASSUME Init PROVE IInv
  OBVIOUS
<1>2. TypeOK
  <2>1. entries \in [Entries -> EntryRow]
    BY <1>1 DEF Init, EntryRow, EntryStatus, Deadline
  <2>2. tables \in [Tables -> TableStatus]
    BY <1>1 DEF Init, TableStatus
  <2>3. req \in [Handlers -> Request]
    BY <1>1 DEF Init, Idle, Request, Points, NoPlan
  <2>4. QED
    BY <2>1, <2>2, <2>3 DEF TypeOK
<1>3. RowShape
  BY <1>1 DEF Init, RowShape, GoodRow
<1>4. InHand /\ JoinersApart
  BY <1>1 DEF Init, InHand, HandOK, JoinersApart, Joining, ReadPoints, Idle
<1>5. QED
  BY <1>2, <1>3, <1>4 DEF IInv

\* A handler in a good state knows the types of what it has in hand.
LEMMA HandTyped ==
  ASSUME IInv, NEW w \in Handlers
  PROVE  req[w] \in Request /\ HandOK(req[w])
BY DEF IInv, TypeOK, InHand

-----------------------------------------------------------------------------
(* New requests *)

\* joinQueue names a row that does not exist and that no other join names.
LEMMA JoinCountKeepsInv ==
  ASSUME IInv, NEW w \in Handlers, NEW e \in Entries, JoinCount(w, e)
  PROVE  IInv'
<1> DEFINE n == Cardinality(Active) + 1
           r == [Idle EXCEPT !.at = "join.dup", !.e = e, !.n = n]
<1>1. n \in Nat
  <2>1. IsFiniteSet(Active)
    <3>1. Active \subseteq Entries
      BY DEF Active, With
    <3>2. QED
      BY <3>1, FS_Subset, FiniteAssumption
  <2>2. Cardinality(Active) \in Nat
    BY <2>1, FS_CardinalityType
  <2>3. QED
    BY <2>2
<1>2. r \in Request
  BY <1>1 DEF Idle, Request, Points, NoPlan
<1>3. req' = [req EXCEPT ![w] = r] /\ UNCHANGED <<entries, tables>>
  BY DEF JoinCount, Begin
<1>4. StaysApart(w, r) /\ HandOK(r)
  BY DEF JoinCount, StaysApart, HandOK, Joining, ReadPoints, Idle
<1>5. QED
  BY <1>2, <1>3, <1>4, ReadKeepsInv

\* Requests that read one existing row and remember it.
LEMMA EntryReadKeepsInv ==
  ASSUME IInv, NEW w \in Handlers, NEW e \in Entries,
         \/ NotifyRead(w, e) \/ NoShowRead(w, e) \/ SeatRead(w, e)
         \/ CancelRead(w, e) \/ CompleteRead(w, e)
         \/ \E point \in Points : ReorderRead(w, e, point)
  PROVE  IInv'
<1>1. ASSUME NEW p \in Points, NEW t \in Tables \cup {NoTable},
             req' = [req EXCEPT ![w] = [Idle EXCEPT !.at = p, !.e = e, !.t = t]],
             UNCHANGED <<entries, tables>>, entries[e].status # "ABSENT",
             p \in ReadPoints \ {"advance.tx"},
             p \in {"notify.first", "notify.write"} => ManualDispatch,
             p \in {"seat.table", "seat.tx"} => (UsesTables => t \in Tables)
      PROVE  IInv'
  <2> DEFINE r == [Idle EXCEPT !.at = p, !.e = e, !.t = t]
  <2>1. r \in Request
    BY DEF Idle, Request, NoPlan
  <2>2. StaysApart(w, r) /\ HandOK(r)
    BY <1>1 DEF StaysApart, HandOK, Joining, ReadPoints, Idle
  <2>3. QED
    BY <1>1, <2>1, <2>2, ReadKeepsInv
<1>2. entries[e].table \in Tables \cup {NoTable} /\ ReservedTable(e) \in Tables \cup {NoTable}
  BY DEF IInv, TypeOK, EntryRow, ReservedTable
<1>3. ASSUME NEW p \in Points,
             req' = [req EXCEPT ![w] = [Idle EXCEPT !.at = p, !.e = e]],
             UNCHANGED <<entries, tables>>, entries[e].status # "ABSENT",
             p \in {"notify.first", "reorder.up", "reorder.down", "prioritize.read"},
             p = "notify.first" => ManualDispatch
      PROVE  IInv'
  <2> DEFINE r == [Idle EXCEPT !.at = p, !.e = e]
  <2>1. r \in Request
    BY DEF Idle, Request, NoPlan
  <2>2. StaysApart(w, r) /\ HandOK(r)
    BY <1>3 DEF StaysApart, HandOK, Joining, ReadPoints, Idle
  <2>3. QED
    BY <1>3, <2>1, <2>2, ReadKeepsInv
<1>4. CASE NotifyRead(w, e)
  BY <1>3, <1>4 DEF NotifyRead, Begin, Points
<1>5. CASE NoShowRead(w, e)
  BY <1>1, <1>2, <1>5 DEF NoShowRead, Begin, ReadPoints, Points
<1>6. CASE SeatRead(w, e)
  <2>1. PICK t \in Tables \cup {NoTable} :
          /\ UsesTables => t # NoTable
          /\ Begin(w, [Idle EXCEPT !.at = IF UsesTables THEN "seat.table" ELSE "seat.tx",
                                   !.e = e, !.t = t])
    BY <1>6 DEF SeatRead
  <2>2. entries[e].status # "ABSENT" /\ UNCHANGED <<entries, tables>>
    BY <1>6 DEF SeatRead, Active, With
  <2>3. CASE UsesTables
    BY <1>1, <2>1, <2>2, <2>3 DEF Begin, ReadPoints, Points
  <2>4. CASE ~UsesTables
    BY <1>1, <2>1, <2>2, <2>4 DEF Begin, ReadPoints, Points
  <2>5. QED
    BY <2>3, <2>4
<1>7. CASE CancelRead(w, e)
  BY <1>1, <1>2, <1>7 DEF CancelRead, Begin, ReadPoints, Points, Active, With
<1>8. CASE CompleteRead(w, e)
  BY <1>1, <1>2, <1>8 DEF CompleteRead, Begin, ReadPoints, Points
<1>9. CASE \E point \in Points : ReorderRead(w, e, point)
  BY <1>3, <1>9 DEF ReorderRead, Begin
<1>10. QED
  BY <1>4, <1>5, <1>6, <1>7, <1>8, <1>9

\* Bulk clears and table changes hold no row of their own.
LEMMA OtherReadKeepsInv ==
  ASSUME IInv, NEW w \in Handlers,
         \/ \E point \in Points : ClearRead(w, point)
         \/ \E t \in Tables, to \in TableStatus : StaffTable(w, t, to)
         \/ ResetRead(w)
  PROVE  IInv'
<1>1. CASE \E point \in Points : ClearRead(w, point)
  <2>1. PICK p \in {"clearActive.tx", "clearAll.tx"} : ClearRead(w, p)
    BY <1>1 DEF ClearRead
  <2> DEFINE read == IF p = "clearActive.tx" THEN Active
                     ELSE With({"WAITING", "NOTIFIED", "SEATED"})
             held == [e \in Entries |-> IF e \in read THEN entries[e].table ELSE NoTable]
             r == [Idle EXCEPT !.at = p, !.listed = read, !.held = held]
  <2>2. read \in SUBSET Entries
    BY DEF Active, With
  <2>3. held \in [Entries -> Tables \cup {NoTable}]
    BY DEF IInv, TypeOK, EntryRow
  <2>4. r \in Request
    <3> HIDE DEF read, held
    <3> QED
      BY <2>2, <2>3 DEF Idle, Request, Points, NoPlan
  <2>5. StaysApart(w, r) /\ HandOK(r)
    <3> HIDE DEF read, held
    <3> QED
      BY DEF StaysApart, HandOK, Joining, ReadPoints, Idle
  <2>6. req' = [req EXCEPT ![w] = r] /\ UNCHANGED <<entries, tables>>
    BY <2>1 DEF ClearRead, Begin
  <2>7. QED
    BY <2>4, <2>5, <2>6, ReadKeepsInv
<1>2. CASE \E t \in Tables, to \in TableStatus : StaffTable(w, t, to)
  <2>1. PICK t \in Tables, to \in TableStatus : StaffTable(w, t, to)
    BY <1>2
  <2> DEFINE r == [Idle EXCEPT !.at = "table.tx", !.t = t, !.to = to]
  <2>2. r \in Request
    BY DEF Idle, Request, Points, NoPlan
  <2>3. StaysApart(w, r) /\ HandOK(r)
    BY DEF StaysApart, HandOK, Joining, ReadPoints, Idle
  <2>4. QED
    BY <2>1, <2>2, <2>3, ReadKeepsInv DEF StaffTable, Begin
<1>3. CASE ResetRead(w)
  <2> DEFINE r == [Idle EXCEPT !.at = "reset.tx"]
  <2>1. r \in Request
    BY DEF Idle, Request, Points, NoPlan
  <2>2. StaysApart(w, r) /\ HandOK(r)
    BY DEF StaysApart, HandOK, Joining, ReadPoints, Idle
  <2>3. QED
    BY <1>3, <2>1, <2>2, ReadKeepsInv DEF ResetRead, Begin
<1>4. QED
  BY <1>1, <1>2, <1>3

-----------------------------------------------------------------------------
(* Reads in the middle of a request or of a tick *)

\* Moving on with the same things in hand, or with a plan of positions.
LEMMA MoveOnKeepsInv ==
  ASSUME IInv, NEW w \in Handlers, NEW p \in Points, NEW plan \in [Entries -> Nat],
         req' = [req EXCEPT ![w] = [req[w] EXCEPT !.at = p, !.plan = plan]],
         UNCHANGED <<entries, tables>>,
         \/ p = "join.create" /\ At(w, "join.dup")
         \/ p = "notify.write" /\ At(w, "notify.first")
         \/ p = "seat.tx" /\ At(w, "seat.table")
         \/ p = "reseq.write"
         \/ p = "advance.entry" /\ At(w, "advance.table")
  PROVE  IInv'
<1> DEFINE r == [req[w] EXCEPT !.at = p, !.plan = plan]
<1>1. req[w] \in Request /\ HandOK(req[w])
  BY HandTyped
<1>2. r \in Request
  BY <1>1 DEF Request
<1>3. StaysApart(w, r) /\ HandOK(r)
  BY <1>1 DEF StaysApart, HandOK, Joining, ReadPoints, At, Request
<1>4. QED
  BY <1>2, <1>3, ReadKeepsInv

\* A handler that stops having nothing left to write.
LEMMA FreeKeepsInv ==
  ASSUME IInv, NEW w \in Handlers, NEW r \in Request,
         req' = [req EXCEPT ![w] = r], UNCHANGED <<entries, tables>>, Free(r),
         r.tick = "sweep" => req[w].tick = "sweep" /\ r.listed \subseteq req[w].listed
  PROVE  IInv'
<1>1. \A e \in Entries : RowOK(w, e)
  BY DEF RowOK
<1>2. entries' \in [Entries -> EntryRow] /\ tables' \in [Tables -> TableStatus]
  BY DEF IInv, TypeOK
<1>3. QED
  BY <1>1, <1>2, WriteKeepsInv

\* A plan of positions is a number for every entry.
LEMMA PlanTyped ==
  ASSUME NEW pri, NEW f \in Numberings(pri)
  PROVE  /\ AsPlan(f) \in [Entries -> Nat]
         /\ \A e, g \in Active : AsPlan(Swapped(f, e, g)) \in [Entries -> Nat]
<1>1. f \in [Active -> 1..Cardinality(Active)]
  BY DEF Numberings
<1>2. \A e, g \in Active : Swapped(f, e, g) \in [Active -> 1..Cardinality(Active)]
  BY <1>1 DEF Swapped
<1>3. ASSUME NEW h \in [Active -> 1..Cardinality(Active)]
      PROVE  AsPlan(h) \in [Entries -> Nat]
  <2>1. Cardinality(Active) \in Nat
    <3>1. Active \subseteq Entries
      BY DEF Active, With
    <3>2. QED
      BY <3>1, FS_Subset, FS_CardinalityType, FiniteAssumption
  <2>2. \A e \in Active : h[e] \in Nat
    BY <2>1
  <2>3. QED
    BY <2>2 DEF AsPlan
<1>4. QED
  BY <1>1, <1>2, <1>3

\* The steps of requests that read, or that only move on.
LEMMA StepReadKeepsInv ==
  ASSUME IInv, NEW w \in Handlers,
         \/ JoinDuplicate(w) \/ NotifyFirst(w) \/ ReorderPlan(w) \/ ResequenceRead(w)
         \/ SeatTable(w) \/ AdvanceTable(w) \/ AdvanceEntry(w)
  PROVE  IInv'
<1>1. req[w] \in Request /\ HandOK(req[w])
  BY HandTyped
<1>2. ASSUME NEW p \in Points
      PROVE  [req[w] EXCEPT !.at = p] = [req[w] EXCEPT !.at = p, !.plan = req[w].plan]
  BY <1>1 DEF Request
<1>3. req[w].plan \in [Entries -> Nat]
  BY <1>1 DEF Request
<1>4. CASE JoinDuplicate(w)
  <2>1. CASE req' = [req EXCEPT ![w] = Idle]
    BY <1>4, <2>1, IdleKeepsInv DEF JoinDuplicate
  <2>2. CASE req' = [req EXCEPT ![w] = [req[w] EXCEPT !.at = "join.create"]]
    BY <1>2, <1>3, <1>4, <2>2, MoveOnKeepsInv DEF JoinDuplicate, Points
  <2>3. QED
    BY <1>4, <2>1, <2>2 DEF JoinDuplicate, Goto
<1>5. CASE NotifyFirst(w)
  <2>1. CASE req' = [req EXCEPT ![w] = Idle]
    BY <1>5, <2>1, IdleKeepsInv DEF NotifyFirst
  <2>2. CASE req' = [req EXCEPT ![w] = [req[w] EXCEPT !.at = "notify.write"]]
    BY <1>2, <1>3, <1>5, <2>2, MoveOnKeepsInv DEF NotifyFirst, Points
  <2>3. QED
    BY <1>5, <2>1, <2>2 DEF NotifyFirst, Goto
<1>6. CASE SeatTable(w)
  <2>1. CASE req' = [req EXCEPT ![w] = Idle]
    BY <1>6, <2>1, IdleKeepsInv DEF SeatTable
  <2>2. CASE req' = [req EXCEPT ![w] = [req[w] EXCEPT !.at = "seat.tx"]]
    BY <1>2, <1>3, <1>6, <2>2, MoveOnKeepsInv DEF SeatTable, Points
  <2>3. QED
    BY <1>6, <2>1, <2>2 DEF SeatTable, Goto
<1>7. CASE ReorderPlan(w)
  <2>1. PICK f \in Numberings(NoEntry) :
          \/ Goto(w, Idle)
          \/ \E g \in Waiting :
               /\ IsNeighbour(f, req[w].e, g, req[w].at)
               /\ Goto(w, [req[w] EXCEPT !.at = "reseq.write",
                                         !.plan = AsPlan(Swapped(f, req[w].e, g))])
    BY <1>7 DEF ReorderPlan
  <2>2. UNCHANGED <<entries, tables>>
    BY <1>7 DEF ReorderPlan
  <2>3. CASE Goto(w, Idle)
    BY <2>2, <2>3, IdleKeepsInv DEF Goto
  <2>4. ASSUME NEW g \in Waiting, IsNeighbour(f, req[w].e, g, req[w].at),
               Goto(w, [req[w] EXCEPT !.at = "reseq.write",
                                      !.plan = AsPlan(Swapped(f, req[w].e, g))])
        PROVE  IInv'
    <3>1. req[w].e \in Active /\ g \in Active
      BY <2>4 DEF IsNeighbour, Waiting, Active, With
    <3>2. AsPlan(Swapped(f, req[w].e, g)) \in [Entries -> Nat]
      BY <3>1, PlanTyped
    <3>3. QED
      BY <2>2, <2>4, <3>2, MoveOnKeepsInv DEF Goto, Points
  <2>5. QED
    BY <2>1, <2>3, <2>4
<1>8. CASE ResequenceRead(w)
  <2> DEFINE pri == IF At(w, "prioritize.read") THEN req[w].e ELSE NoEntry
  <2>1. PICK f \in Numberings(pri) :
          Goto(w, IF Active = {} THEN OfferNext(req[w])
                  ELSE [req[w] EXCEPT !.at = "reseq.write", !.plan = AsPlan(f)])
    BY <1>8 DEF ResequenceRead
  <2> HIDE DEF pri
  <2>2. UNCHANGED <<entries, tables>>
    BY <1>8 DEF ResequenceRead
  <2>3. CASE Goto(w, OfferNext(req[w]))
    <3>1. /\ OfferNext(req[w]) \in Request /\ Free(OfferNext(req[w]))
          /\ OfferNext(req[w]).tick = "sweep" =>
               req[w].tick = "sweep" /\ OfferNext(req[w]).listed \subseteq req[w].listed
      BY <1>1, Control, GoesFree
    <3>2. QED
      BY <2>2, <2>3, <3>1, FreeKeepsInv DEF Goto
  <2>4. CASE Goto(w, [req[w] EXCEPT !.at = "reseq.write", !.plan = AsPlan(f)])
    BY <2>2, <2>4, PlanTyped, MoveOnKeepsInv DEF Goto, Points
  <2>5. QED
    BY <2>1, <2>3, <2>4
<1>9. ASSUME Goto(w, Finished(req[w])), UNCHANGED <<entries, tables>>
      PROVE  IInv'
  <2>1. /\ Finished(req[w]) \in Request /\ Free(Finished(req[w]))
        /\ Finished(req[w]).tick = "sweep" =>
             req[w].tick = "sweep" /\ Finished(req[w]).listed \subseteq req[w].listed
    BY <1>1, Control, GoesFree
  <2>2. QED
    BY <1>9, <2>1, FreeKeepsInv DEF Goto
<1>10. CASE AdvanceTable(w)
  <2>1. CASE Goto(w, Finished(req[w]))
    BY <1>9, <1>10, <2>1 DEF AdvanceTable
  <2>2. CASE Goto(w, [req[w] EXCEPT !.at = "advance.entry"])
    <3>1. /\ At(w, "advance.table") /\ UNCHANGED <<entries, tables>>
          /\ req' = [req EXCEPT ![w] = [req[w] EXCEPT !.at = "advance.entry"]]
      BY <1>10, <2>2 DEF AdvanceTable, Goto
    <3>2. QED
      BY <1>2, <1>3, <3>1, MoveOnKeepsInv DEF Points
  <2>3. QED
    BY <1>10, <2>1, <2>2 DEF AdvanceTable, Goto
<1>11. CASE AdvanceEntry(w)
  <2>1. CASE Goto(w, Finished(req[w]))
    BY <1>9, <1>11, <2>1 DEF AdvanceEntry
  <2>2. ASSUME NEW e \in First(Fitting(req[w].t)),
               Goto(w, [req[w] EXCEPT !.at = "advance.tx", !.e = e])
        PROVE  IInv'
    <3> DEFINE r == [req[w] EXCEPT !.at = "advance.tx", !.e = e]
    <3>1. e \in Entries /\ entries[e].status = "WAITING"
      BY DEF First, Fitting, Waiting, With
    <3>2. r \in Request
      BY <1>1, <3>1 DEF Request, Points
    <3>3. StaysApart(w, r) /\ HandOK(r)
      BY <1>1, <1>11, <3>1 DEF AdvanceEntry, At, StaysApart, HandOK, Joining,
                               ReadPoints, Request
    <3>4. QED
      BY <1>11, <2>2, <3>2, <3>3, ReadKeepsInv DEF AdvanceEntry, Goto
  <2>3. QED
    BY <1>11, <2>1, <2>2 DEF AdvanceEntry
<1>12. QED
  BY <1>4, <1>5, <1>6, <1>7, <1>8, <1>10, <1>11

\* The reads of a tick: the sweep lists called guests and their tables.
LEMMA TickReadKeepsInv ==
  ASSUME IInv, NEW w \in Handlers,
         \/ TickStart(w) \/ PollRead(w) \/ TickEnd(w) \/ Fail(w)
         \/ \E t \in Tables : PollTable(w, t)
  PROVE  IInv'
<1>1. req[w] \in Request /\ HandOK(req[w])
  BY HandTyped
<1>2. CASE TickStart(w)
  <2> DEFINE held == [e \in Entries |-> IF e \in Lapsing THEN ReservedTable(e) ELSE NoTable]
             r == [Idle EXCEPT !.at = "tick", !.tick = "sweep", !.listed = Lapsing,
                               !.held = held]
  <2>1. Lapsing \in SUBSET Entries
    BY DEF Lapsing, With
  <2>2. held \in [Entries -> Tables \cup {NoTable}]
    BY DEF IInv, TypeOK, EntryRow, ReservedTable
  <2>3. r \in Request
    <3> HIDE DEF held
    <3> QED
      BY <2>1, <2>2 DEF Idle, Request, Points, NoPlan
  <2>4. StaysApart(w, r) /\ HandOK(r)
    <3>1. \A e \in Lapsing : entries[e].status \notin {"ABSENT", "WAITING"}
      BY DEF Lapsing, With
    <3> HIDE DEF held
    <3>2. QED
      BY <3>1 DEF StaysApart, HandOK, Joining, ReadPoints, Idle
  <2>5. req' = [req EXCEPT ![w] = r] /\ UNCHANGED <<entries, tables>>
    BY <1>2 DEF TickStart, Goto
  <2>6. QED
    BY <2>3, <2>4, <2>5, ReadKeepsInv
<1>3. CASE PollRead(w)
  <2>1. UNCHANGED <<entries, tables>>
    BY <1>3 DEF PollRead
  <2>2. ASSUME Goto(w, Idle) PROVE IInv'
    BY <2>1, <2>2, IdleKeepsInv DEF Goto
  <2>3. ASSUME NEW S \in SUBSET Tables, NEW reported \in [S -> TableStatus],
               Goto(w, [Idle EXCEPT !.at = "tick", !.tick = "poll",
                          !.updates = [t \in Tables |-> IF t \in S
                                         THEN reported[t] ELSE "none"]])
        PROVE  IInv'
    <3> DEFINE updates == [t \in Tables |-> IF t \in S THEN reported[t] ELSE "none"]
               r == [Idle EXCEPT !.at = "tick", !.tick = "poll", !.updates = updates]
    <3>1. updates \in [Tables -> TableStatus \cup {"none"}]
      OBVIOUS
    <3>2. r \in Request
      <4> HIDE DEF updates
      <4> QED
        BY <3>1 DEF Idle, Request, Points, NoPlan
    <3>3. Free(r) /\ r.tick # "sweep"
      BY DEF Free, Idle
    <3>4. QED
      BY <2>1, <2>3, <3>2, <3>3, FreeKeepsInv DEF Goto
  <2>4. CASE ~UsesTables
    BY <1>3, <2>2, <2>4 DEF PollRead
  <2>5. CASE UsesTables
    <3>1. PICK S \in SUBSET {t \in Tables : tables[t] # "RESERVED"} :
            \E reported \in [S -> IF ExternalTms THEN External ELSE {"FREE"}] :
              Goto(w, [Idle EXCEPT !.at = "tick", !.tick = "poll",
                         !.updates = [t \in Tables |-> IF t \in S
                                        THEN reported[t] ELSE "none"]])
      BY <1>3, <2>5 DEF PollRead
    <3>2. PICK reported \in [S -> IF ExternalTms THEN External ELSE {"FREE"}] :
            Goto(w, [Idle EXCEPT !.at = "tick", !.tick = "poll",
                       !.updates = [t \in Tables |-> IF t \in S
                                      THEN reported[t] ELSE "none"]])
      BY <3>1
    <3>3. reported \in [S -> TableStatus]
      BY DEF External, TableStatus
    <3>4. QED
      BY <2>3, <3>2, <3>3
  <2>6. QED
    BY <2>4, <2>5
<1>4. CASE \E t \in Tables : PollTable(w, t)
  <2>1. PICK t \in Tables : PollTable(w, t)
    BY <1>4
  <2> DEFINE r == [req[w] EXCEPT !.at = "table.tx", !.t = t, !.to = req[w].updates[t],
                                 !.updates[t] = "none"]
  <2>2. req[w].updates[t] \in TableStatus
    BY <1>1, <2>1 DEF PollTable, Request
  <2>3. r \in Request
    BY <1>1, <2>2 DEF Request, Points
  <2>4. StaysApart(w, r) /\ HandOK(r)
    BY <1>1, <2>1, <2>2, ZenonT(60) DEF PollTable, At, StaysApart, HandOK, Joining, ReadPoints, Request
  <2>5. QED
    BY <2>1, <2>3, <2>4, ReadKeepsInv DEF PollTable, Goto
<1>5. CASE TickEnd(w)
  BY <1>5, IdleKeepsInv DEF TickEnd, Goto
<1>6. CASE Fail(w)
  BY <1>6, IdleKeepsInv DEF Fail, Goto
<1>7. QED
  BY <1>2, <1>3, <1>4, <1>5, <1>6

-----------------------------------------------------------------------------
(* Writes *)

\* What the row changes produce.
LEMMA RowChanges ==
  ASSUME NEW row \in EntryRow, NEW t \in Tables \cup {NoTable}
  PROVE  /\ Called(row, t) \in EntryRow /\ Called(row, t).status = "NOTIFIED"
         /\ ManualDispatch \/ t # NoTable => GoodRow(Called(row, t))
         /\ Cancelled(row) \in EntryRow /\ Cancelled(row).status = "CANCELLED"
         /\ GoodRow(Cancelled(row))
         /\ NoShow(row) \in EntryRow /\ NoShow(row).status = "NO_SHOW"
         /\ GoodRow(NoShow(row))
         /\ Completed(row, t) \in EntryRow /\ Completed(row, t).status = "COMPLETED"
         /\ GoodRow(Completed(row, t))
         /\ Seated(row, t) \in EntryRow /\ Seated(row, t).status \in {"SEATED", "COMPLETED"}
         /\ (UsesTables => t # NoTable) => GoodRow(Seated(row, t))
<1> USE DEF EntryRow, EntryStatus, Deadline, GoodRow
<1>1. /\ Called(row, t) \in EntryRow /\ Called(row, t).status = "NOTIFIED"
      /\ ManualDispatch \/ t # NoTable => GoodRow(Called(row, t))
  BY DEF Called
<1>2. /\ Cancelled(row) \in EntryRow /\ Cancelled(row).status = "CANCELLED"
      /\ GoodRow(Cancelled(row))
  BY DEF Cancelled
<1>3. /\ NoShow(row) \in EntryRow /\ NoShow(row).status = "NO_SHOW"
      /\ GoodRow(NoShow(row))
  BY DEF NoShow
<1>4. \A u \in Tables \cup {NoTable} :
        /\ Completed(row, u) \in EntryRow /\ Completed(row, u).status = "COMPLETED"
        /\ GoodRow(Completed(row, u))
  BY DEF Completed
<1>5. /\ Seated(row, t) \in EntryRow /\ Seated(row, t).status \in {"SEATED", "COMPLETED"}
      /\ (UsesTables => t # NoTable) => GoodRow(Seated(row, t))
  <2>1. CASE QueueComplete
    BY <1>4, <2>1 DEF Seated
  <2>2. CASE ~QueueComplete
    BY <2>2 DEF Seated
  <2>3. QED
    BY <2>1, <2>2
<1>6. QED
  BY <1>1, <1>2, <1>3, <1>4, <1>5

\* The sweep's write keeps a row that is no longer waiting well formed.
LEMMA LapsedRow ==
  ASSUME NEW row \in EntryRow, GoodRow(row), row.status \notin {"ABSENT", "WAITING"}
  PROVE  /\ Lapsed(row) \in EntryRow /\ GoodRow(Lapsed(row))
         /\ Lapsed(row).status \notin {"ABSENT", "WAITING"}
<1>1. CASE ManualRemove
  BY <1>1 DEF Lapsed, EntryRow, EntryStatus, Deadline, GoodRow
<1>2. CASE ~ManualRemove
  BY <1>2, RowChanges DEF Lapsed
<1>3. QED
  BY <1>1, <1>2

\* Where a handler goes after a write keeps it free and its sweep's list.
LEMMA AfterWrite ==
  ASSUME NEW r \in Request,
         NEW u \in {Idle, Finished(r), OfferNext(r), Resequence(r),
                    Resequence([r EXCEPT !.t = NoTable])}
  PROVE  /\ u \in Request /\ Free(u)
         /\ u.tick = "sweep" => r.tick = "sweep" /\ u.listed \subseteq r.listed
<1> DEFINE q == [r EXCEPT !.t = NoTable]
<1>1. q \in Request /\ q.tick = r.tick /\ q.listed = r.listed
  BY DEF Request
<1>2. CASE u = Resequence(q)
  <2> HIDE DEF q
  <2> QED
    BY <1>1, <1>2, Control, GoesFree
<1>3. CASE u \in {Idle, Finished(r), OfferNext(r), Resequence(r)}
  BY <1>3, Control, GoesFree
<1>4. QED
  BY <1>2, <1>3

\* A step that writes one row, and perhaps tables.
LEMMA EntryWriteKeepsInv ==
  ASSUME IInv, NEW w \in Handlers, NEW e \in Entries, NEW row \in EntryRow,
         entries' = [entries EXCEPT ![e] = row], tables' \in [Tables -> TableStatus],
         GoodRow(row), row.status # "ABSENT",
         \/ Joining(req[w]) /\ req[w].e = e
         \/ entries[e].status # "ABSENT" /\ row.status # "WAITING",
         NEW u \in {Idle, Finished(req[w]), OfferNext(req[w]), Resequence(req[w]),
                    Resequence([req[w] EXCEPT !.t = NoTable])},
         req' = [req EXCEPT ![w] = u]
  PROVE  IInv'
<1>1. req[w] \in Request /\ HandOK(req[w])
  BY HandTyped
<1>2. /\ u \in Request /\ Free(u)
      /\ u.tick = "sweep" => req[w].tick = "sweep" /\ u.listed \subseteq req[w].listed
  BY <1>1, AfterWrite
<1>3. entries \in [Entries -> EntryRow]
  BY DEF IInv, TypeOK
<1>4. \A f \in Entries : RowOK(w, f)
  BY <1>1, <1>3 DEF RowOK, HandOK
<1>5. QED
  BY <1>2, <1>3, <1>4, WriteKeepsInv

\* Freeing a table leaves the table column typed.
LEMMA FreedTyped ==
  ASSUME IInv, NEW t \in Tables \cup {NoTable}
  PROVE  Freed(t) \in [Tables -> TableStatus]
BY DEF Freed, IInv, TypeOK, TableStatus

\* The writes of one row: create, call, no-show, seat, cancel, complete, offer.
LEMMA OneRowWriteKeepsInv ==
  ASSUME IInv, NEW w \in Handlers,
         \/ JoinCreate(w) \/ NotifyWrite(w) \/ NoShowTx(w) \/ SeatTx(w)
         \/ CancelTx(w) \/ CompleteTx(w) \/ AdvanceTx(w)
  PROVE  IInv'
<1> DEFINE e == req[w].e
           t == req[w].t
<1>1. req[w] \in Request /\ HandOK(req[w])
  BY HandTyped
<1>2. t \in Tables \cup {NoTable}
  BY <1>1 DEF Request
<1>3. entries \in [Entries -> EntryRow] /\ tables \in [Tables -> TableStatus]
  BY DEF IInv, TypeOK
<1>4. CASE JoinCreate(w)
  <2> DEFINE row == [status |-> "WAITING", position |-> req[w].n, table |-> NoTable,
                     deadline |-> "none", expired |-> FALSE]
  <2>1. e \in Entries /\ Joining(req[w])
    BY <1>1, <1>4 DEF JoinCreate, At, HandOK, Joining
  <2>2. row \in EntryRow /\ GoodRow(row) /\ row.status # "ABSENT"
    BY <1>1 DEF EntryRow, EntryStatus, Deadline, GoodRow, Request
  <2>3. /\ entries' = [entries EXCEPT ![e] = row] /\ tables' = tables
        /\ req' = [req EXCEPT ![w] = Idle]
    BY <1>4 DEF JoinCreate, Goto
  <2> HIDE DEF row
  <2>4. QED
    BY <1>3, <2>1, <2>2, <2>3, EntryWriteKeepsInv
<1>5. CASE NotifyWrite(w)
  <2> DEFINE row == Called(entries[e], entries[e].table)
  <2>1. e \in Entries /\ entries[e].status # "ABSENT" /\ ManualDispatch
    BY <1>1, <1>5 DEF NotifyWrite, At, HandOK, ReadPoints
  <2>2. entries[e] \in EntryRow /\ entries[e].table \in Tables \cup {NoTable}
    BY <1>3, <2>1 DEF EntryRow
  <2>3. row \in EntryRow /\ GoodRow(row) /\ row.status = "NOTIFIED"
    BY <2>1, <2>2, RowChanges
  <2>4. /\ entries' = [entries EXCEPT ![e] = row] /\ tables' = tables
        /\ req' = [req EXCEPT ![w] = Resequence(req[w])]
    BY <1>5 DEF NotifyWrite, Goto
  <2> HIDE DEF row
  <2>5. QED
    BY <1>3, <2>1, <2>3, <2>4, EntryWriteKeepsInv
<1>6. ASSUME NEW row \in EntryRow, GoodRow(row), row.status \notin {"ABSENT", "WAITING"},
             e \in Entries, entries[e].status # "ABSENT",
             entries' = [entries EXCEPT ![e] = row],
             tables' \in [Tables -> TableStatus],
             NEW u \in {Idle, Finished(req[w]), OfferNext(req[w]), Resequence(req[w]),
                        Resequence([req[w] EXCEPT !.t = NoTable])},
             Goto(w, u)
      PROVE  IInv'
  BY <1>6, EntryWriteKeepsInv DEF Goto
<1>7. /\ [tables EXCEPT ![t] = "OCCUPIED"] \in [Tables -> TableStatus]
      /\ [tables EXCEPT ![t] = "CLEARING"] \in [Tables -> TableStatus]
      /\ [tables EXCEPT ![t] = "RESERVED"] \in [Tables -> TableStatus]
  BY <1>3 DEF TableStatus
<1>8. At(w, "noshow.tx") \/ At(w, "seat.tx") \/ At(w, "cancel.tx") \/ At(w, "complete.tx")
        \/ At(w, "advance.tx") =>
        e \in Entries /\ entries[e].status # "ABSENT" /\ entries[e] \in EntryRow
  BY <1>1, <1>3 DEF At, HandOK, ReadPoints
<1>9. CASE NoShowTx(w)
  <2>1. /\ At(w, "noshow.tx") /\ entries' = [entries EXCEPT ![e] = NoShow(entries[e])]
        /\ tables' = Freed(t) /\ Goto(w, Resequence(req[w]))
    BY <1>9 DEF NoShowTx
  <2>2. QED
    BY <1>2, <1>6, <1>8, <2>1, RowChanges, FreedTyped
<1>10. CASE SeatTx(w)
  <2>1. /\ At(w, "seat.tx") /\ entries' = [entries EXCEPT ![e] = Seated(entries[e], t)]
        /\ tables' = IF ~UsesTables THEN tables ELSE [tables EXCEPT ![t] = "OCCUPIED"]
        /\ Goto(w, Resequence([req[w] EXCEPT !.t = NoTable]))
    BY <1>10 DEF SeatTx
  <2>2. UsesTables => t # NoTable
    BY <1>1, <2>1, NoTableAssumption DEF At, HandOK
  <2>3. tables' \in [Tables -> TableStatus]
    BY <1>3, <1>7, <2>1
  <2>4. /\ Seated(entries[e], t) \in EntryRow /\ GoodRow(Seated(entries[e], t))
        /\ Seated(entries[e], t).status \notin {"ABSENT", "WAITING"}
    BY <1>2, <1>8, <2>1, <2>2, RowChanges
  <2>5. QED
    BY <1>6, <1>8, <2>1, <2>3, <2>4
<1>11. CASE CancelTx(w)
  <2>1. /\ At(w, "cancel.tx") /\ entries' = [entries EXCEPT ![e] = Cancelled(entries[e])]
        /\ tables' \in {Freed(t), tables}
        /\ Goto(w, Resequence([req[w] EXCEPT !.t = NoTable]))
    BY <1>11 DEF CancelTx
  <2>2. tables' \in [Tables -> TableStatus]
    BY <1>2, <1>3, <2>1, FreedTyped
  <2>3. QED
    BY <1>2, <1>6, <1>8, <2>1, <2>2, RowChanges
<1>12. CASE CompleteTx(w)
  <2>1. /\ At(w, "complete.tx")
        /\ entries' = [entries EXCEPT ![e] = Completed(entries[e], t)]
        /\ tables' = IF t = NoTable THEN tables ELSE [tables EXCEPT ![t] = "CLEARING"]
        /\ Goto(w, Resequence([req[w] EXCEPT !.t = NoTable]))
    BY <1>12 DEF CompleteTx
  <2>2. tables' \in [Tables -> TableStatus]
    BY <1>3, <1>7, <2>1
  <2>3. QED
    BY <1>2, <1>6, <1>8, <2>1, <2>2, RowChanges
<1>13. CASE AdvanceTx(w)
  <2>1. /\ At(w, "advance.tx") /\ entries' = [entries EXCEPT ![e] = Called(entries[e], t)]
        /\ tables' = [tables EXCEPT ![t] = "RESERVED"]
        /\ Goto(w, Finished(req[w]))
    BY <1>13 DEF AdvanceTx
  <2>2. t # NoTable
    BY <1>1, <2>1, NoTableAssumption DEF At, HandOK
  <2>3. QED
    BY <1>2, <1>6, <1>7, <1>8, <2>1, <2>2, RowChanges
<1>14. QED
  BY <1>4, <1>5, <1>9, <1>10, <1>11, <1>12, <1>13

\* Writing a position changes nothing RowShape speaks of.
LEMMA ResequenceWriteKeepsInv ==
  ASSUME IInv, NEW w \in Handlers, ResequenceWrite(w)
  PROVE  IInv'
<1>1. req[w] \in Request
  BY HandTyped
<1>2. PICK e \in Entries :
        /\ entries' = [entries EXCEPT ![e].position = req[w].plan[e]]
        /\ LET r == [req[w] EXCEPT !.plan[e] = 0]
           IN Goto(w, IF r.plan = NoPlan THEN OfferNext(r) ELSE r)
  BY DEF ResequenceWrite
<1> DEFINE q == [req[w] EXCEPT !.plan[e] = 0]
           u == IF q.plan = NoPlan THEN OfferNext(q) ELSE q
<1>3. q \in Request /\ q.tick = req[w].tick /\ q.listed = req[w].listed /\ q.at = "reseq.write"
  BY <1>1 DEF Request, ResequenceWrite, At
<1>4. /\ u \in Request /\ Free(u)
      /\ u.tick = "sweep" => req[w].tick = "sweep" /\ u.listed \subseteq req[w].listed
  <2> HIDE DEF q
  <2>1. CASE u = OfferNext(q)
    BY <1>3, <2>1, Control, GoesFree
  <2>2. CASE u = q
    BY <1>3, <2>2 DEF Free
  <2>3. QED
    BY <2>1, <2>2
<1>5. entries \in [Entries -> EntryRow] /\ RowShape /\ req[w].plan[e] \in Nat
  BY <1>1 DEF IInv, TypeOK, Request
<1>6. entries' \in [Entries -> EntryRow] /\ tables' \in [Tables -> TableStatus]
  <2>1. tables' \in [Tables -> TableStatus]
    BY DEF ResequenceWrite, IInv, TypeOK
  <2>2. entries' \in [Entries -> EntryRow]
    BY <1>2, <1>5 DEF EntryRow
  <2>3. QED
    BY <2>1, <2>2
<1>7. ASSUME NEW f \in Entries PROVE RowOK(w, f)
  <2>1. entries[f] \in EntryRow /\ GoodRow(entries[f])
    BY <1>5 DEF RowShape
  <2>2. \/ entries'[f] = entries[f]
        \/ entries'[f] = [entries[f] EXCEPT !.position = req[w].plan[e]]
    BY <1>2, <1>5
  <2>3. entries'[f].status = entries[f].status /\ GoodRow(entries'[f])
    BY <2>1, <2>2 DEF GoodRow, EntryRow
  <2>4. QED
    BY <2>3 DEF RowOK
<1>8. req' = [req EXCEPT ![w] = u]
  BY <1>2 DEF Goto
<1> HIDE DEF u
<1>9. QED
  BY <1>4, <1>6, <1>7, <1>8, WriteKeepsInv

\* Steps that write several rows leave each alone, cancel or complete it.
LEMMA BulkWriteKeepsInv ==
  ASSUME IInv, NEW w \in Handlers,
         entries' = [e \in Entries |-> entries'[e]],
         tables' \in [Tables -> TableStatus],
         \A e \in Entries :
           \/ entries'[e] = entries[e]
           \/ /\ entries[e].status # "ABSENT"
              /\ \/ entries'[e] = Cancelled(entries[e])
                 \/ \E t \in Tables \cup {NoTable} : entries'[e] = Completed(entries[e], t),
         NEW u \in Request, req' = [req EXCEPT ![w] = u], Free(u),
         u.tick = "sweep" => req[w].tick = "sweep" /\ u.listed \subseteq req[w].listed
  PROVE  IInv'
<1>1. entries \in [Entries -> EntryRow]
  BY DEF IInv, TypeOK
<1>2. ASSUME NEW e \in Entries
      PROVE  entries'[e] \in EntryRow /\ RowOK(w, e)
  <2>1. CASE entries'[e] = entries[e]
    BY <1>1, <2>1 DEF RowOK
  <2>2. CASE /\ entries[e].status # "ABSENT"
             /\ entries'[e] = Cancelled(entries[e])
    <3>1. /\ Cancelled(entries[e]) \in EntryRow /\ GoodRow(Cancelled(entries[e]))
          /\ Cancelled(entries[e]).status = "CANCELLED"
      BY <1>1, RowChanges
    <3>2. QED
      BY <2>2, <3>1 DEF RowOK
  <2>3. ASSUME NEW t \in Tables \cup {NoTable}, entries[e].status # "ABSENT",
               entries'[e] = Completed(entries[e], t)
        PROVE  entries'[e] \in EntryRow /\ RowOK(w, e)
    <3>1. /\ Completed(entries[e], t) \in EntryRow /\ GoodRow(Completed(entries[e], t))
          /\ Completed(entries[e], t).status = "COMPLETED"
      BY <1>1, RowChanges
    <3>2. QED
      BY <2>3, <3>1 DEF RowOK
  <2>4. QED
    BY <2>1, <2>2, <2>3
<1>3. entries' \in [Entries -> EntryRow]
  BY <1>2
<1>4. QED
  BY <1>2, <1>3, WriteKeepsInv

\* The bulk clears cancel active rows and complete seated ones.
LEMMA ClearKeepsInv ==
  ASSUME IInv, NEW w \in Handlers, ClearActiveTx(w) \/ ClearAllTx(w)
  PROVE  IInv'
<1>1. /\ entries \in [Entries -> EntryRow] /\ tables \in [Tables -> TableStatus]
      /\ req[w] \in Request
  BY DEF IInv, TypeOK
<1>2. Idle \in Request /\ Free(Idle) /\ Idle.tick = "none"
  BY <1>1, Control, GoesFree
<1>3. req' = [req EXCEPT ![w] = Idle]
  BY DEF ClearActiveTx, ClearAllTx, Goto
<1>4. CASE ClearActiveTx(w)
  <2>1. tables' \in [Tables -> TableStatus]
    BY <1>1, <1>4 DEF ClearActiveTx, TableStatus
  <2>2. entries' = [e \in Entries |-> IF e \in Active \cap req[w].listed
                                     THEN Cancelled(entries[e]) ELSE entries[e]]
    BY <1>4 DEF ClearActiveTx
  <2>3. \A e \in Active : entries[e].status # "ABSENT"
    BY DEF Active, With
  <2>4. QED
    BY <1>2, <1>3, <2>1, <2>2, <2>3, BulkWriteKeepsInv
<1>5. CASE ClearAllTx(w)
  <2>1. tables' \in [Tables -> TableStatus]
    BY <1>1, <1>5 DEF ClearAllTx, TableStatus
  <2>2. entries' = [e \in Entries |->
           CASE e \in Active -> Cancelled(entries[e])
             [] entries[e].status = "SEATED" ->
                  Completed(entries[e], IF UsesTables THEN entries[e].table ELSE NoTable)
             [] OTHER -> entries[e]]
    BY <1>5 DEF ClearAllTx
  <2>3. \A e \in Active : entries[e].status # "ABSENT" /\ entries[e].status # "SEATED"
    BY DEF Active, With
  <2>4. ASSUME NEW e \in Entries
        PROVE  \/ entries'[e] = entries[e]
               \/ /\ entries[e].status # "ABSENT"
                  /\ \/ entries'[e] = Cancelled(entries[e])
                     \/ \E t \in Tables \cup {NoTable} :
                          entries'[e] = Completed(entries[e], t)
    <3>1. entries[e].table \in Tables \cup {NoTable}
      BY <1>1 DEF EntryRow
    <3>2. CASE e \in Active
      BY <2>2, <2>3, <3>2
    <3>3. CASE entries[e].status = "SEATED"
      BY <2>2, <2>3, <3>1, <3>3
    <3>4. CASE e \notin Active /\ entries[e].status # "SEATED"
      BY <2>2, <3>4
    <3>5. QED
      BY <3>2, <3>3, <3>4
  <2>5. entries' = [e \in Entries |-> entries'[e]]
    BY <2>2
  <2>6. QED
    BY <1>2, <1>3, <2>1, <2>4, <2>5, BulkWriteKeepsInv
<1>6. QED
  BY <1>4, <1>5

\* updateTableStatus completes the guests seated at the table, or nobody.
LEMMA TableTxKeepsInv ==
  ASSUME IInv, NEW w \in Handlers, TableTx(w)
  PROVE  IInv'
<1> DEFINE t == req[w].t
           to == req[w].to
           closes == to = "CLEARING" \/ (to = "FREE" /\ ~ManualDispatch)
           q == [req[w] EXCEPT !.to = "none", !.t = IF to = "FREE" THEN t ELSE NoTable]
           u == IF closes THEN Resequence(q) ELSE OfferNext(q)
<1>1. /\ entries \in [Entries -> EntryRow] /\ tables \in [Tables -> TableStatus]
      /\ req[w] \in Request /\ HandOK(req[w])
  BY HandTyped DEF IInv, TypeOK
<1>2. t \in Tables /\ to \in TableStatus
  BY <1>1 DEF TableTx, At, HandOK
<1>3. q \in Request /\ q.tick = req[w].tick /\ q.listed = req[w].listed
  BY <1>1 DEF Request
<1>4. /\ u \in Request /\ Free(u)
      /\ u.tick = "sweep" => req[w].tick = "sweep" /\ u.listed \subseteq req[w].listed
  <2> HIDE DEF q, closes
  <2>1. CASE u = Resequence(q)
    BY <1>3, <2>1, Control, GoesFree
  <2>2. CASE u = OfferNext(q)
    BY <1>3, <2>2, Control, GoesFree
  <2>3. QED
    BY <2>1, <2>2
<1>5. /\ tables' = [tables EXCEPT ![t] = to]
      /\ entries' = [e \in Entries |->
           IF closes /\ entries[e].status = "SEATED" /\ entries[e].table = t
           THEN Completed(entries[e], t) ELSE entries[e]]
      /\ req' = [req EXCEPT ![w] = u]
  BY DEF TableTx, Goto
<1>6. tables' \in [Tables -> TableStatus]
  BY <1>1, <1>2, <1>5
<1>7. ASSUME NEW e \in Entries
      PROVE  \/ entries'[e] = entries[e]
             \/ /\ entries[e].status # "ABSENT"
                /\ \E v \in Tables \cup {NoTable} : entries'[e] = Completed(entries[e], v)
  BY <1>2, <1>5
<1>8. entries' = [e \in Entries |-> entries'[e]]
  BY <1>5
<1> HIDE DEF u
<1>9. QED
  BY <1>4, <1>5, <1>6, <1>7, <1>8, BulkWriteKeepsInv

\* resetAllTables changes no entry.
LEMMA ResetKeepsInv ==
  ASSUME IInv, NEW w \in Handlers, ResetAllTables(w)
  PROVE  IInv'
<1>1. /\ entries' = entries /\ tables' = [t \in Tables |-> "FREE"]
      /\ req' = [req EXCEPT ![w] = Idle]
  BY DEF ResetAllTables, Goto
<1>2. entries' \in [Entries -> EntryRow] /\ tables' \in [Tables -> TableStatus]
  BY <1>1 DEF IInv, TypeOK, TableStatus
<1>3. \A e \in Entries : RowOK(w, e)
  BY <1>1 DEF RowOK, IInv, RowShape
<1>4. Idle \in Request /\ Free(Idle) /\ Idle.tick = "none"
  BY Control, GoesFree DEF IInv, TypeOK
<1>5. QED
  BY <1>1, <1>2, <1>3, <1>4, WriteKeepsInv

\* The sweep's write of a listed row, that may have moved on since the read.
LEMMA SweepKeepsInv ==
  ASSUME IInv, NEW w \in Handlers, NEW e \in Entries, SweepEntry(w, e)
  PROVE  IInv'
<1> DEFINE q == [req[w] EXCEPT !.listed = @ \ {e}, !.held[e] = NoTable,
                               !.t = req[w].held[e]]
           u == IF ManualRemove THEN OfferNext(q) ELSE Resequence(q)
<1>1. /\ entries \in [Entries -> EntryRow] /\ req[w] \in Request
      /\ HandOK(req[w]) /\ RowShape
  BY HandTyped DEF IInv, TypeOK
<1>2. /\ At(w, "tick") /\ req[w].tick = "sweep" /\ e \in req[w].listed
      /\ entries' = [entries EXCEPT ![e] = Lapsed(entries[e])]
      /\ tables' = Freed(req[w].held[e])
      /\ req' = [req EXCEPT ![w] = u]
  BY DEF SweepEntry, Goto
<1>3. q \in Request /\ q.tick = "sweep" /\ q.listed = req[w].listed \ {e}
  BY <1>1, <1>2 DEF Request
<1>4. u \in Request /\ Free(u) /\ u.listed \subseteq req[w].listed
  <2> HIDE DEF q
  <2>1. CASE u = OfferNext(q)
    BY <1>3, <2>1, Control, GoesFree
  <2>2. CASE u = Resequence(q)
    BY <1>3, <2>2, Control, GoesFree
  <2>3. QED
    BY <2>1, <2>2
<1>5. /\ entries[e].status \notin {"ABSENT", "WAITING"}
      /\ entries[e] \in EntryRow /\ GoodRow(entries[e])
  BY <1>1, <1>2 DEF HandOK, RowShape
<1>6. /\ Lapsed(entries[e]) \in EntryRow /\ GoodRow(Lapsed(entries[e]))
      /\ Lapsed(entries[e]).status \notin {"ABSENT", "WAITING"}
  BY <1>5, LapsedRow
<1>7. req[w].held[e] \in Tables \cup {NoTable}
  BY <1>1 DEF Request
<1>8. tables' \in [Tables -> TableStatus] /\ entries' \in [Entries -> EntryRow]
  BY <1>1, <1>2, <1>6, <1>7, FreedTyped
<1>9. \A f \in Entries : RowOK(w, f)
  BY <1>1, <1>2, <1>5, <1>6 DEF RowOK
<1> HIDE DEF u
<1>10. QED
  BY <1>2, <1>4, <1>8, <1>9, WriteKeepsInv

-----------------------------------------------------------------------------
(* Steps outside the handlers *)

\* While req stays, a change that turns no row back leaves what handlers hold.
LEMMA OutsideKeepsInv ==
  ASSUME IInv, UNCHANGED req, entries' \in [Entries -> EntryRow],
         tables' \in [Tables -> TableStatus], RowShape',
         \A e \in Entries : entries'[e].status = entries[e].status
  PROVE  IInv'
<1>1. TypeOK'
  BY DEF IInv, TypeOK
<1>2. \A w \in Handlers : HandOK(req[w]) /\ req[w] \in Request
  BY HandTyped
<1>3. InHand'
  BY <1>2 DEF InHand, HandOK, Request
<1>4. JoinersApart'
  BY DEF IInv, JoinersApart, Joining
<1>5. QED
  BY <1>1, <1>3, <1>4 DEF IInv

\* The end of a response window changes a deadline from open to passed.
LEMMA LapseKeepsInv ==
  ASSUME IInv, NEW e \in Entries, WindowLapses(e)
  PROVE  IInv'
<1>1. entries \in [Entries -> EntryRow] /\ tables \in [Tables -> TableStatus] /\ RowShape
  BY DEF IInv, TypeOK
<1>2. /\ entries' = [entries EXCEPT ![e].deadline = "passed"] /\ UNCHANGED <<tables, req>>
      /\ entries[e].deadline = "open"
  BY DEF WindowLapses
<1>3. entries' \in [Entries -> EntryRow]
  BY <1>1, <1>2 DEF EntryRow, Deadline
<1>4. \A f \in Entries : entries'[f].status = entries[f].status /\ GoodRow(entries'[f])
  BY <1>1, <1>2 DEF EntryRow, RowShape, GoodRow
<1>5. QED
  BY <1>1, <1>2, <1>3, <1>4, OutsideKeepsInv DEF RowShape

-----------------------------------------------------------------------------

\* The invariant is inductive: every step of every handler keeps it.
LEMMA NextKeepsInv == IInv /\ [Next]_vars => IInv'
<1>1. SUFFICES ASSUME IInv, [Next]_vars PROVE IInv'
  OBVIOUS
<1>2. ASSUME NEW w \in Handlers, NewRequest(w) PROVE IInv'
  BY <1>1, <1>2, JoinCountKeepsInv, EntryReadKeepsInv, OtherReadKeepsInv
     DEF NewRequest
<1>3. ASSUME NEW w \in Handlers, Step(w) PROVE IInv'
  <2>1. CASE \/ JoinDuplicate(w) \/ NotifyFirst(w) \/ ReorderPlan(w)
             \/ ResequenceRead(w) \/ SeatTable(w) \/ AdvanceTable(w) \/ AdvanceEntry(w)
    BY <1>1, <2>1, StepReadKeepsInv
  <2>2. CASE PollRead(w) \/ TickEnd(w) \/ \E t \in Tables : PollTable(w, t)
    BY <1>1, <2>2, TickReadKeepsInv
  <2>3. CASE \/ JoinCreate(w) \/ NotifyWrite(w) \/ NoShowTx(w) \/ SeatTx(w)
             \/ CancelTx(w) \/ CompleteTx(w) \/ AdvanceTx(w)
    BY <1>1, <2>3, OneRowWriteKeepsInv
  <2>4. CASE \/ ResequenceWrite(w) \/ TableTx(w) \/ ResetAllTables(w)
             \/ ClearActiveTx(w) \/ ClearAllTx(w)
    BY <1>1, <2>4, ResequenceWriteKeepsInv, TableTxKeepsInv, ResetKeepsInv, ClearKeepsInv
  <2>5. CASE \E e \in Entries : SweepEntry(w, e)
    BY <1>1, <2>5, SweepKeepsInv
  <2>6. QED
    BY <1>3, <2>1, <2>2, <2>3, <2>4, <2>5 DEF Step
<1>4. ASSUME NEW w \in Handlers, TickStart(w) \/ Fail(w) PROVE IInv'
  BY <1>1, <1>4, TickReadKeepsInv
<1>5. ASSUME NEW e \in Entries, WindowLapses(e) PROVE IInv'
  BY <1>1, <1>5, LapseKeepsInv
<1>6. CASE UNCHANGED vars
  BY <1>1, <1>6 DEF vars, IInv, TypeOK, RowShape, InHand, HandOK, JoinersApart, Joining
<1>7. QED
  BY <1>1, <1>2, <1>3, <1>4, <1>5, <1>6 DEF Next

\* Every reachable state satisfies the inductive invariant.
LEMMA Invariance == Spec => []IInv
BY InitInv, NextKeepsInv, PTL DEF Spec

\* Every variable of the model keeps its type, for any number of entries,
\* tables and overlapping handlers, in every venue configuration.
THEOREM TypeCorrect == Spec => []TypeOK
BY Invariance, PTL DEF IInv

\* The columns of a queue row always agree with its status, whatever handlers
\* overlap, wherever they fail and whatever the staff press.
THEOREM RowsKeepShape == Spec => []RowShape
BY Invariance, PTL DEF IInv
=============================================================================
