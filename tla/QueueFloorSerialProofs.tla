----------------------- MODULE QueueFloorSerialProofs -----------------------
(***************************************************************************)
(* Proofs about QueueFloor when one handler at a time is under way, for    *)
(* every number of entries and tables and handlers that may fail at every  *)
(* await, in every mode of the venue.  Then what a handler has read of the *)
(* entries is still so when it writes (LoneHand), and each write moves     *)
(* entries along their lifecycle (RowMoves).  What it plans to write       *)
(* numbers the active entries (PlansInv), and where nothing fails they are *)
(* numbered whenever no resequencing is owed (RestInv).                    *)
(***************************************************************************)
EXTENDS QueueFloorProofs

\* One handler, which serves requests and ticks in turn.
Serial == \A v, w \in Handlers : v = w

\* Guests who could be called to table t, or at all, go before e is.
CalledInTurn(e, status, t) ==
  status = "NOTIFIED" =>
    \A f \in Waiting : entries[f].position < entries[e].position =>
      ~ManualDispatch /\ PartySize[f] > Capacity[t]

SweepPoints == {"tick", "reseq.read", "reseq.write", "advance.table", "advance.entry",
                "advance.tx"}

\* What is in hand about entries is still true.
StillTrue(r) ==
  /\ r.at = "join.create" => \A f \in Active : Phone[f] # Phone[r.e]
  /\ r.at = "notify.write" => r.e \in First(Waiting)
  /\ r.at = "noshow.tx" => r.e \in With({"NOTIFIED"})
  /\ r.at \in {"seat.table", "seat.tx", "cancel.tx"} => r.e \in Active
  /\ r.at = "complete.tx" => r.e \in With({"WAITING", "NOTIFIED", "SEATED"})
  /\ r.at \in {"advance.entry", "advance.tx"} => ~ManualDispatch
  /\ r.at = "advance.tx" => r.e \in First(Fitting(r.t))
  /\ r.tick = "sweep" => r.at \in SweepPoints /\ r.listed \subseteq With({"NOTIFIED"})

LoneHand == \A w \in Handlers : StillTrue(req[w])

SerialInv == IInv /\ LoneHand /\ NoDuplicateGuest

-----------------------------------------------------------------------------
(* Entries *)

\* What a step of w does to the status of entry e: nothing, or a move that the
\* lifecycle allows; a row is created by its join; a call is in turn.
RowMoves(w, e) ==
  entries'[e].status # entries[e].status =>
    /\ entries'[e].status \in Lifecycle!MayBecome(entries[e].status)
    /\ entries[e].status = "ABSENT" => At(w, "join.create") /\ req[w].e = e
    /\ CalledInTurn(e, entries'[e].status, entries'[e].table)

\* Moves the lifecycle allows.
LEMMA Moves ==
  /\ Lifecycle!MayBecome("ABSENT") = {"WAITING"}
  /\ Lifecycle!MayBecome("WAITING") = {"NOTIFIED", "SEATED", "COMPLETED", "CANCELLED"}
  /\ Lifecycle!MayBecome("NOTIFIED") = {"SEATED", "COMPLETED", "CANCELLED", "NO_SHOW"}
  /\ Lifecycle!MayBecome("SEATED") = {"COMPLETED"}
  /\ \A s \in {"COMPLETED", "CANCELLED", "NO_SHOW"} : Lifecycle!MayBecome(s) = {}
BY DEF Lifecycle!MayBecome

\* A step of the one handler, after which what it has in hand is true.
LEMMA LoneStep ==
  ASSUME Serial, IInv, NEW w \in Handlers, NEW r, req' = [req EXCEPT ![w] = r],
         StillTrue(r)'
  PROVE  LoneHand'
<1>1. SUFFICES ASSUME NEW v \in Handlers PROVE StillTrue(req[v])'
  BY DEF LoneHand
<1>2. v = w /\ req'[v] = r
  BY DEF Serial, IInv, TypeOK
<1>3. QED
  BY <1>2 DEF StillTrue

\* A step that only reads.
LEMMA LoneRead ==
  ASSUME Serial, IInv, NEW w \in Handlers, NEW r, req' = [req EXCEPT ![w] = r],
         UNCHANGED <<entries, tables>>, StillTrue(r)
  PROVE  LoneHand' /\ \A e \in Entries : RowMoves(w, e)
<1>1. StillTrue(r)'
  BY DEF StillTrue, Active, Waiting, With, First, Fitting
<1>2. LoneHand'
  BY <1>1, LoneStep
<1>3. QED
  BY <1>2 DEF RowMoves

\* A step that writes: only a sweep has rows in hand afterwards.
LEMMA LoneWrite ==
  ASSUME Serial, IInv, NEW w \in Handlers, NEW r, req' = [req EXCEPT ![w] = r],
         Free(r),
         r.tick = "sweep" => /\ r.at \in SweepPoints
                             /\ r.listed \subseteq Entries
                             /\ \A e \in r.listed : entries'[e].status = "NOTIFIED"
  PROVE  LoneHand'
<1>1. StillTrue(r)'
  BY DEF StillTrue, Free, With, SweepPoints
<1>2. QED
  BY <1>1, LoneStep

\* New requests: what they read is true.
LEMMA LoneRequest ==
  ASSUME Serial, IInv, NEW w \in Handlers, NewRequest(w)
  PROVE  LoneHand' /\ \A e \in Entries : RowMoves(w, e)
<1>1. ASSUME NEW e \in Entries, JoinCount(w, e)
      PROVE  LoneHand' /\ \A f \in Entries : RowMoves(w, f)
  BY <1>1, LoneRead DEF JoinCount, Begin, StillTrue, Idle
<1>2. ASSUME NEW e \in Entries, NotifyRead(w, e)
      PROVE  LoneHand' /\ \A f \in Entries : RowMoves(w, f)
  BY <1>2, LoneRead DEF NotifyRead, Begin, StillTrue, Idle
<1>3. ASSUME NEW e \in Entries, NoShowRead(w, e)
      PROVE  LoneHand' /\ \A f \in Entries : RowMoves(w, f)
  BY <1>3, LoneRead DEF NoShowRead, With, Begin, StillTrue, Idle
<1>4. ASSUME NEW e \in Entries, SeatRead(w, e)
      PROVE  LoneHand' /\ \A f \in Entries : RowMoves(w, f)
  <2>1. PICK t \in Tables \cup {NoTable} :
          Begin(w, [Idle EXCEPT !.at = IF UsesTables THEN "seat.table" ELSE "seat.tx",
                                !.e = e, !.t = t])
    BY <1>4 DEF SeatRead
  <2> DEFINE r == [Idle EXCEPT !.at = IF UsesTables THEN "seat.table" ELSE "seat.tx",
                               !.e = e, !.t = t]
  <2>2. req' = [req EXCEPT ![w] = r] /\ StillTrue(r)
    BY <1>4, <2>1 DEF SeatRead, Begin, StillTrue, Idle
  <2>3. QED
    BY <1>4, <2>2, LoneRead DEF SeatRead
<1>5. ASSUME NEW e \in Entries, CancelRead(w, e)
      PROVE  LoneHand' /\ \A f \in Entries : RowMoves(w, f)
  BY <1>5, LoneRead DEF CancelRead, Begin, StillTrue, Idle
<1>6. ASSUME NEW e \in Entries, CompleteRead(w, e)
      PROVE  LoneHand' /\ \A f \in Entries : RowMoves(w, f)
  <2> DEFINE r == [Idle EXCEPT !.at = "complete.tx", !.e = e,
                               !.t = IF UsesTables THEN entries[e].table ELSE NoTable]
  <2>1. req' = [req EXCEPT ![w] = r] /\ StillTrue(r)
    BY <1>6 DEF CompleteRead, Begin, StillTrue, Idle, With
  <2>2. QED
    BY <1>6, <2>1, LoneRead DEF CompleteRead
<1>7. ASSUME NEW e \in Entries, NEW point \in Points, ReorderRead(w, e, point)
      PROVE  LoneHand' /\ \A f \in Entries : RowMoves(w, f)
  BY <1>7, LoneRead DEF ReorderRead, Begin, StillTrue, Idle
<1>8. ASSUME NEW point \in Points, ClearRead(w, point)
      PROVE  LoneHand' /\ \A f \in Entries : RowMoves(w, f)
  BY <1>8, LoneRead DEF ClearRead, Begin, StillTrue, Idle
<1>9. ASSUME NEW t \in Tables, NEW to \in TableStatus, StaffTable(w, t, to)
      PROVE  LoneHand' /\ \A f \in Entries : RowMoves(w, f)
  BY <1>9, LoneRead DEF StaffTable, Begin, StillTrue, Idle
<1>10. ASSUME ResetRead(w)
       PROVE  LoneHand' /\ \A f \in Entries : RowMoves(w, f)
  BY <1>10, LoneRead DEF ResetRead, Begin, StillTrue, Idle
<1>11. QED
  BY <1>1, <1>2, <1>3, <1>4, <1>5, <1>6, <1>7, <1>8, <1>9, <1>10 DEF NewRequest

\* Reads in the middle of a request, and moving on.
LEMMA LoneStepRead ==
  ASSUME Serial, IInv, LoneHand, NEW w \in Handlers,
         \/ JoinDuplicate(w) \/ NotifyFirst(w) \/ ReorderPlan(w) \/ ResequenceRead(w)
         \/ SeatTable(w) \/ AdvanceTable(w) \/ AdvanceEntry(w)
  PROVE  LoneHand' /\ \A e \in Entries : RowMoves(w, e)
<1> DEFINE Kept == LoneHand' /\ \A e \in Entries : RowMoves(w, e)
<1>1. req[w] \in Request /\ StillTrue(req[w])
  BY HandTyped DEF LoneHand
<1>2. ASSUME UNCHANGED <<entries, tables>>, req' = [req EXCEPT ![w] = Idle]
      PROVE  Kept
  BY <1>2, LoneRead DEF StillTrue, Idle
<1>3. ASSUME UNCHANGED <<entries, tables>>, req' = [req EXCEPT ![w] = Finished(req[w])],
             req[w].tick = "sweep" => req[w].listed \subseteq With({"NOTIFIED"})
      PROVE  Kept
  <2>1. StillTrue(Finished(req[w]))
    BY <1>1, <1>3 DEF StillTrue, Finished, Idle, SweepPoints
  <2>2. QED
    BY <1>3, <2>1, LoneRead
<1>4. ASSUME UNCHANGED <<entries, tables>>, req' = [req EXCEPT ![w] = OfferNext(req[w])]
      PROVE  Kept
  <2>1. StillTrue(OfferNext(req[w]))
    BY <1>1 DEF StillTrue, OfferNext, Finished, Idle, SweepPoints, Request
  <2>2. QED
    BY <1>4, <2>1, LoneRead
<1>5. CASE JoinDuplicate(w)
  <2>1. CASE \E f \in Active : Phone[f] = Phone[req[w].e]
    BY <1>2, <1>5, <2>1 DEF JoinDuplicate, Goto
  <2>2. CASE ~ \E f \in Active : Phone[f] = Phone[req[w].e]
    <3> DEFINE r == [req[w] EXCEPT !.at = "join.create"]
    <3>1. StillTrue(r)
      BY <1>1, <1>5, <2>2 DEF StillTrue, JoinDuplicate, At, Request, SweepPoints
    <3>2. QED
      BY <1>5, <2>2, <3>1, LoneRead DEF JoinDuplicate, Goto
  <2>3. QED
    BY <2>1, <2>2
<1>6. CASE NotifyFirst(w)
  <2>1. CASE Goto(w, Idle)
    BY <1>2, <1>6, <2>1 DEF NotifyFirst, Goto
  <2>2. CASE req[w].e \in First(Waiting) /\ Goto(w, [req[w] EXCEPT !.at = "notify.write"])
    <3> DEFINE r == [req[w] EXCEPT !.at = "notify.write"]
    <3>1. StillTrue(r)
      BY <1>1, <1>6, <2>2 DEF StillTrue, NotifyFirst, At, Request, SweepPoints
    <3>2. QED
      BY <1>6, <2>2, <3>1, LoneRead DEF NotifyFirst, Goto
  <2>3. QED
    BY <1>6, <2>1, <2>2 DEF NotifyFirst
<1>7. ASSUME NEW plan, UNCHANGED <<entries, tables>>,
             req' = [req EXCEPT ![w] = [req[w] EXCEPT !.at = "reseq.write", !.plan = plan]]
      PROVE  Kept
  <2> DEFINE r == [req[w] EXCEPT !.at = "reseq.write", !.plan = plan]
  <2>1. StillTrue(r)
    BY <1>1 DEF StillTrue, Request, SweepPoints
  <2>2. QED
    BY <1>7, <2>1, LoneRead
<1>8. CASE ReorderPlan(w)
  BY <1>2, <1>7, <1>8 DEF ReorderPlan, Goto
<1>9. CASE ResequenceRead(w)
  <2>1. \/ req' = [req EXCEPT ![w] = OfferNext(req[w])]
        \/ \E plan : req' = [req EXCEPT ![w] = [req[w] EXCEPT !.at = "reseq.write",
                                                              !.plan = plan]]
    BY <1>9 DEF ResequenceRead, Goto
  <2>2. QED
    BY <1>4, <1>7, <1>9, <2>1 DEF ResequenceRead
<1>10. CASE SeatTable(w)
  <2>1. CASE tables[req[w].t] \notin {"FREE", "RESERVED"}
    BY <1>2, <1>10, <2>1 DEF SeatTable, Goto
  <2>2. CASE tables[req[w].t] \in {"FREE", "RESERVED"}
    <3> DEFINE r == [req[w] EXCEPT !.at = "seat.tx"]
    <3>1. StillTrue(r)
      BY <1>1, <1>10 DEF StillTrue, SeatTable, At, Request, SweepPoints
    <3>2. QED
      BY <1>10, <2>2, <3>1, LoneRead DEF SeatTable, Goto
  <2>3. QED
    BY <2>1, <2>2
<1>11. CASE AdvanceTable(w)
  <2>1. CASE Goto(w, Finished(req[w]))
    BY <1>1, <1>3, <1>11, <2>1 DEF AdvanceTable, Goto, StillTrue
  <2>2. CASE ~ManualDispatch /\ Goto(w, [req[w] EXCEPT !.at = "advance.entry"])
    <3> DEFINE r == [req[w] EXCEPT !.at = "advance.entry"]
    <3>1. StillTrue(r)
      BY <1>1, <2>2 DEF StillTrue, Request, SweepPoints
    <3>2. QED
      BY <1>11, <2>2, <3>1, LoneRead DEF AdvanceTable, Goto
  <2>3. QED
    BY <1>11, <2>1, <2>2 DEF AdvanceTable
<1>12. CASE AdvanceEntry(w)
  <2>1. CASE Goto(w, Finished(req[w]))
    BY <1>1, <1>3, <1>12, <2>1 DEF AdvanceEntry, Goto, StillTrue
  <2>2. ASSUME NEW e \in First(Fitting(req[w].t)),
               Goto(w, [req[w] EXCEPT !.at = "advance.tx", !.e = e])
        PROVE  Kept
    <3> DEFINE r == [req[w] EXCEPT !.at = "advance.tx", !.e = e]
    <3>1. StillTrue(r)
      BY <1>1, <1>12 DEF AdvanceEntry, At, StillTrue, Request, SweepPoints
    <3>2. QED
      BY <1>12, <2>2, <3>1, LoneRead DEF AdvanceEntry, Goto
  <2>3. QED
    BY <1>12, <2>1, <2>2 DEF AdvanceEntry
<1>13. QED
  BY <1>5, <1>6, <1>8, <1>9, <1>10, <1>11, <1>12

\* The reads of a tick: the sweep lists called guests.
LEMMA LoneTickRead ==
  ASSUME Serial, IInv, LoneHand, NEW w \in Handlers,
         \/ TickStart(w) \/ PollRead(w) \/ TickEnd(w) \/ Fail(w)
         \/ \E t \in Tables : PollTable(w, t)
  PROVE  LoneHand' /\ \A e \in Entries : RowMoves(w, e)
<1>1. req[w] \in Request /\ StillTrue(req[w])
  BY HandTyped DEF LoneHand
<1>2. CASE TickStart(w)
  <2>1. Lapsing \subseteq With({"NOTIFIED"})
    BY DEF Lapsing
  <2>2. QED
    BY <1>2, <2>1, LoneRead DEF TickStart, Goto, StillTrue, Idle, SweepPoints
<1>3. CASE PollRead(w)
  <2>1. PICK updates : Goto(w, Idle) \/ Goto(w, [Idle EXCEPT !.at = "tick", !.tick = "poll",
                                                             !.updates = updates])
    BY <1>3 DEF PollRead
  <2>2. QED
    BY <1>3, <2>1, LoneRead DEF PollRead, Goto, StillTrue, Idle
<1>4. ASSUME NEW t \in Tables, PollTable(w, t)
      PROVE  LoneHand' /\ \A e \in Entries : RowMoves(w, e)
  <2> DEFINE r == [req[w] EXCEPT !.at = "table.tx", !.t = t, !.to = req[w].updates[t],
                                 !.updates[t] = "none"]
  <2>1. StillTrue(r)
    BY <1>1, <1>4 DEF PollTable, StillTrue, Request
  <2>2. QED
    BY <1>4, <2>1, LoneRead DEF PollTable, Goto
<1>5. CASE TickEnd(w) \/ Fail(w)
  BY <1>5, LoneRead DEF TickEnd, Fail, Goto, StillTrue, Idle
<1>6. QED
  BY <1>2, <1>3, <1>4, <1>5

\* Where a handler goes after a write, with the rows its sweep has left.
LEMMA AfterLoneWrite ==
  ASSUME NEW r \in Request, StillTrue(r),
         NEW u \in {Idle, Finished(r), OfferNext(r), Resequence(r),
                    Resequence([r EXCEPT !.t = NoTable])}
  PROVE  /\ Free(u)
         /\ u.tick = "sweep" => /\ r.tick = "sweep" /\ u.at \in SweepPoints
                                /\ u.listed \subseteq With({"NOTIFIED"})
<1>1. Free(u) /\ (u.tick = "sweep" => r.tick = "sweep" /\ u.listed \subseteq r.listed)
  BY AfterWrite
<1>2. u.at \in SweepPoints \cup {"idle"}
  BY <1>1 DEF Free, SweepPoints
<1>3. u.at = "idle" => u.tick = "none"
  <2>1. /\ Idle.tick = "none"
        /\ Finished(r).at = "idle" => Finished(r).tick = "none"
    BY DEF Finished, Idle
  <2>2. OfferNext(r).at = "idle" => OfferNext(r).tick = "none"
    BY <2>1 DEF OfferNext, Request
  <2>3. /\ Resequence(r).at = "reseq.read"
        /\ Resequence([r EXCEPT !.t = NoTable]).at = "reseq.read"
    BY DEF Resequence, Request
  <2>4. QED
    BY <2>1, <2>2, <2>3
<1>4. QED
  BY <1>1, <1>2, <1>3 DEF StillTrue

\* A step that writes one row.
LEMMA LoneRowWrite ==
  ASSUME Serial, IInv, LoneHand, NEW w \in Handlers, NEW e \in Entries, NEW row \in EntryRow,
         entries' = [entries EXCEPT ![e] = row],
         row.status \in Lifecycle!MayBecome(entries[e].status),
         entries[e].status = "ABSENT" => At(w, "join.create") /\ req[w].e = e,
         CalledInTurn(e, row.status, row.table),
         NEW u \in {Idle, Finished(req[w]), OfferNext(req[w]), Resequence(req[w]),
                    Resequence([req[w] EXCEPT !.t = NoTable])},
         req' = [req EXCEPT ![w] = u],
         req[w].tick = "sweep" => entries[e].status # "NOTIFIED"
  PROVE  LoneHand' /\ \A f \in Entries : RowMoves(w, f)
<1>1. req[w] \in Request /\ StillTrue(req[w]) /\ entries \in [Entries -> EntryRow]
  BY HandTyped DEF LoneHand, IInv, TypeOK
<1>2. /\ Free(u)
      /\ u.tick = "sweep" => /\ req[w].tick = "sweep" /\ u.at \in SweepPoints
                             /\ u.listed \subseteq With({"NOTIFIED"})
  BY <1>1, AfterLoneWrite
<1>3. \A f \in Entries : RowMoves(w, f)
  BY <1>1 DEF RowMoves
<1>4. u.tick = "sweep" => /\ u.listed \subseteq Entries
                          /\ \A f \in u.listed : entries'[f].status = "NOTIFIED"
  BY <1>1, <1>2 DEF With
<1>5. QED
  BY <1>2, <1>3, <1>4, LoneWrite

\* The writes of one row move its entry along the lifecycle, and call it in turn.
LEMMA LoneOneRowWrite ==
  ASSUME Serial, IInv, LoneHand, NEW w \in Handlers,
         \/ JoinCreate(w) \/ NotifyWrite(w) \/ NoShowTx(w) \/ SeatTx(w)
         \/ CancelTx(w) \/ CompleteTx(w) \/ AdvanceTx(w)
  PROVE  LoneHand' /\ \A e \in Entries : RowMoves(w, e)
<1> DEFINE e == req[w].e
           t == req[w].t
           Kept == LoneHand' /\ \A f \in Entries : RowMoves(w, f)
<1>1. /\ req[w] \in Request /\ HandOK(req[w]) /\ StillTrue(req[w])
      /\ t \in Tables \cup {NoTable} /\ entries \in [Entries -> EntryRow]
  BY HandTyped DEF LoneHand, IInv, TypeOK, Request
<1>2. ASSUME NEW row \in EntryRow, e \in Entries,
             row.status \in Lifecycle!MayBecome(entries[e].status),
             entries[e].status # "ABSENT", row.status # "NOTIFIED",
             entries' = [entries EXCEPT ![e] = row],
             req[w].tick # "sweep",
             NEW u \in {Idle, Finished(req[w]), OfferNext(req[w]), Resequence(req[w]),
                        Resequence([req[w] EXCEPT !.t = NoTable])},
             Goto(w, u)
      PROVE  Kept
  BY <1>2, LoneRowWrite DEF Goto, CalledInTurn
<1>3. ASSUME At(w, "join.create") \/ At(w, "notify.write") \/ At(w, "noshow.tx")
               \/ At(w, "seat.tx") \/ At(w, "cancel.tx") \/ At(w, "complete.tx")
      PROVE  e \in Entries /\ entries[e] \in EntryRow /\ req[w].tick # "sweep"
  BY <1>1, <1>3 DEF At, HandOK, Joining, ReadPoints, StillTrue, SweepPoints
<1>4. CASE JoinCreate(w)
  <2> DEFINE row == [status |-> "WAITING", position |-> req[w].n, table |-> NoTable,
                     deadline |-> "none", expired |-> FALSE]
  <2>1. e \in Entries /\ At(w, "join.create") /\ entries[e].status = "ABSENT"
    BY <1>1, <1>4 DEF JoinCreate, At, HandOK, Joining
  <2>2. row \in EntryRow
    BY <1>1 DEF EntryRow, EntryStatus, Deadline, Request
  <2>3. row.status \in Lifecycle!MayBecome(entries[e].status)
          /\ CalledInTurn(e, row.status, row.table)
    BY <2>1, Moves DEF CalledInTurn
  <2>4. entries' = [entries EXCEPT ![e] = row] /\ req' = [req EXCEPT ![w] = Idle]
    BY <1>4 DEF JoinCreate, Goto
  <2> HIDE DEF row
  <2>5. QED
    BY <2>1, <2>2, <2>3, <2>4, LoneRowWrite
<1>5. CASE NotifyWrite(w)
  <2> DEFINE row == Called(entries[e], entries[e].table)
  <2>1. /\ e \in First(Waiting) /\ entries[e].table \in Tables \cup {NoTable}
        /\ e \in Entries /\ entries[e] \in EntryRow /\ req[w].tick # "sweep"
    BY <1>1, <1>3, <1>5 DEF NotifyWrite, StillTrue, At, EntryRow
  <2>2. row \in EntryRow /\ row.status = "NOTIFIED" /\ entries[e].status = "WAITING"
    BY <2>1, RowChanges DEF First, Waiting, With
  <2>3. CalledInTurn(e, row.status, row.table)
    <3>1. ASSUME NEW f \in Waiting PROVE ~(entries[f].position < entries[e].position)
      <4>1. entries[e].position <= entries[f].position
        BY <2>1 DEF First
      <4>2. entries[e].position \in Nat /\ entries[f].position \in Nat
        BY <1>1, <2>1 DEF EntryRow, Waiting, With
      <4>3. QED
        BY <4>1, <4>2
    <3>2. QED
      BY <3>1 DEF CalledInTurn
  <2>4. entries' = [entries EXCEPT ![e] = row] /\ req' = [req EXCEPT ![w] = Resequence(req[w])]
    BY <1>5 DEF NotifyWrite, Goto
  <2> HIDE DEF row
  <2>5. QED
    BY <2>1, <2>2, <2>3, <2>4, Moves, LoneRowWrite
<1>6. CASE NoShowTx(w)
  <2>1. /\ At(w, "noshow.tx") /\ entries' = [entries EXCEPT ![e] = NoShow(entries[e])]
        /\ Goto(w, Resequence(req[w]))
    BY <1>6 DEF NoShowTx
  <2>2. entries[e].status = "NOTIFIED"
    BY <1>1, <2>1 DEF StillTrue, At, With
  <2>3. NoShow(entries[e]) \in EntryRow /\ NoShow(entries[e]).status = "NO_SHOW"
    BY <1>3, <1>1, <2>1, RowChanges
  <2>4. QED
    BY <1>2, <1>3, <2>1, <2>2, <2>3, Moves
<1>7. CASE SeatTx(w)
  <2>1. /\ At(w, "seat.tx") /\ entries' = [entries EXCEPT ![e] = Seated(entries[e], t)]
        /\ Goto(w, Resequence([req[w] EXCEPT !.t = NoTable]))
    BY <1>7 DEF SeatTx
  <2>2. entries[e].status \in {"WAITING", "NOTIFIED"}
    BY <1>1, <2>1 DEF StillTrue, At, Active, With
  <2>3. /\ Seated(entries[e], t) \in EntryRow
        /\ Seated(entries[e], t).status \in {"SEATED", "COMPLETED"}
    BY <1>3, <1>1, <2>1, RowChanges
  <2>4. QED
    BY <1>2, <1>3, <2>1, <2>2, <2>3, Moves
<1>8. CASE CancelTx(w)
  <2>1. /\ At(w, "cancel.tx") /\ entries' = [entries EXCEPT ![e] = Cancelled(entries[e])]
        /\ Goto(w, Resequence([req[w] EXCEPT !.t = NoTable]))
    BY <1>8 DEF CancelTx
  <2>2. entries[e].status \in {"WAITING", "NOTIFIED"}
    BY <1>1, <2>1 DEF StillTrue, At, Active, With
  <2>3. Cancelled(entries[e]) \in EntryRow /\ Cancelled(entries[e]).status = "CANCELLED"
    BY <1>3, <1>1, <2>1, RowChanges
  <2>4. QED
    BY <1>2, <1>3, <2>1, <2>2, <2>3, Moves
<1>9. CASE CompleteTx(w)
  <2>1. /\ At(w, "complete.tx") /\ entries' = [entries EXCEPT ![e] = Completed(entries[e], t)]
        /\ Goto(w, Resequence([req[w] EXCEPT !.t = NoTable]))
    BY <1>9 DEF CompleteTx
  <2>2. entries[e].status \in {"WAITING", "NOTIFIED", "SEATED"}
    BY <1>1, <2>1 DEF StillTrue, At, With
  <2>3. Completed(entries[e], t) \in EntryRow /\ Completed(entries[e], t).status = "COMPLETED"
    BY <1>3, <1>1, <2>1, RowChanges
  <2>4. QED
    BY <1>2, <1>3, <2>1, <2>2, <2>3, Moves
<1>10. CASE AdvanceTx(w)
  <2> DEFINE row == Called(entries[e], t)
  <2>1. /\ At(w, "advance.tx") /\ entries' = [entries EXCEPT ![e] = row]
        /\ Goto(w, Finished(req[w]))
    BY <1>10 DEF AdvanceTx
  <2>2. /\ e \in First(Fitting(t)) /\ ~ManualDispatch /\ t \in Tables
        /\ e \in Entries /\ entries[e] \in EntryRow
    BY <1>1, <2>1 DEF StillTrue, HandOK, At, ReadPoints
  <2>3. entries[e].status = "WAITING"
    BY <2>2 DEF First, Fitting, Waiting, With
  <2>4. row \in EntryRow /\ row.status = "NOTIFIED" /\ row.table = t
    BY <1>1, <2>2, RowChanges DEF Called, EntryRow
  <2>5. CalledInTurn(e, row.status, row.table)
    <3>1. ASSUME NEW f \in Waiting, entries[f].position < entries[e].position
          PROVE  PartySize[f] > Capacity[t]
      <4>1. f \in Fitting(t) => entries[e].position <= entries[f].position
        BY <2>2 DEF First
      <4>2. entries[e].position \in Nat /\ entries[f].position \in Nat
        BY <1>1, <2>2 DEF EntryRow, Waiting, With
      <4>3. ~(PartySize[f] <= Capacity[t])
        BY <3>1, <4>1, <4>2 DEF Fitting
      <4>4. PartySize[f] \in Nat /\ Capacity[t] \in Nat
        BY <2>2, SizeAssumption DEF Waiting, With
      <4>5. QED
        BY <4>3, <4>4
    <3> HIDE DEF row
    <3>2. QED
      BY <2>2, <2>4, <3>1 DEF CalledInTurn
  <2> HIDE DEF row
  <2>6. QED
    BY <2>1, <2>2, <2>3, <2>4, <2>5, Moves, LoneRowWrite DEF Goto
<1>11. QED
  BY <1>4, <1>5, <1>6, <1>7, <1>8, <1>9, <1>10

\* Writing a position moves nobody.
LEMMA LoneResequenceWrite ==
  ASSUME Serial, IInv, LoneHand, NEW w \in Handlers, ResequenceWrite(w)
  PROVE  LoneHand' /\ \A e \in Entries : RowMoves(w, e)
<1>1. PICK e \in Entries :
        /\ entries' = [entries EXCEPT ![e].position = req[w].plan[e]]
        /\ LET r == [req[w] EXCEPT !.plan[e] = 0]
           IN Goto(w, IF r.plan = NoPlan THEN OfferNext(r) ELSE r)
  BY DEF ResequenceWrite
<1>2. /\ req[w] \in Request /\ StillTrue(req[w]) /\ req[w].at = "reseq.write"
      /\ entries \in [Entries -> EntryRow]
  BY HandTyped DEF LoneHand, ResequenceWrite, At, IInv, TypeOK
<1> DEFINE q == [req[w] EXCEPT !.plan[e] = 0]
           u == IF q.plan = NoPlan THEN OfferNext(q) ELSE q
<1>3. q \in Request /\ StillTrue(q) /\ q.at = "reseq.write"
  BY <1>2 DEF Request, StillTrue, SweepPoints
<1>4. /\ Free(u)
      /\ u.tick = "sweep" => u.at \in SweepPoints /\ u.listed \subseteq With({"NOTIFIED"})
  <2> HIDE DEF q
  <2>1. CASE u = OfferNext(q)
    BY <1>3, <2>1, AfterLoneWrite
  <2>2. CASE u = q
    BY <1>3, <2>2 DEF Free, StillTrue
  <2>3. QED
    BY <2>1, <2>2
<1>5. \A f \in Entries : entries'[f].status = entries[f].status
  BY <1>1, <1>2 DEF EntryRow
<1>6. req' = [req EXCEPT ![w] = u]
  BY <1>1 DEF Goto
<1> HIDE DEF u
<1>7. LoneHand'
  BY <1>4, <1>5, <1>6, LoneWrite DEF With
<1>8. QED
  BY <1>5, <1>7 DEF RowMoves

\* Several rows are closed, none of them listed by a sweep.
LEMMA LoneBulkWrite ==
  ASSUME Serial, IInv, LoneHand, NEW w \in Handlers, req[w].tick # "sweep",
         \A e \in Entries :
           \/ entries'[e].status = entries[e].status
           \/ /\ entries[e].status \in {"WAITING", "NOTIFIED"}
              /\ entries'[e].status = "CANCELLED"
           \/ entries[e].status = "SEATED" /\ entries'[e].status = "COMPLETED",
         NEW u, Free(u), u.tick # "sweep", req' = [req EXCEPT ![w] = u]
  PROVE  LoneHand' /\ \A e \in Entries : RowMoves(w, e)
<1>1. LoneHand'
  BY LoneWrite
<1>2. QED
  BY <1>1, Moves DEF RowMoves, CalledInTurn

\* The bulk clears, table changes and the reset of all tables.
LEMMA LoneOtherWrite ==
  ASSUME Serial, IInv, LoneHand, NEW w \in Handlers,
         ClearActiveTx(w) \/ ClearAllTx(w) \/ TableTx(w) \/ ResetAllTables(w)
  PROVE  LoneHand' /\ \A e \in Entries : RowMoves(w, e)
<1>1. /\ req[w] \in Request /\ StillTrue(req[w]) /\ entries \in [Entries -> EntryRow]
  BY HandTyped DEF LoneHand, IInv, TypeOK
<1>2. req[w].tick # "sweep"
  BY <1>1 DEF ClearActiveTx, ClearAllTx, TableTx, ResetAllTables, At, StillTrue, SweepPoints
<1>3. Free(Idle) /\ Idle.tick = "none"
  BY <1>1, GoesFree
<1>4. CASE ClearActiveTx(w)
  <2>1. \A e \in Entries :
          \/ entries'[e].status = entries[e].status
          \/ /\ entries[e].status \in {"WAITING", "NOTIFIED"}
             /\ entries'[e].status = "CANCELLED"
    BY <1>1, <1>4 DEF ClearActiveTx, Cancelled, Active, With, EntryRow
  <2>2. QED
    BY <1>2, <1>3, <1>4, <2>1, LoneBulkWrite DEF ClearActiveTx, Goto
<1>5. CASE ClearAllTx(w)
  <2>1. entries' = [e \in Entries |->
           CASE e \in Active -> Cancelled(entries[e])
             [] entries[e].status = "SEATED" ->
                  Completed(entries[e], IF UsesTables THEN entries[e].table ELSE NoTable)
             [] OTHER -> entries[e]]
    BY <1>5 DEF ClearAllTx
  <2>2. ASSUME NEW e \in Entries
        PROVE  \/ entries'[e].status = entries[e].status
               \/ /\ entries[e].status \in {"WAITING", "NOTIFIED"}
                  /\ entries'[e].status = "CANCELLED"
               \/ entries[e].status = "SEATED" /\ entries'[e].status = "COMPLETED"
    <3>1. CASE e \in Active
      <4>1. entries'[e] = Cancelled(entries[e])
        BY <2>1, <3>1 DEF Active, With
      <4>2. QED
        BY <1>1, <3>1, <4>1 DEF Cancelled, Active, With, EntryRow
    <3>2. CASE entries[e].status = "SEATED"
      <4>1. entries'[e] = Completed(entries[e], IF UsesTables THEN entries[e].table ELSE NoTable)
        BY <2>1, <3>2 DEF Active, With
      <4>2. QED
        BY <1>1, <3>2, <4>1 DEF Completed, EntryRow
    <3>3. CASE e \notin Active /\ entries[e].status # "SEATED"
      BY <2>1, <3>3
    <3>4. QED
      BY <3>1, <3>2, <3>3
  <2>3. req' = [req EXCEPT ![w] = Idle]
    BY <1>5 DEF ClearAllTx, Goto
  <2>4. QED
    BY <1>2, <1>3, <2>2, <2>3, LoneBulkWrite
<1>6. CASE TableTx(w)
  <2> DEFINE t == req[w].t
             to == req[w].to
             closes == to = "CLEARING" \/ (to = "FREE" /\ ~ManualDispatch)
             q == [req[w] EXCEPT !.to = "none", !.t = IF to = "FREE" THEN t ELSE NoTable]
             u == IF closes THEN Resequence(q) ELSE OfferNext(q)
  <2>1. /\ req' = [req EXCEPT ![w] = u]
        /\ entries' = [e \in Entries |->
             IF closes /\ entries[e].status = "SEATED" /\ entries[e].table = t
             THEN Completed(entries[e], t) ELSE entries[e]]
    BY <1>6 DEF TableTx, Goto
  <2>2. \A e \in Entries :
          \/ entries'[e].status = entries[e].status
          \/ entries[e].status = "SEATED" /\ entries'[e].status = "COMPLETED"
    <3> HIDE DEF closes
    <3> QED
      BY <1>1, <2>1 DEF Completed, EntryRow
  <2>3. q \in Request /\ q.tick = req[w].tick
    BY <1>1 DEF Request
  <2>4. Free(u) /\ u.tick # "sweep"
    <3> HIDE DEF q, closes
    <3> QED
      BY <1>2, <2>3, GoesFree
  <2> HIDE DEF u
  <2>5. QED
    BY <1>2, <2>1, <2>2, <2>4, LoneBulkWrite
<1>7. CASE ResetAllTables(w)
  BY <1>2, <1>3, <1>7, LoneBulkWrite DEF ResetAllTables, Goto
<1>8. QED
  BY <1>4, <1>5, <1>6, <1>7

\* What the sweep writes into the row of a called guest.
LEMMA LapsedMoves ==
  ASSUME NEW row \in EntryRow, row.status = "NOTIFIED"
  PROVE  Lapsed(row).status \in {"NOTIFIED", "NO_SHOW"}
BY DEF Lapsed, NoShow, EntryRow

\* The sweep finds each guest it listed still called.
LEMMA LoneSweep ==
  ASSUME Serial, IInv, LoneHand, NEW w \in Handlers, NEW e \in Entries, SweepEntry(w, e)
  PROVE  LoneHand' /\ \A f \in Entries : RowMoves(w, f)
<1> DEFINE q == [req[w] EXCEPT !.listed = @ \ {e}, !.held[e] = NoTable,
                               !.t = req[w].held[e]]
           u == IF ManualRemove THEN OfferNext(q) ELSE Resequence(q)
<1>1. /\ req[w] \in Request /\ StillTrue(req[w]) /\ entries \in [Entries -> EntryRow]
  BY HandTyped DEF LoneHand, IInv, TypeOK
<1>2. /\ req[w].at = "tick" /\ req[w].tick = "sweep" /\ e \in req[w].listed
      /\ entries' = [entries EXCEPT ![e] = Lapsed(entries[e])]
      /\ req' = [req EXCEPT ![w] = u]
  BY DEF SweepEntry, Goto, At
<1>3. /\ q \in Request /\ q.tick = "sweep" /\ q.listed = req[w].listed \ {e} /\ StillTrue(q)
  BY <1>1, <1>2 DEF Request, StillTrue, SweepPoints
<1>4. /\ Free(u)
      /\ u.tick = "sweep" => u.at \in SweepPoints /\ u.listed \subseteq With({"NOTIFIED"})
      /\ u.tick = "sweep" => u.listed \subseteq req[w].listed \ {e}
  <2> HIDE DEF q
  <2>1. u \in {OfferNext(q), Resequence(q)}
    OBVIOUS
  <2>2. u.tick = "sweep" => u.listed \subseteq q.listed
    BY <1>3, <2>1, GoesFree
  <2>3. QED
    BY <1>3, <2>1, <2>2, AfterLoneWrite
<1>5. entries[e].status = "NOTIFIED" /\ Lapsed(entries[e]).status \in {"NOTIFIED", "NO_SHOW"}
  BY <1>1, <1>2, LapsedMoves DEF StillTrue, With
<1> HIDE DEF u
<1>6. \A f \in Entries : RowMoves(w, f)
  BY <1>1, <1>2, <1>5, Moves DEF RowMoves, CalledInTurn
<1>7. LoneHand'
  BY <1>1, <1>2, <1>4, LoneWrite DEF With
<1>8. QED
  BY <1>6, <1>7

\* The end of a response window moves nobody.
LEMMA LoneLapse ==
  ASSUME IInv, LoneHand, NEW e \in Entries, WindowLapses(e)
  PROVE  /\ LoneHand'
         /\ \A f \in Entries : /\ entries'[f].status = entries[f].status
                               /\ entries'[f].position = entries[f].position
                               /\ entries'[f].table = entries[f].table
<1>1. \A f \in Entries : /\ entries'[f].status = entries[f].status
                         /\ entries'[f].position = entries[f].position
                         /\ entries'[f].table = entries[f].table
  BY DEF WindowLapses, IInv, TypeOK, EntryRow
<1>2. \A S : With(S)' = With(S)
  BY <1>1 DEF With
<1>3. Active' = Active /\ Waiting' = Waiting
  BY <1>1 DEF Active, Waiting, With
<1>4. \A t : Fitting(t)' = Fitting(t)
  BY <1>3 DEF Fitting
<1>5. Waiting \subseteq Entries /\ \A t : Fitting(t) \subseteq Entries
  BY DEF Fitting, Waiting, With
<1>6. LoneHand'
  <2>1. SUFFICES ASSUME NEW w \in Handlers PROVE StillTrue(req[w])'
    BY DEF LoneHand
  <2>2. StillTrue(req[w]) /\ req' = req
    BY DEF LoneHand, WindowLapses
  <2>3. First(Waiting)' = First(Waiting)
    BY <1>1, <1>3, <1>5 DEF First
  <2>4. First(Fitting(req[w].t))' = First(Fitting(req[w].t))
    BY <1>1, <1>4, <1>5, <2>2 DEF First
  <2>5. /\ With({"NOTIFIED"})' = With({"NOTIFIED"})
        /\ With({"WAITING", "NOTIFIED", "SEATED"})' = With({"WAITING", "NOTIFIED", "SEATED"})
    BY <1>1 DEF With
  <2>6. QED
    BY <1>3, <2>2, <2>3, <2>4, <2>5 DEF StillTrue
<1>7. QED
  BY <1>1, <1>6

\* Every step keeps what the handler has in hand true and moves the entries
\* along their lifecycle.
LEMMA SerialNext ==
  ASSUME Serial, IInv, LoneHand, Next
  PROVE  /\ LoneHand'
         /\ \/ \A e \in Entries : entries'[e].status = entries[e].status
            \/ \E w \in Handlers : \A e \in Entries : RowMoves(w, e)
<1>1. ASSUME NEW w \in Handlers, NewRequest(w) \/ Step(w) \/ TickStart(w) \/ Fail(w)
      PROVE  LoneHand' /\ \A e \in Entries : RowMoves(w, e)
  <2>1. CASE NewRequest(w)
    BY <2>1, LoneRequest
  <2>2. CASE \/ JoinDuplicate(w) \/ NotifyFirst(w) \/ ReorderPlan(w) \/ ResequenceRead(w)
             \/ SeatTable(w) \/ AdvanceTable(w) \/ AdvanceEntry(w)
    BY <2>2, LoneStepRead
  <2>3. CASE TickStart(w) \/ PollRead(w) \/ TickEnd(w) \/ Fail(w)
               \/ \E t \in Tables : PollTable(w, t)
    BY <2>3, LoneTickRead
  <2>4. CASE \/ JoinCreate(w) \/ NotifyWrite(w) \/ NoShowTx(w) \/ SeatTx(w)
             \/ CancelTx(w) \/ CompleteTx(w) \/ AdvanceTx(w)
    BY <2>4, LoneOneRowWrite
  <2>5. CASE ResequenceWrite(w)
    BY <2>5, LoneResequenceWrite
  <2>6. CASE ClearActiveTx(w) \/ ClearAllTx(w) \/ TableTx(w) \/ ResetAllTables(w)
    BY <2>6, LoneOtherWrite
  <2>7. CASE \E e \in Entries : SweepEntry(w, e)
    BY <2>7, LoneSweep
  <2>8. QED
    BY <1>1, <2>1, <2>2, <2>3, <2>4, <2>5, <2>6, <2>7 DEF Step
<1>2. ASSUME NEW e \in Entries, WindowLapses(e)
      PROVE  LoneHand' /\ \A f \in Entries : entries'[f].status = entries[f].status
  BY <1>2, LoneLapse
<1>3. QED
  BY <1>1, <1>2 DEF Next

\* A phone stays with one active entry: a join creates its row only after it
\* found no other, and nothing else makes an entry active.
LEMMA JoinsStayApart ==
  ASSUME SerialInv,
         \/ \A e \in Entries : entries'[e].status = entries[e].status
         \/ \E w \in Handlers : \A e \in Entries : RowMoves(w, e)
  PROVE  NoDuplicateGuest'
<1>1. CASE \A e \in Entries : entries'[e].status = entries[e].status
  BY <1>1 DEF SerialInv, NoDuplicateGuest, Active, With
<1>2. ASSUME NEW w \in Handlers, \A e \in Entries : RowMoves(w, e)
      PROVE  NoDuplicateGuest'
  <2>1. ASSUME NEW e \in Active' PROVE e \in Active \/ (At(w, "join.create") /\ req[w].e = e)
    <3>1. e \in Entries /\ entries'[e].status \in {"WAITING", "NOTIFIED"}
      BY DEF Active, With
    <3>2. entries[e].status \in EntryStatus
      BY <3>1 DEF SerialInv, IInv, TypeOK, EntryRow
    <3>3. RowMoves(w, e)
      BY <1>2, <3>1
    <3>4. QED
      BY <3>1, <3>2, <3>3, Moves DEF RowMoves, EntryStatus, Active, With
  <2>2. At(w, "join.create") => \A f \in Active : Phone[f] # Phone[req[w].e]
    BY DEF SerialInv, LoneHand, StillTrue, At
  <2>3. QED
    BY <2>1, <2>2 DEF SerialInv, NoDuplicateGuest
<1>3. QED
  BY <1>1, <1>2

\* The invariant of a service that handles one request at a time.
LEMMA SerialInvariance == ASSUME Serial PROVE Spec => []SerialInv
<1>1. Init => SerialInv
  BY InitInv DEF Init, SerialInv, LoneHand, StillTrue, Idle, NoDuplicateGuest, Active, With
<1>2. SerialInv /\ [Next]_vars => SerialInv'
  <2>1. SUFFICES ASSUME SerialInv, [Next]_vars PROVE SerialInv'
    OBVIOUS
  <2>2. IInv'
    BY <2>1, NextKeepsInv DEF SerialInv
  <2>3. CASE Next
    BY <2>1, <2>2, <2>3, SerialNext, JoinsStayApart DEF SerialInv
  <2>4. CASE UNCHANGED vars
    BY <2>1, <2>2, <2>4 DEF vars, SerialInv, LoneHand, StillTrue, NoDuplicateGuest, Active,
                            Waiting, With, First, Fitting
  <2>5. QED
    BY <2>1, <2>3, <2>4
<1>3. QED
  BY <1>1, <1>2, PTL DEF Spec

\* joinQueue, one request at a time: a phone has at most one active entry,
\* through every other operation and every failure in between.
THEOREM NoDuplicateGuestSerially == ASSUME Serial PROVE Spec => []NoDuplicateGuest
BY SerialInvariance, PTL DEF SerialInv

\* Guests are called in the order of the queue, in automatic and manual venues.
THEOREM CallsInOrderSerially == ASSUME Serial PROVE Spec => CallsInOrder
<1>1. SerialInv /\ [Next]_vars =>
        [\A e, f \in Waiting :
           entries'[e].status = "NOTIFIED" /\ entries[f].position < entries[e].position =>
             ~ManualDispatch /\ PartySize[f] > Capacity[entries'[e].table]]_vars
  <2>1. SUFFICES ASSUME SerialInv, Next, NEW e \in Waiting, NEW f \in Waiting,
                        entries'[e].status = "NOTIFIED",
                        entries[f].position < entries[e].position
                 PROVE  ~ManualDispatch /\ PartySize[f] > Capacity[entries'[e].table]
    OBVIOUS
  <2>2. e \in Entries /\ entries[e].status = "WAITING"
    BY DEF Waiting, With
  <2>3. PICK w \in Handlers : RowMoves(w, e)
    BY <2>1, <2>2, SerialNext DEF SerialInv
  <2>4. QED
    BY <2>1, <2>2, <2>3 DEF RowMoves, CalledInTurn
<1>2. QED
  BY <1>1, SerialInvariance, PTL DEF Spec, CallsInOrder

\* A guest becomes a no-show only from being called: the sweep and the staff
\* write no NO_SHOW over a guest who was seated or left, as they may where
\* handlers overlap.
THEOREM NoShowOnlyIfCalledSerially == ASSUME Serial PROVE Spec => NoShowOnlyIfCalled
<1>1. SerialInv /\ [Next]_vars =>
        [\A e \in Entries :
           entries'[e].status = "NO_SHOW" /\ entries[e].status # "NO_SHOW" =>
             entries[e].status = "NOTIFIED"]_vars
  <2>1. SUFFICES ASSUME SerialInv, Next, NEW e \in Entries,
                        entries'[e].status = "NO_SHOW", entries[e].status # "NO_SHOW"
                 PROVE  entries[e].status = "NOTIFIED"
    OBVIOUS
  <2>2. PICK w \in Handlers : RowMoves(w, e)
    BY <2>1, SerialNext DEF SerialInv
  <2>3. "NO_SHOW" \in Lifecycle!MayBecome(entries[e].status)
    BY <2>1, <2>2 DEF RowMoves
  <2>4. \A s \in EntryStatus : "NO_SHOW" \in Lifecycle!MayBecome(s) => s = "NOTIFIED"
    BY Moves DEF EntryStatus
  <2>5. entries[e].status \in EntryStatus
    BY <2>1 DEF SerialInv, IInv, TypeOK, EntryRow
  <2>6. QED
    BY <2>3, <2>4, <2>5
<1>2. QED
  BY <1>1, SerialInvariance, PTL DEF Spec, NoShowOnlyIfCalled

\* Entries that change status along the lifecycle, any number at a time, are a
\* move of the abstract specification.
LEMMA MovesTogether ==
  ASSUME \A e \in Entries :
           entries'[e].status # entries[e].status =>
             entries'[e].status \in Lifecycle!MayBecome(entries[e].status)
  PROVE  Lifecycle!Move
<1> DEFINE S == {e \in Entries : entries'[e].status # entries[e].status}
           status == [e \in Entries |-> entries[e].status]
           to == [e \in S |-> entries'[e].status]
<1>1. S \in SUBSET Entries
  OBVIOUS
<1>2. \A e \in S : to[e] \in Lifecycle!MayBecome(status[e])
  OBVIOUS
<1>3. to \in [S -> UNION {Lifecycle!MayBecome(status[e]) : e \in S}]
  <2> DEFINE some == UNION {Lifecycle!MayBecome(status[f]) : f \in S}
  <2>1. \A e \in S : Lifecycle!MayBecome(status[e]) \subseteq some
    OBVIOUS
  <2>2. \A e \in S : to[e] \in some
    BY <1>2, <2>1
  <2>3. \A e \in S : entries'[e].status \in some
    BY <2>2
  <2> HIDE DEF some, S
  <2>4. to \in [S -> some]
    BY <2>3
  <2>5. QED
    BY <2>4 DEF some
<1>4. status' = [e \in Entries |-> IF e \in S THEN to[e] ELSE status[e]]
  OBVIOUS
<1>5. QED
  BY <1>1, <1>2, <1>3, <1>4 DEF Lifecycle!Move

\* The handlers keep what the service promises about an entry: one request at a
\* time, in every mode of the venue, QueueFloor implements EntryLifecycle.
THEOREM RefinesLifecycleSerially == ASSUME Serial PROVE Spec => RefinesLifecycle
<1>1. Init => Lifecycle!Init
  BY DEF Init, Lifecycle!Init
<1>2. SerialInv /\ [Next]_vars => [Lifecycle!Move]_([e \in Entries |-> entries[e].status])
  <2>1. SUFFICES ASSUME SerialInv, [Next]_vars
                 PROVE  \/ Lifecycle!Move
                        \/ UNCHANGED [e \in Entries |-> entries[e].status]
    OBVIOUS
  <2>2. CASE UNCHANGED vars
    BY <2>2 DEF vars
  <2>3. CASE \A e \in Entries : entries'[e].status = entries[e].status
    BY <2>3
  <2>4. ASSUME NEW w \in Handlers, \A e \in Entries : RowMoves(w, e)
        PROVE  Lifecycle!Move
    BY <2>4, MovesTogether DEF RowMoves
  <2>5. QED
    BY <2>1, <2>2, <2>3, <2>4, SerialNext DEF SerialInv
<1>3. QED
  BY <1>1, <1>2, SerialInvariance, PTL DEF Spec, RefinesLifecycle, Lifecycle!Spec

-----------------------------------------------------------------------------
(* Positions *)

\* g numbers the active entries 1..n, in a manual venue the called ones first.
Numbered(g) ==
  /\ {g[e] : e \in Active} = 1..Cardinality(Active)
  /\ ManualDispatch => \A e \in With({"NOTIFIED"}), f \in Waiting : g[e] < g[f]

Positions == [e \in Entries |-> entries[e].position]

\* The positions that will be there when the plan in hand is written.
Planned(r) ==
  [e \in Entries |-> IF r.plan[e] # 0 THEN r.plan[e] ELSE entries[e].position]

PlanHand(r) == r.at = "reseq.write" => Numbered(Planned(r))

PlansInv == \A w \in Handlers : PlanHand(req[w])

\* Where nothing fails: positions are right unless a resequencing is owed.
Owing == {"reseq.read", "reseq.write"}

RestHand(r) ==
  /\ r.at \notin Owing => Numbered(Positions)
  /\ Joining(r) => r.n = Cardinality(Active) + 1
  /\ r.at = "clearActive.tx" => Active \subseteq r.listed

RestInv == /\ (\A w \in Handlers : req[w].at \notin Owing) => Numbered(Positions)
           /\ \A w \in Handlers : RestHand(req[w])

\* What a step of w must keep of both.
KeepsNumbers(w) ==
  PlanHand(req[w])' /\ (~MayFail /\ RestHand(req[w]) => RestHand(req[w])')

\* Distinct numbers from 1..n for n things are all of 1..n.
LEMMA InjectionNumbers ==
  ASSUME NEW S, IsFiniteSet(S), NEW f \in [S -> 1..Cardinality(S)],
         \A a, b \in S : a # b => f[a] # f[b]
  PROVE  {f[e] : e \in S} = 1..Cardinality(S)
<1> DEFINE N == 1..Cardinality(S)
<1>1. Cardinality(S) \in Nat
  BY FS_CardinalityType
<1>2. IsFiniteSet(N) /\ Cardinality(N) = Cardinality(S)
  BY <1>1, FS_Interval
<1>3. f \in Injection(S, N)
  BY DEF Injection, IsInjective
<1>4. f \in Surjection(S, N)
  <2> HIDE DEF N
  <2> QED
    BY <1>2, <1>3, FS_Injection
<1>5. QED
  BY <1>4 DEF Surjection

\* One more thing takes the next number.
LEMMA NextNumber ==
  ASSUME NEW S, IsFiniteSet(S), NEW x, x \notin S, NEW g, NEW h,
         {g[e] : e \in S} = 1..Cardinality(S),
         \A e \in S : h[e] = g[e], h[x] = Cardinality(S) + 1
  PROVE  {h[e] : e \in S \cup {x}} = 1..Cardinality(S \cup {x})
<1>1. Cardinality(S) \in Nat /\ Cardinality(S \cup {x}) = Cardinality(S) + 1
  BY FS_CardinalityType, FS_AddElement
<1>2. {h[e] : e \in S} = 1..Cardinality(S)
  OBVIOUS
<1>3. {h[e] : e \in S \cup {x}} = {h[e] : e \in S} \cup {Cardinality(S) + 1}
  OBVIOUS
<1>4. 1..(Cardinality(S) + 1) = (1..Cardinality(S)) \cup {Cardinality(S) + 1}
  BY <1>1
<1>5. QED
  BY <1>1, <1>2, <1>3, <1>4

\* Nothing has no numbers.
LEMMA NoNumbers ==
  ASSUME NEW S, S = {}, NEW g
  PROVE  {g[e] : e \in S} = 1..Cardinality(S)
<1>1. Cardinality(S) = 0
  BY FS_EmptySet
<1>2. QED
  BY <1>1

LEMMA ActiveFinite == IsFiniteSet(Active) /\ Cardinality(Active) \in Nat
<1>1. Active \in SUBSET Entries
  BY DEF Active, With
<1>2. QED
  BY <1>1, FiniteAssumption, FS_Subset, FS_CardinalityType

\* A numbering by queue order is one.
LEMMA NumberingsNumber ==
  ASSUME NEW pri, NEW f \in Numberings(pri), NEW g, \A e \in Active : g[e] = f[e]
  PROVE  Numbered(g)
<1>1. /\ f \in [Active -> 1..Cardinality(Active)]
      /\ \A a, b \in Active : a # b => f[a] # f[b]
      /\ \A a, b \in Active : GoesBefore(a, b, pri) => f[a] < f[b]
  BY DEF Numberings
<1>2. {f[e] : e \in Active} = 1..Cardinality(Active)
  BY <1>1, ActiveFinite, InjectionNumbers
<1>3. {g[e] : e \in Active} = {f[e] : e \in Active}
  OBVIOUS
<1>4. ASSUME NEW e \in With({"NOTIFIED"}), NEW h \in Waiting PROVE g[e] < g[h]
  <2>1. e \in Active /\ h \in Active /\ GoesBefore(e, h, pri)
    BY DEF Active, Waiting, With, GoesBefore
  <2>2. QED
    BY <1>1, <2>1
<1>5. QED
  BY <1>2, <1>3, <1>4 DEF Numbered

\* So is one in which two waiting entries change places.
LEMMA SwappedNumber ==
  ASSUME NEW f \in Numberings(NoEntry), NEW a \in Waiting, NEW b \in Waiting, NEW g,
         \A e \in Active : g[e] = Swapped(f, a, b)[e]
  PROVE  Numbered(g)
<1> DEFINE s == Swapped(f, a, b)
<1>1. /\ f \in [Active -> 1..Cardinality(Active)]
      /\ \A c, d \in Active : c # d => f[c] # f[d]
      /\ \A c, d \in Active : GoesBefore(c, d, NoEntry) => f[c] < f[d]
  BY DEF Numberings
<1>2. a \in Active /\ b \in Active
  BY DEF Active, Waiting, With
<1>3. /\ s \in [Active -> 1..Cardinality(Active)]
      /\ \A e \in Active : s[e] = IF e = b THEN f[a] ELSE IF e = a THEN f[b] ELSE f[e]
  BY <1>1, <1>2 DEF Swapped
<1> HIDE DEF s
<1>4. \A c, d \in Active : c # d => s[c] # s[d]
  BY <1>1, <1>2, <1>3
<1>5. {s[e] : e \in Active} = 1..Cardinality(Active)
  BY <1>3, <1>4, ActiveFinite, InjectionNumbers
<1>6. \A e \in Active : g[e] = s[e]
  BY DEF s
<1>7. {g[e] : e \in Active} = {s[e] : e \in Active}
  BY <1>6
<1>8. ASSUME NEW e \in With({"NOTIFIED"}), NEW h \in Waiting PROVE g[e] < g[h]
  <2>1. \A k \in Waiting : e \in Active /\ k \in Active /\ GoesBefore(e, k, NoEntry)
    BY DEF Active, Waiting, With, GoesBefore
  <2>2. e # a /\ e # b
    BY DEF Waiting, With
  <2>3. \A k \in Waiting : f[e] < f[k]
    BY <1>1, <2>1
  <2>4. s[e] = f[e] /\ s[h] \in {f[a], f[b], f[h]}
    BY <1>3, <2>1, <2>2
  <2>5. QED
    BY <1>6, <2>1, <2>3, <2>4
<1>9. QED
  BY <1>5, <1>7, <1>8 DEF Numbered

\* Positions that are right stay so while nobody becomes active or stops being
\* so; in a manual venue nobody is called either.
LEMMA SameNumbered ==
  ASSUME IInv, Numbered(Positions),
         \A e \in Entries :
           /\ entries'[e].position = entries[e].position
           /\ \/ entries'[e].status = entries[e].status
              \/ /\ entries[e].status \notin {"WAITING", "NOTIFIED"}
                 /\ entries'[e].status \notin {"WAITING", "NOTIFIED"}
              \/ /\ ~ManualDispatch
                 /\ entries[e].status \in {"WAITING", "NOTIFIED"}
                 /\ entries'[e].status \in {"WAITING", "NOTIFIED"}
  PROVE  Numbered(Positions)'
<1>1. Active' = Active /\ Active \subseteq Entries
  BY DEF Active, With
<1>2. \A e \in Entries : Positions'[e] = Positions[e]
  BY DEF Positions
<1>3. {Positions'[e] : e \in Active'} = 1..Cardinality(Active')
  BY <1>1, <1>2 DEF Numbered
<1>4. ASSUME ManualDispatch, NEW e \in With({"NOTIFIED"})', NEW f \in Waiting'
      PROVE  Positions'[e] < Positions'[f]
  <2>1. e \in With({"NOTIFIED"}) /\ f \in Waiting /\ e \in Entries /\ f \in Entries
    BY <1>4 DEF With, Waiting
  <2>2. QED
    BY <1>2, <1>4, <2>1 DEF Numbered
<1>5. QED
  BY <1>3, <1>4 DEF Numbered

\* Nobody is active.
LEMMA NobodyNumbered == ASSUME Active' = {} PROVE Numbered(Positions)'
<1>1. {Positions'[e] : e \in Active'} = 1..Cardinality(Active')
  BY NoNumbers
<1>2. Waiting' = {}
  BY DEF Active, Waiting, With
<1>3. QED
  BY <1>1, <1>2 DEF Numbered

\* A step after which no plan and no join is in hand.
LEMMA StepKeepsNumbers ==
  ASSUME IInv, NEW w \in Handlers, NEW r, req' = [req EXCEPT ![w] = r],
         r.at \notin {"reseq.write", "join.dup", "join.create", "clearActive.tx"},
         \/ r.at = "reseq.read"
         \/ RestHand(req[w]) => Numbered(Positions)'
  PROVE  KeepsNumbers(w)
<1>1. req'[w] = r
  BY DEF IInv, TypeOK
<1>2. QED
  BY <1>1 DEF KeepsNumbers, PlanHand, RestHand, Owing, Joining

\* A step that only reads, and plans nothing.
LEMMA ReadKeepsNumbers ==
  ASSUME IInv, NEW w \in Handlers, NEW r, req' = [req EXCEPT ![w] = r],
         UNCHANGED <<entries, tables>>,
         r.at # "reseq.write", r.at = "reseq.read" \/ req[w].at \notin Owing,
         Joining(r) => \/ r.n = Cardinality(Active) + 1
                       \/ Joining(req[w]) /\ r.n = req[w].n,
         r.at = "clearActive.tx" => Active \subseteq r.listed
  PROVE  KeepsNumbers(w)
<1>1. req'[w] = r
  BY DEF IInv, TypeOK
<1>2. Active' = Active
  BY DEF Active, With
<1>3. Numbered(Positions) => Numbered(Positions)'
  BY SameNumbered
<1>4. PlanHand(req[w])'
  BY <1>1 DEF PlanHand
<1>5. RestHand(req[w]) => RestHand(req[w])'
  BY <1>1, <1>2, <1>3 DEF RestHand, Owing, Joining
<1>6. QED
  BY <1>4, <1>5 DEF KeepsNumbers

\* New requests.
LEMMA RequestKeepsNumbers ==
  ASSUME IInv, NEW w \in Handlers, NewRequest(w)
  PROVE  KeepsNumbers(w)
<1>1. ASSUME NEW r, Begin(w, r), UNCHANGED <<entries, tables>>,
             r.at \notin {"join.dup", "join.create", "reseq.write", "clearActive.tx"}
      PROVE  KeepsNumbers(w)
  BY <1>1, ReadKeepsNumbers DEF Begin, At, Owing, Joining
<1>2. ASSUME NEW e \in Entries, JoinCount(w, e) PROVE KeepsNumbers(w)
  <2> DEFINE n == Cardinality(Active) + 1
             r == [Idle EXCEPT !.at = "join.dup", !.e = e, !.n = n]
  <2>1. req[w].at = "idle" /\ req' = [req EXCEPT ![w] = r] /\ UNCHANGED <<entries, tables>>
    BY <1>2 DEF JoinCount, Begin, At
  <2>2. r.at = "join.dup" /\ r.n = n
    <3> HIDE DEF n
    <3> QED
      BY DEF Idle
  <2> HIDE DEF r
  <2>3. QED
    BY <2>1, <2>2, ReadKeepsNumbers DEF Owing
<1>3. ASSUME NEW e \in Entries,
             \/ NotifyRead(w, e) \/ NoShowRead(w, e) \/ CancelRead(w, e) \/ CompleteRead(w, e)
             \/ \E point \in Points : ReorderRead(w, e, point)
      PROVE  KeepsNumbers(w)
  BY <1>1, <1>3 DEF NotifyRead, NoShowRead, CancelRead, CompleteRead, ReorderRead, Idle
<1>4. ASSUME NEW e \in Entries, SeatRead(w, e) PROVE KeepsNumbers(w)
  <2>1. PICK t \in Tables \cup {NoTable} :
          Begin(w, [Idle EXCEPT !.at = IF UsesTables THEN "seat.table" ELSE "seat.tx",
                                !.e = e, !.t = t])
    BY <1>4 DEF SeatRead
  <2>2. [Idle EXCEPT !.at = IF UsesTables THEN "seat.table" ELSE "seat.tx", !.e = e, !.t = t].at
          \in {"seat.table", "seat.tx"}
    BY DEF Idle
  <2>3. QED
    BY <1>1, <1>4, <2>1, <2>2 DEF SeatRead
<1>5. ASSUME NEW point \in Points, ClearRead(w, point) PROVE KeepsNumbers(w)
  <2>1. point \in {"clearActive.tx", "clearAll.tx"} /\ At(w, "idle")
    BY <1>5 DEF ClearRead, Begin
  <2>2. PICK listed, held :
          /\ req' = [req EXCEPT ![w] = [Idle EXCEPT !.at = point, !.listed = listed,
                                                    !.held = held]]
          /\ point = "clearActive.tx" => listed = Active
    BY <1>5 DEF ClearRead, Begin
  <2> DEFINE r == [Idle EXCEPT !.at = point, !.listed = listed, !.held = held]
  <2>3. r.at = point /\ r.listed = listed
    BY DEF Idle
  <2>4. req' = [req EXCEPT ![w] = r] /\ UNCHANGED <<entries, tables>>
    BY <1>5, <2>2 DEF ClearRead
  <2> HIDE DEF r
  <2>5. QED
    BY <2>1, <2>2, <2>3, <2>4, ReadKeepsNumbers DEF At, Owing, Joining
<1>6. ASSUME NEW t \in Tables, NEW to \in TableStatus, StaffTable(w, t, to)
      PROVE  KeepsNumbers(w)
  BY <1>1, <1>6 DEF StaffTable, Idle
<1>7. ASSUME ResetRead(w) PROVE KeepsNumbers(w)
  BY <1>1, <1>7 DEF ResetRead, Idle
<1>8. QED
  BY <1>2, <1>3, <1>4, <1>5, <1>6, <1>7 DEF NewRequest

\* Where a handler goes that has finished a part of its work.
LEMMA GoesOn ==
  ASSUME NEW r \in Request
  PROVE  /\ Idle.at = "idle" /\ Finished(r).at \in {"idle", "tick"}
         /\ OfferNext(r).at \in {"idle", "tick", "advance.table"}
         /\ Resequence(r).at = "reseq.read"
         /\ Resequence([r EXCEPT !.t = NoTable]).at = "reseq.read"
<1>1. Idle.at = "idle" /\ Finished(r).at \in {"idle", "tick"}
  BY DEF Idle, Finished
<1>2. OfferNext(r).at \in {"idle", "tick", "advance.table"}
  BY <1>1 DEF OfferNext, Request
<1>3. /\ Resequence(r).at = "reseq.read"
      /\ Resequence([r EXCEPT !.t = NoTable]).at = "reseq.read"
  BY DEF Resequence, Request
<1>4. QED
  BY <1>1, <1>2, <1>3

\* A plan is made.
LEMMA PlanKeepsNumbers ==
  ASSUME IInv, NEW w \in Handlers, NEW f, f \in [Active -> 1..Cardinality(Active)],
         \A g : (\A e \in Active : g[e] = f[e]) => Numbered(g),
         UNCHANGED <<entries, tables>>,
         req' = [req EXCEPT ![w] = [req[w] EXCEPT !.at = "reseq.write", !.plan = AsPlan(f)]]
  PROVE  KeepsNumbers(w)
<1> DEFINE r == [req[w] EXCEPT !.at = "reseq.write", !.plan = AsPlan(f)]
<1>1. req'[w] = r /\ r.at = "reseq.write" /\ r.plan = AsPlan(f)
  BY HandTyped DEF IInv, TypeOK, Request
<1> HIDE DEF r
<1>2. \A e \in Active : Planned(r)[e] = f[e]
  <2>1. Active \subseteq Entries
    BY DEF Active, With
  <2>2. \A e \in Active : AsPlan(f)[e] = f[e] /\ f[e] # 0
    BY <2>1, ActiveFinite DEF AsPlan
  <2>3. QED
    BY <1>1, <2>1, <2>2 DEF Planned
<1>3. Numbered(Planned(r))
  BY <1>2
<1>4. Planned(req[w])' = Planned(r)
  BY <1>1 DEF Planned
<1>5. Numbered(Planned(req[w]))'
  <2>1. Active' = Active /\ Waiting' = Waiting /\ With({"NOTIFIED"})' = With({"NOTIFIED"})
    BY DEF Active, Waiting, With
  <2>2. QED
    BY <1>3, <1>4, <2>1 DEF Numbered
<1>6. QED
  BY <1>1, <1>5 DEF KeepsNumbers, PlanHand, RestHand, Owing, Joining

LEMMA ResequenceReadKeepsNumbers ==
  ASSUME IInv, NEW w \in Handlers, ResequenceRead(w)
  PROVE  KeepsNumbers(w)
<1> DEFINE pri == IF At(w, "prioritize.read") THEN req[w].e ELSE NoEntry
<1>1. PICK f \in Numberings(pri) :
        Goto(w, IF Active = {} THEN OfferNext(req[w])
                ELSE [req[w] EXCEPT !.at = "reseq.write", !.plan = AsPlan(f)])
  BY DEF ResequenceRead
<1>2. UNCHANGED <<entries, tables>>
  BY DEF ResequenceRead
<1>3. CASE Active = {}
  <2>1. req' = [req EXCEPT ![w] = OfferNext(req[w])]
    BY <1>1, <1>3 DEF Goto
  <2>2. Active' = {}
    BY <1>2, <1>3 DEF Active, With
  <2>3. OfferNext(req[w]).at \in {"idle", "tick", "advance.table"}
    BY HandTyped, GoesOn
  <2>4. QED
    BY <2>1, <2>2, <2>3, NobodyNumbered, StepKeepsNumbers
<1>4. CASE Active # {}
  <2>1. req' = [req EXCEPT ![w] = [req[w] EXCEPT !.at = "reseq.write", !.plan = AsPlan(f)]]
    BY <1>1, <1>4 DEF Goto
  <2>2. f \in [Active -> 1..Cardinality(Active)]
    BY DEF Numberings
  <2>3. \A g : (\A e \in Active : g[e] = f[e]) => Numbered(g)
    BY NumberingsNumber
  <2>4. QED
    BY <1>2, <2>1, <2>2, <2>3, PlanKeepsNumbers
<1>5. QED
  BY <1>3, <1>4

LEMMA ReorderPlanKeepsNumbers ==
  ASSUME IInv, NEW w \in Handlers, ReorderPlan(w)
  PROVE  KeepsNumbers(w)
<1>1. PICK f \in Numberings(NoEntry) :
        \/ Goto(w, Idle)
        \/ \E g \in {h \in Waiting : IsNeighbour(f, req[w].e, h, req[w].at)} :
             Goto(w, [req[w] EXCEPT !.at = "reseq.write",
                                    !.plan = AsPlan(Swapped(f, req[w].e, g))])
  BY DEF ReorderPlan
<1>2. UNCHANGED <<entries, tables>> /\ req[w].at \notin Owing
  BY DEF ReorderPlan, Owing
<1>3. CASE Goto(w, Idle)
  <2>1. Idle.at = "idle"
    BY DEF Idle
  <2>2. QED
    BY <1>2, <1>3, <2>1, ReadKeepsNumbers DEF Goto, Joining
<1>4. ASSUME NEW g \in Waiting, IsNeighbour(f, req[w].e, g, req[w].at),
             Goto(w, [req[w] EXCEPT !.at = "reseq.write",
                                    !.plan = AsPlan(Swapped(f, req[w].e, g))])
      PROVE  KeepsNumbers(w)
  <2> DEFINE a == req[w].e
             s == Swapped(f, a, g)
  <2>1. a \in Waiting /\ a \in Active /\ g \in Active
    BY <1>4 DEF IsNeighbour, Active, Waiting, With
  <2>2. s \in [Active -> 1..Cardinality(Active)]
    BY <2>1 DEF Swapped, Numberings
  <2>3. \A h : (\A e \in Active : h[e] = s[e]) => Numbered(h)
    <3> HIDE DEF a
    <3> QED
      BY <2>1, SwappedNumber
  <2>4. req' = [req EXCEPT ![w] = [req[w] EXCEPT !.at = "reseq.write", !.plan = AsPlan(s)]]
    BY <1>4 DEF Goto
  <2> HIDE DEF s
  <2>5. QED
    BY <1>2, <2>2, <2>3, <2>4, PlanKeepsNumbers
<1>5. QED
  BY <1>1, <1>3, <1>4

\* The other reads in the middle of a request or a tick, and failures.
LEMMA StepReadKeepsNumbers ==
  ASSUME IInv, NEW w \in Handlers,
         \/ JoinDuplicate(w) \/ NotifyFirst(w) \/ SeatTable(w) \/ AdvanceTable(w)
         \/ AdvanceEntry(w) \/ TickStart(w) \/ PollRead(w) \/ TickEnd(w) \/ Fail(w)
         \/ \E t \in Tables : PollTable(w, t)
  PROVE  KeepsNumbers(w)
<1>1. req[w] \in Request
  BY HandTyped
<1>2. ASSUME NEW r, req' = [req EXCEPT ![w] = r], UNCHANGED <<entries, tables>>,
             req[w].at \notin Owing,
             r.at \notin {"join.dup", "join.create", "reseq.write", "clearActive.tx"}
      PROVE  KeepsNumbers(w)
  BY <1>2, ReadKeepsNumbers DEF Joining
<1>3. CASE JoinDuplicate(w)
  <2>1. CASE Goto(w, Idle)
    BY <1>2, <1>3, <2>1, GoesOn, <1>1 DEF JoinDuplicate, Goto, At, Owing
  <2>2. CASE Goto(w, [req[w] EXCEPT !.at = "join.create"])
    <3> DEFINE r == [req[w] EXCEPT !.at = "join.create"]
    <3>1. r.at = "join.create" /\ r.n = req[w].n /\ req' = [req EXCEPT ![w] = r]
      BY <1>1, <2>2 DEF Request, Goto
    <3> HIDE DEF r
    <3>2. req[w].at = "join.dup" /\ UNCHANGED <<entries, tables>>
      BY <1>3 DEF JoinDuplicate, At
    <3>3. QED
      BY <3>1, <3>2, ReadKeepsNumbers DEF Joining, Owing
  <2>3. QED
    BY <1>3, <2>1, <2>2 DEF JoinDuplicate
<1>4. CASE NotifyFirst(w)
  <2>1. req[w].at = "notify.first" /\ UNCHANGED <<entries, tables>>
    BY <1>4 DEF NotifyFirst, At
  <2>2. CASE Goto(w, Idle)
    BY <1>1, <1>2, <2>1, <2>2, GoesOn DEF Goto, Owing
  <2>3. CASE Goto(w, [req[w] EXCEPT !.at = "notify.write"])
    BY <1>1, <1>2, <2>1, <2>3 DEF Goto, Owing, Request
  <2>4. QED
    BY <1>4, <2>2, <2>3 DEF NotifyFirst
<1>5. CASE SeatTable(w)
  <2>1. req[w].at = "seat.table" /\ UNCHANGED <<entries, tables>>
    BY <1>5 DEF SeatTable, At
  <2>2. CASE Goto(w, Idle)
    BY <1>1, <1>2, <2>1, <2>2, GoesOn DEF Goto, Owing
  <2>3. CASE Goto(w, [req[w] EXCEPT !.at = "seat.tx"])
    BY <1>1, <1>2, <2>1, <2>3 DEF Goto, Owing, Request
  <2>4. QED
    BY <1>5, <2>2, <2>3 DEF SeatTable
<1>6. CASE AdvanceTable(w) \/ AdvanceEntry(w)
  <2>1. req[w].at \in {"advance.table", "advance.entry"} /\ UNCHANGED <<entries, tables>>
    BY <1>6 DEF AdvanceTable, AdvanceEntry, At
  <2>2. CASE Goto(w, Finished(req[w]))
    BY <1>1, <1>2, <2>1, <2>2, GoesOn DEF Goto, Owing
  <2>3. CASE Goto(w, [req[w] EXCEPT !.at = "advance.entry"])
    BY <1>1, <1>2, <2>1, <2>3 DEF Goto, Owing, Request
  <2>4. ASSUME NEW e, Goto(w, [req[w] EXCEPT !.at = "advance.tx", !.e = e])
        PROVE  KeepsNumbers(w)
    BY <1>1, <1>2, <2>1, <2>4 DEF Goto, Owing, Request
  <2>5. QED
    BY <1>6, <2>2, <2>3, <2>4 DEF AdvanceTable, AdvanceEntry
<1>7. CASE TickStart(w)
  BY <1>2, <1>7 DEF TickStart, Goto, At, Owing, Idle
<1>8. CASE PollRead(w) \/ TickEnd(w)
  <2>1. req[w].at = "tick" /\ UNCHANGED <<entries, tables>>
    BY <1>8 DEF PollRead, TickEnd, At
  <2>2. PICK updates : Goto(w, Idle) \/ Goto(w, [Idle EXCEPT !.at = "tick", !.tick = "poll",
                                                             !.updates = updates])
    BY <1>8 DEF PollRead, TickEnd
  <2>3. QED
    BY <1>2, <2>1, <2>2 DEF Goto, Owing, Idle
<1>9. ASSUME NEW t \in Tables, PollTable(w, t) PROVE KeepsNumbers(w)
  <2> DEFINE r == [req[w] EXCEPT !.at = "table.tx", !.t = t, !.to = req[w].updates[t],
                                 !.updates[t] = "none"]
  <2>1. r.at = "table.tx"
    BY <1>1 DEF Request
  <2>2. req' = [req EXCEPT ![w] = r] /\ req[w].at = "tick" /\ UNCHANGED <<entries, tables>>
    BY <1>9 DEF PollTable, Goto, At
  <2> HIDE DEF r
  <2>3. QED
    BY <1>2, <2>1, <2>2 DEF Owing
<1>10. CASE Fail(w)
  <2>1. MayFail /\ req'[w] = Idle
    BY <1>10 DEF Fail, Goto, IInv, TypeOK
  <2>2. QED
    BY <2>1 DEF KeepsNumbers, PlanHand, Idle
<1>11. QED
  BY <1>3, <1>4, <1>5, <1>6, <1>7, <1>8, <1>9, <1>10

\* The plan is written, one row after another, and then it is there.
LEMMA ResequenceWriteKeepsNumbers ==
  ASSUME IInv, NEW w \in Handlers, PlanHand(req[w]), ResequenceWrite(w)
  PROVE  /\ KeepsNumbers(w)
         /\ (\A e \in Entries : req'[w].plan[e] = 0) => Numbered(Positions)'
<1>1. PICK e \in Entries :
        /\ req[w].plan[e] # 0
        /\ entries' = [entries EXCEPT ![e].position = req[w].plan[e]]
        /\ LET r == [req[w] EXCEPT !.plan[e] = 0]
           IN Goto(w, IF r.plan = NoPlan THEN OfferNext(r) ELSE r)
  BY DEF ResequenceWrite
<1> DEFINE r == [req[w] EXCEPT !.plan[e] = 0]
           u == IF r.plan = NoPlan THEN OfferNext(r) ELSE r
           g == Planned(req[w])
<1>2. /\ req[w] \in Request /\ req[w].at = "reseq.write" /\ Numbered(g)
      /\ entries \in [Entries -> EntryRow] /\ req' = [req EXCEPT ![w] = u] /\ req'[w] = u
  BY <1>1, HandTyped DEF ResequenceWrite, At, PlanHand, Goto, IInv, TypeOK
<1>3. /\ r \in Request /\ r.at = "reseq.write"
      /\ r.plan = [req[w].plan EXCEPT ![e] = 0]
  BY <1>1, <1>2 DEF Request
<1>4. \A f \in Entries : /\ entries'[f].status = entries[f].status
                         /\ entries'[f].position = IF f = e THEN req[w].plan[e]
                                                   ELSE entries[f].position
  BY <1>1, <1>2 DEF EntryRow
<1>5. Active' = Active /\ Waiting' = Waiting /\ With({"NOTIFIED"})' = With({"NOTIFIED"})
  BY <1>4 DEF Active, Waiting, With
<1>6. ASSUME NEW h, \A f \in Entries : h[f] = g[f]
      PROVE  /\ {h[f] : f \in Active'} = 1..Cardinality(Active')
             /\ ManualDispatch => \A a \in With({"NOTIFIED"})', b \in Waiting' : h[a] < h[b]
  <2>1. Active \subseteq Entries /\ Waiting \subseteq Entries /\ With({"NOTIFIED"}) \subseteq Entries
    BY DEF Active, Waiting, With
  <2>2. {h[f] : f \in Active} = {g[f] : f \in Active}
    BY <1>6, <2>1
  <2> HIDE DEF g
  <2>3. QED
    BY <1>2, <1>5, <1>6, <2>1, <2>2 DEF Numbered
<1>7. CASE r.plan = NoPlan
  <2>1. \A f \in Entries : f # e => req[w].plan[f] = 0
    BY <1>2, <1>3, <1>7 DEF NoPlan, Request
  <2>2. \A f \in Entries : Positions'[f] = g[f]
    BY <1>1, <1>4, <2>1 DEF Positions, Planned
  <2>3. Numbered(Positions)'
    <3> HIDE DEF g
    <3> QED
      BY <1>6, <2>2 DEF Numbered
  <2>4. u = OfferNext(r)
    BY <1>7
  <2>5. u.at \in {"idle", "tick", "advance.table"}
    <3> HIDE DEF r, u
    <3> QED
      BY <1>3, <2>4, GoesOn
  <2> HIDE DEF r, u
  <2>6. QED
    BY <1>2, <2>3, <2>5, StepKeepsNumbers
<1>8. CASE r.plan # NoPlan
  <2>1. u = r
    BY <1>8
  <2>2. \A f \in Entries : Planned(req[w])'[f] = g[f]
    <3>1. req'[w].plan = [req[w].plan EXCEPT ![e] = 0]
      BY <1>2, <1>3, <2>1
    <3>2. req[w].plan \in [Entries -> Nat]
      BY <1>2 DEF Request
    <3> HIDE DEF r, u
    <3>3. QED
      BY <1>1, <1>4, <3>1, <3>2 DEF Planned
  <2>3. Numbered(Planned(req[w]))'
    <3> HIDE DEF g
    <3> QED
      BY <1>6, <2>2 DEF Numbered
  <2>4. KeepsNumbers(w)
    BY <1>2, <1>3, <2>1, <2>3 DEF KeepsNumbers, PlanHand, RestHand, Owing, Joining
  <2>5. \E f \in Entries : req'[w].plan[f] # 0
    <3>1. r.plan \in [Entries -> Nat] /\ req'[w].plan = r.plan
      BY <1>2, <1>3, <2>1 DEF Request
    <3> HIDE DEF r, u
    <3>2. QED
      BY <1>8, <3>1 DEF NoPlan
  <2>6. QED
    BY <2>4, <2>5
<1>9. QED
  BY <1>7, <1>8

\* A guest joins at the end.
LEMMA JoinCreateKeepsNumbers ==
  ASSUME IInv, NEW w \in Handlers, JoinCreate(w)
  PROVE  KeepsNumbers(w)
<1> DEFINE e == req[w].e
           n == Cardinality(Active) + 1
<1>1. /\ req[w].at = "join.create" /\ e \in Entries /\ entries[e].status = "ABSENT"
      /\ entries \in [Entries -> EntryRow]
      /\ req' = [req EXCEPT ![w] = Idle]
      /\ entries' = [entries EXCEPT ![e] =
                       [status |-> "WAITING", position |-> req[w].n, table |-> NoTable,
                        deadline |-> "none", expired |-> FALSE]]
  BY HandTyped DEF JoinCreate, At, Goto, HandOK, Joining, IInv, TypeOK
<1> HIDE DEF e
<1>2. ASSUME RestHand(req[w]) PROVE Numbered(Positions)'
  <2>1. req[w].n = n /\ Numbered(Positions)
    BY <1>1, <1>2 DEF RestHand, Owing, Joining
  <2>2. /\ e \notin Active /\ Active' = Active \cup {e} /\ Waiting' = Waiting \cup {e}
        /\ With({"NOTIFIED"})' = With({"NOTIFIED"})
    BY <1>1 DEF Active, Waiting, With
  <2>3. /\ Positions'[e] = n
        /\ \A f \in Entries : f # e => Positions'[f] = Positions[f]
    BY <1>1, <2>1 DEF Positions
  <2>4. Active \subseteq Entries /\ Waiting \subseteq Entries
        /\ With({"NOTIFIED"}) \subseteq Active
    BY DEF Active, Waiting, With
  <2> HIDE DEF n
  <2>5. \A f \in Active : Positions'[f] = Positions[f]
    BY <2>2, <2>3, <2>4
  <2>6. {Positions'[f] : f \in Active \cup {e}} = 1..Cardinality(Active \cup {e})
    BY <2>1, <2>2, <2>3, <2>5, ActiveFinite, NextNumber DEF Numbered, n
  <2>7. ASSUME ManualDispatch, NEW a \in With({"NOTIFIED"}), NEW b \in Waiting \cup {e}
        PROVE  Positions'[a] < Positions'[b]
    <3>1. a \in Active /\ Positions'[a] = Positions[a] /\ Positions[a] \in 1..Cardinality(Active)
      BY <2>1, <2>4, <2>5 DEF Numbered
    <3>2. CASE b = e
      BY <2>3, <3>1, <3>2, ActiveFinite DEF n
    <3>3. CASE b # e
      <4>1. b \in Waiting /\ b \in Entries
        BY <2>4, <3>3
      <4>2. QED
        BY <2>1, <2>3, <2>7, <3>1, <3>3, <4>1 DEF Numbered
    <3>4. QED
      BY <3>2, <3>3
  <2>8. QED
    BY <2>2, <2>6, <2>7 DEF Numbered
<1>3. Idle.at = "idle"
  BY DEF Idle
<1>4. QED
  BY <1>1, <1>2, <1>3, StepKeepsNumbers

\* Guests who are called from the first place of a manual queue, seated or
\* leave: a resequencing is owed.
LEMMA LeaveKeepsNumbers ==
  ASSUME IInv, NEW w \in Handlers,
         NotifyWrite(w) \/ NoShowTx(w) \/ SeatTx(w) \/ CancelTx(w) \/ CompleteTx(w)
  PROVE  KeepsNumbers(w)
<1>1. \/ req' = [req EXCEPT ![w] = Resequence(req[w])]
      \/ req' = [req EXCEPT ![w] = Resequence([req[w] EXCEPT !.t = NoTable])]
  BY DEF NotifyWrite, NoShowTx, SeatTx, CancelTx, CompleteTx, Goto
<1>2. /\ Resequence(req[w]).at = "reseq.read"
      /\ Resequence([req[w] EXCEPT !.t = NoTable]).at = "reseq.read"
  BY HandTyped, GoesOn
<1>3. QED
  BY <1>1, <1>2, StepKeepsNumbers

\* The bulk clears leave nobody active; tables that change close guests who
\* sit; an offer in an automatic venue calls one of the active.
LEMMA OtherWriteKeepsNumbers ==
  ASSUME IInv, NEW w \in Handlers, StillTrue(req[w]),
         ClearActiveTx(w) \/ ClearAllTx(w) \/ TableTx(w) \/ ResetAllTables(w) \/ AdvanceTx(w)
  PROVE  KeepsNumbers(w)
<1>1. req[w] \in Request /\ entries \in [Entries -> EntryRow] /\ Idle.at = "idle"
  BY HandTyped, GoesOn DEF IInv, TypeOK
<1>2. CASE ClearActiveTx(w)
  <2>1. /\ req[w].at = "clearActive.tx" /\ req' = [req EXCEPT ![w] = Idle]
        /\ entries' = [e \in Entries |-> IF e \in Active \cap req[w].listed
                                         THEN Cancelled(entries[e]) ELSE entries[e]]
    BY <1>2 DEF ClearActiveTx, At, Goto
  <2>2. ASSUME RestHand(req[w]) PROVE Active' = {}
    <3>1. Active \subseteq req[w].listed
      BY <2>1, <2>2 DEF RestHand
    <3>2. ASSUME NEW e \in Entries
          PROVE  entries'[e].status \notin {"WAITING", "NOTIFIED"}
      <4>1. CASE e \in Active
        BY <1>1, <2>1, <3>1, <4>1 DEF Cancelled, EntryRow
      <4>2. CASE e \notin Active
        BY <2>1, <4>2 DEF Active, With
      <4>3. QED
        BY <4>1, <4>2
    <3>3. QED
      BY <3>2 DEF Active, With
  <2>3. QED
    BY <1>1, <2>1, <2>2, NobodyNumbered, StepKeepsNumbers
<1>3. CASE ClearAllTx(w)
  <2>1. /\ req' = [req EXCEPT ![w] = Idle]
        /\ entries' = [e \in Entries |->
             CASE e \in Active -> Cancelled(entries[e])
               [] entries[e].status = "SEATED" ->
                    Completed(entries[e], IF UsesTables THEN entries[e].table ELSE NoTable)
               [] OTHER -> entries[e]]
    BY <1>3 DEF ClearAllTx, Goto
  <2>2. ASSUME NEW e \in Entries
        PROVE  entries'[e].status \notin {"WAITING", "NOTIFIED"}
    <3>1. CASE e \in Active
      <4>1. entries[e].status # "SEATED"
        BY <3>1 DEF Active, With
      <4>2. entries'[e] = Cancelled(entries[e])
        BY <2>1, <3>1, <4>1
      <4>3. QED
        BY <1>1, <4>2 DEF Cancelled, EntryRow
    <3>2. CASE e \notin Active /\ entries[e].status = "SEATED"
      <4>1. entries'[e] =
              Completed(entries[e], IF UsesTables THEN entries[e].table ELSE NoTable)
        BY <2>1, <3>2
      <4>2. QED
        BY <1>1, <4>1 DEF Completed, EntryRow
    <3>3. CASE e \notin Active /\ entries[e].status # "SEATED"
      <4>1. entries'[e] = entries[e]
        BY <2>1, <3>3
      <4>2. QED
        BY <3>3, <4>1 DEF Active, With
    <3>4. QED
      BY <3>1, <3>2, <3>3
  <2>3. Active' = {}
    BY <2>2 DEF Active, With
  <2>4. QED
    BY <1>1, <2>1, <2>3, NobodyNumbered, StepKeepsNumbers
<1>4. CASE TableTx(w)
  <2> DEFINE t == req[w].t
             to == req[w].to
             closes == to = "CLEARING" \/ (to = "FREE" /\ ~ManualDispatch)
             q == [req[w] EXCEPT !.to = "none", !.t = IF to = "FREE" THEN t ELSE NoTable]
             u == IF closes THEN Resequence(q) ELSE OfferNext(q)
  <2>1. /\ req[w].at = "table.tx" /\ req' = [req EXCEPT ![w] = u]
        /\ entries' = [e \in Entries |->
             IF closes /\ entries[e].status = "SEATED" /\ entries[e].table = t
             THEN Completed(entries[e], t) ELSE entries[e]]
    BY <1>4 DEF TableTx, At, Goto
  <2>2. \A e \in Entries :
          /\ entries'[e].position = entries[e].position
          /\ \/ entries'[e].status = entries[e].status
             \/ entries[e].status = "SEATED" /\ entries'[e].status = "COMPLETED"
    <3> HIDE DEF closes
    <3> QED
      BY <1>1, <2>1 DEF Completed, EntryRow
  <2>3. RestHand(req[w]) => Numbered(Positions)'
    BY <2>1, <2>2, SameNumbered DEF RestHand, Owing
  <2>4. u.at \in {"idle", "tick", "advance.table", "reseq.read"}
    <3>1. q \in Request
      BY <1>1 DEF Request
    <3> HIDE DEF q, closes
    <3>2. QED
      BY <3>1, GoesOn
  <2> HIDE DEF u
  <2>5. QED
    BY <2>1, <2>3, <2>4, StepKeepsNumbers
<1>5. CASE ResetAllTables(w)
  <2>1. /\ req[w].at = "reset.tx" /\ req' = [req EXCEPT ![w] = Idle] /\ entries' = entries
    BY <1>5 DEF ResetAllTables, At, Goto
  <2>2. RestHand(req[w]) => Numbered(Positions)'
    BY <2>1, SameNumbered DEF RestHand, Owing
  <2>3. QED
    BY <1>1, <2>1, <2>2, StepKeepsNumbers
<1>6. CASE AdvanceTx(w)
  <2> DEFINE e == req[w].e
  <2>1. /\ req[w].at = "advance.tx" /\ req' = [req EXCEPT ![w] = Finished(req[w])]
        /\ entries' = [entries EXCEPT ![e] = Called(entries[e], req[w].t)]
    BY <1>6 DEF AdvanceTx, At, Goto
  <2>2. ~ManualDispatch /\ e \in Entries /\ entries[e].status = "WAITING"
    BY <2>1 DEF StillTrue, First, Fitting, Waiting, With
  <2>3. /\ Called(entries[e], req[w].t).status = "NOTIFIED"
        /\ Called(entries[e], req[w].t).position = entries[e].position
    BY <1>1, <2>2 DEF Called, EntryRow
  <2>4. RestHand(req[w]) => Numbered(Positions)'
    <3> HIDE DEF e
    <3>1. \A f \in Entries :
            /\ entries'[f].position = entries[f].position
            /\ \/ entries'[f].status = entries[f].status
               \/ entries[f].status = "WAITING" /\ entries'[f].status = "NOTIFIED"
      BY <1>1, <2>1, <2>2, <2>3
    <3>2. QED
      BY <2>1, <2>2, <3>1, SameNumbered DEF RestHand, Owing
  <2>5. Finished(req[w]).at \in {"idle", "tick"}
    BY <1>1, GoesOn
  <2>6. QED
    BY <2>1, <2>4, <2>5, StepKeepsNumbers
<1>7. QED
  BY <1>2, <1>3, <1>4, <1>5, <1>6

\* The sweep: where staff remove no-shows the entry stays where it is.
LEMMA SweepKeepsNumbers ==
  ASSUME IInv, NEW w \in Handlers, NEW e \in Entries, SweepEntry(w, e)
  PROVE  KeepsNumbers(w)
<1> DEFINE q == [req[w] EXCEPT !.listed = @ \ {e}, !.held[e] = NoTable,
                               !.t = req[w].held[e]]
<1>1. /\ req[w] \in Request /\ entries \in [Entries -> EntryRow] /\ req[w].at = "tick"
      /\ entries' = [entries EXCEPT ![e] = Lapsed(entries[e])]
      /\ req' = [req EXCEPT ![w] = IF ManualRemove THEN OfferNext(q) ELSE Resequence(q)]
  BY HandTyped DEF SweepEntry, Goto, At, IInv, TypeOK
<1>2. q \in Request
  BY <1>1 DEF Request
<1>3. CASE ManualRemove
  <2>1. Lapsed(entries[e]).status = entries[e].status
        /\ Lapsed(entries[e]).position = entries[e].position
    BY <1>1, <1>3 DEF Lapsed, EntryRow
  <2>2. \A f \in Entries : /\ entries'[f].position = entries[f].position
                           /\ entries'[f].status = entries[f].status
    BY <1>1, <2>1
  <2>3. RestHand(req[w]) => Numbered(Positions)'
    BY <1>1, <2>2, SameNumbered DEF RestHand, Owing
  <2>4. OfferNext(q).at \in {"idle", "tick", "advance.table"}
    <3> HIDE DEF q
    <3> QED
      BY <1>2, GoesOn
  <2> HIDE DEF q
  <2>5. QED
    BY <1>1, <1>3, <2>3, <2>4, StepKeepsNumbers
<1>4. CASE ~ManualRemove
  <2>1. Resequence(q).at = "reseq.read"
    <3> HIDE DEF q
    <3> QED
      BY <1>2, GoesOn
  <2> HIDE DEF q
  <2>2. QED
    BY <1>1, <1>4, <2>1, StepKeepsNumbers
<1>5. QED
  BY <1>3, <1>4

\* A step of a handler.
LEMMA HandlerKeepsNumbers ==
  ASSUME IInv, LoneHand, PlansInv, NEW w \in Handlers,
         NewRequest(w) \/ Step(w) \/ TickStart(w) \/ Fail(w)
  PROVE  KeepsNumbers(w)
<1>1. StillTrue(req[w]) /\ PlanHand(req[w])
  BY DEF LoneHand, PlansInv
<1>2. CASE NewRequest(w)
  BY <1>2, RequestKeepsNumbers
<1>3. CASE JoinCreate(w) \/ ReorderPlan(w) \/ ResequenceRead(w) \/ ResequenceWrite(w)
  BY <1>1, <1>3, JoinCreateKeepsNumbers, ReorderPlanKeepsNumbers, ResequenceReadKeepsNumbers,
     ResequenceWriteKeepsNumbers
<1>4. CASE \/ JoinDuplicate(w) \/ NotifyFirst(w) \/ SeatTable(w) \/ AdvanceTable(w)
           \/ AdvanceEntry(w) \/ TickStart(w) \/ PollRead(w) \/ TickEnd(w) \/ Fail(w)
           \/ \E t \in Tables : PollTable(w, t)
  BY <1>4, StepReadKeepsNumbers
<1>5. CASE NotifyWrite(w) \/ NoShowTx(w) \/ SeatTx(w) \/ CancelTx(w) \/ CompleteTx(w)
  BY <1>5, LeaveKeepsNumbers
<1>6. CASE ClearActiveTx(w) \/ ClearAllTx(w) \/ TableTx(w) \/ ResetAllTables(w) \/ AdvanceTx(w)
  BY <1>1, <1>6, OtherWriteKeepsNumbers
<1>7. CASE \E e \in Entries : SweepEntry(w, e)
  BY <1>7, SweepKeepsNumbers
<1>8. QED
  BY <1>2, <1>3, <1>4, <1>5, <1>6, <1>7 DEF Step

\* The end of a response window changes no numbers.
LEMMA LapseKeepsNumbers ==
  ASSUME IInv, LoneHand, NEW e \in Entries, WindowLapses(e)
  PROVE  PlansInv => PlansInv' /\ (RestInv => RestInv')
<1>1. /\ req' = req
      /\ \A f \in Entries : /\ entries'[f].status = entries[f].status
                            /\ entries'[f].position = entries[f].position
  BY LoneLapse DEF WindowLapses
<1>2. /\ Active' = Active /\ Waiting' = Waiting /\ With({"NOTIFIED"})' = With({"NOTIFIED"})
  BY <1>1 DEF Active, Waiting, With
<1>3. ASSUME NEW w \in Handlers, PlanHand(req[w]) PROVE PlanHand(req[w])'
  <2>1. Planned(req[w])' = Planned(req[w])
    BY <1>1 DEF Planned
  <2>2. Numbered(Planned(req[w]))' <=> Numbered(Planned(req[w]))
    BY <1>2, <2>1 DEF Numbered
  <2>3. QED
    BY <1>1, <1>3, <2>2 DEF PlanHand
<1>4. Numbered(Positions)' <=> Numbered(Positions)
  <2>1. Positions' = Positions
    BY <1>1 DEF Positions
  <2>2. QED
    BY <1>2, <2>1 DEF Numbered
<1>5. ASSUME NEW w \in Handlers, RestHand(req[w]) PROVE RestHand(req[w])'
  BY <1>1, <1>2, <1>4, <1>5 DEF RestHand, Joining
<1>6. QED
  BY <1>1, <1>3, <1>4, <1>5 DEF PlansInv, RestInv

\* The plan in hand is right, whatever fails; where nothing does, positions are
\* right unless a resequencing is owed.
LEMMA NumbersNext ==
  ASSUME Serial, IInv, LoneHand, PlansInv, Next
  PROVE  PlansInv' /\ (~MayFail /\ RestInv => RestInv')
<1>1. ASSUME NEW w \in Handlers, NewRequest(w) \/ Step(w) \/ TickStart(w) \/ Fail(w)
      PROVE  PlansInv' /\ (~MayFail /\ RestInv => RestInv')
  <2>1. KeepsNumbers(w) /\ \A v \in Handlers : v = w
    BY <1>1, HandlerKeepsNumbers DEF Serial
  <2>2. PlansInv'
    BY <2>1 DEF KeepsNumbers, PlansInv
  <2>3. ASSUME ~MayFail, RestInv PROVE RestInv'
    <3>1. RestHand(req[w])'
      BY <2>1, <2>3 DEF KeepsNumbers, RestInv
    <3>2. QED
      BY <2>1, <3>1 DEF RestInv, RestHand
  <2>4. QED
    BY <2>2, <2>3
<1>2. QED
  BY <1>1, LapseKeepsNumbers DEF Next

\* At the beginning nobody is there.
LEMMA NumbersInit == ASSUME Init PROVE PlansInv /\ RestInv
<1>1. Active = {} /\ Waiting = {}
  BY DEF Init, Active, Waiting, With
<1>2. Numbered(Positions)
  BY <1>1, NoNumbers DEF Numbered
<1>3. \A w \in Handlers : req[w].at = "idle"
  BY DEF Init, Idle
<1>4. QED
  BY <1>2, <1>3 DEF PlansInv, PlanHand, RestInv, RestHand, Joining

\* The numbers of a service that handles one request at a time.
LEMMA PlansHold == ASSUME Serial PROVE Spec => []PlansInv
<1>1. SerialInv /\ PlansInv /\ [Next]_vars => PlansInv'
  <2>1. SUFFICES ASSUME SerialInv, PlansInv, [Next]_vars PROVE PlansInv'
    OBVIOUS
  <2>2. CASE Next
    BY <2>1, <2>2, NumbersNext DEF SerialInv
  <2>3. CASE UNCHANGED vars
    BY <2>1, <2>3 DEF vars, PlansInv, PlanHand, Planned, Numbered, Active, Waiting, With
  <2>4. QED
    BY <2>1, <2>2, <2>3
<1>2. QED
  BY <1>1, NumbersInit, SerialInvariance, PTL DEF Spec

LEMMA RestHolds == ASSUME Serial, ~MayFail PROVE Spec => []RestInv
<1>1. SerialInv /\ PlansInv /\ RestInv /\ [Next]_vars => RestInv'
  <2>1. SUFFICES ASSUME SerialInv, PlansInv, RestInv, [Next]_vars PROVE RestInv'
    OBVIOUS
  <2>2. CASE Next
    BY <2>1, <2>2, NumbersNext DEF SerialInv
  <2>3. CASE UNCHANGED vars
    BY <2>1, <2>3 DEF vars, RestInv, RestHand, Positions, Numbered, Active, Waiting, With,
                      Joining
  <2>4. QED
    BY <2>1, <2>2, <2>3
<1>2. QED
  BY <1>1, NumbersInit, SerialInvariance, PlansHold, PTL DEF Spec

LEMMA NumberedCompact == Numbered(Positions) => Compact
<1>1. Active \subseteq Entries
  BY DEF Active, With
<1>2. {entries[e].position : e \in Active} = {Positions[e] : e \in Active}
  BY <1>1 DEF Positions
<1>3. QED
  BY <1>2 DEF Numbered, Compact

\* Where no handler stops, the active entries are at positions 1..n between
\* requests, after every sequence of joins, calls, moves, departures, sweeps
\* and bulk clears, in every mode of the venue.
THEOREM PositionsAtRestSerially ==
  ASSUME Serial, ~MayFail
  PROVE  Spec => []PositionsAtRest
<1>1. RestInv => PositionsAtRest
  BY NumberedCompact DEF RestInv, PositionsAtRest, AtRest, At, Owing
<1>2. QED
  BY <1>1, RestHolds, PTL

\* In a manual venue the called guests are ahead of the waiting ones between
\* requests: a guest who joins, moves or is put first does not pass them.
THEOREM CalledAheadAtRestSerially ==
  ASSUME Serial, ~MayFail
  PROVE  Spec => []CalledAheadAtRest
<1>1. Numbered(Positions) =>
        (ManualDispatch => \A e \in With({"NOTIFIED"}), f \in Waiting :
                             entries[e].position < entries[f].position)
  BY DEF Numbered, Positions, With, Waiting
<1>2. RestInv => CalledAheadAtRest
  BY <1>1 DEF RestInv, CalledAheadAtRest, AtRest, At, Owing
<1>3. QED
  BY <1>2, RestHolds, PTL

\* A resequencing that comes to its end leaves the active entries at 1..n,
\* also where a handler stopped in the middle of an earlier one.
THEOREM ResequenceHealsSerially == ASSUME Serial PROVE Spec => ResequenceHeals
<1>1. SerialInv /\ PlansInv /\ [Next]_vars =>
        [\A w \in Handlers :
           /\ At(w, "reseq.write")
           /\ entries' # entries
           /\ \A e \in Entries : req'[w].plan[e] = 0
           => Compact']_vars
  <2>1. SUFFICES ASSUME SerialInv, PlansInv, Next, NEW w \in Handlers, At(w, "reseq.write"),
                        entries' # entries, \A e \in Entries : req'[w].plan[e] = 0
                 PROVE  Numbered(Positions)'
    <3>1. Numbered(Positions)' => Compact'
      BY NumberedCompact, PTL
    <3>2. QED
      BY <3>1
  <2>2. IInv /\ LoneHand /\ PlanHand(req[w])
    BY <2>1 DEF SerialInv, PlansInv
  <2>3. ASSUME NEW v \in Handlers, NewRequest(v) \/ Step(v) \/ TickStart(v) \/ Fail(v)
        PROVE  Numbered(Positions)'
    <3>1. v = w
      BY DEF Serial
    <3>2. ResequenceWrite(w)
      <4>1. req[w].at = "reseq.write"
        BY <2>1 DEF At
      <4>2. ~NewRequest(w)
        BY <4>1 DEF NewRequest, JoinCount, NotifyRead, NoShowRead, SeatRead, CancelRead,
                    CompleteRead, ReorderRead, ClearRead, StaffTable, ResetRead, Begin, At
      <4>3. ~TickStart(w) /\ ~Fail(w)
        BY <2>1, <4>1 DEF TickStart, Fail, At
      <4>4. Step(w)
        BY <2>3, <3>1, <4>2, <4>3
      <4>5. QED
        BY <4>1, <4>4 DEF Step, JoinDuplicate, JoinCreate, NotifyFirst, NotifyWrite, NoShowTx,
             ReorderPlan, ResequenceRead, SeatTable, SeatTx, CancelTx, CompleteTx,
             ClearActiveTx, ClearAllTx, TableTx, ResetAllTables, AdvanceTable, AdvanceEntry,
             AdvanceTx, SweepEntry, PollRead, PollTable, TickEnd, At
    <3>3. QED
      BY <2>1, <2>2, <3>2, ResequenceWriteKeepsNumbers
  <2>4. ASSUME NEW e \in Entries, WindowLapses(e) PROVE Numbered(Positions)'
    <3>1. PlansInv' /\ req' = req
      BY <2>1, <2>2, <2>4, LapseKeepsNumbers DEF WindowLapses
    <3>2. Numbered(Planned(req[w]))'
      BY <2>1, <3>1 DEF PlansInv, PlanHand, At
    <3>3. Planned(req[w])' = Positions'
      BY <2>1 DEF Planned, Positions
    <3>4. QED
      BY <3>2, <3>3 DEF Numbered
  <2>5. QED
    BY <2>1, <2>3, <2>4 DEF Next
<1>2. QED
  BY <1>1, SerialInvariance, PlansHold, PTL DEF Spec, ResequenceHeals
=============================================================================
