----------------------------- MODULE QueueFloor -----------------------------
(***************************************************************************)
(* The waitlist and the tables of one venue: queue.service.ts,             *)
(* table.service.ts and the poller of workers/tmsPoller.ts.                *)
(*                                                                         *)
(* The handlers run in one Node process and share a Postgres database.     *)
(* Every awaited statement is a point where other handlers run, so a       *)
(* handler is a sequence of steps: each read, each single write and each   *)
(* $transaction block is one atomic step, and what a handler read earlier  *)
(* stays in its own record req[w] until it is used.  A read that refuses   *)
(* the request (a thrown AppError) leaves the handler idle.                *)
(*                                                                         *)
(* Left out: wait estimates, money (GuestPayments), the OTP as a number (a *)
(* request names the entry), messages, and venue settings changing while   *)
(* the venue is open.                                                      *)
(***************************************************************************)
EXTENDS Naturals, FiniteSets

CONSTANTS
  Entries,         \* queue entry rows that joins may create
  Tables,          \* tables of the venue
  NoEntry, NoTable,
  Clients,         \* handlers that serve guest and staff requests
  Tickers,         \* handlers that run poller ticks; ticks may overlap
  Phone,           \* the phone number each entry's join request carries
  PartySize, Capacity,
  MaxQueueSize,
  ManualDispatch,  \* queueDispatchMode = MANUAL_NOTIFY
  ManualRemove,    \* postWindowHandlingMode = MANUAL_REMOVE
  UsesTables,      \* shouldUseVenueTables
  QueueComplete,   \* arrivalCompletionMode = QUEUE_COMPLETE
  ExternalTms,     \* tmsProvider = POSIST, otherwise MANUAL
  StaffMoves,      \* <<from, to>> table status changes staff ask for
  HostDiscipline,  \* staff respect the reservations of called guests
  MayFail          \* a handler may stop at any await (crash, lost database
                   \* connection, a publish that throws while Redis is down)

TableStatus == {"FREE", "RESERVED", "OCCUPIED", "CLEARING"}

ASSUME NoEntryAssumption == NoEntry \notin Entries
ASSUME NoTableAssumption == NoTable \notin Tables
ASSUME FiniteAssumption == IsFiniteSet(Entries) /\ IsFiniteSet(Tables)
ASSUME SizeAssumption == /\ PartySize \in [Entries -> Nat]
                         /\ Capacity \in [Tables -> Nat]
                         /\ MaxQueueSize \in Nat
ASSUME SwitchAssumption ==
  /\ {ManualDispatch, ManualRemove, UsesTables, QueueComplete, ExternalTms,
      HostDiscipline, MayFail} \subseteq BOOLEAN
  /\ QueueComplete => ~UsesTables
  /\ StaffMoves \subseteq TableStatus \X TableStatus

VARIABLES
  entries,   \* QueueEntry rows
  tables,    \* Table.status
  req        \* what each handler is doing and remembers

vars == <<entries, tables, req>>

Handlers == Clients \cup Tickers

EntryStatus == {"ABSENT", "WAITING", "NOTIFIED", "SEATED", "COMPLETED",
                "CANCELLED", "NO_SHOW"}

\* tableReadyDeadlineAt is null, in the future, or at most now.
Deadline == {"none", "open", "passed"}

EntryRow == [status: EntryStatus, position: Nat, table: Tables \cup {NoTable},
             deadline: Deadline, expired: BOOLEAN]

Points ==
  {"idle", "join.dup", "join.create", "notify.first", "notify.write",
   "noshow.tx", "reorder.up", "reorder.down", "prioritize.read",
   "seat.table", "seat.tx", "cancel.tx", "complete.tx", "clearActive.tx",
   "clearAll.tx", "table.tx", "reset.tx", "reseq.read", "reseq.write",
   "advance.table", "advance.entry", "advance.tx", "tick"}

\* e, t, n, to: the entry, table, position and status in hand; plan: the
\* positions still to write; listed, held: rows of a findMany and the table
\* each of them holds; updates: the table changes a poll still has to apply.
Request == [at: Points, tick: {"none", "sweep", "poll"},
            e: Entries \cup {NoEntry}, t: Tables \cup {NoTable}, n: Nat,
            to: TableStatus \cup {"none"}, plan: [Entries -> Nat],
            listed: SUBSET Entries, held: [Entries -> Tables \cup {NoTable}],
            updates: [Tables -> TableStatus \cup {"none"}]]

NoPlan == [e \in Entries |-> 0]

Idle == [at |-> "idle", tick |-> "none", e |-> NoEntry, t |-> NoTable, n |-> 0,
         to |-> "none", plan |-> NoPlan, listed |-> {},
         held |-> [e \in Entries |-> NoTable],
         updates |-> [t \in Tables |-> "none"]]

TypeOK == /\ entries \in [Entries -> EntryRow]
          /\ tables \in [Tables -> TableStatus]
          /\ req \in [Handlers -> Request]

Init ==
  /\ entries = [e \in Entries |->
                  [status |-> "ABSENT", position |-> 0, table |-> NoTable,
                   deadline |-> "none", expired |-> FALSE]]
  /\ tables = [t \in Tables |-> "FREE"]
  /\ req = [w \in Handlers |-> Idle]

-----------------------------------------------------------------------------
(* Queries *)

With(S) == {e \in Entries : entries[e].status \in S}
Waiting == With({"WAITING"})
Active == With({"WAITING", "NOTIFIED"})

\* findFirst ... orderBy position asc: rows with equal positions come in any
\* order.
First(S) == {e \in S : \A f \in S : entries[e].position <= entries[f].position}

\* Variant: the prioritized entry also passes the called guests.
GoesBeforeEveryone(a, b, pri) ==
  \/ a = pri /\ b # pri
  \/ /\ b # pri
     /\ \/ entries[a].status = "NOTIFIED" /\ entries[b].status = "WAITING"
        \/ /\ entries[a].status = entries[b].status
           /\ entries[a].position < entries[b].position

\* [...notified, ...waiting] of a list ordered by position, with the
\* prioritized entry (if it is waiting) ahead of the other waiting.
GoesBefore(a, b, pri) ==
  LET sa == entries[a].status
      sb == entries[b].status
  IN \/ sa = "NOTIFIED" /\ sb = "WAITING"
     \/ sa = sb /\ sa = "WAITING" /\ a = pri /\ b # pri
     \/ /\ sa = sb /\ entries[a].position < entries[b].position
        /\ sa = "WAITING" => b # pri

Numberings(pri) ==
  {f \in [Active -> 1..Cardinality(Active)] :
     \A a, b \in Active :
       /\ a # b => f[a] # f[b]
       /\ GoesBefore(a, b, pri) => f[a] < f[b]}

\* Variant: only the waiting rows are renumbered.
AsPlanWaitingOnly(f) == [e \in Entries |-> IF e \in Waiting THEN f[e] ELSE 0]

AsPlan(f) == [e \in Entries |-> IF e \in Active THEN f[e] ELSE 0]

\* The reserved table that goes with an entry when it leaves, if any.
ReservedTable(e) ==
  IF /\ entries[e].table # NoTable
     /\ tables[entries[e].table] = "RESERVED"
  THEN entries[e].table ELSE NoTable

-----------------------------------------------------------------------------
(* Row changes *)

Called(row, t) == [row EXCEPT !.status = "NOTIFIED", !.deadline = "open",
                              !.expired = FALSE, !.table = t]
Cancelled(row) == [row EXCEPT !.status = "CANCELLED", !.table = NoTable,
                              !.deadline = "none"]
NoShow(row) == [row EXCEPT !.status = "NO_SHOW", !.table = NoTable,
                           !.deadline = "none", !.expired = TRUE]
Completed(row, t) == [row EXCEPT !.status = "COMPLETED", !.table = t,
                                 !.deadline = "none"]
Seated(row, t) ==
  IF QueueComplete THEN Completed(row, NoTable)
  ELSE [row EXCEPT !.status = "SEATED", !.table = t, !.deadline = "none"]

\* Variant: tableReadyExpiredAt is forgotten.
LapsedUnmarked(row) ==
  [row EXCEPT !.status = IF ManualRemove THEN @ ELSE "NO_SHOW", !.table = NoTable,
              !.deadline = "none"]

\* What the expiry sweep writes: in MANUAL_REMOVE venues the status stays.
Lapsed(row) ==
  IF ManualRemove
  THEN [row EXCEPT !.table = NoTable, !.deadline = "none", !.expired = TRUE]
  ELSE NoShow(row)

Freed(t) == IF t = NoTable THEN tables ELSE [tables EXCEPT ![t] = "FREE"]

-----------------------------------------------------------------------------
(* Handler control *)

At(w, p) == req[w].at = p
Begin(w, r) == w \in Clients /\ At(w, "idle") /\ req' = [req EXCEPT ![w] = r]
Goto(w, r) == req' = [req EXCEPT ![w] = r]

\* The handler returns: to the client, or to the loop of the poller's tick.
Finished(r) ==
  IF r.tick = "none" THEN Idle
  ELSE [Idle EXCEPT !.at = "tick", !.tick = r.tick, !.listed = r.listed,
                    !.held = r.held, !.updates = r.updates]

\* After the positions are written a table in hand is offered.
OfferNext(r) == IF r.t # NoTable THEN [r EXCEPT !.at = "advance.table"]
                                 ELSE Finished(r)

Resequence(r) == [r EXCEPT !.at = "reseq.read"]

-----------------------------------------------------------------------------
(* joinQueue *)

\* Variant: the position counts the waiting only.
JoinCountWaitingOnly(w, e) ==
  /\ entries[e].status = "ABSENT"
  /\ Cardinality(Active) < MaxQueueSize
  /\ Begin(w, [Idle EXCEPT !.at = "join.dup", !.e = e,
                           !.n = Cardinality(Waiting) + 1])
  /\ UNCHANGED <<entries, tables>>

\* The count of active entries admits the request and gives its position.
JoinCount(w, e) ==
  /\ entries[e].status = "ABSENT"
  /\ \A v \in Handlers : req[v].at \in {"join.dup", "join.create"} => req[v].e # e
  /\ Cardinality(Active) < MaxQueueSize
  /\ Begin(w, [Idle EXCEPT !.at = "join.dup", !.e = e,
                           !.n = Cardinality(Active) + 1])
  /\ UNCHANGED <<entries, tables>>

\* Variant: a called guest's phone is not looked for.
JoinDuplicateWaitingOnly(w) ==
  /\ At(w, "join.dup")
  /\ Goto(w, IF \E f \in Waiting : Phone[f] = Phone[req[w].e]
             THEN Idle ELSE [req[w] EXCEPT !.at = "join.create"])
  /\ UNCHANGED <<entries, tables>>

JoinDuplicate(w) ==
  /\ At(w, "join.dup")
  /\ Goto(w, IF \E f \in Active : Phone[f] = Phone[req[w].e]
             THEN Idle ELSE [req[w] EXCEPT !.at = "join.create"])
  /\ UNCHANGED <<entries, tables>>

JoinCreate(w) ==
  /\ At(w, "join.create")
  /\ entries' = [entries EXCEPT ![req[w].e] =
                   [status |-> "WAITING", position |-> req[w].n,
                    table |-> NoTable, deadline |-> "none", expired |-> FALSE]]
  /\ Goto(w, Idle)
  /\ UNCHANGED tables

(* notifyQueueEntry *)

NotifyRead(w, e) ==
  /\ ManualDispatch
  /\ entries[e].status = "WAITING"
  /\ Begin(w, [Idle EXCEPT !.at = "notify.first", !.e = e])
  /\ UNCHANGED <<entries, tables>>

\* Variant: any waiting guest may be called.
NotifyAnyone(w) ==
  /\ At(w, "notify.first")
  /\ Goto(w, [req[w] EXCEPT !.at = "notify.write"])
  /\ UNCHANGED <<entries, tables>>

NotifyFirst(w) ==
  /\ At(w, "notify.first")
  /\ \/ /\ req[w].e \in First(Waiting)
        /\ Goto(w, [req[w] EXCEPT !.at = "notify.write"])
     \/ /\ First(Waiting) # {req[w].e}
        /\ Goto(w, Idle)
  /\ UNCHANGED <<entries, tables>>

NotifyWrite(w) ==
  /\ At(w, "notify.write")
  /\ entries' = [entries EXCEPT ![req[w].e] = Called(@, @.table)]
  /\ Goto(w, Resequence(req[w]))
  /\ UNCHANGED tables

(* markQueueEntryNoShow *)

\* Variant: the status is not checked, only the lapsed window.
NoShowReadAnyStatus(w, e) ==
  /\ ManualRemove
  /\ entries[e].expired \/ entries[e].deadline = "passed"
  /\ Begin(w, [Idle EXCEPT !.at = "noshow.tx", !.e = e, !.t = ReservedTable(e)])
  /\ UNCHANGED <<entries, tables>>

NoShowRead(w, e) ==
  /\ ManualRemove
  /\ entries[e].status = "NOTIFIED"
  /\ entries[e].expired \/ entries[e].deadline = "passed"
  /\ Begin(w, [Idle EXCEPT !.at = "noshow.tx", !.e = e, !.t = ReservedTable(e)])
  /\ UNCHANGED <<entries, tables>>

NoShowTx(w) ==
  /\ At(w, "noshow.tx")
  /\ entries' = [entries EXCEPT ![req[w].e] = NoShow(@)]
  /\ tables' = Freed(req[w].t)
  /\ Goto(w, Resequence(req[w]))

(* reorderQueueEntry and prioritizeQueueEntry *)

ReorderRead(w, e, point) ==
  /\ ManualDispatch
  /\ entries[e].status = "WAITING"
  /\ point \in {"reorder.up", "reorder.down", "prioritize.read"}
  /\ Begin(w, [Idle EXCEPT !.at = point, !.e = e])
  /\ UNCHANGED <<entries, tables>>

\* The numbering f with the moving entry and its waiting neighbour swapped.
Swapped(f, e, neighbour) == [f EXCEPT ![e] = f[neighbour], ![neighbour] = f[e]]

IsNeighbour(f, e, g, point) ==
  /\ {e, g} \subseteq Waiting
  /\ IF point = "reorder.up" THEN f[g] + 1 = f[e] ELSE f[e] + 1 = f[g]

ReorderPlan(w) ==
  /\ req[w].at \in {"reorder.up", "reorder.down"}
  /\ \E f \in Numberings(NoEntry) :
       LET r == req[w]
           next == {g \in Waiting : IsNeighbour(f, r.e, g, r.at)}
       IN \/ /\ next = {}
             /\ Goto(w, Idle)
          \/ \E g \in next :
               Goto(w, [r EXCEPT !.at = "reseq.write",
                                 !.plan = AsPlan(Swapped(f, r.e, g))])
  /\ UNCHANGED <<entries, tables>>

(* resequenceActiveQueue and recompactQueuePositions *)

\* Only prioritizeQueueEntry passes an entry to put first.
ResequenceRead(w) ==
  /\ req[w].at \in {"reseq.read", "prioritize.read"}
  /\ \E f \in Numberings(IF At(w, "prioritize.read") THEN req[w].e ELSE NoEntry) :
       Goto(w, IF Active = {} THEN OfferNext(req[w])
               ELSE [req[w] EXCEPT !.at = "reseq.write", !.plan = AsPlan(f)])
  /\ UNCHANGED <<entries, tables>>

\* Promise.all of one update per row: the rows are written in any order.
ResequenceWrite(w) ==
  /\ At(w, "reseq.write")
  /\ \E e \in Entries :
       /\ req[w].plan[e] # 0
       /\ entries' = [entries EXCEPT ![e].position = req[w].plan[e]]
       /\ LET r == [req[w] EXCEPT !.plan[e] = 0]
          IN Goto(w, IF r.plan = NoPlan THEN OfferNext(r) ELSE r)
  /\ UNCHANGED tables

(* seatGuest *)

\* With discipline a called guest is seated at the table held for them and
\* nobody else is.
HostMaySeat(e, t) ==
  HostDiscipline =>
    /\ entries[e].table \in {NoTable, t}
    /\ \A f \in With({"NOTIFIED"}) \ {e} : entries[f].table # t

\* Where tables are not used the request's table is stored without a look.
SeatRead(w, e) ==
  /\ e \in Active
  /\ \E t \in Tables \cup {NoTable} :
       /\ UsesTables => t # NoTable /\ HostMaySeat(e, t)
       /\ Begin(w, [Idle EXCEPT !.at = IF UsesTables THEN "seat.table" ELSE "seat.tx",
                                !.e = e, !.t = t])
  /\ UNCHANGED <<entries, tables>>

\* Variant: the table's status is not checked.
SeatTableUnchecked(w) ==
  /\ At(w, "seat.table")
  /\ Goto(w, [req[w] EXCEPT !.at = "seat.tx"])
  /\ UNCHANGED <<entries, tables>>

SeatTable(w) ==
  /\ At(w, "seat.table")
  /\ Goto(w, IF tables[req[w].t] \in {"FREE", "RESERVED"}
             THEN [req[w] EXCEPT !.at = "seat.tx"] ELSE Idle)
  /\ UNCHANGED <<entries, tables>>

SeatTx(w) ==
  /\ At(w, "seat.tx")
  /\ entries' = [entries EXCEPT ![req[w].e] = Seated(@, req[w].t)]
  /\ tables' = IF ~UsesTables THEN tables
               ELSE [tables EXCEPT ![req[w].t] = "OCCUPIED"]
  /\ Goto(w, Resequence([req[w] EXCEPT !.t = NoTable]))

(* cancelQueueEntry, reached by staff and by leaveQueueEntry *)

CancelRead(w, e) ==
  /\ e \in Active
  /\ Begin(w, [Idle EXCEPT !.at = "cancel.tx", !.e = e, !.t = entries[e].table])
  /\ UNCHANGED <<entries, tables>>

\* The table of the row read first is looked up again inside the transaction.
\* A table released here is not offered to the next guest.
CancelTx(w) ==
  /\ At(w, "cancel.tx")
  /\ entries' = [entries EXCEPT ![req[w].e] = Cancelled(@)]
  /\ LET t == req[w].t
     IN tables' = IF t # NoTable /\ tables[t] = "RESERVED" THEN Freed(t) ELSE tables
  /\ Goto(w, Resequence([req[w] EXCEPT !.t = NoTable]))

(* completeQueueEntry, from the checkout button and from final payments *)

\* Variant: a closed entry is completed again.
CompleteReadClosed(w, e) ==
  /\ entries[e].status # "ABSENT"
  /\ Begin(w, [Idle EXCEPT !.at = "complete.tx", !.e = e,
                           !.t = IF UsesTables THEN entries[e].table ELSE NoTable])
  /\ UNCHANGED <<entries, tables>>

CompleteRead(w, e) ==
  /\ entries[e].status \in {"WAITING", "NOTIFIED", "SEATED"}
  /\ Begin(w, [Idle EXCEPT !.at = "complete.tx", !.e = e,
                           !.t = IF UsesTables THEN entries[e].table ELSE NoTable])
  /\ UNCHANGED <<entries, tables>>

CompleteTx(w) ==
  /\ At(w, "complete.tx")
  /\ entries' = [entries EXCEPT ![req[w].e] = Completed(@, req[w].t)]
  /\ tables' = IF req[w].t = NoTable THEN tables
               ELSE [tables EXCEPT ![req[w].t] = "CLEARING"]
  /\ Goto(w, Resequence([req[w] EXCEPT !.t = NoTable]))

(* clearActiveQueueEntries and clearAllQueueEntries *)

ClearRead(w, point) ==
  LET read == IF point = "clearActive.tx" THEN Active
              ELSE With({"WAITING", "NOTIFIED", "SEATED"})
  IN /\ point \in {"clearActive.tx", "clearAll.tx"}
     /\ read # {}
     /\ Begin(w, [Idle EXCEPT !.at = point, !.listed = read,
                    !.held = [e \in Entries |-> IF e \in read
                                THEN entries[e].table ELSE NoTable]])
     /\ UNCHANGED <<entries, tables>>

\* Neither of the two transactions is followed by a resequencing.
ClearActiveTx(w) ==
  /\ At(w, "clearActive.tx")
  /\ entries' = [e \in Entries |-> IF e \in Active \cap req[w].listed
                                   THEN Cancelled(entries[e]) ELSE entries[e]]
  /\ tables' = [t \in Tables |->
                  IF /\ tables[t] = "RESERVED"
                     /\ \E e \in req[w].listed : req[w].held[e] = t
                  THEN "FREE" ELSE tables[t]]
  /\ Goto(w, Idle)

ClearAllTx(w) ==
  /\ At(w, "clearAll.tx")
  /\ entries' = [e \in Entries |->
       CASE e \in Active -> Cancelled(entries[e])
         [] entries[e].status = "SEATED" ->
              Completed(entries[e], IF UsesTables THEN entries[e].table ELSE NoTable)
         [] OTHER -> entries[e]]
  /\ tables' = [t \in Tables |->
                  IF UsesTables /\ \E e \in req[w].listed : req[w].held[e] = t
                  THEN "FREE" ELSE tables[t]]
  /\ Goto(w, Idle)

-----------------------------------------------------------------------------
(* updateTableStatus and resetAllTables *)

StaffTable(w, t, to) ==
  /\ UsesTables
  /\ <<tables[t], to>> \in StaffMoves
  /\ HostDiscipline => \A f \in With({"NOTIFIED"}) : entries[f].table # t
  /\ Begin(w, [Idle EXCEPT !.at = "table.tx", !.t = t, !.to = to])
  /\ UNCHANGED <<entries, tables>>

TableTx(w) ==
  LET t == req[w].t
      to == req[w].to
      closesSeated == to = "CLEARING" \/ (to = "FREE" /\ ~ManualDispatch)
      r == [req[w] EXCEPT !.to = "none", !.t = IF to = "FREE" THEN t ELSE NoTable]
  IN /\ At(w, "table.tx")
     /\ tables' = [tables EXCEPT ![t] = to]
     /\ entries' = [e \in Entries |->
          IF closesSeated /\ entries[e].status = "SEATED" /\ entries[e].table = t
          THEN Completed(entries[e], t) ELSE entries[e]]
     /\ Goto(w, IF closesSeated THEN Resequence(r) ELSE OfferNext(r))

ResetRead(w) ==
  /\ UsesTables
  /\ \E t \in Tables : tables[t] # "FREE"
  /\ HostDiscipline => \A e \in With({"NOTIFIED", "SEATED"}) : entries[e].table = NoTable
  /\ Begin(w, [Idle EXCEPT !.at = "reset.tx"])
  /\ UNCHANGED <<entries, tables>>

\* The updateMany writes every table of the venue, not only the rows it read.
ResetAllTables(w) ==
  /\ At(w, "reset.tx")
  /\ tables' = [t \in Tables |-> "FREE"]
  /\ Goto(w, Idle)
  /\ UNCHANGED entries

(* tryAdvanceQueue *)

AdvanceTable(w) ==
  /\ At(w, "advance.table")
  /\ Goto(w, IF tables[req[w].t] = "FREE" /\ UsesTables /\ ~ManualDispatch
             THEN [req[w] EXCEPT !.at = "advance.entry"] ELSE Finished(req[w]))
  /\ UNCHANGED <<entries, tables>>

Fitting(t) == {e \in Waiting : PartySize[e] <= Capacity[t]}

\* Variant: no orderBy, any fitting guest is called.
AdvanceAnyEntry(w) ==
  /\ At(w, "advance.entry")
  /\ \/ \E e \in Fitting(req[w].t) :
          Goto(w, [req[w] EXCEPT !.at = "advance.tx", !.e = e])
     \/ /\ Fitting(req[w].t) = {}
        /\ Goto(w, Finished(req[w]))
  /\ UNCHANGED <<entries, tables>>

AdvanceEntry(w) ==
  /\ At(w, "advance.entry")
  /\ \/ \E e \in First(Fitting(req[w].t)) :
          Goto(w, [req[w] EXCEPT !.at = "advance.tx", !.e = e])
     \/ /\ Fitting(req[w].t) = {}
        /\ Goto(w, Finished(req[w]))
  /\ UNCHANGED <<entries, tables>>

\* Variant: the table is not marked RESERVED.
AdvanceTxUnreserved(w) ==
  /\ At(w, "advance.tx")
  /\ entries' = [entries EXCEPT ![req[w].e] = Called(@, req[w].t)]
  /\ Goto(w, Finished(req[w]))
  /\ UNCHANGED tables

AdvanceTx(w) ==
  /\ At(w, "advance.tx")
  /\ tables' = [tables EXCEPT ![req[w].t] = "RESERVED"]
  /\ entries' = [entries EXCEPT ![req[w].e] = Called(@, req[w].t)]
  /\ Goto(w, Finished(req[w]))

-----------------------------------------------------------------------------
(* The poller's tick: sweepExpiredTableReadyEntries, then pollVenue *)

\* Variant: the comparison with the clock is the wrong way round.
LapsingReversed == {e \in With({"NOTIFIED"}) : entries[e].deadline = "open"}

Lapsing == {e \in With({"NOTIFIED"}) : entries[e].deadline = "passed"}

TickStart(w) ==
  /\ w \in Tickers
  /\ At(w, "idle")
  /\ Goto(w, [Idle EXCEPT !.at = "tick", !.tick = "sweep", !.listed = Lapsing,
                !.held = [e \in Entries |-> IF e \in Lapsing
                            THEN ReservedTable(e) ELSE NoTable]])
  /\ UNCHANGED <<entries, tables>>

\* One iteration of the sweep, on the rows the query returned.
SweepEntry(w, e) ==
  /\ At(w, "tick") /\ req[w].tick = "sweep"
  /\ e \in req[w].listed
  /\ entries' = [entries EXCEPT ![e] = Lapsed(@)]
  /\ tables' = Freed(req[w].held[e])
  /\ LET r == [req[w] EXCEPT !.listed = @ \ {e}, !.held[e] = NoTable,
                             !.t = req[w].held[e]]
     IN Goto(w, IF ManualRemove THEN OfferNext(r) ELSE Resequence(r))

\* What the table system of the venue reports; a MANUAL venue instead frees
\* the tables whose CLEARING event is old enough.
External == {"FREE", "OCCUPIED", "CLEARING"}

PollRead(w) ==
  /\ At(w, "tick") /\ req[w].tick = "sweep" /\ req[w].listed = {}
  /\ \/ /\ ~UsesTables
        /\ Goto(w, Idle)
     \/ /\ UsesTables
        /\ \E S \in SUBSET {t \in Tables : tables[t] # "RESERVED"} :
             \E reported \in [S -> IF ExternalTms THEN External ELSE {"FREE"}] :
               /\ \A t \in S : IF ExternalTms THEN reported[t] # tables[t]
                                              ELSE tables[t] = "CLEARING"
               /\ Goto(w, [Idle EXCEPT !.at = "tick", !.tick = "poll",
                             !.updates = [t \in Tables |-> IF t \in S
                                            THEN reported[t] ELSE "none"]])
  /\ UNCHANGED <<entries, tables>>

\* Variant: the target is read after it was cleared.
PollTableCleared(w, t) ==
  /\ At(w, "tick") /\ req[w].tick = "poll"
  /\ req[w].updates[t] # "none"
  /\ Goto(w, [req[w] EXCEPT !.at = "table.tx", !.t = t, !.updates[t] = "none",
                            !.to = "none"])
  /\ UNCHANGED <<entries, tables>>

PollTable(w, t) ==
  /\ At(w, "tick") /\ req[w].tick = "poll"
  /\ req[w].updates[t] # "none"
  /\ Goto(w, [req[w] EXCEPT !.at = "table.tx", !.t = t, !.to = req[w].updates[t],
                            !.updates[t] = "none"])
  /\ UNCHANGED <<entries, tables>>

TickEnd(w) ==
  /\ At(w, "tick") /\ req[w].tick = "poll"
  /\ \A t \in Tables : req[w].updates[t] = "none"
  /\ Goto(w, Idle)
  /\ UNCHANGED <<entries, tables>>

-----------------------------------------------------------------------------
(* Surroundings *)

WindowLapses(e) ==
  /\ entries[e].deadline = "open"
  /\ entries' = [entries EXCEPT ![e].deadline = "passed"]
  /\ UNCHANGED <<tables, req>>

\* An exception ends the request, or the whole tick.  Where one update of a
\* resequencing fails, Promise.all leaves the others running: any of them may be
\* written before this step, and none lands after it (an overlap left out).
Fail(w) ==
  /\ MayFail
  /\ ~At(w, "idle")
  /\ Goto(w, Idle)
  /\ UNCHANGED <<entries, tables>>

NewRequest(w) ==
  \/ \E e \in Entries : \/ JoinCount(w, e) \/ NotifyRead(w, e) \/ NoShowRead(w, e)
                        \/ SeatRead(w, e) \/ CancelRead(w, e) \/ CompleteRead(w, e)
                        \/ \E point \in Points : ReorderRead(w, e, point)
  \/ \E point \in Points : ClearRead(w, point)
  \/ \E t \in Tables, to \in TableStatus : StaffTable(w, t, to)
  \/ ResetRead(w)

Step(w) ==
  \/ JoinDuplicate(w) \/ JoinCreate(w) \/ NotifyFirst(w) \/ NotifyWrite(w)
  \/ NoShowTx(w) \/ ReorderPlan(w) \/ ResequenceRead(w) \/ ResequenceWrite(w)
  \/ SeatTable(w) \/ SeatTx(w) \/ CancelTx(w) \/ CompleteTx(w)
  \/ ClearActiveTx(w) \/ ClearAllTx(w) \/ TableTx(w) \/ ResetAllTables(w)
  \/ AdvanceTable(w) \/ AdvanceEntry(w) \/ AdvanceTx(w)
  \/ \E e \in Entries : SweepEntry(w, e)
  \/ PollRead(w) \/ (\E t \in Tables : PollTable(w, t)) \/ TickEnd(w)

Next == \/ \E w \in Handlers : NewRequest(w) \/ Step(w) \/ TickStart(w) \/ Fail(w)
        \/ \E e \in Entries : WindowLapses(e)

Spec == Init /\ [][Next]_vars

\* setInterval keeps starting ticks and the event loop keeps running what was
\* started; nothing obliges guests or staff to send requests.
FairSpec ==
  Spec /\ \A w \in Handlers : WF_vars(Step(w)) /\ (w \in Tickers => WF_vars(TickStart(w)))

-----------------------------------------------------------------------------
(* Properties *)

AtRest == \A w \in Handlers : At(w, "idle")

GoodRow(row) ==
  /\ row.status \in {"ABSENT", "WAITING"} =>
       row.table = NoTable /\ row.deadline = "none" /\ ~row.expired
  /\ row.deadline # "none" => row.status = "NOTIFIED"
  /\ row.status = "NOTIFIED" => row.deadline # "none" \/ (ManualRemove /\ row.expired)
  /\ row.status = "NO_SHOW" => row.expired
  /\ row.status = "CANCELLED" => row.table = NoTable
  /\ row.status = "NOTIFIED" /\ ~row.expired /\ ~ManualDispatch => row.table # NoTable
  /\ row.status = "SEATED" /\ UsesTables /\ ~ManualRemove => row.table # NoTable

\* What the columns of a row say about its status, whatever handlers overlap
\* and wherever they stop: a response window belongs to a called guest, a
\* called guest can always be timed out (by the sweep, or by staff once the
\* window lapsed), a no-show had lapsed, a waiting or cancelled guest holds no
\* table, an automatically called guest has one until the window lapses, and a
\* seated guest keeps theirs where the sweep closes what it touches.
RowShape == \A e \in Entries : GoodRow(entries[e])

\* The reservation made by tryAdvanceQueue is for one guest: a called guest's
\* table stays RESERVED and no other called or seated guest holds it.
CalledHoldsReservation ==
  \A e \in With({"NOTIFIED"}) :
    LET t == entries[e].table
    IN t # NoTable =>
         /\ tables[t] = "RESERVED"
         /\ \A f \in With({"NOTIFIED", "SEATED"}) \ {e} : entries[f].table # t

\* No table is on offer to two called guests at once.
OneOfferPerTable ==
  \A e, f \in With({"NOTIFIED"}) :
    e # f /\ entries[e].table # NoTable => entries[e].table # entries[f].table

\* A seated guest's table is OCCUPIED and theirs alone until the guest is
\* completed: no release, poll or offer takes it away.
SeatedHoldsTable ==
  \A e \in With({"SEATED"}) :
    LET t == entries[e].table
    IN t # NoTable =>
         /\ tables[t] = "OCCUPIED"
         /\ \A f \in With({"SEATED"}) \ {e} : entries[f].table # t

\* joinQueue: a phone has at most one active entry.
NoDuplicateGuest ==
  \A e, f \in Active : e # f => Phone[e] # Phone[f]

\* Guests are called in queue order: nobody is called while a waiting guest
\* with a smaller position could have been (in an automatic venue: one whose
\* party fits the offered table).
CallsInOrder ==
  [][\A e, f \in Waiting :
       entries'[e].status = "NOTIFIED" /\ entries[f].position < entries[e].position =>
         ~ManualDispatch /\ PartySize[f] > Capacity[entries'[e].table]]_vars

\* Between requests the active positions are exactly 1..n, whatever mix of
\* joins, calls, moves, departures and bulk clears came before.
Compact ==
  /\ {entries[e].position : e \in Active} = 1..Cardinality(Active)

PositionsAtRest == AtRest => Compact

\* In a manual venue the called guests are listed ahead of the waiting ones.
CalledAheadAtRest ==
  AtRest /\ ManualDispatch =>
    \A e \in With({"NOTIFIED"}), f \in Waiting :
      entries[e].position < entries[f].position

\* A resequencing that runs to its end repairs the numbering, also one left
\* broken by a handler that stopped half way through its own.
ResequenceHeals ==
  [][\A w \in Handlers :
       /\ At(w, "reseq.write")
       /\ entries' # entries
       /\ \A e \in Entries : req'[w].plan[e] = 0
       => Compact']_vars

\* A guest becomes a no-show only from being called: the sweep does not close
\* the entry of somebody who was seated or left in the meantime.
NoShowOnlyIfCalled ==
  [][\A e \in Entries :
       entries'[e].status = "NO_SHOW" /\ entries[e].status # "NO_SHOW" =>
         entries[e].status = "NOTIFIED"]_vars

\* What the service promises of one entry, and that the handlers keep it.
Lifecycle == INSTANCE EntryLifecycle WITH status <- [e \in Entries |-> entries[e].status]
RefinesLifecycle == Lifecycle!Spec

\* A called guest whose window has lapsed does not stay so: some tick, or
\* somebody before it, deals with the entry.
LapsedIsHandled ==
  \A e \in Entries : entries[e].deadline = "passed" ~> entries[e].deadline # "passed"

=============================================================================
