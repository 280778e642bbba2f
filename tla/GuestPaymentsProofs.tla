------------------------- MODULE GuestPaymentsProofs -------------------------
(***************************************************************************)
(* Proofs about GuestPayments, for every number of orders, payments,       *)
(* handlers and handlers that are cut short.  PaymentsInv (types, and that *)
(* what a handler has in hand exists) holds always.  MoneyInv (rows,       *)
(* notices and handlers agree with the gateway) holds where notices come   *)
(* in time, also when handlers overlap.  SerialInv holds of the one        *)
(* handler that serves everything.                                         *)
(***************************************************************************)
EXTENDS GuestPayments, FiniteSetTheorems, TLAPS

OrderMakers == {"pre.list", "pre.replace", "pre.build", "table.build"}
PaymentMakers == {"final.entry", "final.orders", "pay.captured", "pay.pending",
                  "pay.create", "offline.bill", "offline.orders", "offline.existing",
                  "offline.create"}
InitiatePoints == {"pay.captured", "pay.pending", "pay.create"}
CapturePoints == {"capture.update", "capture.credit"}
RefundPoints == {"refund.gateway", "refund.mark"}
OrderPoints == InitiatePoints \cup {"offline.existing", "offline.create", "invoice.create"}
HookPoints == CapturePoints \cup {"complete.read", "complete.tx", "invoice.read",
                                  "invoice.create"}

\* What handler w may have in hand exists, and only clients do more than
\* capture.
HandOK(w, r) ==
  /\ r.at \in CapturePoints \cup RefundPoints => r.p \in DOMAIN payments
  /\ r.at \in OrderPoints => r.o \in DOMAIN orders
  /\ r.at \in {"final.entry", "final.orders"} => r.type = "FINAL"
  /\ r.then = "cancel.tx" => r.at \in RefundPoints \cup {"cancel.deposit", "cancel.tx"}
  /\ w \notin Clients /\ r.at # "idle" => r.at \in HookPoints /\ r.p \in DOMAIN payments

\* There is room for the rows that the handlers at these points will create.
Makers(points) == {w \in Handlers : req[w].at \in points}
Fits(points, rows, max) == IsFiniteSet(Makers(points)) /\ rows + Making(points) <= max

PaymentsInv ==
  /\ TypeOK
  /\ \A p \in DOMAIN payments : payments[p].order \in DOMAIN orders
  /\ \A n \in notices : n.p \in DOMAIN payments
  /\ \A w \in Handlers : HandOK(w, req[w])
  /\ Fits(OrderMakers, Len(orders), MaxOrders)
  /\ Fits(PaymentMakers, Len(payments), MaxPayments)

-----------------------------------------------------------------------------
(* Numbers and sets *)

Below == {ss \in Nat \X Nat : ss[1] < ss[2]}

\* A set of numbers that is not empty has a least one.
LEMMA Least ==
  ASSUME NEW S \in SUBSET Nat, S # {}
  PROVE  \E m \in S : \A y \in S : m <= y
<1>1. IsWellFoundedOn(Below, Nat)
  <2>1. OpToRel(<, Nat) = Below
    BY DEF OpToRel, Below
  <2>2. QED
    BY <2>1, NatLessThanWellFounded
<1>2. S \subseteq Nat
  OBVIOUS
<1>3. PICK m \in S : \A y \in S : ~(<<y, m>> \in Below)
  BY ONLY <1>1, <1>2, WFMin, S # {}, Zenon
<1>4. \A y \in S : ~(y < m)
  BY <1>2, <1>3 DEF Below
<1>5. QED
  BY <1>2, <1>4

\* Rows have a first and a last.
LEMMA Extremes ==
  ASSUME NEW n \in Nat, NEW S \in SUBSET (1..n), S # {}
  PROVE  Max(S) \in S /\ Min(S) \in S
<1>1. \E m \in S : \A y \in S : m <= y
  BY Least
<1>2. \E m \in S : \A y \in S : y <= m
  <2> DEFINE T == {k \in Nat : \A y \in S : y <= k}
  <2>1. n \in T /\ T \in SUBSET Nat
    OBVIOUS
  <2>2. PICK m \in T : \A k \in T : m <= k
    BY <2>1, Least
  <2>3. m \in S
    <3>1. SUFFICES ASSUME m \notin S PROVE FALSE
      OBVIOUS
    <3>2. m \in Nat /\ \A y \in S : y \in Nat /\ y >= 1 /\ y < m
      BY <2>2, <3>1
    <3>3. PICK y \in S : TRUE
      OBVIOUS
    <3>4. m >= 2
      BY <3>2, <3>3
    <3>5. m - 1 \in Nat /\ \A z \in S : z <= m - 1
      BY <3>2, <3>4
    <3>6. m - 1 \in T
      BY <3>5
    <3>7. m <= m - 1
      BY <2>2, <3>6
    <3>8. QED
      BY <3>2, <3>7
  <2>4. QED
    BY <2>2, <2>3
<1>3. QED
  BY <1>1, <1>2 DEF Max, Min

LEMMA Products == \A m, n \in Nat : m * n \in Nat
  BY Z3

LEMMA DepositTyped == DepositAmount \in Nat
<1>1. OrderTotal * DepositPercent \in Nat
  BY MoneyAssumption, Products
<1>2. \A x \in Nat : (x + 50) \div 100 \in Nat
  BY Z3
<1>3. QED
  BY <1>1, <1>2 DEF DepositAmount

\* What a move of one handler does to the number of handlers at some points.
LEMMA MakersMove ==
  ASSUME req \in [Handlers -> Request], NEW w \in Handlers, NEW r,
         req' = [req EXCEPT ![w] = r], NEW P, IsFiniteSet(Makers(P))
  PROVE  /\ IsFiniteSet(Makers(P)') /\ Making(P) \in Nat /\ Making(P)' \in Nat
         /\ Making(P)' = IF r.at \in P
                         THEN IF req[w].at \in P THEN Making(P) ELSE Making(P) + 1
                         ELSE IF req[w].at \in P THEN Making(P) - 1 ELSE Making(P)
<1>1. Making(P) = Cardinality(Makers(P)) /\ Making(P)' = Cardinality(Makers(P)')
  BY DEF Making, Makers
<1>2. Makers(P)' = IF r.at \in P THEN Makers(P) \cup {w} ELSE Makers(P) \ {w}
  BY DEF Makers
<1>3. w \in Makers(P) <=> req[w].at \in P
  BY DEF Makers
<1>4. Making(P) \in Nat
  BY <1>1, FS_CardinalityType
<1>5. IsFiniteSet(Makers(P)')
  BY <1>2, FS_AddElement, FS_RemoveElement
<1>6. Making(P)' \in Nat
  BY <1>1, <1>5, FS_CardinalityType
<1>7. CASE r.at \in P
  BY <1>7, <1>1, <1>2, <1>3, <1>4, <1>5, <1>6, FS_AddElement
<1>8. CASE r.at \notin P
  BY <1>8, <1>1, <1>2, <1>3, <1>4, <1>5, <1>6, FS_RemoveElement
<1>9. QED
  BY <1>7, <1>8

\* No room is taken but by a handler that asked for it or just made a row.
LEMMA FitsKept ==
  ASSUME req \in [Handlers -> Request], NEW w \in Handlers, NEW r,
         req' = [req EXCEPT ![w] = r], NEW P, NEW max \in Nat, NEW n \in Nat, NEW m \in Nat,
         IsFiniteSet(Makers(P)), n + Making(P) <= max,
         \/ m = n /\ (r.at \in P => req[w].at \in P)
         \/ m = n /\ n + Making(P) < max
         \/ m = n + 1 /\ req[w].at \in P /\ r.at \notin P
  PROVE  IsFiniteSet(Makers(P)') /\ m + Making(P)' <= max
<1>1. /\ IsFiniteSet(Makers(P)') /\ Making(P) \in Nat /\ Making(P)' \in Nat
      /\ Making(P)' = IF r.at \in P
                      THEN IF req[w].at \in P THEN Making(P) ELSE Making(P) + 1
                      ELSE IF req[w].at \in P THEN Making(P) - 1 ELSE Making(P)
  BY MakersMove
<1>2. QED
  BY <1>1

-----------------------------------------------------------------------------
(* Money, where notices come in time *)

\* Nothing more will be heard of payment p.
Heard(p) ==
  /\ \A n \in notices : n.p # p
  /\ \A v \in Handlers : req[v].at \in CapturePoints => req[v].p # p

Refundable(p) ==
  payments[p].type = "DEPOSIT" /\ payments[p].status \in {"CAPTURED", "REFUNDED"} /\ Heard(p)

RowMoney(p) ==
  /\ payments[p].status \in {"CAPTURED", "REFUNDED"} => payments[p].gateway # "open"
  /\ payments[p].status = "REFUNDED" => payments[p].gateway = "refunded"
  /\ payments[p].gateway = "refunded" => Refundable(p)
  /\ payments[p].type = "DEPOSIT" =>
       payments[p].gateway # "none" /\ payments[p].amount = DepositAmount

NoticeMoney(n) ==
  payments[n.p].gateway = IF n.kind = "payment.failed" THEN "open" ELSE "paid"

\* What is in hand agrees with the gateway.
MoneyHand(w, r) ==
  /\ r.at \in CapturePoints => payments[r.p].gateway = "paid"
  /\ r.at = "capture.credit" =>
       payments[r.p].type = "DEPOSIT" /\ payments[r.p].status = "CAPTURED"
  /\ r.at \in RefundPoints => Refundable(r.p)
  /\ r.at = "refund.mark" => payments[r.p].gateway = "refunded"
  /\ w \notin Clients /\ r.at # "idle" =>
       /\ payments[r.p].gateway = "paid"
       /\ r.at \in CapturePoints \/ payments[r.p].type = "FINAL"
  /\ r.at \in InitiatePoints /\ r.type = "DEPOSIT" => r.n = DepositAmount

OneCredit ==
  \A v, w \in Handlers :
    At(v, "capture.credit") /\ At(w, "capture.credit") /\ req[v].p = req[w].p => v = w

\* Returned by the gateway and never to be marked so.
Unmarked ==
  {p \in DOMAIN payments :
     /\ payments[p].gateway = "refunded" /\ payments[p].status # "REFUNDED"
     /\ \A w \in Handlers : At(w, "refund.mark") => req[w].p # p}

\* Captured, and credited unless a handler was cut short.
Due == {p \in PaymentsOf("DEPOSIT", {"CAPTURED", "REFUNDED"}) :
          \A w \in Handlers : At(w, "capture.credit") => req[w].p # p}

Credited ==
  \E k \in Nat : /\ entry.depositPaid = k * DepositAmount
                 /\ k <= Cardinality(Due) /\ Cardinality(Due) <= k + stops

MoneyInv ==
  /\ \A p \in DOMAIN payments : RowMoney(p)
  /\ \A n \in notices : NoticeMoney(n)
  /\ \A w \in Handlers : MoneyHand(w, req[w])
  /\ OneCredit
  /\ Cardinality(Unmarked) <= stops
  /\ Credited

-----------------------------------------------------------------------------
(* One handler *)

\* What the handler has read is still so.
StillTrue(r) ==
  /\ r.at \in {"pre.list", "pre.replace", "pre.build"} => entry.status = "QUEUED"
  /\ r.at = "table.build" => entry.status = "SEATED"
  /\ r.at \in {"offline.bill", "offline.orders", "offline.existing", "offline.create"} =>
       entry.status = "SEATED" /\ r.then = "invoice.read"
  /\ r.at \in {"capture.update", "complete.read", "complete.tx"} => ~Closed
  /\ r.at = "complete.read" => r.then = "invoice.read"
  /\ r.at = "complete.tx" => r.then \in {"idle", "invoice.read"}
  /\ r.at \in {"invoice.read", "invoice.create"} => entry.status = "COMPLETED"
  /\ r.at \in {"cancel.deposit", "cancel.tx"} => r.then = "cancel.tx" /\ entry.status = "QUEUED"
  /\ r.at \in RefundPoints =>
       r.then = "idle" \/ (r.then = "cancel.tx" /\ entry.status = "QUEUED")

FinalPayments == PaymentsOf("FINAL", {"CAPTURED"})

\* A final payment that no handler cut short explains closes the entry, or its
\* handler is about to.
FinalOK(r) ==
  Cardinality(FinalPayments) > stops =>
    /\ Cardinality(FinalPayments) = stops + 1
    /\ \/ r.at \in {"complete.read", "complete.tx"} /\ r.then = "invoice.read"
       \/ /\ entry.status = "COMPLETED"
          /\ Billable = {} \/ invoices # {} \/ r.at \in {"invoice.read", "invoice.create"}

\* The deposit went back, or there is none to return.
Returned ==
  \/ \E p \in DOMAIN payments : payments[p].gateway = "refunded"
  \/ FinalPayments # {}
  \/ \A p \in PaymentsOf("DEPOSIT", {"CAPTURED"}) :
       orders[payments[p].order].status = "CANCELLED"

CancelOK(r) == entry.status = "CANCELLED" \/ r.at = "cancel.tx" => Returned

SerialInv(w) == StillTrue(req[w]) /\ FinalOK(req[w])

-----------------------------------------------------------------------------
(* Types *)

\* Room for a row: as before, asked for, or used.
OrderFit(w, r) ==
  \/ Len(orders') = Len(orders) /\ (r.at \in OrderMakers => req[w].at \in OrderMakers)
  \/ Len(orders') = Len(orders) /\ RoomForOrder
  \/ Len(orders') = Len(orders) + 1 /\ req[w].at \in OrderMakers /\ r.at \notin OrderMakers
PaymentFit(w, r) ==
  \/ Len(payments') = Len(payments) /\ (r.at \in PaymentMakers => req[w].at \in PaymentMakers)
  \/ Len(payments') = Len(payments) /\ RoomForPayment
  \/ /\ Len(payments') = Len(payments) + 1
     /\ req[w].at \in PaymentMakers /\ r.at \notin PaymentMakers

\* Rows are kept, and what is new refers to rows that exist.
RowsGrow ==
  /\ entry' \in EntryRow /\ stops' \in 0..MaxStops
  /\ orders' \in Seq(OrderRow) /\ payments' \in Seq(PaymentRow)
  /\ DOMAIN orders \subseteq DOMAIN orders' /\ DOMAIN payments \subseteq DOMAIN payments'
  /\ \A p \in DOMAIN payments' : payments'[p].order \in DOMAIN orders'
  /\ invoices' \subseteq DOMAIN orders'
  /\ notices' \subseteq Notice /\ \A n \in notices' : n.p \in DOMAIN payments'

LEMMA BoundsTyped == MaxOrders \in Nat /\ MaxPayments \in Nat /\ MaxStops \in Nat
  BY BoundAssumption

LEMMA TypesKept ==
  ASSUME PaymentsInv, NEW w \in Handlers, NEW r \in Request, req' = [req EXCEPT ![w] = r],
         RowsGrow, HandOK(w, r)', OrderFit(w, r), PaymentFit(w, r)
  PROVE  PaymentsInv'
<1>1. req \in [Handlers -> Request] /\ orders \in Seq(OrderRow) /\ payments \in Seq(PaymentRow)
  BY DEF PaymentsInv, TypeOK
<1>2. /\ Len(orders) \in Nat /\ Len(orders') \in Nat
      /\ Len(payments) \in Nat /\ Len(payments') \in Nat
  BY <1>1 DEF RowsGrow
<1>3. /\ IsFiniteSet(Makers(OrderMakers)') /\ Len(orders') + Making(OrderMakers)' <= MaxOrders
  <2>1. IsFiniteSet(Makers(OrderMakers)) /\ Len(orders) + Making(OrderMakers) <= MaxOrders
    BY DEF PaymentsInv, Fits
  <2>2. \/ Len(orders') = Len(orders) /\ (r.at \in OrderMakers => req[w].at \in OrderMakers)
        \/ Len(orders') = Len(orders) /\ Len(orders) + Making(OrderMakers) < MaxOrders
        \/ Len(orders') = Len(orders) + 1 /\ req[w].at \in OrderMakers /\ r.at \notin OrderMakers
    BY DEF OrderFit, RoomForOrder, OrderMakers
  <2>3. QED
    BY <1>1, <1>2, <2>1, <2>2, BoundsTyped, FitsKept
<1>4. /\ IsFiniteSet(Makers(PaymentMakers)')
      /\ Len(payments') + Making(PaymentMakers)' <= MaxPayments
  <2>1. /\ IsFiniteSet(Makers(PaymentMakers))
        /\ Len(payments) + Making(PaymentMakers) <= MaxPayments
    BY DEF PaymentsInv, Fits
  <2>2. \/ Len(payments') = Len(payments) /\ (r.at \in PaymentMakers => req[w].at \in PaymentMakers)
        \/ Len(payments') = Len(payments) /\ Len(payments) + Making(PaymentMakers) < MaxPayments
        \/ /\ Len(payments') = Len(payments) + 1
           /\ req[w].at \in PaymentMakers /\ r.at \notin PaymentMakers
    BY DEF PaymentFit, RoomForPayment, PaymentMakers
  <2>3. QED
    BY <1>1, <1>2, <2>1, <2>2, BoundsTyped, FitsKept
<1>5. Fits(OrderMakers, Len(orders), MaxOrders)' /\ Fits(PaymentMakers, Len(payments), MaxPayments)'
  BY <1>3, <1>4 DEF Fits, OrderMakers, PaymentMakers
<1>6. Len(orders') <= MaxOrders /\ Len(payments') <= MaxPayments
  <2>1. Making(OrderMakers)' \in Nat /\ Making(PaymentMakers)' \in Nat
    BY <1>3, <1>4, FS_CardinalityType DEF Making, Makers
  <2>2. QED
    BY <2>1, <1>2, <1>3, <1>4, BoundsTyped
<1>7. TypeOK'
  BY <1>1, <1>6 DEF TypeOK, RowsGrow
<1>8. ASSUME NEW v \in Handlers PROVE HandOK(v, req[v])'
  <2>1. CASE v = w
    BY <2>1, <1>1 DEF HandOK
  <2>2. CASE v # w
    <3>1. req'[v] = req[v] /\ HandOK(v, req[v])
      BY <2>2, <1>1 DEF PaymentsInv
    <3>2. QED
      BY <3>1 DEF HandOK, RowsGrow
  <2>3. QED
    BY <2>1, <2>2
<1>9. QED
  BY <1>5, <1>7, <1>8 DEF PaymentsInv, RowsGrow

-----------------------------------------------------------------------------
(* Steps that only read *)

\* What w puts in hand as to money, when it writes nothing.
MoneyReads(w, r) ==
  /\ MoneyHand(w, r)
  /\ req[w].at \notin {"capture.credit", "refund.mark"}
  /\ r.at \notin {"capture.credit", "refund.mark"}
  /\ r.at = "capture.update" => payments[r.p].status \notin {"CAPTURED", "REFUNDED"}

\* What w puts in hand, by all three invariants.
Grasps(w, r) ==
  /\ HandOK(w, r)
  /\ r.at \in OrderMakers => req[w].at \in OrderMakers \/ RoomForOrder
  /\ r.at \in PaymentMakers => req[w].at \in PaymentMakers \/ RoomForPayment
  /\ ~LateNotices /\ MoneyInv => MoneyReads(w, r)
  /\ SerialInv(w) => StillTrue(r) /\ FinalOK(r)
  /\ ~LateNotices /\ ~RefundMayFail /\ MoneyInv /\ SerialInv(w) =>
       (r.at = "cancel.tx" => Returned)

Reads(w, r) ==
  /\ req' = [req EXCEPT ![w] = r] /\ UNCHANGED <<entry, orders, payments, invoices>>
  /\ notices' \subseteq notices
  /\ Grasps(w, r)

LEMMA IdleTyped == Idle \in Request /\ Idle.at = "idle" /\ Idle.then = "idle"
                   /\ Idle.type = "DEPOSIT" /\ Idle.p = 0
  BY DEF Idle, Request, Points

LEMMA RowTyped ==
  ASSUME PaymentsInv, NEW p \in DOMAIN payments
  PROVE  /\ payments[p] \in PaymentRow /\ p \in Nat /\ payments[p].amount \in Nat
         /\ payments[p].gateway \in {"open", "paid", "refunded", "none"}
         /\ payments[p].order \in DOMAIN orders
<1>1. payments \in Seq(PaymentRow)
  BY DEF PaymentsInv, TypeOK
<1>2. payments[p] \in PaymentRow /\ p \in Nat
  BY <1>1
<1>3. QED
  BY <1>2 DEF PaymentRow, PaymentsInv

LEMMA HandTyped ==
  ASSUME PaymentsInv, NEW w \in Handlers
  PROVE  /\ req[w] \in Request /\ req \in [Handlers -> Request] /\ HandOK(w, req[w])
         /\ req[w].o \in Nat /\ req[w].p \in Nat /\ req[w].n \in Nat
  BY DEF PaymentsInv, TypeOK, Request

\* A handler that is neither about to credit, mark nor settle may stop.
LEMMA IdleGrasped ==
  ASSUME PaymentsInv, NEW w \in Handlers,
         req[w].at \notin {"capture.credit", "refund.mark", "complete.read", "complete.tx",
                           "invoice.read", "invoice.create"}
  PROVE  Grasps(w, Idle)
<1>1. HandOK(w, Idle)
  BY IdleTyped DEF HandOK, CapturePoints, RefundPoints, OrderPoints, InitiatePoints
<1>2. Idle.at \notin OrderMakers /\ Idle.at \notin PaymentMakers
  BY IdleTyped DEF OrderMakers, PaymentMakers
<1>3. MoneyReads(w, Idle)
  BY IdleTyped DEF MoneyReads, MoneyHand, CapturePoints, RefundPoints, InitiatePoints
<1>4. SerialInv(w) => StillTrue(Idle) /\ FinalOK(Idle)
  BY IdleTyped DEF SerialInv, StillTrue, FinalOK, RefundPoints
<1>5. QED
  BY <1>1, <1>2, <1>3, <1>4, IdleTyped DEF Grasps

\* A request of a client whose first read leads to a point where it has no
\* payment in hand.
LEMMA BeginGrasped ==
  ASSUME PaymentsInv, NEW w \in Clients, At(w, "idle"), NEW r \in Request,
         r.at \in {"pre.list", "table.build", "pay.captured", "final.entry", "complete.tx",
                   "cancel.deposit", "offline.bill"},
         r.at \in {"pre.list", "table.build"} => RoomForOrder,
         r.at \in {"pay.captured", "final.entry", "offline.bill"} => RoomForPayment,
         r.at = "final.entry" => r.type = "FINAL",
         r.then = "cancel.tx" => r.at = "cancel.deposit",
         r.at = "pay.captured" => r.o \in DOMAIN orders /\ (r.type = "DEPOSIT" => r.n = DepositAmount),
         StillTrue(r)
  PROVE  Grasps(w, r)
<1>1. HandOK(w, r)
  BY DEF HandOK, CapturePoints, RefundPoints, OrderPoints, InitiatePoints
<1>2. /\ r.at \in OrderMakers => RoomForOrder
      /\ r.at \in PaymentMakers => RoomForPayment
  BY DEF OrderMakers, PaymentMakers
<1>3. MoneyReads(w, r)
  BY DEF MoneyReads, MoneyHand, CapturePoints, RefundPoints, InitiatePoints, At
<1>4. SerialInv(w) => FinalOK(r)
  BY DEF SerialInv, FinalOK, At
<1>5. QED
  BY <1>1, <1>2, <1>3, <1>4 DEF Grasps

\* A client that moves on with an order or a bill in hand.
LEMMA MoveGrasped ==
  ASSUME PaymentsInv, NEW w \in Handlers, NEW r \in Request,
         \/ req[w].at \in OrderMakers /\ r.at \in OrderMakers
         \/ req[w].at \in PaymentMakers /\ r.at \in PaymentMakers,
         r.at \in OrderPoints => r.o \in DOMAIN orders,
         r.at \in {"final.entry", "final.orders"} => r.type = "FINAL",
         r.then = req[w].then,
         ~LateNotices /\ MoneyInv => (r.at \in InitiatePoints /\ r.type = "DEPOSIT" => r.n = DepositAmount),
         SerialInv(w) => StillTrue(r)
  PROVE  Grasps(w, r)
<1>1. HandOK(w, req[w])
  BY HandTyped
<1>2. w \in Clients
  BY <1>1 DEF HandOK, OrderMakers, PaymentMakers, HookPoints, CapturePoints
<1>3. HandOK(w, r)
  BY <1>1, <1>2 DEF HandOK, OrderMakers, PaymentMakers, CapturePoints, RefundPoints
<1>4. ~LateNotices /\ MoneyInv => MoneyReads(w, r)
  BY <1>2 DEF MoneyReads, MoneyHand, OrderMakers, PaymentMakers, CapturePoints, RefundPoints
<1>5. SerialInv(w) => FinalOK(r)
  BY DEF SerialInv, FinalOK, OrderMakers, PaymentMakers
<1>6. r.at # "cancel.tx"
  BY DEF OrderMakers, PaymentMakers
<1>7. QED
  BY <1>3, <1>4, <1>5, <1>6 DEF Grasps, OrderMakers, PaymentMakers

LEMMA PreOrderReads ==
  ASSUME PaymentsInv, NEW w \in Handlers, PreOrderRead(w) \/ PreOrderList(w)
  PROVE  \E r \in Request : Reads(w, r)
<1>1. CASE PreOrderRead(w)
  <2> DEFINE r == [Idle EXCEPT !.at = "pre.list"]
  <2>1. r \in Request /\ r.at = "pre.list" /\ r.then = "idle"
    BY DEF Idle, Request, Points
  <2>2. w \in Clients /\ At(w, "idle") /\ RoomForOrder /\ entry.status = "QUEUED"
        /\ req' = [req EXCEPT ![w] = r] /\ UNCHANGED <<entry, orders, payments, invoices, notices>>
    BY <1>1 DEF PreOrderRead, Begin
  <2> HIDE DEF r
  <2>3. StillTrue(r)
    BY <2>1, <2>2 DEF StillTrue, RefundPoints
  <2>4. Grasps(w, r)
    BY <2>1, <2>2, <2>3, BeginGrasped
  <2>5. QED
    BY <2>1, <2>2, <2>4 DEF Reads
<1>2. CASE PreOrderList(w)
  <2> DEFINE stale == OrdersOf("PRE_ORDER")
             to == IF stale = {} THEN "pre.build" ELSE "pre.replace"
             r == [req[w] EXCEPT !.stale = stale, !.at = to]
  <2>1. stale \in SUBSET (1..MaxOrders) /\ to \in {"pre.build", "pre.replace"}
    BY BoundsTyped DEF OrdersOf, PaymentsInv, TypeOK
  <2>2. At(w, "pre.list") /\ req' = [req EXCEPT ![w] = r]
        /\ UNCHANGED <<entry, orders, payments, invoices, notices>>
    BY <1>2 DEF PreOrderList, Goto
  <2> HIDE DEF stale, to
  <2>3. r \in Request /\ r.at \in {"pre.build", "pre.replace"} /\ r.then = req[w].then
    BY <2>1, HandTyped, ZenonT(60) DEF Request, Points
  <2> HIDE DEF r
  <2>4. SerialInv(w) => StillTrue(r)
    BY <2>2, <2>3 DEF SerialInv, StillTrue, RefundPoints, At
  <2>5. Grasps(w, r)
    BY <2>2, <2>3, <2>4, MoveGrasped DEF At, OrderMakers, PaymentMakers, OrderPoints, InitiatePoints
  <2>6. QED
    BY <2>2, <2>3, <2>5 DEF Reads
<1>3. QED
  BY <1>1, <1>2

LEMMA TableOrderReads ==
  ASSUME PaymentsInv, NEW w \in Handlers, TableOrderRead(w)
  PROVE  \E r \in Request : Reads(w, r)
<1> DEFINE r == [Idle EXCEPT !.at = "table.build"]
<1>1. r \in Request /\ r.at = "table.build" /\ r.then = "idle"
  BY DEF Idle, Request, Points
<1>2. w \in Clients /\ At(w, "idle") /\ RoomForOrder /\ entry.status = "SEATED"
      /\ req' = [req EXCEPT ![w] = r] /\ UNCHANGED <<entry, orders, payments, invoices, notices>>
  BY DEF TableOrderRead, Begin
<1> HIDE DEF r
<1>3. StillTrue(r)
  BY <1>1, <1>2 DEF StillTrue, RefundPoints
<1>4. Grasps(w, r)
  BY <1>1, <1>2, <1>3, BeginGrasped
<1>5. QED
  BY <1>1, <1>2, <1>4 DEF Reads

LEMMA DepositReads ==
  ASSUME PaymentsInv, NEW w \in Handlers, NEW o \in DOMAIN orders, DepositRead(w, o)
  PROVE  \E r \in Request : Reads(w, r)
<1> DEFINE d == DepositAmount
           r == [Idle EXCEPT !.at = "pay.captured", !.type = "DEPOSIT", !.o = o, !.n = d]
<1>1. d \in Nat /\ o \in Nat
  BY DepositTyped DEF PaymentsInv, TypeOK
<1>2. w \in Clients /\ At(w, "idle") /\ RoomForPayment
      /\ req' = [req EXCEPT ![w] = r] /\ UNCHANGED <<entry, orders, payments, invoices, notices>>
  BY DEF DepositRead, Begin
<1>3. d = DepositAmount
  OBVIOUS
<1> HIDE DEF d
<1>4. r \in Request /\ r.at = "pay.captured" /\ r.o = o /\ r.n = d /\ r.then = "idle"
  BY <1>1 DEF Idle, Request, Points
<1> HIDE DEF r
<1>5. StillTrue(r)
  BY <1>4 DEF StillTrue, RefundPoints
<1>6. Grasps(w, r)
  BY <1>2, <1>3, <1>4, <1>5, BeginGrasped
<1>7. QED
  BY <1>2, <1>4, <1>6 DEF Reads

\* The orders a bill is made of exist, and there is a main one if there is any.
LEMMA BillOrders ==
  ASSUME PaymentsInv
  PROVE  /\ Billable \subseteq DOMAIN orders /\ IsFiniteSet(Billable) /\ BalanceDue \in Nat
         /\ AnyMainOrder \subseteq Billable /\ FirstMainOrder \subseteq AnyMainOrder
         /\ AnyMainOrder = {} <=> Billable = {}
<1>1. /\ orders \in Seq(OrderRow) /\ Len(orders) \in Nat /\ DOMAIN orders = 1..Len(orders)
      /\ entry.depositPaid \in Nat
  BY DEF PaymentsInv, TypeOK, EntryRow
<1>2. \A type : OrdersOf(type) \in SUBSET (1..Len(orders))
  BY <1>1 DEF OrdersOf
<1>3. LatestPreOrder \subseteq OrdersOf("PRE_ORDER") /\ (LatestPreOrder = {} <=> OrdersOf("PRE_ORDER") = {})
  <2>1. OrdersOf("PRE_ORDER") # {} => Max(OrdersOf("PRE_ORDER")) \in OrdersOf("PRE_ORDER")
    BY <1>1, <1>2, Extremes
  <2>2. QED
    BY <2>1 DEF LatestPreOrder
<1>4. Billable \in SUBSET (1..Len(orders))
  BY <1>2, <1>3 DEF Billable
<1>5. IsFiniteSet(Billable)
  <2>1. IsFiniteSet(1..Len(orders))
    BY <1>1, FS_Interval
  <2>2. QED
    BY <1>4, <2>1, FS_Subset
<1>6. BalanceDue \in Nat
  <2>1. Cardinality(Billable) * OrderTotal \in Nat
    BY <1>5, FS_CardinalityType, MoneyAssumption, Products
  <2>2. QED
    BY <2>1, <1>1 DEF BalanceDue
<1>7. AnyMainOrder \subseteq Billable /\ (AnyMainOrder = {} <=> Billable = {})
  BY DEF AnyMainOrder, Billable
<1>8. FirstMainOrder \subseteq AnyMainOrder
  <2>1. AnyMainOrder # {} => Min(AnyMainOrder) \in AnyMainOrder
    BY <1>1, <1>4, <1>7, Extremes
  <2>2. QED
    BY <2>1 DEF FirstMainOrder
<1>9. QED
  BY <1>1, <1>4, <1>5, <1>6, <1>7, <1>8

LEMMA FinalBillReads ==
  ASSUME PaymentsInv, NEW w \in Handlers, FinalBill(w)
  PROVE  \E r \in Request : Reads(w, r)
<1> DEFINE n == BalanceDue
           r == [Idle EXCEPT !.at = "final.entry", !.type = "FINAL", !.n = n]
<1>1. n \in Nat
  BY BillOrders
<1>2. w \in Clients /\ At(w, "idle") /\ RoomForPayment
      /\ req' = [req EXCEPT ![w] = r] /\ UNCHANGED <<entry, orders, payments, invoices, notices>>
  BY DEF FinalBill, Begin
<1> HIDE DEF n
<1>3. r \in Request /\ r.at = "final.entry" /\ r.type = "FINAL" /\ r.then = "idle"
  BY <1>1 DEF Idle, Request, Points
<1> HIDE DEF r
<1>4. StillTrue(r)
  BY <1>3 DEF StillTrue, RefundPoints
<1>5. Grasps(w, r)
  BY <1>2, <1>3, <1>4, BeginGrasped
<1>6. QED
  BY <1>2, <1>3, <1>5 DEF Reads

LEMMA FinalReads ==
  ASSUME PaymentsInv, NEW w \in Handlers, FinalEntry(w) \/ FinalOrders(w)
  PROVE  \E r \in Request : Reads(w, r)
<1>1. HandOK(w, req[w]) /\ req[w] \in Request
  BY HandTyped
<1>2. CASE UNCHANGED <<entry, orders, payments, invoices, notices>> /\ req' = [req EXCEPT ![w] = Idle]
           /\ req[w].at \in {"final.entry", "final.orders"}
  BY <1>2, IdleTyped, IdleGrasped DEF Reads
<1>3. CASE FinalEntry(w) /\ ~(Closed \/ req[w].n = 0)
  <2> DEFINE r == [req[w] EXCEPT !.at = "final.orders"]
  <2>1. At(w, "final.entry") /\ req' = [req EXCEPT ![w] = r]
        /\ UNCHANGED <<entry, orders, payments, invoices, notices>>
    BY <1>3 DEF FinalEntry, MoveTo, Goto
  <2>2. r \in Request /\ r.at = "final.orders" /\ r.type = req[w].type
        /\ r.then = req[w].then
    BY <1>1 DEF Request, Points
  <2> HIDE DEF r
  <2>3. StillTrue(r)
    BY <2>2 DEF StillTrue, RefundPoints
  <2>4. r.type = "FINAL"
    BY <1>1, <2>1, <2>2 DEF HandOK, At
  <2>5. Grasps(w, r)
    BY <2>1, <2>2, <2>3, <2>4, MoveGrasped DEF At, PaymentMakers, OrderPoints, InitiatePoints
  <2>6. QED
    BY <2>1, <2>2, <2>5 DEF Reads
<1>4. ASSUME FinalOrders(w), NEW o \in AnyMainOrder,
             req' = [req EXCEPT ![w] = [req[w] EXCEPT !.at = "pay.captured", !.o = o]]
      PROVE  \E r \in Request : Reads(w, r)
  <2> DEFINE r == [req[w] EXCEPT !.at = "pay.captured", !.o = o]
  <2>1. At(w, "final.orders") /\ req' = [req EXCEPT ![w] = r]
        /\ UNCHANGED <<entry, orders, payments, invoices, notices>>
    BY <1>4 DEF FinalOrders
  <2>2. o \in DOMAIN orders /\ o \in Nat
    BY BillOrders DEF PaymentsInv, TypeOK
  <2>3. r \in Request /\ r.at = "pay.captured" /\ r.type = req[w].type /\ r.o = o
        /\ r.then = req[w].then
    BY <1>1, <2>2 DEF Request, Points
  <2> HIDE DEF r
  <2>4. StillTrue(r)
    BY <2>3 DEF StillTrue, RefundPoints
  <2>5. r.type = "FINAL"
    BY <1>1, <2>1, <2>3 DEF HandOK, At
  <2>6. Grasps(w, r)
    BY <2>1, <2>2, <2>3, <2>4, <2>5, MoveGrasped DEF At, PaymentMakers
  <2>7. QED
    BY <2>1, <2>3, <2>6 DEF Reads
<1>5. CASE FinalEntry(w)
  BY <1>2, <1>3, <1>5 DEF FinalEntry, Goto, At
<1>6. CASE FinalOrders(w)
  BY <1>2, <1>4, <1>6 DEF FinalOrders, Goto, At
<1>7. QED
  BY <1>5, <1>6

\* From one point of initiateDeposit or initiateFinalPayment to the next.
LEMMA InitiateReads ==
  ASSUME PaymentsInv, NEW w \in Handlers, InitiateCaptured(w) \/ InitiatePending(w)
  PROVE  \E r \in Request : Reads(w, r)
<1>1. HandOK(w, req[w]) /\ req[w] \in Request
  BY HandTyped
<1>2. UNCHANGED <<entry, orders, payments, invoices, notices>> /\ req[w].at \in InitiatePoints
  BY DEF InitiateCaptured, InitiatePending, At, InitiatePoints
<1>3. \/ req' = [req EXCEPT ![w] = Idle]
      \/ \E to \in InitiatePoints : req' = [req EXCEPT ![w] = [req[w] EXCEPT !.at = to]]
  BY DEF InitiateCaptured, InitiatePending, Goto, MoveTo, InitiatePoints
<1>4. CASE req' = [req EXCEPT ![w] = Idle]
  BY <1>2, <1>4, IdleTyped, IdleGrasped DEF Reads, InitiatePoints
<1>5. ASSUME NEW to \in InitiatePoints, req' = [req EXCEPT ![w] = [req[w] EXCEPT !.at = to]]
      PROVE  \E r \in Request : Reads(w, r)
  <2> DEFINE r == [req[w] EXCEPT !.at = to]
  <2>1. r \in Request /\ r.at = to /\ r.type = req[w].type /\ r.o = req[w].o /\ r.n = req[w].n
        /\ r.then = req[w].then
    BY <1>1 DEF Request, Points, InitiatePoints
  <2>2. req' = [req EXCEPT ![w] = r]
    BY <1>5
  <2> HIDE DEF r
  <2>3. StillTrue(r)
    BY <2>1 DEF StillTrue, RefundPoints, InitiatePoints
  <2>4. r.o \in DOMAIN orders
    BY <1>1, <1>2, <2>1 DEF HandOK, OrderPoints
  <2>5. MoneyInv => MoneyHand(w, req[w])
    BY DEF MoneyInv
  <2>6. MoneyInv /\ r.type = "DEPOSIT" => r.n = DepositAmount
    BY <1>2, <2>1, <2>5 DEF MoneyHand
  <2>7. Grasps(w, r)
    BY <1>2, <2>1, <2>3, <2>4, <2>6, MoveGrasped DEF PaymentMakers, InitiatePoints
  <2>8. QED
    BY <1>2, <2>1, <2>2, <2>7 DEF Reads
<1>6. QED
  BY <1>3, <1>4, <1>5

LEMMA CompleteRequestReads ==
  ASSUME PaymentsInv, NEW w \in Handlers, CompleteRequest(w)
  PROVE  \E r \in Request : Reads(w, r)
<1> DEFINE r == [Idle EXCEPT !.at = "complete.tx"]
<1>1. r \in Request /\ r.at = "complete.tx" /\ r.then = "idle"
  BY DEF Idle, Request, Points
<1>2. w \in Clients /\ At(w, "idle") /\ ~Closed
      /\ req' = [req EXCEPT ![w] = r] /\ UNCHANGED <<entry, orders, payments, invoices, notices>>
  BY DEF CompleteRequest, Begin
<1> HIDE DEF r
<1>3. StillTrue(r)
  BY <1>1, <1>2 DEF StillTrue, RefundPoints
<1>4. Grasps(w, r)
  BY <1>1, <1>2, <1>3, BeginGrasped
<1>5. QED
  BY <1>1, <1>2, <1>4 DEF Reads

LEMMA CancelRequestReads ==
  ASSUME PaymentsInv, NEW w \in Handlers, CancelRead(w)
  PROVE  \E r \in Request : Reads(w, r)
<1> DEFINE r == [Idle EXCEPT !.at = "cancel.deposit", !.then = "cancel.tx"]
<1>1. r \in Request /\ r.at = "cancel.deposit" /\ r.then = "cancel.tx"
  BY DEF Idle, Request, Points
<1>2. w \in Clients /\ At(w, "idle") /\ entry.status = "QUEUED"
      /\ req' = [req EXCEPT ![w] = r] /\ UNCHANGED <<entry, orders, payments, invoices, notices>>
  BY DEF CancelRead, Begin
<1> HIDE DEF r
<1>3. StillTrue(r)
  BY <1>1, <1>2 DEF StillTrue, RefundPoints
<1>4. Grasps(w, r)
  BY <1>1, <1>2, <1>3, BeginGrasped
<1>5. QED
  BY <1>1, <1>2, <1>4 DEF Reads

LEMMA OfflineReads ==
  ASSUME PaymentsInv, NEW w \in Handlers, OfflineRead(w) \/ OfflineBill(w)
  PROVE  \E r \in Request : Reads(w, r)
<1>1. CASE OfflineRead(w)
  <2> DEFINE r == [Idle EXCEPT !.at = "offline.bill", !.then = "invoice.read"]
  <2>1. r \in Request /\ r.at = "offline.bill" /\ r.then = "invoice.read"
    BY DEF Idle, Request, Points
  <2>2. w \in Clients /\ At(w, "idle") /\ RoomForPayment /\ entry.status = "SEATED"
        /\ req' = [req EXCEPT ![w] = r] /\ UNCHANGED <<entry, orders, payments, invoices, notices>>
    BY <1>1 DEF OfflineRead, Begin
  <2> HIDE DEF r
  <2>3. StillTrue(r)
    BY <2>1, <2>2 DEF StillTrue, RefundPoints
  <2>4. Grasps(w, r)
    BY <2>1, <2>2, <2>3, BeginGrasped
  <2>5. QED
    BY <2>1, <2>2, <2>4 DEF Reads
<1>2. CASE OfflineBill(w)
  <2> DEFINE n == BalanceDue
             r == [req[w] EXCEPT !.at = "offline.orders", !.n = n]
  <2>1. At(w, "offline.bill") /\ req' = [req EXCEPT ![w] = r]
        /\ UNCHANGED <<entry, orders, payments, invoices, notices>>
    BY <1>2 DEF OfflineBill, Goto
  <2>2. n \in Nat
    BY BillOrders
  <2> HIDE DEF n
  <2>3. r \in Request /\ r.at = "offline.orders" /\ r.then = req[w].then
    BY <2>2, HandTyped DEF Request, Points
  <2> HIDE DEF r
  <2>4. SerialInv(w) => StillTrue(r)
    BY <2>1, <2>3 DEF SerialInv, StillTrue, RefundPoints, At
  <2>5. Grasps(w, r)
    BY <2>1, <2>3, <2>4, MoveGrasped DEF At, PaymentMakers, OrderPoints, InitiatePoints
  <2>6. QED
    BY <2>1, <2>3, <2>5 DEF Reads
<1>3. QED
  BY <1>1, <1>2

LEMMA OfflineOrdersReads ==
  ASSUME PaymentsInv, NEW w \in Handlers, OfflineOrders(w)
  PROVE  \E r \in Request : Reads(w, r)
<1>1. At(w, "offline.orders") /\ UNCHANGED <<entry, orders, payments, invoices, notices>>
  BY DEF OfflineOrders
<1>2. CASE req' = [req EXCEPT ![w] = Idle]
  BY <1>1, <1>2, IdleTyped, IdleGrasped DEF Reads, At
<1>3. ASSUME NEW o \in FirstMainOrder,
             req' = [req EXCEPT ![w] = [req[w] EXCEPT !.at = "offline.existing", !.o = o]]
      PROVE  \E r \in Request : Reads(w, r)
  <2> DEFINE r == [req[w] EXCEPT !.at = "offline.existing", !.o = o]
  <2>1. req' = [req EXCEPT ![w] = r]
    BY <1>3
  <2>2. o \in DOMAIN orders /\ o \in Nat
    BY BillOrders DEF PaymentsInv, TypeOK
  <2>3. r \in Request /\ r.at = "offline.existing" /\ r.then = req[w].then /\ r.o = o
    BY <2>2, HandTyped, ZenonT(60) DEF Request, Points
  <2> HIDE DEF r
  <2>4. SerialInv(w) => StillTrue(r)
    BY <1>1, <2>3 DEF SerialInv, StillTrue, RefundPoints, At
  <2>5. Grasps(w, r)
    BY <1>1, <2>2, <2>3, <2>4, MoveGrasped DEF At, PaymentMakers, InitiatePoints
  <2>6. QED
    BY <1>1, <2>1, <2>3, <2>5 DEF Reads
<1>4. QED
  BY <1>2, <1>3 DEF OfflineOrders, Goto

LEMMA OfflineExistingReads ==
  ASSUME PaymentsInv, NEW w \in Handlers, OfflineExisting(w)
  PROVE  \E r \in Request : Reads(w, r)
<1> DEFINE to == IF ForOrder(req[w].o, "FINAL", {"CAPTURED"}) # {}
                 THEN "complete.read" ELSE "offline.create"
           r == [req[w] EXCEPT !.at = to]
<1>1. At(w, "offline.existing") /\ req' = [req EXCEPT ![w] = r]
      /\ UNCHANGED <<entry, orders, payments, invoices, notices>>
  BY DEF OfflineExisting, MoveTo, Goto
<1>2. to \in {"complete.read", "offline.create"}
  OBVIOUS
<1> HIDE DEF to
<1>3. r \in Request /\ r.at = to /\ r.then = req[w].then /\ r.o = req[w].o
  BY <1>2, HandTyped DEF Request, Points
<1> HIDE DEF r
<1>4. HandOK(w, req[w])
  BY HandTyped
<1>5. w \in Clients /\ req[w].o \in DOMAIN orders /\ r.then # "cancel.tx"
  BY <1>1, <1>3, <1>4 DEF HandOK, At, HookPoints, CapturePoints, OrderPoints, RefundPoints
<1>6. SerialInv(w) => StillTrue(r)
  BY <1>1, <1>2, <1>3 DEF SerialInv, StillTrue, RefundPoints, At, Closed
<1>7. CASE to = "offline.create"
  <2>1. Grasps(w, r)
    BY <1>1, <1>3, <1>5, <1>6, <1>7, MoveGrasped DEF At, PaymentMakers, InitiatePoints
  <2>2. QED
    BY <1>1, <1>3, <2>1 DEF Reads
<1>8. CASE to = "complete.read"
  <2>1. HandOK(w, r)
    BY <1>3, <1>5, <1>8 DEF HandOK, CapturePoints, RefundPoints, OrderPoints, InitiatePoints
  <2>2. MoneyReads(w, r)
    BY <1>1, <1>3, <1>5, <1>8 DEF MoneyReads, MoneyHand, CapturePoints, RefundPoints, InitiatePoints, At
  <2>3. SerialInv(w) => FinalOK(r)
    BY <1>1, <1>3, <1>8 DEF SerialInv, FinalOK, StillTrue, At
  <2>4. Grasps(w, r)
    BY <1>3, <1>6, <1>8, <2>1, <2>2, <2>3 DEF Grasps, OrderMakers, PaymentMakers
  <2>5. QED
    BY <1>1, <1>3, <2>4 DEF Reads
<1>9. QED
  BY <1>2, <1>7, <1>8

\* capturePaymentByOrder up to its update, for the browser and the webhook.
LEMMA CaptureGrasped ==
  ASSUME PaymentsInv, NEW w \in Handlers, NEW p \in DOMAIN payments, At(w, "idle"),
         CaptureRead(w, p), ~LateNotices /\ MoneyInv => payments[p].gateway = "paid"
  PROVE  \E r \in Request : req' = [req EXCEPT ![w] = r] /\ Grasps(w, r)
<1>1. HandOK(w, req[w]) /\ req[w] \in Request /\ req \in [Handlers -> Request]
  BY HandTyped
<1>2. CASE UNCHANGED req
  <2>1. req' = [req EXCEPT ![w] = req[w]]
    BY <1>1, <1>2
  <2>2. MoneyInv => MoneyReads(w, req[w])
    BY DEF MoneyInv, MoneyReads, At
  <2>3. Grasps(w, req[w])
    BY <1>1, <2>2 DEF Grasps, SerialInv, At
  <2>4. QED
    BY <1>1, <2>1, <2>3
<1>3. CASE ~Closed /\ payments[p].status # "CAPTURED"
           /\ req' = [req EXCEPT ![w] = [Idle EXCEPT !.at = "capture.update", !.p = p]]
  <2> DEFINE r == [Idle EXCEPT !.at = "capture.update", !.p = p]
  <2>1. req' = [req EXCEPT ![w] = r] /\ p \in Nat
    BY <1>3 DEF PaymentsInv, TypeOK
  <2>2. r \in Request /\ r.at = "capture.update" /\ r.p = p /\ r.then = "idle"
    BY <2>1 DEF Idle, Request, Points
  <2> HIDE DEF r
  <2>3. HandOK(w, r)
    BY <2>2 DEF HandOK, CapturePoints, RefundPoints, OrderPoints, InitiatePoints, HookPoints
  <2>4. ASSUME ~LateNotices, MoneyInv PROVE MoneyReads(w, r)
    <3>1. payments[p].gateway = "paid" /\ payments[p].status # "REFUNDED"
      BY <2>4 DEF MoneyInv, RowMoney
    <3>2. QED
      BY <1>3, <2>2, <3>1 DEF MoneyReads, MoneyHand, CapturePoints, RefundPoints, InitiatePoints, At
  <2>5. SerialInv(w) => StillTrue(r) /\ FinalOK(r)
    BY <1>3, <2>2 DEF SerialInv, StillTrue, FinalOK, RefundPoints, At
  <2>6. Grasps(w, r)
    BY <2>2, <2>3, <2>4, <2>5 DEF Grasps, OrderMakers, PaymentMakers
  <2>7. QED
    BY <2>1, <2>2, <2>6
<1>4. QED
  BY <1>2, <1>3 DEF CaptureRead, Goto

LEMMA ClientCaptureReads ==
  ASSUME PaymentsInv, NEW w \in Handlers, NEW p \in DOMAIN payments, ClientCapture(w, p)
  PROVE  \E r \in Request : Reads(w, r)
<1>1. At(w, "idle") /\ CaptureRead(w, p) /\ UNCHANGED <<entry, orders, payments, invoices, notices>>
      /\ (~LateNotices => payments[p].gateway = "paid")
  BY DEF ClientCapture
<1>2. QED
  BY <1>1, CaptureGrasped DEF Reads

LEMMA CompleteReads ==
  ASSUME PaymentsInv, NEW w \in Handlers, CompleteRead(w)
  PROVE  \E r \in Request : Reads(w, r)
<1>1. /\ At(w, "complete.read") /\ UNCHANGED <<entry, orders, payments, invoices, notices>>
      /\ \/ Closed /\ req' = [req EXCEPT ![w] = Idle]
         \/ Closed /\ req' = [req EXCEPT ![w] = [req[w] EXCEPT !.at = req[w].then]]
         \/ ~Closed /\ req' = [req EXCEPT ![w] = [req[w] EXCEPT !.at = "complete.tx"]]
  <2>1. entry.status \in {"QUEUED", "SEATED", "COMPLETED", "CANCELLED", "NO_SHOW"}
    BY DEF PaymentsInv, TypeOK, EntryRow
  <2>2. CASE entry.status = "COMPLETED"
    BY <2>2 DEF CompleteRead, MoveTo, Goto, Closed
  <2>3. CASE entry.status \in {"CANCELLED", "NO_SHOW"}
    BY <2>3 DEF CompleteRead, MoveTo, Goto, Closed
  <2>4. CASE entry.status \in {"QUEUED", "SEATED"}
    BY <2>4 DEF CompleteRead, MoveTo, Goto, Closed
  <2>5. QED
    BY <2>1, <2>2, <2>3, <2>4
<1>2. HandOK(w, req[w]) /\ req[w] \in Request
  BY HandTyped
<1>3. SerialInv(w) => ~Closed
  BY <1>1 DEF SerialInv, StillTrue, At
<1>4. CASE Closed /\ req' = [req EXCEPT ![w] = Idle]
  <2>1. HandOK(w, Idle)
    BY IdleTyped DEF HandOK, CapturePoints, RefundPoints, OrderPoints, InitiatePoints
  <2>2. MoneyReads(w, Idle)
    BY <1>1, IdleTyped DEF MoneyReads, MoneyHand, CapturePoints, RefundPoints, InitiatePoints, At
  <2>3. Grasps(w, Idle)
    BY <1>3, <1>4, <2>1, <2>2, IdleTyped DEF Grasps, OrderMakers, PaymentMakers
  <2>4. QED
    BY <1>1, <1>4, <2>3, IdleTyped DEF Reads
<1>5. ASSUME NEW to \in {"idle", "invoice.read", "complete.tx"},
             req' = [req EXCEPT ![w] = [req[w] EXCEPT !.at = to]],
             to = "complete.tx" \/ Closed, to = "complete.tx" => ~Closed
      PROVE  \E r \in Request : Reads(w, r)
  <2> DEFINE r == [req[w] EXCEPT !.at = to]
  <2>1. r \in Request /\ r.at = to /\ r.p = req[w].p /\ r.then = req[w].then
    BY <1>2 DEF Request, Points
  <2>2. req' = [req EXCEPT ![w] = r]
    BY <1>5
  <2> HIDE DEF r
  <2>3. HandOK(w, r)
    BY <1>1, <1>2, <2>1 DEF HandOK, CapturePoints, RefundPoints, OrderPoints, InitiatePoints, HookPoints, At
  <2>4. MoneyInv => MoneyHand(w, req[w])
    BY DEF MoneyInv
  <2>5. MoneyInv => MoneyReads(w, r)
    BY <1>1, <2>1, <2>4 DEF MoneyReads, MoneyHand, CapturePoints, RefundPoints, InitiatePoints, At
  <2>6. SerialInv(w) => StillTrue(r) /\ FinalOK(r)
    BY <1>1, <1>3, <1>5, <2>1 DEF SerialInv, StillTrue, FinalOK, RefundPoints, At
  <2>7. Grasps(w, r)
    BY <2>1, <2>3, <2>5, <2>6 DEF Grasps, OrderMakers, PaymentMakers
  <2>8. QED
    BY <1>1, <2>1, <2>2, <2>7 DEF Reads
<1>6. req[w].then \in {"idle", "invoice.read"}
  BY <1>1, <1>2 DEF HandOK, RefundPoints, At, Request
<1>7. QED
  BY <1>1, <1>4, <1>5, <1>6

LEMMA InvoiceReads ==
  ASSUME PaymentsInv, NEW w \in Handlers, InvoiceRead(w)
  PROVE  \E r \in Request : Reads(w, r)
<1>1. At(w, "invoice.read") /\ UNCHANGED <<entry, orders, payments, invoices, notices>>
  BY DEF InvoiceRead
<1>2. HandOK(w, req[w]) /\ req[w] \in Request
  BY HandTyped
<1>3. CASE (Billable = {} \/ invoices # {}) /\ req' = [req EXCEPT ![w] = Idle]
  <2>1. HandOK(w, Idle)
    BY IdleTyped DEF HandOK, CapturePoints, RefundPoints, OrderPoints, InitiatePoints
  <2>2. MoneyReads(w, Idle)
    BY <1>1, IdleTyped DEF MoneyReads, MoneyHand, CapturePoints, RefundPoints, InitiatePoints, At
  <2>3. SerialInv(w) => StillTrue(Idle) /\ FinalOK(Idle)
    BY <1>1, <1>3, IdleTyped DEF SerialInv, StillTrue, FinalOK, RefundPoints, At
  <2>4. Grasps(w, Idle)
    BY <2>1, <2>2, <2>3, IdleTyped DEF Grasps, OrderMakers, PaymentMakers
  <2>5. QED
    BY <1>1, <1>3, <2>4, IdleTyped DEF Reads
<1>4. ASSUME NEW o \in AnyMainOrder,
             req' = [req EXCEPT ![w] = [req[w] EXCEPT !.at = "invoice.create", !.o = o]]
      PROVE  \E r \in Request : Reads(w, r)
  <2> DEFINE r == [req[w] EXCEPT !.at = "invoice.create", !.o = o]
  <2>1. o \in DOMAIN orders /\ o \in Nat
    BY BillOrders DEF PaymentsInv, TypeOK
  <2>2. r \in Request /\ r.at = "invoice.create" /\ r.p = req[w].p /\ r.then = req[w].then /\ r.o = o
    BY <1>2, <2>1 DEF Request, Points
  <2>3. req' = [req EXCEPT ![w] = r]
    BY <1>4
  <2> HIDE DEF r
  <2>4. HandOK(w, r)
    BY <1>1, <1>2, <2>1, <2>2 DEF HandOK, CapturePoints, RefundPoints, OrderPoints, InitiatePoints, HookPoints, At
  <2>5. MoneyInv => MoneyHand(w, req[w])
    BY DEF MoneyInv
  <2>6. MoneyInv => MoneyReads(w, r)
    BY <1>1, <2>2, <2>5 DEF MoneyReads, MoneyHand, CapturePoints, RefundPoints, InitiatePoints, At
  <2>7. SerialInv(w) => StillTrue(r) /\ FinalOK(r)
    BY <1>1, <2>2 DEF SerialInv, StillTrue, FinalOK, RefundPoints, At
  <2>8. Grasps(w, r)
    BY <2>2, <2>4, <2>6, <2>7 DEF Grasps, OrderMakers, PaymentMakers
  <2>9. QED
    BY <1>1, <2>2, <2>3, <2>8 DEF Reads
<1>5. AnyMainOrder = {} => Billable = {}
  BY BillOrders
<1>6. QED
  BY <1>3, <1>4, <1>5 DEF InvoiceRead, Goto

\* A refund starts with a deposit that nothing more will be heard of.
LEMMA RefundGrasped ==
  ASSUME PaymentsInv, NEW w \in Clients, NEW r \in Request,
         req[w].at \in {"idle", "cancel.deposit"}, r.at = "refund.gateway",
         r.p \in PaymentsOf("DEPOSIT", {"CAPTURED"}), Settled(r.p),
         SerialInv(w) => StillTrue(r)
  PROVE  Grasps(w, r)
<1>1. HandOK(w, r)
  BY DEF HandOK, CapturePoints, RefundPoints, OrderPoints, InitiatePoints, PaymentsOf
<1>2. ~LateNotices => Refundable(r.p)
  BY DEF Settled, Refundable, Heard, PaymentsOf, CapturePoints
<1>3. ~LateNotices => MoneyReads(w, r)
  BY <1>2 DEF MoneyReads, MoneyHand, CapturePoints, RefundPoints, InitiatePoints
<1>4. SerialInv(w) => FinalOK(r)
  BY DEF SerialInv, FinalOK
<1>5. QED
  BY <1>1, <1>3, <1>4 DEF Grasps, OrderMakers, PaymentMakers

LEMMA RefundReads ==
  ASSUME PaymentsInv, NEW w \in Handlers, NEW p \in DOMAIN payments, RefundRead(w, p)
  PROVE  \E r \in Request : Reads(w, r)
<1> DEFINE r == [Idle EXCEPT !.at = "refund.gateway", !.p = p]
<1>1. p \in Nat
  BY DEF PaymentsInv, TypeOK
<1>2. r \in Request /\ r.at = "refund.gateway" /\ r.p = p /\ r.then = "idle"
  BY <1>1 DEF Idle, Request, Points
<1>3. w \in Clients /\ At(w, "idle") /\ p \in PaymentsOf("DEPOSIT", {"CAPTURED"}) /\ Settled(p)
      /\ req' = [req EXCEPT ![w] = r] /\ UNCHANGED <<entry, orders, payments, invoices, notices>>
  BY DEF RefundRead, Begin
<1> HIDE DEF r
<1>4. StillTrue(r)
  BY <1>2 DEF StillTrue, RefundPoints
<1>5. Grasps(w, r)
  BY <1>2, <1>3, <1>4, RefundGrasped DEF At
<1>6. QED
  BY <1>2, <1>3, <1>5 DEF Reads

LEMMA CancelDepositReads ==
  ASSUME PaymentsInv, NEW w \in Handlers, CancelDeposit(w)
  PROVE  \E r \in Request : Reads(w, r)
<1> DEFINE due == {p \in PaymentsOf("DEPOSIT", {"CAPTURED"}) :
                     orders[payments[p].order].status # "CANCELLED"}
<1>1. At(w, "cancel.deposit") /\ UNCHANGED <<entry, orders, payments, invoices, notices>>
  BY DEF CancelDeposit
<1>2. HandOK(w, req[w]) /\ req[w] \in Request
  BY HandTyped
<1>3. w \in Clients
  BY <1>1, <1>2 DEF HandOK, HookPoints, CapturePoints, At
<1>4. CASE (due = {} \/ FinalPayments # {}) /\ MoveTo(w, "cancel.tx")
  <2> DEFINE r == [req[w] EXCEPT !.at = "cancel.tx"]
  <2>1. r \in Request /\ r.at = "cancel.tx" /\ r.then = req[w].then
    BY <1>2 DEF Request, Points
  <2>2. req' = [req EXCEPT ![w] = r]
    BY <1>4 DEF MoveTo, Goto
  <2> HIDE DEF r
  <2>3. Returned
    BY <1>4 DEF Returned
  <2>4. HandOK(w, r)
    BY <1>3, <2>1 DEF HandOK, CapturePoints, RefundPoints, OrderPoints, InitiatePoints
  <2>5. MoneyReads(w, r)
    BY <1>1, <1>3, <2>1 DEF MoneyReads, MoneyHand, CapturePoints, RefundPoints, InitiatePoints, At
  <2>6. SerialInv(w) => StillTrue(r) /\ FinalOK(r)
    BY <1>1, <2>1 DEF SerialInv, StillTrue, FinalOK, RefundPoints, At
  <2>7. Grasps(w, r)
    BY <2>1, <2>3, <2>4, <2>5, <2>6 DEF Grasps, OrderMakers, PaymentMakers
  <2>8. QED
    BY <1>1, <2>1, <2>2, <2>7 DEF Reads
<1>5. ASSUME NEW p \in due, Settled(p), Goto(w, [req[w] EXCEPT !.at = "refund.gateway", !.p = p])
      PROVE  \E r \in Request : Reads(w, r)
  <2> DEFINE r == [req[w] EXCEPT !.at = "refund.gateway", !.p = p]
  <2>1. p \in PaymentsOf("DEPOSIT", {"CAPTURED"}) /\ p \in Nat
    BY DEF PaymentsOf, PaymentsInv, TypeOK
  <2>2. r \in Request /\ r.at = "refund.gateway" /\ r.p = p /\ r.then = req[w].then
    BY <1>2, <2>1 DEF Request, Points
  <2>3. req' = [req EXCEPT ![w] = r]
    BY <1>5 DEF Goto
  <2> HIDE DEF r
  <2>4. SerialInv(w) => StillTrue(r)
    BY <1>1, <2>2 DEF SerialInv, StillTrue, RefundPoints, At
  <2>5. Grasps(w, r)
    BY <1>1, <1>3, <1>5, <2>1, <2>2, <2>4, RefundGrasped DEF At
  <2>6. QED
    BY <1>1, <2>2, <2>3, <2>5 DEF Reads
<1>6. \/ (due = {} \/ FinalPayments # {}) /\ MoveTo(w, "cancel.tx")
      \/ \E p \in due : Settled(p) /\ Goto(w, [req[w] EXCEPT !.at = "refund.gateway", !.p = p])
  BY DEF CancelDeposit, FinalPayments
<1>7. QED
  BY <1>4, <1>5, <1>6

LEMMA RefundEnds ==
  ASSUME PaymentsInv, NEW w \in Handlers, AfterRefund(w)
  PROVE  \E r \in Request :
           /\ req' = [req EXCEPT ![w] = r]
           /\ \/ r.at = "idle" /\ r.then = "idle"
              \/ r.at = "cancel.tx" /\ r.then = "cancel.tx" /\ req[w].then = "cancel.tx"
<1>1. CASE req[w].then = "cancel.tx"
  <2> DEFINE r == [req[w] EXCEPT !.at = "cancel.tx"]
  <2>1. r \in Request /\ r.at = "cancel.tx" /\ r.then = "cancel.tx"
    BY <1>1, HandTyped DEF Request, Points
  <2>2. req' = [req EXCEPT ![w] = r]
    BY <1>1 DEF AfterRefund, MoveTo, Goto
  <2>3. QED
    BY <1>1, <2>1, <2>2
<1>2. CASE req[w].then # "cancel.tx"
  BY <1>2, IdleTyped DEF AfterRefund, Goto
<1>3. QED
  BY <1>1, <1>2

\* The gateway refuses, or has returned the deposit before.
LEMMA RefusedReads ==
  ASSUME PaymentsInv, NEW w \in Handlers, At(w, "refund.gateway"), AfterRefund(w),
         RefundMayFail \/ payments[req[w].p].gateway # "paid",
         UNCHANGED <<entry, orders, payments, invoices, notices>>
  PROVE  \E r \in Request : Reads(w, r)
<1>1. PICK r \in Request :
        /\ req' = [req EXCEPT ![w] = r]
        /\ \/ r.at = "idle" /\ r.then = "idle"
           \/ r.at = "cancel.tx" /\ r.then = "cancel.tx" /\ req[w].then = "cancel.tx"
  BY RefundEnds
<1>2. HandOK(w, req[w]) /\ req[w] \in Request
  BY HandTyped
<1>3. w \in Clients /\ req[w].p \in DOMAIN payments
  BY <1>2 DEF HandOK, HookPoints, CapturePoints, RefundPoints, At
<1>4. HandOK(w, r)
  BY <1>1, <1>3 DEF HandOK, CapturePoints, RefundPoints, OrderPoints, InitiatePoints
<1>5. MoneyReads(w, r)
  BY <1>1, <1>3 DEF MoneyReads, MoneyHand, CapturePoints, RefundPoints, InitiatePoints, At
<1>6. SerialInv(w) => StillTrue(r) /\ FinalOK(r)
  BY <1>1 DEF SerialInv, StillTrue, FinalOK, RefundPoints, At
<1>7. ASSUME ~LateNotices, ~RefundMayFail, MoneyInv PROVE Returned
  <2>1. Refundable(req[w].p) /\ RowMoney(req[w].p)
    BY <1>3, <1>7 DEF MoneyInv, MoneyHand, RefundPoints, At
  <2>2. payments[req[w].p].gateway \in {"open", "paid", "refunded", "none"}
    BY <1>3, RowTyped
  <2>3. payments[req[w].p].gateway = "refunded"
    BY <1>7, <2>1, <2>2 DEF Refundable, RowMoney
  <2>4. QED
    BY <1>3, <2>3 DEF Returned
<1>8. Grasps(w, r)
  BY <1>1, <1>4, <1>5, <1>6, <1>7 DEF Grasps, OrderMakers, PaymentMakers
<1>9. QED
  BY <1>1, <1>8 DEF Reads

-----------------------------------------------------------------------------
(* Keeping the invariants *)

LEMMA ReadsKeepTypes ==
  ASSUME PaymentsInv, NEW w \in Handlers, NEW r \in Request, Reads(w, r), UNCHANGED stops
  PROVE  PaymentsInv'
<1>1. RowsGrow
  BY DEF RowsGrow, Reads, PaymentsInv, TypeOK
<1>2. HandOK(w, r)'
  BY DEF Reads, Grasps, HandOK
<1>3. OrderFit(w, r) /\ PaymentFit(w, r)
  BY DEF Reads, Grasps, OrderFit, PaymentFit
<1>4. QED
  BY <1>1, <1>2, <1>3, TypesKept DEF Reads

\* Nothing more is heard of a payment when nobody sends or starts anything.
LEMMA HeardKept ==
  ASSUME PaymentsInv, NEW w \in Handlers, NEW r, req' = [req EXCEPT ![w] = r], NEW p, Heard(p),
         \A n \in notices' : n \in notices \/ n.p # p,
         r.at \in CapturePoints => r.p # p \/ (req[w].at \in CapturePoints /\ req[w].p = r.p)
  PROVE  Heard(p)'
<1>1. \A v \in Handlers : req'[v] = IF v = w THEN r ELSE req[v]
  BY HandTyped
<1>2. QED
  BY <1>1 DEF Heard

\* What another handler v has in hand is still so.
LEMMA OthersKeep ==
  ASSUME PaymentsInv, MoneyInv, NEW v \in Handlers, req'[v] = req[v],
         \A p \in DOMAIN payments : payments'[p].type = payments[p].type,
         (req[v].at \in CapturePoints \cup {"refund.mark"} \/ (v \notin Clients /\ req[v].at # "idle")) =>
           payments'[req[v].p].gateway = payments[req[v].p].gateway,
         req[v].at = "capture.credit" => payments'[req[v].p].status = payments[req[v].p].status,
         req[v].at \in RefundPoints =>
           payments'[req[v].p].status \in {"CAPTURED", "REFUNDED"} /\ Heard(req[v].p)'
  PROVE  MoneyHand(v, req[v])'
<1>1. MoneyHand(v, req[v]) /\ HandOK(v, req[v])
  BY HandTyped DEF MoneyInv
<1>2. req[v].at \in CapturePoints \cup RefundPoints => req[v].p \in DOMAIN payments
  BY <1>1 DEF HandOK
<1>3. v \notin Clients /\ req[v].at # "idle" => req[v].p \in DOMAIN payments
  BY <1>1 DEF HandOK
<1>4. req[v].at \in RefundPoints => Refundable(req[v].p)'
  BY <1>1, <1>2 DEF MoneyHand, Refundable
<1>5. QED
  BY <1>1, <1>2, <1>3, <1>4 DEF MoneyHand, CapturePoints, RefundPoints

\* The sets that are counted are finite.
LEMMA Countable ==
  ASSUME PaymentsInv
  PROVE  /\ IsFiniteSet(DOMAIN payments)
         /\ \A S \in SUBSET DOMAIN payments : IsFiniteSet(S) /\ Cardinality(S) \in Nat
         /\ Unmarked \subseteq DOMAIN payments /\ Due \subseteq DOMAIN payments
         /\ FinalPayments \subseteq DOMAIN payments /\ stops \in Nat
<1>1. DOMAIN payments = 1..Len(payments) /\ Len(payments) \in Nat /\ stops \in Nat
  BY BoundsTyped DEF PaymentsInv, TypeOK
<1>2. IsFiniteSet(DOMAIN payments)
  BY <1>1, FS_Interval
<1>3. \A S \in SUBSET DOMAIN payments : IsFiniteSet(S) /\ Cardinality(S) \in Nat
  BY <1>2, FS_Subset, FS_CardinalityType
<1>4. QED
  BY <1>1, <1>2, <1>3 DEF Unmarked, Due, PaymentsOf, FinalPayments

\* A step of w that does no more to payments than to give up pending ones.
GivesUp ==
  /\ DOMAIN payments' = DOMAIN payments /\ notices' \subseteq notices
  /\ \A p \in DOMAIN payments :
       /\ payments'[p].type = payments[p].type /\ payments'[p].amount = payments[p].amount
       /\ payments'[p].gateway = payments[p].gateway
       /\ \/ payments'[p].status = payments[p].status
          \/ payments[p].status \in {"PENDING", "FAILED"} /\ payments'[p].status = "FAILED"

LEMMA MoneyKept ==
  ASSUME ~LateNotices, PaymentsInv, MoneyInv, NEW w \in Handlers, NEW r \in Request,
         req' = [req EXCEPT ![w] = r], GivesUp, UNCHANGED stops,
         entry'.depositPaid = entry.depositPaid, HandOK(w, r), MoneyReads(w, r)
  PROVE  MoneyInv'
<1>1. \A v \in Handlers : req'[v] = IF v = w THEN r ELSE req[v]
  BY HandTyped
<1>2. ASSUME NEW p \in DOMAIN payments, Refundable(p) PROVE Refundable(p)'
  <2>1. r.at \in CapturePoints => r.p # p
    BY <1>2 DEF MoneyReads, Refundable, CapturePoints
  <2>2. Heard(p)'
    BY <1>2, <2>1, HeardKept DEF Refundable, GivesUp
  <2>3. QED
    BY <1>2, <2>2 DEF Refundable, GivesUp
<1>3. ASSUME NEW p \in DOMAIN payments' PROVE RowMoney(p)'
  <2>1. p \in DOMAIN payments /\ RowMoney(p)
    BY <1>3 DEF GivesUp, MoneyInv
  <2>2. payments[p].gateway = "refunded" => Refundable(p)'
    BY <1>2, <2>1 DEF RowMoney
  <2>3. QED
    BY <2>1, <2>2 DEF RowMoney, GivesUp, DepositAmount
<1>4. ASSUME NEW n \in notices' PROVE NoticeMoney(n)'
  BY <1>4 DEF MoneyInv, NoticeMoney, GivesUp, PaymentsInv
<1>5. ASSUME NEW v \in Handlers PROVE MoneyHand(v, req[v])'
  <2>1. CASE v # w
    <3>1. req'[v] = req[v] /\ HandOK(v, req[v]) /\ MoneyHand(v, req[v])
      BY <1>1, <2>1, HandTyped DEF MoneyInv
    <3>2. req[v].at \in CapturePoints \cup RefundPoints => req[v].p \in DOMAIN payments
      BY <3>1 DEF HandOK
    <3>3. v \notin Clients /\ req[v].at # "idle" => req[v].p \in DOMAIN payments
      BY <3>1 DEF HandOK
    <3>4. req[v].at \in RefundPoints => Refundable(req[v].p)'
      BY <1>2, <3>1, <3>2 DEF MoneyHand
    <3>5. QED
      BY <3>1, <3>2, <3>3, <3>4, OthersKeep
         DEF Refundable, GivesUp, CapturePoints, RefundPoints, MoneyHand
  <2>2. CASE v = w
    <3>1. req'[v] = r /\ MoneyHand(w, r)
      BY <1>1, <2>2 DEF MoneyReads
    <3>2. r.at \in CapturePoints \cup RefundPoints => r.p \in DOMAIN payments
      BY DEF HandOK
    <3>3. w \notin Clients /\ r.at # "idle" => r.p \in DOMAIN payments
      BY DEF HandOK
    <3>4. r.at \in RefundPoints => Refundable(r.p)'
      BY <1>2, <3>1, <3>2 DEF MoneyHand
    <3>5. MoneyHand(w, r)'
      BY <3>1, <3>2, <3>3, <3>4 DEF MoneyHand, MoneyReads, GivesUp, CapturePoints, RefundPoints, DepositAmount
    <3>6. QED
      BY <2>2, <3>1, <3>5 DEF MoneyHand, Refundable, Heard, DepositAmount
  <2>3. QED
    BY <2>1, <2>2
<1>6. OneCredit' /\ Unmarked' = Unmarked /\ Due' = Due
  <2>1. \A v \in Handlers : /\ At(v, "capture.credit")' <=> At(v, "capture.credit")
                            /\ At(v, "refund.mark")' <=> At(v, "refund.mark")
                            /\ At(v, "capture.credit") \/ At(v, "refund.mark") => req'[v].p = req[v].p
    BY <1>1 DEF MoneyReads, At
  <2>2. OneCredit' /\ Unmarked' = Unmarked
    BY <2>1 DEF MoneyInv, OneCredit, Unmarked, GivesUp
  <2>3. PaymentsOf("DEPOSIT", {"CAPTURED", "REFUNDED"})' = PaymentsOf("DEPOSIT", {"CAPTURED", "REFUNDED"})
    BY DEF PaymentsOf, GivesUp
  <2>4. QED
    BY <2>1, <2>2, <2>3 DEF Due
<1>7. Cardinality(Unmarked)' <= stops' /\ Credited'
  BY <1>6 DEF MoneyInv, Credited, DepositAmount
<1>8. QED
  BY <1>3, <1>4, <1>5, <1>6, <1>7 DEF MoneyInv

LEMMA ReadsKeepMoney ==
  ASSUME ~LateNotices, PaymentsInv, MoneyInv, NEW w \in Handlers, NEW r \in Request,
         Reads(w, r), UNCHANGED stops
  PROVE  MoneyInv'
<1>1. GivesUp
  BY DEF Reads, GivesUp
<1>2. QED
  BY <1>1, MoneyKept DEF Reads, Grasps

\* What a read leaves is as it was found.
LEMMA ReadsKeepOrder ==
  ASSUME PaymentsInv, NEW w \in Handlers, SerialInv(w), NEW r \in Request, Reads(w, r),
         UNCHANGED stops
  PROVE  /\ SerialInv(w)'
         /\ ~LateNotices /\ ~RefundMayFail /\ MoneyInv /\ CancelOK(req[w]) => CancelOK(req[w])'
<1>1. req'[w] = r
  BY HandTyped DEF Reads
<1>2. UNCHANGED <<entry, orders, payments, invoices>>
  BY DEF Reads
<1>3. StillTrue(r) /\ FinalOK(r)
  BY DEF Reads, Grasps
<1>4. FinalPayments' = FinalPayments /\ Billable' = Billable /\ Returned' = Returned
  BY <1>2 DEF FinalPayments, PaymentsOf, Billable, LatestPreOrder, OrdersOf, Returned
<1>5. SerialInv(w)'
  BY <1>1, <1>2, <1>3, <1>4 DEF SerialInv, StillTrue, FinalOK, Closed
<1>6. ASSUME ~LateNotices, ~RefundMayFail, MoneyInv, CancelOK(req[w]) PROVE CancelOK(req[w])'
  <2>1. r.at = "cancel.tx" => Returned
    BY <1>6 DEF Reads, Grasps
  <2>2. QED
    BY <1>1, <1>2, <1>4, <1>6, <2>1 DEF CancelOK
<1>7. QED
  BY <1>5, <1>6

\* What every step keeps; the last two only where one handler serves everything.
Kept ==
  /\ PaymentsInv'
  /\ ~LateNotices /\ MoneyInv => MoneyInv'
  /\ \A w : Handlers = {w} /\ SerialInv(w) =>
       /\ SerialInv(w)'
       /\ ~LateNotices /\ ~RefundMayFail /\ MoneyInv /\ CancelOK(req[w]) => CancelOK(req[w])'

LEMMA KeptBy ==
  ASSUME NEW w \in Handlers, PaymentsInv', ~LateNotices /\ MoneyInv => MoneyInv',
         SerialInv(w) =>
           /\ SerialInv(w)'
           /\ ~LateNotices /\ ~RefundMayFail /\ MoneyInv /\ CancelOK(req[w]) => CancelOK(req[w])'
  PROVE  Kept
<1>1. ASSUME NEW v, Handlers = {v} PROVE v = w
  BY <1>1
<1>2. QED
  BY <1>1 DEF Kept

LEMMA ReadsKeep ==
  ASSUME PaymentsInv, NEW w \in Handlers, NEW r \in Request, Reads(w, r), UNCHANGED stops
  PROVE  Kept
BY ReadsKeepTypes, ReadsKeepMoney, ReadsKeepOrder, KeptBy

\* Fewer captured final payments need no more than those before.
LEMMA FinalShrinks ==
  ASSUME PaymentsInv, PaymentsInv', FinalPayments' \subseteq FinalPayments, UNCHANGED stops,
         NEW q, FinalOK(q), Cardinality(FinalPayments)' > stops'
  PROVE  /\ Cardinality(FinalPayments)' = stops' + 1 /\ Cardinality(FinalPayments) = stops + 1
         /\ \/ q.at \in {"complete.read", "complete.tx"} /\ q.then = "invoice.read"
            \/ /\ entry.status = "COMPLETED"
               /\ Billable = {} \/ invoices # {} \/ q.at \in {"invoice.read", "invoice.create"}
<1>1. /\ IsFiniteSet(FinalPayments) /\ Cardinality(FinalPayments) \in Nat
      /\ Cardinality(FinalPayments)' \in Nat /\ stops \in Nat
  BY Countable
<1>2. Cardinality(FinalPayments') <= Cardinality(FinalPayments)
  BY <1>1, FS_Subset
<1>3. Cardinality(FinalPayments)' = Cardinality(FinalPayments')
  OBVIOUS
<1>4. QED
  BY <1>1, <1>2, <1>3 DEF FinalOK

-----------------------------------------------------------------------------
(* Steps that write orders, the entry or invoices *)

\* Rows that are rewritten in place stay a sequence as long.
LEMMA OrdersWritten ==
  ASSUME PaymentsInv, orders' = [o \in DOMAIN orders |-> orders'[o]],
         \A o \in DOMAIN orders : orders'[o] \in OrderRow
  PROVE  orders' \in Seq(OrderRow) /\ DOMAIN orders' = DOMAIN orders /\ Len(orders') = Len(orders)
<1>1. DOMAIN orders = 1..Len(orders) /\ Len(orders) \in Nat
  BY DEF PaymentsInv, TypeOK
<1>2. orders' \in [1..Len(orders) -> OrderRow]
  BY <1>1
<1>3. QED
  BY <1>1, <1>2

LEMMA RowsWritten ==
  ASSUME PaymentsInv, payments' = [q \in DOMAIN payments |-> payments'[q]],
         \A q \in DOMAIN payments : payments'[q] \in PaymentRow
  PROVE  /\ payments' \in Seq(PaymentRow) /\ DOMAIN payments' = DOMAIN payments
         /\ Len(payments') = Len(payments)
<1>1. DOMAIN payments = 1..Len(payments) /\ Len(payments) \in Nat
  BY DEF PaymentsInv, TypeOK
<1>2. payments' \in [1..Len(payments) -> PaymentRow]
  BY <1>1
<1>3. QED
  BY <1>1, <1>2

LEMMA PreOrderReplaceKeeps ==
  ASSUME PaymentsInv, NEW w \in Handlers, PreOrderReplace(w), UNCHANGED stops
  PROVE  Kept
<1>1. HandOK(w, req[w]) /\ req[w] \in Request /\ req[w].at = "pre.replace"
  BY HandTyped DEF PreOrderReplace, At
<1>2. PICK r \in Request :
        /\ req' = [req EXCEPT ![w] = r] /\ UNCHANGED <<entry, invoices, notices>>
        /\ r.at = "pre.build" /\ r.then = req[w].then
  <2>1. [req[w] EXCEPT !.at = "pre.build"] \in Request
    BY <1>1 DEF Request, Points
  <2>2. QED
    BY <1>1, <2>1 DEF PreOrderReplace, MoveTo, Goto, Request
<1>4. orders \in Seq(OrderRow) /\ payments \in Seq(PaymentRow)
  BY DEF PaymentsInv, TypeOK
<1>5. orders' \in Seq(OrderRow) /\ DOMAIN orders' = DOMAIN orders /\ Len(orders') = Len(orders)
  <2>1. orders' = [o \in DOMAIN orders |-> orders'[o]]
    BY DEF PreOrderReplace
  <2>2. ASSUME NEW o \in DOMAIN orders PROVE orders'[o] \in OrderRow
    <3>1. orders[o] \in OrderRow
      BY <1>4
    <3>2. orders'[o] = orders[o] \/ orders'[o] = [orders[o] EXCEPT !.status = "CANCELLED"]
      BY DEF PreOrderReplace
    <3>3. QED
      BY <3>1, <3>2 DEF OrderRow
  <2>3. QED
    BY <2>1, <2>2, OrdersWritten
<1>6. /\ payments' = [p \in DOMAIN payments |-> payments'[p]]
      /\ \A p \in DOMAIN payments :
           \/ payments'[p] = payments[p]
           \/ payments[p].status = "PENDING" /\ payments'[p] = [payments[p] EXCEPT !.status = "FAILED"]
  BY DEF PreOrderReplace, PaymentsOf
<1>7. ASSUME NEW p \in DOMAIN payments
      PROVE  /\ payments'[p] \in PaymentRow /\ payments'[p].order = payments[p].order
             /\ payments'[p].type = payments[p].type /\ payments'[p].amount = payments[p].amount
             /\ payments'[p].gateway = payments[p].gateway
             /\ \/ payments'[p].status = payments[p].status
                \/ payments[p].status = "PENDING" /\ payments'[p].status = "FAILED"
  <2>1. payments[p] \in PaymentRow
    BY RowTyped
  <2>2. QED
    BY <1>6, <2>1 DEF PaymentRow
<1>8. payments' \in Seq(PaymentRow) /\ DOMAIN payments' = DOMAIN payments
      /\ Len(payments') = Len(payments)
  BY <1>6, <1>7, RowsWritten
<1>9. w \in Clients
  BY <1>1 DEF HandOK, HookPoints, CapturePoints
<1>10. HandOK(w, r)
  BY <1>1, <1>2, <1>9 DEF HandOK, CapturePoints, RefundPoints, OrderPoints, InitiatePoints
<1>11. PaymentsInv'
  <2>1. RowsGrow
    BY <1>2, <1>5, <1>7, <1>8 DEF RowsGrow, PaymentsInv, TypeOK
  <2>2. HandOK(w, r)'
    BY <1>5, <1>8, <1>10 DEF HandOK
  <2>3. OrderFit(w, r) /\ PaymentFit(w, r)
    BY <1>1, <1>2, <1>5, <1>8 DEF OrderFit, PaymentFit, OrderMakers, PaymentMakers
  <2>4. QED
    BY <1>2, <2>1, <2>2, <2>3, TypesKept
<1>12. ASSUME ~LateNotices, MoneyInv PROVE MoneyInv'
  <2>1. GivesUp
    BY <1>2, <1>7, <1>8 DEF GivesUp
  <2>2. MoneyReads(w, r)
    BY <1>1, <1>2, <1>9 DEF MoneyReads, MoneyHand, CapturePoints, RefundPoints, InitiatePoints
  <2>3. QED
    BY <1>2, <1>10, <1>12, <2>1, <2>2, MoneyKept
<1>13. ASSUME SerialInv(w) PROVE SerialInv(w)' /\ CancelOK(req[w])'
  <2>1. entry.status = "QUEUED" /\ entry' = entry /\ req'[w] = r
    BY <1>1, <1>2, <1>13, HandTyped DEF SerialInv, StillTrue
  <2>2. StillTrue(req[w])' /\ CancelOK(req[w])'
    BY <1>2, <2>1 DEF StillTrue, CancelOK, RefundPoints, Closed
  <2>3. FinalPayments' \subseteq FinalPayments
    BY <1>7, <1>8 DEF FinalPayments, PaymentsOf
  <2>4. FinalOK(req[w])'
    BY <1>1, <1>11, <1>13, <2>1, <2>3, FinalShrinks DEF SerialInv, FinalOK
  <2>5. QED
    BY <2>2, <2>4 DEF SerialInv
<1>14. QED
  BY <1>11, <1>12, <1>13, KeptBy

\* A step that ends with w at rest and leaves the payments alone.
LEMMA RestKeepsMoney ==
  ASSUME ~LateNotices, PaymentsInv, MoneyInv, NEW w \in Handlers, req' = [req EXCEPT ![w] = Idle],
         req[w].at \notin {"capture.credit", "refund.mark"},
         UNCHANGED <<payments, notices, stops>>, entry'.depositPaid = entry.depositPaid
  PROVE  MoneyInv'
<1>1. HandOK(w, Idle) /\ MoneyReads(w, Idle)
  BY IdleTyped DEF HandOK, MoneyReads, MoneyHand, CapturePoints, RefundPoints, OrderPoints, InitiatePoints
<1>2. GivesUp
  BY DEF GivesUp
<1>3. QED
  BY <1>1, <1>2, IdleTyped, MoneyKept

\* A step of w that leaves the payments alone.
LEMMA PaymentsAlone ==
  ASSUME PaymentsInv, NEW w \in Handlers, NEW r \in Request, req' = [req EXCEPT ![w] = r],
         UNCHANGED <<payments, notices, stops>>,
         entry' \in EntryRow, entry'.depositPaid = entry.depositPaid,
         orders' \in Seq(OrderRow), DOMAIN orders \subseteq DOMAIN orders',
         invoices' \subseteq DOMAIN orders',
         HandOK(w, r), OrderFit(w, r), r.at \notin PaymentMakers,
         ~LateNotices /\ MoneyInv => MoneyReads(w, r)
  PROVE  PaymentsInv' /\ (~LateNotices /\ MoneyInv => MoneyInv')
<1>1. RowsGrow
  BY DEF RowsGrow, PaymentsInv, TypeOK
<1>2. HandOK(w, r)' /\ PaymentFit(w, r)
  BY DEF HandOK, PaymentFit
<1>3. PaymentsInv'
  BY <1>1, <1>2, TypesKept
<1>4. GivesUp
  BY DEF GivesUp
<1>5. QED
  BY <1>3, <1>4, MoneyKept

\* Before the entry is completed every captured final payment is explained.
LEMMA NoneOwed ==
  ASSUME PaymentsInv, NEW w \in Handlers, SerialInv(w), entry.status # "COMPLETED",
         req[w].at \notin {"complete.read", "complete.tx"}, UNCHANGED <<payments, stops>>
  PROVE  ~(Cardinality(FinalPayments) > stops) /\ FinalOK(req[w])'
<1>1. FinalPayments' = FinalPayments
  BY DEF FinalPayments, PaymentsOf
<1>2. ~(Cardinality(FinalPayments) > stops)
  BY DEF SerialInv, FinalOK
<1>3. QED
  BY <1>1, <1>2 DEF FinalOK

LEMMA BuildOrderKeeps ==
  ASSUME PaymentsInv, NEW w \in Handlers, BuildOrder(w), UNCHANGED stops
  PROVE  Kept
<1>1. req[w].at \in {"pre.build", "table.build"} /\ req' = [req EXCEPT ![w] = Idle]
      /\ UNCHANGED <<entry, payments, invoices, notices>>
  BY DEF BuildOrder, Goto
<1>2. /\ orders' \in Seq(OrderRow) /\ DOMAIN orders \subseteq DOMAIN orders'
      /\ Len(orders') = Len(orders) \/ Len(orders') = Len(orders) + 1
  <2>1. orders \in Seq(OrderRow) /\ Len(orders) \in Nat
    BY DEF PaymentsInv, TypeOK
  <2>2. ASSUME NEW o \in OrderRow, orders' = Append(orders, o)
        PROVE  /\ orders' \in Seq(OrderRow) /\ DOMAIN orders \subseteq DOMAIN orders'
               /\ Len(orders') = Len(orders) + 1
    BY <2>1, <2>2
  <2>3. \A type \in {"PRE_ORDER", "TABLE_ORDER"} :
          [status |-> "CONFIRMED", type |-> type] \in OrderRow
    BY DEF OrderRow
  <2>4. UNCHANGED orders \/ \E o \in OrderRow : orders' = Append(orders, o)
    BY <2>3 DEF BuildOrder
  <2>5. QED
    BY <2>1, <2>2, <2>4
<1>3. PaymentsInv' /\ (~LateNotices /\ MoneyInv => MoneyInv')
  <2>1. HandOK(w, Idle)
    BY IdleTyped DEF HandOK, CapturePoints, RefundPoints, OrderPoints, InitiatePoints
  <2>2. MoneyReads(w, Idle)
    BY <1>1, IdleTyped DEF MoneyReads, MoneyHand, CapturePoints, RefundPoints, InitiatePoints
  <2>3. OrderFit(w, Idle) /\ Idle.at \notin PaymentMakers
    BY <1>1, <1>2, IdleTyped DEF OrderFit, OrderMakers, PaymentMakers
  <2>4. entry' \in EntryRow /\ invoices' \subseteq DOMAIN orders'
    BY <1>1, <1>2 DEF PaymentsInv, TypeOK
  <2>5. QED
    BY <1>1, <1>2, <2>1, <2>2, <2>3, <2>4, IdleTyped, PaymentsAlone
<1>4. ASSUME SerialInv(w) PROVE SerialInv(w)' /\ CancelOK(req[w])'
  <2>1. entry.status \in {"QUEUED", "SEATED"} /\ entry' = entry /\ req'[w] = Idle
    BY <1>1, <1>4, HandTyped DEF SerialInv, StillTrue
  <2>2. StillTrue(req[w])' /\ CancelOK(req[w])'
    BY <2>1, IdleTyped DEF StillTrue, CancelOK, RefundPoints
  <2>3. QED
    BY <1>1, <1>4, <2>1, <2>2, NoneOwed DEF SerialInv
<1>5. QED
  BY <1>3, <1>4, KeptBy

LEMMA CompleteTxKeeps ==
  ASSUME PaymentsInv, NEW w \in Handlers, CompleteTx(w), UNCHANGED stops
  PROVE  Kept
<1>1. HandOK(w, req[w]) /\ req[w] \in Request /\ req[w].at = "complete.tx"
  BY HandTyped DEF CompleteTx, At
<1>2. entry' = [entry EXCEPT !.status = "COMPLETED"]
      /\ UNCHANGED <<orders, payments, invoices, notices>>
  BY DEF CompleteTx
<1>3. PICK r \in Request :
        /\ req' = [req EXCEPT ![w] = r]
        /\ \/ r.at = "idle" /\ req[w].then = "idle"
           \/ r.at = "invoice.read" /\ req[w].then = "invoice.read"
        /\ r.at # "idle" => r.p = req[w].p
        /\ r.then = req[w].then
  <2>1. CASE req[w].then = "idle"
    BY <2>1, IdleTyped DEF CompleteTx, Goto
  <2>2. CASE req[w].then = "invoice.read"
    <3>1. [req[w] EXCEPT !.at = req[w].then] \in Request
      BY <1>1, <2>2 DEF Request, Points
    <3>2. QED
      BY <1>1, <2>2, <3>1 DEF CompleteTx, MoveTo, Goto, Request
  <2>3. QED
    BY <1>1, <2>1, <2>2 DEF HandOK, RefundPoints, Request
<1>4. entry \in EntryRow /\ entry' \in EntryRow /\ entry'.depositPaid = entry.depositPaid
      /\ entry'.status = "COMPLETED"
  BY <1>2 DEF PaymentsInv, TypeOK, EntryRow
<1>5. PaymentsInv' /\ (~LateNotices /\ MoneyInv => MoneyInv')
  <2>1. HandOK(w, r)
    BY <1>1, <1>3 DEF HandOK, CapturePoints, RefundPoints, OrderPoints, InitiatePoints, HookPoints
  <2>2. MoneyInv => MoneyHand(w, req[w])
    BY DEF MoneyInv
  <2>3. MoneyInv => MoneyReads(w, r)
    BY <1>1, <1>3, <2>2 DEF MoneyReads, MoneyHand, CapturePoints, RefundPoints, InitiatePoints
  <2>4. OrderFit(w, r) /\ r.at \notin PaymentMakers
    BY <1>2, <1>3 DEF OrderFit, OrderMakers, PaymentMakers
  <2>5. orders' \in Seq(OrderRow) /\ invoices' \subseteq DOMAIN orders'
    BY <1>2 DEF PaymentsInv, TypeOK
  <2>6. QED
    BY <1>2, <1>3, <1>4, <2>1, <2>3, <2>4, <2>5, PaymentsAlone
<1>6. ASSUME SerialInv(w) PROVE SerialInv(w)' /\ CancelOK(req[w])'
  <2>1. ~Closed /\ FinalOK(req[w]) /\ req'[w] = r
    BY <1>1, <1>3, <1>6, HandTyped DEF SerialInv, StillTrue
  <2>2. FinalPayments' = FinalPayments
    BY <1>2 DEF FinalPayments, PaymentsOf
  <2>3. FinalOK(req[w])'
    BY <1>1, <1>2, <1>3, <1>4, <2>1, <2>2 DEF FinalOK, Closed
  <2>4. StillTrue(req[w])' /\ CancelOK(req[w])'
    BY <1>3, <1>4, <2>1 DEF StillTrue, CancelOK, RefundPoints
  <2>5. QED
    BY <2>3, <2>4 DEF SerialInv
<1>7. QED
  BY <1>5, <1>6, KeptBy

LEMMA InvoiceCreateKeeps ==
  ASSUME PaymentsInv, NEW w \in Handlers, InvoiceCreate(w), UNCHANGED stops
  PROVE  Kept
<1>1. HandOK(w, req[w]) /\ req[w].at = "invoice.create" /\ req' = [req EXCEPT ![w] = Idle]
      /\ invoices' = invoices \cup {req[w].o} /\ UNCHANGED <<entry, orders, payments, notices>>
  BY HandTyped DEF InvoiceCreate, Goto, At
<1>2. PaymentsInv' /\ (~LateNotices /\ MoneyInv => MoneyInv')
  <2>1. HandOK(w, Idle)
    BY IdleTyped DEF HandOK, CapturePoints, RefundPoints, OrderPoints, InitiatePoints
  <2>2. MoneyReads(w, Idle)
    BY <1>1, IdleTyped DEF MoneyReads, MoneyHand, CapturePoints, RefundPoints, InitiatePoints
  <2>3. OrderFit(w, Idle) /\ Idle.at \notin PaymentMakers
    BY <1>1, IdleTyped DEF OrderFit, OrderMakers, PaymentMakers
  <2>4. entry' \in EntryRow /\ orders' \in Seq(OrderRow) /\ invoices' \subseteq DOMAIN orders'
    BY <1>1 DEF PaymentsInv, TypeOK, HandOK, OrderPoints
  <2>5. QED
    BY <1>1, <2>1, <2>2, <2>3, <2>4, IdleTyped, PaymentsAlone
<1>3. ASSUME SerialInv(w) PROVE SerialInv(w)' /\ CancelOK(req[w])'
  <2>1. entry.status = "COMPLETED" /\ entry' = entry /\ req'[w] = Idle /\ invoices' # {}
    BY <1>1, <1>3, HandTyped DEF SerialInv, StillTrue
  <2>2. FinalPayments' = FinalPayments
    BY <1>1 DEF FinalPayments, PaymentsOf
  <2>3. FinalOK(req[w])'
    BY <1>1, <1>3, <2>1, <2>2 DEF SerialInv, FinalOK
  <2>4. StillTrue(req[w])' /\ CancelOK(req[w])'
    BY <2>1, IdleTyped DEF StillTrue, CancelOK, RefundPoints
  <2>5. QED
    BY <2>3, <2>4 DEF SerialInv
<1>4. QED
  BY <1>2, <1>3, KeptBy

LEMMA CancelTxKeeps ==
  ASSUME PaymentsInv, NEW w \in Handlers, CancelTx(w), UNCHANGED stops
  PROVE  Kept
<1>1. req[w].at = "cancel.tx" /\ req' = [req EXCEPT ![w] = Idle]
      /\ entry' = [entry EXCEPT !.status = "CANCELLED"]
      /\ UNCHANGED <<orders, payments, invoices, notices>>
  BY DEF CancelTx, Goto, At
<1>2. entry' \in EntryRow /\ entry'.depositPaid = entry.depositPaid
  BY <1>1 DEF PaymentsInv, TypeOK, EntryRow
<1>3. PaymentsInv' /\ (~LateNotices /\ MoneyInv => MoneyInv')
  <2>1. HandOK(w, Idle)
    BY IdleTyped DEF HandOK, CapturePoints, RefundPoints, OrderPoints, InitiatePoints
  <2>2. MoneyReads(w, Idle)
    BY <1>1, IdleTyped DEF MoneyReads, MoneyHand, CapturePoints, RefundPoints, InitiatePoints
  <2>3. OrderFit(w, Idle) /\ Idle.at \notin PaymentMakers
    BY <1>1, IdleTyped DEF OrderFit, OrderMakers, PaymentMakers
  <2>4. orders' \in Seq(OrderRow) /\ invoices' \subseteq DOMAIN orders'
    BY <1>1 DEF PaymentsInv, TypeOK
  <2>5. QED
    BY <1>1, <1>2, <2>1, <2>2, <2>3, <2>4, IdleTyped, PaymentsAlone
<1>4. ASSUME SerialInv(w)
      PROVE  SerialInv(w)' /\ (CancelOK(req[w]) => CancelOK(req[w])')
  <2>1. entry.status = "QUEUED" /\ req'[w] = Idle
    BY <1>1, <1>4, HandTyped DEF SerialInv, StillTrue
  <2>2. FinalOK(req[w])'
    BY <1>1, <1>4, <2>1, NoneOwed
  <2>3. StillTrue(req[w])'
    BY <2>1, IdleTyped DEF StillTrue, RefundPoints
  <2>4. CancelOK(req[w]) => CancelOK(req[w])'
    <3>1. Returned => Returned'
      BY <1>1 DEF Returned, FinalPayments, PaymentsOf
    <3>2. QED
      BY <1>1, <3>1 DEF CancelOK
  <2>5. QED
    BY <2>2, <2>3, <2>4 DEF SerialInv
<1>5. QED
  BY <1>3, <1>4, KeptBy

LEMMA EntryMovesKeeps ==
  ASSUME PaymentsInv, NEW w \in Handlers, EntryMoves(w), UNCHANGED stops
  PROVE  Kept
<1>1. HandOK(w, req[w]) /\ req[w] \in Request /\ req \in [Handlers -> Request]
  BY HandTyped
<1>2. req[w].at = "idle" /\ entry.status = "QUEUED"
      /\ UNCHANGED <<orders, payments, invoices, notices, req>>
      /\ \E to \in {"SEATED", "NO_SHOW"} : entry' = [entry EXCEPT !.status = to]
  BY DEF EntryMoves, At
<1>3. entry' \in EntryRow /\ entry'.depositPaid = entry.depositPaid
      /\ entry'.status \in {"SEATED", "NO_SHOW"}
  BY <1>2 DEF PaymentsInv, TypeOK, EntryRow
<1>4. PaymentsInv' /\ (~LateNotices /\ MoneyInv => MoneyInv')
  <2>1. PICK r \in Request : r = req[w]
    BY <1>1
  <2>2. req' = [req EXCEPT ![w] = r]
    BY <1>1, <1>2, <2>1
  <2>3. ~LateNotices /\ MoneyInv => MoneyReads(w, r)
    BY <1>2, <2>1 DEF MoneyInv, MoneyReads
  <2>4. OrderFit(w, r) /\ r.at \notin PaymentMakers
    BY <1>2, <2>1 DEF OrderFit, PaymentMakers
  <2>5. orders' \in Seq(OrderRow) /\ invoices' \subseteq DOMAIN orders'
    BY <1>2 DEF PaymentsInv, TypeOK
  <2>6. QED
    BY <1>1, <1>2, <1>3, <2>1, <2>2, <2>3, <2>4, <2>5, PaymentsAlone
<1>5. ASSUME SerialInv(w) PROVE SerialInv(w)' /\ CancelOK(req[w])'
  <2>1. FinalOK(req[w])'
    BY <1>2, <1>5, NoneOwed
  <2>2. StillTrue(req[w])' /\ CancelOK(req[w])'
    BY <1>2, <1>3 DEF StillTrue, CancelOK, RefundPoints
  <2>3. QED
    BY <2>1, <2>2 DEF SerialInv
<1>6. QED
  BY <1>4, <1>5, KeptBy

-----------------------------------------------------------------------------
(* Steps that write payments *)

\* What handlers have in hand agrees with the gateway after a step of w that
\* leaves what the others look at.
LEMMA HandsKept ==
  ASSUME PaymentsInv, MoneyInv, NEW w \in Handlers, NEW r, req' = [req EXCEPT ![w] = r],
         \A p \in DOMAIN payments : payments'[p].type = payments[p].type,
         \A p \in DOMAIN payments : Refundable(p) => Refundable(p)',
         \A v \in Handlers \ {w} :
           /\ (\/ req[v].at \in CapturePoints \cup {"refund.mark"}
               \/ v \notin Clients /\ req[v].at # "idle") =>
                payments'[req[v].p].gateway = payments[req[v].p].gateway
           /\ req[v].at = "capture.credit" =>
                payments'[req[v].p].status = payments[req[v].p].status,
         MoneyHand(w, r)'
  PROVE  \A v \in Handlers : MoneyHand(v, req[v])'
<1> TAKE v \in Handlers
<1>1. req'[v] = IF v = w THEN r ELSE req[v]
  BY HandTyped
<1>2. CASE v = w
  BY <1>1, <1>2 DEF MoneyHand
<1>3. CASE v # w
  <2>1. req'[v] = req[v] /\ HandOK(v, req[v]) /\ MoneyHand(v, req[v])
    BY <1>1, <1>3, HandTyped DEF MoneyInv
  <2>2. req[v].at \in RefundPoints => req[v].p \in DOMAIN payments /\ Refundable(req[v].p)
    BY <2>1 DEF HandOK, MoneyHand
  <2>3. req[v].at \in RefundPoints => Refundable(req[v].p)'
    BY <2>1, <2>2
  <2>4. req[v].at \in RefundPoints =>
          payments'[req[v].p].status \in {"CAPTURED", "REFUNDED"} /\ Heard(req[v].p)'
    BY <2>1, <2>3 DEF Refundable
  <2>5. QED
    BY <1>3, <2>1, <2>4, OthersKeep
<1>4. QED
  BY <1>2, <1>3

\* A new row was not captured through the gateway.
LEMMA CreateKeepsMoney ==
  ASSUME ~LateNotices, PaymentsInv, MoneyInv, NEW w \in Clients, NEW r \in Request,
         req' = [req EXCEPT ![w] = r], NEW x \in PaymentRow, payments' = Append(payments, x),
         UNCHANGED <<entry, notices, stops>>,
         req[w].at \in {"pay.create", "offline.create"}, r.at \in {"idle", "complete.read"},
         \/ x.status = "PENDING" /\ x.gateway = "open"
         \/ x.type = "FINAL" /\ x.status = "CAPTURED" /\ x.gateway = "none",
         x.type = "DEPOSIT" => x.amount = DepositAmount
  PROVE  MoneyInv'
<1> DEFINE new == Len(payments) + 1
<1>1. /\ DOMAIN payments' = DOMAIN payments \cup {new} /\ new \notin DOMAIN payments
      /\ \A p \in DOMAIN payments : payments'[p] = payments[p]
      /\ payments'[new] = x
  <2>1. payments \in Seq(PaymentRow)
    BY DEF PaymentsInv, TypeOK
  <2>2. QED
    BY <2>1
<1> HIDE DEF new
<1>2. w \in Handlers /\ \A v \in Handlers : req'[v] = IF v = w THEN r ELSE req[v]
  BY HandTyped DEF Handlers
<1>3. ASSUME NEW p \in DOMAIN payments, Refundable(p) PROVE Refundable(p)'
  <2>1. Heard(p)'
    BY <1>2, <1>3, HeardKept DEF Refundable, CapturePoints
  <2>2. QED
    BY <1>1, <1>3, <2>1 DEF Refundable
<1>4. ASSUME NEW p \in DOMAIN payments' PROVE RowMoney(p)'
  <2>1. CASE p = new
    BY <1>1, <2>1 DEF RowMoney, DepositAmount
  <2>2. CASE p \in DOMAIN payments
    <3>1. RowMoney(p) /\ payments'[p] = payments[p]
      BY <1>1, <2>2 DEF MoneyInv
    <3>2. payments[p].gateway = "refunded" => Refundable(p)'
      BY <1>3, <2>2, <3>1 DEF RowMoney
    <3>3. QED
      BY <3>1, <3>2 DEF RowMoney, DepositAmount
  <2>3. QED
    BY <1>1, <2>1, <2>2
<1>5. ASSUME NEW n \in notices' PROVE NoticeMoney(n)'
  BY <1>1 DEF MoneyInv, NoticeMoney, PaymentsInv
<1>6. ASSUME NEW v \in Handlers PROVE MoneyHand(v, req[v])'
  <2>1. \A u \in Handlers : HandOK(u, req[u])
    BY DEF PaymentsInv
  <2>2. ASSUME NEW u \in Handlers \ {w},
               \/ req[u].at \in CapturePoints \cup {"refund.mark"}
               \/ u \notin Clients /\ req[u].at # "idle"
        PROVE  payments'[req[u].p] = payments[req[u].p]
    BY <1>1, <2>1, <2>2 DEF HandOK, RefundPoints
  <2>3. MoneyHand(w, r)'
    BY DEF MoneyHand, CapturePoints, RefundPoints, InitiatePoints
  <2>4. \A u \in Handlers \ {w} :
           /\ (\/ req[u].at \in CapturePoints \cup {"refund.mark"}
               \/ u \notin Clients /\ req[u].at # "idle") =>
                payments'[req[u].p].gateway = payments[req[u].p].gateway
           /\ req[u].at = "capture.credit" =>
                payments'[req[u].p].status = payments[req[u].p].status
    BY <2>2 DEF CapturePoints
  <2>5. \A p \in DOMAIN payments : payments'[p].type = payments[p].type
    BY <1>1
  <2>6. \A p \in DOMAIN payments : Refundable(p) => Refundable(p)'
    BY <1>3
  <2>7. QED
    BY <1>2, <2>3, <2>4, <2>5, <2>6, HandsKept
<1>7. OneCredit' /\ Unmarked' = Unmarked /\ Due' = Due
  <2>1. \A v \in Handlers : /\ At(v, "capture.credit")' <=> At(v, "capture.credit")
                            /\ At(v, "refund.mark")' <=> At(v, "refund.mark")
                            /\ At(v, "capture.credit") \/ At(v, "refund.mark") => req'[v].p = req[v].p
    BY <1>2 DEF At
  <2>2. OneCredit'
    BY <2>1 DEF MoneyInv, OneCredit
  <2>3. Unmarked' = Unmarked
    BY <1>1, <2>1 DEF Unmarked
  <2>4. PaymentsOf("DEPOSIT", {"CAPTURED", "REFUNDED"})' = PaymentsOf("DEPOSIT", {"CAPTURED", "REFUNDED"})
    BY <1>1 DEF PaymentsOf
  <2>5. QED
    BY <2>1, <2>2, <2>3, <2>4 DEF Due
<1>8. Cardinality(Unmarked)' <= stops' /\ Credited'
  BY <1>7 DEF MoneyInv, Credited, DepositAmount
<1>9. QED
  BY <1>4, <1>5, <1>6, <1>7, <1>8 DEF MoneyInv

LEMMA CreateKeeps ==
  ASSUME PaymentsInv, NEW w \in Handlers, NEW r \in Request, req' = [req EXCEPT ![w] = r],
         NEW x \in PaymentRow, payments' = Append(payments, x),
         UNCHANGED <<entry, orders, invoices, notices, stops>>,
         req[w].at \in {"pay.create", "offline.create"}, r.at \in {"idle", "complete.read"},
         r.then # "cancel.tx", x.order = req[w].o,
         \/ x.status = "PENDING" /\ x.gateway = "open"
         \/ x.type = "FINAL" /\ x.status = "CAPTURED" /\ x.gateway = "none",
         ~LateNotices /\ MoneyInv => (x.type = "DEPOSIT" => x.amount = DepositAmount)
  PROVE  PaymentsInv' /\ (~LateNotices /\ MoneyInv => MoneyInv')
<1>1. HandOK(w, req[w])
  BY HandTyped
<1>2. w \in Clients /\ x.order \in DOMAIN orders
  BY <1>1 DEF HandOK, HookPoints, CapturePoints, OrderPoints, InitiatePoints
<1>3. /\ payments' \in Seq(PaymentRow) /\ Len(payments') = Len(payments) + 1
      /\ DOMAIN payments \subseteq DOMAIN payments'
      /\ \A p \in DOMAIN payments' : payments'[p] = x \/ (p \in DOMAIN payments /\ payments'[p] = payments[p])
  <2>1. payments \in Seq(PaymentRow)
    BY DEF PaymentsInv, TypeOK
  <2>2. QED
    BY <2>1
<1>4. RowsGrow
  BY <1>2, <1>3 DEF RowsGrow, PaymentsInv, TypeOK
<1>5. HandOK(w, r)'
  BY <1>2 DEF HandOK, CapturePoints, RefundPoints, OrderPoints, InitiatePoints
<1>6. OrderFit(w, r) /\ PaymentFit(w, r)
  BY <1>3 DEF OrderFit, PaymentFit, OrderMakers, PaymentMakers
<1>7. PaymentsInv'
  BY <1>4, <1>5, <1>6, TypesKept
<1>8. QED
  BY <1>2, <1>7, CreateKeepsMoney

LEMMA InitiateCreateKeeps ==
  ASSUME PaymentsInv, NEW w \in Handlers, InitiateCreate(w), UNCHANGED stops
  PROVE  Kept
<1>1. req[w].at = "pay.create" /\ req' = [req EXCEPT ![w] = Idle]
      /\ UNCHANGED <<entry, orders, invoices, notices>>
  BY DEF InitiateCreate, Goto, At
<1>2. PICK x \in PaymentRow :
        /\ payments' = Append(payments, x)
        /\ x.type = req[w].type /\ x.order = req[w].o /\ x.amount = req[w].n
        /\ x.status = "PENDING" /\ x.gateway = "open"
  <2>1. [type |-> req[w].type, order |-> req[w].o, amount |-> req[w].n, status |-> "PENDING",
         gateway |-> "open"] \in PaymentRow
    BY HandTyped DEF PaymentRow, Request
  <2>2. QED
    BY <2>1 DEF InitiateCreate
<1>3. MoneyInv => (x.type = "DEPOSIT" => x.amount = DepositAmount)
  BY <1>1, <1>2 DEF MoneyInv, MoneyHand, InitiatePoints
<1>4. PaymentsInv' /\ (~LateNotices /\ MoneyInv => MoneyInv')
  BY <1>1, <1>2, <1>3, IdleTyped, CreateKeeps
<1>5. DOMAIN payments' = DOMAIN payments \cup {Len(payments) + 1}
      /\ (\A p \in DOMAIN payments : payments'[p] = payments[p])
      /\ payments'[Len(payments) + 1] = x
  <2>1. payments \in Seq(PaymentRow)
    BY DEF PaymentsInv, TypeOK
  <2>2. QED
    BY <1>2, <2>1
<1>6. FinalPayments' = FinalPayments
      /\ PaymentsOf("DEPOSIT", {"CAPTURED"})' = PaymentsOf("DEPOSIT", {"CAPTURED"})
  BY <1>2, <1>5 DEF FinalPayments, PaymentsOf
<1>7. ASSUME SerialInv(w)
      PROVE  SerialInv(w)' /\ (CancelOK(req[w]) => CancelOK(req[w])')
  <2>1. req'[w] = Idle /\ FinalOK(req[w])
    BY <1>1, <1>7, HandTyped DEF SerialInv
  <2>2. StillTrue(req[w])'
    BY <2>1, IdleTyped DEF StillTrue, RefundPoints
  <2>3. Billable' = Billable
    BY <1>1 DEF Billable, LatestPreOrder, OrdersOf
  <2>4. FinalOK(req[w])'
    BY <1>1, <1>6, <2>1, <2>3, IdleTyped DEF FinalOK
  <2>5. Returned => Returned'
    <3>1. \A p \in PaymentsOf("DEPOSIT", {"CAPTURED"}) : payments'[p] = payments[p]
      BY <1>5 DEF PaymentsOf
    <3>2. QED
      BY <1>1, <1>5, <1>6, <3>1 DEF Returned
  <2>6. CancelOK(req[w]) => CancelOK(req[w])'
    BY <1>1, <2>1, <2>5, IdleTyped DEF CancelOK
  <2>7. QED
    BY <2>2, <2>4, <2>6 DEF SerialInv
<1>8. QED
  BY <1>4, <1>7, KeptBy

LEMMA OfflineCreateKeeps ==
  ASSUME PaymentsInv, NEW w \in Handlers, OfflineCreate(w), UNCHANGED stops
  PROVE  Kept
<1>1. req[w].at = "offline.create" /\ UNCHANGED <<entry, orders, invoices, notices>>
      /\ req[w] \in Request /\ HandOK(w, req[w])
  BY HandTyped DEF OfflineCreate, At
<1>2. PICK x \in PaymentRow :
        /\ payments' = Append(payments, x)
        /\ x.type = "FINAL" /\ x.order = req[w].o /\ x.status = "CAPTURED" /\ x.gateway = "none"
  <2>1. [type |-> "FINAL", order |-> req[w].o, amount |-> req[w].n, status |-> "CAPTURED",
         gateway |-> "none"] \in PaymentRow
    BY HandTyped DEF PaymentRow
  <2>2. QED
    BY <2>1 DEF OfflineCreate
<1>3. PICK r \in Request :
        req' = [req EXCEPT ![w] = r] /\ r.at = "complete.read" /\ r.then = req[w].then
  <2>1. [req[w] EXCEPT !.at = "complete.read"] \in Request
    BY <1>1 DEF Request, Points
  <2>2. QED
    BY <1>1, <2>1 DEF OfflineCreate, MoveTo, Goto, Request
<1>4. PaymentsInv' /\ (~LateNotices /\ MoneyInv => MoneyInv')
  <2>1. req[w].then # "cancel.tx"
    BY <1>1 DEF HandOK, RefundPoints
  <2>2. QED
    BY <1>1, <1>2, <1>3, <2>1, CreateKeeps
<1>5. FinalPayments' = FinalPayments \cup {Len(payments) + 1}
  <2>1. payments \in Seq(PaymentRow)
    BY DEF PaymentsInv, TypeOK
  <2>2. DOMAIN payments' = DOMAIN payments \cup {Len(payments) + 1}
        /\ (\A p \in DOMAIN payments : payments'[p] = payments[p])
        /\ payments'[Len(payments) + 1] = x
    BY <1>2, <2>1
  <2>3. QED
    BY <1>2, <2>2 DEF FinalPayments, PaymentsOf
<1>6. ASSUME SerialInv(w) PROVE SerialInv(w)' /\ CancelOK(req[w])'
  <2>1. entry.status = "SEATED" /\ entry' = entry /\ req'[w] = r /\ r.then = "invoice.read"
    BY <1>1, <1>3, <1>6, HandTyped DEF SerialInv, StillTrue
  <2>2. ~(Cardinality(FinalPayments) > stops)
    BY <1>1, <1>6, <2>1 DEF SerialInv, FinalOK
  <2>3. Cardinality(FinalPayments') \in Nat /\ Cardinality(FinalPayments') <= Cardinality(FinalPayments) + 1
        /\ Cardinality(FinalPayments) \in Nat /\ stops \in Nat
    <3>1. IsFiniteSet(FinalPayments) /\ Cardinality(FinalPayments) \in Nat /\ stops \in Nat
      BY Countable
    <3>2. Cardinality(FinalPayments \cup {Len(payments) + 1}) \in
            {Cardinality(FinalPayments), Cardinality(FinalPayments) + 1}
      BY <3>1, FS_AddElement
    <3>3. QED
      BY <1>5, <3>1, <3>2
  <2>4. FinalOK(req[w])'
    BY <1>3, <2>1, <2>2, <2>3 DEF FinalOK
  <2>5. StillTrue(req[w])' /\ CancelOK(req[w])'
    BY <1>3, <2>1 DEF StillTrue, CancelOK, RefundPoints, Closed
  <2>6. QED
    BY <2>4, <2>5 DEF SerialInv
<1>7. QED
  BY <1>4, <1>6, KeptBy

\* One field of one row is written.
LEMMA StatusWritten ==
  ASSUME PaymentsInv, NEW p \in DOMAIN payments,
         NEW s \in {"PENDING", "CAPTURED", "FAILED", "REFUNDED"},
         payments' = [payments EXCEPT ![p].status = s]
  PROVE  /\ payments' \in Seq(PaymentRow) /\ DOMAIN payments' = DOMAIN payments
         /\ Len(payments') = Len(payments)
         /\ \A q \in DOMAIN payments :
              /\ payments'[q].type = payments[q].type /\ payments'[q].order = payments[q].order
              /\ payments'[q].amount = payments[q].amount
              /\ payments'[q].gateway = payments[q].gateway
              /\ payments'[q].status = IF q = p THEN s ELSE payments[q].status
<1>1. \A q \in DOMAIN payments :
        payments'[q] = IF q = p THEN [payments[p] EXCEPT !.status = s] ELSE payments[q]
  OBVIOUS
<1>2. ASSUME NEW q \in DOMAIN payments
      PROVE  /\ payments'[q] \in PaymentRow
             /\ payments'[q].type = payments[q].type /\ payments'[q].order = payments[q].order
             /\ payments'[q].amount = payments[q].amount
             /\ payments'[q].gateway = payments[q].gateway
             /\ payments'[q].status = IF q = p THEN s ELSE payments[q].status
  <2>1. payments[q] \in PaymentRow
    BY RowTyped
  <2>2. QED
    BY <1>1, <2>1 DEF PaymentRow
<1>3. payments' = [q \in DOMAIN payments |-> payments'[q]]
  OBVIOUS
<1>4. \A q \in DOMAIN payments : payments'[q] \in PaymentRow
  BY <1>2
<1>5. payments' \in Seq(PaymentRow) /\ DOMAIN payments' = DOMAIN payments
      /\ Len(payments') = Len(payments)
  BY <1>3, <1>4, RowsWritten
<1>6. QED
  BY <1>2, <1>5

LEMMA GatewayWritten ==
  ASSUME PaymentsInv, NEW p \in DOMAIN payments, NEW g \in {"open", "paid", "refunded", "none"},
         payments' = [payments EXCEPT ![p].gateway = g]
  PROVE  /\ payments' \in Seq(PaymentRow) /\ DOMAIN payments' = DOMAIN payments
         /\ Len(payments') = Len(payments)
         /\ \A q \in DOMAIN payments :
              /\ payments'[q].type = payments[q].type /\ payments'[q].order = payments[q].order
              /\ payments'[q].amount = payments[q].amount
              /\ payments'[q].status = payments[q].status
              /\ payments'[q].gateway = IF q = p THEN g ELSE payments[q].gateway
<1>1. \A q \in DOMAIN payments :
        payments'[q] = IF q = p THEN [payments[p] EXCEPT !.gateway = g] ELSE payments[q]
  OBVIOUS
<1>2. ASSUME NEW q \in DOMAIN payments
      PROVE  /\ payments'[q] \in PaymentRow
             /\ payments'[q].type = payments[q].type /\ payments'[q].order = payments[q].order
             /\ payments'[q].amount = payments[q].amount
             /\ payments'[q].status = payments[q].status
             /\ payments'[q].gateway = IF q = p THEN g ELSE payments[q].gateway
  <2>1. payments[q] \in PaymentRow
    BY RowTyped
  <2>2. QED
    BY <1>1, <2>1 DEF PaymentRow
<1>3. payments' = [q \in DOMAIN payments |-> payments'[q]]
  OBVIOUS
<1>4. \A q \in DOMAIN payments : payments'[q] \in PaymentRow
  BY <1>2
<1>5. payments' \in Seq(PaymentRow) /\ DOMAIN payments' = DOMAIN payments
      /\ Len(payments') = Len(payments)
  BY <1>3, <1>4, RowsWritten
<1>6. QED
  BY <1>2, <1>5

\* Rows are as many and of the same orders: with and without a move of w.
SameRows ==
  /\ entry' \in EntryRow /\ stops' \in 0..MaxStops /\ UNCHANGED <<orders, invoices>>
  /\ payments' \in Seq(PaymentRow) /\ DOMAIN payments' = DOMAIN payments
  /\ Len(payments') = Len(payments)
  /\ \A p \in DOMAIN payments : payments'[p].order = payments[p].order
  /\ notices' \subseteq Notice /\ \A n \in notices' : n.p \in DOMAIN payments

LEMMA SameRowsTyped ==
  ASSUME PaymentsInv, SameRows, NEW w \in Handlers, NEW r \in Request,
         req' = [req EXCEPT ![w] = r], HandOK(w, r),
         r.at \notin OrderMakers, r.at \notin PaymentMakers
  PROVE  PaymentsInv'
<1>1. RowsGrow
  BY DEF RowsGrow, SameRows, PaymentsInv, TypeOK
<1>2. HandOK(w, r)' /\ OrderFit(w, r) /\ PaymentFit(w, r)
  BY DEF HandOK, SameRows, OrderFit, PaymentFit
<1>3. QED
  BY <1>1, <1>2, TypesKept

LEMMA NobodyMoves ==
  ASSUME PaymentsInv, SameRows, UNCHANGED req
  PROVE  PaymentsInv'
<1>1. TypeOK'
  BY DEF SameRows, PaymentsInv, TypeOK
<1>2. \A w \in Handlers : HandOK(w, req[w])'
  BY DEF SameRows, PaymentsInv, HandOK
<1>3. \A P : Makers(P)' = Makers(P) /\ Making(P)' = Making(P)
  BY DEF Makers, Making
<1>4. Fits(OrderMakers, Len(orders), MaxOrders)' /\ Fits(PaymentMakers, Len(payments), MaxPayments)'
  <2>1. Makers(OrderMakers)' = Makers(OrderMakers) /\ Making(OrderMakers)' = Making(OrderMakers)
        /\ Makers(PaymentMakers)' = Makers(PaymentMakers)
        /\ Making(PaymentMakers)' = Making(PaymentMakers)
    BY DEF Makers, Making, OrderMakers, PaymentMakers
  <2>2. QED
    BY <2>1 DEF PaymentsInv, SameRows, Fits
<1>5. QED
  BY <1>1, <1>2, <1>4 DEF PaymentsInv, SameRows

\* The one handler that moves payment p on to CAPTURED will credit it, if it
\* is a deposit.
LEMMA CaptureKeepsMoney ==
  ASSUME ~LateNotices, PaymentsInv, MoneyInv, NEW w \in Handlers, NEW r \in Request,
         req' = [req EXCEPT ![w] = r], NEW p \in DOMAIN payments, p = req[w].p, r.p = p,
         req[w].at = "capture.update", payments[p].status # "CAPTURED",
         payments' = [payments EXCEPT ![p].status = "CAPTURED"],
         UNCHANGED <<entry, notices, stops>>,
         \/ r.at = "capture.credit" /\ payments[p].type = "DEPOSIT"
         \/ r.at = "complete.read" /\ payments[p].type = "FINAL"
  PROVE  MoneyInv'
<1>1. /\ DOMAIN payments' = DOMAIN payments
      /\ \A q \in DOMAIN payments :
           /\ payments'[q].type = payments[q].type /\ payments'[q].amount = payments[q].amount
           /\ payments'[q].gateway = payments[q].gateway
           /\ payments'[q].status = IF q = p THEN "CAPTURED" ELSE payments[q].status
  BY StatusWritten
<1>2. \A v \in Handlers : req'[v] = IF v = w THEN r ELSE req[v]
  BY HandTyped
<1>3. payments[p].gateway = "paid" /\ payments[p].status \notin {"CAPTURED", "REFUNDED"}
      /\ RowMoney(p)
  BY DEF MoneyInv, MoneyHand, CapturePoints, RowMoney
<1>4. ASSUME NEW q \in DOMAIN payments, Refundable(q) PROVE Refundable(q)'
  <2>1. q # p
    BY <1>3, <1>4 DEF Refundable
  <2>2. Heard(q)'
    <3>1. Heard(q) /\ req[w].at \in CapturePoints /\ req[w].p = r.p
      BY <1>4 DEF Refundable, CapturePoints
    <3>2. QED
      BY <3>1, HeardKept
  <2>3. QED
    BY <1>1, <1>4, <2>1, <2>2 DEF Refundable
<1>5. ASSUME NEW q \in DOMAIN payments' PROVE RowMoney(q)'
  <2>1. q \in DOMAIN payments /\ RowMoney(q)
    BY <1>1, <1>5 DEF MoneyInv
  <2>2. payments[q].gateway = "refunded" => Refundable(q)'
    BY <1>4, <2>1 DEF RowMoney
  <2>3. QED
    BY <1>1, <1>3, <2>1, <2>2 DEF RowMoney, DepositAmount
<1>6. ASSUME NEW n \in notices' PROVE NoticeMoney(n)'
  BY <1>1 DEF MoneyInv, NoticeMoney, PaymentsInv
<1>7. ASSUME NEW v \in Handlers, req[v].at = "capture.credit" PROVE v # w /\ req[v].p # p
  BY <1>3, <1>7 DEF MoneyInv, MoneyHand
<1>8. ASSUME NEW v \in Handlers PROVE MoneyHand(v, req[v])'
  <2>1. ASSUME NEW u \in Handlers \ {w},
               \/ req[u].at \in CapturePoints \cup {"refund.mark"}
               \/ u \notin Clients /\ req[u].at # "idle"
        PROVE  /\ payments'[req[u].p].gateway = payments[req[u].p].gateway
               /\ req[u].p # p => payments'[req[u].p].status = payments[req[u].p].status
    <3>1. HandOK(u, req[u])
      BY HandTyped
    <3>2. req[u].p \in DOMAIN payments
      BY <2>1, <3>1 DEF HandOK, RefundPoints
    <3>3. QED
      BY <1>1, <3>2
  <2>2. \A u \in Handlers \ {w} :
           /\ (\/ req[u].at \in CapturePoints \cup {"refund.mark"}
               \/ u \notin Clients /\ req[u].at # "idle") =>
                payments'[req[u].p].gateway = payments[req[u].p].gateway
           /\ req[u].at = "capture.credit" =>
                payments'[req[u].p].status = payments[req[u].p].status
    BY <1>7, <2>1 DEF CapturePoints
  <2>3. MoneyHand(w, r)'
    BY <1>1, <1>3 DEF MoneyHand, CapturePoints, RefundPoints, InitiatePoints
  <2>4. \A q \in DOMAIN payments : payments'[q].type = payments[q].type
    BY <1>1
  <2>5. \A q \in DOMAIN payments : Refundable(q) => Refundable(q)'
    BY <1>4
  <2>6. QED
    BY <2>2, <2>3, <2>4, <2>5, HandsKept
<1>9. OneCredit'
  BY <1>2, <1>7 DEF MoneyInv, OneCredit, At
<1>10. Unmarked' = Unmarked
  BY <1>1, <1>2, <1>3 DEF Unmarked, At
<1>11. Due' = Due
  <2>1. ASSUME NEW q \in DOMAIN payments PROVE q \in Due' <=> q \in Due
    <3>1. CASE q = p
      BY <1>1, <1>2, <1>3, <3>1 DEF Due, PaymentsOf, At
    <3>2. CASE q # p
      BY <1>1, <1>2, <3>2 DEF Due, PaymentsOf, At
    <3>3. QED
      BY <3>1, <3>2
  <2>2. Due \subseteq DOMAIN payments /\ Due' \subseteq DOMAIN payments
    BY <1>1 DEF Due, PaymentsOf
  <2>3. QED
    BY <2>1, <2>2
<1>12. Cardinality(Unmarked)' <= stops' /\ Credited'
  BY <1>10, <1>11 DEF MoneyInv, Credited, DepositAmount
<1>13. QED
  BY <1>5, <1>6, <1>8, <1>9, <1>12 DEF MoneyInv

LEMMA CaptureUpdateKeeps ==
  ASSUME PaymentsInv, NEW w \in Handlers, CaptureUpdate(w), UNCHANGED stops
  PROVE  Kept
<1>1. /\ HandOK(w, req[w]) /\ req[w] \in Request /\ req[w].at = "capture.update"
      /\ UNCHANGED <<entry, orders, invoices, notices>>
  BY HandTyped DEF CaptureUpdate, At
<1>2. PICK p \in DOMAIN payments : p = req[w].p
  BY <1>1 DEF HandOK, CapturePoints
<1>3. CASE payments[p].status = "CAPTURED"
  <2>1. Grasps(w, Idle)
    BY <1>1, IdleGrasped
  <2>2. Reads(w, Idle)
    BY <1>1, <1>2, <1>3, <2>1 DEF CaptureUpdate, Goto, Reads
  <2>3. QED
    BY <2>2, IdleTyped, ReadsKeep
<1>4. CASE payments[p].status # "CAPTURED"
  <2>1. payments' = [payments EXCEPT ![p].status = "CAPTURED"]
    BY <1>2, <1>4 DEF CaptureUpdate
  <2>2. payments[p].type \in {"DEPOSIT", "FINAL"}
    BY RowTyped DEF PaymentRow
  <2>3. PICK r \in Request :
          /\ req' = [req EXCEPT ![w] = r] /\ r.p = p
          /\ \/ /\ r.at = "capture.credit" /\ payments[p].type = "DEPOSIT"
                /\ r.then = req[w].then
             \/ r.at = "complete.read" /\ payments[p].type = "FINAL" /\ r.then = "invoice.read"
    <3>1. CASE payments[p].type = "DEPOSIT"
      <4>1. [req[w] EXCEPT !.at = "capture.credit"] \in Request
        BY <1>1 DEF Request, Points
      <4>2. QED
        BY <1>1, <1>2, <1>4, <3>1, <4>1 DEF CaptureUpdate, MoveTo, Goto, Request
    <3>2. CASE payments[p].type = "FINAL"
      <4>1. [req[w] EXCEPT !.at = "complete.read", !.then = "invoice.read"] \in Request
        BY <1>1 DEF Request, Points
      <4>2. QED
        BY <1>1, <1>2, <1>4, <3>2, <4>1 DEF CaptureUpdate, Goto, Request
    <3>3. QED
      BY <2>2, <3>1, <3>2
  <2>4. /\ payments' \in Seq(PaymentRow) /\ DOMAIN payments' = DOMAIN payments
        /\ Len(payments') = Len(payments)
        /\ \A q \in DOMAIN payments :
             /\ payments'[q].type = payments[q].type /\ payments'[q].order = payments[q].order
             /\ payments'[q].status = IF q = p THEN "CAPTURED" ELSE payments[q].status
    BY <2>1, StatusWritten
  <2>5. PaymentsInv'
    <3>1. SameRows
      BY <1>1, <2>4 DEF SameRows, PaymentsInv, TypeOK
    <3>2. HandOK(w, r)
      BY <1>1, <2>3 DEF HandOK, CapturePoints, RefundPoints, OrderPoints, InitiatePoints, HookPoints
    <3>3. QED
      BY <2>3, <3>1, <3>2, SameRowsTyped DEF OrderMakers, PaymentMakers
  <2>6. ASSUME ~LateNotices, MoneyInv PROVE MoneyInv'
    BY <1>1, <1>2, <1>4, <2>1, <2>3, <2>6, CaptureKeepsMoney
  <2>7. ASSUME SerialInv(w) PROVE SerialInv(w)' /\ CancelOK(req[w])'
    <3>1. ~Closed /\ entry' = entry /\ req'[w] = r /\ FinalOK(req[w])
      BY <1>1, <2>3, <2>7, HandTyped DEF SerialInv, StillTrue
    <3>2. ~(Cardinality(FinalPayments) > stops)
      BY <1>1, <3>1 DEF FinalOK, Closed
    <3>3. FinalOK(req[w])'
      <4>1. CASE payments[p].type = "DEPOSIT"
        <5>1. FinalPayments' = FinalPayments
          BY <2>4, <4>1 DEF FinalPayments, PaymentsOf
        <5>2. QED
          BY <3>2, <5>1 DEF FinalOK
      <4>2. CASE payments[p].type = "FINAL"
        <5>1. FinalPayments' = FinalPayments \cup {p}
          BY <2>4, <4>2 DEF FinalPayments, PaymentsOf
        <5>2. IsFiniteSet(FinalPayments) /\ Cardinality(FinalPayments) \in Nat /\ stops \in Nat
          BY Countable
        <5>3. Cardinality(FinalPayments \cup {p}) \in
                {Cardinality(FinalPayments), Cardinality(FinalPayments) + 1}
          BY <5>2, FS_AddElement
        <5>4. QED
          BY <2>3, <3>1, <3>2, <4>2, <5>1, <5>2, <5>3 DEF FinalOK
      <4>3. QED
        BY <2>2, <4>1, <4>2
    <3>4. StillTrue(req[w])' /\ CancelOK(req[w])'
      BY <2>3, <3>1 DEF StillTrue, CancelOK, RefundPoints, Closed
    <3>5. QED
      BY <3>3, <3>4 DEF SerialInv
  <2>8. QED
    BY <2>5, <2>6, <2>7, KeptBy
<1>5. QED
  BY <1>3, <1>4

LEMMA OneMore == \A k, d \in Nat : (k + 1) * d = k * d + d
  BY Z3

\* A credit makes one payment more that is due, and was not before.
LEMMA CreditKeepsMoney ==
  ASSUME ~LateNotices, PaymentsInv, MoneyInv, NEW w \in Handlers, req' = [req EXCEPT ![w] = Idle],
         NEW p \in DOMAIN payments, p = req[w].p, req[w].at = "capture.credit",
         entry'.depositPaid = entry.depositPaid + payments[p].amount,
         UNCHANGED <<payments, notices, stops>>
  PROVE  MoneyInv'
<1>1. \A v \in Handlers : req'[v] = IF v = w THEN Idle ELSE req[v]
  BY HandTyped
<1>2. payments[p].type = "DEPOSIT" /\ payments[p].status = "CAPTURED"
      /\ payments[p].amount = DepositAmount
  BY DEF MoneyInv, MoneyHand, RowMoney
<1>3. ASSUME NEW q \in DOMAIN payments, Refundable(q) PROVE Refundable(q)'
  <2>1. Heard(q) /\ Idle.at \notin CapturePoints
    BY <1>3, IdleTyped DEF Refundable, CapturePoints
  <2>2. Heard(q)'
    BY <2>1, HeardKept
  <2>3. QED
    BY <1>3, <2>2 DEF Refundable
<1>4. ASSUME NEW q \in DOMAIN payments' PROVE RowMoney(q)'
  <2>1. q \in DOMAIN payments /\ RowMoney(q)
    BY <1>4 DEF MoneyInv
  <2>2. payments[q].gateway = "refunded" => Refundable(q)'
    BY <1>3, <2>1 DEF RowMoney
  <2>3. QED
    BY <2>1, <2>2 DEF RowMoney, DepositAmount
<1>5. ASSUME NEW n \in notices' PROVE NoticeMoney(n)'
  BY DEF MoneyInv, NoticeMoney
<1>6. \A v \in Handlers : MoneyHand(v, req[v])'
  <2>1. MoneyHand(w, Idle)'
    BY IdleTyped DEF MoneyHand, CapturePoints, RefundPoints, InitiatePoints
  <2>2. \A q \in DOMAIN payments : Refundable(q) => Refundable(q)'
    BY <1>3
  <2>3. QED
    BY <2>1, <2>2, HandsKept
<1>7. OneCredit'
  BY <1>1, IdleTyped DEF MoneyInv, OneCredit, At
<1>8. Unmarked' = Unmarked
  BY <1>1, IdleTyped DEF Unmarked, At
<1>9. Due' = Due \cup {p} /\ p \notin Due
  <2>1. p \notin Due
    BY DEF Due, At
  <2>2. ASSUME NEW v \in Handlers, v # w, req[v].at = "capture.credit" PROVE req[v].p # p
    BY <2>2 DEF MoneyInv, OneCredit, At
  <2>3. ASSUME NEW q \in DOMAIN payments PROVE q \in Due' <=> q \in Due \/ q = p
    BY <1>1, <1>2, <2>2, IdleTyped DEF Due, PaymentsOf, At
  <2>4. Due \subseteq DOMAIN payments /\ Due' \subseteq DOMAIN payments
    BY DEF Due, PaymentsOf
  <2>5. QED
    BY <2>1, <2>3, <2>4
<1>10. Credited'
  <2>1. PICK k \in Nat : /\ entry.depositPaid = k * DepositAmount
                         /\ k <= Cardinality(Due) /\ Cardinality(Due) <= k + stops
    BY DEF MoneyInv, Credited
  <2>2. IsFiniteSet(Due) /\ Cardinality(Due) \in Nat /\ stops \in Nat
    BY Countable
  <2>3. Cardinality(Due \cup {p}) = Cardinality(Due) + 1
    BY <1>9, <2>2, FS_AddElement
  <2>4. entry'.depositPaid = (k + 1) * DepositAmount
    BY <1>2, <2>1, DepositTyped, OneMore
  <2>5. DepositAmount' = DepositAmount
    BY DEF DepositAmount
  <2>6. k + 1 \in Nat /\ k + 1 <= Cardinality(Due') /\ Cardinality(Due') <= (k + 1) + stops'
    BY <1>9, <2>1, <2>2, <2>3
  <2>7. QED
    BY <2>4, <2>5, <2>6 DEF Credited
<1>11. Cardinality(Unmarked)' <= stops'
  BY <1>8 DEF MoneyInv
<1>12. QED
  BY <1>4, <1>5, <1>6, <1>7, <1>10, <1>11 DEF MoneyInv

LEMMA CaptureCreditKeeps ==
  ASSUME PaymentsInv, NEW w \in Handlers, CaptureCredit(w), UNCHANGED stops
  PROVE  Kept
<1>1. /\ HandOK(w, req[w]) /\ req[w].at = "capture.credit" /\ req' = [req EXCEPT ![w] = Idle]
      /\ entry' = [entry EXCEPT !.depositPaid = @ + payments[req[w].p].amount]
      /\ UNCHANGED <<orders, payments, invoices, notices>>
  BY HandTyped DEF CaptureCredit, Goto, At
<1>2. PICK p \in DOMAIN payments : p = req[w].p
  BY <1>1 DEF HandOK, CapturePoints
<1>3. entry' \in EntryRow /\ entry'.status = entry.status
      /\ entry'.depositPaid = entry.depositPaid + payments[p].amount
  <2>1. payments[p].amount \in Nat
    BY RowTyped
  <2>2. entry \in EntryRow /\ entry' = [entry EXCEPT !.depositPaid = @ + payments[p].amount]
    BY <1>1, <1>2 DEF PaymentsInv, TypeOK
  <2>3. QED
    BY <2>1, <2>2 DEF EntryRow
<1>4. PaymentsInv'
  <2>1. SameRows
    BY <1>1, <1>3 DEF SameRows, PaymentsInv, TypeOK
  <2>2. HandOK(w, Idle)
    BY IdleTyped DEF HandOK, CapturePoints, RefundPoints, OrderPoints, InitiatePoints
  <2>3. QED
    BY <1>1, <2>1, <2>2, IdleTyped, SameRowsTyped DEF OrderMakers, PaymentMakers
<1>5. ~LateNotices /\ MoneyInv => MoneyInv'
  BY <1>1, <1>2, <1>3, CreditKeepsMoney
<1>6. ASSUME SerialInv(w)
      PROVE  SerialInv(w)' /\ (CancelOK(req[w]) => CancelOK(req[w])')
  <2>1. req'[w] = Idle /\ FinalOK(req[w])
    BY <1>1, <1>6, HandTyped DEF SerialInv
  <2>2. FinalPayments' = FinalPayments /\ Billable' = Billable /\ Returned' = Returned
    BY <1>1 DEF FinalPayments, PaymentsOf, Billable, LatestPreOrder, OrdersOf, Returned
  <2>3. StillTrue(req[w])'
    BY <2>1, IdleTyped DEF StillTrue, RefundPoints
  <2>4. FinalOK(req[w])' /\ (CancelOK(req[w]) => CancelOK(req[w])')
    BY <1>1, <1>3, <2>1, <2>2, IdleTyped DEF FinalOK, CancelOK
  <2>5. QED
    BY <2>3, <2>4 DEF SerialInv
<1>7. QED
  BY <1>4, <1>5, <1>6, KeptBy

\* What the gateway returns was heard of in full, and is about to be marked.
LEMMA ReturnKeepsMoney ==
  ASSUME ~LateNotices, PaymentsInv, MoneyInv, NEW w \in Handlers, NEW r \in Request,
         req' = [req EXCEPT ![w] = r], NEW p \in DOMAIN payments, p = req[w].p, r.p = p,
         req[w].at = "refund.gateway", r.at = "refund.mark", w \in Clients,
         payments[p].gateway = "paid",
         payments' = [payments EXCEPT ![p].gateway = "refunded"],
         UNCHANGED <<entry, notices, stops>>
  PROVE  MoneyInv'
<1>1. /\ DOMAIN payments' = DOMAIN payments
      /\ \A q \in DOMAIN payments :
           /\ payments'[q].type = payments[q].type /\ payments'[q].amount = payments[q].amount
           /\ payments'[q].status = payments[q].status
           /\ payments'[q].gateway = IF q = p THEN "refunded" ELSE payments[q].gateway
  BY GatewayWritten
<1>2. \A v \in Handlers : req'[v] = IF v = w THEN r ELSE req[v]
  BY HandTyped
<1>3. Refundable(p) /\ RowMoney(p)
  BY DEF MoneyInv, MoneyHand, RefundPoints
<1>4. ASSUME NEW q \in DOMAIN payments, Refundable(q) PROVE Refundable(q)'
  <2>1. Heard(q) /\ r.at \notin CapturePoints
    BY <1>4 DEF Refundable, CapturePoints
  <2>2. Heard(q)'
    BY <2>1, HeardKept
  <2>3. QED
    BY <1>1, <1>4, <2>2 DEF Refundable
<1>5. ASSUME NEW q \in DOMAIN payments' PROVE RowMoney(q)'
  <2>1. q \in DOMAIN payments /\ RowMoney(q)
    BY <1>1, <1>5 DEF MoneyInv
  <2>2. q = p \/ payments[q].gateway = "refunded" => Refundable(q)'
    BY <1>3, <1>4, <2>1 DEF RowMoney
  <2>3. QED
    BY <1>1, <2>1, <2>2 DEF RowMoney, DepositAmount
<1>6. ASSUME NEW n \in notices' PROVE NoticeMoney(n)'
  <2>1. n \in notices /\ n.p # p /\ n.p \in DOMAIN payments
    BY <1>3 DEF Refundable, Heard, PaymentsInv
  <2>2. QED
    BY <1>1, <2>1 DEF MoneyInv, NoticeMoney
<1>7. \A v \in Handlers : MoneyHand(v, req[v])'
  <2>1. ASSUME NEW u \in Handlers \ {w},
               \/ req[u].at \in CapturePoints \cup {"refund.mark"}
               \/ u \notin Clients /\ req[u].at # "idle"
        PROVE  payments'[req[u].p].gateway = payments[req[u].p].gateway
    <3>1. HandOK(u, req[u]) /\ MoneyHand(u, req[u])
      BY HandTyped DEF MoneyInv
    <3>2. req[u].p \in DOMAIN payments
      BY <2>1, <3>1 DEF HandOK, RefundPoints
    <3>3. req[u].at \in CapturePoints => req[u].p # p
      BY <1>3 DEF Refundable, Heard
    <3>4. req[u].at = "refund.mark" => req[u].p # p
      BY <3>1 DEF MoneyHand
    <3>5. u \notin Clients /\ req[u].at # "idle" => req[u].p # p
      BY <1>3, <3>1, <3>3 DEF MoneyHand, Refundable
    <3>6. QED
      BY <1>1, <2>1, <3>2, <3>3, <3>4, <3>5
  <2>2. \A u \in Handlers \ {w} :
           /\ (\/ req[u].at \in CapturePoints \cup {"refund.mark"}
               \/ u \notin Clients /\ req[u].at # "idle") =>
                payments'[req[u].p].gateway = payments[req[u].p].gateway
           /\ req[u].at = "capture.credit" =>
                payments'[req[u].p].status = payments[req[u].p].status
    <3>1. \A u \in Handlers \ {w} : req[u].at = "capture.credit" => req[u].p \in DOMAIN payments
      BY DEF PaymentsInv, HandOK, CapturePoints
    <3>2. QED
      BY <1>1, <2>1, <3>1
  <2>3. Refundable(p)' /\ payments'[p].gateway = "refunded"
    BY <1>1, <1>3, <1>4
  <2>4. MoneyHand(w, r)'
    BY <2>3 DEF MoneyHand, CapturePoints, RefundPoints, InitiatePoints
  <2>5. \A q \in DOMAIN payments : payments'[q].type = payments[q].type
    BY <1>1
  <2>6. \A q \in DOMAIN payments : Refundable(q) => Refundable(q)'
    BY <1>4
  <2>7. QED
    BY <2>2, <2>4, <2>5, <2>6, HandsKept
<1>8. OneCredit'
  BY <1>2 DEF MoneyInv, OneCredit, At
<1>9. Unmarked' = Unmarked
  <2>1. ASSUME NEW q \in DOMAIN payments PROVE q \in Unmarked' <=> q \in Unmarked
    <3>1. CASE q = p
      BY <1>1, <1>2, <3>1 DEF Unmarked, At
    <3>2. CASE q # p
      BY <1>1, <1>2, <3>2 DEF Unmarked, At
    <3>3. QED
      BY <3>1, <3>2
  <2>2. Unmarked \subseteq DOMAIN payments /\ Unmarked' \subseteq DOMAIN payments
    BY <1>1 DEF Unmarked
  <2>3. QED
    BY <2>1, <2>2
<1>10. Due' = Due
  <2>1. PaymentsOf("DEPOSIT", {"CAPTURED", "REFUNDED"})' = PaymentsOf("DEPOSIT", {"CAPTURED", "REFUNDED"})
    BY <1>1 DEF PaymentsOf
  <2>2. \A v \in Handlers : /\ At(v, "capture.credit")' <=> At(v, "capture.credit")
                            /\ At(v, "capture.credit") => req'[v].p = req[v].p
    BY <1>2 DEF At
  <2>3. QED
    BY <2>1, <2>2 DEF Due
<1>11. Cardinality(Unmarked)' <= stops' /\ Credited'
  BY <1>9, <1>10 DEF MoneyInv, Credited, DepositAmount
<1>12. QED
  BY <1>5, <1>6, <1>7, <1>8, <1>11 DEF MoneyInv

LEMMA RefundGatewayKeeps ==
  ASSUME PaymentsInv, NEW w \in Handlers, RefundGateway(w), UNCHANGED stops
  PROVE  Kept
<1>1. /\ HandOK(w, req[w]) /\ req[w] \in Request /\ At(w, "refund.gateway")
      /\ UNCHANGED <<entry, orders, invoices, notices>>
  BY HandTyped DEF RefundGateway
<1>2. PICK p \in DOMAIN payments : p = req[w].p
  BY <1>1 DEF HandOK, RefundPoints, At
<1>3. w \in Clients
  BY <1>1 DEF HandOK, HookPoints, CapturePoints, At
<1>4. CASE /\ RefundMayFail \/ payments[p].gateway # "paid"
           /\ AfterRefund(w) /\ UNCHANGED payments
  BY <1>1, <1>2, <1>4, RefusedReads, ReadsKeep
<1>5. CASE /\ payments[p].gateway = "paid" /\ MoveTo(w, "refund.mark")
           /\ payments' = [payments EXCEPT ![p].gateway = "refunded"]
  <2>1. PICK r \in Request :
          req' = [req EXCEPT ![w] = r] /\ r.at = "refund.mark" /\ r.p = p /\ r.then = req[w].then
    <3>1. [req[w] EXCEPT !.at = "refund.mark"] \in Request
      BY <1>1 DEF Request, Points
    <3>2. QED
      BY <1>1, <1>2, <1>5, <3>1 DEF MoveTo, Goto, Request
  <2>2. /\ payments' \in Seq(PaymentRow) /\ DOMAIN payments' = DOMAIN payments
        /\ Len(payments') = Len(payments)
        /\ \A q \in DOMAIN payments :
             /\ payments'[q].type = payments[q].type /\ payments'[q].order = payments[q].order
             /\ payments'[q].status = payments[q].status
             /\ payments'[q].gateway = IF q = p THEN "refunded" ELSE payments[q].gateway
    BY <1>5, GatewayWritten
  <2>3. PaymentsInv'
    <3>1. SameRows
      BY <1>1, <2>2 DEF SameRows, PaymentsInv, TypeOK
    <3>2. HandOK(w, r)
      BY <1>3, <2>1 DEF HandOK, CapturePoints, RefundPoints, OrderPoints, InitiatePoints
    <3>3. QED
      BY <2>1, <3>1, <3>2, SameRowsTyped DEF OrderMakers, PaymentMakers
  <2>4. ~LateNotices /\ MoneyInv => MoneyInv'
    BY <1>1, <1>2, <1>3, <1>5, <2>1, ReturnKeepsMoney DEF At
  <2>5. ASSUME SerialInv(w) PROVE SerialInv(w)' /\ CancelOK(req[w])'
    <3>1. req'[w] = r /\ FinalOK(req[w]) /\ entry' = entry /\ StillTrue(req[w])
      BY <1>1, <2>1, <2>5, HandTyped DEF SerialInv
    <3>2. FinalPayments' = FinalPayments /\ Billable' = Billable
      BY <1>1, <2>2 DEF FinalPayments, PaymentsOf, Billable, LatestPreOrder, OrdersOf
    <3>3. Returned'
      BY <2>2 DEF Returned
    <3>4. StillTrue(req[w])' /\ FinalOK(req[w])'
      BY <1>1, <2>1, <3>1, <3>2 DEF StillTrue, FinalOK, RefundPoints, At
    <3>5. QED
      BY <3>3, <3>4 DEF SerialInv, CancelOK
  <2>6. QED
    BY <2>3, <2>4, <2>5, KeptBy
<1>6. QED
  BY <1>2, <1>4, <1>5 DEF RefundGateway

\* What is marked was returned, and nobody else has it to credit.
LEMMA MarkKeepsMoney ==
  ASSUME ~LateNotices, PaymentsInv, MoneyInv, NEW w \in Clients, NEW r \in Request,
         req' = [req EXCEPT ![w] = r], NEW p \in DOMAIN payments, p = req[w].p,
         req[w].at = "refund.mark", r.at \in {"idle", "cancel.tx"},
         payments' = [payments EXCEPT ![p].status = "REFUNDED"],
         UNCHANGED <<entry, notices, stops>>, PaymentsInv'
  PROVE  MoneyInv'
<1>1. /\ DOMAIN payments' = DOMAIN payments
      /\ \A q \in DOMAIN payments :
           /\ payments'[q].type = payments[q].type /\ payments'[q].amount = payments[q].amount
           /\ payments'[q].gateway = payments[q].gateway
           /\ payments'[q].status = IF q = p THEN "REFUNDED" ELSE payments[q].status
  BY StatusWritten
<1>2. w \in Handlers /\ \A v \in Handlers : req'[v] = IF v = w THEN r ELSE req[v]
  BY HandTyped DEF Handlers
<1>3. Refundable(p) /\ RowMoney(p) /\ payments[p].gateway = "refunded"
  BY <1>2 DEF MoneyInv, MoneyHand, RefundPoints
<1>4. ASSUME NEW q \in DOMAIN payments, Refundable(q) PROVE Refundable(q)'
  <2>1. Heard(q) /\ r.at \notin CapturePoints
    BY <1>4 DEF Refundable, CapturePoints
  <2>2. Heard(q)'
    BY <1>2, <2>1, HeardKept
  <2>3. QED
    BY <1>1, <1>4, <2>2 DEF Refundable
<1>5. ASSUME NEW q \in DOMAIN payments' PROVE RowMoney(q)'
  <2>1. q \in DOMAIN payments /\ RowMoney(q)
    BY <1>1, <1>5 DEF MoneyInv
  <2>2. payments[q].gateway = "refunded" => Refundable(q)'
    BY <1>4, <2>1 DEF RowMoney
  <2>3. QED
    BY <1>1, <1>3, <2>1, <2>2 DEF RowMoney, DepositAmount
<1>6. ASSUME NEW n \in notices' PROVE NoticeMoney(n)'
  BY <1>1 DEF MoneyInv, NoticeMoney, PaymentsInv
<1>7. \A v \in Handlers : req[v].at = "capture.credit" => req[v].p # p
  BY <1>3 DEF Refundable, Heard, CapturePoints
<1>8. \A v \in Handlers : MoneyHand(v, req[v])'
  <2>1. \A u \in Handlers \ {w} :
           /\ (\/ req[u].at \in CapturePoints \cup {"refund.mark"}
               \/ u \notin Clients /\ req[u].at # "idle") =>
                payments'[req[u].p].gateway = payments[req[u].p].gateway
           /\ req[u].at = "capture.credit" =>
                payments'[req[u].p].status = payments[req[u].p].status
    BY <1>1, <1>7 DEF PaymentsInv, HandOK, CapturePoints, RefundPoints
  <2>2. MoneyHand(w, r)'
    BY DEF MoneyHand, CapturePoints, RefundPoints, InitiatePoints
  <2>3. \A q \in DOMAIN payments : payments'[q].type = payments[q].type
    BY <1>1
  <2>4. \A q \in DOMAIN payments : Refundable(q) => Refundable(q)'
    BY <1>4
  <2>5. QED
    BY <1>2, <2>1, <2>2, <2>3, <2>4, HandsKept
<1>9. OneCredit'
  BY <1>2 DEF MoneyInv, OneCredit, At
<1>10. Unmarked' \subseteq Unmarked
  <2>1. ASSUME NEW q \in DOMAIN payments, q \in Unmarked' PROVE q \in Unmarked
    <3>1. q # p
      BY <1>1, <2>1 DEF Unmarked
    <3>2. QED
      BY <1>1, <1>2, <2>1, <3>1 DEF Unmarked, At
  <2>2. Unmarked' \subseteq DOMAIN payments
    BY <1>1 DEF Unmarked
  <2>3. QED
    BY <2>1, <2>2
<1>11. Due' = Due
  <2>1. ASSUME NEW q \in DOMAIN payments PROVE q \in Due' <=> q \in Due
    BY <1>1, <1>2, <1>3 DEF Due, PaymentsOf, At, Refundable
  <2>2. Due \subseteq DOMAIN payments /\ Due' \subseteq DOMAIN payments
    BY <1>1 DEF Due, PaymentsOf
  <2>3. QED
    BY <2>1, <2>2
<1>12. Cardinality(Unmarked)' <= stops'
  <2>1. IsFiniteSet(Unmarked) /\ Cardinality(Unmarked) \in Nat /\ stops \in Nat
    BY Countable
  <2>2. IsFiniteSet(Unmarked') /\ Cardinality(Unmarked') <= Cardinality(Unmarked)
        /\ Cardinality(Unmarked') \in Nat
    BY <1>10, <2>1, FS_Subset, FS_CardinalityType
  <2>3. QED
    BY <2>1, <2>2 DEF MoneyInv
<1>13. Credited'
  BY <1>11 DEF MoneyInv, Credited, DepositAmount
<1>14. QED
  BY <1>5, <1>6, <1>8, <1>9, <1>12, <1>13 DEF MoneyInv

LEMMA RefundMarkKeeps ==
  ASSUME PaymentsInv, NEW w \in Handlers, RefundMark(w), UNCHANGED stops
  PROVE  Kept
<1>1. /\ HandOK(w, req[w]) /\ req[w] \in Request /\ req[w].at = "refund.mark" /\ AfterRefund(w)
      /\ UNCHANGED <<entry, orders, invoices, notices>>
      /\ payments' = [payments EXCEPT ![req[w].p].status = "REFUNDED"]
  BY HandTyped DEF RefundMark, At
<1>2. PICK p \in DOMAIN payments : p = req[w].p
  BY <1>1 DEF HandOK, RefundPoints
<1>3. w \in Clients
  BY <1>1 DEF HandOK, HookPoints, CapturePoints
<1>4. PICK r \in Request :
        /\ req' = [req EXCEPT ![w] = r]
        /\ \/ r.at = "idle" /\ r.then = "idle"
           \/ r.at = "cancel.tx" /\ r.then = "cancel.tx" /\ req[w].then = "cancel.tx"
  BY <1>1, RefundEnds
<1>5. /\ payments' \in Seq(PaymentRow) /\ DOMAIN payments' = DOMAIN payments
      /\ Len(payments') = Len(payments)
      /\ \A q \in DOMAIN payments :
           /\ payments'[q].type = payments[q].type /\ payments'[q].order = payments[q].order
           /\ payments'[q].gateway = payments[q].gateway
           /\ payments'[q].status = IF q = p THEN "REFUNDED" ELSE payments[q].status
  BY <1>1, <1>2, StatusWritten
<1>6. PaymentsInv'
  <2>1. SameRows
    BY <1>1, <1>5 DEF SameRows, PaymentsInv, TypeOK
  <2>2. HandOK(w, r)
    BY <1>3, <1>4 DEF HandOK, CapturePoints, RefundPoints, OrderPoints, InitiatePoints
  <2>3. QED
    BY <1>4, <2>1, <2>2, SameRowsTyped DEF OrderMakers, PaymentMakers
<1>7. ~LateNotices /\ MoneyInv => MoneyInv'
  BY <1>1, <1>2, <1>3, <1>4, <1>6, MarkKeepsMoney
<1>8. ASSUME SerialInv(w)
      PROVE  SerialInv(w)' /\ (MoneyInv => CancelOK(req[w])')
  <2>1. req'[w] = r /\ FinalOK(req[w]) /\ entry' = entry /\ StillTrue(req[w])
    BY <1>1, <1>4, <1>8, HandTyped DEF SerialInv
  <2>2. FinalPayments' \subseteq FinalPayments /\ Billable' = Billable
    BY <1>1, <1>5 DEF FinalPayments, PaymentsOf, Billable, LatestPreOrder, OrdersOf
  <2>3. FinalOK(req[w])'
    BY <1>1, <1>6, <2>1, <2>2, FinalShrinks DEF FinalOK
  <2>4. StillTrue(req[w])'
    BY <1>1, <1>4, <2>1 DEF StillTrue, RefundPoints
  <2>5. MoneyInv => CancelOK(req[w])'
    <3>1. MoneyInv => payments'[p].gateway = "refunded"
      BY <1>1, <1>2, <1>5 DEF MoneyInv, MoneyHand
    <3>2. QED
      BY <1>5, <3>1 DEF CancelOK, Returned
  <2>6. QED
    BY <2>3, <2>4, <2>5 DEF SerialInv
<1>9. QED
  BY <1>6, <1>7, <1>8, KeptBy

-----------------------------------------------------------------------------
(* The gateway and the webhook *)

\* Handlers do nothing.  The gateway touches only a payment still open.
LEMMA GatewayKeepsMoney ==
  ASSUME ~LateNotices, PaymentsInv, MoneyInv, NEW p \in DOMAIN payments,
         payments[p].gateway = "open", DOMAIN payments' = DOMAIN payments,
         \A q \in DOMAIN payments :
           /\ payments'[q].type = payments[q].type /\ payments'[q].amount = payments[q].amount
           /\ payments'[q].status = payments[q].status
           /\ q # p => payments'[q].gateway = payments[q].gateway,
         payments'[p].gateway \in {"open", "paid"},
         \A n \in notices' : n \in notices \/ n.p = p,
         \A n \in notices' : n.p = p => NoticeMoney(n)',
         UNCHANGED <<entry, req, stops>>
  PROVE  MoneyInv'
<1>1. payments[p].status \notin {"CAPTURED", "REFUNDED"} /\ RowMoney(p)
  BY DEF MoneyInv, RowMoney
<1>2. ASSUME NEW q \in DOMAIN payments, Refundable(q) PROVE Refundable(q)'
  <2>1. q # p
    BY <1>1, <1>2 DEF Refundable
  <2>2. QED
    BY <1>2, <2>1 DEF Refundable, Heard
<1>3. ASSUME NEW q \in DOMAIN payments' PROVE RowMoney(q)'
  <2>1. q \in DOMAIN payments /\ RowMoney(q)
    BY <1>3 DEF MoneyInv
  <2>2. payments[q].gateway = "refunded" => Refundable(q)'
    BY <1>2, <2>1 DEF RowMoney
  <2>3. QED
    BY <1>1, <2>1, <2>2 DEF RowMoney, DepositAmount
<1>4. ASSUME NEW n \in notices' PROVE NoticeMoney(n)'
  BY DEF MoneyInv, NoticeMoney, PaymentsInv
<1>5. ASSUME NEW v \in Handlers PROVE MoneyHand(v, req[v])'
  <2>1. HandOK(v, req[v]) /\ MoneyHand(v, req[v]) /\ req'[v] = req[v]
    BY HandTyped DEF MoneyInv
  <2>2. (req[v].at \in CapturePoints \cup {"refund.mark"} \/ (v \notin Clients /\ req[v].at # "idle")) =>
          /\ req[v].p \in DOMAIN payments /\ req[v].p # p
    BY <2>1 DEF HandOK, MoneyHand, RefundPoints
  <2>3. req[v].at \in RefundPoints => req[v].p \in DOMAIN payments /\ Refundable(req[v].p)
    BY <2>1 DEF HandOK, MoneyHand
  <2>4. req[v].at \in RefundPoints => Refundable(req[v].p)'
    BY <1>2, <2>1, <2>3
  <2>5. req[v].at \in RefundPoints =>
          payments'[req[v].p].status \in {"CAPTURED", "REFUNDED"} /\ Heard(req[v].p)'
    BY <2>1, <2>4 DEF Refundable
  <2>6. QED
    BY <2>1, <2>2, <2>5, OthersKeep DEF CapturePoints
<1>6. OneCredit'
  BY DEF MoneyInv, OneCredit, At
<1>7. Unmarked' = Unmarked
  <2>1. ASSUME NEW q \in DOMAIN payments PROVE q \in Unmarked' <=> q \in Unmarked
    BY DEF Unmarked, At
  <2>2. Unmarked \subseteq DOMAIN payments /\ Unmarked' \subseteq DOMAIN payments
    BY DEF Unmarked
  <2>3. QED
    BY <2>1, <2>2
<1>8. Due' = Due
  <2>1. PaymentsOf("DEPOSIT", {"CAPTURED", "REFUNDED"})' = PaymentsOf("DEPOSIT", {"CAPTURED", "REFUNDED"})
    BY DEF PaymentsOf
  <2>2. QED
    BY <2>1 DEF Due, At
<1>9. Cardinality(Unmarked)' <= stops' /\ Credited'
  BY <1>7, <1>8 DEF MoneyInv, Credited, DepositAmount
<1>10. QED
  BY <1>3, <1>4, <1>5, <1>6, <1>9 DEF MoneyInv

\* Nothing that one handler looks at is touched by the gateway.
LEMMA GatewayKeepsOrder ==
  ASSUME NEW w, UNCHANGED <<entry, orders, invoices, req, stops>>,
         DOMAIN payments' = DOMAIN payments,
         \A q \in DOMAIN payments :
           /\ payments'[q].type = payments[q].type /\ payments'[q].order = payments[q].order
           /\ payments'[q].status = payments[q].status
           /\ payments[q].gateway = "refunded" => payments'[q].gateway = "refunded"
  PROVE  /\ SerialInv(w) => SerialInv(w)'
         /\ CancelOK(req[w]) => CancelOK(req[w])'
<1>1. FinalPayments' = FinalPayments /\ Billable' = Billable
      /\ PaymentsOf("DEPOSIT", {"CAPTURED"})' = PaymentsOf("DEPOSIT", {"CAPTURED"})
  BY DEF FinalPayments, PaymentsOf, Billable, LatestPreOrder, OrdersOf
<1>2. Returned => Returned'
  <2>1. PaymentsOf("DEPOSIT", {"CAPTURED"}) \subseteq DOMAIN payments
    BY DEF PaymentsOf
  <2>2. QED
    BY <1>1, <2>1 DEF Returned
<1>3. QED
  BY <1>1, <1>2 DEF SerialInv, StillTrue, FinalOK, CancelOK, Closed

LEMMA GuestPaysKeeps ==
  ASSUME PaymentsInv, NEW p \in DOMAIN payments, GuestPays(p) \/ AttemptFails(p), UNCHANGED stops
  PROVE  Kept
<1>1. payments[p].gateway = "open" /\ UNCHANGED <<entry, orders, invoices, req>>
  BY DEF GuestPays, AttemptFails
<1>2. /\ payments' \in Seq(PaymentRow) /\ DOMAIN payments' = DOMAIN payments
      /\ Len(payments') = Len(payments)
      /\ \A q \in DOMAIN payments :
           /\ payments'[q].type = payments[q].type /\ payments'[q].order = payments[q].order
           /\ payments'[q].amount = payments[q].amount
           /\ payments'[q].status = payments[q].status
           /\ q # p => payments'[q].gateway = payments[q].gateway
      /\ payments'[p].gateway = IF GuestPays(p) THEN "paid" ELSE "open"
  <2>1. CASE GuestPays(p)
    <3>1. payments' = [payments EXCEPT ![p].gateway = "paid"]
      BY <2>1 DEF GuestPays
    <3>2. /\ payments' \in Seq(PaymentRow) /\ DOMAIN payments' = DOMAIN payments
          /\ Len(payments') = Len(payments)
          /\ \A q \in DOMAIN payments :
               /\ payments'[q].type = payments[q].type /\ payments'[q].order = payments[q].order
               /\ payments'[q].amount = payments[q].amount
               /\ payments'[q].status = payments[q].status
               /\ payments'[q].gateway = IF q = p THEN "paid" ELSE payments[q].gateway
      BY <3>1, GatewayWritten
    <3>3. QED
      BY <2>1, <3>2
  <2>2. CASE ~GuestPays(p)
    <3>1. UNCHANGED payments
      BY <2>2 DEF AttemptFails
    <3>2. QED
      BY <1>1, <2>2, <3>1 DEF PaymentsInv, TypeOK
  <2>3. QED
    BY <2>1, <2>2
<1>3. \A n \in notices' :
        \/ n \in notices
        \/ /\ n \in Notice /\ n.p = p
           /\ n.kind \in IF GuestPays(p) THEN {"payment.captured", "order.paid"}
                         ELSE {"payment.failed"}
  <2>1. p \in Nat
    BY RowTyped
  <2>2. CASE GuestPays(p)
    BY <2>1, <2>2 DEF GuestPays, Notice
  <2>3. CASE ~GuestPays(p)
    BY <2>1, <2>3 DEF AttemptFails, Notice
  <2>4. QED
    BY <2>2, <2>3
<1>4. PaymentsInv'
  <2>1. notices' \subseteq Notice /\ \A n \in notices' : n.p \in DOMAIN payments
    BY <1>3 DEF PaymentsInv, TypeOK
  <2>2. SameRows
    BY <1>1, <1>2, <2>1 DEF SameRows, PaymentsInv, TypeOK
  <2>3. QED
    BY <1>1, <2>2, NobodyMoves
<1>5. ASSUME ~LateNotices, MoneyInv PROVE MoneyInv'
  <2>1. ASSUME NEW n \in notices', n.p = p PROVE NoticeMoney(n)'
    <3>1. CASE n \in notices
      <4>1. n.kind = "payment.failed" /\ n \in Notice
        BY <1>1, <1>5, <2>1, <3>1 DEF MoneyInv, NoticeMoney, PaymentsInv, TypeOK
      <4>2. n = [p |-> p, kind |-> "payment.failed"]
        BY <2>1, <4>1 DEF Notice
      <4>3. ~GuestPays(p)
        BY <1>5, <3>1, <4>2 DEF GuestPays
      <4>4. QED
        BY <1>2, <2>1, <4>1, <4>3 DEF NoticeMoney
    <3>2. CASE n \notin notices
      BY <1>2, <1>3, <2>1, <3>2 DEF NoticeMoney
    <3>3. QED
      BY <3>1, <3>2
  <2>2. payments'[p].gateway \in {"open", "paid"}
    BY <1>2
  <2>3. QED
    BY <1>1, <1>2, <1>3, <1>5, <2>1, <2>2, GatewayKeepsMoney
<1>6. \A w : /\ SerialInv(w) => SerialInv(w)'
             /\ CancelOK(req[w]) => CancelOK(req[w])'
  BY <1>1, <1>2, GatewayKeepsOrder
<1>7. QED
  BY <1>4, <1>5, <1>6 DEF Kept

\* A failure is written, or a success begins a capture.
LEMMA DeliverKeeps ==
  ASSUME PaymentsInv, NEW w \in Handlers, NEW n \in notices, Deliver(w, n), UNCHANGED stops
  PROVE  Kept
<1>1. At(w, "idle") /\ notices' \subseteq notices /\ UNCHANGED <<entry, orders, invoices>>
  BY DEF Deliver
<1>2. PICK p \in DOMAIN payments : p = n.p
  BY DEF PaymentsInv
<1>3. CASE n.kind = "payment.failed"
  <2>1. UNCHANGED req /\ payments' = [payments EXCEPT ![p].status = "FAILED"]
    BY <1>2, <1>3 DEF Deliver
  <2>2. /\ payments' \in Seq(PaymentRow) /\ DOMAIN payments' = DOMAIN payments
        /\ Len(payments') = Len(payments)
        /\ \A q \in DOMAIN payments :
             /\ payments'[q].type = payments[q].type /\ payments'[q].order = payments[q].order
             /\ payments'[q].amount = payments[q].amount
             /\ payments'[q].gateway = payments[q].gateway
             /\ payments'[q].status = IF q = p THEN "FAILED" ELSE payments[q].status
    BY <2>1, StatusWritten
  <2>3. PaymentsInv'
    <3>1. SameRows
      BY <1>1, <2>2 DEF SameRows, PaymentsInv, TypeOK
    <3>2. QED
      BY <2>1, <3>1, NobodyMoves
  <2>4. ASSUME ~LateNotices, MoneyInv PROVE payments[p].status \in {"PENDING", "FAILED"}
    <3>1. payments[p].gateway = "open" /\ RowMoney(p)
      BY <1>2, <1>3, <2>4 DEF MoneyInv, NoticeMoney
    <3>2. payments[p].status \in {"PENDING", "CAPTURED", "FAILED", "REFUNDED"}
      BY RowTyped DEF PaymentRow
    <3>3. QED
      BY <3>1, <3>2 DEF RowMoney
  <2>5. ASSUME ~LateNotices, MoneyInv PROVE MoneyInv'
    <3>1. PICK r \in Request : r = req[w] /\ HandOK(w, r)
      BY HandTyped
    <3>2. req' = [req EXCEPT ![w] = r]
      BY <2>1, <3>1, HandTyped
    <3>3. MoneyReads(w, r)
      BY <1>1, <2>5, <3>1 DEF MoneyInv, MoneyReads, At
    <3>4. GivesUp
      BY <1>1, <2>2, <2>4, <2>5 DEF GivesUp
    <3>5. QED
      BY <1>1, <2>5, <3>1, <3>2, <3>3, <3>4, MoneyKept
  <2>6. ASSUME SerialInv(w)
        PROVE  /\ SerialInv(w)'
               /\ ~LateNotices /\ MoneyInv /\ CancelOK(req[w]) => CancelOK(req[w])'
    <3>1. req'[w] = req[w] /\ FinalOK(req[w]) /\ entry' = entry /\ StillTrue(req[w])
      BY <1>1, <2>1, <2>6 DEF SerialInv
    <3>2. FinalPayments' \subseteq FinalPayments /\ Billable' = Billable
      BY <1>1, <2>2 DEF FinalPayments, PaymentsOf, Billable, LatestPreOrder, OrdersOf
    <3>3. FinalOK(req[w])'
      BY <1>1, <2>3, <3>1, <3>2, FinalShrinks DEF FinalOK
    <3>4. StillTrue(req[w])'
      BY <1>1, <3>1 DEF StillTrue, Closed
    <3>5. ASSUME ~LateNotices, MoneyInv, Returned PROVE Returned'
      <4>1. FinalPayments' = FinalPayments
            /\ PaymentsOf("DEPOSIT", {"CAPTURED"})' = PaymentsOf("DEPOSIT", {"CAPTURED"})
        BY <2>2, <2>4, <3>5 DEF FinalPayments, PaymentsOf
      <4>2. PaymentsOf("DEPOSIT", {"CAPTURED"}) \subseteq DOMAIN payments
        BY DEF PaymentsOf
      <4>3. QED
        BY <1>1, <2>2, <3>5, <4>1, <4>2 DEF Returned
    <3>6. QED
      BY <3>1, <3>3, <3>4, <3>5 DEF SerialInv, CancelOK
  <2>7. QED
    BY <2>3, <2>5, <2>6, KeptBy
<1>4. CASE n.kind # "payment.failed"
  <2>1. CaptureRead(w, p) /\ UNCHANGED payments
    BY <1>2, <1>4 DEF Deliver
  <2>2. ~LateNotices /\ MoneyInv => payments[p].gateway = "paid"
    BY <1>2, <1>4 DEF MoneyInv, NoticeMoney
  <2>3. PICK r \in Request : req' = [req EXCEPT ![w] = r] /\ Grasps(w, r)
    BY <1>1, <2>1, <2>2, CaptureGrasped
  <2>4. Reads(w, r)
    BY <1>1, <2>1, <2>3 DEF Reads
  <2>5. QED
    BY <2>4, ReadsKeep
<1>5. QED
  BY <1>3, <1>4

-----------------------------------------------------------------------------
(* A handler is cut short *)

\* One payment more is left uncredited or unmarked.
LEMMA StopKeepsMoney ==
  ASSUME ~LateNotices, PaymentsInv, MoneyInv, NEW w \in Handlers, NEW r \in Request,
         req' = [req EXCEPT ![w] = r], req[w].at # "idle", r.at \in {"idle", "cancel.tx"},
         r.at = "cancel.tx" => w \in Clients,
         UNCHANGED <<entry, payments>>, stops' = stops + 1,
         \A n \in notices' :
           n \in notices \/ (w \notin Clients /\ n.p = req[w].p /\ n.kind # "payment.failed")
  PROVE  MoneyInv'
<1> DEFINE p == req[w].p
<1>1. \A v \in Handlers : req'[v] = IF v = w THEN r ELSE req[v]
  BY HandTyped
<1>2. MoneyHand(w, req[w])
  BY DEF MoneyInv
<1>3. ASSUME NEW q \in DOMAIN payments, Refundable(q) PROVE Refundable(q)'
  <2>1. w \notin Clients => p # q
    BY <1>2, <1>3 DEF MoneyHand, Refundable, Heard
  <2>2. Heard(q) /\ \A n \in notices' : n \in notices \/ n.p # q
    BY <1>3, <2>1 DEF Refundable
  <2>3. Heard(q)'
    BY <2>2, HeardKept DEF CapturePoints
  <2>4. QED
    BY <1>3, <2>3 DEF Refundable
<1>4. ASSUME NEW q \in DOMAIN payments' PROVE RowMoney(q)'
  <2>1. q \in DOMAIN payments /\ RowMoney(q)
    BY <1>4 DEF MoneyInv
  <2>2. payments[q].gateway = "refunded" => Refundable(q)'
    BY <1>3, <2>1 DEF RowMoney
  <2>3. QED
    BY <2>1, <2>2 DEF RowMoney, DepositAmount
<1>5. ASSUME NEW n \in notices' PROVE NoticeMoney(n)'
  <2>1. CASE n \in notices
    BY <2>1 DEF MoneyInv, NoticeMoney
  <2>2. CASE n \notin notices
    BY <1>2, <2>2 DEF MoneyHand, NoticeMoney
  <2>3. QED
    BY <2>1, <2>2
<1>6. \A v \in Handlers : MoneyHand(v, req[v])'
  <2>1. MoneyHand(w, r)'
    BY DEF MoneyHand, CapturePoints, RefundPoints, InitiatePoints
  <2>2. \A q \in DOMAIN payments : Refundable(q) => Refundable(q)'
    BY <1>3
  <2>3. QED
    BY <2>1, <2>2, HandsKept
<1>7. OneCredit'
  BY <1>1 DEF MoneyInv, OneCredit, At
<1>8. Unmarked' \subseteq Unmarked \cup {p}
  BY <1>1 DEF Unmarked, At
<1>9. Due \subseteq Due' /\ Due' \subseteq Due \cup {p}
  <2>1. PaymentsOf("DEPOSIT", {"CAPTURED", "REFUNDED"})' = PaymentsOf("DEPOSIT", {"CAPTURED", "REFUNDED"})
    BY DEF PaymentsOf
  <2>2. QED
    BY <1>1, <2>1 DEF Due, At
<1> HIDE DEF p
<1>10. /\ IsFiniteSet(Unmarked) /\ Cardinality(Unmarked) \in Nat /\ stops \in Nat
       /\ IsFiniteSet(Due) /\ Cardinality(Due) \in Nat
  BY Countable
<1>11. Cardinality(Unmarked)' <= stops'
  <2>1. IsFiniteSet(Unmarked \cup {p})
        /\ Cardinality(Unmarked \cup {p}) \in {Cardinality(Unmarked), Cardinality(Unmarked) + 1}
    BY <1>10, FS_AddElement
  <2>2. IsFiniteSet(Unmarked') /\ Cardinality(Unmarked') <= Cardinality(Unmarked \cup {p})
    BY <1>8, <2>1, FS_Subset
  <2>3. Cardinality(Unmarked') \in Nat /\ Cardinality(Unmarked) <= stops
    BY <2>2, FS_CardinalityType DEF MoneyInv
  <2>4. QED
    BY <1>10, <2>1, <2>2, <2>3
<1>12. Credited'
  <2>1. PICK k \in Nat : /\ entry.depositPaid = k * DepositAmount
                         /\ k <= Cardinality(Due) /\ Cardinality(Due) <= k + stops
    BY DEF MoneyInv, Credited
  <2>2. IsFiniteSet(Due \cup {p})
        /\ Cardinality(Due \cup {p}) \in {Cardinality(Due), Cardinality(Due) + 1}
    BY <1>10, FS_AddElement
  <2>3. IsFiniteSet(Due') /\ Cardinality(Due') <= Cardinality(Due \cup {p})
    BY <1>9, <2>2, FS_Subset
  <2>4. Cardinality(Due') \in Nat /\ Cardinality(Due) <= Cardinality(Due')
    BY <1>9, <2>3, FS_Subset, FS_CardinalityType
  <2>5. k <= Cardinality(Due') /\ Cardinality(Due') <= k + stops'
    BY <1>10, <2>1, <2>2, <2>3, <2>4
  <2>6. entry'.depositPaid = k * DepositAmount'
    BY <2>1 DEF DepositAmount
  <2>7. QED
    BY <2>5, <2>6 DEF Credited
<1>13. QED
  BY <1>4, <1>5, <1>6, <1>7, <1>11, <1>12 DEF MoneyInv

LEMMA HandlerStopsKeeps ==
  ASSUME PaymentsInv, NEW w \in Handlers, HandlerStops(w)
  PROVE  Kept
<1>1. /\ HandOK(w, req[w]) /\ req[w] \in Request /\ req[w].at # "idle"
      /\ stops < MaxStops /\ stops' = stops + 1
      /\ UNCHANGED <<entry, orders, payments, invoices>>
  BY HandTyped DEF HandlerStops, At
<1>2. PICK r \in Request :
        /\ req' = [req EXCEPT ![w] = r]
        /\ \/ r.at = "idle" /\ r.then = "idle"
           \/ /\ req[w].at = "refund.mark" /\ req[w].then = "cancel.tx"
              /\ r.at = "cancel.tx" /\ r.then = "cancel.tx"
  <2>1. CASE Goto(w, Idle)
    BY <2>1, IdleTyped DEF Goto
  <2>2. CASE At(w, "refund.mark") /\ AfterRefund(w)
    BY <2>2, RefundEnds DEF At
  <2>3. QED
    BY <2>1, <2>2 DEF HandlerStops
<1>3. \A n \in notices' :
        \/ n \in notices
        \/ /\ w \notin Clients /\ n \in Notice /\ n.p = req[w].p
           /\ n.kind \in {"payment.captured", "order.paid"}
  <2>1. req[w].p \in Nat
    BY HandTyped
  <2>2. ASSUME NEW k \in {"payment.captured", "order.paid"}
        PROVE  LET n == [p |-> req[w].p, kind |-> k]
               IN n \in Notice /\ n.p = req[w].p /\ n.kind \in {"payment.captured", "order.paid"}
    BY <2>1 DEF Notice
  <2>3. QED
    BY <2>2 DEF HandlerStops
<1>4. PaymentsInv'
  <2>1. stops' \in 0..MaxStops
    BY <1>1, BoundsTyped DEF PaymentsInv, TypeOK
  <2>2. w \notin Clients => req[w].p \in DOMAIN payments
    BY <1>1 DEF HandOK
  <2>3. notices' \subseteq Notice /\ \A n \in notices' : n.p \in DOMAIN payments
    BY <1>3, <2>2 DEF PaymentsInv, TypeOK
  <2>4. SameRows
    BY <1>1, <2>1, <2>3 DEF SameRows, PaymentsInv, TypeOK
  <2>5. HandOK(w, r)
    BY <1>1, <1>2 DEF HandOK, CapturePoints, RefundPoints, OrderPoints, InitiatePoints, HookPoints
  <2>6. QED
    BY <1>2, <2>4, <2>5, SameRowsTyped DEF OrderMakers, PaymentMakers
<1>5. req[w].at = "refund.mark" => w \in Clients
  BY <1>1 DEF HandOK, HookPoints, CapturePoints
<1>6. ~LateNotices /\ MoneyInv => MoneyInv'
  BY <1>1, <1>2, <1>3, <1>5, StopKeepsMoney
<1>7. ASSUME SerialInv(w)
      PROVE  SerialInv(w)' /\ (MoneyInv /\ CancelOK(req[w]) => CancelOK(req[w])')
  <2>1. req'[w] = r /\ FinalOK(req[w]) /\ StillTrue(req[w])
    BY <1>2, <1>7, HandTyped DEF SerialInv
  <2>2. FinalPayments' = FinalPayments /\ Returned' = Returned
    BY <1>1 DEF FinalPayments, PaymentsOf, Returned
  <2>3. FinalOK(req[w])'
    <3>1. Cardinality(FinalPayments) \in Nat /\ stops \in Nat
      BY Countable
    <3>2. QED
      BY <1>1, <2>1, <2>2, <3>1 DEF FinalOK
  <2>4. StillTrue(req[w])'
    BY <1>1, <1>2, <2>1 DEF StillTrue, RefundPoints
  <2>5. ASSUME MoneyInv, req[w].at = "refund.mark" PROVE Returned
    BY <1>1, <2>5 DEF MoneyInv, MoneyHand, Returned, HandOK, RefundPoints
  <2>6. MoneyInv /\ CancelOK(req[w]) => CancelOK(req[w])'
    BY <1>1, <1>2, <2>1, <2>2, <2>5 DEF CancelOK
  <2>7. QED
    BY <2>3, <2>4, <2>6 DEF SerialInv
<1>8. QED
  BY <1>4, <1>6, <1>7, KeptBy

-----------------------------------------------------------------------------
(* The invariants hold *)

LEMMA NextKeeps ==
  ASSUME PaymentsInv, Next
  PROVE  Kept
<1>1. ASSUME UNCHANGED stops, NEW w \in Handlers, NewRequest(w) PROVE Kept
  <2>1. CASE PreOrderRead(w)
    BY <1>1, <2>1, PreOrderReads, ReadsKeep
  <2>2. CASE TableOrderRead(w)
    BY <1>1, <2>2, TableOrderReads, ReadsKeep
  <2>3. CASE FinalBill(w)
    BY <1>1, <2>3, FinalBillReads, ReadsKeep
  <2>4. CASE CompleteRequest(w)
    BY <1>1, <2>4, CompleteRequestReads, ReadsKeep
  <2>5. CASE CancelRead(w)
    BY <1>1, <2>5, CancelRequestReads, ReadsKeep
  <2>6. CASE OfflineRead(w)
    BY <1>1, <2>6, OfflineReads, ReadsKeep
  <2>7. CASE EntryMoves(w)
    BY <1>1, <2>7, EntryMovesKeeps
  <2>8. CASE \E o \in DOMAIN orders : DepositRead(w, o)
    BY <1>1, <2>8, DepositReads, ReadsKeep
  <2>9. CASE \E p \in DOMAIN payments : ClientCapture(w, p)
    BY <1>1, <2>9, ClientCaptureReads, ReadsKeep
  <2>10. CASE \E p \in DOMAIN payments : RefundRead(w, p)
    BY <1>1, <2>10, RefundReads, ReadsKeep
  <2>11. QED
    BY <1>1, <2>1, <2>2, <2>3, <2>4, <2>5, <2>6, <2>7, <2>8, <2>9, <2>10 DEF NewRequest
<1>2. ASSUME UNCHANGED stops, NEW w \in Handlers, Step(w) PROVE Kept
  <2>1. CASE PreOrderList(w)
    BY <1>2, <2>1, PreOrderReads, ReadsKeep
  <2>2. CASE PreOrderReplace(w)
    BY <1>2, <2>2, PreOrderReplaceKeeps
  <2>3. CASE BuildOrder(w)
    BY <1>2, <2>3, BuildOrderKeeps
  <2>4. CASE FinalEntry(w) \/ FinalOrders(w)
    BY <1>2, <2>4, FinalReads, ReadsKeep
  <2>5. CASE InitiateCaptured(w) \/ InitiatePending(w)
    BY <1>2, <2>5, InitiateReads, ReadsKeep
  <2>6. CASE InitiateCreate(w)
    BY <1>2, <2>6, InitiateCreateKeeps
  <2>7. CASE CaptureUpdate(w)
    BY <1>2, <2>7, CaptureUpdateKeeps
  <2>8. CASE CaptureCredit(w)
    BY <1>2, <2>8, CaptureCreditKeeps
  <2>9. CASE CompleteRead(w)
    BY <1>2, <2>9, CompleteReads, ReadsKeep
  <2>10. CASE CompleteTx(w)
    BY <1>2, <2>10, CompleteTxKeeps
  <2>11. CASE InvoiceRead(w)
    BY <1>2, <2>11, InvoiceReads, ReadsKeep
  <2>12. CASE InvoiceCreate(w)
    BY <1>2, <2>12, InvoiceCreateKeeps
  <2>13. CASE RefundGateway(w)
    BY <1>2, <2>13, RefundGatewayKeeps
  <2>14. CASE RefundMark(w)
    BY <1>2, <2>14, RefundMarkKeeps
  <2>15. CASE CancelDeposit(w)
    BY <1>2, <2>15, CancelDepositReads, ReadsKeep
  <2>16. CASE CancelTx(w)
    BY <1>2, <2>16, CancelTxKeeps
  <2>17. CASE OfflineBill(w)
    BY <1>2, <2>17, OfflineReads, ReadsKeep
  <2>18. CASE OfflineOrders(w)
    BY <1>2, <2>18, OfflineOrdersReads, ReadsKeep
  <2>19. CASE OfflineExisting(w)
    BY <1>2, <2>19, OfflineExistingReads, ReadsKeep
  <2>20. CASE OfflineCreate(w)
    BY <1>2, <2>20, OfflineCreateKeeps
  <2>21. QED
    BY <1>2, <2>1, <2>2, <2>3, <2>4, <2>5, <2>6, <2>7, <2>8, <2>9, <2>10, <2>11, <2>12,
       <2>13, <2>14, <2>15, <2>16, <2>17, <2>18, <2>19, <2>20 DEF Step
<1>3. ASSUME UNCHANGED stops, NEW w \in Handlers, NEW n \in notices, Deliver(w, n) PROVE Kept
  BY <1>3, DeliverKeeps
<1>4. ASSUME UNCHANGED stops, NEW p \in DOMAIN payments, GuestPays(p) \/ AttemptFails(p)
      PROVE  Kept
  BY <1>4, GuestPaysKeeps
<1>5. ASSUME NEW w \in Handlers, HandlerStops(w) PROVE Kept
  BY <1>5, HandlerStopsKeeps
<1>6. QED
  BY <1>1, <1>2, <1>3, <1>4, <1>5 DEF Next

LEMMA StartsTyped == Init => PaymentsInv
<1> SUFFICES ASSUME Init PROVE PaymentsInv
  OBVIOUS
<1>1. /\ entry = [status |-> "QUEUED", depositPaid |-> 0]
      /\ orders = <<>> /\ payments = <<>> /\ invoices = {} /\ notices = {}
      /\ req = [w \in Handlers |-> Idle] /\ stops = 0
  BY DEF Init
<1>2. DOMAIN orders = {} /\ DOMAIN payments = {} /\ Len(orders) = 0 /\ Len(payments) = 0
  BY <1>1
<1>3. TypeOK
  BY <1>1, <1>2, IdleTyped, BoundsTyped DEF TypeOK, EntryRow
<1>4. \A w \in Handlers : HandOK(w, req[w])
  BY <1>1, IdleTyped
     DEF HandOK, CapturePoints, RefundPoints, OrderPoints, InitiatePoints
<1>5. Makers(OrderMakers) = {} /\ Makers(PaymentMakers) = {}
  BY <1>1, IdleTyped DEF Makers, OrderMakers, PaymentMakers
<1>6. Making(OrderMakers) = 0 /\ Making(PaymentMakers) = 0
  BY <1>5, FS_EmptySet DEF Making, Makers
<1>7. Fits(OrderMakers, Len(orders), MaxOrders) /\ Fits(PaymentMakers, Len(payments), MaxPayments)
  BY <1>2, <1>5, <1>6, FS_EmptySet, BoundsTyped DEF Fits
<1>8. QED
  BY <1>1, <1>2, <1>3, <1>4, <1>7 DEF PaymentsInv

LEMMA StartsSettled ==
  ASSUME Init
  PROVE  /\ MoneyInv
         /\ \A w \in Handlers : SerialInv(w) /\ CancelOK(req[w])
<1>1. /\ entry.status = "QUEUED" /\ entry.depositPaid = 0
      /\ DOMAIN payments = {} /\ notices = {} /\ stops = 0
      /\ \A w \in Handlers : req[w] = Idle
  BY DEF Init
<1>2. Unmarked = {} /\ Due = {} /\ FinalPayments = {}
  BY <1>1 DEF Unmarked, Due, FinalPayments, PaymentsOf
<1>3. Cardinality({}) = 0
  BY FS_EmptySet
<1>4. Credited
  <2>1. \A d \in Nat : 0 * d = 0
    BY Z3
  <2>2. entry.depositPaid = 0 * DepositAmount
    BY <1>1, <2>1, DepositTyped
  <2>3. 0 <= Cardinality(Due) /\ Cardinality(Due) <= 0 + stops
    BY <1>1, <1>2, <1>3
  <2>4. QED
    BY <2>2, <2>3 DEF Credited
<1>5. \A w \in Handlers : MoneyHand(w, req[w])
  BY <1>1, IdleTyped DEF MoneyHand, CapturePoints, RefundPoints, InitiatePoints
<1>6. MoneyInv
  BY <1>1, <1>2, <1>3, <1>4, <1>5, IdleTyped DEF MoneyInv, OneCredit, At
<1>7. \A w \in Handlers : SerialInv(w) /\ CancelOK(req[w])
  BY <1>1, <1>2, <1>3, IdleTyped DEF SerialInv, StillTrue, FinalOK, CancelOK, RefundPoints
<1>8. QED
  BY <1>6, <1>7

LEMMA StutterKeeps ==
  ASSUME PaymentsInv, UNCHANGED vars
  PROVE  Kept
<1>1. UNCHANGED <<entry, orders, payments, invoices, notices, req, stops>>
  BY DEF vars
<1>2. PaymentsInv'
  BY <1>1, NobodyMoves DEF SameRows, PaymentsInv, TypeOK
<1>3. Unmarked' = Unmarked /\ Due' = Due
  BY <1>1 DEF Unmarked, Due, PaymentsOf, At
<1>4. \A p : Refundable(p)' <=> Refundable(p)
  BY <1>1 DEF Refundable, Heard
<1>5. MoneyInv => MoneyInv'
  <2>1. \A p : RowMoney(p)' <=> RowMoney(p)
    BY <1>1, <1>4 DEF RowMoney, DepositAmount
  <2>2. \A n : NoticeMoney(n)' <=> NoticeMoney(n)
    BY <1>1 DEF NoticeMoney
  <2>3. \A w : MoneyHand(w, req[w]) => MoneyHand(w, req[w])'
    BY <1>1, <1>4 DEF MoneyHand, DepositAmount, Refundable, Heard
  <2>4. (OneCredit => OneCredit') /\ (Credited => Credited')
    BY <1>1, <1>3 DEF OneCredit, Credited, At, DepositAmount
  <2>5. QED
    BY <1>1, <1>3, <2>1, <2>2, <2>3, <2>4 DEF MoneyInv
<1>6. \A w : /\ SerialInv(w) => SerialInv(w)'
             /\ CancelOK(req[w]) => CancelOK(req[w])'
  BY <1>1, GatewayKeepsOrder
<1>7. QED
  BY <1>2, <1>5, <1>6 DEF Kept

LEMMA TypesHold == Spec => []PaymentsInv
<1>1. PaymentsInv /\ [Next]_vars => PaymentsInv'
  BY NextKeeps, StutterKeeps DEF Kept
<1>2. QED
  BY <1>1, StartsTyped, PTL DEF Spec

LEMMA MoneyHolds ==
  ASSUME ~LateNotices
  PROVE  Spec => [](PaymentsInv /\ MoneyInv)
<1>1. Init => PaymentsInv /\ MoneyInv
  BY StartsTyped, StartsSettled
<1>2. PaymentsInv /\ MoneyInv /\ [Next]_vars => (PaymentsInv /\ MoneyInv)'
  BY NextKeeps, StutterKeeps DEF Kept
<1>3. QED
  BY <1>1, <1>2, PTL DEF Spec

LEMMA SerialHolds ==
  ASSUME NEW CONSTANT w, Handlers = {w}
  PROVE  Spec => [](PaymentsInv /\ SerialInv(w))
<1>1. Init => PaymentsInv /\ SerialInv(w)
  BY StartsTyped, StartsSettled
<1>2. PaymentsInv /\ SerialInv(w) /\ [Next]_vars => (PaymentsInv /\ SerialInv(w))'
  BY NextKeeps, StutterKeeps DEF Kept
<1>3. QED
  BY <1>1, <1>2, PTL DEF Spec

LEMMA CancelHolds ==
  ASSUME NEW CONSTANT w, Handlers = {w}, ~LateNotices, ~RefundMayFail
  PROVE  Spec => [](PaymentsInv /\ MoneyInv /\ SerialInv(w) /\ CancelOK(req[w]))
<1> DEFINE I == PaymentsInv /\ MoneyInv /\ SerialInv(w) /\ CancelOK(req[w])
<1>1. Init => I
  BY StartsTyped, StartsSettled
<1>2. I /\ [Next]_vars => I'
  <2> SUFFICES ASSUME I, [Next]_vars PROVE I'
    OBVIOUS
  <2>1. Kept
    BY NextKeeps, StutterKeeps
  <2>2. QED
    BY <2>1 DEF Kept
<1> HIDE DEF I
<1>3. Spec => []I
  BY <1>1, <1>2, PTL DEF Spec
<1>4. QED
  BY <1>3 DEF I

-----------------------------------------------------------------------------
(* What follows *)

LEMMA SumTimes ==
  ASSUME NEW a \in Nat, NEW b \in Nat, NEW d \in Nat
  PROVE  (a + b) * d = a * d + b * d /\ a * d \in Nat /\ b * d \in Nat
  BY Z3

LEMMA Grows ==
  ASSUME NEW a \in Nat, NEW c \in Nat, a <= c, NEW d \in Nat
  PROVE  a * d <= c * d
<1>1. PICK b \in Nat : c = a + b
  <2>1. c - a \in Nat /\ c = a + (c - a)
    OBVIOUS
  <2>2. QED
    BY <2>1
<1>2. c * d = a * d + b * d /\ a * d \in Nat /\ b * d \in Nat
  BY <1>1, SumTimes
<1>3. QED
  BY <1>2

\* Every variable of the model keeps its type and what a handler has in hand
\* exists, however handlers overlap and whatever notices arrive.
THEOREM PaymentsKeepTypes == Spec => []TypeOK
BY TypesHold, PTL DEF PaymentsInv

\* What is marked REFUNDED was given back, and what was given back is marked
\* but for the handlers that were cut short, if notices come in time.
THEOREM RefundsAreRecorded ==
  ASSUME ~LateNotices
  PROVE  Spec => []RefundIsRecorded
<1>1. PaymentsInv /\ MoneyInv => RefundIsRecorded
  <2> SUFFICES ASSUME PaymentsInv, MoneyInv PROVE RefundIsRecorded
    OBVIOUS
  <2> DEFINE returned == {p \in DOMAIN payments : payments[p].gateway = "refunded"}
             marked == {p \in DOMAIN payments : payments[p].status = "REFUNDED"}
  <2>1. marked \subseteq returned
    BY DEF MoneyInv, RowMoney
  <2>2. AtRest => returned \ marked = Unmarked
    BY DEF AtRest, At, Unmarked
  <2>3. QED
    BY <2>1, <2>2 DEF RefundIsRecorded, MoneyInv
<1>2. QED
  BY <1>1, MoneyHolds, PTL

\* Each captured deposit is credited once, however the browser's call and the
\* two notices overlap, if they come in time; one is left out only where a
\* handler was cut short.
THEOREM DepositsCreditedOnce ==
  ASSUME ~LateNotices
  PROVE  Spec => []DepositCreditedOnce
<1>1. PaymentsInv /\ MoneyInv => DepositCreditedOnce
  <2> SUFFICES ASSUME PaymentsInv, MoneyInv PROVE DepositCreditedOnce
    OBVIOUS
  <2> DEFINE d == DepositAmount
             c == Cardinality(Due)
  <2>1. PICK k \in Nat : entry.depositPaid = k * d /\ k <= c /\ c <= k + stops
    BY DEF MoneyInv, Credited
  <2>2. c \in Nat /\ stops \in Nat /\ d \in Nat /\ k + stops \in Nat
    BY Countable, DepositTyped
  <2>3. AmountOf(Due) = c * d
    BY DEF AmountOf
  <2> HIDE DEF c, d
  <2>4. k * d <= c * d /\ c * d <= (k + stops) * d
    BY <2>1, <2>2, Grows
  <2>5. (k + stops) * d = k * d + stops * d
    BY <2>2, SumTimes
  <2>6. entry.depositPaid <= AmountOf(Due) /\ AmountOf(Due) <= entry.depositPaid + stops * d
    BY <2>1, <2>3, <2>4, <2>5
  <2>7. QED
    BY <2>6 DEF DepositCreditedOnce, Due, d
<1>2. QED
  BY <1>1, MoneyHolds, PTL

\* No more is credited than the guest paid, if notices come in time.  Where
\* they may not, this fails (see CreditWithinPaid).
THEOREM CreditsWithinPaidInTime ==
  ASSUME ~LateNotices
  PROVE  Spec => []CreditWithinPaid
<1>1. PaymentsInv /\ MoneyInv => CreditWithinPaid
  <2> SUFFICES ASSUME PaymentsInv, MoneyInv PROVE CreditWithinPaid
    OBVIOUS
  <2> DEFINE paid == {p \in DOMAIN payments : /\ payments[p].type = "DEPOSIT"
                                              /\ payments[p].gateway \in {"paid", "refunded"}}
             d == DepositAmount
  <2>1. Due \subseteq paid
    <3>1. ASSUME NEW p \in Due PROVE p \in paid
      <4>1. p \in DOMAIN payments /\ payments[p].type = "DEPOSIT"
            /\ payments[p].status \in {"CAPTURED", "REFUNDED"}
        BY DEF Due, PaymentsOf
      <4>2. RowMoney(p) /\ payments[p].gateway \in {"open", "paid", "refunded", "none"}
        BY <4>1, RowTyped DEF MoneyInv
      <4>3. QED
        BY <4>1, <4>2 DEF RowMoney
    <3>2. QED
      BY <3>1
  <2>2. PICK k \in Nat : entry.depositPaid = k * d /\ k <= Cardinality(Due)
    BY DEF MoneyInv, Credited
  <2>3. paid \in SUBSET DOMAIN payments
    OBVIOUS
  <2> HIDE DEF paid, d
  <2>4. IsFiniteSet(paid) /\ Cardinality(paid) \in Nat /\ Cardinality(Due) \in Nat
    BY <2>3, Countable
  <2>5. Cardinality(Due) <= Cardinality(paid)
    BY <2>1, <2>4, FS_Subset
  <2>6. d \in Nat /\ k <= Cardinality(paid)
    BY <2>2, <2>4, <2>5, DepositTyped DEF d
  <2>7. k * d <= Cardinality(paid) * d
    BY <2>4, <2>6, Grows
  <2>8. QED
    BY <2>2, <2>7 DEF CreditWithinPaid, AmountOf, paid, d
<1>2. QED
  BY <1>1, MoneyHolds, PTL

\* Where one handler serves everything, the rest of a bill is captured once,
\* and once more for each time the handler was cut short.
THEOREM FinalPaidOnceSerially ==
  ASSUME NEW CONSTANT w, Handlers = {w}
  PROVE  Spec => []FinalPaidOnce
<1>1. PaymentsInv /\ SerialInv(w) => FinalPaidOnce
  <2> SUFFICES ASSUME PaymentsInv, SerialInv(w) PROVE FinalPaidOnce
    OBVIOUS
  <2>1. Cardinality(FinalPayments) \in Nat /\ stops \in Nat
    BY Countable
  <2>2. QED
    BY <2>1 DEF SerialInv, FinalOK, FinalPaidOnce, FinalPayments
<1>2. QED
  BY <1>1, SerialHolds, PTL

\* A captured final payment closes the entry and leaves an invoice, if there
\* is an order to invoice.
THEOREM FinalSettlesSerially ==
  ASSUME NEW CONSTANT w, Handlers = {w}
  PROVE  Spec => []FinalSettles
<1>1. SerialInv(w) => FinalSettles
  BY DEF SerialInv, FinalOK, FinalSettles, FinalPayments, AtRest, At
<1>2. QED
  BY <1>1, SerialHolds, PTL

\* A cancelled entry has its deposit back, where the gateway refuses nothing.
THEOREM CancelRefundsSerially ==
  ASSUME NEW CONSTANT w, Handlers = {w}, ~LateNotices, ~RefundMayFail
  PROVE  Spec => []CancelRefunds
<1>1. CancelOK(req[w]) => CancelRefunds
  BY DEF CancelOK, Returned, CancelRefunds, FinalPayments
<1>2. QED
  BY <1>1, CancelHolds, PTL
=============================================================================
