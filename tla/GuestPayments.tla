---------------------------- MODULE GuestPayments ----------------------------
(***************************************************************************)
(* The money of one queue entry: payment.service.ts, the pre-order part of *)
(* order.service.ts, the refund in cancelQueueEntry and the Razorpay       *)
(* webhook of payment.controller.ts.                                       *)
(*                                                                         *)
(* As in QueueFloor a handler is a sequence of steps, one per awaited      *)
(* statement or transaction, and req[w] is what it remembers in between.   *)
(* Rows are numbered in the order they are created.  The payment gateway   *)
(* and the notices it sends are outside the program; gateway is what it    *)
(* knows about a payment.                                                  *)
(*                                                                         *)
(* Left out: fees, taxes and items (an order has a total), invoice         *)
(* numbers, feature switches, messages, the POS push, and the bulk clears, *)
(* which close an entry without touching its money.                        *)
(***************************************************************************)
EXTENDS Naturals, Sequences, FiniteSetsExt

CONSTANTS
  Clients,         \* handlers that serve guest and staff requests
  Hooks,           \* handlers that serve webhook calls
  MaxOrders, MaxPayments,   \* bounds: rows that may be created
  OrderTotal,      \* totalIncGst of an order
  DepositPercent,
  LateNotices,     \* a notice may come after a later payment or a refund, or twice
  RefundMayFail,   \* the gateway may refuse a refund
  MaxStops         \* bound: handlers that are cut short

ASSUME BoundAssumption == {MaxOrders, MaxPayments, MaxStops} \subseteq Nat
ASSUME MoneyAssumption == OrderTotal \in Nat /\ DepositPercent \in 0..100
ASSUME SwitchAssumption == {LateNotices, RefundMayFail} \subseteq BOOLEAN

VARIABLES
  entry,      \* status (QUEUED: waiting or notified) and depositPaid
  orders,     \* Order rows
  payments,   \* Payment rows
  invoices,   \* orders that have an Invoice row
  notices,    \* webhook calls the gateway has still to make
  req,        \* what each handler is doing and remembers
  stops       \* how many handlers were cut short

vars == <<entry, orders, payments, invoices, notices, req, stops>>

Handlers == Clients \cup Hooks

EntryRow == [status: {"QUEUED", "SEATED", "COMPLETED", "CANCELLED", "NO_SHOW"},
             depositPaid: Nat]
OrderRow == [type: {"PRE_ORDER", "TABLE_ORDER"}, status: {"CONFIRMED", "CANCELLED"}]
PaymentRow == [type: {"DEPOSIT", "FINAL"}, order: Nat, amount: Nat,
               status: {"PENDING", "CAPTURED", "FAILED", "REFUNDED"},
               gateway: {"open", "paid", "refunded", "none"}]
Notice == [p: Nat, kind: {"payment.captured", "order.paid", "payment.failed"}]

Points == {"idle", "pre.list", "pre.replace", "pre.build", "table.build",
           "final.entry", "final.orders", "pay.captured", "pay.pending", "pay.create",
           "capture.update", "capture.credit", "complete.read", "complete.tx",
           "invoice.read", "invoice.create", "refund.gateway", "refund.mark",
           "cancel.deposit", "cancel.tx", "offline.bill", "offline.orders",
           "offline.existing", "offline.create"}

\* o, p: the order and payment in hand; n: a balance due that was read; stale:
\* pre-orders to replace; then: what follows a refund or a completed entry.
Request == [at: Points, type: {"DEPOSIT", "FINAL"}, o: Nat, p: Nat, n: Nat,
            stale: SUBSET (1..MaxOrders), then: {"idle", "cancel.tx", "invoice.read"}]

Idle == [at |-> "idle", type |-> "DEPOSIT", o |-> 0, p |-> 0, n |-> 0,
         stale |-> {}, then |-> "idle"]

TypeOK ==
  /\ entry \in EntryRow
  /\ orders \in Seq(OrderRow) /\ Len(orders) <= MaxOrders
  /\ payments \in Seq(PaymentRow) /\ Len(payments) <= MaxPayments
  /\ invoices \subseteq DOMAIN orders
  /\ notices \subseteq Notice
  /\ req \in [Handlers -> Request]
  /\ stops \in 0..MaxStops

Init ==
  /\ entry = [status |-> "QUEUED", depositPaid |-> 0]
  /\ orders = <<>> /\ payments = <<>> /\ invoices = {} /\ notices = {}
  /\ req = [w \in Handlers |-> Idle] /\ stops = 0

-----------------------------------------------------------------------------
(* Queries *)

Closed == entry.status \in {"COMPLETED", "CANCELLED", "NO_SHOW"}

OrdersOf(type) == {o \in DOMAIN orders : orders[o].type = type
                                         /\ orders[o].status # "CANCELLED"}

PaymentsOf(type, statuses) ==
  {p \in DOMAIN payments : payments[p].type = type /\ payments[p].status \in statuses}

ForOrder(o, type, statuses) ==
  {p \in PaymentsOf(type, statuses) : payments[p].order = o}

\* selectBillableOrders: the latest live pre-order, and the table orders.
LatestPreOrder == LET S == OrdersOf("PRE_ORDER") IN IF S = {} THEN {} ELSE {Max(S)}
Billable == LatestPreOrder \cup OrdersOf("TABLE_ORDER")

\* billableOrders[0], of an unordered findMany and of one in creation order.
AnyMainOrder == IF LatestPreOrder # {} THEN LatestPreOrder ELSE OrdersOf("TABLE_ORDER")
FirstMainOrder == IF AnyMainOrder = {} THEN {} ELSE {Min(AnyMainOrder)}

\* Variant: the balance is not kept from going below zero.
BalanceDueUnclamped == Cardinality(Billable) * OrderTotal - entry.depositPaid

\* getBillSummary(...).balanceDue
BalanceDue ==
  LET total == Cardinality(Billable) * OrderTotal
  IN IF total > entry.depositPaid THEN total - entry.depositPaid ELSE 0

\* Math.round(total * percent / 100)
DepositAmount == (OrderTotal * DepositPercent + 50) \div 100

-----------------------------------------------------------------------------
(* Handler control *)

At(w, point) == req[w].at = point
Begin(w, r) == w \in Clients /\ At(w, "idle") /\ req' = [req EXCEPT ![w] = r]
Goto(w, r) == req' = [req EXCEPT ![w] = r]
MoveTo(w, point) == Goto(w, [req[w] EXCEPT !.at = point])

\* Bounds: no request starts that could create a row too many.
Making(points) == Cardinality({w \in Handlers : req[w].at \in points})
RoomForOrder ==
  Len(orders) + Making({"pre.list", "pre.replace", "pre.build", "table.build"}) < MaxOrders
RoomForPayment ==
  Len(payments) + Making({"final.entry", "final.orders", "pay.captured", "pay.pending",
    "pay.create", "offline.bill", "offline.orders", "offline.existing", "offline.create"})
    < MaxPayments

-----------------------------------------------------------------------------
(* createPreOrder and createTableOrder *)

PreOrderRead(w) ==
  /\ entry.status = "QUEUED" /\ entry.depositPaid = 0
  /\ RoomForOrder
  /\ Begin(w, [Idle EXCEPT !.at = "pre.list"])
  /\ UNCHANGED <<entry, orders, payments, invoices, notices>>

PreOrderList(w) ==
  /\ At(w, "pre.list")
  /\ LET stale == OrdersOf("PRE_ORDER")
     IN Goto(w, [req[w] EXCEPT !.stale = stale,
                               !.at = IF stale = {} THEN "pre.build" ELSE "pre.replace"])
  /\ UNCHANGED <<entry, orders, payments, invoices, notices>>

PreOrderReplace(w) ==
  /\ At(w, "pre.replace")
  /\ orders' = [o \in DOMAIN orders |-> IF o \in req[w].stale
                  THEN [orders[o] EXCEPT !.status = "CANCELLED"] ELSE orders[o]]
  /\ payments' = [p \in DOMAIN payments |->
       IF /\ p \in PaymentsOf("DEPOSIT", {"PENDING"})
          /\ payments[p].order \in req[w].stale
       THEN [payments[p] EXCEPT !.status = "FAILED"] ELSE payments[p]]
  /\ MoveTo(w, "pre.build")
  /\ UNCHANGED <<entry, invoices, notices>>

TableOrderRead(w) ==
  /\ entry.status = "SEATED"
  /\ RoomForOrder
  /\ Begin(w, [Idle EXCEPT !.at = "table.build"])
  /\ UNCHANGED <<entry, orders, payments, invoices, notices>>

\* An item may be unavailable: then a replaced pre-order has no successor.
BuildOrder(w) ==
  /\ req[w].at \in {"pre.build", "table.build"}
  /\ \/ UNCHANGED orders
     \/ orders' = Append(orders, [status |-> "CONFIRMED",
          type |-> IF At(w, "pre.build") THEN "PRE_ORDER" ELSE "TABLE_ORDER"])
  /\ Goto(w, Idle)
  /\ UNCHANGED <<entry, payments, invoices, notices>>

(* initiateDeposit and initiateFinalPayment *)

\* The status of the pre-order is not looked at.
DepositRead(w, o) ==
  /\ orders[o].type = "PRE_ORDER" /\ ~Closed
  /\ RoomForPayment
  /\ Begin(w, [Idle EXCEPT !.at = "pay.captured", !.type = "DEPOSIT", !.o = o,
                           !.n = DepositAmount])
  /\ UNCHANGED <<entry, orders, payments, invoices, notices>>

FinalBill(w) ==
  /\ RoomForPayment
  /\ Begin(w, [Idle EXCEPT !.at = "final.entry", !.type = "FINAL", !.n = BalanceDue])
  /\ UNCHANGED <<entry, orders, payments, invoices, notices>>

FinalEntry(w) ==
  /\ At(w, "final.entry")
  /\ IF Closed \/ req[w].n = 0 THEN Goto(w, Idle) ELSE MoveTo(w, "final.orders")
  /\ UNCHANGED <<entry, orders, payments, invoices, notices>>

FinalOrders(w) ==
  /\ At(w, "final.orders")
  /\ \/ AnyMainOrder = {} /\ Goto(w, Idle)
     \/ \E o \in AnyMainOrder :
          Goto(w, [req[w] EXCEPT !.at = "pay.captured", !.o = o])
  /\ UNCHANGED <<entry, orders, payments, invoices, notices>>

InitiateCaptured(w) ==
  /\ At(w, "pay.captured")
  /\ IF ForOrder(req[w].o, req[w].type, {"CAPTURED"}) # {}
     THEN Goto(w, Idle) ELSE MoveTo(w, "pay.pending")
  /\ UNCHANGED <<entry, orders, payments, invoices, notices>>

\* A pending payment is handed out again.
InitiatePending(w) ==
  /\ At(w, "pay.pending")
  /\ IF ForOrder(req[w].o, req[w].type, {"PENDING"}) # {}
     THEN Goto(w, Idle) ELSE MoveTo(w, "pay.create")
  /\ UNCHANGED <<entry, orders, payments, invoices, notices>>

InitiateCreate(w) ==
  /\ At(w, "pay.create")
  /\ payments' = Append(payments, [type |-> req[w].type, order |-> req[w].o,
                    amount |-> req[w].n, status |-> "PENDING", gateway |-> "open"])
  /\ Goto(w, Idle)
  /\ UNCHANGED <<entry, orders, invoices, notices>>

-----------------------------------------------------------------------------
(* capturePaymentByOrder, called by the guest's browser and by the webhook *)

\* Variant: a guest session that is read-only by now is not refused.
CaptureReadAnyEntry(w, p) ==
  IF payments[p].status = "CAPTURED" THEN UNCHANGED req
  ELSE Goto(w, [Idle EXCEPT !.at = "capture.update", !.p = p])

CaptureRead(w, p) ==
  IF Closed \/ payments[p].status = "CAPTURED" THEN UNCHANGED req
  ELSE Goto(w, [Idle EXCEPT !.at = "capture.update", !.p = p])

\* The browser holds the gateway's signature once the payment is made.
ClientCapture(w, p) ==
  /\ w \in Clients /\ At(w, "idle")
  /\ payments[p].gateway \in IF LateNotices THEN {"paid", "refunded"} ELSE {"paid"}
  /\ CaptureRead(w, p)
  /\ UNCHANGED <<entry, orders, payments, invoices, notices>>

\* Variant: the update does not ask for a status other than CAPTURED.
CaptureUpdateAlways(w) ==
  LET p == req[w].p
  IN /\ At(w, "capture.update")
     /\ payments' = [payments EXCEPT ![p].status = "CAPTURED"]
     /\ IF payments[p].type = "DEPOSIT" THEN MoveTo(w, "capture.credit")
        ELSE Goto(w, [req[w] EXCEPT !.at = "complete.read", !.then = "invoice.read"])
     /\ UNCHANGED <<entry, orders, invoices, notices>>

CaptureUpdate(w) ==
  LET p == req[w].p
  IN /\ At(w, "capture.update")
     /\ IF payments[p].status = "CAPTURED"
        THEN Goto(w, Idle) /\ UNCHANGED payments
        ELSE /\ payments' = [payments EXCEPT ![p].status = "CAPTURED"]
             /\ IF payments[p].type = "DEPOSIT" THEN MoveTo(w, "capture.credit")
                ELSE Goto(w, [req[w] EXCEPT !.at = "complete.read",
                                            !.then = "invoice.read"])
     /\ UNCHANGED <<entry, orders, invoices, notices>>

CaptureCredit(w) ==
  /\ At(w, "capture.credit")
  /\ entry' = [entry EXCEPT !.depositPaid = @ + payments[req[w].p].amount]
  /\ Goto(w, Idle)
  /\ UNCHANGED <<orders, payments, invoices, notices>>

(* completeQueueEntry, alone or after a final payment, and issueFinalInvoice *)

CompleteRequest(w) ==
  /\ ~Closed
  /\ Begin(w, [Idle EXCEPT !.at = "complete.tx"])
  /\ UNCHANGED <<entry, orders, payments, invoices, notices>>

\* Variant: only a seated guest can be completed.
CompleteReadSeated(w) ==
  /\ At(w, "complete.read")
  /\ CASE entry.status = "COMPLETED" -> MoveTo(w, req[w].then)
       [] entry.status \in {"CANCELLED", "NO_SHOW", "QUEUED"} -> Goto(w, Idle)
       [] OTHER -> MoveTo(w, "complete.tx")
  /\ UNCHANGED <<entry, orders, payments, invoices, notices>>

\* Already completed: nothing to do; closed otherwise: the request fails.
CompleteRead(w) ==
  /\ At(w, "complete.read")
  /\ CASE entry.status = "COMPLETED" -> MoveTo(w, req[w].then)
       [] entry.status \in {"CANCELLED", "NO_SHOW"} -> Goto(w, Idle)
       [] OTHER -> MoveTo(w, "complete.tx")
  /\ UNCHANGED <<entry, orders, payments, invoices, notices>>

CompleteTx(w) ==
  /\ At(w, "complete.tx")
  /\ entry' = [entry EXCEPT !.status = "COMPLETED"]
  /\ IF req[w].then = "idle" THEN Goto(w, Idle) ELSE MoveTo(w, req[w].then)
  /\ UNCHANGED <<orders, payments, invoices, notices>>

InvoiceRead(w) ==
  /\ At(w, "invoice.read")
  /\ \/ AnyMainOrder = {} /\ Goto(w, Idle)
     \/ \E o \in AnyMainOrder :
          Goto(w, IF o \in invoices THEN Idle
                  ELSE [req[w] EXCEPT !.at = "invoice.create", !.o = o])
  /\ UNCHANGED <<entry, orders, payments, invoices, notices>>

\* Invoice.orderId is unique; a second insert is ignored.
InvoiceCreate(w) ==
  /\ At(w, "invoice.create")
  /\ invoices' = invoices \cup {req[w].o}
  /\ Goto(w, Idle)
  /\ UNCHANGED <<entry, orders, payments, notices>>

-----------------------------------------------------------------------------
(* refundDeposit and cancelQueueEntry *)

\* Unless notices may be late, everything about the payment has been heard.
Settled(p) ==
  LateNotices \/ /\ \A n \in notices : n.p # p
                 /\ \A v \in Handlers : req[v].at \in {"capture.update", "capture.credit"}
                                          => req[v].p # p

RefundRead(w, p) ==
  /\ p \in PaymentsOf("DEPOSIT", {"CAPTURED"}) /\ Settled(p)
  /\ Begin(w, [Idle EXCEPT !.at = "refund.gateway", !.p = p])
  /\ UNCHANGED <<entry, orders, payments, invoices, notices>>

CancelRead(w) ==
  /\ entry.status = "QUEUED"
  /\ Begin(w, [Idle EXCEPT !.at = "cancel.deposit", !.then = "cancel.tx"])
  /\ UNCHANGED <<entry, orders, payments, invoices, notices>>

\* Variant: a final payment that is only pending keeps the deposit.
CancelDepositUnlessPending(w) ==
  /\ At(w, "cancel.deposit")
  /\ LET due == {p \in PaymentsOf("DEPOSIT", {"CAPTURED"}) :
                   orders[payments[p].order].status # "CANCELLED"}
         kept == PaymentsOf("FINAL", {"PENDING", "CAPTURED"}) # {}
     IN \/ (due = {} \/ kept) /\ MoveTo(w, "cancel.tx")
        \/ /\ ~kept
           /\ \E p \in due : /\ Settled(p)
                              /\ Goto(w, [req[w] EXCEPT !.at = "refund.gateway", !.p = p])
  /\ UNCHANGED <<entry, orders, payments, invoices, notices>>

\* The latest captured deposit of a live pre-order goes back, unless a final
\* payment was captured.  The capture times are not kept: any deposit may be
\* the latest.
CancelDeposit(w) ==
  /\ At(w, "cancel.deposit")
  /\ LET due == {p \in PaymentsOf("DEPOSIT", {"CAPTURED"}) :
                   orders[payments[p].order].status # "CANCELLED"}
         kept == PaymentsOf("FINAL", {"CAPTURED"}) # {}
     IN \/ (due = {} \/ kept) /\ MoveTo(w, "cancel.tx")
        \/ /\ ~kept
           /\ \E p \in due : /\ Settled(p)
                              /\ Goto(w, [req[w] EXCEPT !.at = "refund.gateway", !.p = p])
  /\ UNCHANGED <<entry, orders, payments, invoices, notices>>

AfterRefund(w) == IF req[w].then = "cancel.tx" THEN MoveTo(w, "cancel.tx") ELSE Goto(w, Idle)

\* Variant: the answer of the gateway is not waited for.
RefundGatewayUnawaited(w) ==
  LET p == req[w].p
  IN /\ At(w, "refund.gateway")
     /\ \/ /\ payments[p].gateway = "paid"
           /\ payments' = [payments EXCEPT ![p].gateway = "refunded"]
           /\ MoveTo(w, "refund.mark")
        \/ /\ RefundMayFail \/ payments[p].gateway # "paid"
           /\ MoveTo(w, "refund.mark")
           /\ UNCHANGED payments
     /\ UNCHANGED <<entry, orders, invoices, notices>>

\* initiateRefund; the gateway refuses what is refunded already.
RefundGateway(w) ==
  LET p == req[w].p
  IN /\ At(w, "refund.gateway")
     /\ \/ /\ payments[p].gateway = "paid"
           /\ payments' = [payments EXCEPT ![p].gateway = "refunded"]
           /\ MoveTo(w, "refund.mark")
        \/ /\ RefundMayFail \/ payments[p].gateway # "paid"
           /\ AfterRefund(w)
           /\ UNCHANGED payments
     /\ UNCHANGED <<entry, orders, invoices, notices>>

RefundMark(w) ==
  /\ At(w, "refund.mark")
  /\ payments' = [payments EXCEPT ![req[w].p].status = "REFUNDED"]
  /\ AfterRefund(w)
  /\ UNCHANGED <<entry, orders, invoices, notices>>

CancelTx(w) ==
  /\ At(w, "cancel.tx")
  /\ entry' = [entry EXCEPT !.status = "CANCELLED"]
  /\ Goto(w, Idle)
  /\ UNCHANGED <<orders, payments, invoices, notices>>

(* settleFinalOffline *)

OfflineRead(w) ==
  /\ entry.status = "SEATED"
  /\ RoomForPayment
  /\ Begin(w, [Idle EXCEPT !.at = "offline.bill", !.then = "invoice.read"])
  /\ UNCHANGED <<entry, orders, payments, invoices, notices>>

OfflineBill(w) ==
  /\ At(w, "offline.bill")
  /\ Goto(w, [req[w] EXCEPT !.at = "offline.orders", !.n = BalanceDue])
  /\ UNCHANGED <<entry, orders, payments, invoices, notices>>

OfflineOrders(w) ==
  /\ At(w, "offline.orders")
  /\ \/ FirstMainOrder = {} /\ Goto(w, Idle)
     \/ \E o \in FirstMainOrder :
          Goto(w, [req[w] EXCEPT !.at = "offline.existing", !.o = o])
  /\ UNCHANGED <<entry, orders, payments, invoices, notices>>

OfflineExisting(w) ==
  /\ At(w, "offline.existing")
  /\ MoveTo(w, IF ForOrder(req[w].o, "FINAL", {"CAPTURED"}) # {}
               THEN "complete.read" ELSE "offline.create")
  /\ UNCHANGED <<entry, orders, payments, invoices, notices>>

OfflineCreate(w) ==
  /\ At(w, "offline.create")
  /\ payments' = Append(payments, [type |-> "FINAL", order |-> req[w].o,
                    amount |-> req[w].n, status |-> "CAPTURED", gateway |-> "none"])
  /\ MoveTo(w, "complete.read")
  /\ UNCHANGED <<entry, orders, invoices, notices>>

-----------------------------------------------------------------------------
(* The gateway, the webhook, and what else happens to the entry *)

\* The guest pays in the checkout that a payment row opened, also one that
\* the program has marked FAILED since.  Both notices of a success are sent.
GuestPays(p) ==
  /\ payments[p].gateway = "open"
  /\ LateNotices \/ [p |-> p, kind |-> "payment.failed"] \notin notices
  /\ payments' = [payments EXCEPT ![p].gateway = "paid"]
  /\ notices' = notices \cup {[p |-> p, kind |-> k] : k \in {"payment.captured", "order.paid"}}
  /\ UNCHANGED <<entry, orders, invoices, req>>

\* An attempt fails; the same checkout may be tried again.
AttemptFails(p) ==
  /\ payments[p].gateway = "open"
  /\ notices' = notices \cup {[p |-> p, kind |-> "payment.failed"]}
  /\ UNCHANGED <<entry, orders, payments, invoices, req>>

\* Variant: a notice about a payment marked FAILED is dropped.
DeliverUnlessFailed(w, n) ==
  /\ w \in Hooks /\ At(w, "idle")
  /\ n \in notices /\ notices' = notices \ {n}
  /\ IF n.kind = "payment.failed" \/ payments[n.p].status = "FAILED"
     THEN payments' = [payments EXCEPT ![n.p].status = "FAILED"] /\ UNCHANGED req
     ELSE CaptureRead(w, n.p) /\ UNCHANGED payments
  /\ UNCHANGED <<entry, orders, invoices>>

\* razorpayWebhook: a failure is written whatever the payment's status.
Deliver(w, n) ==
  /\ w \in Hooks /\ At(w, "idle")
  /\ n \in notices
  /\ notices' \in {notices \ {n}} \cup (IF LateNotices THEN {notices} ELSE {})
  /\ IF n.kind = "payment.failed"
     THEN payments' = [payments EXCEPT ![n.p].status = "FAILED"] /\ UNCHANGED req
     ELSE CaptureRead(w, n.p) /\ UNCHANGED payments
  /\ UNCHANGED <<entry, orders, invoices>>

\* seatGuest, the no-show of a called guest: QueueFloor has the details.
EntryMoves(w) ==
  /\ w \in Clients /\ At(w, "idle")
  /\ entry.status = "QUEUED"
  /\ \E to \in {"SEATED", "NO_SHOW"} : entry' = [entry EXCEPT !.status = to]
  /\ UNCHANGED <<orders, payments, invoices, notices, req>>

NewRequest(w) ==
  \/ PreOrderRead(w) \/ TableOrderRead(w) \/ FinalBill(w) \/ CompleteRequest(w)
  \/ CancelRead(w) \/ OfflineRead(w)
  \/ EntryMoves(w)
  \/ \E o \in DOMAIN orders : DepositRead(w, o)
  \/ \E p \in DOMAIN payments : ClientCapture(w, p) \/ RefundRead(w, p)

Step(w) ==
  \/ PreOrderList(w) \/ PreOrderReplace(w) \/ BuildOrder(w)
  \/ FinalEntry(w) \/ FinalOrders(w)
  \/ InitiateCaptured(w) \/ InitiatePending(w) \/ InitiateCreate(w)
  \/ CaptureUpdate(w) \/ CaptureCredit(w) \/ CompleteRead(w) \/ CompleteTx(w)
  \/ InvoiceRead(w) \/ InvoiceCreate(w)
  \/ RefundGateway(w) \/ RefundMark(w) \/ CancelDeposit(w) \/ CancelTx(w)
  \/ OfflineBill(w) \/ OfflineOrders(w) \/ OfflineExisting(w) \/ OfflineCreate(w)

\* A statement fails or the process stops: what was written stays.  The webhook
\* answers a capture that failed as done; a notice that was not answered comes
\* again.  cancelQueueEntry goes on when a refund cannot be marked.
HandlerStops(w) ==
  LET again == {[p |-> req[w].p, kind |-> k] : k \in {"payment.captured", "order.paid"}}
  IN /\ ~At(w, "idle")
     /\ stops < MaxStops /\ stops' = stops + 1
     /\ \/ Goto(w, Idle) /\ UNCHANGED notices
        \/ /\ w \in Hooks \ Clients /\ Goto(w, Idle)
           /\ \E n \in again \ notices : notices' = notices \cup {n}
        \/ At(w, "refund.mark") /\ AfterRefund(w) /\ UNCHANGED notices
     /\ UNCHANGED <<entry, orders, payments, invoices>>

Next ==
  \/ /\ UNCHANGED stops
     /\ \/ \E w \in Handlers : NewRequest(w) \/ Step(w) \/ \E n \in notices : Deliver(w, n)
        \/ \E p \in DOMAIN payments : GuestPays(p) \/ AttemptFails(p)
  \/ \E w \in Handlers : HandlerStops(w)

Spec == Init /\ [][Next]_vars

Success(p) == {n \in notices : n.p = p /\ n.kind # "payment.failed"}

\* The process keeps running its handlers, and the gateway calls the webhook
\* about a success until it is answered, whatever other notices come in
\* between.  Guests and staff need not do anything.
FairSpec ==
  /\ Spec
  /\ \A w \in Handlers : WF_vars(Step(w) /\ UNCHANGED stops)
  /\ \A p \in 1..MaxPayments :
       SF_vars((\E w \in Hooks : \E n \in Success(p) : Deliver(w, n)) /\ UNCHANGED stops)

-----------------------------------------------------------------------------
(* Properties *)

AtRest == \A w \in Handlers : At(w, "idle")

\* What deposits are worth: initiateDeposit asks the same amount for each.
AmountOf(S) == Cardinality(S) * DepositAmount

\* capturePaymentByOrder credits no captured deposit more than once, however
\* the browser's call and the two webhook notices overlap, and leaves one
\* uncredited only where a handler was cut short.
DepositCreditedOnce ==
  LET due == AmountOf({p \in PaymentsOf("DEPOSIT", {"CAPTURED", "REFUNDED"}) :
                         \A w \in Handlers : At(w, "capture.credit") => req[w].p # p})
  IN entry.depositPaid <= due /\ due <= entry.depositPaid + stops * DepositAmount

\* refundDeposit and cancelQueueEntry agree with the gateway: what is marked
\* REFUNDED was given back, at every moment; what was given back is marked,
\* except where the handler was cut short before it could be.
RefundIsRecorded ==
  LET returned == {p \in DOMAIN payments : payments[p].gateway = "refunded"}
      marked == {p \in DOMAIN payments : payments[p].status = "REFUNDED"}
  IN /\ marked \subseteq returned
     /\ AtRest => Cardinality(returned \ marked) <= stops

\* A deposit is not counted twice: no more is credited than was paid.
CreditWithinPaid ==
  entry.depositPaid <=
    AmountOf({p \in DOMAIN payments : /\ payments[p].type = "DEPOSIT"
                                      /\ payments[p].gateway \in {"paid", "refunded"}})

\* Money the gateway has taken is written down, or was taken when the entry
\* was about to be closed.  One capture that fails, though the webhook answers
\* it as done, is made good by the other notice of the same payment.
PaidIsRecorded ==
  \A i \in 1..MaxPayments :
    (i \in DOMAIN payments /\ payments[i].gateway = "paid") ~>
      (\/ Closed \/ stops > 1
       \/ i \in PaymentsOf("DEPOSIT", {"CAPTURED", "REFUNDED"})
                  \cup PaymentsOf("FINAL", {"CAPTURED"}))

\* One guest pays the rest of the bill once: a second checkout that is still
\* open, or an offline settlement, is not captured on top, unless the handler
\* of the first was cut short before it closed the entry.
FinalPaidOnce == Cardinality(PaymentsOf("FINAL", {"CAPTURED"})) <= 1 + stops

\* A captured final payment closes the entry and leaves an invoice, if there
\* is an order left to invoice.  One whose handler was cut short is made good
\* by the next.
FinalSettles ==
  AtRest /\ Cardinality(PaymentsOf("FINAL", {"CAPTURED"})) > stops =>
    entry.status = "COMPLETED" /\ (Billable # {} => invoices # {})

\* cancelQueueEntry gives a captured deposit of a live pre-order back, if no
\* final payment was captured, also when a step of it fails and it is called
\* again.  Only a second one (two checkouts of one pre-order were both paid)
\* is kept.  This is so where the gateway refuses no refund (~RefundMayFail): a
\* refusal is logged, and the entry is cancelled all the same.
CancelRefunds ==
  AtRest /\ entry.status = "CANCELLED" =>
    \/ \E p \in DOMAIN payments : payments[p].gateway = "refunded"
    \/ PaymentsOf("FINAL", {"CAPTURED"}) # {}
    \/ \A p \in PaymentsOf("DEPOSIT", {"CAPTURED"}) :
         orders[payments[p].order].status = "CANCELLED"
=============================================================================
