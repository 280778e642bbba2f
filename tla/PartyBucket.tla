----------------------------- MODULE PartyBucket -----------------------------
(***************************************************************************)
(* The bucket the members of one party share: partySession.service.ts on   *)
(* the server and, in every browser, the bucket store, its sync timer and  *)
(* the polling of web/app.js.                                              *)
(*                                                                         *)
(* A browser sends its whole cart 350 ms after the last edit and polls the *)
(* session while its guest is seated.  Requests are served in the steps of *)
(* their handlers, overtake each other, and may be lost on the way there   *)
(* or on the way back; put, poll, load and order are the requests of a     *)
(* browser and where they are.                                             *)
(*                                                                         *)
(* Left out: the delays (a set timer may fire), the bill, participants and *)
(* lastSeenAt, what is drawn, edits made while no session is loaded (they  *)
(* stay on the device), and the rate limits.                               *)
(***************************************************************************)
EXTENDS Naturals, FiniteSets

CONSTANTS
  Browsers,     \* devices of the guest who joined the queue, or of invited members
  Items,
  MaxQuantity,  \* 99 in updatePartyBucket and normaliseDraftCart
  MaxPuts, MaxPolls,    \* bounds: PUTs and poll chains of a browser at a time
  Limits, MaxEvents     \* bounds: edits, renders, orders, faults and staff actions of a
                        \* behaviour, each of them and all together

Kinds == {"edits", "renders", "orders", "faults", "staff"}

ASSUME QuantityAssumption == MaxQuantity \in Nat
ASSUME LimitsAssumption == Limits \in [Kinds -> Nat]
ASSUME BoundAssumption == {MaxPuts, MaxPolls, MaxEvents} \subseteq Nat

Slots == 1..MaxPuts
Chains == 1..MaxPolls
Polls == 0..MaxPolls    \* 0: the one refresh of a table order whose clearing failed

VARIABLES
  entry,      \* QueueEntry.status: SEATED, or COMPLETED and the other closed ones
  available,  \* menu items that can be ordered
  hostRows,   \* PartyParticipant rows with role HOST
  session,    \* the PartySession row of the entry exists
  access,     \* how far a browser is in obtaining a token for the session
  bucket,     \* PartyBucketItem rows, as quantities (0: no row)
  uiState,    \* what the tab remembers
  put,        \* PUT /bucket requests
  poll,       \* poll chains: a timer, or GET /realtime under way
  load,       \* renderGuestEntry under way
  order,      \* "Send order to table" under way
  unsent,     \* the cart holds an edit, and no PUT that committed carried this cart
  used        \* how much of the bounds is spent

vars == <<entry, available, hostRows, session, access, bucket, uiState, put, poll,
          load, order, unsent, used>>
server == <<entry, available, hostRows, session, access>>

Spent == used["edits"] + used["renders"] + used["orders"] + used["faults"] + used["staff"]
Spend(kind) ==
  /\ used[kind] < Limits[kind] /\ Spent < MaxEvents
  /\ used' = [used EXCEPT ![kind] = @ + 1]

Carts == [Items -> 0..MaxQuantity]
Empty == [i \in Items |-> 0]
Retained(cart) == {i \in Items : cart[i] > 0}

UiState == [view: {"away", "shell", "other"}, activePartySessionId: BOOLEAN,
            status: {"SEATED", "CLOSED"}, cart: Carts, dirty: BOOLEAN,
            isSyncing: BOOLEAN, pendingSyncTimer: BOOLEAN, partyPollerId: 0..MaxPolls]

\* doomed: rows the delete found; alone: no other transaction overlapped this one;
\* rows: the answer; heard: the browser still waits; awaited: by the table order.
NoPut == [at |-> "none", cart |-> Empty, doomed |-> {}, alone |-> TRUE, rows |-> Empty,
          heard |-> TRUE, awaited |-> FALSE]
NoOrder == [at |-> "none", lines |-> Empty]
NoReply == [at |-> "off", bucket |-> Empty, status |-> "SEATED"]

TypeOK ==
  /\ entry \in {"SEATED", "CLOSED"}
  /\ available \subseteq Items
  /\ hostRows \in Nat
  /\ session \in BOOLEAN
  /\ access \in [Browsers -> {"out", "creating", "in"}]
  /\ bucket \in Carts
  /\ uiState \in [Browsers -> UiState]
  /\ put \in [Browsers -> [Slots -> [at: {"none", "sent", "deleted", "committed",
                                          "answered", "failed"},
                                     cart: Carts, rows: Carts, doomed: SUBSET Items,
                                     alone: BOOLEAN, heard: BOOLEAN, awaited: BOOLEAN]]]
  /\ poll \in [Browsers -> [Polls -> [at: {"off", "timer", "answered"},
                                       bucket: Carts, status: {"SEATED", "CLOSED"}]]]
  /\ load \in [Browsers -> [at: {"off", "entry", "answered", "bill"},
                            bucket: Carts, status: {"SEATED", "CLOSED"}]]
  /\ order \in [Browsers -> [at: {"none", "posted", "accepted", "refused", "clearing",
                                  "refreshing"}, lines: Carts]]
  /\ unsent \in [Browsers -> BOOLEAN]
  /\ used \in [Kinds -> Nat]

Init ==
  /\ entry = "SEATED" /\ available = Items
  /\ hostRows = 0 /\ session = FALSE
  /\ access = [b \in Browsers |-> "out"]
  /\ bucket = Empty
  /\ uiState = [b \in Browsers |->
       [view |-> "away", activePartySessionId |-> FALSE, status |-> "SEATED",
        cart |-> Empty, dirty |-> FALSE, isSyncing |-> FALSE,
        pendingSyncTimer |-> FALSE, partyPollerId |-> 0]]
  /\ put = [b \in Browsers |-> [s \in Slots |-> NoPut]]
  /\ poll = [b \in Browsers |-> [k \in Polls |-> NoReply]]
  /\ load = [b \in Browsers |-> NoReply]
  /\ order = [b \in Browsers |-> NoOrder]
  /\ unsent = [b \in Browsers |-> FALSE]
  /\ used = [kind \in Kinds |-> 0]

-----------------------------------------------------------------------------
(* The session and its members *)

\* ensurePartySessionForQueueEntry: a session that exists is returned; one HOST
\* row comes with a session, and none is ever deactivated.
EnsureRead(b) ==
  /\ access[b] = "out"
  /\ access' = [access EXCEPT ![b] = IF session THEN "in" ELSE "creating"]
  /\ UNCHANGED <<entry, available, hostRows, session, bucket, uiState, put, poll, load,
                 order, unsent, used>>

\* Variant: no unique key on queueEntryId.
EnsureCreateTwice(b) ==
  /\ access[b] = "creating"
  /\ session' = TRUE /\ hostRows' = hostRows + 1
  /\ access' = [access EXCEPT ![b] = "in"]
  /\ UNCHANGED <<entry, available, bucket, uiState, put, poll, load, order, unsent, used>>

\* The nested create; queueEntryId is unique, so the second one is an error.
EnsureCreate(b) ==
  /\ access[b] = "creating"
  /\ IF session
     THEN access' = [access EXCEPT ![b] = "out"] /\ UNCHANGED <<session, hostRows>>
     ELSE /\ session' = TRUE /\ hostRows' = hostRows + 1
          /\ access' = [access EXCEPT ![b] = "in"]
  /\ UNCHANGED <<entry, available, bucket, uiState, put, poll, load, order, unsent, used>>

\* joinPartySessionByToken; what else happens between its read and the member
\* row it creates changes neither.
JoinPartySession(b) ==
  /\ access[b] = "out"
  /\ session /\ entry = "SEATED"
  /\ access' = [access EXCEPT ![b] = "in"]
  /\ UNCHANGED <<entry, available, hostRows, session, bucket, uiState, put, poll, load,
                 order, unsent, used>>

-----------------------------------------------------------------------------
(* The bucket store of a tab *)

ReplaceFromServer(u, rows) == [u EXCEPT !.cart = rows, !.dirty = FALSE]

ResetPartyBucketState(u) ==
  [u EXCEPT !.cart = Empty, !.dirty = FALSE, !.isSyncing = FALSE, !.pendingSyncTimer = FALSE]

SchedulePartyBucketSync(u) ==
  IF u.activePartySessionId THEN [u EXCEPT !.pendingSyncTimer = TRUE] ELSE u

\* Variant: nothing is scheduled when a sync ends.
EndSyncQuietly(u) == [u EXCEPT !.isSyncing = FALSE]

\* The finally clause of flushPartyBucketToServer.
EndSync(u) ==
  LET idle == [u EXCEPT !.isSyncing = FALSE]
  IN IF u.dirty THEN SchedulePartyBucketSync(idle) ELSE idle

\* The slots are alike: a PUT takes the first that is free.
FreeSlots(b) == {s \in Slots : /\ put[b][s].at = "none"
                               /\ \A t \in 1..(s - 1) : put[b][t].at # "none"}

\* A page that is not drawn yet has no activeGuestView to take the token from.
HasToken(u) == u.activePartySessionId /\ u.view # "away"

\* flushPartyBucketToServer up to its await, for a tab in state u; without the
\* token it gives up and leaves the mark.
Flush(b, u, awaited) ==
  IF ~HasToken(u) THEN uiState' = [uiState EXCEPT ![b] = u] /\ UNCHANGED put
  ELSE IF u.isSyncing
  THEN uiState' = [uiState EXCEPT ![b] = [u EXCEPT !.dirty = TRUE]] /\ UNCHANGED put
  ELSE \E s \in FreeSlots(b) :
         /\ uiState' = [uiState EXCEPT ![b] = [u EXCEPT !.isSyncing = TRUE]]
         /\ put' = [put EXCEPT ![b][s] = [NoPut EXCEPT !.at = "sent", !.cart = u.cart,
                                                     !.awaited = awaited]]

\* Variant: quantities are not kept in range.
StepUnclamped(q) == {q + 1, q - 1}

\* What a button makes of a quantity: at an end of the range nothing.
Step(q) == {IF q = MaxQuantity THEN q ELSE q + 1, IF q = 0 THEN q ELSE q - 1}

\* applyPartyBucketDelta: the + and - buttons of the menu and the bucket.  One
\* that changes nothing marks the cart all the same.
ApplyPartyBucketDelta(b, i) ==
  LET u == uiState[b]
  IN /\ u.view = "shell" /\ u.activePartySessionId
     /\ \E q \in Step(u.cart[i]) :
          /\ uiState' = [uiState EXCEPT ![b] =
               SchedulePartyBucketSync([u EXCEPT !.cart[i] = q, !.dirty = TRUE])]
          /\ unsent' = [unsent EXCEPT ![b] = @ \/ q # u.cart[i]]
     /\ Spend("edits")
     /\ UNCHANGED <<server, bucket, put, poll, load, order>>

\* The sync timer fires.
SyncTimer(b) ==
  LET u == [uiState[b] EXCEPT !.pendingSyncTimer = FALSE]
  IN /\ uiState[b].pendingSyncTimer
     /\ IF u.activePartySessionId /\ u.dirty
        THEN Flush(b, u, FALSE)
        ELSE uiState' = [uiState EXCEPT ![b] = u] /\ UNCHANGED put
     /\ UNCHANGED <<server, bucket, poll, load, order, unsent, used>>

-----------------------------------------------------------------------------
(* PUT /party-sessions/:id/bucket on the server: updatePartyBucket *)

PutAt(b, s, point) == put[b][s].at = point
OnlyPut == UNCHANGED <<server, uiState, poll, load, order, used>>

\* An answer nobody waits for is gone.
Reply(r) == IF r.heard THEN r ELSE NoPut

InTransaction == {p \in Browsers \X Slots : PutAt(p[1], p[2], "deleted")}

\* The token is not read-only, the entry is open and every item can be ordered,
\* or it fails; the transaction's deleteMany finds the rows committed by now.
PutBegin(b, s) ==
  LET r == put[b][s]
      ok == entry = "SEATED" /\ Retained(r.cart) \subseteq available
      begun == [r EXCEPT !.at = "deleted", !.alone = InTransaction = {},
                         !.doomed = Retained(bucket) \ Retained(r.cart)]
  IN /\ PutAt(b, s, "sent")
     /\ put' = [c \in Browsers |-> [t \in Slots |->
          IF <<c, t>> = <<b, s>>
          THEN IF ok THEN begun ELSE Reply([r EXCEPT !.at = "failed"])
          ELSE IF ok /\ <<c, t>> \in InTransaction
          THEN [put[c][t] EXCEPT !.alone = FALSE] ELSE put[c][t]]]
     /\ UNCHANGED <<bucket, unsent>> /\ OnlyPut

\* Variant: an empty cart is not written.
PutCommitNoClear(b, s) ==
  LET r == put[b][s]
  IN /\ PutAt(b, s, "deleted")
     /\ bucket' = [i \in Items |-> IF i \in Retained(r.cart) THEN r.cart[i]
                                   ELSE IF i \in r.doomed /\ r.cart # Empty THEN 0
                                   ELSE bucket[i]]
     /\ put' = [put EXCEPT ![b][s] = [r EXCEPT !.at = "committed", !.doomed = {}]]
     /\ unsent' = [unsent EXCEPT ![b] = @ /\ uiState[b].cart # r.cart]
     /\ OnlyPut

\* The upserts and the commit; rows inserted since the delete stay.
PutCommit(b, s) ==
  LET r == put[b][s]
  IN /\ PutAt(b, s, "deleted")
     /\ bucket' = [i \in Items |-> IF i \in Retained(r.cart) THEN r.cart[i]
                                   ELSE IF i \in r.doomed THEN 0 ELSE bucket[i]]
     /\ put' = [put EXCEPT ![b][s] = [r EXCEPT !.at = "committed", !.doomed = {}]]
     /\ unsent' = [unsent EXCEPT ![b] = @ /\ uiState[b].cart # r.cart]
     /\ OnlyPut

\* The getPartyBucket that answers.
PutRead(b, s) ==
  /\ PutAt(b, s, "committed")
  /\ put' = [put EXCEPT ![b][s] = Reply([@ EXCEPT !.at = "answered", !.rows = bucket])]
  /\ UNCHANGED <<bucket, unsent>> /\ OnlyPut

\* The database rolls the transaction back (two that lock rows in opposite orders,
\* or an error of its own).
PutAbort(b, s) ==
  /\ PutAt(b, s, "deleted")
  /\ Spend("faults")
  /\ put' = [put EXCEPT ![b][s] = Reply([@ EXCEPT !.at = "failed"])]
  /\ UNCHANGED <<server, bucket, unsent, uiState, poll, load, order>>

-----------------------------------------------------------------------------
(* Its answer in the browser *)

AskEntry(b) == load' = [load EXCEPT ![b] = [NoReply EXCEPT !.at = "entry"]]

\* What the table order that waits for this sync does next.
AfterClearing(b, r, cleared) ==
  IF ~r.awaited THEN UNCHANGED <<order, load, poll>>
  ELSE IF cleared \/ ~HasToken(uiState[b])
  THEN load[b].at = "off" /\ AskEntry(b) /\ order' = [order EXCEPT ![b] = NoOrder]
       /\ UNCHANGED poll
  ELSE /\ order' = [order EXCEPT ![b].at = "refreshing"]
       /\ poll' = [poll EXCEPT ![b][0].at = "timer"]
       /\ UNCHANGED load

\* Variant: the answer is taken without comparing it with the cart of now.
PutAnswerBlindly(b, s) ==
  LET r == put[b][s]
  IN /\ PutAt(b, s, "answered")
     /\ uiState' = [uiState EXCEPT ![b] = EndSync(ReplaceFromServer(@, r.rows))]
     /\ unsent' = [unsent EXCEPT ![b] = @ /\ uiState[b].cart # r.cart]
     /\ put' = [put EXCEPT ![b][s] = NoPut]
     /\ AfterClearing(b, r, TRUE)
     /\ UNCHANGED <<server, bucket, used>>

PutAnswer(b, s) ==
  LET r == put[b][s]
      u == uiState[b]
  IN /\ PutAt(b, s, "answered")
     /\ uiState' = [uiState EXCEPT ![b] =
          EndSync(IF u.cart = r.cart THEN ReplaceFromServer(u, r.rows)
                  ELSE [u EXCEPT !.dirty = TRUE])]
     /\ unsent' = [unsent EXCEPT ![b] = @ /\ u.cart # r.cart]
     /\ put' = [put EXCEPT ![b][s] = NoPut]
     /\ AfterClearing(b, r, TRUE)
     /\ UNCHANGED <<server, bucket, used>>

\* The catch and finally clauses.
SyncFailed(b) == uiState' = [uiState EXCEPT ![b] = EndSync([@ EXCEPT !.dirty = TRUE])]

PutError(b, s) ==
  /\ PutAt(b, s, "failed")
  /\ SyncFailed(b)
  /\ put' = [put EXCEPT ![b][s] = NoPut]
  /\ AfterClearing(b, put[b][s], FALSE)
  /\ UNCHANGED <<server, bucket, unsent, used>>

\* The connection breaks: the request is lost, or goes on without its browser.
PutCut(b, s) ==
  /\ put[b][s].heard /\ put[b][s].at \in {"sent", "deleted", "committed", "answered"}
  /\ Spend("faults")
  /\ SyncFailed(b)
  /\ \E r \in {NoPut, [put[b][s] EXCEPT !.heard = FALSE]} :
       /\ IF r = NoPut THEN put[b][s].at \in {"sent", "answered"} ELSE ~PutAt(b, s, "answered")
       /\ put' = [put EXCEPT ![b][s] = r]
  /\ AfterClearing(b, put[b][s], FALSE)
  /\ UNCHANGED <<server, bucket, unsent>>

-----------------------------------------------------------------------------
(* Polling: startPartySessionPolling and refreshPartySessionState *)

\* clearPartySessionPolling: only the timer partyPollerId names can be cleared.
ClearPolling(b, chains) ==
  LET k == uiState[b].partyPollerId
  IN IF k # 0 /\ chains[k].at = "timer" THEN [chains EXCEPT ![k] = NoReply] ELSE chains

FreeChains(chains) == {k \in Chains : /\ chains[k].at = "off"
                                      /\ \A j \in 1..(k - 1) : chains[j].at # "off"}

\* The timer fires and getPartySessionRealtime reads (its reads run side by side;
\* the status only ends a chain, so they are one step here); without a session
\* or a token the refresh returns at once and the chain ends.
PollTimer(b, k) ==
  /\ poll[b][k].at = "timer"
  /\ poll' = [poll EXCEPT ![b][k] =
       IF k = 0 \/ HasToken(uiState[b])
       THEN [at |-> "answered", bucket |-> bucket, status |-> entry] ELSE NoReply]
  /\ UNCHANGED <<server, bucket, uiState, put, load, order, unsent, used>>

\* What follows a refresh of chain k, or of the table order (0), in tab state u.
AfterRefresh(b, k, u) ==
  IF k = 0
  THEN /\ load[b].at = "off" /\ AskEntry(b)
       /\ order' = [order EXCEPT ![b] = NoOrder]
       /\ uiState' = [uiState EXCEPT ![b] = u]
       /\ poll' = [poll EXCEPT ![b][k] = NoReply]
  ELSE /\ IF u.activePartySessionId /\ u.view # "away" /\ u.status = "SEATED"
          THEN /\ uiState' = [uiState EXCEPT ![b] = [u EXCEPT !.partyPollerId = k]]
               /\ poll' = [poll EXCEPT ![b][k] = [NoReply EXCEPT !.at = "timer"]]
          ELSE /\ uiState' = [uiState EXCEPT ![b] = u]
               /\ poll' = [poll EXCEPT ![b][k] = NoReply]
       /\ UNCHANGED <<load, order>>

\* Variant: a poll replaces the cart whatever waits in it.
PollAnswerBlindly(b, k) ==
  LET r == poll[b][k]
      u == [uiState[b] EXCEPT !.status = IF uiState[b].view = "away" THEN @ ELSE r.status]
  IN /\ r.at = "answered"
     /\ AfterRefresh(b, k, [ReplaceFromServer(u, r.bucket) EXCEPT !.dirty = u.dirty])
     /\ UNCHANGED <<server, bucket, put, unsent, used>>

PollAnswer(b, k) ==
  LET r == poll[b][k]
      u == [uiState[b] EXCEPT !.status = IF uiState[b].view = "away" THEN @ ELSE r.status]
  IN /\ r.at = "answered"
     /\ AfterRefresh(b, k, IF ~u.dirty /\ ~u.isSyncing
                           THEN ReplaceFromServer(u, r.bucket) ELSE u)
     /\ UNCHANGED <<server, bucket, put, unsent, used>>

\* Variant: a poll that fails ends the polling.
PollFailsForGood(b, k) ==
  /\ poll[b][k].at = "answered"
  /\ Spend("faults")
  /\ poll' = [poll EXCEPT ![b][k] = NoReply]
  /\ UNCHANGED <<server, bucket, put, unsent, uiState, load, order>>

\* A poll that fails is tried again later.
PollFails(b, k) ==
  /\ poll[b][k].at = "answered"
  /\ Spend("faults")
  /\ AfterRefresh(b, k, uiState[b])
  /\ UNCHANGED <<server, bucket, put, unsent>>

\* The visibilitychange listener, when nothing polls.
VisibilityChange(b) ==
  /\ uiState[b].activePartySessionId /\ uiState[b].partyPollerId = 0
  /\ \E k \in FreeChains(poll[b]) :
       /\ poll' = [poll EXCEPT ![b][k].at = "timer"]
       /\ uiState' = [uiState EXCEPT ![b].partyPollerId = k]
  /\ UNCHANGED <<server, bucket, put, load, order, unsent, used>>

-----------------------------------------------------------------------------
(* Rendering: renderRoute, renderGuestEntry, loadPartySessionState *)

\* The guest opens the page or comes back to it: the shell is reset first.
RenderRoute(b) ==
  /\ access[b] = "in" /\ load[b].at = "off"
  /\ Spend("renders")
  /\ poll' = [poll EXCEPT ![b] = ClearPolling(b, @)]
  /\ uiState' = [uiState EXCEPT ![b] =
       [ResetPartyBucketState(@) EXCEPT !.view = "away", !.activePartySessionId = FALSE,
                                        !.partyPollerId = 0]]
  /\ unsent' = [unsent EXCEPT ![b] = FALSE]
  /\ AskEntry(b)
  /\ UNCHANGED <<server, bucket, put, order>>

\* A payment that ends renders the entry again without a reset.
RenderAgain(b) ==
  /\ uiState[b].view = "shell" /\ load[b].at = "off"
  /\ Spend("renders")
  /\ AskEntry(b)
  /\ UNCHANGED <<server, bucket, uiState, put, poll, order, unsent>>

\* GET /queue/:id and, if it is seated, the session's GET /realtime, read in one
\* step.  An entry that is not seated has no shared bucket on its page.
LoadRead(b) ==
  /\ load[b].at = "entry"
  /\ load' = [load EXCEPT ![b] = [at |-> "answered", bucket |-> bucket, status |-> entry]]
  /\ UNCHANGED <<server, bucket, uiState, put, poll, order, unsent, used>>

\* The page of an ended entry (its bill, awaited without a session, changes nothing).
LoadClosed(b) ==
  /\ load[b].at = "answered" /\ load[b].status = "CLOSED"
  /\ load' = [load EXCEPT ![b] = NoReply]
  /\ poll' = [poll EXCEPT ![b] = ClearPolling(b, @)]
  /\ uiState' = [uiState EXCEPT ![b] =
       [ResetPartyBucketState(@) EXCEPT !.view = "other", !.status = "CLOSED",
                                        !.activePartySessionId = FALSE, !.partyPollerId = 0]]
  /\ unsent' = [unsent EXCEPT ![b] = FALSE]
  /\ UNCHANGED <<server, bucket, put, order, used>>

\* The entry cannot be read: a page that offers to retry.
LoadEntryFails(b) ==
  /\ load[b].at = "entry" /\ Spend("faults")
  /\ load' = [load EXCEPT ![b] = NoReply]
  /\ poll' = [poll EXCEPT ![b] = ClearPolling(b, @)]
  /\ uiState' = [uiState EXCEPT ![b].view = IF @ = "away" THEN @ ELSE "other",
                                ![b].partyPollerId = 0]
  /\ UNCHANGED <<server, bucket, put, order, unsent>>

AskBill(b) == load' = [load EXCEPT ![b] = [NoReply EXCEPT !.at = "bill"]]

\* The cart is replaced whether or not it was saved; the page is drawn when the
\* bill has been asked for, and until then the tab is as it was.
LoadAnswer(b) ==
  /\ load[b].at = "answered" /\ load[b].status = "SEATED"
  /\ uiState' = [uiState EXCEPT ![b] =
       [ReplaceFromServer(@, load[b].bucket) EXCEPT !.activePartySessionId = TRUE]]
  /\ unsent' = [unsent EXCEPT ![b] = FALSE]
  /\ AskBill(b)
  /\ UNCHANGED <<server, bucket, put, poll, order, used>>

\* Without the session the tab falls back to a cart of its own.
LoadFails(b) ==
  /\ load[b].at = "answered" /\ load[b].status = "SEATED" /\ Spend("faults")
  /\ uiState' = [uiState EXCEPT ![b] =
       [ResetPartyBucketState(@) EXCEPT !.activePartySessionId = FALSE]]
  /\ unsent' = [unsent EXCEPT ![b] = FALSE]
  /\ AskBill(b)
  /\ UNCHANGED <<server, bucket, put, poll, order>>

\* renderPage and mountSeatedGuestExperience, with or without the bill: the poll
\* timer is cleared, not a poll under way, and a new chain starts (bound: with
\* MaxPolls polls under way the old chains go on without a new one).
Mount(b) ==
  LET chains == ClearPolling(b, poll[b])
      shell == [uiState[b] EXCEPT !.view = "shell", !.status = "SEATED"]
  IN /\ load[b].at = "bill"
     /\ load' = [load EXCEPT ![b] = NoReply]
     /\ \/ \E k \in FreeChains(chains) :
             /\ poll' = [poll EXCEPT ![b] = [chains EXCEPT ![k].at = "timer"]]
             /\ uiState' = [uiState EXCEPT ![b] = [shell EXCEPT !.partyPollerId = k]]
        \/ /\ FreeChains(chains) = {}
           /\ uiState' = [uiState EXCEPT ![b] = shell]
           /\ UNCHANGED poll
     /\ UNCHANGED <<server, bucket, put, order, unsent, used>>

-----------------------------------------------------------------------------
(* "Send order to table" *)

SubmitTableOrder(b) ==
  LET u == uiState[b]
  IN /\ u.view = "shell" /\ u.activePartySessionId /\ load[b].at = "off"
     /\ order[b].at = "none" /\ u.cart # Empty
     /\ Spend("orders")
     /\ order' = [order EXCEPT ![b] = [at |-> "posted", lines |-> u.cart]]
     /\ UNCHANGED <<server, bucket, uiState, put, poll, load, unsent>>

\* POST /orders/table/guest, in one step here (see GuestPayments for its own).
CreateTableOrder(b) ==
  /\ order[b].at = "posted"
  /\ order' = [order EXCEPT ![b] = [NoOrder EXCEPT !.at =
       IF entry = "SEATED" /\ Retained(order[b].lines) \subseteq available
       THEN "accepted" ELSE "refused"]]
  /\ UNCHANGED <<server, bucket, uiState, put, poll, load, unsent, used>>

OrderCut(b) ==
  /\ order[b].at \in {"posted", "accepted"}
  /\ Spend("faults")
  /\ order' = [order EXCEPT ![b] = [NoOrder EXCEPT !.at = "refused"]]
  /\ UNCHANGED <<server, bucket, uiState, put, poll, load, unsent>>

\* The draft is cleared and the clearing sent at once; one that finds a sync
\* under way leaves it to that sync and goes on (bound: one page load at a time,
\* so a page that is not drawn yet hears of it when it is).
OrderAccepted(b) ==
  LET u == [uiState[b] EXCEPT !.cart = Empty, !.dirty = TRUE]
  IN /\ order[b].at = "accepted" /\ HasToken(u)
     /\ Flush(b, u, TRUE)
     /\ unsent' = [unsent EXCEPT ![b] = TRUE]
     /\ IF u.isSyncing
        THEN load[b].at = "off" /\ AskEntry(b) /\ order' = [order EXCEPT ![b] = NoOrder]
        ELSE order' = [order EXCEPT ![b].at = "clearing"] /\ UNCHANGED load
     /\ UNCHANGED <<server, bucket, poll, used>>

\* Refused, or accepted when the tab has no session any more.
OrderEnds(b) ==
  /\ \/ order[b].at = "refused"
     \/ order[b].at = "accepted" /\ ~uiState[b].activePartySessionId
  /\ load[b].at = "off" /\ AskEntry(b)
  /\ order' = [order EXCEPT ![b] = NoOrder]
  /\ UNCHANGED <<server, bucket, uiState, put, poll, unsent, used>>

-----------------------------------------------------------------------------
(* Staff *)

CloseEntry ==
  /\ session /\ Spend("staff")
  /\ entry = "SEATED" /\ entry' = "CLOSED"
  /\ UNCHANGED <<available, hostRows, session, access, bucket, uiState, put, poll, load,
                 order, unsent>>

SellOut(i) ==
  /\ Spend("staff")
  /\ i \in available /\ available' = available \ {i}
  /\ UNCHANGED <<entry, hostRows, session, access, bucket, uiState, put, poll, load,
                 order, unsent>>

-----------------------------------------------------------------------------
(* The system *)

Access(b) == EnsureRead(b) \/ EnsureCreate(b) \/ JoinPartySession(b)

ServePut(b, s) == PutBegin(b, s) \/ PutCommit(b, s) \/ PutRead(b, s)
HearPut(b, s) == PutAnswer(b, s) \/ PutError(b, s)
Polling(b, k) == PollTimer(b, k) \/ PollAnswer(b, k)
Loading(b) == LoadRead(b) \/ LoadClosed(b) \/ LoadAnswer(b) \/ Mount(b)
Ordering(b) == CreateTableOrder(b) \/ OrderAccepted(b) \/ OrderEnds(b)

Faults(b) ==
  \/ \E s \in Slots : PutAbort(b, s) \/ PutCut(b, s)
  \/ \E k \in Polls : PollFails(b, k)
  \/ LoadEntryFails(b) \/ LoadFails(b) \/ OrderCut(b)

Guest(b) ==
  \/ \E i \in Items : ApplyPartyBucketDelta(b, i)
  \/ SubmitTableOrder(b)
  \/ RenderRoute(b) \/ RenderAgain(b) \/ VisibilityChange(b)

Program(b) ==
  \/ Access(b) \/ SyncTimer(b) \/ Loading(b) \/ Ordering(b)
  \/ \E s \in Slots : ServePut(b, s) \/ HearPut(b, s)
  \/ \E k \in Polls : Polling(b, k)

Next ==
  \/ \E b \in Browsers : Program(b) \/ Guest(b) \/ Faults(b)
  \/ CloseEntry \/ \E i \in Items : SellOut(i)

Spec == Init /\ [][Next]_vars

\* Requests are served, answers heard and set timers fire; guests, staff and
\* faults act when they like.
Progress(b) ==
  \/ SyncTimer(b) \/ Loading(b) \/ Ordering(b) \/ Polling(b, 0)
  \/ \E s \in Slots : ServePut(b, s) \/ HearPut(b, s)
Fairness == \A b \in Browsers :
  WF_vars(Progress(b)) /\ \A k \in Chains : WF_vars(Polling(b, k))

FairSpec == Spec /\ Fairness

-----------------------------------------------------------------------------
(* Properties *)

\* One host comes with one session however many devices of the guest ask for
\* it at once (ensurePartySessionForQueueEntry).
OneHost == hostRows <= 1

\* An edit that no saved bucket contains is marked as unsaved, so a poll that
\* answers now cannot take it away.
UnsentIsDirty ==
  \A b \in Browsers : unsent[b] /\ uiState[b].activePartySessionId => uiState[b].dirty

\* An unsaved edit always has a sync under way or a timer that will start one:
\* no edit is left behind by an answer, an error or a sync that overlaps it, nor
\* by a page that is rendered again meanwhile.
UnsentIsScheduled ==
  \A b \in Browsers : LET u == uiState[b]
    IN unsent[b] /\ u.activePartySessionId => u.pendingSyncTimer \/ u.isSyncing

\* Only the guest, the order that is sent, and a page that is rendered anew take
\* an unsaved edit off the screen; no poll and no answer to a sync does.
EditSurvivesAnswers ==
  [][\A b \in Browsers :
       unsent[b] /\ uiState'[b].cart # uiState[b].cart =>
         \/ used'.edits # used.edits \/ order'[b] # order[b] \/ load'[b] # load[b]
         \/ \E s \in Slots : PutAt(b, s, "answered") /\ put[b][s].cart = uiState[b].cart]_vars

\* A save that no other save overlaps leaves exactly the cart that was sent.
LoneSaveReplacesBucket ==
  [][\A b \in Browsers, s \in Slots :
       PutAt(b, s, "deleted") /\ put'[b][s].at = "committed" /\ put[b][s].alone
         => bucket' = put[b][s].cart]_vars

Orderable(b) == Retained(uiState[b].cart) \subseteq available

\* When nobody edits any more every edit comes to be saved, unless the page was
\* rendered anew or what it asks for cannot be had any more.
EditIsSaved ==
  <>[](\A b \in Browsers : ~unsent[b] \/ entry = "CLOSED" \/ ~Orderable(b))

Shares(b) ==
  /\ uiState[b].view = "shell" /\ uiState[b].activePartySessionId
  /\ entry = "SEATED" /\ Orderable(b)

\* A save of the page before ended while the new page was not drawn: it marked
\* the cart that had just been loaded, and the sync it scheduled found no token.
\* The mark keeps the polls from the cart until the guest edits it or the page
\* is rendered again.
Stranded(b) ==
  LET u == uiState[b] IN u.dirty /\ ~u.pendingSyncTimer /\ ~u.isSyncing

\* When nobody edits any more all screens come to show the same bucket, the
\* one on the server, but for a tab that such a save has stranded.
ScreensAgree ==
  <>[](\A b \in Browsers : Shares(b) /\ ~Stranded(b) => uiState[b].cart = bucket)
=============================================================================
