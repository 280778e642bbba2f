-------------------------- MODULE PartyBucketProofs --------------------------
(***************************************************************************)
(* Proofs about PartyBucket, for every number of devices, items, requests   *)
(* and polls: no unsaved edit is forgotten or overwritten by an answer, a   *)
(* save that overlaps no other replaces the bucket, a session has one host. *)
(***************************************************************************)
EXTENDS PartyBucket, TLAPS

PutRequest == [at: {"none", "sent", "deleted", "committed", "answered", "failed"},
               cart: Carts, rows: Carts, doomed: SUBSET Items,
               alone: BOOLEAN, heard: BOOLEAN, awaited: BOOLEAN]
PollChain == [at: {"off", "timer", "answered"}, bucket: Carts, status: {"SEATED", "CLOSED"}]
LoadRequest == [at: {"off", "entry", "answered", "bill"}, bucket: Carts, status: {"SEATED", "CLOSED"}]
TableOrder == [at: {"none", "posted", "accepted", "refused", "clearing", "refreshing"},
               lines: Carts]

\* A host for a session.
HostInv ==
  /\ entry \in {"SEATED", "CLOSED"} /\ available \subseteq Items /\ session \in BOOLEAN
  /\ access \in [Browsers -> {"out", "creating", "in"}]
  /\ hostRows = IF session THEN 1 ELSE 0

\* A tab in state u, its cart unsent or not: an unsent cart is of a session, on a
\* page that is drawn (so a sync that starts finds the token), marked as unsaved,
\* and has a sync under way or scheduled.
TabInv(u, isUnsent) ==
  isUnsent => /\ u.activePartySessionId /\ u.view # "away" /\ u.dirty
              /\ u.pendingSyncTimer \/ u.isSyncing

TabsInv ==
  /\ uiState \in [Browsers -> UiState] /\ unsent \in [Browsers -> BOOLEAN]
  /\ \A b \in Browsers : TabInv(uiState[b], unsent[b])

\* A transaction that is alone found every row its cart does not keep.
PutsInv ==
  /\ bucket \in Carts
  /\ put \in [Browsers -> [Slots -> PutRequest]]
  /\ \A b \in Browsers, s \in Slots : put[b][s].at = "deleted" /\ put[b][s].alone =>
       /\ \A c \in Browsers, t \in Slots : put[c][t].at = "deleted" => c = b /\ t = s
       /\ Retained(bucket) \subseteq Retained(put[b][s].cart) \cup put[b][s].doomed

RequestsTyped ==
  /\ poll \in [Browsers -> [Polls -> PollChain]]
  /\ load \in [Browsers -> LoadRequest]
  /\ order \in [Browsers -> TableOrder]
  /\ used \in [Kinds -> Nat]

PartyInv == HostInv /\ TabsInv /\ PutsInv /\ RequestsTyped

-----------------------------------------------------------------------------
(* What the operators of a tab and of a PUT return *)

\* No rows at all are a cart.
LEMMA EmptyIsCart == Empty \in Carts /\ Retained(Empty) = {}
BY QuantityAssumption DEF Empty, Carts, Retained

LEMMA BlankRequests == NoPut \in PutRequest /\ NoReply \in LoadRequest /\ NoReply \in PollChain
                       /\ NoOrder \in TableOrder
BY EmptyIsCart DEF NoPut, PutRequest, NoReply, LoadRequest, PollChain, NoOrder, TableOrder

\* The end of a sync touches nothing but the two flags of the sync, and a cart
\* marked as unsaved is scheduled again.
LEMMA EndOfSync ==
  ASSUME NEW u \in UiState
  PROVE  /\ EndSync(u) \in UiState
         /\ EndSync(u).cart = u.cart /\ EndSync(u).dirty = u.dirty
         /\ EndSync(u).activePartySessionId = u.activePartySessionId
         /\ EndSync(u).view = u.view
         /\ u.activePartySessionId /\ u.dirty => EndSync(u).pendingSyncTimer
BY DEF EndSync, SchedulePartyBucketSync, UiState

LEMMA Replaced ==
  ASSUME NEW u \in UiState, NEW rows \in Carts
  PROVE  /\ ReplaceFromServer(u, rows) \in UiState
         /\ ~ReplaceFromServer(u, rows).dirty
         /\ ReplaceFromServer(u, rows).activePartySessionId = u.activePartySessionId
BY DEF ReplaceFromServer, UiState

LEMMA Reset ==
  ASSUME NEW u \in UiState
  PROVE  ResetPartyBucketState(u) \in UiState /\ ~ResetPartyBucketState(u).dirty
BY EmptyIsCart DEF ResetPartyBucketState, UiState

LEMMA Replied ==
  ASSUME NEW r \in PutRequest
  PROVE  Reply(r) \in PutRequest /\ Reply(r).at \in {r.at, "none"}
BY BlankRequests DEF Reply, NoPut

\* Polling is cleared chain by chain, and stays of its type.
LEMMA ClearedPolling ==
  ASSUME NEW b, NEW chains \in [Polls -> PollChain]
  PROVE  ClearPolling(b, chains) \in [Polls -> PollChain]
BY BlankRequests DEF ClearPolling

LEMMA ChainStarted ==
  ASSUME NEW chains \in [Polls -> PollChain], NEW k \in Polls
  PROVE  [chains EXCEPT ![k].at = "timer"] \in [Polls -> PollChain]
BY DEF PollChain

LEMMA ZeroIsAPoll == /\ 0 \in Polls /\ 0 \in 0..MaxPolls
                     /\ Chains \subseteq Polls /\ 0..MaxPolls = Polls
BY BoundAssumption DEF Polls, Chains

LEMMA SpentIsTyped ==
  ASSUME used \in [Kinds -> Nat], NEW kind \in Kinds, Spend(kind)
  PROVE  used' \in [Kinds -> Nat] /\ used'[kind] # used[kind]
BY DEF Spend, Kinds

\* The requests of a page for its entry.
LEMMA EntryAsked ==
  ASSUME load \in [Browsers -> LoadRequest], NEW b \in Browsers, AskEntry(b)
  PROVE  load' \in [Browsers -> LoadRequest] /\ load'[b].at = "entry"
BY BlankRequests DEF AskEntry, LoadRequest, NoReply

LEMMA OrderForgotten ==
  ASSUME order \in [Browsers -> TableOrder], NEW b \in Browsers,
         order' = [order EXCEPT ![b] = NoOrder]
  PROVE  order' \in [Browsers -> TableOrder]
BY BlankRequests

\* What a table order does after its sync changes requests only.
LEMMA AfterClearingIsTyped ==
  ASSUME poll \in [Browsers -> [Polls -> PollChain]],
         load \in [Browsers -> LoadRequest], order \in [Browsers -> TableOrder],
         NEW b \in Browsers, NEW r, NEW cleared, AfterClearing(b, r, cleared)
  PROVE  /\ poll' \in [Browsers -> [Polls -> PollChain]]
         /\ load' \in [Browsers -> LoadRequest] /\ order' \in [Browsers -> TableOrder]
<1>1. CASE UNCHANGED <<order, load, poll>>
  BY <1>1
<1>2. CASE AskEntry(b) /\ order' = [order EXCEPT ![b] = NoOrder] /\ UNCHANGED poll
  BY <1>2, EntryAsked, OrderForgotten
<1>3. CASE /\ order' = [order EXCEPT ![b].at = "refreshing"]
           /\ poll' = [poll EXCEPT ![b][0].at = "timer"] /\ UNCHANGED load
  <2>1. order' \in [Browsers -> TableOrder]
    BY <1>3 DEF TableOrder
  <2>2. [poll[b] EXCEPT ![0].at = "timer"] \in [Polls -> PollChain]
    BY ZeroIsAPoll, ChainStarted
  <2>3. poll' = [poll EXCEPT ![b] = [poll[b] EXCEPT ![0].at = "timer"]]
    BY <1>3
  <2> QED BY <1>3, <2>1, <2>2, <2>3
<1> QED BY <1>1, <1>2, <1>3 DEF AfterClearing

-----------------------------------------------------------------------------
(* Steps of one tab, and steps of one PUT *)

\* A step that takes one tab to a state of its own.
LEMMA TabStep ==
  ASSUME TabsInv, NEW b \in Browsers, NEW u \in UiState, NEW isUnsent \in BOOLEAN,
         TabInv(u, isUnsent), uiState' = [uiState EXCEPT ![b] = u],
         unsent' = [unsent EXCEPT ![b] = isUnsent]
  PROVE  TabsInv'
<1>1. \A c \in Browsers : /\ uiState'[c] = IF c = b THEN u ELSE uiState[c]
                          /\ unsent'[c] = IF c = b THEN isUnsent ELSE unsent[c]
  BY DEF TabsInv
<1>2. uiState' \in [Browsers -> UiState] /\ unsent' \in [Browsers -> BOOLEAN]
  BY DEF TabsInv
<1>3. ASSUME NEW c \in Browsers
      PROVE  TabInv(uiState'[c], unsent'[c])
  BY <1>1 DEF TabsInv
<1> QED BY <1>2, <1>3 DEF TabsInv

LEMMA TabStepSameEdit ==
  ASSUME TabsInv, NEW b \in Browsers, NEW u \in UiState,
         TabInv(u, unsent[b]), uiState' = [uiState EXCEPT ![b] = u], UNCHANGED unsent
  PROVE  TabsInv'
<1>1. unsent' = [unsent EXCEPT ![b] = unsent[b]] /\ unsent[b] \in BOOLEAN
  BY DEF TabsInv
<1> QED BY <1>1, TabStep

LEMMA TabsAreStill ==
  ASSUME TabsInv, UNCHANGED <<uiState, unsent>>
  PROVE  TabsInv'
BY DEF TabsInv

\* A step that writes no bucket and starts no transaction.
LEMMA PutsKept ==
  ASSUME PutsInv, UNCHANGED bucket, put' \in [Browsers -> [Slots -> PutRequest]],
         \A b \in Browsers, s \in Slots : put'[b][s].at = "deleted" =>
           /\ put[b][s].at = "deleted" /\ put'[b][s].cart = put[b][s].cart
           /\ put'[b][s].doomed = put[b][s].doomed /\ (put'[b][s].alone => put[b][s].alone)
  PROVE  PutsInv'
BY DEF PutsInv

\* The same, of one slot only.
LEMMA OnePutMoves ==
  ASSUME PutsInv, UNCHANGED bucket, NEW b \in Browsers, NEW s \in Slots,
         NEW r \in PutRequest, put' = [put EXCEPT ![b][s] = r],
         r.at = "deleted" => /\ put[b][s].at = "deleted" /\ r.cart = put[b][s].cart
                             /\ r.doomed = put[b][s].doomed /\ r.alone = put[b][s].alone
  PROVE  PutsInv'
<1>1. put' \in [Browsers -> [Slots -> PutRequest]]
  BY DEF PutsInv
<1>2. \A c \in Browsers, t \in Slots :
        put'[c][t] = IF c = b /\ t = s THEN r ELSE put[c][t]
  BY DEF PutsInv
<1> QED BY <1>1, <1>2, PutsKept

LEMMA PutsAreStill ==
  ASSUME PutsInv, UNCHANGED <<bucket, put>>
  PROVE  PutsInv'
BY DEF PutsInv

-----------------------------------------------------------------------------
(* PartyInv, action by action: the session and its members *)

\* Nothing but the session changes.
TabsAndRequestsStill == UNCHANGED <<bucket, uiState, put, poll, load, order, unsent, used>>

LEMMA TabsAndRequestsAreStill ==
  ASSUME PartyInv, HostInv', TabsAndRequestsStill
  PROVE  PartyInv'
<1>1. TabsInv' /\ PutsInv'
  BY TabsAreStill, PutsAreStill DEF PartyInv, TabsAndRequestsStill
<1>2. RequestsTyped'
  BY DEF PartyInv, TabsAndRequestsStill, RequestsTyped
<1> QED BY <1>1, <1>2 DEF PartyInv

LEMMA HostIsStill ==
  ASSUME HostInv, UNCHANGED server
  PROVE  HostInv'
BY DEF HostInv, server

LEMMA AccessKeeps ==
  ASSUME PartyInv, NEW b \in Browsers, Access(b)
  PROVE  PartyInv'
<1>1. TabsAndRequestsStill
  BY DEF Access, EnsureRead, EnsureCreate, JoinPartySession, TabsAndRequestsStill
<1>2. CASE EnsureRead(b)
  BY <1>1, <1>2, TabsAndRequestsAreStill DEF EnsureRead, PartyInv, HostInv
<1>3. CASE EnsureCreate(b)
  <2>1. HostInv
    BY DEF PartyInv
  <2>2. session => HostInv'
    BY <1>3, <2>1 DEF EnsureCreate, HostInv
  <2>3. ~session => HostInv'
    BY <1>3, <2>1 DEF EnsureCreate, HostInv
  <2> QED BY <1>1, <2>2, <2>3, TabsAndRequestsAreStill
<1>4. CASE JoinPartySession(b)
  BY <1>1, <1>4, TabsAndRequestsAreStill DEF JoinPartySession, PartyInv, HostInv
<1> QED BY <1>2, <1>3, <1>4 DEF Access

-----------------------------------------------------------------------------
(* A tab edits its cart and sends it *)

LEMMA EditKeeps ==
  ASSUME PartyInv, NEW b \in Browsers, NEW i \in Items, ApplyPartyBucketDelta(b, i)
  PROVE  PartyInv'
<1> DEFINE u == uiState[b]
<1> USE DEF PartyInv
<1>1. PICK q \in Step(u.cart[i]) :
        /\ uiState' = [uiState EXCEPT ![b] =
             SchedulePartyBucketSync([u EXCEPT !.cart[i] = q, !.dirty = TRUE])]
        /\ unsent' = [unsent EXCEPT ![b] = unsent[b] \/ q # u.cart[i]]
  BY DEF ApplyPartyBucketDelta
<1>2. /\ q \in 0..MaxQuantity /\ u \in UiState
      /\ u.activePartySessionId /\ u.view = "shell"
  <2>1. u \in UiState /\ u.cart[i] \in 0..MaxQuantity
    BY DEF TabsInv, UiState, Carts
  <2> QED BY <2>1, QuantityAssumption DEF Step, ApplyPartyBucketDelta
<1>3. PICK cart : cart = [u.cart EXCEPT ![i] = q]
  OBVIOUS
<1>4. cart \in Carts
  BY <1>2, <1>3 DEF UiState, Carts
<1>5. PICK edited : edited = [u EXCEPT !.cart = cart, !.dirty = TRUE, !.pendingSyncTimer = TRUE]
  OBVIOUS
<1>6. /\ edited \in UiState /\ edited.activePartySessionId /\ edited.view = "shell"
      /\ edited.dirty /\ edited.pendingSyncTimer
  BY <1>2, <1>4, <1>5 DEF UiState
<1>7. SchedulePartyBucketSync([u EXCEPT !.cart[i] = q, !.dirty = TRUE]) = edited
  BY <1>2, <1>3, <1>5 DEF SchedulePartyBucketSync, UiState
<1>8. TabsInv'
  <2>1. PICK x : x = (unsent[b] \/ q # u.cart[i])
    OBVIOUS
  <2>2. x \in BOOLEAN /\ TabInv(edited, x)
    BY <1>6, <2>1 DEF TabInv
  <2> QED BY <1>1, <1>6, <1>7, <2>1, <2>2, TabStep
<1>9. HostInv' /\ PutsInv'
  BY HostIsStill, PutsAreStill DEF ApplyPartyBucketDelta
<1>10. used' \in [Kinds -> Nat]
  BY SpentIsTyped DEF ApplyPartyBucketDelta, RequestsTyped, Kinds
<1>11. RequestsTyped'
  BY <1>10 DEF ApplyPartyBucketDelta, RequestsTyped
<1> QED BY <1>8, <1>9, <1>11

\* A flush keeps the cart and its mark; on a page that is drawn it sends what it
\* finds, or leaves it to the end of the sync under way.
LEMMA Flushed ==
  ASSUME PutsInv, UNCHANGED bucket, NEW b \in Browsers, NEW u \in UiState,
         NEW awaited \in BOOLEAN, Flush(b, u, awaited)
  PROVE  /\ \E v \in UiState :
              /\ uiState' = [uiState EXCEPT ![b] = v]
              /\ v.cart = u.cart /\ v.view = u.view
              /\ v.activePartySessionId = u.activePartySessionId
              /\ (HasToken(u) => v.isSyncing) /\ (u.dirty => v.dirty)
         /\ PutsInv'
         /\ \A c \in Browsers, s \in Slots : put'[c][s].at = "committed" => put'[c][s] = put[c][s]
<1>0. CASE ~HasToken(u)
  <2>1. uiState' = [uiState EXCEPT ![b] = u] /\ UNCHANGED put
    BY <1>0 DEF Flush
  <2> QED BY <1>0, <2>1, PutsAreStill
<1>1. CASE HasToken(u) /\ u.isSyncing
  <2> DEFINE v == [u EXCEPT !.dirty = TRUE]
  <2>1. /\ v \in UiState /\ v.cart = u.cart /\ v.view = u.view
        /\ v.activePartySessionId = u.activePartySessionId
        /\ v.isSyncing /\ v.dirty
    BY <1>1 DEF UiState
  <2>2. uiState' = [uiState EXCEPT ![b] = v] /\ UNCHANGED put
    BY <1>1 DEF Flush
  <2> QED BY <1>1, <2>1, <2>2, PutsAreStill
<1>2. CASE HasToken(u) /\ ~u.isSyncing
  <2> DEFINE v == [u EXCEPT !.isSyncing = TRUE]
             r == [NoPut EXCEPT !.at = "sent", !.cart = u.cart, !.awaited = awaited]
  <2>1. /\ v \in UiState /\ v.cart = u.cart /\ v.view = u.view
        /\ v.activePartySessionId = u.activePartySessionId
        /\ v.isSyncing /\ (v.dirty <=> u.dirty)
    BY DEF UiState
  <2>2. PICK s \in FreeSlots(b) : /\ uiState' = [uiState EXCEPT ![b] = v]
                                  /\ put' = [put EXCEPT ![b][s] = r]
    BY <1>2 DEF Flush
  <2>3. s \in Slots
    BY DEF FreeSlots
  <2>4. r \in PutRequest /\ r.at = "sent"
    BY BlankRequests DEF PutRequest, UiState
  <2>5. PutsInv'
    BY <2>2, <2>3, <2>4, OnePutMoves
  <2>6. \A c \in Browsers, t \in Slots :
          put'[c][t] = IF c = b /\ t = s THEN r ELSE put[c][t]
    BY <2>2, <2>3 DEF PutsInv
  <2> HIDE DEF v, r
  <2>7. \A c \in Browsers, t \in Slots :
          put'[c][t].at = "committed" => put'[c][t] = put[c][t]
    BY <2>4, <2>6
  <2> QED BY <1>2, <2>1, <2>2, <2>5, <2>7
<1> QED BY <1>0, <1>1, <1>2

LEMMA SyncTimerKeeps ==
  ASSUME PartyInv, NEW b \in Browsers, SyncTimer(b)
  PROVE  /\ PartyInv' /\ uiState'[b].cart = uiState[b].cart
         /\ \A c \in Browsers, s \in Slots : put'[c][s].at = "committed" => put'[c][s] = put[c][s]
<1> USE DEF PartyInv
<1> DEFINE u == [uiState[b] EXCEPT !.pendingSyncTimer = FALSE]
<1>1. uiState[b] \in UiState /\ unsent[b] \in BOOLEAN
  BY DEF TabsInv
<1>2. /\ u \in UiState /\ u.cart = uiState[b].cart /\ (u.dirty <=> uiState[b].dirty)
      /\ u.view = uiState[b].view
      /\ u.activePartySessionId = uiState[b].activePartySessionId
  BY <1>1 DEF UiState
<1>3. TabInv(uiState[b], unsent[b])
  BY DEF TabsInv
<1>4. HostInv' /\ RequestsTyped' /\ UNCHANGED <<bucket, unsent>>
  BY HostIsStill DEF SyncTimer, RequestsTyped
<1>5. CASE u.activePartySessionId /\ u.dirty
  <2>1. Flush(b, u, FALSE)
    BY <1>5 DEF SyncTimer
  <2> HIDE DEF u
  <2>0. PutsInv /\ UNCHANGED bucket /\ FALSE \in BOOLEAN /\ u \in UiState
    BY <1>2, <1>4
  <2>2. PICK v \in UiState :
          /\ uiState' = [uiState EXCEPT ![b] = v]
          /\ v.cart = u.cart /\ v.view = u.view
          /\ v.activePartySessionId = u.activePartySessionId
          /\ (HasToken(u) => v.isSyncing) /\ (u.dirty => v.dirty)
    BY <2>0, <2>1, Flushed
  <2>3. PutsInv' /\ \A c \in Browsers, s \in Slots :
                       put'[c][s].at = "committed" => put'[c][s] = put[c][s]
    BY <1>2, <1>4, <2>1, Flushed
  <2>4. TabInv(v, unsent[b])
    BY <1>2, <1>3, <1>5, <2>2 DEF TabInv, HasToken
  <2>5. TabsInv'
    BY <1>4, <2>2, <2>4, TabStepSameEdit
  <2>6. uiState'[b] = v
    BY <2>2 DEF TabsInv
  <2> QED BY <1>2, <1>4, <2>2, <2>3, <2>5, <2>6
<1>6. CASE ~(u.activePartySessionId /\ u.dirty)
  <2>1. uiState' = [uiState EXCEPT ![b] = u] /\ UNCHANGED put
    BY <1>6 DEF SyncTimer
  <2> HIDE DEF u
  <2>2. TabInv(u, unsent[b])
    BY <1>2, <1>3, <1>6 DEF TabInv
  <2>3. TabsInv'
    BY <1>2, <1>4, <2>1, <2>2, TabStepSameEdit
  <2>4. uiState'[b] = u
    BY <2>1 DEF TabsInv
  <2> QED BY <1>2, <1>4, <2>1, <2>3, <2>4, PutsAreStill
<1> QED BY <1>5, <1>6

-----------------------------------------------------------------------------
(* A PUT is served *)

\* Nothing but the PUT, its rows and what is unsent changes.
OthersStill == UNCHANGED <<entry, available, hostRows, session, access, poll, load, order>>

LEMMA OthersAreStill ==
  ASSUME PartyInv, OthersStill, used' \in [Kinds -> Nat]
  PROVE  HostInv' /\ RequestsTyped'
<1>1. HostInv'
  BY HostIsStill DEF OthersStill, server, PartyInv
<1>2. RequestsTyped'
  BY DEF OthersStill, PartyInv, RequestsTyped
<1> QED BY <1>1, <1>2

LEMMA OnlyPutMoves ==
  ASSUME PartyInv, OnlyPut
  PROVE  /\ HostInv' /\ RequestsTyped'
         /\ UNCHANGED uiState
BY OthersAreStill DEF PartyInv, OnlyPut, OthersStill, server, RequestsTyped

LEMMA Overlapped ==
  ASSUME NEW r \in PutRequest
  PROVE  /\ [r EXCEPT !.alone = FALSE] \in PutRequest
         /\ [r EXCEPT !.alone = FALSE].at = r.at
         /\ ~[r EXCEPT !.alone = FALSE].alone
BY DEF PutRequest

\* Transactions that overlap know it from the moment the second begins; until
\* then the rows the only one did not find are those it keeps.
LEMMA PutBeginKeeps ==
  ASSUME PartyInv, NEW b \in Browsers, NEW s \in Slots, PutBegin(b, s)
  PROVE  /\ PartyInv' /\ UNCHANGED <<uiState, unsent>>
         /\ \A c \in Browsers, t \in Slots : put'[c][t].at = "committed" => put'[c][t] = put[c][t]
<1> DEFINE r == put[b][s]
           ok == entry = "SEATED" /\ Retained(r.cart) \subseteq available
           begun == [r EXCEPT !.at = "deleted", !.alone = InTransaction = {},
                              !.doomed = Retained(bucket) \ Retained(r.cart)]
           refused == Reply([r EXCEPT !.at = "failed"])
           overlapped(c, t) == [put[c][t] EXCEPT !.alone = FALSE]
<1>1. put \in [Browsers -> [Slots -> PutRequest]] /\ bucket \in Carts
  BY DEF PartyInv, PutsInv
<1>2. r \in PutRequest /\ r.at = "sent"
  BY <1>1 DEF PutBegin, PutAt
<1>3. /\ begun \in PutRequest /\ begun.at = "deleted" /\ begun.cart = r.cart
      /\ begun.doomed = Retained(bucket) \ Retained(r.cart)
      /\ begun.alone = (InTransaction = {})
  BY <1>2 DEF PutRequest, Retained
<1>4. refused \in PutRequest /\ refused.at \notin {"deleted", "committed"}
  <2>1. [r EXCEPT !.at = "failed"] \in PutRequest /\ [r EXCEPT !.at = "failed"].at = "failed"
    BY <1>2 DEF PutRequest
  <2> QED BY <2>1, Replied
<1>5. \A c \in Browsers, t \in Slots : <<c, t>> \in InTransaction <=> put[c][t].at = "deleted"
  BY DEF InTransaction, PutAt
<1>6. OnlyPut /\ UNCHANGED <<bucket, unsent>>
  BY DEF PutBegin
<1>7. put' = [c \in Browsers |-> [t \in Slots |->
          IF <<c, t>> = <<b, s>> THEN IF ok THEN begun ELSE refused
          ELSE IF ok /\ <<c, t>> \in InTransaction THEN overlapped(c, t) ELSE put[c][t]]]
  BY DEF PutBegin
<1>8. \A c \in Browsers, t \in Slots :
        /\ overlapped(c, t) \in PutRequest /\ overlapped(c, t).at = put[c][t].at
        /\ ~overlapped(c, t).alone
  BY <1>1, Overlapped
<1> HIDE DEF begun, refused, ok, overlapped
<1>9. \A c \in Browsers, t \in Slots :
        put'[c][t] = IF c = b /\ t = s THEN IF ok THEN begun ELSE refused
                     ELSE IF ok /\ put[c][t].at = "deleted" THEN overlapped(c, t)
                     ELSE put[c][t]
  BY <1>5, <1>7
<1>10. put' \in [Browsers -> [Slots -> PutRequest]]
  <2>1. \A c \in Browsers, t \in Slots : put'[c][t] \in PutRequest
    BY <1>1, <1>3, <1>4, <1>8, <1>9
  <2>2. put' = [c \in Browsers |-> [t \in Slots |-> put'[c][t]]]
    BY <1>7
  <2> QED BY <2>1, <2>2
<1>11. CASE ok
  <2>1. ASSUME NEW c \in Browsers, NEW t \in Slots,
               put'[c][t].at = "deleted", put'[c][t].alone
        PROVE  /\ c = b /\ t = s /\ begun.alone
    BY <1>3, <1>11, <1>9, <1>8, <2>1
  <2>2. begun.alone => \A c \in Browsers, t \in Slots :
                         put'[c][t].at = "deleted" => c = b /\ t = s
    <3>1. begun.alone => \A c \in Browsers, t \in Slots : put[c][t].at # "deleted"
      BY <1>3, <1>5
    <3> QED BY <1>9, <1>11, <3>1
  <2>3. Retained(bucket) \subseteq Retained(begun.cart) \cup begun.doomed
    BY <1>3
  <2>4. put'[b][s] = begun /\ bucket' = bucket
    BY <1>6, <1>11, <1>9
  <2>5. PutsInv'
    <3>1. ASSUME NEW c \in Browsers, NEW t \in Slots, put'[c][t].at = "deleted", put'[c][t].alone
          PROVE  /\ \A d \in Browsers, x \in Slots : put'[d][x].at = "deleted" => d = c /\ x = t
                 /\ Retained(bucket') \subseteq Retained(put'[c][t].cart) \cup put'[c][t].doomed
      BY <3>1, <2>1, <2>2, <2>3, <2>4
    <3> QED BY <1>1, <1>10, <2>4, <3>1 DEF PutsInv
  <2>6. \A c \in Browsers, t \in Slots : put'[c][t].at = "committed" => put'[c][t] = put[c][t]
    BY <1>3, <1>11, <1>8, <1>9
  <2> QED BY <1>6, <2>5, <2>6, OnlyPutMoves, TabsAreStill DEF PartyInv
<1>12. CASE ~ok
  <2>1. \A c \in Browsers, t \in Slots :
          put'[c][t] = IF c = b /\ t = s THEN refused ELSE put[c][t]
    BY <1>12, <1>9
  <2>2. PutsInv'
    BY <1>4, <1>6, <1>10, <2>1, PutsKept DEF PartyInv
  <2>3. \A c \in Browsers, t \in Slots : put'[c][t].at = "committed" => put'[c][t] = put[c][t]
    BY <1>4, <2>1
  <2> QED BY <1>6, <2>2, <2>3, OnlyPutMoves, TabsAreStill DEF PartyInv
<1> QED BY <1>11, <1>12

\* A transaction that is alone leaves its cart: the only commit there is.
LEMMA PutCommitKeeps ==
  ASSUME PartyInv, NEW b \in Browsers, NEW s \in Slots, PutCommit(b, s)
  PROVE  /\ PartyInv' /\ UNCHANGED uiState
         /\ put[b][s].alone => bucket' = put[b][s].cart
         /\ \A c \in Browsers, t \in Slots :
              put'[c][t].at = "committed" => (c = b /\ t = s) \/ put'[c][t] = put[c][t]
<1> DEFINE r == put[b][s]
           done == [r EXCEPT !.at = "committed", !.doomed = {}]
           rows == [i \in Items |-> IF i \in Retained(r.cart) THEN r.cart[i]
                                    ELSE IF i \in r.doomed THEN 0 ELSE bucket[i]]
<1>1. put \in [Browsers -> [Slots -> PutRequest]] /\ bucket \in Carts /\ PutsInv
  BY DEF PartyInv, PutsInv
<1>2. r \in PutRequest /\ r.at = "deleted"
  BY <1>1 DEF PutCommit, PutAt
<1>3. done \in PutRequest /\ done.at = "committed"
  BY <1>2 DEF PutRequest
<1>4. r.cart \in Carts
  BY <1>2 DEF PutRequest
<1>5. rows \in Carts
  BY <1>1, <1>4, QuantityAssumption DEF Carts
<1>6. bucket' = rows /\ put' = [put EXCEPT ![b][s] = done] /\ OnlyPut
      /\ unsent' = [unsent EXCEPT ![b] = unsent[b] /\ uiState[b].cart # r.cart]
  BY DEF PutCommit
<1>7. r.alone => /\ \A c \in Browsers, t \in Slots : put[c][t].at = "deleted" => c = b /\ t = s
                 /\ Retained(bucket) \subseteq Retained(r.cart) \cup r.doomed
  BY <1>1, <1>2 DEF PutsInv
<1>8. r.alone => rows = r.cart
  <2>1. ASSUME r.alone, NEW i \in Items
        PROVE  rows[i] = r.cart[i]
    BY <1>1, <1>4, <1>7, <2>1, QuantityAssumption DEF Retained, Carts
  <2> QED BY <1>4, <1>5, <2>1 DEF Carts
<1> HIDE DEF done, rows
<1>9. \A c \in Browsers, t \in Slots :
        put'[c][t] = IF c = b /\ t = s THEN done ELSE put[c][t]
  BY <1>1, <1>6
<1>10. put' \in [Browsers -> [Slots -> PutRequest]]
  BY <1>1, <1>3, <1>6
<1>11. ASSUME NEW c \in Browsers, NEW t \in Slots, put'[c][t].at = "deleted"
       PROVE  ~put'[c][t].alone
  BY <1>1, <1>2, <1>3, <1>9, <1>11 DEF PutsInv
<1>12. PutsInv'
  BY <1>5, <1>6, <1>10, <1>11 DEF PutsInv
<1>13. TabsInv'
  <2>1. uiState' = uiState /\ uiState \in [Browsers -> UiState] /\ unsent \in [Browsers -> BOOLEAN]
    BY <1>6, OnlyPutMoves DEF PartyInv, TabsInv
  <2>2. PICK x : x = (unsent[b] /\ uiState[b].cart # r.cart)
    OBVIOUS
  <2>3. x \in BOOLEAN /\ (x => unsent[b])
    BY <2>2
  <2>4. TabInv(uiState[b], x) /\ uiState[b] \in UiState /\ TabsInv
    BY <2>1, <2>3 DEF PartyInv, TabsInv, TabInv
  <2>5. uiState' = [uiState EXCEPT ![b] = uiState[b]] /\ unsent' = [unsent EXCEPT ![b] = x]
    BY <1>6, <2>1, <2>2
  <2> QED BY <2>3, <2>4, <2>5, TabStep
<1> QED BY <1>6, <1>8, <1>9, <1>12, <1>13, OnlyPutMoves DEF PartyInv

-----------------------------------------------------------------------------
(* What a step may do to an unsaved cart and to the bucket *)

EditStep ==
  \A b \in Browsers :
    unsent[b] /\ uiState'[b].cart # uiState[b].cart =>
      \/ used'.edits # used.edits \/ order'[b] # order[b] \/ load'[b] # load[b]
      \/ \E s \in Slots : PutAt(b, s, "answered") /\ put[b][s].cart = uiState[b].cart

CommitStep ==
  \A b \in Browsers, s \in Slots :
    PutAt(b, s, "deleted") /\ put'[b][s].at = "committed" /\ put[b][s].alone
      => bucket' = put[b][s].cart

Kept == PartyInv' /\ EditStep /\ CommitStep

\* A step of one tab.
LEMMA OneTabEdits ==
  ASSUME TabsInv, NEW b \in Browsers, NEW u, uiState' = [uiState EXCEPT ![b] = u],
         \/ unsent[b] => u.cart = uiState[b].cart
         \/ used'.edits # used.edits \/ order'[b] # order[b] \/ load'[b] # load[b]
         \/ \E s \in Slots : PutAt(b, s, "answered") /\ put[b][s].cart = uiState[b].cart
  PROVE  EditStep
<1>1. \A c \in Browsers : uiState'[c] = IF c = b THEN u ELSE uiState[c]
  BY DEF TabsInv
<1> QED BY <1>1 DEF EditStep

LEMMA NoTabEdits ==
  ASSUME UNCHANGED uiState
  PROVE  EditStep
BY DEF EditStep

LEMMA NothingCommits ==
  ASSUME \A b \in Browsers, s \in Slots : put'[b][s].at = "committed" => put'[b][s] = put[b][s]
  PROVE  CommitStep
BY DEF CommitStep, PutAt

LEMMA NoPutMoves ==
  ASSUME UNCHANGED put
  PROVE  CommitStep
BY NothingCommits

\* A step of one slot that commits nothing and begins nothing.
LEMMA OnePutGoesOn ==
  ASSUME PutsInv, UNCHANGED bucket, NEW b \in Browsers, NEW s \in Slots,
         NEW r \in PutRequest, put' = [put EXCEPT ![b][s] = r],
         \/ r.at \notin {"deleted", "committed"}
         \/ /\ r.at = put[b][s].at /\ r.cart = put[b][s].cart
            /\ r.doomed = put[b][s].doomed /\ r.alone = put[b][s].alone
  PROVE  PutsInv' /\ CommitStep
<1>1. PutsInv'
  BY OnePutMoves
<1>2. \A c \in Browsers, t \in Slots :
        put'[c][t] = IF c = b /\ t = s THEN r ELSE put[c][t]
  BY DEF PutsInv
<1>3. CommitStep
  BY <1>2 DEF CommitStep, PutAt
<1> QED BY <1>1, <1>3

-----------------------------------------------------------------------------
(* The rest of a PUT, and its answer *)

LEMMA ServePutKeeps ==
  ASSUME PartyInv, NEW b \in Browsers, NEW s \in Slots, ServePut(b, s)
  PROVE  Kept
<1>1. CASE PutBegin(b, s)
  BY <1>1, PutBeginKeeps, NoTabEdits, NothingCommits DEF Kept
<1>2. CASE PutCommit(b, s)
  <2>1. PartyInv' /\ EditStep
    BY <1>2, PutCommitKeeps, NoTabEdits
  <2>2. CommitStep
    <3>1. ASSUME NEW c \in Browsers, NEW t \in Slots,
                 put[c][t].at = "deleted", put'[c][t].at = "committed", put[c][t].alone
          PROVE  bucket' = put[c][t].cart
      <4>1. c = b /\ t = s
        BY <1>2, <3>1, PutCommitKeeps
      <4> QED BY <1>2, <3>1, <4>1, PutCommitKeeps
    <3> QED BY <3>1 DEF CommitStep, PutAt
  <2> QED BY <2>1, <2>2 DEF Kept
<1>3. CASE PutRead(b, s)
  <2> DEFINE r == [put[b][s] EXCEPT !.at = "answered", !.rows = bucket]
  <2>1. put[b][s] \in PutRequest /\ bucket \in Carts
    BY DEF PartyInv, PutsInv
  <2>2. r \in PutRequest /\ r.at = "answered"
    BY <2>1 DEF PutRequest
  <2>3. put' = [put EXCEPT ![b][s] = Reply(r)] /\ OnlyPut /\ UNCHANGED <<bucket, unsent>>
    BY <1>3 DEF PutRead
  <2> HIDE DEF r
  <2>4. Reply(r) \in PutRequest /\ Reply(r).at \notin {"deleted", "committed"}
    BY <2>2, Replied
  <2>5. PutsInv' /\ CommitStep
    BY <2>3, <2>4, OnePutGoesOn DEF PartyInv
  <2> QED BY <2>3, <2>5, OnlyPutMoves, TabsAreStill, NoTabEdits DEF PartyInv, Kept
<1> QED BY <1>1, <1>2, <1>3 DEF ServePut

LEMMA PutAbortKeeps ==
  ASSUME PartyInv, NEW b \in Browsers, NEW s \in Slots, PutAbort(b, s)
  PROVE  Kept
<1> DEFINE r == [put[b][s] EXCEPT !.at = "failed"]
<1>1. put[b][s] \in PutRequest
  BY DEF PartyInv, PutsInv
<1>2. r \in PutRequest /\ r.at = "failed"
  BY <1>1 DEF PutRequest
<1>3. put' = [put EXCEPT ![b][s] = Reply(r)] /\ UNCHANGED <<bucket, unsent, uiState>>
  BY DEF PutAbort
<1> HIDE DEF r
<1>4. Reply(r) \in PutRequest /\ Reply(r).at \notin {"deleted", "committed"}
  BY <1>2, Replied
<1>5. PutsInv' /\ CommitStep
  BY <1>3, <1>4, OnePutGoesOn DEF PartyInv
<1>6. used' \in [Kinds -> Nat]
  BY SpentIsTyped DEF PutAbort, PartyInv, RequestsTyped, Kinds
<1>7. HostInv' /\ RequestsTyped'
  BY <1>6, OthersAreStill DEF PutAbort, OthersStill, server
<1> QED BY <1>3, <1>5, <1>7, TabsAreStill, NoTabEdits DEF PartyInv, Kept

\* The slot of a PUT that has been heard is free again.
LEMMA SlotFreed ==
  ASSUME PutsInv, UNCHANGED bucket, NEW b \in Browsers, NEW s \in Slots,
         put' = [put EXCEPT ![b][s] = NoPut]
  PROVE  PutsInv' /\ CommitStep
<1>1. NoPut \in PutRequest /\ NoPut.at = "none"
  BY BlankRequests DEF NoPut
<1> QED BY <1>1, OnePutGoesOn

\* The requests of the table order that waited for a sync.
LEMMA SyncEnds ==
  ASSUME PartyInv, UNCHANGED server, NEW b \in Browsers, NEW r, NEW cleared,
         AfterClearing(b, r, cleared), used' \in [Kinds -> Nat]
  PROVE  HostInv' /\ RequestsTyped'
BY HostIsStill, AfterClearingIsTyped DEF PartyInv, RequestsTyped

\* A sync that fails leaves the cart marked, and so scheduled.
LEMMA FailedSync ==
  ASSUME TabsInv, NEW b \in Browsers, SyncFailed(b), UNCHANGED unsent
  PROVE  TabsInv' /\ EditStep
<1> DEFINE u == uiState[b]
           w == [u EXCEPT !.dirty = TRUE]
<1>1. u \in UiState /\ TabInv(u, unsent[b])
  BY DEF TabsInv
<1>2. /\ w \in UiState /\ w.dirty /\ w.cart = u.cart /\ w.view = u.view
      /\ w.activePartySessionId = u.activePartySessionId
  BY <1>1 DEF UiState
<1>3. uiState' = [uiState EXCEPT ![b] = EndSync(w)]
  BY DEF SyncFailed
<1> HIDE DEF w
<1>4. EndSync(w) \in UiState /\ EndSync(w).cart = u.cart /\ TabInv(EndSync(w), unsent[b])
  BY <1>1, <1>2, EndOfSync DEF TabInv
<1> QED BY <1>3, <1>4, TabStepSameEdit, OneTabEdits

LEMMA PutErrorKeeps ==
  ASSUME PartyInv, NEW b \in Browsers, NEW s \in Slots, PutError(b, s)
  PROVE  Kept
<1>1. PutsInv' /\ CommitStep
  BY SlotFreed DEF PutError, PartyInv
<1>2. TabsInv' /\ EditStep
  BY FailedSync DEF PutError, PartyInv
<1>3. used' \in [Kinds -> Nat]
  BY DEF PutError, PartyInv, RequestsTyped
<1>4. HostInv' /\ RequestsTyped'
  BY <1>3, SyncEnds DEF PutError
<1> QED BY <1>1, <1>2, <1>4 DEF PartyInv, Kept

LEMMA PutCutKeeps ==
  ASSUME PartyInv, NEW b \in Browsers, NEW s \in Slots, PutCut(b, s)
  PROVE  Kept
<1> DEFINE unheard == [put[b][s] EXCEPT !.heard = FALSE]
<1>1. PICK r \in {NoPut, unheard} : put' = [put EXCEPT ![b][s] = r]
  BY DEF PutCut
<1>2. UNCHANGED <<server, bucket, unsent>> /\ SyncFailed(b)
  BY DEF PutCut
<1>3. put[b][s] \in PutRequest
  BY DEF PartyInv, PutsInv
<1>4. /\ unheard \in PutRequest /\ unheard.at = put[b][s].at /\ unheard.cart = put[b][s].cart
      /\ unheard.doomed = put[b][s].doomed /\ unheard.alone = put[b][s].alone
  BY <1>3 DEF PutRequest
<1>5. PutsInv' /\ CommitStep
  <2>1. CASE r = NoPut
    BY <1>1, <1>2, <2>1, SlotFreed DEF PartyInv
  <2>2. CASE r = unheard
    <3> HIDE DEF unheard
    <3> QED BY <1>1, <1>2, <1>4, <2>2, OnePutGoesOn DEF PartyInv
  <2> QED BY <2>1, <2>2
<1>6. TabsInv' /\ EditStep
  BY <1>2, FailedSync DEF PartyInv
<1>7. used' \in [Kinds -> Nat]
  BY SpentIsTyped DEF PutCut, PartyInv, RequestsTyped, Kinds
<1>8. HostInv' /\ RequestsTyped'
  BY <1>2, <1>7, SyncEnds DEF PutCut
<1> QED BY <1>5, <1>6, <1>8 DEF PartyInv, Kept

\* An answer replaces the cart it saved, and no other.
LEMMA PutAnswerKeeps ==
  ASSUME PartyInv, NEW b \in Browsers, NEW s \in Slots, PutAnswer(b, s)
  PROVE  Kept
<1> DEFINE r == put[b][s]
           u == uiState[b]
           w == IF u.cart = r.cart THEN ReplaceFromServer(u, r.rows)
                ELSE [u EXCEPT !.dirty = TRUE]
<1>1. /\ uiState' = [uiState EXCEPT ![b] = EndSync(w)] /\ PutAt(b, s, "answered")
      /\ unsent' = [unsent EXCEPT ![b] = unsent[b] /\ u.cart # r.cart]
      /\ UNCHANGED <<server, bucket, used>> /\ AfterClearing(b, r, TRUE)
  BY DEF PutAnswer
<1>2. u \in UiState /\ TabInv(u, unsent[b]) /\ TabsInv /\ r \in PutRequest
  BY DEF PartyInv, TabsInv, PutsInv
<1>3. PutsInv' /\ CommitStep
  BY <1>1, SlotFreed DEF PutAnswer, PartyInv
<1>4. HostInv' /\ RequestsTyped'
  BY <1>1, SyncEnds DEF PartyInv, RequestsTyped
<1>5. CASE u.cart = r.cart
  <2>1. r.rows \in Carts
    BY <1>2 DEF PutRequest
  <2>2. w \in UiState /\ ~w.dirty
    BY <1>2, <1>5, <2>1, Replaced
  <2> HIDE DEF w
  <2>3. EndSync(w) \in UiState /\ TabInv(EndSync(w), FALSE)
    BY <2>2, EndOfSync DEF TabInv
  <2>4. unsent' = [unsent EXCEPT ![b] = FALSE]
    BY <1>1, <1>5
  <2>5. TabsInv'
    BY <1>1, <1>2, <2>3, <2>4, TabStep
  <2>6. EditStep
    BY <1>1, <1>2, <1>5, OneTabEdits
  <2> QED BY <1>3, <1>4, <2>5, <2>6 DEF PartyInv, Kept
<1>6. CASE u.cart # r.cart
  <2>1. /\ w \in UiState /\ w.dirty /\ w.cart = u.cart /\ w.view = u.view
        /\ w.activePartySessionId = u.activePartySessionId
    BY <1>2, <1>6 DEF UiState
  <2> HIDE DEF w
  <2>2. EndSync(w) \in UiState /\ EndSync(w).cart = u.cart /\ TabInv(EndSync(w), unsent[b])
    BY <1>2, <2>1, EndOfSync DEF TabInv
  <2>3. unsent' = unsent
    BY <1>1, <1>2, <1>6 DEF TabsInv
  <2>4. TabsInv' /\ EditStep
    BY <1>1, <1>2, <2>2, <2>3, TabStepSameEdit, OneTabEdits
  <2> QED BY <1>3, <1>4, <2>4 DEF PartyInv, Kept
<1> QED BY <1>5, <1>6

-----------------------------------------------------------------------------
(* Polling *)

\* Two states of a tab with the same cart, equally marked and scheduled, the
\* second on a page that is drawn if the first is.
SameCart(u, v) ==
  /\ u.view # "away" => v.view # "away"
  /\ v.cart = u.cart /\ v.dirty = u.dirty /\ v.isSyncing = u.isSyncing
  /\ v.pendingSyncTimer = u.pendingSyncTimer
  /\ v.activePartySessionId = u.activePartySessionId

LEMMA SameCartSameInv ==
  ASSUME NEW u \in UiState, NEW v \in UiState, NEW isUnsent, SameCart(u, v),
         TabInv(u, isUnsent)
  PROVE  TabInv(v, isUnsent)
BY DEF SameCart, TabInv

\* The refresh that ends keeps the cart it is given.
LEMMA Refreshed ==
  ASSUME RequestsTyped, NEW b \in Browsers, NEW k \in Polls, NEW u \in UiState,
         AfterRefresh(b, k, u)
  PROVE  /\ \E v \in UiState : uiState' = [uiState EXCEPT ![b] = v] /\ SameCart(u, v)
         /\ poll' \in [Browsers -> [Polls -> PollChain]]
         /\ load' \in [Browsers -> LoadRequest] /\ order' \in [Browsers -> TableOrder]
<1>1. ASSUME NEW r \in PollChain, poll' = [poll EXCEPT ![b][k] = r]
      PROVE  poll' \in [Browsers -> [Polls -> PollChain]]
  BY <1>1 DEF RequestsTyped
<1>2. SameCart(u, u)
  BY DEF SameCart
<1>3. CASE k = 0
  <2>1. /\ uiState' = [uiState EXCEPT ![b] = u] /\ poll' = [poll EXCEPT ![b][k] = NoReply]
        /\ AskEntry(b) /\ order' = [order EXCEPT ![b] = NoOrder]
    BY <1>3 DEF AfterRefresh
  <2> QED BY <1>1, <1>2, <2>1, BlankRequests, EntryAsked, OrderForgotten DEF RequestsTyped
<1>4. CASE k # 0 /\ uiState' = [uiState EXCEPT ![b] = u]
                 /\ poll' = [poll EXCEPT ![b][k] = NoReply] /\ UNCHANGED <<load, order>>
  BY <1>1, <1>2, <1>4, BlankRequests DEF RequestsTyped
<1>5. CASE k # 0 /\ uiState' = [uiState EXCEPT ![b] = [u EXCEPT !.partyPollerId = k]]
                 /\ poll' = [poll EXCEPT ![b][k] = [NoReply EXCEPT !.at = "timer"]]
                 /\ UNCHANGED <<load, order>>
  <2> DEFINE v == [u EXCEPT !.partyPollerId = k]
             r == [NoReply EXCEPT !.at = "timer"]
  <2>1. v \in UiState /\ SameCart(u, v)
    BY ZeroIsAPoll DEF UiState, SameCart
  <2>2. r \in PollChain
    BY BlankRequests DEF PollChain
  <2> HIDE DEF v, r
  <2> QED BY <1>1, <1>5, <2>1, <2>2 DEF v, r, RequestsTyped
<1> QED BY <1>3, <1>4, <1>5 DEF AfterRefresh

LEMMA PollTimerKeeps ==
  ASSUME PartyInv, NEW b \in Browsers, NEW k \in Polls, PollTimer(b, k)
  PROVE  Kept
<1>1. PICK r : /\ poll' = [poll EXCEPT ![b][k] = r]
               /\ r \in {[at |-> "answered", bucket |-> bucket, status |-> entry], NoReply}
  BY DEF PollTimer
<1>2. [at |-> "answered", bucket |-> bucket, status |-> entry] \in PollChain
  BY DEF PollChain, PartyInv, PutsInv, HostInv
<1>3. r \in PollChain
  BY <1>1, <1>2, BlankRequests
<1>4. RequestsTyped'
  BY <1>1, <1>3 DEF PollTimer, PartyInv, RequestsTyped
<1>5. UNCHANGED <<server, bucket, uiState, put, unsent>>
  BY DEF PollTimer
<1>6. HostInv' /\ TabsInv' /\ PutsInv'
  BY <1>5, HostIsStill, TabsAreStill, PutsAreStill DEF PartyInv
<1> QED BY <1>4, <1>5, <1>6, NoTabEdits, NoPutMoves DEF PartyInv, Kept

\* A poll leaves a cart alone that is marked as unsaved or being saved.
LEMMA PollAnswerKeeps ==
  ASSUME PartyInv, NEW b \in Browsers, NEW k \in Polls, PollAnswer(b, k)
  PROVE  Kept
<1> DEFINE r == poll[b][k]
           u == [uiState[b] EXCEPT !.status = IF uiState[b].view = "away" THEN @ ELSE r.status]
           w == IF ~u.dirty /\ ~u.isSyncing THEN ReplaceFromServer(u, r.bucket) ELSE u
<1>1. AfterRefresh(b, k, w) /\ UNCHANGED <<server, bucket, put, unsent, used>>
  BY DEF PollAnswer
<1>2. /\ uiState[b] \in UiState /\ r \in PollChain /\ TabInv(uiState[b], unsent[b])
      /\ TabsInv /\ RequestsTyped
  BY DEF PartyInv, TabsInv, RequestsTyped
<1>3. r.status \in {"SEATED", "CLOSED"} /\ r.bucket \in Carts
  BY <1>2 DEF PollChain
<1>4. u \in UiState /\ SameCart(uiState[b], u)
  BY <1>2, <1>3 DEF UiState, SameCart
<1> HIDE DEF u
<1>5. TabInv(u, unsent[b])
  BY <1>2, <1>4, SameCartSameInv
<1>6. w \in UiState /\ TabInv(w, unsent[b]) /\ (unsent[b] => w.cart = u.cart)
  <2>1. CASE ~u.dirty /\ ~u.isSyncing
    BY <1>3, <1>4, <1>5, <2>1, Replaced DEF TabInv
  <2>2. CASE ~(~u.dirty /\ ~u.isSyncing)
    BY <1>4, <1>5, <2>2
  <2> QED BY <2>1, <2>2
<1> HIDE DEF w
<1>7. PICK v \in UiState : uiState' = [uiState EXCEPT ![b] = v] /\ SameCart(w, v)
  BY <1>1, <1>2, <1>6, Refreshed
<1>8. TabInv(v, unsent[b]) /\ (unsent[b] => v.cart = uiState[b].cart)
  <2>1. v.cart = w.cart /\ u.cart = uiState[b].cart
    BY <1>4, <1>7 DEF SameCart
  <2> QED BY <1>6, <1>7, <2>1, SameCartSameInv
<1>9. TabsInv' /\ EditStep
  BY <1>1, <1>2, <1>7, <1>8, TabStepSameEdit, OneTabEdits
<1>10. RequestsTyped'
  BY <1>1, <1>2, <1>6, Refreshed DEF RequestsTyped
<1>11. HostInv' /\ PutsInv' /\ CommitStep
  BY <1>1, HostIsStill, PutsAreStill, NoPutMoves DEF PartyInv
<1> QED BY <1>9, <1>10, <1>11 DEF PartyInv, Kept

LEMMA PollFailsKeeps ==
  ASSUME PartyInv, NEW b \in Browsers, NEW k \in Polls, PollFails(b, k)
  PROVE  Kept
<1>1. AfterRefresh(b, k, uiState[b]) /\ UNCHANGED <<server, bucket, put, unsent>>
  BY DEF PollFails
<1>2. uiState[b] \in UiState /\ TabInv(uiState[b], unsent[b]) /\ TabsInv /\ RequestsTyped
  BY DEF PartyInv, TabsInv
<1>3. PICK v \in UiState : uiState' = [uiState EXCEPT ![b] = v] /\ SameCart(uiState[b], v)
  BY <1>1, <1>2, Refreshed
<1>4. TabInv(v, unsent[b]) /\ v.cart = uiState[b].cart
  BY <1>2, <1>3, SameCartSameInv DEF SameCart
<1>5. TabsInv' /\ EditStep
  BY <1>1, <1>2, <1>3, <1>4, TabStepSameEdit, OneTabEdits
<1>6. used' \in [Kinds -> Nat]
  BY <1>2, SpentIsTyped DEF PollFails, RequestsTyped, Kinds
<1>7. RequestsTyped'
  BY <1>1, <1>2, <1>6, Refreshed DEF RequestsTyped
<1>8. HostInv' /\ PutsInv' /\ CommitStep
  BY <1>1, HostIsStill, PutsAreStill, NoPutMoves DEF PartyInv
<1> QED BY <1>5, <1>7, <1>8 DEF PartyInv, Kept

LEMMA VisibilityChangeKeeps ==
  ASSUME PartyInv, NEW b \in Browsers, VisibilityChange(b)
  PROVE  Kept
<1>1. PICK k \in FreeChains(poll[b]) :
        /\ poll' = [poll EXCEPT ![b][k].at = "timer"]
        /\ uiState' = [uiState EXCEPT ![b].partyPollerId = k]
  BY DEF VisibilityChange
<1>2. k \in Polls /\ k \in 0..MaxPolls
  BY ZeroIsAPoll DEF FreeChains
<1>3. uiState[b] \in UiState /\ TabInv(uiState[b], unsent[b]) /\ TabsInv /\ RequestsTyped
  BY DEF PartyInv, TabsInv
<1>4. PICK v : v = [uiState[b] EXCEPT !.partyPollerId = k]
  OBVIOUS
<1>5. v \in UiState /\ SameCart(uiState[b], v)
  BY <1>2, <1>3, <1>4 DEF UiState, SameCart
<1>6. TabInv(v, unsent[b]) /\ v.cart = uiState[b].cart
  BY <1>3, <1>5, SameCartSameInv DEF SameCart
<1>7. uiState' = [uiState EXCEPT ![b] = v]
  BY <1>1, <1>4
<1>8. TabsInv' /\ EditStep
  BY <1>3, <1>5, <1>6, <1>7, TabStepSameEdit, OneTabEdits DEF VisibilityChange
<1>9. PICK chains : chains = [poll[b] EXCEPT ![k].at = "timer"]
  OBVIOUS
<1>10. chains \in [Polls -> PollChain] /\ poll' = [poll EXCEPT ![b] = chains]
  BY <1>1, <1>2, <1>3, <1>9, ChainStarted DEF RequestsTyped
<1>11. RequestsTyped'
  BY <1>3, <1>10 DEF VisibilityChange, RequestsTyped
<1>12. HostInv' /\ PutsInv' /\ CommitStep
  BY HostIsStill, PutsAreStill, NoPutMoves DEF VisibilityChange, PartyInv
<1> QED BY <1>8, <1>11, <1>12 DEF PartyInv, Kept

-----------------------------------------------------------------------------
(* Rendering *)

\* A page that takes the tab to a state that is saved, or of no session.
LEMMA PageShown ==
  ASSUME TabsInv, NEW b \in Browsers, NEW u \in UiState, TabInv(u, FALSE),
         uiState' = [uiState EXCEPT ![b] = u], unsent' = [unsent EXCEPT ![b] = FALSE],
         load'[b] # load[b]
  PROVE  TabsInv' /\ EditStep
BY TabStep, OneTabEdits

LEMMA PollingCleared ==
  ASSUME poll \in [Browsers -> [Polls -> PollChain]], NEW b \in Browsers,
         poll' = [poll EXCEPT ![b] = ClearPolling(b, poll[b])]
  PROVE  poll' \in [Browsers -> [Polls -> PollChain]]
BY ClearedPolling

\* A load that ends.
LEMMA LoadDone ==
  ASSUME load \in [Browsers -> LoadRequest], NEW b \in Browsers, load[b].at # "off",
         load' = [load EXCEPT ![b] = NoReply]
  PROVE  load' \in [Browsers -> LoadRequest] /\ load'[b] # load[b]
BY BlankRequests DEF LoadRequest, NoReply

LEMMA RenderRouteKeeps ==
  ASSUME PartyInv, NEW b \in Browsers, RenderRoute(b)
  PROVE  Kept
<1> DEFINE w == ResetPartyBucketState(uiState[b])
           v == [w EXCEPT !.view = "away", !.activePartySessionId = FALSE, !.partyPollerId = 0]
<1>1. uiState[b] \in UiState /\ TabsInv /\ RequestsTyped
  BY DEF PartyInv, TabsInv
<1>2. w \in UiState
  BY <1>1, Reset
<1>3. v \in UiState /\ TabInv(v, FALSE)
  <2> HIDE DEF w
  <2> QED BY <1>2, ZeroIsAPoll DEF UiState, TabInv
<1>4. uiState' = [uiState EXCEPT ![b] = v] /\ unsent' = [unsent EXCEPT ![b] = FALSE]
  BY DEF RenderRoute
<1> HIDE DEF v
<1>5. load[b].at = "off" /\ AskEntry(b)
  BY DEF RenderRoute
<1>6. load' \in [Browsers -> LoadRequest] /\ load'[b] # load[b]
  BY <1>1, <1>5, EntryAsked DEF RequestsTyped
<1>7. TabsInv' /\ EditStep
  BY <1>1, <1>3, <1>4, <1>6, PageShown
<1>8. poll' \in [Browsers -> [Polls -> PollChain]]
  BY <1>1, PollingCleared DEF RenderRoute, RequestsTyped
<1>9. used' \in [Kinds -> Nat]
  BY <1>1, SpentIsTyped DEF RenderRoute, RequestsTyped, Kinds
<1>10. RequestsTyped'
  BY <1>1, <1>6, <1>8, <1>9 DEF RenderRoute, RequestsTyped
<1>11. HostInv' /\ PutsInv' /\ CommitStep
  BY HostIsStill, PutsAreStill, NoPutMoves DEF RenderRoute, PartyInv
<1> QED BY <1>7, <1>10, <1>11 DEF PartyInv, Kept

LEMMA RenderAgainKeeps ==
  ASSUME PartyInv, NEW b \in Browsers, RenderAgain(b)
  PROVE  Kept
<1>1. load' \in [Browsers -> LoadRequest] /\ used' \in [Kinds -> Nat]
  BY EntryAsked, SpentIsTyped DEF RenderAgain, PartyInv, RequestsTyped, Kinds
<1>2. RequestsTyped'
  BY <1>1 DEF RenderAgain, PartyInv, RequestsTyped
<1>3. HostInv' /\ TabsInv' /\ PutsInv'
  BY HostIsStill, TabsAreStill, PutsAreStill DEF RenderAgain, PartyInv
<1> QED BY <1>2, <1>3, NoTabEdits, NoPutMoves DEF RenderAgain, PartyInv, Kept

LEMMA LoadReadKeeps ==
  ASSUME PartyInv, NEW b \in Browsers, LoadRead(b)
  PROVE  Kept
<1>1. [at |-> "answered", bucket |-> bucket, status |-> entry] \in LoadRequest
  BY DEF LoadRequest, PartyInv, PutsInv, HostInv
<1>2. load' \in [Browsers -> LoadRequest]
  BY <1>1 DEF LoadRead, PartyInv, RequestsTyped
<1>3. RequestsTyped'
  BY <1>2 DEF LoadRead, PartyInv, RequestsTyped
<1>4. HostInv' /\ TabsInv' /\ PutsInv'
  BY HostIsStill, TabsAreStill, PutsAreStill DEF LoadRead, PartyInv
<1> QED BY <1>3, <1>4, NoTabEdits, NoPutMoves DEF LoadRead, PartyInv, Kept

LEMMA LoadClosedKeeps ==
  ASSUME PartyInv, NEW b \in Browsers, LoadClosed(b)
  PROVE  Kept
<1> DEFINE w == ResetPartyBucketState(uiState[b])
           v == [w EXCEPT !.view = "other", !.status = "CLOSED",
                          !.activePartySessionId = FALSE, !.partyPollerId = 0]
<1>1. uiState[b] \in UiState /\ TabsInv /\ RequestsTyped
  BY DEF PartyInv, TabsInv
<1>2. w \in UiState
  BY <1>1, Reset
<1>3. v \in UiState /\ TabInv(v, FALSE)
  <2> HIDE DEF w
  <2> QED BY <1>2, ZeroIsAPoll DEF UiState, TabInv
<1>4. uiState' = [uiState EXCEPT ![b] = v] /\ unsent' = [unsent EXCEPT ![b] = FALSE]
  BY DEF LoadClosed
<1> HIDE DEF v
<1>5. load' \in [Browsers -> LoadRequest] /\ load'[b] # load[b]
  BY <1>1, LoadDone DEF LoadClosed, RequestsTyped
<1>6. TabsInv' /\ EditStep
  BY <1>1, <1>3, <1>4, <1>5, PageShown
<1>7. poll' \in [Browsers -> [Polls -> PollChain]]
  BY <1>1, PollingCleared DEF LoadClosed, RequestsTyped
<1>8. RequestsTyped'
  BY <1>1, <1>5, <1>7 DEF LoadClosed, RequestsTyped
<1>9. HostInv' /\ PutsInv' /\ CommitStep
  BY HostIsStill, PutsAreStill, NoPutMoves DEF LoadClosed, PartyInv
<1> QED BY <1>6, <1>8, <1>9 DEF PartyInv, Kept

LEMMA LoadEntryFailsKeeps ==
  ASSUME PartyInv, NEW b \in Browsers, LoadEntryFails(b)
  PROVE  Kept
<1>1. uiState[b] \in UiState /\ TabInv(uiState[b], unsent[b]) /\ TabsInv /\ RequestsTyped
  BY DEF PartyInv, TabsInv
<1>2. PICK v : v = [uiState[b] EXCEPT !.view = IF @ = "away" THEN @ ELSE "other",
                                      !.partyPollerId = 0]
  OBVIOUS
<1>3. v \in UiState /\ SameCart(uiState[b], v)
  BY <1>1, <1>2, ZeroIsAPoll DEF UiState, SameCart
<1>4. uiState' = [uiState EXCEPT ![b] = v]
  <2>1. uiState' = [uiState EXCEPT ![b].view = IF @ = "away" THEN @ ELSE "other",
                                   ![b].partyPollerId = 0]
    BY DEF LoadEntryFails
  <2> QED BY <1>1, <1>2, <2>1 DEF TabsInv
<1>5. TabInv(v, unsent[b]) /\ v.cart = uiState[b].cart
  BY <1>1, <1>3, SameCartSameInv DEF SameCart
<1>6. TabsInv' /\ EditStep
  BY <1>1, <1>3, <1>4, <1>5, TabStepSameEdit, OneTabEdits DEF LoadEntryFails
<1>7. load' \in [Browsers -> LoadRequest] /\ used' \in [Kinds -> Nat]
  BY <1>1, LoadDone, SpentIsTyped DEF LoadEntryFails, RequestsTyped, Kinds
<1>8. poll' \in [Browsers -> [Polls -> PollChain]]
  BY <1>1, PollingCleared DEF LoadEntryFails, RequestsTyped
<1>9. RequestsTyped'
  BY <1>1, <1>7, <1>8 DEF LoadEntryFails, RequestsTyped
<1>10. HostInv' /\ PutsInv' /\ CommitStep
  BY HostIsStill, PutsAreStill, NoPutMoves DEF LoadEntryFails, PartyInv
<1> QED BY <1>6, <1>9, <1>10 DEF PartyInv, Kept

LEMMA BillAsked ==
  ASSUME load \in [Browsers -> LoadRequest], NEW b \in Browsers, load[b].at = "answered",
         AskBill(b)
  PROVE  load' \in [Browsers -> LoadRequest] /\ load'[b] # load[b]
<1>1. [NoReply EXCEPT !.at = "bill"] \in LoadRequest /\ [NoReply EXCEPT !.at = "bill"].at = "bill"
  BY BlankRequests DEF LoadRequest, NoReply
<1> QED BY <1>1 DEF AskBill

LEMMA LoadAnswerKeeps ==
  ASSUME PartyInv, NEW b \in Browsers, LoadAnswer(b)
  PROVE  Kept
<1> DEFINE w == ReplaceFromServer(uiState[b], load[b].bucket)
           u == [w EXCEPT !.activePartySessionId = TRUE]
<1>1. uiState[b] \in UiState /\ TabsInv /\ RequestsTyped /\ load[b] \in LoadRequest
  BY DEF PartyInv, TabsInv, RequestsTyped
<1>2. w \in UiState
  BY <1>1, Replaced DEF LoadRequest
<1>3. u \in UiState /\ TabInv(u, FALSE)
  <2> HIDE DEF w
  <2> QED BY <1>2 DEF UiState, TabInv
<1>4. uiState' = [uiState EXCEPT ![b] = u] /\ unsent' = [unsent EXCEPT ![b] = FALSE]
  BY DEF LoadAnswer
<1> HIDE DEF u
<1>5. load' \in [Browsers -> LoadRequest] /\ load'[b] # load[b]
  BY <1>1, BillAsked DEF LoadAnswer, RequestsTyped
<1>6. TabsInv' /\ EditStep
  BY <1>1, <1>3, <1>4, <1>5, PageShown
<1>7. RequestsTyped'
  BY <1>1, <1>5 DEF LoadAnswer, RequestsTyped
<1>8. HostInv' /\ PutsInv' /\ CommitStep
  BY HostIsStill, PutsAreStill, NoPutMoves DEF LoadAnswer, PartyInv
<1> QED BY <1>6, <1>7, <1>8 DEF PartyInv, Kept

LEMMA LoadFailsKeeps ==
  ASSUME PartyInv, NEW b \in Browsers, LoadFails(b)
  PROVE  Kept
<1> DEFINE w == ResetPartyBucketState(uiState[b])
           u == [w EXCEPT !.activePartySessionId = FALSE]
<1>1. uiState[b] \in UiState /\ TabsInv /\ RequestsTyped
  BY DEF PartyInv, TabsInv
<1>2. w \in UiState
  BY <1>1, Reset
<1>3. u \in UiState /\ TabInv(u, FALSE)
  <2> HIDE DEF w
  <2> QED BY <1>2 DEF UiState, TabInv
<1>4. uiState' = [uiState EXCEPT ![b] = u] /\ unsent' = [unsent EXCEPT ![b] = FALSE]
  BY DEF LoadFails
<1> HIDE DEF u
<1>5. load' \in [Browsers -> LoadRequest] /\ load'[b] # load[b]
  BY <1>1, BillAsked DEF LoadFails, RequestsTyped
<1>6. TabsInv' /\ EditStep
  BY <1>1, <1>3, <1>4, <1>5, PageShown
<1>7. used' \in [Kinds -> Nat]
  BY <1>1, SpentIsTyped DEF LoadFails, RequestsTyped, Kinds
<1>8. RequestsTyped'
  BY <1>1, <1>5, <1>7 DEF LoadFails, RequestsTyped
<1>9. HostInv' /\ PutsInv' /\ CommitStep
  BY HostIsStill, PutsAreStill, NoPutMoves DEF LoadFails, PartyInv
<1> QED BY <1>6, <1>8, <1>9 DEF PartyInv, Kept

\* The page that is drawn at last keeps the cart, the mark and the schedule.
LEMMA MountKeeps ==
  ASSUME PartyInv, NEW b \in Browsers, Mount(b)
  PROVE  Kept
<1> DEFINE chains == ClearPolling(b, poll[b])
           shell == [uiState[b] EXCEPT !.view = "shell", !.status = "SEATED"]
<1>1. /\ uiState[b] \in UiState /\ TabInv(uiState[b], unsent[b])
      /\ TabsInv /\ RequestsTyped
  BY DEF PartyInv, TabsInv
<1>2. chains \in [Polls -> PollChain]
  BY <1>1, ClearedPolling DEF RequestsTyped
<1>3. shell \in UiState /\ SameCart(uiState[b], shell)
  BY <1>1 DEF UiState, SameCart
<1>4. \/ \E k \in FreeChains(chains) :
           /\ poll' = [poll EXCEPT ![b] = [chains EXCEPT ![k].at = "timer"]]
           /\ uiState' = [uiState EXCEPT ![b] = [shell EXCEPT !.partyPollerId = k]]
      \/ uiState' = [uiState EXCEPT ![b] = shell] /\ UNCHANGED poll
  BY DEF Mount
<1> HIDE DEF chains, shell
<1>5. /\ poll' \in [Browsers -> [Polls -> PollChain]]
      /\ \E v \in UiState : uiState' = [uiState EXCEPT ![b] = v] /\ SameCart(uiState[b], v)
  <2>1. CASE uiState' = [uiState EXCEPT ![b] = shell] /\ UNCHANGED poll
    BY <1>1, <1>3, <2>1 DEF RequestsTyped
  <2>2. ASSUME NEW k \in FreeChains(chains),
               poll' = [poll EXCEPT ![b] = [chains EXCEPT ![k].at = "timer"]],
               uiState' = [uiState EXCEPT ![b] = [shell EXCEPT !.partyPollerId = k]]
        PROVE  /\ poll' \in [Browsers -> [Polls -> PollChain]]
               /\ \E v \in UiState : uiState' = [uiState EXCEPT ![b] = v]
                                     /\ SameCart(uiState[b], v)
    <3>1. k \in Polls /\ k \in 0..MaxPolls
      BY ZeroIsAPoll DEF FreeChains
    <3>2. PICK started : started = [chains EXCEPT ![k].at = "timer"]
      OBVIOUS
    <3>3. started \in [Polls -> PollChain]
      BY <1>2, <3>1, <3>2, ChainStarted
    <3>4. poll' \in [Browsers -> [Polls -> PollChain]]
      BY <1>1, <2>2, <3>2, <3>3 DEF RequestsTyped
    <3>5. PICK v : v = [shell EXCEPT !.partyPollerId = k]
      OBVIOUS
    <3>6. v \in UiState /\ SameCart(uiState[b], v)
      BY <1>3, <3>1, <3>5 DEF UiState, SameCart
    <3> QED BY <2>2, <3>4, <3>5, <3>6
  <2> QED BY <1>4, <2>1, <2>2
<1>6. PICK v \in UiState : uiState' = [uiState EXCEPT ![b] = v] /\ SameCart(uiState[b], v)
  BY <1>5
<1>7. TabInv(v, unsent[b]) /\ v.cart = uiState[b].cart
  BY <1>1, <1>6, SameCartSameInv DEF SameCart
<1>8. TabsInv' /\ EditStep
  BY <1>1, <1>6, <1>7, TabStepSameEdit, OneTabEdits DEF Mount
<1>9. load' \in [Browsers -> LoadRequest]
  BY <1>1, LoadDone DEF Mount, RequestsTyped
<1>10. RequestsTyped'
  BY <1>1, <1>5, <1>9 DEF Mount, RequestsTyped
<1>11. HostInv' /\ PutsInv' /\ CommitStep
  BY HostIsStill, PutsAreStill, NoPutMoves DEF Mount, PartyInv
<1> QED BY <1>8, <1>10, <1>11 DEF PartyInv, Kept

-----------------------------------------------------------------------------
(* Orders, staff *)

LEMMA OrderTaken ==
  ASSUME PartyInv, UNCHANGED <<server, bucket, uiState, put, poll, load, unsent>>,
         order' \in [Browsers -> TableOrder], used' \in [Kinds -> Nat]
  PROVE  Kept
<1>1. HostInv' /\ TabsInv' /\ PutsInv'
  BY HostIsStill, TabsAreStill, PutsAreStill DEF PartyInv
<1>2. RequestsTyped'
  BY DEF PartyInv, RequestsTyped
<1> QED BY <1>1, <1>2, NoTabEdits, NoPutMoves DEF PartyInv, Kept

LEMMA SubmitTableOrderKeeps ==
  ASSUME PartyInv, NEW b \in Browsers, SubmitTableOrder(b)
  PROVE  Kept
<1>1. [at |-> "posted", lines |-> uiState[b].cart] \in TableOrder
  BY DEF TableOrder, PartyInv, TabsInv, UiState
<1>2. order' \in [Browsers -> TableOrder]
  BY <1>1 DEF SubmitTableOrder, PartyInv, RequestsTyped
<1>3. used' \in [Kinds -> Nat]
  BY SpentIsTyped DEF SubmitTableOrder, PartyInv, RequestsTyped, Kinds
<1> QED BY <1>2, <1>3, OrderTaken DEF SubmitTableOrder

LEMMA CreateTableOrderKeeps ==
  ASSUME PartyInv, NEW b \in Browsers, CreateTableOrder(b) \/ OrderCut(b)
  PROVE  Kept
<1>1. PICK at \in {"accepted", "refused"} : order' = [order EXCEPT ![b] = [NoOrder EXCEPT !.at = at]]
  BY DEF CreateTableOrder, OrderCut
<1>2. [NoOrder EXCEPT !.at = at] \in TableOrder
  BY BlankRequests DEF TableOrder
<1>3. order' \in [Browsers -> TableOrder]
  BY <1>1, <1>2 DEF PartyInv, RequestsTyped
<1>4. used' \in [Kinds -> Nat]
  BY SpentIsTyped DEF CreateTableOrder, OrderCut, PartyInv, RequestsTyped, Kinds
<1> QED BY <1>3, <1>4, OrderTaken DEF CreateTableOrder, OrderCut

\* The draft is cleared, and the clearing is sent or left to the sync under way.
LEMMA OrderAcceptedKeeps ==
  ASSUME PartyInv, NEW b \in Browsers, OrderAccepted(b)
  PROVE  Kept
<1> DEFINE u == [uiState[b] EXCEPT !.cart = Empty, !.dirty = TRUE]
<1>1. /\ uiState[b] \in UiState /\ TabsInv /\ PutsInv /\ RequestsTyped
      /\ order[b] \in TableOrder
  BY DEF PartyInv, TabsInv, RequestsTyped
<1>2. u \in UiState /\ u.dirty /\ HasToken(u)
  BY <1>1, EmptyIsCart DEF UiState, OrderAccepted
<1>3. Flush(b, u, TRUE) /\ UNCHANGED bucket /\ TRUE \in BOOLEAN
  BY DEF OrderAccepted
<1>4. \/ AskEntry(b) /\ order' = [order EXCEPT ![b] = NoOrder]
      \/ order' = [order EXCEPT ![b].at = "clearing"] /\ UNCHANGED load
  BY DEF OrderAccepted
<1> HIDE DEF u
<1>5. PutsInv /\ UNCHANGED bucket /\ TRUE \in BOOLEAN /\ u \in UiState
  BY <1>1, <1>2, <1>3
<1>6. Flush(b, u, TRUE)
  BY <1>3
<1>7. PICK v \in UiState :
        /\ uiState' = [uiState EXCEPT ![b] = v]
        /\ v.cart = u.cart /\ v.view = u.view
        /\ v.activePartySessionId = u.activePartySessionId
        /\ (HasToken(u) => v.isSyncing) /\ (u.dirty => v.dirty)
  BY <1>5, <1>6, Flushed
<1>8. PutsInv' /\ CommitStep
  BY <1>1, <1>2, <1>3, Flushed, NothingCommits
<1>9. TabInv(v, TRUE)
  BY <1>2, <1>7 DEF TabInv, HasToken
<1>10. load' \in [Browsers -> LoadRequest] /\ order' \in [Browsers -> TableOrder]
  <2>1. CASE AskEntry(b) /\ order' = [order EXCEPT ![b] = NoOrder]
    BY <1>1, <2>1, EntryAsked, OrderForgotten DEF RequestsTyped
  <2>2. CASE order' = [order EXCEPT ![b].at = "clearing"] /\ UNCHANGED load
    BY <1>1, <2>2 DEF RequestsTyped, TableOrder
  <2> QED BY <1>4, <2>1, <2>2
<1>11. order'[b] # order[b]
  <2>1. order[b].at = "accepted"
    BY DEF OrderAccepted
  <2>2. order'[b].at \in {"none", "clearing"}
    BY <1>1, <1>4 DEF RequestsTyped, NoOrder, TableOrder
  <2> QED BY <2>1, <2>2
<1>12. unsent' = [unsent EXCEPT ![b] = TRUE]
  BY DEF OrderAccepted
<1>13. TabsInv' /\ EditStep
  BY <1>1, <1>7, <1>9, <1>11, <1>12, TabStep, OneTabEdits
<1>14. RequestsTyped'
  BY <1>1, <1>10 DEF OrderAccepted, RequestsTyped
<1>15. HostInv'
  BY HostIsStill DEF OrderAccepted, PartyInv
<1> QED BY <1>8, <1>13, <1>14, <1>15 DEF PartyInv, Kept

LEMMA OrderEndsKeeps ==
  ASSUME PartyInv, NEW b \in Browsers, OrderEnds(b)
  PROVE  Kept
<1>1. load' \in [Browsers -> LoadRequest] /\ order' \in [Browsers -> TableOrder]
  BY EntryAsked, OrderForgotten DEF OrderEnds, PartyInv, RequestsTyped
<1>2. RequestsTyped'
  BY <1>1 DEF OrderEnds, PartyInv, RequestsTyped
<1>3. HostInv' /\ TabsInv' /\ PutsInv'
  BY HostIsStill, TabsAreStill, PutsAreStill DEF OrderEnds, PartyInv
<1> QED BY <1>2, <1>3, NoTabEdits, NoPutMoves DEF OrderEnds, PartyInv, Kept

LEMMA StaffKeeps ==
  ASSUME PartyInv, CloseEntry \/ \E i \in Items : SellOut(i)
  PROVE  Kept
<1>1. used' \in [Kinds -> Nat]
  BY SpentIsTyped DEF CloseEntry, SellOut, PartyInv, RequestsTyped, Kinds
<1>2. UNCHANGED <<hostRows, session, access, bucket, uiState, put, poll, load, order, unsent>>
  BY DEF CloseEntry, SellOut
<1>3. HostInv'
  BY <1>2 DEF CloseEntry, SellOut, PartyInv, HostInv
<1>4. RequestsTyped'
  BY <1>1, <1>2 DEF PartyInv, RequestsTyped
<1>5. TabsInv' /\ PutsInv'
  BY <1>2, TabsAreStill, PutsAreStill DEF PartyInv
<1> QED BY <1>2, <1>3, <1>4, <1>5, NoTabEdits, NoPutMoves DEF PartyInv, Kept

-----------------------------------------------------------------------------
(* The invariant, and what it gives *)

LEMMA PartyInvInit ==
  ASSUME Init
  PROVE  PartyInv
<1> USE DEF Init
<1>1. HostInv
  BY DEF HostInv
<1>2. TabsInv
  <2> DEFINE blank == [view |-> "away", activePartySessionId |-> FALSE, status |-> "SEATED",
                       cart |-> Empty, dirty |-> FALSE, isSyncing |-> FALSE,
                       pendingSyncTimer |-> FALSE, partyPollerId |-> 0]
  <2>1. blank \in UiState /\ ~blank.dirty
    BY EmptyIsCart, ZeroIsAPoll DEF UiState
  <2>2. uiState = [b \in Browsers |-> blank]
    OBVIOUS
  <2> HIDE DEF blank
  <2> QED BY <2>1, <2>2 DEF TabsInv, TabInv
<1>3. PutsInv
  <2>1. NoPut.at = "none"
    BY DEF NoPut
  <2> QED BY <2>1, EmptyIsCart, BlankRequests DEF PutsInv
<1>4. RequestsTyped
  BY BlankRequests DEF RequestsTyped
<1> QED BY <1>1, <1>2, <1>3, <1>4 DEF PartyInv

LEMMA PartyInvNext ==
  ASSUME PartyInv, Next
  PROVE  Kept
<1>1. ASSUME NEW b \in Browsers, Program(b)
      PROVE  Kept
  <2>1. CASE Access(b)
    BY <2>1, AccessKeeps, NoTabEdits, NoPutMoves
       DEF Access, EnsureRead, EnsureCreate, JoinPartySession, Kept
  <2>2. CASE SyncTimer(b)
    <3>1. PICK v : uiState' = [uiState EXCEPT ![b] = v]
      BY <2>2 DEF SyncTimer, Flush
    <3>2. v.cart = uiState[b].cart /\ TabsInv
      BY <2>2, <3>1, SyncTimerKeeps DEF PartyInv, TabsInv
    <3>3. EditStep
      BY <3>1, <3>2, OneTabEdits
    <3> QED BY <2>2, <3>3, SyncTimerKeeps, NothingCommits DEF Kept
  <2>3. CASE Loading(b)
    BY <2>3, LoadReadKeeps, LoadClosedKeeps, LoadAnswerKeeps, MountKeeps DEF Loading
  <2>4. CASE Ordering(b)
    BY <2>4, CreateTableOrderKeeps, OrderAcceptedKeeps, OrderEndsKeeps DEF Ordering
  <2>5. ASSUME NEW s \in Slots, ServePut(b, s) \/ HearPut(b, s)
        PROVE  Kept
    BY <2>5, ServePutKeeps, PutAnswerKeeps, PutErrorKeeps DEF HearPut
  <2>6. ASSUME NEW k \in Polls, Polling(b, k)
        PROVE  Kept
    BY <2>6, PollTimerKeeps, PollAnswerKeeps DEF Polling
  <2> QED BY <1>1, <2>1, <2>2, <2>3, <2>4, <2>5, <2>6 DEF Program
<1>2. ASSUME NEW b \in Browsers, Guest(b)
      PROVE  Kept
  <2>1. ASSUME NEW i \in Items, ApplyPartyBucketDelta(b, i)
        PROVE  Kept
    <3>1. UNCHANGED put /\ used'["edits"] # used["edits"]
      BY <2>1, SpentIsTyped DEF ApplyPartyBucketDelta, PartyInv, RequestsTyped, Kinds
    <3>2. PICK v : uiState' = [uiState EXCEPT ![b] = v]
      BY <2>1 DEF ApplyPartyBucketDelta
    <3>3. EditStep
      BY <3>1, <3>2, OneTabEdits DEF PartyInv
    <3> QED BY <2>1, <3>1, <3>3, EditKeeps, NoPutMoves DEF Kept
  <2> QED BY <1>2, <2>1, SubmitTableOrderKeeps, RenderRouteKeeps, RenderAgainKeeps,
             VisibilityChangeKeeps DEF Guest
<1>3. ASSUME NEW b \in Browsers, Faults(b)
      PROVE  Kept
  BY <1>3, PutAbortKeeps, PutCutKeeps, PollFailsKeeps, LoadEntryFailsKeeps, LoadFailsKeeps,
     CreateTableOrderKeeps DEF Faults
<1> QED BY <1>1, <1>2, <1>3, StaffKeeps DEF Next

LEMMA PartyInvStep ==
  ASSUME PartyInv, [Next]_vars
  PROVE  PartyInv'
<1>1. CASE UNCHANGED vars
  <2>1. UNCHANGED <<server, bucket, uiState, put, poll, load, unsent, order, used>>
    BY <1>1 DEF vars, server
  <2>2. order' \in [Browsers -> TableOrder] /\ used' \in [Kinds -> Nat]
    BY <2>1 DEF PartyInv, RequestsTyped
  <2> QED BY <2>1, <2>2, OrderTaken DEF Kept
<1> QED BY <1>1, PartyInvNext DEF Kept

LEMMA PartyInvHolds == Spec => []PartyInv
BY PartyInvInit, PartyInvStep, PTL DEF Spec

\* The state and the requests of every tab, of every number of devices, stay of
\* their types, whatever overtakes what.
THEOREM PartyKeepsTypes == Spec => []TypeOK
<1>1. PartyInv => TypeOK
  BY DEF PartyInv, HostInv, TabsInv, PutsInv, RequestsTyped, TypeOK, PutRequest, PollChain,
         LoadRequest, TableOrder
<1> QED BY <1>1, PartyInvHolds, PTL

\* However many devices of the guest ask for the session at once, one host row
\* comes with it (ensurePartySessionForQueueEntry, the unique queueEntryId).
THEOREM SessionHasOneHost == Spec => []OneHost
<1>1. PartyInv => OneHost
  BY DEF PartyInv, HostInv, OneHost
<1> QED BY <1>1, PartyInvHolds, PTL

\* An edit that no saved bucket contains is marked as unsaved (partyBucketStore).
THEOREM UnsentStaysDirty == Spec => []UnsentIsDirty
<1>1. PartyInv => UnsentIsDirty
  BY DEF PartyInv, TabsInv, TabInv, UnsentIsDirty
<1> QED BY <1>1, PartyInvHolds, PTL

\* An edit that no saved bucket contains has a sync under way or a timer that
\* will start one, though a page is loaded meanwhile (schedulePartyBucketSync and
\* the finally clause of flushPartyBucketToServer).
THEOREM UnsentStaysScheduled == Spec => []UnsentIsScheduled
<1>1. PartyInv => UnsentIsScheduled
  BY DEF PartyInv, TabsInv, TabInv, UnsentIsScheduled
<1> QED BY <1>1, PartyInvHolds, PTL

\* No poll and no answer to a sync takes an unsaved edit off the screen
\* (replacePartyBucketFromServer and its callers).
THEOREM AnswersKeepEdits == Spec => EditSurvivesAnswers
<1>1. ASSUME PartyInv, [Next]_vars
      PROVE  [EditStep]_vars
  BY <1>1, PartyInvNext DEF Kept
<1> QED BY <1>1, PartyInvHolds, PTL DEF Spec, EditSurvivesAnswers, EditStep

\* A save whose transaction no other overlaps leaves the cart that was sent, and
\* nothing else, in the bucket (updatePartyBucket).
THEOREM LoneSavesReplace == Spec => LoneSaveReplacesBucket
<1>1. ASSUME PartyInv, [Next]_vars
      PROVE  [CommitStep]_vars
  BY <1>1, PartyInvNext DEF Kept
<1> QED BY <1>1, PartyInvHolds, PTL DEF Spec, LoneSaveReplacesBucket, CommitStep
=============================================================================
