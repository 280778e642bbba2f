---------------------------- MODULE ScreensProofs ----------------------------
(***************************************************************************)
(* Proofs about LiveScreens, for every number of calls and of events: the   *)
(* page of a guest who waits is looked after, and a host who has been told  *)
(* that an action is done is shown no queue from before it.                 *)
(***************************************************************************)
EXTENDS LiveScreens, TLAPS

-----------------------------------------------------------------------------
(* GuestScreen: what its operators return *)

GuestCall == [kind: {"render", "refresh"}, by: {"guest", "timer"},
              at: {"idle", "venue", "redeem", "entry", "answered", "refused"},
              token: Tokens, redeemed: BOOLEAN, answer: Statuses]
GuestPage == [kind: {"blank", "recover", "entry", "retry", "fatal", "other"}, status: Statuses]
GuestStream == [at: {"none", "connecting", "open", "down"}, token: Tokens]

GuestTyped ==
  /\ venue \in [queueOnly: BOOLEAN, sse: BOOLEAN]
  /\ entry \in Statuses /\ over \in BOOLEAN
  /\ token \in Tokens /\ link \in BOOLEAN
  /\ route \in {"entry", "preorder", "venue"}
  /\ page \in GuestPage /\ timer \in {"off", "refresh", "route"}
  /\ muted \in BOOLEAN /\ sheet \in BOOLEAN
  /\ stream \in GuestStream
  /\ news \in Nat /\ pending \in BOOLEAN /\ wakeups \in Nat
  /\ calls \in [Slots -> GuestCall] /\ used \in [Kinds -> Nat]

GuestInv == TypeOK /\ LiveIsWatched

LEMMA GuestTypes == (TypeOK <=> GuestTyped) /\ (TypeOK' <=> GuestTyped')
BY DEF TypeOK, GuestTyped, GuestCall, GuestPage, GuestStream

LEMMA NoCallTyped == NoCall \in GuestCall
BY DEF NoCall, GuestCall, Tokens, Statuses

LEMMA NoStreamTyped == NoStream \in GuestStream
BY DEF NoStream, GuestStream, Tokens

LEMMA GuestSpends ==
  ASSUME TypeOK, NEW kind \in Kinds, Spend(kind)
  PROVE  used' \in [Kinds -> Nat]
BY DEF TypeOK, Spend

\* A page is looked after by a call, by a timer, or need not be.
LEMMA Watched ==
  ASSUME \/ \E c \in Slots : calls'[c].at # "idle"
         \/ timer' # "off"
         \/ page'.kind # "entry"
         \/ page'.status \notin Live
         \/ route' = "venue"
         \/ muted'
  PROVE  LiveIsWatched'
BY DEF LiveIsWatched, ShowsLive, OnGuestRoute, CallAt

\* A step that leaves the page to those who look after it.
LEMMA StillWatched ==
  ASSUME LiveIsWatched, UNCHANGED <<page, route, timer, muted>>,
         \A c \in Slots : calls[c].at # "idle" => calls'[c].at # "idle"
  PROVE  LiveIsWatched'
BY DEF LiveIsWatched, ShowsLive, OnGuestRoute, CallAt

LEMMA OneCall ==
  ASSUME TypeOK, NEW c \in Slots, NEW r \in GuestCall, calls' = [calls EXCEPT ![c] = r]
  PROVE  /\ calls' \in [Slots -> GuestCall]
         /\ \A d \in Slots : calls'[d] = IF d = c THEN r ELSE calls[d]
BY DEF TypeOK, GuestCall

\* A call that is started, or started over, looks after the page.
LEMMA Rendering ==
  ASSUME TypeOK, NEW c \in Slots, NEW by \in {"guest", "timer"}, NEW t \in Tokens,
         Render(c, by, t)
  PROVE  calls' \in [Slots -> GuestCall] /\ LiveIsWatched'
<1>1. PICK r : r = [NoCall EXCEPT !.at = "venue", !.token = t, !.by = by]
  OBVIOUS
<1>2. r \in GuestCall /\ r.at = "venue"
  BY <1>1, NoCallTyped DEF GuestCall
<1>3. calls' = [calls EXCEPT ![c] = r]
  BY <1>1 DEF Render
<1>4. calls' \in [Slots -> GuestCall] /\ calls'[c] = r
  BY <1>2, <1>3, OneCall
<1> QED BY <1>2, <1>4, Watched

LEMMA GoingOn ==
  ASSUME TypeOK, NEW c \in Slots,
         NEW point \in {"venue", "redeem", "entry", "answered", "refused"}, GoOn(c, point)
  PROVE  calls' \in [Slots -> GuestCall] /\ LiveIsWatched'
<1>1. PICK r : r = [calls[c] EXCEPT !.at = point]
  OBVIOUS
<1>2. r \in GuestCall /\ r.at = point
  BY <1>1 DEF TypeOK, GuestCall
<1>3. calls' = [calls EXCEPT ![c] = r]
  BY <1>1 DEF GoOn
<1>4. calls' \in [Slots -> GuestCall] /\ calls'[c] = r
  BY <1>2, <1>3, OneCall
<1> QED BY <1>2, <1>4, Watched

LEMMA Ending ==
  ASSUME TypeOK, NEW c \in Slots, End(c)
  PROVE  calls' \in [Slots -> GuestCall]
BY NoCallTyped, OneCall DEF End

\* A refresh that is due is started while the address is the guest's.
LEMMA Refreshing ==
  ASSUME TypeOK, StartRefresh, UNCHANGED route
  PROVE  calls' \in [Slots -> GuestCall] /\ LiveIsWatched'
<1>1. PICK c \in FreeSlots :
        IF ~OnGuestRoute THEN UNCHANGED calls
        ELSE IF token = "none" THEN Render(c, "timer", token)
        ELSE calls' = [calls EXCEPT ![c] = [NoCall EXCEPT !.kind = "refresh", !.at = "entry",
                                              !.token = token, !.by = "timer"]]
  BY DEF StartRefresh
<1>2. c \in Slots /\ token \in Tokens
  BY DEF FreeSlots, TypeOK
<1>3. CASE ~OnGuestRoute
  <2>1. UNCHANGED calls /\ route' = "venue"
    BY <1>1, <1>3 DEF OnGuestRoute
  <2> QED BY <2>1, Watched DEF TypeOK, GuestCall
<1>4. CASE OnGuestRoute /\ token = "none"
  BY <1>1, <1>2, <1>4, Rendering
<1>5. CASE OnGuestRoute /\ token # "none"
  <2>1. PICK r : r = [NoCall EXCEPT !.kind = "refresh", !.at = "entry", !.token = token,
                                    !.by = "timer"]
    OBVIOUS
  <2>2. r \in GuestCall /\ r.at = "entry"
    BY <1>2, <2>1, NoCallTyped DEF GuestCall
  <2>3. calls' \in [Slots -> GuestCall] /\ calls'[c] = r
    BY <1>1, <1>2, <1>5, <2>1, <2>2, OneCall
  <2> QED BY <1>2, <2>2, <2>3, Watched
<1> QED BY <1>3, <1>4, <1>5

LEMMA StreamClosed ==
  ASSUME CloseGuestRealtime
  PROVE  stream' \in GuestStream /\ news' \in Nat /\ pending' \in BOOLEAN
BY NoStreamTyped DEF CloseGuestRealtime

LEMMA StreamEnsured ==
  ASSUME TypeOK, NEW t \in Tokens, EnsureGuestRealtime(t)
  PROVE  stream' \in GuestStream /\ news' \in Nat /\ pending' \in BOOLEAN
<1>1. [at |-> "connecting", token |-> t] \in GuestStream
  BY DEF GuestStream
<1>2. stream \in GuestStream /\ news \in Nat /\ pending \in BOOLEAN
  BY DEF TypeOK, GuestStream
<1>3. CASE UNCHANGED <<stream, news, pending>>
  BY <1>2, <1>3
<1>4. CASE /\ stream' = IF venue.sse THEN [at |-> "connecting", token |-> t] ELSE NoStream
           /\ news' = 0 /\ pending' = FALSE
  BY <1>1, <1>4, NoStreamTyped
<1> QED BY <1>3, <1>4 DEF EnsureGuestRealtime

\* The page of an address is drawn, or a call is started that will draw it.
LEMMA RouteRendered ==
  ASSUME TypeOK, NEW to, NEW by \in {"guest", "timer"}, NEW t \in Tokens,
         RenderRoute(to, by, t)
  PROVE  /\ sheet' \in BOOLEAN
         /\ stream' \in GuestStream /\ news' \in Nat /\ pending' \in BOOLEAN
         /\ page' \in GuestPage
         /\ calls' \in [Slots -> GuestCall] /\ LiveIsWatched'
<1>1. sheet' \in BOOLEAN /\ stream' \in GuestStream /\ news' \in Nat /\ pending' \in BOOLEAN
  BY StreamClosed DEF RenderRoute
<1>2. CASE to = "entry"
  <2>1. PICK c \in FreeSlots : Render(c, by, t)
    BY <1>2 DEF RenderRoute
  <2>2. c \in Slots /\ page' \in GuestPage
    BY <1>2 DEF FreeSlots, RenderRoute, TypeOK, GuestPage
  <2> QED BY <1>1, <2>1, <2>2, Rendering
<1>3. CASE to # "entry"
  <2>1. page' = [page EXCEPT !.kind = "other"] /\ UNCHANGED calls
    BY <1>3 DEF RenderRoute
  <2>2. page' \in GuestPage /\ page'.kind = "other"
    BY <2>1 DEF TypeOK, GuestPage
  <2> QED BY <1>1, <2>1, <2>2, Watched DEF TypeOK, GuestCall
<1> QED BY <1>2, <1>3

-----------------------------------------------------------------------------
(* GuestScreen: the server, the stream and the timers keep GuestInv *)

LEMMA EntryMovesKeeps ==
  ASSUME GuestInv, EntryMoves
  PROVE  GuestInv'
<1>1. used' \in [Kinds -> Nat]
  BY GuestSpends DEF EntryMoves, GuestInv, Kinds
<1>2. entry' \in Statuses /\ news' \in Nat
  BY DEF EntryMoves, Publish, GuestInv, TypeOK, Statuses
<1>3. TypeOK'
  BY <1>1, <1>2 DEF EntryMoves, GuestInv, TypeOK
<1>4. LiveIsWatched'
  BY StillWatched DEF EntryMoves, GuestInv
<1> QED BY <1>3, <1>4 DEF GuestInv

LEMMA WindowEndsKeeps ==
  ASSUME GuestInv, WindowEnds
  PROVE  GuestInv'
<1>1. used' \in [Kinds -> Nat]
  BY GuestSpends DEF WindowEnds, GuestInv, Kinds
<1>2. TypeOK'
  BY <1>1 DEF WindowEnds, GuestInv, TypeOK
<1>3. LiveIsWatched'
  BY StillWatched DEF WindowEnds, GuestInv
<1> QED BY <1>2, <1>3 DEF GuestInv

LEMMA TokenExpiresKeeps ==
  ASSUME GuestInv, TokenExpires
  PROVE  GuestInv'
<1> DEFINE Aged(t) == IF t = "good" THEN "old" ELSE t
<1>1. used' \in [Kinds -> Nat]
  BY GuestSpends DEF TokenExpires, GuestInv, Kinds
<1>2. ASSUME NEW r \in GuestCall
      PROVE  /\ [r EXCEPT !.token = Aged(r.token)] \in GuestCall
             /\ [r EXCEPT !.token = Aged(r.token)].at = r.at
  BY DEF GuestCall, Tokens
<1>3. calls \in [Slots -> GuestCall] /\ stream \in GuestStream
  BY DEF GuestInv, TypeOK, GuestCall, GuestStream
<1>4. calls' = [c \in Slots |-> [calls[c] EXCEPT !.token = Aged(calls[c].token)]]
  BY DEF TokenExpires
<1>5. stream' = [stream EXCEPT !.token = Aged(stream.token)] /\ token' = "old"
  BY DEF TokenExpires
<1>6. stream' \in GuestStream
  BY <1>3, <1>5 DEF GuestStream, Tokens
<1>7. calls' \in [Slots -> GuestCall] /\ \A c \in Slots : calls'[c].at = calls[c].at
  <2>1. \A c \in Slots : calls'[c] \in GuestCall /\ calls'[c].at = calls[c].at
    BY <1>2, <1>3, <1>4
  <2>2. calls' = [c \in Slots |-> calls'[c]]
    BY <1>4
  <2> QED BY <2>1, <2>2
<1>8. TypeOK'
  BY <1>1, <1>5, <1>6, <1>7 DEF TokenExpires, server, GuestInv, TypeOK, GuestCall, GuestStream,
                                Tokens
<1>9. LiveIsWatched'
  BY <1>7, StillWatched DEF TokenExpires, GuestInv
<1> QED BY <1>8, <1>9 DEF GuestInv

LEMMA StreamingKeeps ==
  ASSUME GuestInv, Streaming \/ StreamDrops
  PROVE  GuestInv'
<1>1. UNCHANGED <<server, token, link, route, page, timer, muted, sheet, calls>>
  BY DEF Streaming, StreamDrops, StreamConnects, StreamRetries, QueueUpdate
<1>2. stream \in GuestStream /\ news \in Nat /\ pending \in BOOLEAN /\ wakeups \in Nat
      /\ used \in [Kinds -> Nat]
  BY DEF GuestInv, TypeOK, GuestStream
<1>3. used' \in [Kinds -> Nat]
  BY <1>2, GuestSpends DEF Streaming, StreamDrops, StreamConnects, StreamRetries, QueueUpdate,
                           GuestInv, Kinds
<1>4. stream' \in GuestStream
  <2>1. CASE StreamConnects
    <3>1. PICK at \in {"open", "down"} : stream' = [stream EXCEPT !.at = at]
      BY <2>1 DEF StreamConnects
    <3> QED BY <1>2, <3>1 DEF GuestStream
  <2>2. CASE StreamRetries \/ StreamDrops
    <3>1. PICK at \in {"connecting", "down"} : stream' = [stream EXCEPT !.at = at]
      BY <2>2 DEF StreamRetries, StreamDrops
    <3> QED BY <1>2, <3>1 DEF GuestStream
  <2> QED BY <1>2, <2>1, <2>2 DEF Streaming, QueueUpdate
<1>5. news' \in Nat /\ pending' \in BOOLEAN /\ wakeups' \in Nat
  <2>1. QueueUpdate => news' = news - 1 /\ news > 0
    BY DEF QueueUpdate
  <2>2. QueueUpdate => news' \in Nat
    BY <1>2, <2>1
  <2>3. CASE QueueUpdate
    <3>1. \/ pending' = TRUE /\ wakeups' = wakeups + 1
          \/ UNCHANGED <<pending, wakeups>>
      BY <2>3 DEF QueueUpdate
    <3>2. wakeups' \in Nat
      BY <1>2, <3>1
    <3>3. pending' \in BOOLEAN
      BY <1>2, <3>1
    <3> QED BY <2>2, <2>3, <3>2, <3>3
  <2>4. CASE StreamConnects \/ StreamRetries \/ StreamDrops
    BY <1>2, <2>4 DEF StreamDrops, StreamConnects, StreamRetries
  <2> QED BY <2>3, <2>4 DEF Streaming
<1>6. TypeOK'
  BY <1>1, <1>3, <1>4, <1>5 DEF server, GuestInv, TypeOK, GuestStream
<1>7. LiveIsWatched'
  BY <1>1, StillWatched DEF GuestInv
<1> QED BY <1>6, <1>7 DEF GuestInv

LEMMA TimersKeep ==
  ASSUME GuestInv, RefreshTimer \/ RouteTimer \/ Wakeup
  PROVE  GuestInv'
<1>1. TypeOK /\ token \in Tokens
  BY DEF GuestInv, TypeOK
<1>2. CASE RefreshTimer
  <2>1. calls' \in [Slots -> GuestCall] /\ LiveIsWatched'
    BY <1>1, <1>2, Refreshing DEF RefreshTimer
  <2>2. TypeOK'
    BY <1>2, <2>1 DEF RefreshTimer, server, GuestInv, TypeOK, GuestCall
  <2> QED BY <2>1, <2>2 DEF GuestInv
<1>3. CASE RouteTimer
  <2>1. /\ sheet' \in BOOLEAN
        /\ stream' \in GuestStream /\ news' \in Nat /\ pending' \in BOOLEAN
        /\ page' \in GuestPage
        /\ calls' \in [Slots -> GuestCall] /\ LiveIsWatched'
    BY <1>1, <1>3, RouteRendered DEF RouteTimer
  <2>2. TypeOK'
    BY <1>3, <2>1 DEF RouteTimer, server, GuestInv, TypeOK, GuestCall, GuestStream, GuestPage
  <2> QED BY <2>1, <2>2 DEF GuestInv
<1>4. CASE Wakeup
  <2>1. calls' \in [Slots -> GuestCall] /\ LiveIsWatched'
    BY <1>1, <1>4, Refreshing DEF Wakeup
  <2>2. wakeups' \in Nat
    <3>1. wakeups \in Nat /\ wakeups > 0 /\ wakeups' = wakeups - 1
      BY <1>1, <1>4 DEF Wakeup, TypeOK
    <3> QED BY <3>1
  <2>3. UNCHANGED <<server, token, link, route, page, timer, muted, sheet, stream, news, used>>
    BY <1>4 DEF Wakeup
  <2>4. GuestTyped'
    <3>1. GuestTyped
      BY <1>1, GuestTypes
    <3>2. UNCHANGED <<venue, entry, over, token, link, route, page, timer, muted, sheet, stream,
                      news, used>>
      BY <2>3 DEF server
    <3>3. pending' = FALSE
      BY <1>4 DEF Wakeup
    <3> QED BY <2>1, <2>2, <3>1, <3>2, <3>3 DEF GuestTyped
  <2>5. TypeOK'
    BY <2>4, GuestTypes
  <2> QED BY <2>1, <2>5 DEF GuestInv
<1> QED BY <1>2, <1>3, <1>4

-----------------------------------------------------------------------------
(* GuestScreen: a call goes on *)

\* What is drawn and the timer, of a step that moves one call.
LEMMA DrawingKeeps ==
  ASSUME GuestInv, OnlyDraw, page' \in GuestPage, timer' \in {"off", "refresh", "route"},
         calls' \in [Slots -> GuestCall], used' \in [Kinds -> Nat], LiveIsWatched'
  PROVE  GuestInv'
<1>1. UNCHANGED <<venue, entry, over, token, link, route, muted, sheet, stream, news, pending,
                  wakeups>>
  BY DEF OnlyDraw, server
<1>2. GuestTyped
  BY GuestTypes DEF GuestInv
<1>3. GuestTyped'
  BY <1>1, <1>2 DEF GuestTyped
<1> QED BY <1>3, GuestTypes DEF GuestInv

LEMMA CallingKeeps ==
  ASSUME GuestInv, OnlyCall, token' \in Tokens, link' \in BOOLEAN,
         calls' \in [Slots -> GuestCall], used' \in [Kinds -> Nat], LiveIsWatched'
  PROVE  GuestInv'
<1>1. UNCHANGED <<venue, entry, over, route, page, timer, muted, sheet, stream, news, pending,
                  wakeups>>
  BY DEF OnlyCall, server
<1>2. GuestTyped
  BY GuestTypes DEF GuestInv
<1>3. GuestTyped'
  BY <1>1, <1>2 DEF GuestTyped
<1> QED BY <1>3, GuestTypes DEF GuestInv

LEMMA Drawing ==
  ASSUME NEW kind \in {"blank", "recover", "entry", "retry", "fatal", "other"},
         NEW status \in Statuses, Draw(kind, status)
  PROVE  page' \in GuestPage /\ page'.kind = kind /\ page'.status = status
BY DEF Draw, GuestPage

\* The page that asks for the OTP, of a call that ends.
LEMMA Recovering ==
  ASSUME TypeOK, NEW c \in Slots, DrawRecover(c)
  PROVE  /\ page' \in GuestPage /\ timer' \in {"off", "refresh", "route"}
         /\ calls' \in [Slots -> GuestCall] /\ LiveIsWatched'
<1>1. page.status \in Statuses
  BY DEF TypeOK
<1>2. page' \in GuestPage /\ page'.kind = "recover"
  BY <1>1, Drawing DEF DrawRecover
<1> QED BY <1>2, Ending, Watched DEF DrawRecover

LEMMA VenueLoadedKeeps ==
  ASSUME GuestInv, NEW c \in Slots, VenueLoaded(c)
  PROVE  GuestInv'
<1>1. TypeOK /\ page \in GuestPage /\ timer \in {"off", "refresh", "route"}
      /\ used \in [Kinds -> Nat]
  BY DEF GuestInv, TypeOK, GuestPage
<1>2. UNCHANGED used /\ OnlyDraw
  BY DEF VenueLoaded
<1>3. CASE UNCHANGED <<page, timer>> /\ (GoOn(c, "entry") \/ GoOn(c, "redeem"))
  <2>1. calls' \in [Slots -> GuestCall] /\ LiveIsWatched'
    BY <1>1, <1>3, GoingOn
  <2> QED BY <1>1, <1>2, <1>3, <2>1, DrawingKeeps
<1>4. CASE DrawRecover(c)
  BY <1>1, <1>2, <1>4, Recovering, DrawingKeeps
<1> QED BY <1>3, <1>4 DEF VenueLoaded

LEMMA RedeemKeeps ==
  ASSUME GuestInv, NEW c \in Slots, NEW works, Redeem(c, works), used' \in [Kinds -> Nat]
  PROVE  GuestInv'
<1>1. /\ TypeOK /\ GuestTyped /\ calls[c] \in GuestCall /\ calls[c].by \in {"guest", "timer"}
  BY GuestTypes DEF GuestInv, GuestTyped, GuestCall
<1>2. UNCHANGED <<venue, entry, over, route, muted, sheet, stream, news, pending, wakeups>>
  BY DEF Redeem, server
<1>3. CASE works
  <2>1. PICK r : r = [calls[c] EXCEPT !.token = "good", !.redeemed = TRUE, !.at = "entry"]
    OBVIOUS
  <2>2. r \in GuestCall /\ r.at = "entry"
    BY <1>1, <2>1 DEF GuestCall, Tokens
  <2>3. calls' = [calls EXCEPT ![c] = r]
    <3>1. calls' = [calls EXCEPT ![c].token = "good", ![c].redeemed = TRUE, ![c].at = "entry"]
      BY <1>3 DEF Redeem
    <3> QED BY <1>1, <2>1, <3>1 DEF GuestTyped
  <2>4. calls' \in [Slots -> GuestCall] /\ calls'[c] = r
    BY <1>1, <2>2, <2>3, OneCall
  <2>5. LiveIsWatched'
    BY <2>2, <2>4, Watched
  <2>6. token' \in Tokens /\ link' \in BOOLEAN /\ UNCHANGED <<page, timer>>
    BY <1>3 DEF Redeem, Tokens
  <2>7. GuestTyped'
    BY <1>1, <1>2, <2>4, <2>6 DEF GuestTyped
  <2> QED BY <2>5, <2>7, GuestTypes DEF GuestInv
<1>4. CASE DrawRecover(c) /\ UNCHANGED <<token, link>>
  BY <1>1, <1>2, <1>4, Recovering, DrawingKeeps DEF OnlyDraw, server
<1>5. CASE /\ Render(c, calls[c].by, "none") /\ token' = "none"
           /\ UNCHANGED <<link, page, timer>>
  <2>1. "none" \in Tokens
    BY DEF Tokens
  <2>2. calls' \in [Slots -> GuestCall] /\ LiveIsWatched'
    BY <1>1, <1>5, <2>1, Rendering
  <2>3. GuestTyped'
    BY <1>1, <1>2, <1>5, <2>1, <2>2 DEF GuestTyped
  <2> QED BY <2>2, <2>3, GuestTypes DEF GuestInv
<1> QED BY <1>3, <1>4, <1>5 DEF Redeem

LEMMA EntryServedKeeps ==
  ASSUME GuestInv, NEW c \in Slots, ServeEntry(c) \/ AuthFails(c)
  PROVE  GuestInv'
<1>1. TypeOK /\ GuestTyped /\ calls[c] \in GuestCall
  BY GuestTypes DEF GuestInv, GuestTyped
<1>2. OnlyCall /\ UNCHANGED <<token, link>>
  BY DEF ServeEntry, AuthFails
<1>3. used' \in [Kinds -> Nat]
  BY <1>1, GuestSpends DEF ServeEntry, AuthFails, GuestTyped, Kinds
<1>4. calls' \in [Slots -> GuestCall] /\ LiveIsWatched'
  <2>1. CASE ServeEntry(c)
    <3>1. PICK at \in {"answered", "refused"} :
            calls' = [calls EXCEPT ![c].at = at, ![c].answer = entry]
      BY <2>1 DEF ServeEntry
    <3>2. PICK r : r = [calls[c] EXCEPT !.at = at, !.answer = entry]
      OBVIOUS
    <3>3. r \in GuestCall /\ r.at = at
      BY <1>1, <3>2 DEF GuestCall, GuestTyped
    <3>4. calls' = [calls EXCEPT ![c] = r]
      BY <1>1, <3>1, <3>2 DEF GuestTyped
    <3>5. calls' \in [Slots -> GuestCall] /\ calls'[c] = r
      BY <1>1, <3>3, <3>4, OneCall
    <3> QED BY <3>3, <3>5, Watched
  <2>2. CASE AuthFails(c)
    BY <1>1, <2>2, GoingOn DEF AuthFails
  <2> QED BY <2>1, <2>2
<1> QED BY <1>1, <1>2, <1>3, <1>4, CallingKeeps DEF GuestTyped

\* An error in the background leaves the timer that renders the route again.
LEMMA Failing ==
  ASSUME TypeOK, NEW c \in Slots, BackgroundError(c)
  PROVE  /\ page' \in GuestPage /\ timer' \in {"off", "refresh", "route"}
         /\ calls' \in [Slots -> GuestCall] /\ LiveIsWatched'
BY Ending, Watched DEF BackgroundError, TypeOK, GuestPage

LEMMA RefusedKeeps ==
  ASSUME GuestInv, NEW c \in Slots, Refused(c)
  PROVE  GuestInv'
<1>1. TypeOK /\ GuestTyped /\ calls[c] \in GuestCall /\ calls[c].by \in {"guest", "timer"}
  BY GuestTypes DEF GuestInv, GuestTyped, GuestCall
<1>2. UNCHANGED <<venue, entry, over, link, route, muted, sheet, stream, news, pending, wakeups,
                  used>>
  BY DEF Refused, server
<1>3. "none" \in Tokens
  BY DEF Tokens
<1>4. CASE BackgroundError(c) /\ UNCHANGED token
  BY <1>1, <1>2, <1>4, Failing, DrawingKeeps DEF OnlyDraw, server, GuestTyped
<1>5. CASE /\ token' = "none" /\ UNCHANGED <<page, timer>>
           /\ GoOn(c, "redeem") \/ Render(c, calls[c].by, "none")
  <2>1. calls' \in [Slots -> GuestCall] /\ LiveIsWatched'
    BY <1>1, <1>3, <1>5, GoingOn, Rendering
  <2>2. GuestTyped'
    BY <1>1, <1>2, <1>3, <1>5, <2>1 DEF GuestTyped
  <2> QED BY <2>1, <2>2, GuestTypes DEF GuestInv
<1> QED BY <1>4, <1>5 DEF Refused

LEMMA CallFailsKeeps ==
  ASSUME GuestInv, NEW c \in Slots, CallFails(c)
  PROVE  GuestInv'
<1>1. TypeOK /\ page.status \in Statuses
  BY DEF GuestInv, TypeOK
<1>2. OnlyDraw /\ used' \in [Kinds -> Nat]
  BY <1>1, GuestSpends DEF CallFails, Kinds
<1>3. CASE BackgroundError(c)
  BY <1>1, <1>2, <1>3, Failing, DrawingKeeps
<1>4. ASSUME NEW kind \in {"fatal", "retry"}, Draw(kind, page.status), timer' = "off", End(c)
      PROVE  GuestInv'
  <2>1. page' \in GuestPage /\ page'.kind = kind
    BY <1>1, <1>4, Drawing
  <2>2. calls' \in [Slots -> GuestCall] /\ LiveIsWatched'
    BY <1>1, <1>4, <2>1, Ending, Watched
  <2> QED BY <1>2, <1>4, <2>1, <2>2, DrawingKeeps
<1> QED BY <1>3, <1>4 DEF CallFails

\* A rendering leaves a page that shows the guest as waiting with a timer, or muted.
LEMMA RenderAnswerKeeps ==
  ASSUME GuestInv, NEW c \in Slots, RenderAnswer(c)
  PROVE  GuestInv'
<1> DEFINE status == calls[c].answer
<1>1. TypeOK /\ GuestTyped /\ status \in Statuses /\ calls[c].token \in Tokens
  BY GuestTypes DEF GuestInv, GuestTyped, GuestCall
<1>2. Draw("entry", status) /\ End(c)
  BY DEF RenderAnswer
<1>3. page' \in GuestPage /\ page'.status = status
  BY <1>1, <1>2, Drawing
<1>4. calls' \in [Slots -> GuestCall]
  BY <1>1, <1>2, Ending
<1>5. UNCHANGED <<venue, entry, over, token, route, sheet, wakeups, used>> /\ link' \in BOOLEAN
  BY DEF RenderAnswer, server
<1>6. CASE status \in Live
  <2>1. EnsureGuestRealtime(calls[c].token)
        /\ timer' = (IF sheet THEN "off" ELSE "refresh") /\ muted' = sheet
    BY <1>6 DEF RenderAnswer
  <2>2. stream' \in GuestStream /\ news' \in Nat /\ pending' \in BOOLEAN
    BY <1>1, <2>1, StreamEnsured
  <2>3. LiveIsWatched'
    BY <2>1, Watched
  <2>4. GuestTyped'
    BY <1>1, <1>3, <1>4, <1>5, <2>1, <2>2 DEF GuestTyped
  <2> QED BY <2>3, <2>4, GuestTypes DEF GuestInv
<1>7. CASE status \notin Live
  <2>1. CloseGuestRealtime /\ timer' = "off" /\ UNCHANGED muted
    BY <1>7 DEF RenderAnswer
  <2>2. stream' \in GuestStream /\ news' \in Nat /\ pending' \in BOOLEAN
    BY <2>1, StreamClosed
  <2>3. LiveIsWatched'
    BY <1>3, <1>7, Watched
  <2>4. GuestTyped'
    BY <1>1, <1>3, <1>4, <1>5, <2>1, <2>2 DEF GuestTyped
  <2> QED BY <2>3, <2>4, GuestTypes DEF GuestInv
<1> QED BY <1>6, <1>7

LEMMA RefreshAnswerKeeps ==
  ASSUME GuestInv, NEW c \in Slots, RefreshAnswer(c)
  PROVE  GuestInv'
<1> DEFINE status == calls[c].answer
<1>1. TypeOK /\ GuestTyped /\ status \in Statuses /\ calls[c].token \in Tokens
      /\ token \in Tokens
  BY GuestTypes DEF GuestInv, GuestTyped, GuestCall
<1>2. UNCHANGED <<venue, entry, over, token, link, route, sheet, wakeups, used>>
  BY DEF RefreshAnswer, server
<1>3. CASE /\ Render(c, "timer", token) /\ UNCHANGED <<page, timer, muted>>
           /\ CloseGuestRealtime \/ UNCHANGED <<stream, news, pending>>
  <2>1. calls' \in [Slots -> GuestCall] /\ LiveIsWatched'
    BY <1>1, <1>3, Rendering
  <2>2. stream' \in GuestStream /\ news' \in Nat /\ pending' \in BOOLEAN
    BY <1>1, <1>3, StreamClosed DEF GuestTyped
  <2>3. GuestTyped'
    BY <1>1, <1>2, <1>3, <2>1, <2>2 DEF GuestTyped
  <2> QED BY <2>1, <2>3, GuestTypes DEF GuestInv
<1>4. CASE /\ Draw("entry", status) /\ End(c) /\ EnsureGuestRealtime(calls[c].token)
           /\ timer' = "refresh" /\ muted' = FALSE
  <2>1. page' \in GuestPage /\ calls' \in [Slots -> GuestCall] /\ LiveIsWatched'
    BY <1>1, <1>4, Drawing, Ending, Watched
  <2>2. stream' \in GuestStream /\ news' \in Nat /\ pending' \in BOOLEAN
    BY <1>1, <1>4, StreamEnsured
  <2>3. GuestTyped'
    BY <1>1, <1>2, <1>4, <2>1, <2>2 DEF GuestTyped
  <2> QED BY <2>1, <2>3, GuestTypes DEF GuestInv
<1> QED BY <1>3, <1>4 DEF RefreshAnswer

-----------------------------------------------------------------------------
(* GuestScreen: the guest *)

LEMMA VisitKeeps ==
  ASSUME GuestInv, NEW to \in {"entry", "preorder", "venue"}, Visit(to)
  PROVE  GuestInv'
<1>1. TypeOK /\ GuestTyped /\ token \in Tokens
  BY GuestTypes DEF GuestInv, GuestTyped
<1>2. /\ UNCHANGED <<venue, entry, over, token, link, muted, wakeups>>
      /\ route' = to /\ RenderRoute(to, "guest", token)
      /\ timer' \in {"off", timer}
  BY DEF Visit, server
<1>3. used' \in [Kinds -> Nat]
  BY <1>1, GuestSpends DEF Visit, Kinds
<1>4. /\ sheet' \in BOOLEAN
      /\ stream' \in GuestStream /\ news' \in Nat /\ pending' \in BOOLEAN
      /\ page' \in GuestPage
      /\ calls' \in [Slots -> GuestCall] /\ LiveIsWatched'
  BY <1>1, <1>2, RouteRendered
<1>5. GuestTyped'
  BY <1>1, <1>2, <1>3, <1>4 DEF GuestTyped
<1> QED BY <1>4, <1>5, GuestTypes DEF GuestInv

LEMMA RetryKeeps ==
  ASSUME GuestInv, Retry
  PROVE  GuestInv'
<1>1. TypeOK /\ GuestTyped /\ token \in Tokens
  BY GuestTypes DEF GuestInv, GuestTyped
<1>2. UNCHANGED <<venue, entry, over, token, link, route, muted, wakeups>>
  BY DEF Retry, server
<1>3. used' \in [Kinds -> Nat]
  BY <1>1, GuestSpends DEF Retry, Kinds
<1>4. CASE /\ \E c \in FreeSlots : Render(c, "guest", token)
           /\ UNCHANGED <<page, timer, sheet, stream, news, pending>>
  <2>1. PICK c \in FreeSlots : Render(c, "guest", token)
    BY <1>4
  <2>2. c \in Slots
    BY DEF FreeSlots
  <2>3. calls' \in [Slots -> GuestCall] /\ LiveIsWatched'
    BY <1>1, <2>1, <2>2, Rendering
  <2>4. GuestTyped'
    BY <1>1, <1>2, <1>3, <1>4, <2>3 DEF GuestTyped
  <2> QED BY <2>3, <2>4, GuestTypes DEF GuestInv
<1>5. CASE RenderRoute(route, "guest", token) /\ timer' \in {"off", timer}
  <2>1. /\ sheet' \in BOOLEAN
        /\ stream' \in GuestStream /\ news' \in Nat /\ pending' \in BOOLEAN
        /\ page' \in GuestPage
        /\ calls' \in [Slots -> GuestCall] /\ LiveIsWatched'
    BY <1>1, <1>5, RouteRendered
  <2>2. GuestTyped'
    BY <1>1, <1>2, <1>3, <1>5, <2>1 DEF GuestTyped
  <2> QED BY <2>1, <2>2, GuestTypes DEF GuestInv
<1> QED BY <1>4, <1>5 DEF Retry

LEMMA RestoreSessionKeeps ==
  ASSUME GuestInv, RestoreSession
  PROVE  GuestInv'
<1>1. TypeOK /\ GuestTyped
  BY GuestTypes DEF GuestInv
<1>2. token' \in Tokens
  BY <1>1 DEF RestoreSession, GuestTyped, Tokens
<1>3. PICK t \in Tokens : t = token'
  BY <1>2
<1>4. PICK c \in FreeSlots : Render(c, "guest", t)
  BY <1>3 DEF RestoreSession
<1>5. c \in Slots
  BY DEF FreeSlots
<1>6. calls' \in [Slots -> GuestCall] /\ LiveIsWatched'
  BY <1>1, <1>4, <1>5, Rendering
<1>7. used' \in [Kinds -> Nat]
  BY <1>1, GuestSpends DEF RestoreSession, Kinds
<1> QED BY <1>1, <1>2, <1>6, <1>7, CallingKeeps DEF RestoreSession, GuestTyped

LEMMA LeaveWaitlistKeeps ==
  ASSUME GuestInv, LeaveWaitlist
  PROVE  GuestInv'
<1>1. TypeOK /\ GuestTyped /\ token \in Tokens
  BY GuestTypes DEF GuestInv, GuestTyped
<1>2. UNCHANGED <<venue, over, link, muted, wakeups>>
  BY DEF LeaveWaitlist
<1>3. used' \in [Kinds -> Nat]
  BY <1>1, GuestSpends DEF LeaveWaitlist, Kinds
<1>4. CASE /\ entry' \in {entry, "CLOSED"}
           /\ route' = "venue" /\ timer' = "off" /\ token' = "none"
           /\ RenderRoute("venue", "guest", "none")
  <2>1. "none" \in Tokens
    BY DEF Tokens
  <2>2. /\ sheet' \in BOOLEAN
        /\ stream' \in GuestStream /\ news' \in Nat /\ pending' \in BOOLEAN
        /\ page' \in GuestPage
        /\ calls' \in [Slots -> GuestCall] /\ LiveIsWatched'
    BY <1>1, <1>4, <2>1, RouteRendered
  <2>3. GuestTyped'
    BY <1>1, <1>2, <1>3, <1>4, <2>1, <2>2 DEF GuestTyped, Statuses
  <2> QED BY <2>2, <2>3, GuestTypes DEF GuestInv
<1>5. CASE /\ \E c \in FreeSlots : Render(c, "guest", token)
           /\ UNCHANGED <<entry, token, route, page, timer, sheet, stream, news, pending>>
  <2>1. PICK c \in FreeSlots : Render(c, "guest", token)
    BY <1>5
  <2>2. c \in Slots
    BY DEF FreeSlots
  <2>3. calls' \in [Slots -> GuestCall] /\ LiveIsWatched'
    BY <1>1, <2>1, <2>2, Rendering
  <2>4. GuestTyped'
    BY <1>1, <1>2, <1>3, <1>5, <2>3 DEF GuestTyped
  <2> QED BY <2>3, <2>4, GuestTypes DEF GuestInv
<1> QED BY <1>4, <1>5 DEF LeaveWaitlist

LEMMA ShareSheetKeeps ==
  ASSUME GuestInv, OpenShareSheet \/ CloseShareSheet
  PROVE  GuestInv'
<1>1. TypeOK /\ GuestTyped
  BY GuestTypes DEF GuestInv
<1>2. used' \in [Kinds -> Nat]
  BY <1>1, GuestSpends DEF OpenShareSheet, CloseShareSheet, Kinds, GuestTyped
<1>3. UNCHANGED <<venue, entry, over, token, link, route, page, stream, news, pending, wakeups,
                  calls>>
  BY DEF OpenShareSheet, CloseShareSheet, server
<1>4. CASE OpenShareSheet
  <2>1. sheet' = TRUE /\ timer' = "off" /\ muted' = TRUE
    BY <1>4 DEF OpenShareSheet
  <2>2. GuestTyped'
    BY <1>1, <1>2, <1>3, <2>1 DEF GuestTyped
  <2> QED BY <2>1, <2>2, Watched, GuestTypes DEF GuestInv
<1>5. CASE CloseShareSheet
  <2>1. sheet' = FALSE /\ UNCHANGED <<timer, muted>>
    BY <1>5 DEF CloseShareSheet
  <2>2. GuestTyped'
    BY <1>1, <1>2, <1>3, <2>1 DEF GuestTyped
  <2> QED BY <1>3, <2>1, <2>2, StillWatched, GuestTypes DEF GuestInv
<1> QED BY <1>4, <1>5

LEMMA GuestInvInit ==
  ASSUME Init
  PROVE  GuestInv
<1> DEFINE first == [NoCall EXCEPT !.at = "venue", !.token = token]
<1>1. token \in Tokens
  BY DEF Init, Tokens
<1>2. first \in GuestCall
  BY <1>1, NoCallTyped DEF GuestCall
<1>3. calls = [c \in Slots |-> IF c = 1 THEN first ELSE NoCall]
  BY DEF Init
<1> HIDE DEF first
<1>4. calls \in [Slots -> GuestCall]
  BY <1>2, <1>3, NoCallTyped
<1>5. page \in GuestPage /\ page.kind = "blank" /\ stream \in GuestStream
  BY NoStreamTyped DEF Init, GuestPage, Statuses
<1>6. GuestTyped
  <2>1. venue \in [queueOnly: BOOLEAN, sse: BOOLEAN] /\ entry \in Statuses /\ used \in [Kinds -> Nat]
    BY DEF Init, Statuses
  <2>2. over \in BOOLEAN /\ link \in BOOLEAN /\ muted \in BOOLEAN /\ sheet \in BOOLEAN
        /\ pending \in BOOLEAN
    BY DEF Init
  <2>3. news \in Nat /\ wakeups \in Nat /\ route = "entry" /\ timer = "off"
    BY DEF Init
  <2> QED BY <1>1, <1>4, <1>5, <2>1, <2>2, <2>3 DEF GuestTyped
<1>7. LiveIsWatched
  BY <1>5 DEF LiveIsWatched, ShowsLive
<1> QED BY <1>6, <1>7, GuestTypes DEF GuestInv

LEMMA GuestInvNext ==
  ASSUME GuestInv, Next
  PROVE  GuestInv'
<1>1. ASSUME NEW c \in Slots, Progress(c)
      PROVE  GuestInv'
  <2>1. used \in [Kinds -> Nat]
    BY DEF GuestInv, TypeOK
  <2>2. CASE Redeem(c, Accessible) /\ UNCHANGED used
    BY <2>1, <2>2, RedeemKeeps
  <2> QED BY <1>1, <2>2, VenueLoadedKeeps, EntryServedKeeps, RefusedKeeps, RenderAnswerKeeps,
             RefreshAnswerKeeps DEF Progress
<1>2. ASSUME NEW c \in Slots, Redeem(c, FALSE) /\ Spend("faults")
      PROVE  GuestInv'
  BY <1>2, GuestSpends, RedeemKeeps DEF GuestInv, Kinds
<1>3. CASE Program
  BY <1>1, <1>3, TimersKeep DEF Program
<1>4. CASE Faults
  BY <1>2, <1>4, StreamingKeeps, CallFailsKeeps, EntryServedKeeps DEF Faults
<1>5. CASE Guest
  BY <1>5, VisitKeeps, RetryKeeps, RestoreSessionKeeps, LeaveWaitlistKeeps, ShareSheetKeeps
     DEF Guest
<1> QED BY <1>3, <1>4, <1>5, StreamingKeeps, EntryMovesKeeps, WindowEndsKeeps,
           TokenExpiresKeeps DEF Next

LEMMA GuestIsStill ==
  ASSUME GuestInv, UNCHANGED vars
  PROVE  GuestInv'
<1>1. GuestTyped /\ LiveIsWatched
  BY GuestTypes DEF GuestInv
<1>2. GuestTyped'
  BY <1>1 DEF vars, GuestTyped
<1>3. LiveIsWatched'
  BY <1>1, StillWatched DEF vars
<1> QED BY <1>2, <1>3, GuestTypes DEF GuestInv

-----------------------------------------------------------------------------
(* StaffScreen: its invariant, and what its operators return *)

StaffCall == [kind: {"render", "refresh"}, by: {"host", "timer"}, tab: Tabs,
              at: {"idle", "queue", "answered", "refused"}, number: Nat,
              warns: BOOLEAN, answer: Nat]
StaffPage == [kind: {"blank", "dashboard", "fatal", "other"}, tab: Tabs, version: Nat,
              warns: BOOLEAN]
StaffTimer == [at: {"off", "refresh", "route"}, tab: Tabs, number: Nat]
StaffAction == [kind: {"row", "seat"}, at: {"none", "sent", "done", "failed"}, version: Nat,
                waitsFor: Nat]

StaffTyped ==
  /\ venue.sse \in BOOLEAN /\ queue \in Nat /\ heard \in Nat /\ newest \in Nat
  /\ auth \in {"none", "old", "good"}
  /\ staffRoute \in {"dashboard", "login", "venue"}
  /\ tab \in Tabs /\ submitting \in BOOLEAN
  /\ staffPage \in StaffPage /\ staffTimer \in StaffTimer
  /\ staffStream \in {"none", "connecting", "open", "down"}
  /\ staffNews \in Nat /\ staffPending \in BOOLEAN /\ staffWakeups \in Nat
  /\ staffCalls \in [Slots -> StaffCall]
  /\ action \in StaffAction
  /\ staffUsed \in [StaffKinds -> Nat]

\* An answer that can still be drawn holds the actions that were heard.
Timely(call, number, version) ==
  call.at = "answered" /\ ~call.warns /\ call.number = number => call.answer >= version

\* What is heard is in the queue; no call has a number that is still to come.
StaffOrder ==
  /\ heard <= queue /\ (action.at = "done" => action.version <= queue)
  /\ \A c \in Slots : staffCalls[c].number <= newest
  /\ auth # "none" => \A c \in Slots : Timely(staffCalls[c], newest, heard)

StaffInv == StaffTyped /\ StaffOrder

\* What OwnActionShown says of a step.
ShownStep ==
  staffPage' # staffPage /\ staffPage'.kind = "dashboard" /\ ~staffPage'.warns /\ auth # "none"
    => staffPage'.version >= heard'

StaffKept == StaffInv' /\ ShownStep

LEMMA StaffTypes == Staff!TypeOK <=> StaffTyped
BY DEF Staff!TypeOK, StaffTyped, StaffCall, StaffPage, StaffTimer, StaffAction, Staff!Slots,
       Slots, Staff!Kinds, StaffKinds

LEMMA StaffConstants ==
  /\ Staff!NoCall \in StaffCall /\ Staff!NoCall.at = "idle" /\ Staff!NoCall.number = 0
  /\ Staff!NoTimer \in StaffTimer
  /\ Staff!NoAction \in StaffAction /\ Staff!NoAction.at = "none"
  /\ Staff!Slots = Slots /\ Staff!FreeSlots \subseteq Slots /\ Staff!Kinds = StaffKinds
BY TabAssumption DEF Staff!NoCall, StaffCall, Staff!NoTimer, StaffTimer, Staff!NoAction,
   StaffAction, Staff!Slots, Slots, Staff!FreeSlots, Staff!Kinds, StaffKinds

LEMMA StaffSpends ==
  ASSUME StaffTyped, NEW kind \in StaffKinds, Staff!Spend(kind)
  PROVE  staffUsed' \in [StaffKinds -> Nat]
BY DEF StaffTyped, Staff!Spend

LEMMA OneStaffCall ==
  ASSUME StaffTyped, NEW c \in Slots, NEW r \in StaffCall,
         staffCalls' = [staffCalls EXCEPT ![c] = r]
  PROVE  /\ staffCalls' \in [Slots -> StaffCall]
         /\ \A d \in Slots : staffCalls'[d] = IF d = c THEN r ELSE staffCalls[d]
BY DEF StaffTyped

LEMMA NothingShown ==
  ASSUME UNCHANGED staffPage \/ staffPage'.kind # "dashboard"
  PROVE  ShownStep
BY DEF ShownStep

\* A step that numbers nothing anew: one call may move.
LEMMA SameNumber ==
  ASSUME StaffInv, UNCHANGED <<newest, heard>>, auth' # "none" => auth # "none",
         queue' \in Nat, queue' >= queue,
         action'.at = "done" => action'.version <= queue',
         \A c \in Slots : \/ staffCalls'[c] = staffCalls[c]
                          \/ /\ staffCalls'[c].number <= newest
                             /\ Timely(staffCalls'[c], newest, heard)
  PROVE  StaffOrder'
BY DEF StaffInv, StaffTyped, StaffOrder

\* A step that numbers a rendering: what was answered until now is outdated.
LEMMA NextNumber ==
  ASSUME StaffInv, newest' = newest + 1, heard' <= queue',
         action'.at = "done" => action'.version <= queue',
         \A c \in Slots : \/ staffCalls'[c] = staffCalls[c]
                          \/ staffCalls'[c].number <= newest + 1 /\ staffCalls'[c].at # "answered"
  PROVE  StaffOrder'
<1>1. newest \in Nat /\ \A c \in Slots : staffCalls[c].number \in Nat /\ staffCalls[c].number <= newest
  BY DEF StaffInv, StaffTyped, StaffOrder, StaffCall
<1>2. ASSUME NEW c \in Slots
      PROVE  staffCalls'[c].number <= newest' /\ Timely(staffCalls'[c], newest', heard')
  <2>1. CASE staffCalls'[c] = staffCalls[c]
    BY <1>1, <2>1 DEF Timely
  <2>2. CASE staffCalls'[c].number <= newest + 1 /\ staffCalls'[c].at # "answered"
    BY <2>2 DEF Timely
  <2> QED BY <2>1, <2>2
<1> QED BY <1>2 DEF StaffOrder

LEMMA LoginShown ==
  ASSUME StaffTyped, Staff!ToLogin
  PROVE  /\ staffRoute' \in {"dashboard", "login", "venue"}
         /\ staffPage' \in StaffPage /\ staffPage'.kind = "other" /\ staffTimer' \in StaffTimer
         /\ staffStream' \in {"none", "connecting", "open", "down"}
         /\ staffNews' \in Nat /\ staffPending' \in BOOLEAN
BY StaffConstants DEF Staff!ToLogin, Staff!CloseStaffRealtime, StaffTyped, StaffPage

LEMMA StaffStreamEnsured ==
  ASSUME StaffTyped, Staff!EnsureStaffRealtime
  PROVE  /\ staffStream' \in {"none", "connecting", "open", "down"}
         /\ staffNews' \in Nat /\ staffPending' \in BOOLEAN
<1>1. \/ UNCHANGED <<staffStream, staffNews, staffPending>>
      \/ /\ staffStream' \in {"connecting", "none"}
         /\ staffNews' = 0 /\ staffPending' = FALSE
  BY DEF Staff!EnsureStaffRealtime
<1>2. CASE UNCHANGED <<staffStream, staffNews, staffPending>>
  BY <1>2 DEF StaffTyped
<1>3. CASE staffStream' \in {"connecting", "none"} /\ staffNews' = 0 /\ staffPending' = FALSE
  BY <1>3
<1> QED BY <1>1, <1>2, <1>3

LEMMA StaffEnding ==
  ASSUME StaffTyped, NEW c \in Slots, Staff!End(c)
  PROVE  /\ staffCalls' \in [Slots -> StaffCall]
         /\ \A d \in Slots : staffCalls'[d] = IF d = c THEN Staff!NoCall ELSE staffCalls[d]
BY StaffConstants, OneStaffCall DEF Staff!End

\* The slot that has ended is in order.
LEMMA EndedInOrder ==
  ASSUME StaffInv, NEW c \in Slots, Staff!End(c)
  PROVE  \A d \in Slots : \/ staffCalls'[d] = staffCalls[d]
                          \/ /\ staffCalls'[d].number <= newest
                             /\ Timely(staffCalls'[d], newest, heard)
<1>1. newest \in Nat
  BY DEF StaffInv, StaffTyped
<1>2. Staff!NoCall.number <= newest /\ Timely(Staff!NoCall, newest, heard)
  BY <1>1, StaffConstants DEF Timely
<1> QED BY <1>2, StaffEnding DEF StaffInv

-----------------------------------------------------------------------------
(* StaffScreen: the server, the stream, the timers *)

\* What a step on the queue alone leaves.
StaffScreenStill ==
  UNCHANGED <<venue, staffRoute, tab, newest, staffPage, staffTimer, staffCalls, submitting,
              heard>>

LEMMA ScreenIsStill ==
  ASSUME StaffInv, StaffScreenStill, auth' \in {"none", "old", "good"},
         auth' # "none" => auth # "none", queue' \in Nat, queue' >= queue,
         action' \in StaffAction, action'.at = "done" => action'.version <= queue',
         staffStream' \in {"none", "connecting", "open", "down"},
         staffNews' \in Nat, staffPending' \in BOOLEAN, staffWakeups' \in Nat,
         staffUsed' \in [StaffKinds -> Nat]
  PROVE  StaffKept
<1>1. StaffTyped'
  BY DEF StaffInv, StaffTyped, StaffScreenStill
<1>2. StaffOrder'
  BY SameNumber DEF StaffScreenStill
<1> QED BY <1>1, <1>2, NothingShown DEF StaffInv, StaffKept, StaffScreenStill

LEMMA QueueChangesTyped ==
  ASSUME StaffTyped, Staff!QueueChanges
  PROVE  queue' \in Nat /\ queue' >= queue /\ queue' = queue + 1 /\ staffNews' \in Nat
BY DEF Staff!QueueChanges, StaffTyped

LEMMA StaffServerKeeps ==
  ASSUME StaffInv, UNCHANGED venue, Staff!QueueMoves \/ Staff!AuthExpires \/ Staff!ActionCut
  PROVE  StaffKept
<1>1. StaffTyped /\ queue \in Nat /\ action \in StaffAction /\ staffNews \in Nat
  BY DEF StaffInv, StaffTyped
<1>2. staffUsed' \in [StaffKinds -> Nat]
  BY <1>1, StaffSpends DEF Staff!QueueMoves, Staff!AuthExpires, Staff!ActionCut, StaffKinds
<1>3. StaffScreenStill /\ UNCHANGED <<staffStream, staffPending, staffWakeups>>
  BY DEF StaffScreenStill, Staff!QueueMoves, Staff!AuthExpires, Staff!ActionCut, Staff!events
<1>4. action.at = "done" => action.version <= queue
  BY DEF StaffInv, StaffOrder
<1>5. action.version \in Nat
  BY <1>1 DEF StaffAction
<1>6. CASE Staff!QueueMoves
  <2>1. queue' = queue + 1 /\ UNCHANGED <<auth, action>>
    BY <1>6 DEF Staff!QueueMoves, Staff!QueueChanges
  <2>2. staffNews' \in Nat
    BY <1>1, <1>6, QueueChangesTyped DEF Staff!QueueMoves
  <2>3. queue' \in Nat /\ queue' >= queue
    BY <1>1, <2>1
  <2>4. action'.at = "done" => action'.version <= queue'
    BY <1>1, <1>4, <1>5, <2>1
  <2> QED BY <1>1, <1>2, <1>3, <2>1, <2>2, <2>3, <2>4, ScreenIsStill DEF StaffInv, StaffTyped
<1>7. CASE Staff!AuthExpires
  <2>1. auth = "good" /\ auth' = "old" /\ UNCHANGED <<queue, action, staffNews>>
    BY <1>7 DEF Staff!AuthExpires, Staff!events
  <2>2. queue' >= queue
    BY <1>1, <2>1
  <2> QED BY <1>1, <1>2, <1>3, <1>4, <2>1, <2>2, ScreenIsStill DEF StaffInv, StaffTyped
<1>8. CASE Staff!ActionCut
  <2>1. action' = [action EXCEPT !.at = "failed"] /\ UNCHANGED <<queue, auth, staffNews>>
    BY <1>8 DEF Staff!ActionCut, Staff!events
  <2>2. action' \in StaffAction /\ action'.at = "failed"
    BY <1>1, <2>1 DEF StaffAction
  <2>3. queue' >= queue
    BY <1>1, <2>1
  <2> QED BY <1>1, <1>2, <1>3, <2>1, <2>2, <2>3, ScreenIsStill DEF StaffInv, StaffTyped
<1> QED BY <1>6, <1>7, <1>8

LEMMA StaffStreamKeeps ==
  ASSUME StaffInv, UNCHANGED venue, Staff!Streaming \/ Staff!StreamDrops
  PROVE  StaffKept
<1>1. StaffTyped /\ queue \in Nat /\ staffNews \in Nat /\ staffWakeups \in Nat
      /\ staffPending \in BOOLEAN /\ staffStream \in {"none", "connecting", "open", "down"}
  BY DEF StaffInv, StaffTyped
<1>2. Staff!OnlyStream
  BY DEF Staff!Streaming, Staff!StreamDrops, Staff!StreamConnects, Staff!StreamRetries,
         Staff!QueueUpdate
<1>3. StaffScreenStill /\ UNCHANGED <<queue, auth, action>>
  BY <1>2 DEF StaffScreenStill, Staff!OnlyStream
<1>4. staffUsed' \in [StaffKinds -> Nat]
  <2>1. Staff!StreamDrops => staffUsed' \in [StaffKinds -> Nat]
    BY <1>1, StaffSpends DEF Staff!StreamDrops, StaffKinds
  <2>2. Staff!Streaming => UNCHANGED staffUsed
    BY DEF Staff!Streaming, Staff!StreamConnects, Staff!StreamRetries, Staff!QueueUpdate
  <2> QED BY <1>1, <2>1, <2>2 DEF StaffTyped
<1>5. queue' >= queue /\ (action'.at = "done" => action'.version <= queue')
  BY <1>1, <1>3 DEF StaffInv, StaffOrder
<1>6. CASE Staff!QueueUpdate
  <2>1. staffNews > 0 /\ staffNews' = staffNews - 1 /\ UNCHANGED staffStream
    BY <1>6 DEF Staff!QueueUpdate
  <2>2. \/ staffPending' = TRUE /\ staffWakeups' = staffWakeups + 1
        \/ UNCHANGED <<staffPending, staffWakeups>>
    BY <1>6 DEF Staff!QueueUpdate
  <2>3. staffNews' \in Nat
    BY <1>1, <2>1
  <2>4. staffWakeups' \in Nat
    BY <1>1, <2>2
  <2>5. staffPending' \in BOOLEAN
    BY <1>1, <2>2
  <2> QED BY <1>1, <1>3, <1>4, <1>5, <2>1, <2>3, <2>4, <2>5, ScreenIsStill
          DEF StaffInv, StaffTyped
<1>7. CASE Staff!StreamConnects \/ Staff!StreamRetries \/ Staff!StreamDrops
  <2>1. /\ staffStream' \in {"open", "down", "connecting"} /\ staffNews' \in {0, staffNews}
        /\ UNCHANGED <<staffPending, staffWakeups>>
    BY <1>7 DEF Staff!StreamConnects, Staff!StreamRetries, Staff!StreamDrops
  <2>2. staffNews' \in Nat
    BY <1>1, <2>1
  <2> QED BY <1>1, <1>3, <1>4, <1>5, <2>1, <2>2, ScreenIsStill DEF StaffInv, StaffTyped
<1> QED BY <1>6, <1>7 DEF Staff!Streaming

\* A refresh has the number it was started with, and no answer yet.
LEMMA StaffRefreshing ==
  ASSUME StaffInv, NEW t \in Tabs, NEW n \in Nat, Staff!StartRefresh(t, n)
  PROVE  /\ staffCalls' \in [Slots -> StaffCall]
         /\ \A c \in Slots : \/ staffCalls'[c] = staffCalls[c]
                             \/ /\ staffCalls'[c].number <= newest
                                /\ Timely(staffCalls'[c], newest, heard)
<1>1. StaffTyped /\ newest \in Nat
  BY DEF StaffInv, StaffTyped
<1>2. CASE UNCHANGED staffCalls
  BY <1>1, <1>2 DEF StaffTyped
<1>3. CASE ~UNCHANGED staffCalls
  <2> DEFINE r == [Staff!NoCall EXCEPT !.kind = "refresh", !.at = "queue", !.by = "timer",
                                       !.tab = t, !.number = n]
  <2>1. PICK c \in Staff!FreeSlots : staffCalls' = [staffCalls EXCEPT ![c] = r]
    BY <1>3 DEF Staff!StartRefresh
  <2>2. newest = n
    BY <1>3 DEF Staff!StartRefresh, Staff!ShouldApply
  <2>3. r \in StaffCall /\ r.at = "queue" /\ r.number = n
    BY StaffConstants DEF StaffCall
  <2> HIDE DEF r
  <2>4. c \in Slots
    BY <2>1, StaffConstants
  <2>5. r.number <= newest /\ Timely(r, newest, heard)
    BY <1>1, <2>2, <2>3 DEF Timely
  <2> QED BY <1>1, <2>1, <2>3, <2>4, <2>5, OneStaffCall
<1> QED BY <1>2, <1>3

LEMMA StaffRefreshKeeps ==
  ASSUME StaffInv, UNCHANGED venue, Staff!RefreshTimer \/ Staff!Wakeup
  PROVE  StaffKept
<1>1. /\ StaffTyped /\ queue \in Nat /\ newest \in Nat /\ tab \in Tabs /\ staffWakeups \in Nat
      /\ staffTimer.tab \in Tabs /\ staffTimer.number \in Nat /\ staffTimer \in StaffTimer
  BY DEF StaffInv, StaffTyped, StaffTimer
<1>2. UNCHANGED <<venue, queue, auth, staffRoute, tab, newest, staffPage, staffStream, staffNews,
                  action, submitting, heard, staffUsed>>
  BY DEF Staff!RefreshTimer, Staff!Wakeup, Staff!events
<1>3. /\ staffCalls' \in [Slots -> StaffCall]
      /\ \A c \in Slots : \/ staffCalls'[c] = staffCalls[c]
                          \/ /\ staffCalls'[c].number <= newest
                             /\ Timely(staffCalls'[c], newest, heard)
  <2>1. CASE UNCHANGED staffCalls
    BY <1>1, <2>1 DEF StaffTyped
  <2>2. CASE Staff!StartRefresh(staffTimer.tab, staffTimer.number)
    BY <1>1, <2>2, StaffRefreshing
  <2>3. CASE Staff!StartRefresh(tab, newest)
    BY <1>1, <2>3, StaffRefreshing
  <2> QED BY <2>1, <2>2, <2>3 DEF Staff!RefreshTimer, Staff!Wakeup
<1>4. staffTimer' \in StaffTimer
  BY <1>1, StaffConstants DEF Staff!RefreshTimer, Staff!Wakeup
<1>5. staffPending' \in BOOLEAN
  BY DEF Staff!RefreshTimer, Staff!Wakeup, Staff!events, StaffInv, StaffTyped
<1>6. staffWakeups' \in Nat
  <2>1. \/ staffWakeups > 0 /\ staffWakeups' = staffWakeups - 1
        \/ staffWakeups' = staffWakeups
    BY DEF Staff!RefreshTimer, Staff!Wakeup, Staff!events
  <2> QED BY <1>1, <2>1
<1>7. StaffTyped'
  BY <1>1, <1>2, <1>3, <1>4, <1>5, <1>6 DEF StaffTyped
<1>8. queue' >= queue /\ (action'.at = "done" => action'.version <= queue')
  BY <1>1, <1>2 DEF StaffInv, StaffOrder
<1>9. StaffOrder'
  BY <1>1, <1>2, <1>3, <1>8, SameNumber
<1> QED BY <1>2, <1>7, <1>9, NothingShown DEF StaffInv, StaffKept

-----------------------------------------------------------------------------
(* StaffScreen: renderings *)

\* A rendering that starts, or the login page without a token: nothing that is
\* under way has the number of what comes next.
LEMMA DashboardRendered ==
  ASSUME StaffInv, NEW t \in Tabs, NEW by \in {"host", "timer"},
         Staff!RenderDashboard(t, by, newest), UNCHANGED auth,
         heard' <= queue', action'.at = "done" => action'.version <= queue'
  PROVE  /\ newest' \in Nat /\ staffCalls' \in [Slots -> StaffCall]
         /\ staffRoute' \in {"dashboard", "login", "venue"}
         /\ staffPage' \in StaffPage /\ staffTimer' \in StaffTimer
         /\ staffStream' \in {"none", "connecting", "open", "down"}
         /\ staffNews' \in Nat /\ staffPending' \in BOOLEAN
         /\ StaffOrder' /\ ShownStep
<1>1. StaffTyped /\ newest \in Nat
  BY DEF StaffInv, StaffTyped
<1>2. CASE auth = "none"
  <2>1. Staff!ToLogin /\ UNCHANGED <<staffCalls, newest>>
    BY <1>2 DEF Staff!RenderDashboard
  <2>2. StaffOrder'
    BY <1>2, <2>1 DEF StaffInv, StaffOrder
  <2> QED BY <1>1, <2>1, <2>2, LoginShown, NothingShown DEF StaffTyped
<1>3. CASE auth # "none"
  <2> DEFINE r == [Staff!NoCall EXCEPT !.at = "queue", !.by = by, !.tab = t,
                                       !.number = newest + 1]
  <2>1. PICK c \in Staff!FreeSlots : staffCalls' = [staffCalls EXCEPT ![c] = r]
    BY <1>3 DEF Staff!RenderDashboard
  <2>2. newest' = newest + 1
        /\ UNCHANGED <<staffRoute, staffPage, staffStream, staffNews, staffPending>>
        /\ staffTimer' \in {Staff!NoTimer, staffTimer}
    BY <1>3 DEF Staff!RenderDashboard
  <2>3. newest + 1 \in Nat
    BY <1>1
  <2>4. r \in StaffCall /\ r.at = "queue" /\ r.number = newest + 1
    BY <2>3, StaffConstants DEF StaffCall
  <2> HIDE DEF r
  <2>5. c \in Slots
    BY <2>1, StaffConstants
  <2>6. /\ staffCalls' \in [Slots -> StaffCall]
        /\ \A d \in Slots : staffCalls'[d] = IF d = c THEN r ELSE staffCalls[d]
    BY <1>1, <2>1, <2>4, <2>5, OneStaffCall
  <2>7. r.number <= newest + 1
    BY <2>3, <2>4
  <2>8. StaffOrder'
    BY <2>2, <2>4, <2>6, <2>7, NextNumber
  <2>9. staffTimer' \in StaffTimer
    BY <1>1, <2>2, StaffConstants DEF StaffTyped
  <2> QED BY <1>1, <2>2, <2>3, <2>6, <2>8, <2>9, NothingShown DEF StaffTyped
<1> QED BY <1>2, <1>3

LEMMA RouteTimerKeeps ==
  ASSUME StaffInv, UNCHANGED venue, Staff!RouteTimer
  PROVE  StaffKept
<1>1. StaffTyped /\ tab \in Tabs /\ queue \in Nat
  BY DEF StaffInv, StaffTyped
<1>2. UNCHANGED <<venue, queue, auth, tab, staffWakeups, action, submitting, heard, staffUsed>>
  BY DEF Staff!RouteTimer
<1>3. heard' <= queue' /\ (action'.at = "done" => action'.version <= queue') /\ queue' >= queue
  BY <1>1, <1>2 DEF StaffInv, StaffOrder
<1>4. CASE Staff!RenderDashboard(tab, "timer", newest)
  <2>1. /\ newest' \in Nat /\ staffCalls' \in [Slots -> StaffCall]
        /\ staffRoute' \in {"dashboard", "login", "venue"}
        /\ staffPage' \in StaffPage /\ staffTimer' \in StaffTimer
        /\ staffStream' \in {"none", "connecting", "open", "down"}
        /\ staffNews' \in Nat /\ staffPending' \in BOOLEAN
        /\ StaffOrder' /\ ShownStep
    BY <1>1, <1>2, <1>3, <1>4, DashboardRendered
  <2>2. StaffTyped'
    BY <1>1, <1>2, <2>1 DEF StaffTyped
  <2> QED BY <2>1, <2>2 DEF StaffInv, StaffKept
<1>5. CASE /\ staffPage' = [staffPage EXCEPT !.kind = "other"] /\ staffTimer' = Staff!NoTimer
           /\ UNCHANGED <<staffRoute, newest, staffCalls, staffStream, staffNews, staffPending>>
  <2>1. staffPage' \in StaffPage /\ staffPage'.kind = "other" /\ staffTimer' \in StaffTimer
    BY <1>1, <1>5, StaffConstants DEF StaffTyped, StaffPage
  <2>2. StaffTyped'
    BY <1>1, <1>2, <1>5, <2>1 DEF StaffTyped
  <2>3. StaffOrder'
    BY <1>1, <1>2, <1>3, <1>5, SameNumber DEF StaffTyped
  <2> QED BY <2>1, <2>2, <2>3, NothingShown DEF StaffInv, StaffKept
<1> QED BY <1>4, <1>5 DEF Staff!RouteTimer

\* What is read is the queue of now, and so holds what was heard.
LEMMA StaffServedKeeps ==
  ASSUME StaffInv, UNCHANGED venue, NEW c \in Slots,
         Staff!ServeQueue(c) \/ Staff!QueueFails(c)
  PROVE  StaffKept
<1>1. /\ StaffTyped /\ queue \in Nat /\ heard \in Nat /\ newest \in Nat
      /\ staffCalls[c] \in StaffCall /\ staffCalls[c].number <= newest /\ heard <= queue
  BY DEF StaffInv, StaffTyped, StaffOrder
<1>2. UNCHANGED <<queue, auth, staffRoute, tab, newest, staffPage, staffTimer, staffStream,
                  staffNews, staffPending, staffWakeups, action, submitting, heard>>
  BY DEF Staff!ServeQueue, Staff!QueueFails, Staff!OnlyCall
<1>3. staffUsed' \in [StaffKinds -> Nat]
  <2>1. Staff!QueueFails(c) => staffUsed' \in [StaffKinds -> Nat]
    BY <1>1, StaffSpends DEF Staff!QueueFails, StaffKinds
  <2>2. Staff!ServeQueue(c) => UNCHANGED staffUsed
    BY DEF Staff!ServeQueue
  <2> QED BY <1>1, <2>1, <2>2 DEF StaffTyped
<1>4. PICK r : /\ staffCalls' = [staffCalls EXCEPT ![c] = r]
               /\ \/ r = [staffCalls[c] EXCEPT !.at = "answered", !.answer = queue]
                  \/ r = [staffCalls[c] EXCEPT !.at = "refused"]
                  \/ r = [staffCalls[c] EXCEPT !.at = "answered", !.warns = TRUE]
                  \/ r = [staffCalls[c] EXCEPT !.at = "answered", !.warns = TRUE, !.answer = 0]
  <2>1. CASE Staff!ServeQueue(c)
    BY <2>1 DEF Staff!ServeQueue
  <2>2. CASE Staff!QueueFails(c)
    <3>1. staffCalls' = [staffCalls EXCEPT ![c].at = "answered", ![c].warns = TRUE,
                                           ![c].answer = 0]
      BY <2>2 DEF Staff!QueueFails
    <3>2. PICK r : r = [staffCalls[c] EXCEPT !.at = "answered", !.warns = TRUE, !.answer = 0]
      OBVIOUS
    <3>3. staffCalls' = [staffCalls EXCEPT ![c] = r]
      BY <1>1, <3>1, <3>2 DEF StaffTyped
    <3> QED BY <3>2, <3>3
  <2> QED BY <2>1, <2>2
<1>5. /\ r \in StaffCall /\ r.number = staffCalls[c].number
      /\ r.at = "answered" /\ ~r.warns => r.answer = queue
  <2>1. CASE r = [staffCalls[c] EXCEPT !.at = "answered", !.answer = queue]
    BY <1>1, <2>1 DEF StaffCall
  <2>2. CASE r = [staffCalls[c] EXCEPT !.at = "refused"]
    BY <1>1, <2>2 DEF StaffCall
  <2>3. CASE r = [staffCalls[c] EXCEPT !.at = "answered", !.warns = TRUE]
    BY <1>1, <2>3 DEF StaffCall
  <2>4. CASE r = [staffCalls[c] EXCEPT !.at = "answered", !.warns = TRUE, !.answer = 0]
    BY <1>1, <2>4 DEF StaffCall
  <2> QED BY <1>4, <2>1, <2>2, <2>3, <2>4
<1>6. r.number <= newest /\ Timely(r, newest, heard)
  BY <1>1, <1>5 DEF Timely
<1>7. /\ staffCalls' \in [Slots -> StaffCall]
      /\ \A d \in Slots : staffCalls'[d] = IF d = c THEN r ELSE staffCalls[d]
  BY <1>1, <1>4, <1>5, OneStaffCall
<1>8. StaffTyped'
  BY <1>1, <1>2, <1>3, <1>7 DEF StaffTyped
<1>9. queue' >= queue /\ (action'.at = "done" => action'.version <= queue')
  BY <1>1, <1>2 DEF StaffInv, StaffOrder
<1>10. StaffOrder'
  BY <1>1, <1>2, <1>6, <1>7, <1>9, SameNumber
<1> QED BY <1>2, <1>8, <1>10, NothingShown DEF StaffInv, StaffKept

LEMMA RefreshFailsKeeps ==
  ASSUME StaffInv, UNCHANGED venue, NEW c \in Slots, Staff!RefreshFails(c)
  PROVE  StaffKept
<1>1. StaffTyped /\ queue \in Nat
  BY DEF StaffInv, StaffTyped
<1>2. /\ UNCHANGED <<queue, auth, staffRoute, tab, newest, staffPage, staffStream, staffNews,
                     staffPending, staffWakeups, action, submitting, heard>>
      /\ Staff!End(c)
  BY DEF Staff!RefreshFails, Staff!OnlyCall
<1>3. staffUsed' \in [StaffKinds -> Nat]
  BY <1>1, StaffSpends DEF Staff!RefreshFails, StaffKinds
<1>4. staffTimer' \in StaffTimer
  BY StaffConstants DEF Staff!RefreshFails, StaffTimer
<1>5. staffCalls' \in [Slots -> StaffCall]
  BY <1>1, <1>2, StaffEnding
<1>6. StaffTyped'
  BY <1>1, <1>2, <1>3, <1>4, <1>5 DEF StaffTyped
<1>7. queue' >= queue /\ (action'.at = "done" => action'.version <= queue')
  BY <1>1, <1>2 DEF StaffInv, StaffOrder
<1>8. StaffOrder'
  BY <1>1, <1>2, <1>7, EndedInOrder, SameNumber
<1> QED BY <1>2, <1>6, <1>8, NothingShown DEF StaffInv, StaffKept

LEMMA RenderRefusedKeeps ==
  ASSUME StaffInv, UNCHANGED venue, NEW c \in Slots, Staff!RenderRefused(c)
  PROVE  StaffKept
<1>1. StaffTyped /\ queue \in Nat
  BY DEF StaffInv, StaffTyped
<1>2. /\ UNCHANGED <<queue, tab, newest, staffWakeups, action, submitting, heard, staffUsed>>
      /\ auth' = "none" /\ Staff!ToLogin /\ Staff!End(c)
  BY DEF Staff!RenderRefused, Staff!OnlyCall
<1>3. staffCalls' \in [Slots -> StaffCall]
  BY <1>1, <1>2, StaffEnding
<1>4. /\ staffRoute' \in {"dashboard", "login", "venue"}
      /\ staffPage' \in StaffPage /\ staffPage'.kind = "other" /\ staffTimer' \in StaffTimer
      /\ staffStream' \in {"none", "connecting", "open", "down"}
      /\ staffNews' \in Nat /\ staffPending' \in BOOLEAN
  BY <1>1, <1>2, LoginShown
<1>5. StaffTyped'
  BY <1>1, <1>2, <1>3, <1>4 DEF StaffTyped
<1>6. queue' >= queue /\ (action'.at = "done" => action'.version <= queue')
  BY <1>1, <1>2 DEF StaffInv, StaffOrder
<1>7. StaffOrder'
  BY <1>1, <1>2, <1>6, EndedInOrder, SameNumber
<1> QED BY <1>4, <1>5, <1>7, NothingShown DEF StaffInv, StaffKept

\* What is drawn is an answer with the number of now.
LEMMA StaffAnswersKeep ==
  ASSUME StaffInv, UNCHANGED venue, NEW c \in Slots,
         Staff!RenderAnswer(c) \/ Staff!RefreshAnswer(c)
  PROVE  StaffKept
<1> DEFINE r == staffCalls[c]
<1>1. StaffTyped /\ queue \in Nat /\ r \in StaffCall
  BY DEF StaffInv, StaffTyped
<1>2. /\ UNCHANGED <<queue, auth, staffRoute, tab, newest, staffWakeups, action, submitting,
                     heard, staffUsed>>
      /\ Staff!End(c) /\ r.at = "answered"
  BY DEF Staff!RenderAnswer, Staff!RefreshAnswer, Staff!OnlyCall, Staff!CallAt
<1>3. \/ UNCHANGED <<staffPage, staffTimer, staffStream, staffNews, staffPending>>
      \/ /\ r.number = newest /\ Staff!Show(c) /\ Staff!EnsureStaffRealtime
         /\ Staff!SetRefresh(c) \/ staffTimer' = Staff!NoTimer
  BY DEF Staff!RenderAnswer, Staff!RefreshAnswer, Staff!ShouldApply
<1>4. staffCalls' \in [Slots -> StaffCall]
  BY <1>1, <1>2, StaffEnding
<1>5. queue' >= queue /\ (action'.at = "done" => action'.version <= queue')
  BY <1>1, <1>2 DEF StaffInv, StaffOrder
<1>6. StaffOrder'
  BY <1>1, <1>2, <1>5, EndedInOrder, SameNumber
<1>7. CASE UNCHANGED <<staffPage, staffTimer, staffStream, staffNews, staffPending>>
  <2>1. StaffTyped'
    BY <1>1, <1>2, <1>4, <1>7 DEF StaffTyped
  <2> QED BY <1>6, <1>7, <2>1, NothingShown DEF StaffInv, StaffKept
<1>8. CASE /\ r.number = newest /\ Staff!Show(c) /\ Staff!EnsureStaffRealtime
           /\ Staff!SetRefresh(c) \/ staffTimer' = Staff!NoTimer
  <2>1. /\ staffStream' \in {"none", "connecting", "open", "down"}
        /\ staffNews' \in Nat /\ staffPending' \in BOOLEAN
    BY <1>1, <1>8, StaffStreamEnsured
  <2>2. staffPage' \in StaffPage /\ staffPage'.version = r.answer /\ staffPage'.warns = r.warns
    BY <1>1, <1>8 DEF Staff!Show, StaffPage, StaffCall
  <2>3. staffTimer' \in StaffTimer
    <3>1. [at |-> "refresh", tab |-> r.tab, number |-> r.number] \in StaffTimer
      BY <1>1 DEF StaffTimer, StaffCall
    <3> QED BY <1>8, <3>1, StaffConstants DEF Staff!SetRefresh
  <2>4. StaffTyped'
    BY <1>1, <1>2, <1>4, <2>1, <2>2, <2>3 DEF StaffTyped
  <2>5. auth # "none" => Timely(r, newest, heard)
    BY DEF StaffInv, StaffOrder
  <2>6. ShownStep
    BY <1>2, <1>8, <2>2, <2>5 DEF ShownStep, Timely
  <2> QED BY <1>6, <2>4, <2>6 DEF StaffInv, StaffKept
<1> QED BY <1>3, <1>7, <1>8

-----------------------------------------------------------------------------
(* StaffScreen: the host *)

\* A rendering that starts, of a host's step that hears nothing.
LEMMA HostRenders ==
  ASSUME StaffInv, UNCHANGED <<venue, queue, auth, staffWakeups, heard>>,
         NEW t \in Tabs, Staff!RenderDashboard(t, "host", newest),
         tab' \in Tabs, submitting' \in BOOLEAN, action' \in StaffAction,
         action'.at = "done" => action'.version <= queue',
         staffUsed' \in [StaffKinds -> Nat]
  PROVE  StaffKept
<1>1. StaffTyped /\ heard' <= queue'
  BY DEF StaffInv, StaffTyped, StaffOrder
<1>2. /\ newest' \in Nat /\ staffCalls' \in [Slots -> StaffCall]
      /\ staffRoute' \in {"dashboard", "login", "venue"}
      /\ staffPage' \in StaffPage /\ staffTimer' \in StaffTimer
      /\ staffStream' \in {"none", "connecting", "open", "down"}
      /\ staffNews' \in Nat /\ staffPending' \in BOOLEAN
      /\ StaffOrder' /\ ShownStep
  BY <1>1, DashboardRendered
<1>3. StaffTyped'
  BY <1>1, <1>2 DEF StaffTyped
<1> QED BY <1>2, <1>3 DEF StaffInv, StaffKept

LEMMA ClickTabKeeps ==
  ASSUME StaffInv, UNCHANGED venue, NEW t \in Tabs, Staff!ClickTab(t)
  PROVE  StaffKept
<1>1. UNCHANGED <<venue, queue, auth, staffWakeups, heard>> /\ UNCHANGED <<action, submitting>>
  BY DEF Staff!ClickTab, Staff!OnlyHost
<1>2. tab' = t /\ Staff!RenderDashboard(t, "host", newest)
  BY DEF Staff!ClickTab
<1>3. staffUsed' \in [StaffKinds -> Nat]
  BY StaffSpends DEF Staff!ClickTab, StaffKinds, StaffInv
<1>4. submitting' \in BOOLEAN /\ action' \in StaffAction
      /\ (action'.at = "done" => action'.version <= queue')
  BY <1>1 DEF StaffInv, StaffTyped, StaffOrder
<1> QED BY <1>1, <1>2, <1>3, <1>4, HostRenders

LEMMA SentAction ==
  ASSUME NEW kind \in {"row", "seat"}, NEW n \in Nat
  PROVE  /\ [Staff!NoAction EXCEPT !.at = "sent"] \in StaffAction
         /\ [Staff!NoAction EXCEPT !.at = "sent"].at = "sent"
         /\ [Staff!NoAction EXCEPT !.kind = kind, !.at = "sent", !.waitsFor = n] \in StaffAction
         /\ [Staff!NoAction EXCEPT !.kind = kind, !.at = "sent", !.waitsFor = n].at = "sent"
BY StaffConstants DEF StaffAction

\* An action of a row outdates what is under way.
LEMMA RowActionKeeps ==
  ASSUME StaffInv, UNCHANGED venue, Staff!RowAction
  PROVE  StaffKept
<1>1. StaffTyped /\ newest \in Nat /\ heard <= queue
  BY DEF StaffInv, StaffTyped, StaffOrder
<1>2. /\ UNCHANGED <<queue, auth, staffRoute, tab, staffPage, staffStream, staffNews,
                     staffPending, staffWakeups, staffCalls, submitting, heard>>
      /\ newest' = newest + 1 /\ staffTimer' = Staff!NoTimer
      /\ action' = [Staff!NoAction EXCEPT !.at = "sent"]
  BY DEF Staff!RowAction, Staff!OnlyHost
<1>3. action' \in StaffAction /\ action'.at = "sent"
  BY <1>2, SentAction
<1>4. staffUsed' \in [StaffKinds -> Nat]
  BY <1>1, StaffSpends DEF Staff!RowAction, StaffKinds
<1>5. newest' \in Nat
  BY <1>1, <1>2
<1>6. StaffTyped'
  BY <1>1, <1>2, <1>3, <1>4, <1>5, StaffConstants DEF StaffTyped
<1>7. StaffOrder'
  <2>1. heard' <= queue'
    BY <1>1, <1>2
  <2>2. \A c \in Slots : staffCalls'[c] = staffCalls[c]
    BY <1>2
  <2> QED BY <1>2, <1>3, <2>1, <2>2, NextNumber
<1> QED BY <1>2, <1>6, <1>7, NothingShown DEF StaffInv, StaffKept

LEMMA SeatActionKeeps ==
  ASSUME StaffInv, UNCHANGED venue, Staff!SeatAction
  PROVE  StaffKept
<1>1. StaffTyped /\ newest + 1 \in Nat /\ tab \in Tabs
  BY DEF StaffInv, StaffTyped
<1>2. /\ UNCHANGED <<venue, queue, auth, staffWakeups, heard>> /\ UNCHANGED tab
      /\ submitting' = TRUE /\ Staff!RenderDashboard(tab, "host", newest)
      /\ action' = [Staff!NoAction EXCEPT !.kind = "seat", !.at = "sent", !.waitsFor = newest + 1]
  BY DEF Staff!SeatAction, Staff!OnlyHost
<1>3. action' \in StaffAction /\ action'.at = "sent"
  BY <1>1, <1>2, SentAction
<1>4. staffUsed' \in [StaffKinds -> Nat]
  BY <1>1, StaffSpends DEF Staff!SeatAction, StaffKinds
<1> QED BY <1>1, <1>2, <1>3, <1>4, HostRenders

\* The action and the version of the queue that holds it.
LEMMA ServeActionKeeps ==
  ASSUME StaffInv, UNCHANGED venue, Staff!ServeAction
  PROVE  StaffKept
<1>1. /\ StaffTyped /\ queue \in Nat /\ action \in StaffAction /\ auth \in {"none", "old", "good"}
      /\ staffStream \in {"none", "connecting", "open", "down"} /\ staffPending \in BOOLEAN
      /\ staffWakeups \in Nat /\ staffUsed \in [StaffKinds -> Nat] /\ staffNews \in Nat
  BY DEF StaffInv, StaffTyped
<1>2. StaffScreenStill /\ UNCHANGED <<auth, staffStream, staffPending, staffWakeups, staffUsed>>
  BY DEF Staff!ServeAction, StaffScreenStill
<1>3. CASE /\ Staff!QueueChanges
           /\ action' = [action EXCEPT !.at = "done", !.version = queue + 1]
  <2>1. queue' \in Nat /\ queue' >= queue /\ queue' = queue + 1 /\ staffNews' \in Nat
    BY <1>1, <1>3, QueueChangesTyped
  <2>2. queue + 1 \in Nat
    BY <1>1
  <2>3. action' \in StaffAction /\ action'.version = queue + 1
    BY <1>1, <1>3, <2>2 DEF StaffAction
  <2>4. action'.version <= queue'
    BY <2>1, <2>2, <2>3
  <2> QED BY <1>1, <1>2, <2>1, <2>3, <2>4, ScreenIsStill
<1>4. CASE action' = [action EXCEPT !.at = "failed"] /\ UNCHANGED <<queue, staffNews>>
  <2>1. action' \in StaffAction /\ action'.at = "failed"
    BY <1>1, <1>4 DEF StaffAction
  <2>2. queue' >= queue
    BY <1>1, <1>4
  <2> QED BY <1>1, <1>2, <1>4, <2>1, <2>2, ScreenIsStill
<1> QED BY <1>3, <1>4 DEF Staff!ServeAction

\* The answer is heard together with the number that outdates what is under way.
LEMMA HearActionKeeps ==
  ASSUME StaffInv, UNCHANGED venue, Staff!HearAction
  PROVE  StaffKept
<1>1. /\ StaffTyped /\ queue \in Nat /\ action \in StaffAction /\ heard \in Nat
      /\ heard <= queue /\ (action.at = "done" => action.version <= queue)
  BY DEF StaffInv, StaffTyped, StaffOrder
<1>2. /\ UNCHANGED <<queue, auth, staffWakeups, staffUsed>> /\ action' = Staff!NoAction
      /\ heard' = IF action.at = "done" THEN action.version ELSE heard
      /\ submitting' = (submitting /\ action.kind # "seat")
  BY DEF Staff!HearAction
<1>3. heard' \in Nat /\ heard' <= queue'
  BY <1>1, <1>2 DEF StaffAction
<1>4. tab' \in Tabs
  <2>1. tab' \in {"seat", tab} /\ tab \in Tabs
    BY <1>1 DEF Staff!HearAction, StaffTyped
  <2> QED BY <2>1, TabAssumption
<1>5. PICK t \in Tabs : t = tab'
  BY <1>4
<1>6. Staff!RenderDashboard(t, "host", newest)
  BY <1>5 DEF Staff!HearAction
<1>7. action' \in StaffAction /\ (action'.at = "done" => action'.version <= queue')
  BY <1>2, StaffConstants
<1>8. /\ newest' \in Nat /\ staffCalls' \in [Slots -> StaffCall]
      /\ staffRoute' \in {"dashboard", "login", "venue"}
      /\ staffPage' \in StaffPage /\ staffTimer' \in StaffTimer
      /\ staffStream' \in {"none", "connecting", "open", "down"}
      /\ staffNews' \in Nat /\ staffPending' \in BOOLEAN
      /\ StaffOrder' /\ ShownStep
  BY <1>2, <1>3, <1>6, <1>7, DashboardRendered
<1>9. StaffTyped'
  BY <1>1, <1>2, <1>3, <1>4, <1>7, <1>8 DEF StaffTyped
<1> QED BY <1>8, <1>9 DEF StaffInv, StaffKept

LEMMA LogoutKeeps ==
  ASSUME StaffInv, UNCHANGED venue, Staff!Logout
  PROVE  StaffKept
<1>1. StaffTyped /\ queue \in Nat
  BY DEF StaffInv, StaffTyped
<1>2. /\ UNCHANGED <<queue, tab, newest, staffWakeups, staffCalls, action, submitting, heard>>
      /\ auth' = "none" /\ Staff!ToLogin
  BY DEF Staff!Logout, Staff!OnlyHost
<1>3. staffUsed' \in [StaffKinds -> Nat]
  BY <1>1, StaffSpends DEF Staff!Logout, StaffKinds
<1>4. /\ staffRoute' \in {"dashboard", "login", "venue"}
      /\ staffPage' \in StaffPage /\ staffPage'.kind = "other" /\ staffTimer' \in StaffTimer
      /\ staffStream' \in {"none", "connecting", "open", "down"}
      /\ staffNews' \in Nat /\ staffPending' \in BOOLEAN
  BY <1>1, <1>2, LoginShown
<1>5. StaffTyped'
  BY <1>1, <1>2, <1>3, <1>4 DEF StaffTyped
<1>6. StaffOrder'
  BY <1>2 DEF StaffInv, StaffOrder
<1> QED BY <1>4, <1>5, <1>6, NothingShown DEF StaffInv, StaffKept

\* The dashboard is opened: after a login, or back from another page.
LEMMA OpenKeeps ==
  ASSUME StaffInv, UNCHANGED venue, Staff!Login \/ Staff!Return
  PROVE  StaffKept
<1> DEFINE r == [Staff!NoCall EXCEPT !.at = "queue", !.tab = tab, !.number = newest + 1]
<1>1. StaffTyped /\ newest \in Nat /\ newest + 1 \in Nat /\ tab \in Tabs /\ heard <= queue
  BY DEF StaffInv, StaffTyped, StaffOrder
<1>2. /\ UNCHANGED <<queue, tab, staffPage, staffStream, staffNews, staffPending, staffWakeups,
                     action, submitting, heard>>
      /\ newest' = newest + 1 /\ staffTimer' = Staff!NoTimer /\ staffRoute' = "dashboard"
      /\ auth' \in {"good", auth}
  BY DEF Staff!Login, Staff!Return, Staff!OnlyHost
<1>3. PICK c \in Staff!FreeSlots : staffCalls' = [staffCalls EXCEPT ![c] = r]
  BY DEF Staff!Login, Staff!Return
<1>4. r \in StaffCall /\ r.at = "queue" /\ r.number = newest + 1
  BY <1>1, StaffConstants DEF StaffCall
<1> HIDE DEF r
<1>5. c \in Slots
  BY <1>3, StaffConstants
<1>6. /\ staffCalls' \in [Slots -> StaffCall]
      /\ \A d \in Slots : staffCalls'[d] = IF d = c THEN r ELSE staffCalls[d]
  BY <1>1, <1>3, <1>4, <1>5, OneStaffCall
<1>7. staffUsed' \in [StaffKinds -> Nat]
  BY <1>1, StaffSpends DEF Staff!Login, Staff!Return, StaffKinds
<1>8. StaffTyped'
  BY <1>1, <1>2, <1>6, <1>7, StaffConstants DEF StaffTyped
<1>9. heard' <= queue' /\ (action'.at = "done" => action'.version <= queue')
  BY <1>2 DEF StaffInv, StaffOrder
<1>10. r.number <= newest + 1
  BY <1>1, <1>4
<1>11. StaffOrder'
  BY <1>2, <1>4, <1>6, <1>9, <1>10, NextNumber
<1> QED BY <1>2, <1>8, <1>11, NothingShown DEF StaffInv, StaffKept

LEMMA LeaveKeeps ==
  ASSUME StaffInv, UNCHANGED venue, Staff!Leave
  PROVE  StaffKept
<1>1. StaffTyped /\ queue \in Nat
  BY DEF StaffInv, StaffTyped
<1>2. /\ UNCHANGED <<queue, auth, tab, newest, staffWakeups, staffCalls, action, submitting,
                     heard>>
      /\ staffRoute' = "venue" /\ staffPage' = [staffPage EXCEPT !.kind = "other"]
      /\ staffTimer' = Staff!NoTimer
      /\ staffStream' = "none" /\ staffNews' = 0 /\ staffPending' = FALSE
  BY DEF Staff!Leave, Staff!OnlyHost, Staff!CloseStaffRealtime
<1>3. staffUsed' \in [StaffKinds -> Nat]
  BY <1>1, StaffSpends DEF Staff!Leave, StaffKinds
<1>4. staffPage' \in StaffPage /\ staffPage'.kind = "other"
  BY <1>1, <1>2 DEF StaffTyped, StaffPage
<1>5. StaffTyped'
  BY <1>1, <1>2, <1>3, <1>4, StaffConstants DEF StaffTyped
<1>6. StaffOrder'
  BY <1>2 DEF StaffInv, StaffOrder
<1> QED BY <1>4, <1>5, <1>6, NothingShown DEF StaffInv, StaffKept

LEMMA StaffInvNext ==
  ASSUME StaffInv, UNCHANGED venue, Staff!Next
  PROVE  StaffKept
<1>1. CASE Staff!Program
  BY <1>1, StaffConstants, StaffServedKeeps, RenderRefusedKeeps, StaffAnswersKeep,
     StaffRefreshKeeps, RouteTimerKeeps DEF Staff!Program
<1>2. CASE Staff!Acting
  BY <1>2, ServeActionKeeps, HearActionKeeps DEF Staff!Acting
<1>3. CASE Staff!Faults
  BY <1>3, StaffConstants, StaffStreamKeeps, StaffServerKeeps, StaffServedKeeps,
     RefreshFailsKeeps DEF Staff!Faults
<1>4. CASE Staff!Host
  BY <1>4, ClickTabKeeps, RowActionKeeps, SeatActionKeeps, LogoutKeeps, OpenKeeps, LeaveKeeps
     DEF Staff!Host
<1> QED BY <1>1, <1>2, <1>3, <1>4, StaffStreamKeeps, StaffServerKeeps DEF Staff!Next

LEMMA StaffIsStill ==
  ASSUME StaffInv, GuestInv', UNCHANGED staffVars
  PROVE  StaffKept
<1>1. StaffTyped /\ StaffOrder /\ venue' \in [queueOnly: BOOLEAN, sse: BOOLEAN]
  BY DEF StaffInv, GuestInv, TypeOK
<1>2. StaffTyped'
  BY <1>1 DEF staffVars, StaffTyped
<1>3. StaffOrder'
  BY <1>1 DEF staffVars, StaffOrder
<1> QED BY <1>2, <1>3, NothingShown DEF staffVars, StaffInv, StaffKept

LEMMA StaffInvInit ==
  ASSUME GuestInv, Staff!Init
  PROVE  StaffInv
<1> DEFINE first == [Staff!NoCall EXCEPT !.at = "queue", !.number = 1]
<1>1. first \in StaffCall /\ first.at = "queue" /\ first.number = 1
  BY StaffConstants DEF StaffCall
<1>2. staffCalls = [c \in Slots |-> IF c = 1 THEN first ELSE Staff!NoCall]
  BY StaffConstants DEF Staff!Init
<1> HIDE DEF first
<1>3. \A c \in Slots : staffCalls[c] \in {first, Staff!NoCall}
  BY <1>2
<1>4. staffCalls \in [Slots -> StaffCall]
  BY <1>1, <1>2, StaffConstants
<1>5. queue = 0 /\ heard = 0 /\ newest = 1 /\ action = Staff!NoAction
  BY DEF Staff!Init
<1>6. StaffOrder
  <2>1. \A c \in Slots : staffCalls[c].number <= newest /\ staffCalls[c].at # "answered"
    BY <1>1, <1>3, <1>5, StaffConstants
  <2> QED BY <1>5, <2>1, StaffConstants DEF StaffOrder, Timely
<1>7. staffPage \in StaffPage
  BY TabAssumption DEF Staff!Init, StaffPage
<1>8. StaffTyped
  <2>1. venue.sse \in BOOLEAN /\ auth = "good" /\ staffRoute = "dashboard" /\ tab \in Tabs
    BY TabAssumption DEF Staff!Init
  <2>2. submitting = FALSE /\ staffPending = FALSE /\ staffNews = 0 /\ staffWakeups = 0
        /\ staffStream = "none" /\ staffTimer = Staff!NoTimer
    BY DEF Staff!Init
  <2>3. staffUsed \in [StaffKinds -> Nat]
    BY DEF Staff!Init, Staff!Kinds, StaffKinds
  <2> QED BY <1>4, <1>5, <1>7, <2>1, <2>2, <2>3, StaffConstants DEF StaffTyped
<1> QED BY <1>6, <1>8 DEF StaffInv

-----------------------------------------------------------------------------
(* Both screens *)

ScreensInv == GuestInv /\ StaffInv /\ watched \in {"guest", "staff"}

LEMMA ScreensInvNext ==
  ASSUME ScreensInv, [ScreensNext]_allVars
  PROVE  ScreensInv' /\ ShownStep
<1>1. GuestInv /\ StaffInv
  BY DEF ScreensInv
<1>2. CASE OfGuest(Next)
  BY <1>1, <1>2, GuestInvNext, StaffIsStill DEF OfGuest, ScreensInv, StaffKept
<1>3. CASE OfStaff(Staff!Next)
  <2>1. UNCHANGED vars /\ UNCHANGED venue
    BY <1>3 DEF OfStaff, vars
  <2> QED BY <1>1, <1>3, <2>1, GuestIsStill, StaffInvNext DEF OfStaff, ScreensInv, StaffKept
<1>4. CASE UNCHANGED allVars
  <2>1. UNCHANGED vars /\ UNCHANGED staffVars /\ UNCHANGED watched
    BY <1>4 DEF allVars
  <2> QED BY <1>1, <2>1, GuestIsStill, StaffIsStill DEF ScreensInv, StaffKept
<1> QED BY <1>2, <1>3, <1>4 DEF ScreensNext

LEMMA ScreensInvHolds == ScreensSpec => []ScreensInv
<1>1. ScreensInit => ScreensInv
  BY GuestInvInit, StaffInvInit DEF ScreensInit, ScreensInv
<1>2. ScreensInv /\ [ScreensNext]_allVars => ScreensInv'
  BY ScreensInvNext
<1> QED BY <1>1, <1>2, PTL DEF ScreensSpec

\* Both screens stay of their types, whatever overtakes what.
THEOREM ScreensKeepTypes == ScreensSpec => []ScreensTypeOK
<1>1. ScreensInv => ScreensTypeOK
  BY StaffTypes DEF ScreensInv, GuestInv, StaffInv, ScreensTypeOK
<1> QED BY <1>1, ScreensInvHolds, PTL

\* A page that shows a guest as waiting or called has a timer or a call that
\* looks after it (refreshGuestLiveView, renderGuestEntry, the error pages).
THEOREM LivePagesAreWatched == ScreensSpec => []LiveIsWatched
<1>1. ScreensInv => LiveIsWatched
  BY DEF ScreensInv, GuestInv
<1> QED BY <1>1, ScreensInvHolds, PTL

\* Nothing drawn after the host was told that an action is done shows the queue
\* from before it (staffDashboardRefreshToken, shouldApplyStaffLiveRefresh).
THEOREM HostSeesOwnActions == ScreensSpec => OwnActionShown
<1>1. ASSUME ScreensInv, [ScreensNext]_allVars
      PROVE  [ShownStep]_(Staff!vars)
  BY <1>1, ScreensInvNext
<1> QED BY <1>1, ScreensInvHolds, PTL
        DEF ScreensSpec, OwnActionShown, Staff!OwnActionShown, ShownStep
=============================================================================
