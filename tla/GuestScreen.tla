----------------------------- MODULE GuestScreen -----------------------------
(***************************************************************************)
(* The page of a guest in the queue (renderGuestEntry, refreshGuestLiveView *)
(* of web/app.js), what keeps it up to date (one timer, and the stream of  *)
(* realtime.service.ts at venues that use it) and the guest session it     *)
(* asks with (middleware/auth.ts, guestAccessLink.service.ts,              *)
(* reissueGuestSession).                                                   *)
(*                                                                         *)
(* An async function of the page is a call.  Calls overlap: the timer, an  *)
(* event and the guest may each start one, their requests are answered in  *)
(* any order and what a call draws replaces what is on the screen.  Events *)
(* reach the streams that are connected when they are published and no     *)
(* others.                                                                 *)
(*                                                                         *)
(* Left out: the delays, the bill and the party session that a seated page *)
(* loads before it is drawn (see PartyBucket), the payment buttons, the    *)
(* pages of other routes.                                                  *)
(***************************************************************************)
EXTENDS Naturals, FiniteSets

CONSTANTS
  MaxCalls,   \* bound: calls of the page at a time
  Limits,     \* bounds: of each kind of event in a behaviour
  MaxEvents   \* bound: of all of them together

Kinds == {"moves", "faults", "visits", "sheets", "expiries"}

ASSUME LimitsAssumption == Limits \in [Kinds -> Nat]
ASSUME BoundAssumption == {MaxCalls, MaxEvents} \subseteq Nat

VARIABLES
  venue,    \* configuration: queueOnly, sse (realtimeMode SSE_V1)
  entry,    \* QueueEntry.status; CLOSED stands for the three that end it
  over,     \* closed longer than READ_ONLY_SESSION_WINDOW_MS ago
  token,    \* the guest token kept on the device; an old one is refused
  link,     \* the address carries ?access=
  route,    \* the address: the entry, its pre-order, another page
  page,     \* what is drawn, and the status it shows
  timer,    \* uiState.timerId: the refresh, or renderRoute after an error
  muted,    \* openShareSheet cleared the timer and none was set since
  sheet,    \* shareSheetOpen
  stream,   \* guestRealtimeSource and its connection, with the token it uses
  news,     \* events written to the stream and not read yet
  pending,  \* guestRealtimeRefreshPending
  wakeups,  \* its timeouts that have not fired
  calls,    \* renderGuestEntry and refreshGuestLiveView under way
  used      \* how much of the bounds is spent

vars == <<venue, entry, over, token, link, route, page, timer, muted, sheet, stream,
          news, pending, wakeups, calls, used>>
server == <<venue, entry, over>>

Spent == used["moves"] + used["faults"] + used["visits"] + used["sheets"] + used["expiries"]
Spend(kind) ==
  /\ used[kind] < Limits[kind] /\ Spent < MaxEvents
  /\ used' = [used EXCEPT ![kind] = @ + 1]

Statuses == {"WAITING", "NOTIFIED", "SEATED", "CLOSED"}
Live == {"WAITING", "NOTIFIED"}
Tokens == {"none", "old", "good"}
Slots == 1..MaxCalls

\* by: whether the guest or a timer started the call (it decides what an error
\* does); redeemed: it has already redeemed the access link.
NoCall == [kind |-> "render", at |-> "idle", token |-> "none", by |-> "guest",
           redeemed |-> FALSE, answer |-> "WAITING"]
NoStream == [at |-> "none", token |-> "none"]

TypeOK ==
  /\ venue \in [queueOnly: BOOLEAN, sse: BOOLEAN]
  /\ entry \in Statuses /\ over \in BOOLEAN
  /\ token \in Tokens /\ link \in BOOLEAN
  /\ route \in {"entry", "preorder", "venue"}
  /\ page \in [kind: {"blank", "recover", "entry", "retry", "fatal", "other"}, status: Statuses]
  /\ timer \in {"off", "refresh", "route"}
  /\ muted \in BOOLEAN /\ sheet \in BOOLEAN
  /\ stream \in [at: {"none", "connecting", "open", "down"}, token: Tokens]
  /\ news \in Nat /\ pending \in BOOLEAN /\ wakeups \in Nat
  /\ calls \in [Slots -> [kind: {"render", "refresh"}, by: {"guest", "timer"},
                          at: {"idle", "venue", "redeem", "entry", "answered", "refused"},
                          token: Tokens, redeemed: BOOLEAN, answer: Statuses]]
  /\ used \in [Kinds -> Nat]

Init ==
  /\ venue \in [queueOnly: BOOLEAN, sse: BOOLEAN]
  /\ entry = "WAITING" /\ over = FALSE
  /\ token \in {"none", "good"} /\ link = (token = "none")
  /\ route = "entry" /\ page = [kind |-> "blank", status |-> "WAITING"]
  /\ timer = "off" /\ muted = FALSE /\ sheet = FALSE
  /\ stream = NoStream /\ news = 0 /\ pending = FALSE /\ wakeups = 0
  /\ calls = [c \in Slots |-> IF c = 1
       THEN [NoCall EXCEPT !.at = "venue", !.token = token] ELSE NoCall]
  /\ used = [kind \in Kinds |-> 0]

-----------------------------------------------------------------------------
(* The server *)

\* resolveGuestAccessModeFromQueueEntry: an ended entry can be read for a while.
Accessible == entry # "CLOSED" \/ ~over

\* loadGuestAuthContext
Accepted(t) == t = "good" /\ Accessible

\* publishQueueRealtimeEvent
Publish == news' = IF stream.at = "open" THEN news + 1 ELSE news

\* The bulk clears and a table that is set free tell the entry's stream nothing.
EntryMoves ==
  /\ Spend("moves")
  /\ \/ entry = "WAITING" /\ entry' \in {"NOTIFIED", "SEATED", "CLOSED"}
     \/ entry = "NOTIFIED" /\ entry' \in {"SEATED", "CLOSED"}
     \/ entry = "SEATED" /\ entry' = "CLOSED"
  /\ Publish \/ (entry' = "CLOSED" /\ UNCHANGED news)
  /\ UNCHANGED <<venue, over, token, link, route, page, timer, muted, sheet, stream,
                 pending, wakeups, calls>>

WindowEnds ==
  /\ entry = "CLOSED" /\ ~over /\ over' = TRUE /\ Spend("expiries")
  /\ UNCHANGED <<venue, entry, token, link, route, page, timer, muted, sheet, stream,
                 news, pending, wakeups, calls>>

\* The token's own term ends (GUEST_JWT_EXPIRES_IN).
TokenExpires ==
  LET Aged(t) == IF t = "good" THEN "old" ELSE t
  IN /\ Spend("expiries")
     /\ token = "good" /\ token' = "old"
     /\ stream' = [stream EXCEPT !.token = Aged(@)]
     /\ calls' = [c \in Slots |-> [calls[c] EXCEPT !.token = Aged(@)]]
     /\ UNCHANGED <<server, link, route, page, timer, muted, sheet, news, pending, wakeups>>

-----------------------------------------------------------------------------
(* The stream *)

\* streamGuestEntry registers the client, or refuses it.
StreamConnects ==
  /\ stream.at = "connecting"
  /\ stream' = [stream EXCEPT !.at = IF Accepted(stream.token) THEN "open" ELSE "down"]
  /\ UNCHANGED <<server, token, link, route, page, timer, muted, sheet, news, pending,
                 wakeups, calls, used>>

\* The connection ends, the server restarts: what was not read is lost.
StreamDrops ==
  /\ stream.at \in {"connecting", "open"} /\ Spend("faults")
  /\ stream' = [stream EXCEPT !.at = "down"] /\ news' = 0
  /\ UNCHANGED <<server, token, link, route, page, timer, muted, sheet, pending, wakeups,
                 calls>>

StreamRetries ==
  /\ stream.at = "down" /\ stream' = [stream EXCEPT !.at = "connecting"]
  /\ UNCHANGED <<server, token, link, route, page, timer, muted, sheet, news, pending,
                 wakeups, calls, used>>

\* getCurrentGuestRouteContext: the address of the pre-order counts too.
OnGuestRoute == route # "venue"

\* Variant: the keep-alive of the server is taken for an event.
QueueUpdateOfAny ==
  /\ stream.at = "open" /\ news' = news - 1
  /\ IF OnGuestRoute /\ ~pending
     THEN pending' = TRUE /\ wakeups' = wakeups + 1
     ELSE UNCHANGED <<pending, wakeups>>
  /\ UNCHANGED <<server, token, link, route, page, timer, muted, sheet, stream, calls, used>>

\* handleRealtimeSseBlock and the onQueueUpdate of ensureGuestRealtime.
QueueUpdate ==
  /\ stream.at = "open" /\ news > 0 /\ news' = news - 1
  /\ IF OnGuestRoute /\ ~pending
     THEN pending' = TRUE /\ wakeups' = wakeups + 1
     ELSE UNCHANGED <<pending, wakeups>>
  /\ UNCHANGED <<server, token, link, route, page, timer, muted, sheet, stream, calls, used>>

CloseGuestRealtime == stream' = NoStream /\ news' = 0 /\ pending' = FALSE

\* ensureGuestRealtime: the stream stays when its key (the token) is the same.
EnsureGuestRealtime(t) ==
  IF venue.sse /\ stream.at # "none" /\ stream.token = t
  THEN UNCHANGED <<stream, news, pending>>
  ELSE /\ stream' = IF venue.sse THEN [at |-> "connecting", token |-> t] ELSE NoStream
       /\ news' = 0 /\ pending' = FALSE

-----------------------------------------------------------------------------
(* Starting a call *)

FreeSlots == {c \in Slots : /\ calls[c].at = "idle"
                            /\ \A d \in 1..(c - 1) : calls[d].at # "idle"}
End(c) == calls' = [calls EXCEPT ![c] = NoCall]

\* renderGuestEntry with the session t it reads before anything is awaited.
Render(c, by, t) ==
  calls' = [calls EXCEPT ![c] = [NoCall EXCEPT !.at = "venue", !.token = t, !.by = by]]

\* refreshGuestLiveView up to its request, in a free slot.
StartRefresh ==
  \E c \in FreeSlots :
    IF ~OnGuestRoute THEN UNCHANGED calls
    ELSE IF token = "none" THEN Render(c, "timer", token)
    ELSE calls' = [calls EXCEPT ![c] = [NoCall EXCEPT !.kind = "refresh", !.at = "entry",
                                          !.token = token, !.by = "timer"]]

\* renderRoute: the shell is reset, then the page of the address is rendered
\* (of the other addresses only that they are drawn).
RenderRoute(to, by, t) ==
  /\ sheet' = FALSE /\ CloseGuestRealtime
  /\ IF to = "entry"
     THEN (\E c \in FreeSlots : Render(c, by, t)) /\ UNCHANGED page
     ELSE page' = [page EXCEPT !.kind = "other"] /\ UNCHANGED calls

RefreshTimer ==
  /\ timer = "refresh" /\ timer' = "off"
  /\ StartRefresh
  /\ UNCHANGED <<server, token, link, route, page, muted, sheet, stream, news, pending,
                 wakeups, used>>

RouteTimer ==
  /\ timer = "route" /\ timer' = "off"
  /\ RenderRoute(route, "timer", token)
  /\ UNCHANGED <<server, token, link, route, muted, wakeups, used>>

\* The timeout of an event (one that was set before the stream was closed fires too).
Wakeup ==
  /\ wakeups > 0 /\ wakeups' = wakeups - 1 /\ pending' = FALSE
  /\ StartRefresh
  /\ UNCHANGED <<server, token, link, route, page, timer, muted, sheet, stream, news, used>>

-----------------------------------------------------------------------------
(* A call goes on *)

HasLink == link /\ route = "entry"
CallAt(c, point) == calls[c].at = point
GoOn(c, point) == calls' = [calls EXCEPT ![c].at = point]

Draw(kind, status) == page' = [kind |-> kind, status |-> status]
OnlyDraw == UNCHANGED <<server, token, link, route, muted, sheet, stream, news, pending,
                        wakeups>>
OnlyCall == UNCHANGED <<server, route, page, timer, muted, sheet, stream, news, pending,
                        wakeups>>

\* The page that asks for the seating OTP.
DrawRecover(c) == Draw("recover", page.status) /\ timer' = "off" /\ End(c)

\* The venue has been loaded.
VenueLoaded(c) ==
  /\ CallAt(c, "venue")
  /\ IF calls[c].token # "none" THEN GoOn(c, "entry") /\ UNCHANGED <<page, timer>>
     ELSE IF HasLink THEN GoOn(c, "redeem") /\ UNCHANGED <<page, timer>>
     ELSE DrawRecover(c)
  /\ UNCHANGED used /\ OnlyDraw

\* redeemGuestAccessToken, redeemQueueAccessLink: any error counts as no session,
\* and after a refused rendering clears the device's once more.
Redeem(c, works) ==
  /\ CallAt(c, "redeem")
  /\ IF works
     THEN /\ token' = "good" /\ link' = FALSE
          /\ calls' = [calls EXCEPT ![c].token = "good", ![c].redeemed = TRUE, ![c].at = "entry"]
          /\ UNCHANGED <<page, timer>>
     ELSE /\ UNCHANGED link
          /\ IF calls[c].token = "none" THEN DrawRecover(c) /\ UNCHANGED token
             ELSE /\ token' = "none" /\ Render(c, calls[c].by, "none")
                  /\ UNCHANGED <<page, timer>>
  /\ UNCHANGED <<server, route, muted, sheet, stream, news, pending, wakeups>>

\* requireGuestAuth, getQueueEntry.
ServeEntry(c) ==
  /\ CallAt(c, "entry")
  /\ calls' = [calls EXCEPT
       ![c].at = IF Accepted(calls[c].token) THEN "answered" ELSE "refused",
       ![c].answer = entry]
  /\ UNCHANGED <<token, link, used>> /\ OnlyCall

\* A failure of the server while it authenticates is answered as a refusal.
AuthFails(c) ==
  /\ CallAt(c, "entry") /\ Spend("faults") /\ GoOn(c, "refused")
  /\ UNCHANGED <<token, link>> /\ OnlyCall

\* handleBackgroundRefreshError
BackgroundError(c) == timer' = "route" /\ End(c) /\ UNCHANGED page

\* A refused rendering clears the session on the device, tries the access link
\* once and starts over.
Refused(c) ==
  /\ CallAt(c, "refused")
  /\ IF calls[c].kind = "refresh"
     THEN BackgroundError(c) /\ UNCHANGED token
     ELSE /\ token' = "none"
          /\ IF HasLink /\ ~calls[c].redeemed THEN GoOn(c, "redeem")
             ELSE Render(c, calls[c].by, "none")
          /\ UNCHANGED <<page, timer>>
  /\ UNCHANGED <<server, link, route, muted, sheet, stream, news, pending, wakeups, used>>

\* Variant: a failed refresh does not set the timer.
CallFailsQuietly(c) ==
  /\ calls[c].at \in {"venue", "entry", "answered", "refused"} /\ Spend("faults")
  /\ IF calls[c].kind = "refresh"
     THEN End(c) /\ UNCHANGED <<page, timer>>
     ELSE IF ~CallAt(c, "venue") THEN Draw("retry", page.status) /\ timer' = "off" /\ End(c)
     ELSE IF calls[c].by = "timer" THEN BackgroundError(c)
     ELSE Draw("fatal", page.status) /\ timer' = "off" /\ End(c)
  /\ OnlyDraw

\* No answer, or an error that is not about the session: a page that offers to
\* retry, handleFatalError, or another try by itself.
CallFails(c) ==
  /\ calls[c].at \in {"venue", "entry", "answered", "refused"} /\ Spend("faults")
  /\ IF calls[c].kind = "refresh" \/ (CallAt(c, "venue") /\ calls[c].by = "timer")
     THEN BackgroundError(c)
     ELSE /\ Draw(IF CallAt(c, "venue") THEN "fatal" ELSE "retry", page.status)
          /\ timer' = "off" /\ End(c)
  /\ OnlyDraw

\* What renderGuestEntry draws, whatever the address is by now; a guest who
\* waits gets the stream and the timer, which an open sheet keeps off.
RenderAnswer(c) ==
  LET status == calls[c].answer
  IN /\ CallAt(c, "answered") /\ calls[c].kind = "render"
     /\ Draw("entry", status) /\ End(c)
     /\ link' = (link /\ route # "entry")
     /\ IF status \in Live
        THEN /\ EnsureGuestRealtime(calls[c].token)
             /\ timer' = (IF sheet THEN "off" ELSE "refresh") /\ muted' = sheet
        ELSE CloseGuestRealtime /\ timer' = "off" /\ UNCHANGED muted
     /\ UNCHANGED <<server, token, route, sheet, wakeups, used>>

\* Variant: a venue with a stream does without the timer.
RefreshAnswerStreamOnly(c) ==
  LET status == calls[c].answer
  IN /\ CallAt(c, "answered") /\ calls[c].kind = "refresh"
     /\ IF ~venue.queueOnly \/ status \notin Live
        THEN Render(c, "timer", token) /\ CloseGuestRealtime /\ UNCHANGED <<page, timer, muted>>
        ELSE IF page.kind # "entry"
        THEN Render(c, "timer", token) /\ UNCHANGED <<page, timer, muted, stream, news, pending>>
        ELSE /\ Draw("entry", status) /\ End(c)
             /\ EnsureGuestRealtime(calls[c].token)
             /\ timer' = (IF venue.sse THEN timer ELSE "refresh") /\ muted' = FALSE
     /\ UNCHANGED <<server, token, link, route, sheet, wakeups, used>>

\* What refreshGuestLiveView does with its answer: only the page of a guest who
\* waits at a queue-only venue is drawn in place.
RefreshAnswer(c) ==
  LET status == calls[c].answer
  IN /\ CallAt(c, "answered") /\ calls[c].kind = "refresh"
     /\ IF ~venue.queueOnly \/ status \notin Live
        THEN Render(c, "timer", token) /\ CloseGuestRealtime /\ UNCHANGED <<page, timer, muted>>
        ELSE IF page.kind # "entry"
        THEN Render(c, "timer", token) /\ UNCHANGED <<page, timer, muted, stream, news, pending>>
        ELSE /\ Draw("entry", status) /\ End(c)
             /\ EnsureGuestRealtime(calls[c].token)
             /\ timer' = "refresh" /\ muted' = FALSE
     /\ UNCHANGED <<server, token, link, route, sheet, wakeups, used>>

-----------------------------------------------------------------------------
(* The guest *)

\* navigate, and the back and forward buttons (which keep the timer).
Visit(to) ==
  /\ Spend("visits") /\ route' = to
  /\ RenderRoute(to, "guest", token)
  /\ timer' \in (IF to = "entry" THEN {"off", timer} ELSE {"off"})
  /\ UNCHANGED <<server, token, link, muted, wakeups>>

\* The button of a page that could not be loaded: the entry again, or after
\* handleFatalError the page of the address.
Retry ==
  /\ Spend("visits")
  /\ \/ /\ page.kind = "retry"
        /\ \E c \in FreeSlots : Render(c, "guest", token)
        /\ UNCHANGED <<page, timer, sheet, stream, news, pending>>
     \/ /\ page.kind = "fatal"
        /\ RenderRoute(route, "guest", token)
        /\ timer' = IF route = "entry" THEN timer ELSE "off"
  /\ UNCHANGED <<server, token, link, route, muted, wakeups>>

\* The OTP form: reissueGuestSession.
RestoreSession ==
  /\ page.kind = "recover" /\ Spend("visits")
  /\ token' = IF Accessible THEN "good" ELSE token
  /\ \E c \in FreeSlots : Render(c, "guest", token')
  /\ UNCHANGED link /\ OnlyCall

\* "Leave", which ends the entry, and the buttons that only forget the session.
LeaveWaitlist ==
  LET left == Accepted(token) /\ entry \in Live
      go == /\ route' = "venue" /\ timer' = "off" /\ token' = "none"
            /\ RenderRoute("venue", "guest", "none")
  IN /\ Spend("visits")
     /\ \/ /\ page.kind = "entry" /\ page.status \in Live /\ token # "none"
           /\ IF left THEN entry' = "CLOSED" /\ go
              ELSE /\ \E c \in FreeSlots : Render(c, "guest", token)
                   /\ UNCHANGED <<entry, token, route, page, timer, sheet, stream, news, pending>>
        \/ /\ page.kind = "recover" \/ (page.kind = "entry" /\ page.status = "CLOSED")
           /\ go /\ UNCHANGED entry
     /\ UNCHANGED <<venue, over, link, muted, wakeups>>

OpenShareSheet ==
  /\ page.kind = "entry" /\ page.status # "CLOSED" /\ ~sheet /\ Spend("sheets")
  /\ sheet' = TRUE /\ timer' = "off" /\ muted' = TRUE
  /\ UNCHANGED <<server, token, link, route, page, stream, news, pending, wakeups, calls>>

\* closeShareSheet does not set the timer again.
CloseShareSheet ==
  /\ sheet /\ sheet' = FALSE
  /\ UNCHANGED <<server, token, link, route, page, timer, muted, stream, news, pending,
                 wakeups, calls, used>>

-----------------------------------------------------------------------------
(* The system *)

Progress(c) ==
  \/ VenueLoaded(c) \/ ServeEntry(c) \/ Refused(c) \/ RenderAnswer(c) \/ RefreshAnswer(c)
  \/ Redeem(c, Accessible) /\ UNCHANGED used

Program ==
  \/ \E c \in Slots : Progress(c)
  \/ RefreshTimer \/ RouteTimer \/ Wakeup

Streaming == StreamConnects \/ StreamRetries \/ QueueUpdate

Faults ==
  \/ StreamDrops
  \/ \E c \in Slots : CallFails(c) \/ AuthFails(c)
  \/ \E c \in Slots : Redeem(c, FALSE) /\ Spend("faults")

Guest ==
  \/ \E to \in {"entry", "preorder", "venue"} : Visit(to)
  \/ Retry \/ RestoreSession \/ LeaveWaitlist \/ OpenShareSheet \/ CloseShareSheet

Next == Program \/ Streaming \/ Faults \/ Guest \/ EntryMoves \/ WindowEnds \/ TokenExpires

Spec == Init /\ [][Next]_vars

\* Requests are answered and set timers fire; connections may stay away.
FairSpec == Spec /\ WF_vars(Program)

-----------------------------------------------------------------------------
(* Properties *)

ShowsLive == page.kind = "entry" /\ page.status \in Live /\ OnGuestRoute

\* A page that shows a guest as waiting or called is looked after: a timer is
\* set, or a call that will draw or set one is under way.  The one exception is
\* a page whose timer the invite sheet took away.
LiveIsWatched ==
  ShowsLive /\ ~muted => \/ timer # "off"
                         \/ \E c \in Slots : ~CallAt(c, "idle")

\* When the entry stands still the page comes to show it: no event that was
\* lost, no answer that came late and no error leaves a guest with a call, or
\* without one, that is not so.
ScreenCatchesUp == <>[](ShowsLive /\ ~muted => page.status = entry)
=============================================================================
