----------------------------- MODULE StaffScreen -----------------------------
(***************************************************************************)
(* The staff dashboard of web/app.js: renderStaffDashboard, its live panel *)
(* (refreshStaffDashboardLivePanel), the tabs, the stream of the venue and *)
(* the actions a host takes on the queue.  The queue is a version number:  *)
(* every change of a queue entry makes a new one, and the panel shows the  *)
(* version its last request read.                                          *)
(*                                                                         *)
(* staffDashboardRefreshToken numbers the renderings; a call that finds    *)
(* another number, another tab or another address gives up.                *)
(*                                                                         *)
(* Left out: tables, statistics, history and bills with their caches, the  *)
(* venue's configuration, the form fields, what the actions do to the      *)
(* queue (see QueueFloor), and the delays.                                 *)
(***************************************************************************)
EXTENDS Naturals, FiniteSets

CONSTANTS
  Tabs,       \* "queue", "seat" and the others (LiveScreens states the assumptions)
  MaxCalls,   \* bound: calls of the page at a time
  Limits,     \* bounds: of each kind of event in a behaviour
  MaxEvents   \* bound: of all of them together

Kinds == {"moves", "actions", "clicks", "faults", "expiries"}

VARIABLES
  sse,      \* the venue's realtimeMode is SSE_V1
  queue,    \* version of the venue's queue
  auth,     \* the staff token kept by the browser; an old one is refused
  route,    \* the address: the dashboard or another page
  tab,      \* uiState.staffTab
  newest,   \* uiState.staffDashboardRefreshToken
  page,     \* what is drawn: of the dashboard its tab and the version shown
  timer,    \* uiState.timerId: a refresh with its tab and number, or renderRoute
  stream, news, pending, wakeups,   \* as in GuestScreen
  calls,    \* renderStaffDashboard and refreshStaffDashboardLivePanel under way
  action,   \* an action of the host, and the version that holds it
  submitting,   \* staffSeat.isSubmitting
  heard,    \* the version that holds the last action whose answer has come
  used

vars == <<sse, queue, auth, route, tab, newest, page, timer, stream, news, pending,
          wakeups, calls, action, submitting, heard, used>>
events == <<stream, news, pending, wakeups>>

Spent == used["moves"] + used["actions"] + used["clicks"] + used["faults"] + used["expiries"]
Spend(kind) ==
  /\ used[kind] < Limits[kind] /\ Spent < MaxEvents
  /\ used' = [used EXCEPT ![kind] = @ + 1]

Slots == 1..MaxCalls
NoCall == [kind |-> "render", at |-> "idle", by |-> "host", tab |-> "queue", number |-> 0,
           warns |-> FALSE, answer |-> 0]
NoTimer == [at |-> "off", tab |-> "queue", number |-> 0]
NoAction == [kind |-> "row", at |-> "none", version |-> 0, waitsFor |-> 0]

TypeOK ==
  /\ sse \in BOOLEAN /\ queue \in Nat /\ heard \in Nat /\ newest \in Nat
  /\ auth \in {"none", "old", "good"}
  /\ route \in {"dashboard", "login", "venue"}
  /\ tab \in Tabs /\ submitting \in BOOLEAN
  /\ page \in [kind: {"blank", "dashboard", "fatal", "other"}, tab: Tabs, version: Nat,
               warns: BOOLEAN]
  /\ timer \in [at: {"off", "refresh", "route"}, tab: Tabs, number: Nat]
  /\ stream \in {"none", "connecting", "open", "down"}
  /\ news \in Nat /\ pending \in BOOLEAN /\ wakeups \in Nat
  /\ calls \in [Slots -> [kind: {"render", "refresh"}, by: {"host", "timer"}, tab: Tabs,
                          at: {"idle", "queue", "answered", "refused"}, number: Nat,
                          warns: BOOLEAN, answer: Nat]]
  /\ action \in [kind: {"row", "seat"}, at: {"none", "sent", "done", "failed"}, version: Nat,
                waitsFor: Nat]
  /\ used \in [Kinds -> Nat]

Init ==
  /\ sse \in BOOLEAN
  /\ queue = 0 /\ auth = "good" /\ route = "dashboard" /\ tab = "queue"
  /\ newest = 1
  /\ page = [kind |-> "blank", tab |-> "queue", version |-> 0, warns |-> FALSE]
  /\ timer = NoTimer
  /\ stream = "none" /\ news = 0 /\ pending = FALSE /\ wakeups = 0
  /\ calls = [c \in Slots |-> IF c = 1
       THEN [NoCall EXCEPT !.at = "queue", !.number = 1] ELSE NoCall]
  /\ action = NoAction /\ submitting = FALSE /\ heard = 0
  /\ used = [kind \in Kinds |-> 0]

-----------------------------------------------------------------------------
(* The server and the stream *)

\* A change of the queue that is published to the streams of the venue.
QueueChanges ==
  /\ queue' = queue + 1
  /\ news' = IF stream = "open" THEN news + 1 ELSE news

\* A guest, the poller or another host; a table that is set free completes its
\* entry without an event.
QueueMoves ==
  /\ Spend("moves")
  /\ QueueChanges \/ (queue' = queue + 1 /\ UNCHANGED news)
  /\ UNCHANGED <<sse, auth, route, tab, newest, page, timer, stream, pending, wakeups,
                 calls, action, submitting, heard>>

AuthExpires ==
  /\ auth = "good" /\ auth' = "old" /\ Spend("expiries")
  /\ UNCHANGED <<sse, queue, route, tab, newest, page, timer, events, calls, action,
                 submitting, heard>>

OnlyStream == UNCHANGED <<sse, queue, auth, route, tab, newest, page, timer, calls, action,
                          submitting, heard>>

\* streamStaffQueue registers the client, or refuses it.
StreamConnects ==
  /\ stream = "connecting"
  /\ stream' = IF auth = "good" THEN "open" ELSE "down"
  /\ UNCHANGED <<news, pending, wakeups, used>> /\ OnlyStream

StreamDrops ==
  /\ stream \in {"connecting", "open"} /\ Spend("faults")
  /\ stream' = "down" /\ news' = 0
  /\ UNCHANGED <<pending, wakeups>> /\ OnlyStream

StreamRetries ==
  /\ stream = "down" /\ stream' = "connecting"
  /\ UNCHANGED <<news, pending, wakeups, used>> /\ OnlyStream

\* The onQueueUpdate of ensureStaffRealtime.
QueueUpdate ==
  /\ stream = "open" /\ news > 0 /\ news' = news - 1
  /\ IF route = "dashboard" /\ ~pending
     THEN pending' = TRUE /\ wakeups' = wakeups + 1
     ELSE UNCHANGED <<pending, wakeups>>
  /\ UNCHANGED <<stream, used>> /\ OnlyStream

CloseStaffRealtime == stream' = "none" /\ news' = 0 /\ pending' = FALSE

EnsureStaffRealtime ==
  IF sse /\ auth # "none" /\ stream # "none" THEN UNCHANGED <<stream, news, pending>>
  ELSE /\ stream' = IF sse /\ auth # "none" THEN "connecting" ELSE "none"
       /\ news' = 0 /\ pending' = FALSE

-----------------------------------------------------------------------------
(* Rendering and refreshing *)

FreeSlots == {c \in Slots : /\ calls[c].at = "idle"
                            /\ \A d \in 1..(c - 1) : calls[d].at # "idle"}
CallAt(c, point) == calls[c].at = point
End(c) == calls' = [calls EXCEPT ![c] = NoCall]
GoOn(c, point) == calls' = [calls EXCEPT ![c].at = point]

\* navigateToStaffLogin
ToLogin ==
  /\ route' = "login" /\ page' = [page EXCEPT !.kind = "other"] /\ timer' = NoTimer
  /\ CloseStaffRealtime

\* renderStaffDashboard up to its requests, for tab t; n is the number before it.
RenderDashboard(t, by, n) ==
  IF auth = "none" THEN ToLogin /\ UNCHANGED calls /\ newest' = n
  ELSE /\ newest' = n + 1
       /\ \E c \in FreeSlots : calls' = [calls EXCEPT ![c] =
            [NoCall EXCEPT !.at = "queue", !.by = by, !.tab = t, !.number = n + 1]]
       /\ UNCHANGED <<route, page, stream, news, pending>>
       /\ timer' = IF by = "timer" THEN NoTimer ELSE timer

\* shouldApplyStaffLiveRefresh
ShouldApply(t, n) ==
  auth # "none" /\ route = "dashboard" /\ tab = t /\ newest = n

\* refreshStaffDashboardLivePanel up to its requests.
StartRefresh(t, n) ==
  IF ShouldApply(t, n) /\ t # "seat"
  THEN \E c \in FreeSlots : calls' = [calls EXCEPT ![c] =
         [NoCall EXCEPT !.kind = "refresh", !.at = "queue", !.by = "timer", !.tab = t, !.number = n]]
  ELSE UNCHANGED calls

RefreshTimer ==
  /\ timer.at = "refresh" /\ timer' = NoTimer
  /\ IF auth = "none" THEN UNCHANGED calls ELSE StartRefresh(timer.tab, timer.number)
  /\ UNCHANGED <<sse, queue, auth, route, tab, newest, page, events, action, submitting,
                 heard, used>>

\* The timeout of an event asks for the tab and the number of now.
Wakeup ==
  /\ wakeups > 0 /\ wakeups' = wakeups - 1 /\ pending' = FALSE
  /\ StartRefresh(tab, newest)
  /\ UNCHANGED <<sse, queue, auth, route, tab, newest, page, timer, stream, news, action,
                 submitting, heard, used>>

\* renderRoute, after an error (of other addresses only that they are drawn).
RouteTimer ==
  /\ timer.at = "route"
  /\ IF route = "dashboard"
     THEN RenderDashboard(tab, "timer", newest)
     ELSE /\ page' = [page EXCEPT !.kind = "other"] /\ timer' = NoTimer
          /\ UNCHANGED <<route, newest, calls, stream, news, pending>>
  /\ UNCHANGED <<sse, queue, auth, tab, wakeups, action, submitting, heard, used>>

OnlyCall == UNCHANGED <<sse, queue, tab, newest, wakeups, action, submitting, heard>>

\* requireAuth, GET /queue/live or /queue/live-snapshot; a refresh takes a
\* refusal for a dependency that is missing.  The venue is asked for as well, and
\* is one step with the queue: it configures the page, and where its request
\* fails the call ends in QueueFails or RefreshFails.
ServeQueue(c) ==
  /\ CallAt(c, "queue")
  /\ calls' = [calls EXCEPT ![c] =
       IF auth = "good" THEN [@ EXCEPT !.at = "answered", !.answer = queue]
       ELSE IF calls[c].kind = "render" THEN [@ EXCEPT !.at = "refused"]
       ELSE [@ EXCEPT !.at = "answered", !.warns = TRUE]]
  /\ UNCHANGED <<auth, route, page, timer, stream, news, pending, used>> /\ OnlyCall

\* A request fails: the panel is empty and says so.
QueueFails(c) ==
  /\ calls[c].at \in {"queue", "answered"} /\ Spend("faults")
  /\ calls' = [calls EXCEPT ![c].at = "answered", ![c].warns = TRUE, ![c].answer = 0]
  /\ UNCHANGED <<auth, route, page, timer, stream, news, pending>> /\ OnlyCall

\* Without a stream a refresh loads the venue first, and fails with it:
\* handleBackgroundRefreshError.
RefreshFails(c) ==
  /\ ~sse /\ CallAt(c, "queue") /\ calls[c].kind = "refresh" /\ Spend("faults")
  /\ timer' = [NoTimer EXCEPT !.at = "route"] /\ End(c)
  /\ UNCHANGED <<auth, route, page, stream, news, pending>> /\ OnlyCall

RenderRefused(c) ==
  /\ CallAt(c, "refused")
  /\ auth' = "none" /\ ToLogin /\ End(c)
  /\ UNCHANGED used /\ OnlyCall

Show(c) == page' = [kind |-> "dashboard", tab |-> calls[c].tab, version |-> calls[c].answer,
                    warns |-> calls[c].warns]
SetRefresh(c) == timer' = [at |-> "refresh", tab |-> calls[c].tab, number |-> calls[c].number]

\* What renderStaffDashboard draws if it is still the newest, whatever the address.
RenderAnswer(c) ==
  /\ CallAt(c, "answered") /\ calls[c].kind = "render" /\ End(c)
  /\ IF calls[c].number # newest THEN UNCHANGED <<page, timer, stream, news, pending>>
     ELSE /\ Show(c) /\ EnsureStaffRealtime
          /\ IF calls[c].tab # "seat" /\ ~submitting THEN SetRefresh(c) ELSE timer' = NoTimer
  /\ UNCHANGED <<auth, route, used>> /\ OnlyCall

\* Variant: the checks are not repeated when the answers are there.
RefreshAnswerUnchecked(c) ==
  /\ CallAt(c, "answered") /\ calls[c].kind = "refresh" /\ End(c)
  /\ IF page.kind # "dashboard" THEN UNCHANGED <<page, timer, stream, news, pending>>
     ELSE Show(c) /\ EnsureStaffRealtime /\ SetRefresh(c)
  /\ UNCHANGED <<auth, route, used>> /\ OnlyCall


\* What refreshStaffDashboardLivePanel draws.
RefreshAnswer(c) ==
  /\ CallAt(c, "answered") /\ calls[c].kind = "refresh" /\ End(c)
  /\ IF ~ShouldApply(calls[c].tab, calls[c].number) \/ page.kind # "dashboard"
     THEN UNCHANGED <<page, timer, stream, news, pending>>
     ELSE Show(c) /\ EnsureStaffRealtime /\ SetRefresh(c)
  /\ UNCHANGED <<auth, route, used>> /\ OnlyCall

-----------------------------------------------------------------------------
(* The host *)

OnDashboard == page.kind = "dashboard"
OnlyHost == UNCHANGED <<sse, queue, wakeups, heard>>

ClickTab(t) ==
  /\ OnDashboard /\ Spend("clicks")
  /\ tab' = t /\ RenderDashboard(t, "host", newest)
  /\ UNCHANGED <<auth, action, submitting>> /\ OnlyHost

\* handleStaffQueueMutation up to its request: what is under way is outdated.
RowAction ==
  /\ OnDashboard /\ page.tab # "seat" /\ action.at = "none" /\ Spend("actions")
  /\ action' = [NoAction EXCEPT !.at = "sent"]
  /\ newest' = newest + 1 /\ timer' = NoTimer
  /\ UNCHANGED <<auth, route, tab, page, stream, news, pending, calls, submitting>>
  /\ OnlyHost

\* The seat form renders itself as busy and then sends its request.
SeatAction ==
  /\ OnDashboard /\ page.tab = "seat" /\ action.at = "none" /\ Spend("actions")
  /\ submitting' = TRUE /\ RenderDashboard(tab, "host", newest)
  /\ action' = [NoAction EXCEPT !.kind = "seat", !.at = "sent", !.waitsFor = newest + 1]
  /\ UNCHANGED <<auth, tab>> /\ OnlyHost

\* The action on the server: done, or refused by the rules of the queue.
ServeAction ==
  /\ action.at = "sent"
  /\ \A c \in Slots : CallAt(c, "idle") \/ calls[c].number # action.waitsFor
  /\ \/ /\ auth = "good" /\ QueueChanges
        /\ action' = [action EXCEPT !.at = "done", !.version = queue + 1]
     \/ /\ action' = [action EXCEPT !.at = "failed"] /\ UNCHANGED <<queue, news>>
  /\ UNCHANGED <<sse, auth, route, tab, newest, page, timer, stream, pending, wakeups,
                 calls, submitting, heard, used>>

ActionCut ==
  /\ action.at = "done" /\ Spend("faults")
  /\ action' = [action EXCEPT !.at = "failed"]
  /\ UNCHANGED <<sse, queue, auth, route, tab, newest, page, timer, events, calls,
                 submitting, heard>>

\* The answer: the dashboard is rendered anew; a guest that was seated leaves
\* the host on the seat tab.
HearAction ==
  /\ action.at \in {"done", "failed"}
  /\ heard' = IF action.at = "done" THEN action.version ELSE heard
  /\ tab' = IF action.kind = "seat" /\ action.at = "done" THEN "seat" ELSE tab
  /\ submitting' = (submitting /\ action.kind # "seat")
  /\ RenderDashboard(tab', "host", newest)
  /\ action' = NoAction
  /\ UNCHANGED <<sse, queue, auth, wakeups, used>>

Logout ==
  /\ OnDashboard /\ Spend("clicks")
  /\ auth' = "none" /\ ToLogin
  /\ UNCHANGED <<tab, newest, calls, action, submitting>> /\ OnlyHost

Login ==
  /\ route = "login" /\ page.kind = "other" /\ Spend("clicks")
  /\ auth' = "good" /\ route' = "dashboard" /\ newest' = newest + 1
  /\ \E c \in FreeSlots : calls' = [calls EXCEPT ![c] =
       [NoCall EXCEPT !.at = "queue", !.tab = tab, !.number = newest + 1]]
  /\ timer' = NoTimer
  /\ UNCHANGED <<tab, page, stream, news, pending, action, submitting>> /\ OnlyHost

\* navigate to another page, and back.
Leave ==
  /\ route = "dashboard" /\ Spend("clicks")
  /\ route' = "venue" /\ page' = [page EXCEPT !.kind = "other"] /\ timer' = NoTimer
  /\ CloseStaffRealtime
  /\ UNCHANGED <<auth, tab, newest, calls, action, submitting>> /\ OnlyHost

Return ==
  /\ route = "venue" /\ auth # "none" /\ Spend("clicks")
  /\ route' = "dashboard" /\ newest' = newest + 1
  /\ \E c \in FreeSlots : calls' = [calls EXCEPT ![c] =
       [NoCall EXCEPT !.at = "queue", !.tab = tab, !.number = newest + 1]]
  /\ timer' = NoTimer
  /\ UNCHANGED <<auth, tab, page, stream, news, pending, action, submitting>> /\ OnlyHost

-----------------------------------------------------------------------------
(* The system *)

Program ==
  \/ \E c \in Slots : ServeQueue(c) \/ RenderRefused(c) \/ RenderAnswer(c) \/ RefreshAnswer(c)
  \/ RefreshTimer \/ RouteTimer \/ Wakeup

Acting == ServeAction \/ HearAction
Streaming == StreamConnects \/ StreamRetries \/ QueueUpdate
Faults == StreamDrops \/ ActionCut \/ \E c \in Slots : QueueFails(c) \/ RefreshFails(c)
Host ==
  \/ \E t \in Tabs : ClickTab(t)
  \/ RowAction \/ SeatAction \/ Logout \/ Login \/ Leave \/ Return

Next == Program \/ Acting \/ Streaming \/ Faults \/ Host \/ QueueMoves \/ AuthExpires

Spec == Init /\ [][Next]_vars

\* Requests are answered and set timers fire; connections may stay away.
FairSpec == Spec /\ WF_vars(Program) /\ WF_vars(Acting)

-----------------------------------------------------------------------------
(* Properties *)

\* Once the host has been told that an action is done, nothing that is drawn
\* shows the queue from before it: no refresh that was under way, whenever its
\* answer comes, and no rendering that the action overtook.  (After a logout a
\* rendering under way still draws the dashboard, over the login page.)
OwnActionShown ==
  [][page' # page /\ page'.kind = "dashboard" /\ ~page'.warns /\ auth # "none"
       => page'.version >= heard']_vars

ShowsQueue == page.kind = "dashboard" /\ page.tab # "seat" /\ route = "dashboard"

=============================================================================
