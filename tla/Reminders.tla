------------------------------ MODULE Reminders ------------------------------
(***************************************************************************)
(* The reminder of guests whose table waits for them                        *)
(* (sweepReadyReminderEntries in table.service.ts, sendNotification and     *)
(* Notify.queueReadyReminder in notifications.ts).  A tick of the poller    *)
(* lists the guests who are called, and takes them one after the other: it *)
(* reads the Notification rows, creates one, asks the provider, updates the *)
(* row.  The interval does not wait, so ticks overlap where they are slow.  *)
(*                                                                         *)
(* Left out: the texts and templates, rows of other kinds, and the rest of *)
(* the tick (see QueueFloor).  The order of the list is any order.          *)
(***************************************************************************)
EXTENDS Naturals, Sequences, FiniteSets

CONSTANTS
  Guests,
  Ticks,        \* ticks under way at a time
  MaxTicks,     \* bound: of the ticks
  MaxLapses     \* bound: of what goes wrong

VARIABLES
  alone,        \* a tick begins when the one before has ended
  whatsApp,     \* the venue is not the one whose reminders go by call only
  called,       \* of each guest: before the threshold, past it, past the deadline, gone
  rows,         \* Notification rows of each guest's reminder
  received,     \* messages the provider delivered
  rung,         \* calls asked of the integration (which skips a venue not on its list)
  ticks,        \* of each tick: its step, the guests left of its list
  begun, lapses

vars == <<alone, whatsApp, called, rows, received, rung, ticks, begun, lapses>>

NoTick == [at |-> "idle", todo |-> {}, of |-> {}, channel |-> "WHATSAPP", row |-> 0]
None == [g \in Guests |-> 0]

Init ==
  /\ alone \in BOOLEAN /\ whatsApp \in BOOLEAN
  /\ called = [g \in Guests |-> "early"]
  /\ rows = [g \in Guests |-> <<>>]
  /\ received = None /\ rung = None
  /\ ticks = [t \in Ticks |-> NoTick]
  /\ begun = 0 /\ lapses = 0

\* The guest a tick is at.
Of(t) == CHOOSE g \in ticks[t].of : TRUE
At(t, place) == ticks[t].at = place
Goes(t, place) == ticks' = [ticks EXCEPT ![t].at = place]
Lapse == lapses < MaxLapses /\ lapses' = lapses + 1

-----------------------------------------------------------------------------
(* Guests *)

Later(state) == CASE state = "early" -> {"due", "left"}
                  [] state = "due" -> {"over", "left"}
                  [] OTHER -> {}

\* Time passes, or the guest is seated, leaves or is cancelled.
Moves(g) ==
  /\ \E state \in Later(called[g]) : called' = [called EXCEPT ![g] = state]
  /\ UNCHANGED <<alone, whatsApp, rows, received, rung, ticks, begun, lapses>>

-----------------------------------------------------------------------------
(* sweepReadyReminderEntries *)

\* `now` and the list are of the tick's beginning.
TickBegins(t) ==
  /\ At(t, "idle") /\ begun < MaxTicks /\ begun' = begun + 1
  /\ alone => \A u \in Ticks : At(u, "idle")
  /\ ticks' = [ticks EXCEPT ![t] =
       [NoTick EXCEPT !.at = "next", !.todo = {g \in Guests : called[g] = "due"}]]
  /\ UNCHANGED <<alone, whatsApp, called, rows, received, rung, lapses>>

TickEnds(t) ==
  /\ At(t, "next") /\ ticks[t].todo = {}
  /\ ticks' = [ticks EXCEPT ![t] = NoTick]
  /\ UNCHANGED <<alone, whatsApp, called, rows, received, rung, begun, lapses>>

Live(row) == row.status \in {"PENDING", "SENT"}

\* Variant: a reminder that may still be on its way does not count.
RemindedSurely(g) == \E i \in DOMAIN rows[g] : rows[g][i].status = "SENT"

\* reminderAlreadySent
Reminded(g) == \E i \in DOMAIN rows[g] : Live(rows[g][i])

\* A guest who was reminded is passed over; where reminders go by call only
\* no row is written.
Check(t) ==
  /\ At(t, "next")
  /\ \E g \in ticks[t].todo :
       ticks' = [ticks EXCEPT ![t] =
         [NoTick EXCEPT !.todo = ticks[t].todo \ {g}, !.of = IF Reminded(g) THEN {} ELSE {g},
            !.at = IF Reminded(g) THEN "next" ELSE IF whatsApp THEN "create" ELSE "call"]]
  /\ UNCHANGED <<alone, whatsApp, called, rows, received, rung, begun, lapses>>

-----------------------------------------------------------------------------
(* sendNotification *)

Create(t) ==
  /\ At(t, "create")
  /\ ticks' = [ticks EXCEPT ![t].at = "send", ![t].row = Len(rows[Of(t)]) + 1]
  /\ rows' = [rows EXCEPT ![Of(t)] =
       Append(@, [channel |-> ticks[t].channel, status |-> "PENDING"])]
  /\ UNCHANGED <<alone, whatsApp, called, received, rung, begun, lapses>>

Provider(t) ==
  /\ At(t, "send")
  /\ \/ /\ Goes(t, "update") /\ received' = [received EXCEPT ![Of(t)] = @ + 1]
        /\ UNCHANGED lapses
     \/ Lapse /\ Goes(t, "failed") /\ UNCHANGED received
  /\ UNCHANGED <<alone, whatsApp, called, rows, rung, begun>>

\* The row this tick created last.
RowIs(t, status) == rows' = [rows EXCEPT ![Of(t)][ticks[t].row].status = status]

\* A failure of this update is handled as a failure to send.
UpdateSent(t) ==
  /\ At(t, "update")
  /\ \/ Goes(t, "call") /\ RowIs(t, "SENT") /\ UNCHANGED lapses
     \/ Lapse /\ Goes(t, "failed") /\ UNCHANGED rows
  /\ UNCHANGED <<alone, whatsApp, called, received, rung, begun>>

\* A failed WhatsApp message is sent again as an SMS, and that only once.
UpdateFailed(t) ==
  /\ At(t, "failed") /\ RowIs(t, "FAILED")
  /\ \/ /\ ticks[t].channel = "WHATSAPP"
        /\ ticks' = [ticks EXCEPT ![t].at = "create", ![t].channel = "SMS"]
     \/ ticks[t].channel = "SMS" /\ Goes(t, "call")
  /\ UNCHANGED <<alone, whatsApp, called, received, rung, begun, lapses>>

\* maybeSendIvrForQueueMessage; its errors are logged.  sendQueueStatusIvr skips
\* the venues that are not allowlisted: a call counted here is one it is asked for.
Call(t) ==
  /\ At(t, "call")
  /\ ticks' = [ticks EXCEPT ![t] = [NoTick EXCEPT !.at = "next", !.todo = ticks[t].todo]]
  /\ rung' = [rung EXCEPT ![Of(t)] = @ + 1]
  /\ UNCHANGED <<alone, whatsApp, called, rows, received, begun, lapses>>

\* A write that is not caught fails, or the server stops: the tick ends where
\* it is, and what it has written stays.
TickStops(t) ==
  /\ ~At(t, "idle") /\ Lapse
  /\ ticks' = [ticks EXCEPT ![t] = NoTick]
  /\ UNCHANGED <<alone, whatsApp, called, rows, received, rung, begun>>

Next ==
  \/ \E g \in Guests : Moves(g)
  \/ \E t \in Ticks : TickBegins(t) \/ TickEnds(t) \/ Check(t) \/ Create(t) \/ Provider(t)
       \/ UpdateSent(t) \/ UpdateFailed(t) \/ Call(t) \/ TickStops(t)

Spec == Init /\ [][Next]_vars

-----------------------------------------------------------------------------
(* Properties *)

TypeOK ==
  /\ called \in [Guests -> {"early", "due", "over", "left"}]
  /\ \A g \in Guests : \A i \in DOMAIN rows[g] :
       /\ rows[g][i].channel \in {"WHATSAPP", "SMS"}
       /\ rows[g][i].status \in {"PENDING", "SENT", "FAILED"}
  /\ \A t \in Ticks : ticks[t].todo \subseteq Guests /\ ticks[t].of \subseteq Guests
  /\ begun \in 0..MaxTicks /\ lapses \in 0..MaxLapses

\* Where reminders are messages and no two ticks overlap, a guest has at most
\* one reminder that is sent or on its way, through the fallback, failed
\* updates and a stop between any two steps; and every message or call asked
\* for beyond the first is owed to something that went wrong.
OneReminder ==
  alone /\ whatsApp => \A g \in Guests :
    /\ Cardinality({i \in DOMAIN rows[g] : Live(rows[g][i])}) <= 1
    /\ received[g] <= 1 + lapses
    /\ rung[g] <= 1 + lapses
=============================================================================
