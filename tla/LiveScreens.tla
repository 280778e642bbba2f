----------------------------- MODULE LiveScreens -----------------------------
(***************************************************************************)
(* The two live screens of a venue, the guest's and the host's.  They       *)
(* share the program (web/app.js), the venue's realtimeMode and the server *)
(* that publishes, and no other state: a browser tab holds one of them, so *)
(* a behaviour watches one and leaves the other as it was opened.          *)
(***************************************************************************)
EXTENDS GuestScreen

CONSTANTS Tabs, StaffLimits, StaffMaxEvents

StaffKinds == {"moves", "actions", "clicks", "faults", "expiries"}

ASSUME TabAssumption == {"queue", "seat"} \subseteq Tabs
ASSUME StaffAssumption ==
  StaffLimits \in [StaffKinds -> Nat] /\ StaffMaxEvents \in Nat

VARIABLES
  watched,  \* the screen this behaviour is about
  queue, auth, staffRoute, tab, newest, staffPage, staffTimer, staffStream, staffNews,
  staffPending, staffWakeups, staffCalls, action, submitting, heard, staffUsed

staffVars == <<queue, auth, staffRoute, tab, newest, staffPage, staffTimer, staffStream,
               staffNews, staffPending, staffWakeups, staffCalls, action, submitting,
               heard, staffUsed>>
allVars == <<vars, staffVars, watched>>

Staff == INSTANCE StaffScreen WITH
  sse <- venue.sse, Limits <- StaffLimits, MaxEvents <- StaffMaxEvents,
  route <- staffRoute, page <- staffPage, timer <- staffTimer, stream <- staffStream,
  news <- staffNews, pending <- staffPending, wakeups <- staffWakeups,
  calls <- staffCalls, used <- staffUsed

ScreensInit ==
  /\ Init /\ Staff!Init
  /\ watched \in {"guest", "staff"}
  /\ watched = "staff" => token = "good" /\ venue.queueOnly

OfGuest(A) == watched = "guest" /\ UNCHANGED <<staffVars, watched>> /\ A
OfStaff(A) == watched = "staff" /\ UNCHANGED <<vars, watched>> /\ A

ScreensNext == OfGuest(Next) \/ OfStaff(Staff!Next)

ScreensSpec ==
  /\ ScreensInit /\ [][ScreensNext]_allVars
  /\ WF_allVars(OfGuest(Program))
  /\ WF_allVars(OfStaff(Staff!Program))
  /\ WF_allVars(OfStaff(Staff!Acting))

\* The types of both screens.
ScreensTypeOK == TypeOK /\ Staff!TypeOK /\ watched \in {"guest", "staff"}

\* StaffScreen: nothing drawn after the answer of the host's action is older.
OwnActionShown == Staff!OwnActionShown

=============================================================================
