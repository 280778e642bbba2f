---------------------------- MODULE VenueServices ----------------------------
(***************************************************************************)
(* Three services of a venue that keep state and read it before they write *)
(* it: the waits guests are told and the settings they come from, the code *)
(* a host logs in with, the reminder of called guests.  They share no       *)
(* state, so a behaviour is about one of them; what they have in common is *)
(* the question what holds when requests come one at a time and what when  *)
(* they overlap (`alone`).                                                  *)
(***************************************************************************)
EXTENDS Naturals, FiniteSets

CONSTANTS
  Guests,
  Patches, Slots, MaxMinutes, MaxRequests,
  Tries, MaxAttempts, MaxCodes, MaxTries,
  CalledGuests, Ticks, MaxTicks, MaxLapses

ASSUME ActorsAssumption ==
  \A S \in {Guests, Slots, Tries, CalledGuests, Ticks} : IsFiniteSet(S) /\ S # {}
ASSUME BoundsAssumption ==
  {MaxMinutes, MaxRequests, MaxAttempts, MaxCodes, MaxTries, MaxTicks, MaxLapses} \subseteq Nat \ {0}

VARIABLES
  subject,  \* the service this behaviour is about
  alone,
  stored, told, entry, requests, minutes, spent,
  codes, tries, logins, tried,
  whatsApp, called, rows, received, rung, ticks, begun, lapses

waitVars == <<stored, told, entry, requests, minutes, spent>>
loginVars == <<codes, tries, logins, tried>>
reminderVars == <<whatsApp, called, rows, received, rung, ticks, begun, lapses>>
allVars == <<subject, alone, waitVars, loginVars, reminderVars>>

Waits == INSTANCE WaitEstimates
Login == INSTANCE OtpLogin
Sweep == INSTANCE Reminders WITH Guests <- CalledGuests

\* VenueOpsConfigSchema: minutes are integers from 0, the countdown is on or off.
ASSUME PatchesAssumption ==
  \A patch \in Patches :
    /\ patch = [f \in DOMAIN patch |-> patch[f]]
    /\ DOMAIN patch \subseteq {"base", "step", "max", "decay"}
    /\ \A f \in DOMAIN patch : patch[f] \in IF f = "decay" THEN BOOLEAN ELSE Nat

ServicesInit ==
  /\ subject \in {"waits", "login", "reminders"}
  /\ Waits!Init /\ Login!Init /\ Sweep!Init
  /\ subject # "reminders" => whatsApp

OfWaits(A) == subject = "waits" /\ UNCHANGED <<subject, loginVars, reminderVars>> /\ A
OfLogin(A) == subject = "login" /\ UNCHANGED <<subject, waitVars, reminderVars>> /\ A
OfReminders(A) == subject = "reminders" /\ UNCHANGED <<subject, waitVars, loginVars>> /\ A

ServicesNext == OfWaits(Waits!Next) \/ OfLogin(Login!Next) \/ OfReminders(Sweep!Next)

ServicesSpec == ServicesInit /\ [][ServicesNext]_allVars

\* The types of the three services.
ServicesTypeOK == Waits!TypeOK /\ Login!TypeOK /\ Sweep!TypeOK

\* WaitEstimates: a wait stays in the range the guest was told it with.
EstimateHonest == Waits!EstimateHonest

\* WaitEstimates: who stands further back is not told a shorter wait.
EstimatesInOrder == Waits!EstimatesInOrder

\* WaitEstimates: a setting that was saved is the one in force.
SettingsKept == Waits!SettingsKept

\* OtpLogin: a code logs in once and is tried MaxAttempts times.
CodeLimits == Login!CodeLimits

\* Reminders: a guest has at most one reminder sent or on its way.
OneReminder == Sweep!OneReminder
=============================================================================
