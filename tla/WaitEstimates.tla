---------------------------- MODULE WaitEstimates ----------------------------
(***************************************************************************)
(* The wait a guest is told (utils/waitEstimate.ts and its callers in       *)
(* queue.service.ts, table.service.ts and web/app.js) and the settings it  *)
(* is computed from (venueConfig.service.ts, updateVenueConfig), at a      *)
(* venue with the formula SUBKO_FIXED_V1: the only one whose settings the  *)
(* dashboard edits, and no form changes the formula.                       *)
(*                                                                         *)
(* A join reads the queue in one step and creates its entry in another; a  *)
(* change of the queue is followed by a resequence, which reads the queue  *)
(* and then writes it; a patch of the settings reads the stored ones and   *)
(* then writes all of them.  A minute may pass at any point.               *)
(*                                                                         *)
(* Left out: who may join, be called or moved (see QueueFloor); the rows   *)
(* of a resequence are written together, at the time they were read for;   *)
(* settings and queue are read together where one request reads both.      *)
(***************************************************************************)
EXTENDS Naturals, FiniteSets

CONSTANTS
  Guests,
  Patches,      \* what a PATCH of opsConfig may carry
  Slots,        \* requests of the host under way at a time
  MaxMinutes,   \* bound: of the time that passes
  MaxRequests   \* bound: of the requests of the host

VARIABLES
  alone,        \* no request begins while another is under way
  stored,       \* Venue.opsConfig: the fields that are set
  told,         \* the fields the host was told are saved
  entry,        \* QueueEntry of each guest
  requests,     \* of the host: a resequence that is owed, a plan, a patch
  minutes, spent

vars == <<alone, stored, told, entry, requests, minutes, spent>>

Fields == {"base", "step", "max", "decay"}
Merge(over, under) ==
  [f \in DOMAIN over \cup DOMAIN under |-> IF f \in DOMAIN over THEN over[f] ELSE under[f]]
NoFields == [f \in {} |-> 0]

Greater(a, b) == IF a > b THEN a ELSE b
Less(a, b) == IF a < b THEN a ELSE b

NoEntry == [at |-> "none", position |-> 0, est |-> 0, age |-> 0, floor |-> 0, step |-> 0, max |-> 1]
NoRequest == [at |-> "idle", first |-> "none", order |-> [g \in Guests |-> 0], called |-> 0,
              write |-> NoFields, patch |-> NoFields]

Init ==
  /\ alone \in BOOLEAN
  /\ stored = NoFields /\ told = NoFields
  /\ entry = [g \in Guests |-> NoEntry]
  /\ requests = [r \in Slots |-> NoRequest]
  /\ minutes = 0 /\ spent = 0

-----------------------------------------------------------------------------
(* Settings *)

\* DEFAULT_VENUE_OPS_CONFIG, in units of a few minutes.
Defaults == [base |-> 1, step |-> 2, max |-> 4, decay |-> TRUE]

\* resolveVenueConfig and normalizeResolvedOpsConfig.
Resolve(fields) ==
  LET raw == Merge(fields, Defaults)
  IN [raw EXCEPT !.max = Greater(raw.base, raw.max)]

\* Variant: max is not compared with base.
AcceptedAny(patch) == TRUE

\* updateVenueConfig refuses a cap below the base.
Accepted(patch) ==
  LET merged == Merge(patch, Resolve(stored)) IN merged.max >= merged.base

-----------------------------------------------------------------------------
(* waitEstimate.ts, for settings s that are resolved *)

Cap(floor, max) == Greater(Greater(floor, max), 1)

\* calculateWaitEstimateSnapshot
Snapshot(s) == [floor |-> s.base, step |-> s.step, max |-> Cap(s.base, s.max)]

\* calculateWaitEstimateMin
Estimate(s, position) == Less(Cap(s.base, s.max), s.base + s.step * (position - 1))

\* calculateCurrentWaitEstimateMin
Current(s, e) == IF s.decay THEN Greater(e.floor, IF e.est > e.age THEN e.est - e.age ELSE 0)
                 ELSE e.est

\* calculateNextWaitEstimateAllocationMin after a guest who waits for previous.
NextAllocation(s, previous) == Less(Cap(s.base, s.max), Greater(s.base, previous) + s.step)

\* Variant: the settings of now count, not those the guest was told with.
RebasedToNow(e, index) ==
  LET s == Resolve(stored) IN Less(Cap(s.base, s.max), s.base + s.step * index)

\* calculateRebasedWaitEstimateMin with the entry's snapshot.
Rebased(e, index) == Less(Cap(e.floor, e.max), e.floor + e.step * index)

\* getQueueEntryEtaMin of the guest's page, with the estimate by the position
\* where the stored one is 0.
Shown(s, e) ==
  LET stands == IF e.est > 0 THEN e.est ELSE Estimate(s, e.position)
  IN IF s.decay THEN Greater(e.floor, IF stands > e.age THEN stands - e.age ELSE 0) ELSE stands

-----------------------------------------------------------------------------
(* The queue *)

Waiting == {g \in Guests : entry[g].at = "waiting"}
Active == {g \in Guests : entry[g].at \in {"waiting", "called"}}
UnderWay == \/ \E g \in Guests : entry[g].at = "joining"
            \/ \E r \in Slots : requests[r].at # "idle"
MayBegin == alone => ~UnderWay

\* findFirst by position descending; of equal positions any.
LastWaiting == {g \in Waiting : \A h \in Waiting : entry[h].position <= entry[g].position}

\* Variant: the number of those ahead is taken for the position.
NumberAhead == Cardinality(Active)

\* joinQueue stands the guest behind all who wait or are called.
NextPosition == Cardinality(Active) + 1

\* joinQueue, allocateWaitEstimateForJoin: the estimate est of a guest at position.
Allocations(s, position) ==
  IF ~s.decay THEN {Estimate(s, position)}
  ELSE IF Waiting = {} THEN {s.base}
  ELSE {NextAllocation(s, Current(s, entry[g])) : g \in LastWaiting}

JoinRead(g) ==
  LET s == Resolve(stored)
      position == NextPosition
  IN /\ entry[g].at = "none" /\ MayBegin
     /\ \E est \in Allocations(s, position) :
          entry' = [entry EXCEPT ![g] =
            [at |-> "joining", position |-> position, est |-> est, age |-> 0,
             floor |-> Snapshot(s).floor, step |-> Snapshot(s).step, max |-> Snapshot(s).max]]
     /\ UNCHANGED <<alone, stored, told, requests, minutes, spent>>

JoinCreate(g) ==
  /\ entry[g].at = "joining"
  /\ entry' = [entry EXCEPT ![g].at = "waiting"]
  /\ UNCHANGED <<alone, stored, told, requests, minutes, spent>>

\* The age of an estimate is the time since waitEstimateStartedAt.
Minute ==
  /\ minutes < MaxMinutes /\ minutes' = minutes + 1
  /\ entry' = [g \in Guests |->
       IF entry[g].at \in {"joining", "waiting"} THEN [entry[g] EXCEPT !.age = @ + 1] ELSE entry[g]]
  /\ UNCHANGED <<alone, stored, told, requests, spent>>

Begin == MayBegin /\ spent < MaxRequests /\ spent' = spent + 1

\* A guest is called, or is seated, cancelled or leaves; then a resequence.
Depart(r, g) ==
  /\ requests[r].at = "idle" /\ g \in Active /\ Begin
  /\ \/ g \in Waiting /\ entry' = [entry EXCEPT ![g].at = "called"]
     \/ entry' = [entry EXCEPT ![g].at = "gone"]
  /\ requests' = [requests EXCEPT ![r].at = "owed"]
  /\ UNCHANGED <<alone, stored, told, minutes>>

\* prioritizeQueueEntry, which resequences with g first.
Prioritize(r, g) ==
  /\ requests[r].at = "idle" /\ g \in Waiting /\ Begin
  /\ requests' = [requests EXCEPT ![r].at = "owed", ![r].first = g]
  /\ UNCHANGED <<alone, stored, told, entry, minutes>>

Called == Active \ Waiting

\* The orders of the queue, a position from 1 for every active guest: who is
\* called goes first, then front, then by position, of equal positions any.
Orders(front) ==
  {order \in [Active -> 1..Cardinality(Active)] :
     \A g, h \in Active : g # h =>
       /\ order[g] # order[h]
       /\ g \in Called /\ h \in Waiting => order[g] < order[h]
       /\ front = g /\ {g, h} \subseteq Waiting => order[g] < order[h]
       /\ /\ front \notin {g, h} /\ (g \in Called <=> h \in Called)
          /\ entry[g].position < entry[h].position
          => order[g] < order[h]}

\* What a request is about to write: positions, those up to called of guests
\* who are called.
Plan(order) ==
  [NoRequest EXCEPT !.at = "plan", !.called = Cardinality(Called),
     !.order = [g \in Guests |-> IF g \in Active THEN order[g] ELSE 0]]

\* resequenceActiveQueue, recompactQueuePositions: the reading.
ResequenceRead(r) ==
  /\ requests[r].at = "owed"
  /\ \E order \in Orders(requests[r].first) :
       requests' = [requests EXCEPT ![r] = Plan(order)]
  /\ UNCHANGED <<alone, stored, told, entry, minutes, spent>>

\* reorderQueueEntry plans g and a neighbour in each other's place.
Reorder(r, g) ==
  /\ requests[r].at = "idle" /\ g \in Waiting /\ Begin
  /\ \E order \in Orders("none") : \E h \in Waiting :
       /\ order[h] \in {order[g] + 1, order[g] - 1}
       /\ requests' = [requests EXCEPT ![r] =
            Plan([order EXCEPT ![g] = order[h], ![h] = order[g]])]
  /\ UNCHANGED <<alone, stored, told, entry, minutes>>

\* Variant: the time the estimate started at is kept.
KeptRunning(e, est, position) == [e EXCEPT !.position = position, !.est = est]

\* buildRebasedWaitEstimateData: the estimate starts now.
Restarted(e, est, position) == [e EXCEPT !.position = position, !.est = est, !.age = 0]

\* The rows that were read are written.
WritePlan(r) ==
  /\ requests[r].at = "plan"
  /\ LET order == requests[r].order
         index(g) == order[g] - requests[r].called - 1
     IN entry' = [g \in Guests |->
          CASE order[g] = 0 -> entry[g]
            [] order[g] \in 1..requests[r].called -> [entry[g] EXCEPT !.position = order[g]]
            [] OTHER -> Restarted(entry[g], Rebased(entry[g], index(g)), order[g])]
  /\ requests' = [requests EXCEPT ![r] = NoRequest]
  /\ UNCHANGED <<alone, stored, told, minutes, spent>>

-----------------------------------------------------------------------------
(* updateVenueConfig *)

PatchRead(r, patch) ==
  /\ requests[r].at = "idle" /\ Begin /\ Accepted(patch)
  /\ requests' = [requests EXCEPT ![r] = [NoRequest EXCEPT !.at = "patch", !.patch = patch,
                                            !.write = Merge(patch, stored)]]
  /\ UNCHANGED <<alone, stored, told, entry, minutes>>

\* buildVenueConfigPatch merged what was stored when it was read.
PatchWrite(r) ==
  /\ requests[r].at = "patch"
  /\ stored' = requests[r].write /\ told' = Merge(requests[r].patch, told)
  /\ requests' = [requests EXCEPT ![r] = NoRequest]
  /\ UNCHANGED <<alone, entry, minutes, spent>>

Next ==
  \/ \E g \in Guests : JoinRead(g) \/ JoinCreate(g)
  \/ \E r \in Slots, g \in Guests : Depart(r, g) \/ Prioritize(r, g) \/ Reorder(r, g)
  \/ \E r \in Slots : ResequenceRead(r) \/ WritePlan(r) \/ PatchWrite(r)
  \/ \E r \in Slots, patch \in Patches : PatchRead(r, patch)
  \/ Minute

Spec == Init /\ [][Next]_vars

-----------------------------------------------------------------------------
(* Properties *)

TypeOK ==
  /\ alone \in BOOLEAN
  /\ DOMAIN stored \subseteq Fields /\ DOMAIN told \subseteq Fields
  /\ entry \in [Guests -> [at: {"none", "joining", "waiting", "called", "gone"},
                           position: 0..Cardinality(Guests), est: Nat, age: 0..MaxMinutes,
                           floor: Nat, step: Nat, max: Nat \ {0}]]
  /\ \A g \in Guests : entry[g].at # "none" => entry[g].position > 0
  /\ \A r \in Slots : requests[r].at \in {"idle", "owed", "plan", "patch"}
  /\ minutes \in 0..MaxMinutes /\ spent \in 0..MaxRequests

\* A wait never leaves the range the guest was told it with, whatever settings
\* change and whoever is moved meanwhile; and as long as the stored wait is not
\* 0, the page counts down to the same number as the server.
EstimateHonest ==
  \A g \in Waiting :
    LET e == entry[g]
        s == Resolve(stored)
    IN /\ Current(s, e) >= e.floor /\ Current(s, e) <= Cap(e.floor, e.max)
       /\ e.est > 0 => Shown(s, e) = Current(s, e)

\* Requests one at a time and settings left alone: whoever stands further back
\* is never told a shorter wait, through joins, departures, moves and minutes.
EstimatesInOrder ==
  alone /\ ~UnderWay /\ told = NoFields =>
    \A g, h \in Waiting :
      entry[g].position < entry[h].position =>
        Current(Resolve(stored), entry[g]) <= Current(Resolve(stored), entry[h])

\* Requests one at a time: every setting the host was told is saved is the one
\* in force, and not one that a later patch of other settings changed with it.
SettingsKept ==
  alone => \A f \in DOMAIN told : Resolve(stored)[f] = told[f]
=============================================================================
