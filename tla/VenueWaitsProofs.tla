--------------------------- MODULE VenueWaitsProofs ---------------------------
(***************************************************************************)
(* Proofs about the waits and the settings of VenueServices: what a guest   *)
(* is told stays in its range however requests overlap; and where they come *)
(* one at a time, the settings are kept and the waits follow the order of   *)
(* the queue, for every number of guests, requests, patches and minutes.    *)
(***************************************************************************)
EXTENDS VenueServicesProofs

Fields == {"base", "step", "max", "decay"}

\* What is stored and what is patched: some of the fields.
Settings ==
  {s \in UNION {[D -> Nat \cup BOOLEAN] : D \in SUBSET Fields} :
     \A f \in DOMAIN s : s[f] \in IF f = "decay" THEN BOOLEAN ELSE Nat}

Entry == [at: {"none", "joining", "waiting", "called", "gone"},
          position: 0..Cardinality(Guests), est: Nat, age: Nat,
          floor: Nat, step: Nat, max: Nat \ {0}]
Request == [at: {"idle", "owed", "plan", "patch"}, first: Guests \cup {"none"},
            order: [Guests -> 0..Cardinality(Guests)], called: Nat,
            write: Settings, patch: Settings]

\* A wait is in the range of the snapshot it was computed with.
InRange(e) == e.floor <= e.est /\ e.est <= Waits!Cap(e.floor, e.max)

WaitsTyped ==
  /\ alone \in BOOLEAN
  /\ stored \in Settings /\ told \in Settings
  /\ entry \in [Guests -> Entry]
  /\ \A g \in Guests : /\ entry[g].at # "none" => entry[g].position > 0
                       /\ entry[g].age <= minutes /\ InRange(entry[g])
  /\ requests \in [Slots -> Request]
  /\ minutes \in 0..MaxMinutes /\ spent \in 0..MaxRequests

-----------------------------------------------------------------------------
(* Requests one at a time *)

LoneRequest ==
  /\ \A r, q \in Slots : requests[r].at # "idle" /\ requests[q].at # "idle" => r = q
  /\ \A g, h \in Guests : entry[g].at = "joining" /\ entry[h].at = "joining" => g = h
  /\ \A r \in Slots, g \in Guests : ~(requests[r].at # "idle" /\ entry[g].at = "joining")

\* No cap below the base among the stored settings.
Sound(s) == LET raw == Waits!Merge(s, Waits!Defaults) IN raw.max >= raw.base

\* What the host was told is what is stored, and a patch under way is what
\* will be stored.
SettingsInv ==
  /\ stored = told /\ Sound(stored)
  /\ \A r \in Slots : requests[r].at = "patch" =>
       /\ requests[r].write = Waits!Merge(requests[r].patch, stored)
       /\ Sound(requests[r].write)

\* No resequence is owed.
Settled == \A r \in Slots : requests[r].at \in {"idle", "patch"}

Active == {g \in Guests : entry[g].at \in {"waiting", "called"}}
Waiting == {g \in Guests : entry[g].at = "waiting"}

\* The active guests have a position each, up to their number, and the guest
\* who joins has the next.
PositionsInv ==
  /\ \A g \in Active : entry[g].position <= Cardinality(Active)
  /\ \A g, h \in Active : entry[g].position = entry[h].position => g = h
  /\ \A g \in Guests : entry[g].at = "joining" => entry[g].position = Cardinality(Active) + 1

\* A plan has a position for each active guest, and who waits is behind those
\* who are called.
PlanInv(q) ==
  /\ \A g \in Guests : q.order[g] <= Cardinality(Active) /\ (q.order[g] > 0 <=> g \in Active)
  /\ \A g, h \in Active : q.order[g] = q.order[h] => g = h
  /\ \A g \in Waiting : q.order[g] > q.called

\* The wait of a guest while the settings count it down.
Left(e) == Waits!Current(Waits!Defaults, e)

DefaultSnapshots ==
  \A g \in Guests : entry[g].at # "none" =>
    /\ entry[g].floor = Waits!Defaults.base /\ entry[g].step = Waits!Defaults.step
    /\ entry[g].max = Waits!Defaults.max

\* Who joins is not told less than anybody who waits.
OrderInv ==
  /\ \A g, h \in Waiting : entry[g].position < entry[h].position => Left(entry[g]) <= Left(entry[h])
  /\ \A g \in Guests, h \in Waiting : entry[g].at = "joining" => Left(entry[h]) <= Left(entry[g])

WaitsInv ==
  /\ WaitsTyped
  /\ alone => /\ LoneRequest /\ SettingsInv
              /\ Settled => PositionsInv
              /\ \A r \in Slots : requests[r].at = "plan" => PlanInv(requests[r])
              /\ told = Waits!NoFields => DefaultSnapshots /\ (Settled => OrderInv)

-----------------------------------------------------------------------------
(* Operators *)

LEMMA Products == \A m, n \in Nat : m * n \in Nat
  BY Z3

\* What is in force is typed, with no cap below the base.
LEMMA ResolveTyped ==
  ASSUME NEW s \in Settings
  PROVE  /\ Waits!Resolve(s).base \in Nat /\ Waits!Resolve(s).step \in Nat
         /\ Waits!Resolve(s).max \in Nat /\ Waits!Resolve(s).decay \in BOOLEAN
         /\ Waits!Resolve(s).max >= Waits!Resolve(s).base
         /\ DOMAIN Waits!Resolve(s) = Fields
         /\ \A f \in Fields \ {"max"} :
              Waits!Resolve(s)[f] = IF f \in DOMAIN s THEN s[f] ELSE Waits!Defaults[f]
         /\ Sound(s) => Waits!Resolve(s).max = IF "max" \in DOMAIN s THEN s["max"]
                                               ELSE Waits!Defaults.max
<1> DEFINE raw == Waits!Merge(s, Waits!Defaults)
           res == Waits!Resolve(s)
<1>1. /\ DOMAIN s \subseteq Fields
      /\ \A f \in DOMAIN s : s[f] \in IF f = "decay" THEN BOOLEAN ELSE Nat
  BY DEF Settings
<1>2. /\ DOMAIN Waits!Defaults = Fields
      /\ Waits!Defaults.base = 1 /\ Waits!Defaults.step = 2 /\ Waits!Defaults.max = 4
      /\ Waits!Defaults.decay = TRUE
  BY DEF Waits!Defaults, Fields
<1>3. /\ DOMAIN raw = Fields
      /\ \A f \in Fields : raw[f] = IF f \in DOMAIN s THEN s[f] ELSE Waits!Defaults[f]
      /\ raw = [f \in Fields |-> raw[f]]
  BY <1>1, <1>2 DEF Waits!Merge
<1>4. raw.base \in Nat /\ raw.step \in Nat /\ raw.max \in Nat /\ raw.decay \in BOOLEAN
  <2> HIDE DEF raw
  <2>1. "base" \in Fields /\ "step" \in Fields /\ "max" \in Fields /\ "decay" \in Fields
    BY DEF Fields
  <2>2. ASSUME NEW f \in {"base", "step", "max"} PROVE raw[f] \in Nat
    <3>1. CASE f \in DOMAIN s
      BY <1>1, <1>3, <2>1, <3>1
    <3>2. CASE f \notin DOMAIN s
      BY <1>2, <1>3, <2>1, <3>2
    <3>3. QED
      BY <3>1, <3>2
  <2>3. raw["decay"] \in BOOLEAN
    BY <1>1, <1>2, <1>3, <2>1
  <2>4. QED
    BY <2>2, <2>3
<1>5. res = [raw EXCEPT !.max = Waits!Greater(raw.base, raw.max)]
  BY DEF Waits!Resolve
<1> HIDE DEF raw, res
<1>6. /\ DOMAIN res = Fields /\ \A f \in Fields \ {"max"} : res[f] = raw[f]
      /\ res.max = Waits!Greater(raw.base, raw.max)
  BY <1>3, <1>5 DEF Fields
<1>7. res.max \in Nat /\ res.max >= raw.base /\ (raw.max >= raw.base => res.max = raw.max)
  BY <1>4, <1>6 DEF Waits!Greater
<1>8. Sound(s) => raw.max >= raw.base
  BY DEF Sound, raw
<1>9. res.base = raw.base /\ res.step = raw.step /\ res.decay = raw.decay
  BY <1>6 DEF Fields
<1>10. QED
  BY <1>3, <1>4, <1>6, <1>7, <1>8, <1>9 DEF res, Fields

LEMMA MergeTyped ==
  ASSUME NEW s \in Settings, NEW u \in Settings
  PROVE  /\ Waits!Merge(s, u) \in Settings
         /\ DOMAIN Waits!Merge(s, u) = DOMAIN s \cup DOMAIN u
         /\ \A f \in DOMAIN s \cup DOMAIN u :
              Waits!Merge(s, u)[f] = IF f \in DOMAIN s THEN s[f] ELSE u[f]
<1> DEFINE m == Waits!Merge(s, u)
           D == DOMAIN s \cup DOMAIN u
<1>1. /\ m = [f \in D |-> IF f \in DOMAIN s THEN s[f] ELSE u[f]]
      /\ DOMAIN m = D /\ \A f \in D : m[f] = IF f \in DOMAIN s THEN s[f] ELSE u[f]
  BY DEF Waits!Merge
<1>2. /\ D \in SUBSET Fields
      /\ \A f \in D : m[f] \in IF f = "decay" THEN BOOLEAN ELSE Nat
  BY <1>1 DEF Settings
<1>3. m \in [D -> Nat \cup BOOLEAN]
  BY <1>1, <1>2
<1>4. m \in Settings
  <2> HIDE DEF m, D
  <2>1. QED
    BY <1>1, <1>2, <1>3 DEF Settings
<1>5. QED
  BY <1>1, <1>4

LEMMA NoFieldsTyped ==
  /\ Waits!NoFields \in Settings
  /\ \A s \in Settings : DOMAIN s = {} <=> s = Waits!NoFields
<1>1. Waits!NoFields \in [{} -> Nat \cup BOOLEAN] /\ DOMAIN Waits!NoFields = {}
  BY DEF Waits!NoFields
<1>2. Waits!NoFields \in Settings
  BY <1>1 DEF Settings
<1>3. ASSUME NEW s \in Settings, DOMAIN s = {} PROVE s = Waits!NoFields
  <2>1. s = [f \in DOMAIN s |-> s[f]]
    BY DEF Settings
  <2>2. QED
    BY <1>3, <2>1 DEF Waits!NoFields
<1>4. QED
  BY <1>1, <1>2, <1>3

LEMMA PatchTyped == \A patch \in Patches : patch \in Settings
<1>1. SUFFICES ASSUME NEW patch \in Patches PROVE patch \in Settings
  OBVIOUS
<1>2. /\ patch = [f \in DOMAIN patch |-> patch[f]]
      /\ DOMAIN patch \subseteq {"base", "step", "max", "decay"}
      /\ \A f \in DOMAIN patch : patch[f] \in IF f = "decay" THEN BOOLEAN ELSE Nat
  BY PatchesAssumption
<1>3. patch \in [DOMAIN patch -> Nat \cup BOOLEAN] /\ DOMAIN patch \in SUBSET Fields
  BY <1>2 DEF Fields
<1>4. QED
  BY <1>2, <1>3 DEF Settings

LEMMA GuestsCounted ==
  /\ \A S : Waits!Cardinality(S) = Cardinality(S)
  /\ IsFiniteSet(Guests) /\ Cardinality(Guests) \in Nat \ {0}
  /\ IsFiniteSet(Active) /\ Cardinality(Active) \in Nat
  /\ Cardinality(Active) <= Cardinality(Guests)
  /\ \A g \in Guests \ Active : Cardinality(Active) + 1 <= Cardinality(Guests)
  /\ Waits!Active = Active /\ Waits!Waiting = Waiting /\ Waiting \subseteq Active
<1>1. \A S : Waits!Cardinality(S) = Cardinality(S)
  BY DEF Waits!Cardinality, Cardinality
<1>2. IsFiniteSet(Guests) /\ Guests # {} /\ Active \subseteq Guests
  BY ActorsAssumption DEF Active
<1>3. /\ Cardinality(Guests) \in Nat \ {0}
      /\ IsFiniteSet(Active) /\ Cardinality(Active) <= Cardinality(Guests)
  BY <1>2, FS_CardinalityType, FS_EmptySet, FS_Subset
<1>4. Cardinality(Active) \in Nat
  BY <1>3, FS_CardinalityType
<1>5. ASSUME NEW g \in Guests \ Active PROVE Cardinality(Active) + 1 <= Cardinality(Guests)
  <2>1. Cardinality(Active \cup {g}) = Cardinality(Active) + 1
    BY <1>3, <1>5, FS_AddElement
  <2>2. Cardinality(Active \cup {g}) <= Cardinality(Guests)
    BY <1>2, FS_Subset
  <2>3. QED
    BY <2>1, <2>2
<1>6. Waits!Active = Active /\ Waits!Waiting = Waiting /\ Waiting \subseteq Active
  BY DEF Waits!Active, Active, Waits!Waiting, Waiting
<1>7. QED
  BY <1>1, <1>2, <1>3, <1>4, <1>5, <1>6

\* An allocation, however it is made, is in the range of the snapshot.
LEMMA AllocationInRange ==
  ASSUME NEW s, s.base \in Nat, s.step \in Nat, s.max \in Nat, s.max >= s.base,
         NEW k \in Nat,
         NEW est, est \in {s.base, Waits!Less(Waits!Cap(s.base, s.max), s.base + s.step * k)}
                  \/ \E p \in Nat : est = Waits!NextAllocation(s, p)
  PROVE  /\ est \in Nat /\ s.base <= est
         /\ est <= Waits!Cap(s.base, Waits!Cap(s.base, s.max))
         /\ Waits!Cap(s.base, s.max) \in Nat \ {0}
<1>1. s.step * k \in Nat
  BY Products
<1>2. PICK m \in Nat : m = s.step * k
  BY <1>1
<1>3. PICK c \in Nat \ {0} : c = Waits!Cap(s.base, s.max)
  BY DEF Waits!Cap, Waits!Greater
<1>4. s.base <= c /\ Waits!Cap(s.base, c) = c
  BY <1>3 DEF Waits!Cap, Waits!Greater
<1>5. CASE est = s.base
  BY <1>3, <1>4, <1>5
<1>6. CASE est = Waits!Less(c, s.base + m)
  BY <1>3, <1>4, <1>6 DEF Waits!Less
<1>7. ASSUME NEW p \in Nat, est = Waits!Less(c, Waits!Greater(s.base, p) + s.step)
      PROVE  est \in Nat /\ s.base <= est /\ est <= c
  BY <1>3, <1>4, <1>7 DEF Waits!Less, Waits!Greater
<1>8. QED
  BY <1>2, <1>3, <1>4, <1>5, <1>6, <1>7 DEF Waits!NextAllocation

LEMMA RebasedInRange ==
  ASSUME NEW e \in Entry, NEW k \in Nat
  PROVE  /\ Waits!Rebased(e, k) \in Nat /\ e.floor <= Waits!Rebased(e, k)
         /\ Waits!Rebased(e, k) <= Waits!Cap(e.floor, e.max)
<1>1. e.floor \in Nat /\ e.step \in Nat /\ e.max \in Nat
  BY DEF Entry
<1>2. PICK m \in Nat : m = e.step * k
  BY <1>1, Products
<1>3. QED
  BY <1>1, <1>2 DEF Waits!Rebased, Waits!Less, Waits!Cap, Waits!Greater

\* What is left of a wait is in the range the wait is in.
LEMMA CurrentInRange ==
  ASSUME NEW e \in Entry, InRange(e), NEW s
  PROVE  /\ Waits!Current(s, e) \in Nat /\ e.floor <= Waits!Current(s, e)
         /\ Waits!Current(s, e) <= Waits!Cap(e.floor, e.max)
<1>1. e.floor \in Nat /\ e.est \in Nat /\ e.age \in Nat /\ e.max \in Nat
  BY DEF Entry
<1>2. QED
  BY <1>1 DEF InRange, Waits!Current, Waits!Greater, Waits!Cap

\* As many guests are called as positions are in front of one who waits.
LEMMA CalledFirst ==
  ASSUME NEW n \in Nat, NEW A, NEW C \in SUBSET A, IsFiniteSet(C), NEW order \in [A -> 1..n],
         \A g, h \in A : g # h => order[g] # order[h],
         NEW h \in A, \A g \in C : order[g] < order[h]
  PROVE  order[h] > Cardinality(C)
<1>1. SUFFICES ASSUME order[h] <= Cardinality(C) PROVE FALSE
  <2>1. order[h] \in Nat /\ Cardinality(C) \in Nat
    BY FS_CardinalityType
  <2>2. QED
    BY <1>1, <2>1
<1>2. PICK m \in Nat : m = order[h] - 1
  OBVIOUS
<1>3. Cardinality(C) \in Nat /\ order[h] \in Nat
  BY FS_CardinalityType
<1>4. IsFiniteSet(1..m) /\ Cardinality(1..m) = m
  BY FS_Interval
<1>5. [g \in C |-> order[g]] \in [C -> 1..m]
  <2>1. \A g \in C : order[g] \in 1..n /\ order[g] < m + 1
    BY <1>2, <1>3
  <2>2. QED
    BY <2>1
<1>6. m < Cardinality(C)
  BY <1>1, <1>2, <1>3
<1>7. PICK f : f = [g \in C |-> order[g]]
  OBVIOUS
<1>8. f \in [C -> 1..m]
  BY <1>5, <1>7
<1>9. \E g, k \in C : g # k /\ f[g] = f[k]
  <2>1. Cardinality(1..m) < Cardinality(C)
    BY <1>4, <1>6
  <2>2. QED
    BY <1>4, <1>8, <2>1, FS_PigeonHole
<1>10. QED
  BY <1>7, <1>9

-----------------------------------------------------------------------------
(* What each step does to the guest and the request it is about *)

LEMMA JoinReadShape ==
  ASSUME WaitsTyped, NEW g \in Guests, Waits!JoinRead(g)
  PROVE  \E e \in Entry :
           /\ entry' = [entry EXCEPT ![g] = e]
           /\ e.at = "joining" /\ e.position = Cardinality(Active) + 1 /\ e.age = 0 /\ InRange(e)
           /\ e.floor = Waits!Resolve(stored).base /\ e.step = Waits!Resolve(stored).step
           /\ e.max = Waits!Cap(Waits!Resolve(stored).base, Waits!Resolve(stored).max)
           /\ e.est \in Waits!Allocations(Waits!Resolve(stored), e.position)
<1>1. PICK s : s = Waits!Resolve(stored)
  OBVIOUS
<1>2. PICK position : position = Waits!NextPosition
  OBVIOUS
<1>3. /\ s.base \in Nat /\ s.step \in Nat /\ s.max \in Nat /\ s.max >= s.base
      /\ entry[g].at = "none" /\ entry \in [Guests -> Entry]
      /\ \A h \in Guests : InRange(entry[h])
  BY <1>1, ResolveTyped DEF WaitsTyped, Waits!JoinRead
<1>4. /\ position = Cardinality(Active) + 1 /\ position \in 0..Cardinality(Guests)
      /\ position - 1 \in Nat
  <2>1. g \in Guests \ Active
    BY <1>3 DEF Active
  <2>2. QED
    BY <1>2, <2>1, GuestsCounted DEF Waits!NextPosition
<1>5. PICK est \in Waits!Allocations(s, position) :
        entry' = [entry EXCEPT ![g] =
          [at |-> "joining", position |-> position, est |-> est, age |-> 0,
           floor |-> Waits!Snapshot(s).floor, step |-> Waits!Snapshot(s).step,
           max |-> Waits!Snapshot(s).max]]
  BY <1>1, <1>2 DEF Waits!JoinRead
<1>6. \/ est \in {s.base, Waits!Less(Waits!Cap(s.base, s.max), s.base + s.step * (position - 1))}
      \/ \E p \in Nat : est = Waits!NextAllocation(s, p)
  <2>1. \A h \in Waiting : Waits!Current(s, entry[h]) \in Nat
    BY <1>3, CurrentInRange DEF Waiting
  <2>2. Waits!LastWaiting \subseteq Waiting
    BY DEF Waits!LastWaiting, Waits!Waiting, Waiting
  <2>3. CASE ~s.decay
    BY <1>5, <2>3 DEF Waits!Allocations, Waits!Estimate
  <2>4. CASE s.decay /\ Waits!Waiting = {}
    BY <1>5, <2>4 DEF Waits!Allocations
  <2>5. CASE s.decay /\ Waits!Waiting # {}
    <3>1. PICK h \in Waits!LastWaiting : est = Waits!NextAllocation(s, Waits!Current(s, entry[h]))
      BY <1>5, <2>5 DEF Waits!Allocations
    <3>2. QED
      BY <2>1, <2>2, <3>1
  <2>6. QED
    BY <2>3, <2>4, <2>5
<1>7. /\ est \in Nat /\ s.base <= est /\ est <= Waits!Cap(s.base, Waits!Cap(s.base, s.max))
      /\ Waits!Cap(s.base, s.max) \in Nat \ {0}
  BY <1>3, <1>4, <1>6, AllocationInRange
<1>8. PICK c \in Nat \ {0} : c = Waits!Cap(s.base, s.max)
  BY <1>7
<1> DEFINE e == [at |-> "joining", position |-> position, est |-> est, age |-> 0,
                 floor |-> s.base, step |-> s.step, max |-> c]
<1>9. /\ e.at = "joining" /\ e.position = position /\ e.age = 0 /\ e.est = est
      /\ e.floor = s.base /\ e.step = s.step /\ e.max = c /\ e \in Entry
  BY <1>3, <1>4, <1>7, <1>8 DEF Entry
<1>10. entry' = [entry EXCEPT ![g] = e]
  BY <1>5, <1>8 DEF Waits!Snapshot
<1> HIDE DEF e
<1>11. InRange(e)
  BY <1>7, <1>8, <1>9 DEF InRange
<1>12. QED
  BY <1>1, <1>4, <1>5, <1>8, <1>9, <1>10, <1>11

\* An entry that only changes where the guest is.
LEMMA EntryAt ==
  ASSUME entry \in [Guests -> Entry], NEW g \in Guests,
         NEW at \in {"waiting", "called", "gone"},
         entry' = [entry EXCEPT ![g].at = at]
  PROVE  /\ entry' \in [Guests -> Entry] /\ entry'[g].at = at
         /\ \A h \in Guests \ {g} : entry'[h] = entry[h]
         /\ \A h \in Guests :
              /\ entry'[h].position = entry[h].position /\ entry'[h].age = entry[h].age
              /\ entry'[h].est = entry[h].est /\ entry'[h].floor = entry[h].floor
              /\ entry'[h].step = entry[h].step /\ entry'[h].max = entry[h].max
<1>1. PICK e : e = entry[g]
  OBVIOUS
<1>2. e \in Entry
  BY <1>1
<1>3. /\ [e EXCEPT !.at = at] \in Entry /\ [e EXCEPT !.at = at].at = at
      /\ [e EXCEPT !.at = at].position = e.position /\ [e EXCEPT !.at = at].age = e.age
      /\ [e EXCEPT !.at = at].est = e.est /\ [e EXCEPT !.at = at].floor = e.floor
      /\ [e EXCEPT !.at = at].step = e.step /\ [e EXCEPT !.at = at].max = e.max
  BY <1>2 DEF Entry
<1>4. PICK x : x = [e EXCEPT !.at = at]
  OBVIOUS
<1>5. entry' = [entry EXCEPT ![g] = x]
  BY <1>1, <1>4
<1>6. QED
  BY <1>1, <1>3, <1>4, <1>5

\* The step of a minute, of a plan that is written: what it makes of an entry.
Older(e) == [e EXCEPT !.age = @ + 1]
LEMMA OlderTyped ==
  ASSUME NEW e \in Entry
  PROVE  /\ Older(e) \in Entry /\ Older(e).age = e.age + 1 /\ Older(e).at = e.at
         /\ Older(e).position = e.position /\ Older(e).est = e.est /\ Older(e).floor = e.floor
         /\ Older(e).step = e.step /\ Older(e).max = e.max
BY DEF Older, Entry

LEMMA RestartedTyped ==
  ASSUME NEW e \in Entry, NEW est \in Nat, NEW position \in 0..Cardinality(Guests)
  PROVE  LET x == Waits!Restarted(e, est, position)
         IN  /\ x \in Entry /\ x.age = 0 /\ x.at = e.at /\ x.position = position /\ x.est = est
             /\ x.floor = e.floor /\ x.step = e.step /\ x.max = e.max
BY DEF Waits!Restarted, Entry

LEMMA MovedTyped ==
  ASSUME NEW e \in Entry, NEW position \in 0..Cardinality(Guests)
  PROVE  LET x == [e EXCEPT !.position = position]
         IN  /\ x \in Entry /\ x.age = e.age /\ x.at = e.at /\ x.position = position
             /\ x.est = e.est /\ x.floor = e.floor /\ x.step = e.step /\ x.max = e.max
BY DEF Entry

LEMMA MinuteShape ==
  ASSUME WaitsTyped, Waits!Minute
  PROVE  /\ entry' \in [Guests -> Entry]
         /\ \A g \in Guests :
              /\ entry'[g].at = entry[g].at /\ entry'[g].position = entry[g].position
              /\ entry'[g].est = entry[g].est /\ entry'[g].floor = entry[g].floor
              /\ entry'[g].step = entry[g].step /\ entry'[g].max = entry[g].max
              /\ entry'[g].age = IF entry[g].at \in {"joining", "waiting"} THEN entry[g].age + 1
                                 ELSE entry[g].age
<1>1. entry' = [g \in Guests |-> IF entry[g].at \in {"joining", "waiting"}
                                 THEN Older(entry[g]) ELSE entry[g]]
  BY DEF Waits!Minute, Older
<1>2. \A g \in Guests : entry[g] \in Entry
  BY DEF WaitsTyped
<1>3. QED
  BY <1>1, <1>2, OlderTyped

\* What a plan leaves of an entry.
LEMMA WritePlanShape ==
  ASSUME WaitsTyped, NEW r \in Slots, Waits!WritePlan(r)
  PROVE  /\ entry' \in [Guests -> Entry]
         /\ \A g \in Guests :
              LET p == requests[r].order[g] IN
              /\ entry'[g].at = entry[g].at /\ entry'[g].floor = entry[g].floor
              /\ entry'[g].step = entry[g].step /\ entry'[g].max = entry[g].max
              /\ entry'[g].age <= entry[g].age
              /\ entry'[g].position = IF p = 0 THEN entry[g].position ELSE p
              /\ p = 0 => entry'[g] = entry[g]
              /\ InRange(entry[g]) => InRange(entry'[g])
              /\ p > requests[r].called =>
                   /\ entry'[g].age = 0
                   /\ entry'[g].est = Waits!Rebased(entry[g], p - requests[r].called - 1)
<1>1. PICK q : q = requests[r]
  OBVIOUS
<1>2. /\ entry' = [g \in Guests |->
          CASE q.order[g] = 0 -> entry[g]
            [] q.order[g] \in 1..q.called -> [entry[g] EXCEPT !.position = q.order[g]]
            [] OTHER -> Waits!Restarted(entry[g],
                          Waits!Rebased(entry[g], q.order[g] - q.called - 1), q.order[g])]
  BY <1>1 DEF Waits!WritePlan
<1>3. /\ q.order \in [Guests -> 0..Cardinality(Guests)] /\ q.called \in Nat
      /\ entry \in [Guests -> Entry] /\ Cardinality(Guests) \in Nat
  BY <1>1, GuestsCounted DEF WaitsTyped, Request
<1>4. ASSUME NEW g \in Guests
      PROVE  /\ entry'[g] \in Entry /\ entry'[g].at = entry[g].at /\ entry'[g].floor = entry[g].floor
             /\ entry'[g].step = entry[g].step /\ entry'[g].max = entry[g].max
             /\ entry'[g].age <= entry[g].age
             /\ entry'[g].position = IF q.order[g] = 0 THEN entry[g].position ELSE q.order[g]
             /\ q.order[g] = 0 => entry'[g] = entry[g]
             /\ InRange(entry[g]) => InRange(entry'[g])
             /\ q.order[g] > q.called =>
                  /\ entry'[g].age = 0
                  /\ entry'[g].est = Waits!Rebased(entry[g], q.order[g] - q.called - 1)
  <2>1. PICK p \in 0..Cardinality(Guests) : p = q.order[g]
    BY <1>3
  <2>2. entry[g] \in Entry /\ entry[g].age \in Nat /\ p \in Nat
    BY <1>3, <2>1 DEF Entry
  <2>3. CASE p = 0
    <3>1. p \notin 1..q.called /\ ~(p > q.called)
      BY <1>3, <2>3
    <3>2. entry'[g] = entry[g]
      BY <1>2, <2>1, <2>3, <3>1
    <3>3. QED
      BY <2>1, <2>2, <2>3, <3>1, <3>2
  <2>4. CASE p \in 1..q.called
    <3>1. entry'[g] = [entry[g] EXCEPT !.position = p] /\ p # 0 /\ ~(p > q.called)
      BY <1>2, <1>3, <2>1, <2>4
    <3>2. /\ entry'[g] \in Entry /\ entry'[g].age = entry[g].age /\ entry'[g].at = entry[g].at
          /\ entry'[g].position = p /\ entry'[g].est = entry[g].est
          /\ entry'[g].floor = entry[g].floor
          /\ entry'[g].step = entry[g].step /\ entry'[g].max = entry[g].max
      BY <2>2, <3>1, MovedTyped
    <3>3. InRange(entry[g]) => InRange(entry'[g])
      BY <3>2 DEF InRange
    <3>4. QED
      BY <2>1, <2>2, <3>1, <3>2, <3>3
  <2>5. CASE p # 0 /\ p \notin 1..q.called
    <3>1. PICK k \in Nat : k = p - q.called - 1
      BY <1>3, <2>2, <2>5
    <3>2. PICK est \in Nat : /\ est = Waits!Rebased(entry[g], k) /\ entry[g].floor <= est
                             /\ est <= Waits!Cap(entry[g].floor, entry[g].max)
      BY <2>2, RebasedInRange
    <3>3. entry'[g] = Waits!Restarted(entry[g], est, p)
      BY <1>2, <2>1, <2>5, <3>1, <3>2
    <3>4. /\ entry'[g] \in Entry /\ entry'[g].age = 0 /\ entry'[g].at = entry[g].at
          /\ entry'[g].position = p /\ entry'[g].est = est
          /\ entry'[g].floor = entry[g].floor
          /\ entry'[g].step = entry[g].step /\ entry'[g].max = entry[g].max
      BY <2>2, <3>3, RestartedTyped
    <3>5. InRange(entry'[g])
      BY <3>2, <3>4 DEF InRange
    <3>6. QED
      BY <2>1, <2>2, <2>5, <3>1, <3>2, <3>4, <3>5
  <2>6. QED
    BY <2>3, <2>4, <2>5
<1>5. entry' \in [Guests -> Entry]
  BY <1>2, <1>4
<1>6. QED
  BY <1>1, <1>4, <1>5

LEMMA NoRequestTyped ==
  Waits!NoRequest \in Request /\ Waits!NoRequest.at = "idle"
<1>1. 0 \in 0..Cardinality(Guests)
  BY GuestsCounted
<1>2. [g \in Guests |-> 0] \in [Guests -> 0..Cardinality(Guests)]
  BY <1>1
<1>3. QED
  BY <1>2, NoFieldsTyped DEF Waits!NoRequest, Request

\* A resequence is owed.
LEMMA OwedShape ==
  ASSUME WaitsTyped, NEW r \in Slots, NEW g \in Guests,
         Waits!Depart(r, g) \/ Waits!Prioritize(r, g)
  PROVE  \E q \in Request : requests' = [requests EXCEPT ![r] = q] /\ q.at = "owed"
<1>1. requests \in [Slots -> Request] /\ requests[r] \in Request
  BY DEF WaitsTyped
<1>2. CASE Waits!Depart(r, g)
  <2>1. PICK q : q = [requests[r] EXCEPT !.at = "owed"]
    OBVIOUS
  <2>2. q \in Request /\ q.at = "owed"
    BY <1>1, <2>1 DEF Request
  <2>3. QED
    BY <1>2, <2>1, <2>2 DEF Waits!Depart
<1>3. CASE Waits!Prioritize(r, g)
  <2>1. PICK q : q = [requests[r] EXCEPT !.at = "owed", !.first = g]
    OBVIOUS
  <2>2. q \in Request /\ q.at = "owed"
    BY <1>1, <2>1 DEF Request
  <2>3. requests' = [requests EXCEPT ![r] = q]
    BY <1>1, <1>3, <2>1 DEF Waits!Prioritize
  <2>4. QED
    BY <2>2, <2>3
<1>4. QED
  BY <1>2, <1>3

\* A plan made of an order, or of one in which two who wait are exchanged.
LEMMA PlanShape ==
  ASSUME NEW order \in [Active -> 1..Cardinality(Active)],
         \A g, h \in Active : order[g] = order[h] => g = h,
         \A g \in Waiting : order[g] > Cardinality(Waits!Called)
  PROVE  Waits!Plan(order) \in Request /\ Waits!Plan(order).at = "plan" /\ PlanInv(Waits!Plan(order))
<1>1. PICK p : p = [g \in Guests |-> IF g \in Active THEN order[g] ELSE 0]
  OBVIOUS
<1>2. PICK n : n = Cardinality(Waits!Called)
  OBVIOUS
<1>3. n \in Nat /\ Cardinality(Active) \in Nat /\ Cardinality(Active) <= Cardinality(Guests)
  <2>1. IsFiniteSet(Active) /\ Waits!Called \subseteq Active
    BY GuestsCounted DEF Waits!Called
  <2>2. QED
    BY <1>2, <2>1, GuestsCounted, FS_Subset, FS_CardinalityType
<1>4. /\ p \in [Guests -> 0..Cardinality(Guests)]
      /\ \A g \in Guests : p[g] <= Cardinality(Active) /\ (p[g] > 0 <=> g \in Active)
      /\ \A g \in Active : p[g] = order[g]
  <2>1. \A g \in Active : order[g] \in 1..Cardinality(Active) /\ g \in Guests
    BY DEF Active
  <2>2. QED
    BY <1>1, <1>3, <2>1, GuestsCounted
<1>5. Waits!Plan(order) = [Waits!NoRequest EXCEPT !.at = "plan", !.called = n, !.order = p]
  BY <1>1, <1>2, GuestsCounted DEF Waits!Plan
<1>6. /\ Waits!Plan(order) \in Request /\ Waits!Plan(order).at = "plan"
      /\ Waits!Plan(order).called = n /\ Waits!Plan(order).order = p
  BY <1>3, <1>4, <1>5, NoRequestTyped DEF Request
<1>7. Waiting \subseteq Active /\ Active \subseteq Guests
  BY DEF Active, Waiting
<1>8. QED
  BY <1>2, <1>4, <1>6, <1>7 DEF PlanInv

LEMMA OrderShape ==
  ASSUME NEW front, NEW order \in Waits!Orders(front)
  PROVE  /\ order \in [Active -> 1..Cardinality(Active)]
         /\ \A g, h \in Active : order[g] = order[h] => g = h
         /\ \A g \in Waiting : order[g] > Cardinality(Waits!Called)
<1>1. /\ order \in [Active -> 1..Cardinality(Active)]
      /\ \A g, h \in Active : g # h =>
           /\ order[g] # order[h]
           /\ g \in Waits!Called /\ h \in Waiting => order[g] < order[h]
  BY GuestsCounted DEF Waits!Orders
<1>2. Waits!Called = Active \ Waiting /\ Waiting \subseteq Active /\ IsFiniteSet(Active)
  BY GuestsCounted DEF Waits!Called
<1>3. IsFiniteSet(Waits!Called) /\ Waits!Called \subseteq Active
  BY <1>2, FS_Subset
<1>4. ASSUME NEW h \in Waiting PROVE order[h] > Cardinality(Waits!Called)
  <2>1. \A g \in Waits!Called : order[g] < order[h]
    BY <1>1, <1>2
  <2>2. Cardinality(Active) \in Nat /\ h \in Active
    BY <1>2, GuestsCounted
  <2>3. QED
    BY <1>1, <1>3, <2>1, <2>2, CalledFirst
<1>5. QED
  BY <1>1, <1>4

LEMMA PlannedShape ==
  ASSUME WaitsTyped, NEW r \in Slots,
         Waits!ResequenceRead(r) \/ \E g \in Guests : Waits!Reorder(r, g)
  PROVE  \E q \in Request : requests' = [requests EXCEPT ![r] = q] /\ q.at = "plan" /\ PlanInv(q)
<1>1. CASE Waits!ResequenceRead(r)
  <2>1. PICK order \in Waits!Orders(requests[r].first) :
          requests' = [requests EXCEPT ![r] = Waits!Plan(order)]
    BY <1>1 DEF Waits!ResequenceRead
  <2>2. QED
    BY <2>1, OrderShape, PlanShape
<1>2. ASSUME NEW g \in Guests, Waits!Reorder(r, g)
      PROVE  \E q \in Request : requests' = [requests EXCEPT ![r] = q] /\ q.at = "plan" /\ PlanInv(q)
  <2>1. PICK order \in Waits!Orders("none"), h \in Waits!Waiting :
          /\ order[h] \in {order[g] + 1, order[g] - 1}
          /\ requests' = [requests EXCEPT ![r] =
               Waits!Plan([order EXCEPT ![g] = order[h], ![h] = order[g]])]
    BY <1>2 DEF Waits!Reorder
  <2>2. g \in Waiting /\ h \in Waiting /\ Waiting \subseteq Active
    BY <1>2, GuestsCounted DEF Waits!Reorder
  <2>3. /\ order \in [Active -> 1..Cardinality(Active)]
        /\ \A a, b \in Active : order[a] = order[b] => a = b
        /\ \A a \in Waiting : order[a] > Cardinality(Waits!Called)
    BY OrderShape
  <2>4. PICK swapped : swapped = [order EXCEPT ![g] = order[h], ![h] = order[g]]
    OBVIOUS
  <2>5. /\ swapped \in [Active -> 1..Cardinality(Active)]
        /\ \A a \in Active : swapped[a] = IF a = h THEN order[g] ELSE IF a = g THEN order[h]
                                          ELSE order[a]
    BY <2>2, <2>3, <2>4
  <2>6. \A a, b \in Active : swapped[a] = swapped[b] => a = b
    BY <2>2, <2>3, <2>5
  <2>7. \A a \in Waiting : swapped[a] > Cardinality(Waits!Called)
    BY <2>2, <2>3, <2>5
  <2>8. QED
    BY <2>1, <2>4, <2>5, <2>6, <2>7, PlanShape
<1>3. QED
  BY <1>1, <1>2

LEMMA PatchReadShape ==
  ASSUME WaitsTyped, NEW r \in Slots, NEW patch \in Patches, Waits!PatchRead(r, patch)
  PROVE  \E q \in Request :
           /\ requests' = [requests EXCEPT ![r] = q] /\ q.at = "patch" /\ q.patch = patch
           /\ q.write = Waits!Merge(patch, stored)
<1>1. PICK m \in Settings : m = Waits!Merge(patch, stored)
  BY PatchTyped, MergeTyped DEF WaitsTyped
<1>2. PICK q : q = [Waits!NoRequest EXCEPT !.at = "patch", !.patch = patch, !.write = m]
  OBVIOUS
<1>3. patch \in Settings
  BY PatchTyped
<1>4. q \in Request /\ q.at = "patch" /\ q.patch = patch /\ q.write = m
  BY <1>2, <1>3, NoRequestTyped DEF Request
<1>5. QED
  BY <1>1, <1>2, <1>4 DEF Waits!PatchRead

LEMMA RequestEnds ==
  ASSUME NEW r \in Slots, Waits!WritePlan(r) \/ Waits!PatchWrite(r)
  PROVE  \E q \in Request : requests' = [requests EXCEPT ![r] = q] /\ q.at = "idle"
BY NoRequestTyped DEF Waits!WritePlan, Waits!PatchWrite

-----------------------------------------------------------------------------
(* Types *)

LEMMA WaitsNextTyped == WaitsTyped /\ Waits!Next => WaitsTyped'
<1>1. SUFFICES ASSUME WaitsTyped, Waits!Next PROVE WaitsTyped'
  OBVIOUS
<1>2. /\ alone \in BOOLEAN /\ stored \in Settings /\ told \in Settings
      /\ entry \in [Guests -> Entry] /\ requests \in [Slots -> Request]
      /\ \A g \in Guests : /\ entry[g].at # "none" => entry[g].position > 0
                           /\ entry[g].age <= minutes /\ InRange(entry[g])
      /\ minutes \in 0..MaxMinutes /\ spent \in 0..MaxRequests
      /\ MaxMinutes \in Nat /\ MaxRequests \in Nat
  BY <1>1, BoundsAssumption DEF WaitsTyped
<1>3. ASSUME NEW g \in Guests, Waits!JoinRead(g) PROVE WaitsTyped'
  <2>1. UNCHANGED <<alone, stored, told, requests, minutes, spent>>
    BY <1>3 DEF Waits!JoinRead
  <2>2. PICK e \in Entry : /\ entry' = [entry EXCEPT ![g] = e]
                           /\ e.position = Cardinality(Active) + 1 /\ e.age = 0 /\ InRange(e)
    BY <1>1, <1>3, JoinReadShape
  <2>3. /\ entry' \in [Guests -> Entry]
        /\ \A h \in Guests : entry'[h] = IF h = g THEN e ELSE entry[h]
    BY <1>2, <2>2
  <2>4. e.position > 0 /\ e.age <= minutes
    BY <1>2, <2>2, GuestsCounted
  <2>5. \A h \in Guests : /\ entry'[h].at # "none" => entry'[h].position > 0
                          /\ entry'[h].age <= minutes /\ InRange(entry'[h])
    BY <1>2, <2>2, <2>3, <2>4
  <2>6. QED
    BY <1>2, <2>1, <2>3, <2>5 DEF WaitsTyped
<1>4. ASSUME NEW g \in Guests, NEW at \in {"waiting", "called", "gone"},
             entry' = [entry EXCEPT ![g].at = at], entry[g].at # "none",
             UNCHANGED <<alone, stored, told, minutes>>, requests' \in [Slots -> Request],
             spent' \in 0..MaxRequests
      PROVE  WaitsTyped'
  <2>1. entry \in [Guests -> Entry]
    BY <1>2
  <2>2. /\ entry' \in [Guests -> Entry] /\ \A h \in Guests \ {g} : entry'[h] = entry[h]
        /\ \A h \in Guests :
              /\ entry'[h].position = entry[h].position /\ entry'[h].age = entry[h].age
              /\ entry'[h].est = entry[h].est /\ entry'[h].floor = entry[h].floor
              /\ entry'[h].step = entry[h].step /\ entry'[h].max = entry[h].max
    BY <1>4, <2>1, EntryAt
  <2>3. \A h \in Guests : InRange(entry'[h])
    BY <1>2, <2>2 DEF InRange
  <2>4. \A h \in Guests : entry'[h].at # "none" => entry'[h].position > 0
    BY <1>2, <1>4, <2>2
  <2>5. \A h \in Guests : entry'[h].age <= minutes
    BY <1>2, <2>2
  <2>6. QED
    BY <1>2, <1>4, <2>2, <2>3, <2>4, <2>5 DEF WaitsTyped
<1>5. ASSUME NEW g \in Guests, Waits!JoinCreate(g) PROVE WaitsTyped'
  BY <1>2, <1>4, <1>5 DEF Waits!JoinCreate
<1>6. ASSUME NEW r \in Slots, NEW g \in Guests, Waits!Depart(r, g) PROVE WaitsTyped'
  <2>1. /\ UNCHANGED <<alone, stored, told, minutes>> /\ entry[g].at # "none"
        /\ \E at \in {"called", "gone"} : entry' = [entry EXCEPT ![g].at = at]
    BY <1>6 DEF Waits!Depart, Waits!Active
  <2>2. requests' \in [Slots -> Request]
    BY <1>1, <1>2, <1>6, OwedShape
  <2>3. spent' \in 0..MaxRequests
    BY <1>2, <1>6 DEF Waits!Depart, Waits!Begin
  <2>4. QED
    BY <1>4, <2>1, <2>2, <2>3
<1>7. ASSUME UNCHANGED <<alone, stored, told, entry, minutes>>, requests' \in [Slots -> Request],
             spent' \in 0..MaxRequests
      PROVE  WaitsTyped'
  BY <1>2, <1>7 DEF WaitsTyped
<1>8. ASSUME NEW r \in Slots, NEW g \in Guests, Waits!Prioritize(r, g) PROVE WaitsTyped'
  <2>1. requests' \in [Slots -> Request]
    BY <1>1, <1>2, <1>8, OwedShape
  <2>2. QED
    BY <1>2, <1>7, <1>8, <2>1 DEF Waits!Prioritize, Waits!Begin
<1>9. ASSUME NEW r \in Slots, NEW g \in Guests, Waits!Reorder(r, g) PROVE WaitsTyped'
  <2>1. requests' \in [Slots -> Request]
    BY <1>1, <1>2, <1>9, PlannedShape
  <2>2. QED
    BY <1>2, <1>7, <1>9, <2>1 DEF Waits!Reorder, Waits!Begin
<1>10. ASSUME NEW r \in Slots, Waits!ResequenceRead(r) PROVE WaitsTyped'
  <2>1. requests' \in [Slots -> Request]
    BY <1>1, <1>2, <1>10, PlannedShape
  <2>2. QED
    BY <1>2, <1>7, <1>10, <2>1 DEF Waits!ResequenceRead
<1>11. ASSUME NEW r \in Slots, NEW patch \in Patches, Waits!PatchRead(r, patch) PROVE WaitsTyped'
  <2>1. requests' \in [Slots -> Request]
    BY <1>1, <1>2, <1>11, PatchReadShape
  <2>2. QED
    BY <1>2, <1>7, <1>11, <2>1 DEF Waits!PatchRead, Waits!Begin
<1>12. ASSUME NEW r \in Slots, Waits!PatchWrite(r) PROVE WaitsTyped'
  <2>1. requests' \in [Slots -> Request]
    BY <1>2, <1>12, RequestEnds
  <2>2. requests[r].write \in Settings /\ requests[r].patch \in Settings
    BY <1>2 DEF Request
  <2>3. stored' \in Settings /\ told' \in Settings
    BY <1>2, <1>12, <2>2, MergeTyped DEF Waits!PatchWrite
  <2>4. QED
    BY <1>2, <1>12, <2>1, <2>3 DEF WaitsTyped, Waits!PatchWrite
<1>13. ASSUME NEW r \in Slots, Waits!WritePlan(r) PROVE WaitsTyped'
  <2>1. /\ requests' \in [Slots -> Request]
        /\ UNCHANGED <<alone, stored, told, minutes, spent>>
    BY <1>2, <1>13, RequestEnds DEF Waits!WritePlan
  <2>2. entry' \in [Guests -> Entry]
    BY <1>1, <1>13, WritePlanShape
  <2>3. ASSUME NEW g \in Guests
        PROVE  /\ entry'[g].at # "none" => entry'[g].position > 0
               /\ entry'[g].age <= minutes /\ InRange(entry'[g])
    <3>1. PICK p : p = requests[r].order[g]
      OBVIOUS
    <3>2. /\ entry'[g].at = entry[g].at /\ entry'[g].age <= entry[g].age
          /\ entry'[g].position = IF p = 0 THEN entry[g].position ELSE p
          /\ InRange(entry'[g])
      BY <1>1, <1>2, <1>13, <3>1, WritePlanShape
    <3>3. p \in Nat
      BY <1>2, <3>1, GuestsCounted DEF Request
    <3>4. entry[g] \in Entry /\ entry'[g] \in Entry
      BY <1>2, <2>2
    <3>5. entry[g].age \in Nat /\ entry'[g].age \in Nat
      BY <3>4 DEF Entry
    <3>6. QED
      BY <1>2, <3>2, <3>3, <3>5
  <2>4. QED
    BY <1>2, <2>1, <2>2, <2>3 DEF WaitsTyped
<1>14. ASSUME Waits!Minute PROVE WaitsTyped'
  <2>1. /\ UNCHANGED <<alone, stored, told, requests, spent>>
        /\ minutes' = minutes + 1 /\ minutes' \in 0..MaxMinutes
    BY <1>2, <1>14 DEF Waits!Minute
  <2>2. entry' \in [Guests -> Entry]
    BY <1>1, <1>14, MinuteShape
  <2>3. ASSUME NEW g \in Guests
        PROVE  /\ entry'[g].at # "none" => entry'[g].position > 0
               /\ entry'[g].age <= minutes' /\ InRange(entry'[g])
    <3>1. /\ entry'[g].at = entry[g].at /\ entry'[g].position = entry[g].position
          /\ entry'[g].est = entry[g].est /\ entry'[g].floor = entry[g].floor
          /\ entry'[g].max = entry[g].max
          /\ entry'[g].age \in {entry[g].age, entry[g].age + 1}
      BY <1>1, <1>14, MinuteShape
    <3>2. entry[g] \in Entry
      BY <1>2
    <3>3. entry[g].age \in Nat
      BY <3>2 DEF Entry
    <3>4. entry'[g].age <= minutes'
      BY <1>2, <2>1, <3>1, <3>3
    <3>5. InRange(entry'[g])
      BY <1>2, <3>1 DEF InRange
    <3>6. QED
      BY <1>2, <3>1, <3>4, <3>5
  <2>4. QED
    BY <1>2, <2>1, <2>2, <2>3 DEF WaitsTyped
<1>15. QED
  BY <1>1, <1>3, <1>5, <1>6, <1>8, <1>9, <1>10, <1>11, <1>12, <1>13, <1>14 DEF Waits!Next

-----------------------------------------------------------------------------
(* Requests one at a time: one under way, and settings that are kept *)

\* A request or a join begins where none is under way.
LEMMA LoneBegins ==
  ASSUME WaitsTyped, ~Waits!UnderWay,
         \/ /\ \E r \in Slots, q \in Request : requests' = [requests EXCEPT ![r] = q]
            /\ \A g \in Guests : entry'[g].at = "joining" => entry[g].at = "joining"
         \/ /\ \E g \in Guests, e \in Entry : entry' = [entry EXCEPT ![g] = e]
            /\ requests' = requests
  PROVE  LoneRequest'
<1>1. /\ \A r \in Slots : requests[r].at = "idle"
      /\ \A g \in Guests : entry[g].at # "joining"
      /\ requests \in [Slots -> Request] /\ entry \in [Guests -> Entry]
  BY DEF Waits!UnderWay, WaitsTyped
<1>2. CASE /\ \E r \in Slots, q \in Request : requests' = [requests EXCEPT ![r] = q]
           /\ \A g \in Guests : entry'[g].at = "joining" => entry[g].at = "joining"
  <2>1. PICK r \in Slots : \A u \in Slots \ {r} : requests'[u].at = "idle"
    BY <1>1, <1>2
  <2>2. QED
    BY <1>1, <1>2, <2>1 DEF LoneRequest
<1>3. CASE /\ \E g \in Guests, e \in Entry : entry' = [entry EXCEPT ![g] = e]
           /\ requests' = requests
  <2>1. PICK g \in Guests : \A h \in Guests \ {g} : entry'[h].at # "joining"
    BY <1>1, <1>3
  <2>2. QED
    BY <1>1, <1>3, <2>1 DEF LoneRequest
<1>4. QED
  BY <1>2, <1>3

LEMMA LoneGoesOn ==
  ASSUME LoneRequest,
         \A r \in Slots : requests'[r].at # "idle" => requests[r].at # "idle",
         \A g \in Guests : entry'[g].at = "joining" => entry[g].at = "joining"
  PROVE  LoneRequest'
BY DEF LoneRequest

LEMMA LoneNext ==
  ASSUME WaitsTyped, alone, LoneRequest, Waits!Next
  PROVE  LoneRequest'
<1>1. requests \in [Slots -> Request] /\ entry \in [Guests -> Entry]
  BY DEF WaitsTyped
<1>2. ASSUME NEW g \in Guests, Waits!JoinRead(g) PROVE LoneRequest'
  <2>1. ~Waits!UnderWay /\ requests' = requests
    BY <1>2 DEF Waits!JoinRead, Waits!MayBegin
  <2>2. \E e \in Entry : entry' = [entry EXCEPT ![g] = e]
    BY <1>2, JoinReadShape
  <2>3. QED
    BY <2>1, <2>2, LoneBegins
<1>3. ASSUME NEW r \in Slots, NEW g \in Guests, Waits!Depart(r, g) PROVE LoneRequest'
  <2>1. ~Waits!UnderWay
    BY <1>3 DEF Waits!Depart, Waits!Begin, Waits!MayBegin
  <2>2. \E q \in Request : requests' = [requests EXCEPT ![r] = q]
    BY <1>3, OwedShape
  <2>3. PICK at \in {"waiting", "called", "gone"} :
          at # "waiting" /\ entry' = [entry EXCEPT ![g].at = at]
    BY <1>3 DEF Waits!Depart
  <2>4. entry'[g].at = at /\ \A h \in Guests \ {g} : entry'[h] = entry[h]
    BY <1>1, <2>3, EntryAt
  <2>5. \A h \in Guests : entry'[h].at = "joining" => entry[h].at = "joining"
    BY <2>3, <2>4
  <2>6. QED
    BY <2>1, <2>2, <2>5, LoneBegins
<1>4. ASSUME NEW r \in Slots, NEW g \in Guests, Waits!Prioritize(r, g) PROVE LoneRequest'
  <2>1. ~Waits!UnderWay /\ entry' = entry
    BY <1>4 DEF Waits!Prioritize, Waits!Begin, Waits!MayBegin
  <2>2. \E q \in Request : requests' = [requests EXCEPT ![r] = q]
    BY <1>4, OwedShape
  <2>3. QED
    BY <2>1, <2>2, LoneBegins
<1>5. ASSUME NEW r \in Slots, NEW g \in Guests, Waits!Reorder(r, g) PROVE LoneRequest'
  <2>1. ~Waits!UnderWay /\ entry' = entry
    BY <1>5 DEF Waits!Reorder, Waits!Begin, Waits!MayBegin
  <2>2. \E q \in Request : requests' = [requests EXCEPT ![r] = q]
    BY <1>5, PlannedShape
  <2>3. QED
    BY <2>1, <2>2, LoneBegins
<1>6. ASSUME NEW r \in Slots, NEW patch \in Patches, Waits!PatchRead(r, patch) PROVE LoneRequest'
  <2>1. ~Waits!UnderWay /\ entry' = entry
    BY <1>6 DEF Waits!PatchRead, Waits!Begin, Waits!MayBegin
  <2>2. \E q \in Request : requests' = [requests EXCEPT ![r] = q]
    BY <1>6, PatchReadShape
  <2>3. QED
    BY <2>1, <2>2, LoneBegins
<1>7. ASSUME NEW g \in Guests, Waits!JoinCreate(g) PROVE LoneRequest'
  <2>1. requests' = requests /\ entry' = [entry EXCEPT ![g].at = "waiting"]
    BY <1>7 DEF Waits!JoinCreate
  <2>2. entry'[g].at = "waiting" /\ \A h \in Guests \ {g} : entry'[h] = entry[h]
    BY <1>1, <2>1, EntryAt
  <2>3. QED
    BY <2>1, <2>2, LoneGoesOn
<1>8. ASSUME NEW r \in Slots, Waits!ResequenceRead(r) PROVE LoneRequest'
  <2>1. requests[r].at = "owed" /\ entry' = entry
    BY <1>8 DEF Waits!ResequenceRead
  <2>2. \E q \in Request : requests' = [requests EXCEPT ![r] = q]
    BY <1>8, PlannedShape
  <2>3. \A u \in Slots : requests'[u].at # "idle" => requests[u].at # "idle"
    BY <1>1, <2>1, <2>2
  <2>4. QED
    BY <2>1, <2>3, LoneGoesOn
<1>9. ASSUME NEW r \in Slots, Waits!WritePlan(r) \/ Waits!PatchWrite(r) PROVE LoneRequest'
  <2>1. \A u \in Slots : requests'[u].at # "idle" => requests[u].at # "idle"
    BY <1>1, <1>9, RequestEnds
  <2>2. \A g \in Guests : entry'[g].at = entry[g].at
    BY <1>9, WritePlanShape DEF Waits!PatchWrite
  <2>3. QED
    BY <2>1, <2>2, LoneGoesOn
<1>10. ASSUME Waits!Minute PROVE LoneRequest'
  <2>1. requests' = requests /\ \A g \in Guests : entry'[g].at = entry[g].at
    BY <1>10, MinuteShape DEF Waits!Minute
  <2>2. QED
    BY <2>1, LoneGoesOn
<1>11. QED
  BY <1>2, <1>3, <1>4, <1>5, <1>6, <1>7, <1>8, <1>9, <1>10 DEF Waits!Next

\* A patch that is accepted leaves no cap below the base.
LEMMA AcceptedIsSound ==
  ASSUME NEW p \in Settings, NEW s \in Settings, Sound(s),
         LET merged == Waits!Merge(p, Waits!Resolve(s)) IN merged.max >= merged.base
  PROVE  Sound(Waits!Merge(p, s))
<1>1. PICK res : res = Waits!Resolve(s)
  OBVIOUS
<1>2. /\ DOMAIN res = Fields /\ DOMAIN p \subseteq Fields /\ DOMAIN s \subseteq Fields
      /\ res["base"] = IF "base" \in DOMAIN s THEN s["base"] ELSE Waits!Defaults["base"]
      /\ res["max"] = IF "max" \in DOMAIN s THEN s["max"] ELSE Waits!Defaults["max"]
  <2>1. "base" \in Fields \ {"max"} /\ DOMAIN p \subseteq Fields /\ DOMAIN s \subseteq Fields
    BY DEF Settings, Fields
  <2>2. QED
    BY <1>1, <2>1, ResolveTyped
<1>3. /\ DOMAIN Waits!Defaults = Fields /\ "max" \in Fields /\ "base" \in Fields
  BY DEF Waits!Defaults, Fields
<1>4. PICK m : m = Waits!Merge(p, s)
  OBVIOUS
<1>5. /\ DOMAIN m = DOMAIN p \cup DOMAIN s
      /\ \A f \in DOMAIN p \cup DOMAIN s : m[f] = IF f \in DOMAIN p THEN p[f] ELSE s[f]
  BY <1>4, MergeTyped
<1>6. ASSUME NEW f \in {"base", "max"}
      PROVE  Waits!Merge(m, Waits!Defaults)[f] = Waits!Merge(p, res)[f]
  <2>1. f \in Fields /\ res[f] = IF f \in DOMAIN s THEN s[f] ELSE Waits!Defaults[f]
    BY <1>2, <1>3
  <2>2. Waits!Merge(p, res)[f] = IF f \in DOMAIN p THEN p[f] ELSE res[f]
    BY <1>2, <2>1 DEF Waits!Merge
  <2>3. Waits!Merge(m, Waits!Defaults)[f] = IF f \in DOMAIN m THEN m[f] ELSE Waits!Defaults[f]
    BY <1>2, <1>3, <1>5, <2>1 DEF Waits!Merge
  <2>4. QED
    BY <1>5, <2>1, <2>2, <2>3
<1>7. QED
  BY <1>1, <1>4, <1>6 DEF Sound

LEMMA SettingsNext ==
  ASSUME WaitsTyped, alone, LoneRequest, SettingsInv, Waits!Next
  PROVE  SettingsInv'
<1>1. requests \in [Slots -> Request] /\ stored \in Settings /\ told \in Settings
  BY DEF WaitsTyped
<1>2. ASSUME stored' = stored, told' = told,
             \A r \in Slots : requests'[r].at = "patch" => requests'[r] = requests[r]
      PROVE  SettingsInv'
  BY <1>2 DEF SettingsInv
<1>3. ASSUME stored' = stored, told' = told, NEW r \in Slots,
             \E q \in Request : requests' = [requests EXCEPT ![r] = q] /\ q.at # "patch"
      PROVE  SettingsInv'
  BY <1>1, <1>2, <1>3
<1>4. ASSUME NEW r \in Slots, NEW patch \in Patches, Waits!PatchRead(r, patch) PROVE SettingsInv'
  <2>1. /\ ~Waits!UnderWay /\ stored' = stored /\ told' = told
        /\ LET merged == Waits!Merge(patch, Waits!Resolve(stored)) IN merged.max >= merged.base
    BY <1>4 DEF Waits!PatchRead, Waits!Begin, Waits!MayBegin, Waits!Accepted
  <2>2. PICK q \in Request :
          /\ requests' = [requests EXCEPT ![r] = q] /\ q.patch = patch
          /\ q.write = Waits!Merge(patch, stored)
    BY <1>4, PatchReadShape
  <2>3. Sound(q.write)
    BY <1>1, <2>1, <2>2, PatchTyped, AcceptedIsSound DEF SettingsInv
  <2>4. \A u \in Slots : requests'[u] = IF u = r THEN q ELSE requests[u]
    BY <1>1, <2>2
  <2>5. \A u \in Slots : requests[u].at = "idle"
    BY <2>1 DEF Waits!UnderWay
  <2>6. QED
    BY <2>1, <2>2, <2>3, <2>4, <2>5 DEF SettingsInv
<1>5. ASSUME NEW r \in Slots, Waits!PatchWrite(r) PROVE SettingsInv'
  <2>1. /\ requests[r].at = "patch" /\ stored' = requests[r].write
        /\ told' = Waits!Merge(requests[r].patch, told)
    BY <1>5 DEF Waits!PatchWrite
  <2>2. stored' = told' /\ Sound(stored')
    BY <2>1 DEF SettingsInv
  <2>3. \A u \in Slots : requests'[u].at = "idle"
    <3>1. \A u \in Slots \ {r} : requests[u].at = "idle"
      BY <2>1 DEF LoneRequest
    <3>2. QED
      BY <1>1, <1>5, <3>1, RequestEnds
  <2>4. QED
    BY <2>2, <2>3 DEF SettingsInv
<1>6. ASSUME NEW r \in Slots, NEW g \in Guests, Waits!Depart(r, g) \/ Waits!Prioritize(r, g)
      PROVE  SettingsInv'
  <2>1. stored' = stored /\ told' = told
    BY <1>6 DEF Waits!Depart, Waits!Prioritize
  <2>2. QED
    BY <1>3, <1>6, <2>1, OwedShape
<1>7. ASSUME NEW r \in Slots,
             Waits!ResequenceRead(r) \/ \E g \in Guests : Waits!Reorder(r, g)
      PROVE  SettingsInv'
  <2>1. stored' = stored /\ told' = told
    BY <1>7 DEF Waits!ResequenceRead, Waits!Reorder
  <2>2. \E q \in Request : requests' = [requests EXCEPT ![r] = q] /\ q.at = "plan"
    BY <1>7, PlannedShape
  <2>3. QED
    BY <1>3, <2>1, <2>2
<1>8. ASSUME NEW r \in Slots, Waits!WritePlan(r) PROVE SettingsInv'
  <2>1. stored' = stored /\ told' = told
    BY <1>8 DEF Waits!WritePlan
  <2>2. \E q \in Request : requests' = [requests EXCEPT ![r] = q] /\ q.at = "idle"
    BY <1>8, RequestEnds
  <2>3. QED
    BY <1>3, <2>1, <2>2
<1>9. ASSUME Waits!Minute \/ \E g \in Guests : Waits!JoinRead(g) \/ Waits!JoinCreate(g)
      PROVE  SettingsInv'
  <2>1. stored' = stored /\ told' = told /\ requests' = requests
    BY <1>9 DEF Waits!Minute, Waits!JoinRead, Waits!JoinCreate
  <2>2. QED
    BY <1>2, <2>1
<1>10. QED
  BY <1>4, <1>5, <1>6, <1>7, <1>8, <1>9 DEF Waits!Next

-----------------------------------------------------------------------------
(* Requests one at a time: the positions, and what is planned *)

QueueInv ==
  /\ Settled => PositionsInv
  /\ \A r \in Slots : requests[r].at = "plan" => PlanInv(requests[r])

\* Nobody changes place.
LEMMA PlacesStay ==
  ASSUME \A g \in Guests : entry'[g].at = entry[g].at
  PROVE  Active' = Active /\ Waiting' = Waiting
BY DEF Active, Waiting

LEMMA PlacesKeepQueue ==
  ASSUME QueueInv, requests' = requests,
         \A g \in Guests : entry'[g].at = entry[g].at /\ entry'[g].position = entry[g].position
  PROVE  QueueInv'
<1>1. Active' = Active /\ Waiting' = Waiting /\ Active \subseteq Guests
  BY PlacesStay DEF Active
<1>2. Settled' <=> Settled
  BY DEF Settled
<1>3. PositionsInv => PositionsInv'
  BY <1>1 DEF PositionsInv
<1>4. \A r \in Slots : requests[r].at = "plan" => PlanInv(requests[r])'
  BY <1>1 DEF QueueInv, PlanInv
<1>5. QED
  BY <1>2, <1>3, <1>4 DEF QueueInv

\* The only request is now at q.
LEMMA RequestKeepsQueue ==
  ASSUME requests \in [Slots -> Request], NEW r \in Slots, NEW q \in Request,
         requests' = [requests EXCEPT ![r] = q],
         \A u \in Slots \ {r} : requests[u].at = "idle",
         q.at \in {"idle", "patch"} => PositionsInv',
         q.at = "plan" => PlanInv(q)'
  PROVE  QueueInv'
<1>1. \A u \in Slots : requests'[u] = IF u = r THEN q ELSE requests[u]
  OBVIOUS
<1>2. Settled' => PositionsInv'
  BY <1>1 DEF Settled
<1>3. ASSUME NEW u \in Slots, requests'[u].at = "plan" PROVE PlanInv(requests[u])'
  <2>1. u = r /\ requests'[u] = q /\ q.at = "plan"
    BY <1>1, <1>3
  <2>2. QED
    BY <2>1 DEF PlanInv
<1>4. QED
  BY <1>2, <1>3 DEF QueueInv

LEMMA JoinReadKeepsQueue ==
  ASSUME WaitsTyped, alone, QueueInv, NEW g \in Guests, Waits!JoinRead(g)
  PROVE  QueueInv'
<1>1. /\ requests' = requests /\ entry[g].at = "none" /\ ~Waits!UnderWay
      /\ entry \in [Guests -> Entry]
  BY DEF Waits!JoinRead, Waits!MayBegin, WaitsTyped
<1>2. /\ \A r \in Slots : requests[r].at = "idle"
      /\ \A h \in Guests : entry[h].at # "joining"
  BY <1>1 DEF Waits!UnderWay
<1>3. PICK e \in Entry : /\ entry' = [entry EXCEPT ![g] = e] /\ e.at = "joining"
                         /\ e.position = Cardinality(Active) + 1
  BY JoinReadShape
<1>4. \A h \in Guests : entry'[h] = IF h = g THEN e ELSE entry[h]
  BY <1>1, <1>3
<1>5. Active' = Active /\ g \notin Active /\ Active \subseteq Guests
  BY <1>1, <1>3, <1>4 DEF Active
<1>6. PositionsInv
  BY <1>2 DEF QueueInv, Settled
<1>7. PositionsInv'
  BY <1>2, <1>3, <1>4, <1>5, <1>6 DEF PositionsInv
<1>8. QED
  BY <1>1, <1>2, <1>7 DEF QueueInv

LEMMA JoinCreateKeepsQueue ==
  ASSUME WaitsTyped, alone, LoneRequest, QueueInv, NEW g \in Guests, Waits!JoinCreate(g)
  PROVE  QueueInv'
<1>1. /\ requests' = requests /\ entry[g].at = "joining" /\ entry \in [Guests -> Entry]
      /\ entry' = [entry EXCEPT ![g].at = "waiting"]
  BY DEF Waits!JoinCreate, WaitsTyped
<1>2. /\ entry'[g].at = "waiting" /\ entry'[g].position = entry[g].position
      /\ \A h \in Guests \ {g} : entry'[h] = entry[h]
  BY <1>1, EntryAt
<1>3. /\ \A r \in Slots : requests[r].at = "idle"
      /\ \A h \in Guests \ {g} : entry[h].at # "joining"
  BY <1>1 DEF LoneRequest
<1>4. PositionsInv
  BY <1>3 DEF QueueInv, Settled
<1>5. Active' = Active \cup {g} /\ g \notin Active /\ Active \subseteq Guests
  BY <1>1, <1>2 DEF Active
<1>6. PICK n \in Nat : n = Cardinality(Active)
  BY GuestsCounted
<1>7. Cardinality(Active') = n + 1
  <2>1. IsFiniteSet(Active)
    BY GuestsCounted
  <2>2. QED
    BY <1>5, <1>6, <2>1, FS_AddElement
<1>8. entry'[g].position = n + 1
  BY <1>1, <1>2, <1>4, <1>6 DEF PositionsInv
<1>9. \A h \in Active : /\ h # g /\ entry'[h].position = entry[h].position
                        /\ entry'[h].position <= n /\ entry'[h].position \in Nat
  <2>1. \A h \in Active : entry[h].position \in Nat
    BY <1>1, <1>5, GuestsCounted DEF Entry
  <2>2. QED
    BY <1>2, <1>4, <1>5, <1>6, <2>1 DEF PositionsInv
<1>10. PositionsInv'
  <2>1. \A h \in Active' : entry'[h].position <= Cardinality(Active')
    BY <1>5, <1>7, <1>8, <1>9
  <2>2. \A h, k \in Active' : entry'[h].position = entry'[k].position => h = k
    BY <1>4, <1>5, <1>8, <1>9 DEF PositionsInv
  <2>3. \A h \in Guests : entry'[h].at # "joining"
    BY <1>2, <1>3
  <2>4. QED
    BY <2>1, <2>2, <2>3 DEF PositionsInv
<1>11. QED
  BY <1>1, <1>3, <1>10 DEF QueueInv

LEMMA WritePlanKeepsQueue ==
  ASSUME WaitsTyped, alone, LoneRequest, QueueInv, NEW r \in Slots, Waits!WritePlan(r)
  PROVE  QueueInv'
<1>1. PICK q : q = requests[r]
  OBVIOUS
<1>2. /\ q.at = "plan" /\ PlanInv(q) /\ q.order \in [Guests -> 0..Cardinality(Guests)]
      /\ requests \in [Slots -> Request]
  BY <1>1 DEF Waits!WritePlan, QueueInv, WaitsTyped, Request
<1>3. /\ \A u \in Slots \ {r} : requests[u].at = "idle"
      /\ \A h \in Guests : entry[h].at # "joining"
  BY <1>1, <1>2 DEF LoneRequest
<1>4. \A g \in Guests :
        /\ entry'[g].at = entry[g].at
        /\ entry'[g].position = IF q.order[g] = 0 THEN entry[g].position ELSE q.order[g]
  BY <1>1, WritePlanShape
<1>5. Active' = Active /\ Active \subseteq Guests
  BY <1>4, PlacesStay DEF Active
<1>6. \A g \in Active : entry'[g].position = q.order[g] /\ q.order[g] <= Cardinality(Active)
  BY <1>2, <1>4, <1>5, GuestsCounted DEF PlanInv
<1>7. PositionsInv'
  BY <1>2, <1>3, <1>4, <1>5, <1>6 DEF PositionsInv, PlanInv
<1>8. PICK x \in Request : requests' = [requests EXCEPT ![r] = x] /\ x.at = "idle"
  BY RequestEnds
<1>9. QED
  BY <1>2, <1>3, <1>7, <1>8, RequestKeepsQueue

LEMMA QueueNext ==
  ASSUME WaitsTyped, alone, LoneRequest, QueueInv, Waits!Next
  PROVE  QueueInv'
<1>1. requests \in [Slots -> Request]
  BY DEF WaitsTyped
<1>2. ~Waits!UnderWay => (\A r \in Slots : requests[r].at = "idle") /\ PositionsInv
  BY DEF Waits!UnderWay, QueueInv, Settled
<1>3. ASSUME NEW r \in Slots, NEW g \in Guests, Waits!Depart(r, g) \/ Waits!Prioritize(r, g)
      PROVE  QueueInv'
  <2>1. ~Waits!UnderWay
    BY <1>3 DEF Waits!Depart, Waits!Prioritize, Waits!Begin, Waits!MayBegin
  <2>2. PICK q \in Request : requests' = [requests EXCEPT ![r] = q] /\ q.at = "owed"
    BY <1>3, OwedShape
  <2>3. QED
    BY <1>1, <1>2, <2>1, <2>2, RequestKeepsQueue
<1>4. ASSUME NEW r \in Slots, Waits!ResequenceRead(r) \/ \E g \in Guests : Waits!Reorder(r, g)
      PROVE  QueueInv'
  <2>1. /\ entry' = entry
        /\ \A u \in Slots \ {r} : requests[u].at = "idle"
    <3>1. CASE Waits!ResequenceRead(r)
      BY <3>1 DEF Waits!ResequenceRead, LoneRequest
    <3>2. CASE \E g \in Guests : Waits!Reorder(r, g)
      BY <1>2, <3>2 DEF Waits!Reorder, Waits!Begin, Waits!MayBegin
    <3>3. QED
      BY <1>4, <3>1, <3>2
  <2>2. PICK q \in Request : /\ requests' = [requests EXCEPT ![r] = q] /\ q.at = "plan"
                             /\ PlanInv(q)
    BY <1>4, PlannedShape
  <2>3. Active' = Active /\ Waiting' = Waiting
    BY <2>1, PlacesStay
  <2>4. PlanInv(q)'
    BY <2>2, <2>3 DEF PlanInv
  <2>5. QED
    BY <1>1, <2>1, <2>2, <2>4, RequestKeepsQueue
<1>5. ASSUME entry' = entry, PositionsInv PROVE PositionsInv'
  <2>1. Active' = Active
    BY <1>5, PlacesStay
  <2>2. QED
    BY <1>5, <2>1 DEF PositionsInv
<1>6. ASSUME NEW r \in Slots, NEW patch \in Patches, Waits!PatchRead(r, patch) PROVE QueueInv'
  <2>1. ~Waits!UnderWay /\ entry' = entry
    BY <1>6 DEF Waits!PatchRead, Waits!Begin, Waits!MayBegin
  <2>2. PICK q \in Request : requests' = [requests EXCEPT ![r] = q] /\ q.at = "patch"
    BY <1>6, PatchReadShape
  <2>3. QED
    BY <1>1, <1>2, <1>5, <2>1, <2>2, RequestKeepsQueue
<1>7. ASSUME NEW r \in Slots, Waits!PatchWrite(r) PROVE QueueInv'
  <2>1. /\ entry' = entry /\ requests[r].at = "patch"
        /\ \A u \in Slots \ {r} : requests[u].at = "idle"
    BY <1>7 DEF Waits!PatchWrite, LoneRequest
  <2>2. PositionsInv
    BY <2>1 DEF QueueInv, Settled
  <2>3. PICK q \in Request : requests' = [requests EXCEPT ![r] = q] /\ q.at = "idle"
    BY <1>7, RequestEnds
  <2>4. QED
    BY <1>1, <1>5, <2>1, <2>2, <2>3, RequestKeepsQueue
<1>8. ASSUME Waits!Minute PROVE QueueInv'
  BY <1>8, MinuteShape, PlacesKeepQueue DEF Waits!Minute
<1>9. QED
  BY <1>3, <1>4, <1>6, <1>7, <1>8, JoinReadKeepsQueue, JoinCreateKeepsQueue, WritePlanKeepsQueue
     DEF Waits!Next

-----------------------------------------------------------------------------
(* Requests one at a time, settings left alone: waits in the order of the *)
(* queue                                                                   *)

WaitOrderInv == told = Waits!NoFields => DefaultSnapshots /\ (Settled => OrderInv)

LEMMA DefaultsInForce ==
  ASSUME NEW s, s = Waits!Resolve(Waits!NoFields)
  PROVE  /\ s.base = 1 /\ s.step = 2 /\ s.max = 4 /\ s.decay = TRUE
         /\ Waits!Cap(1, 4) = 4
         /\ Waits!Defaults.base = 1 /\ Waits!Defaults.step = 2 /\ Waits!Defaults.max = 4
         /\ Waits!Defaults.decay = TRUE
<1>1. /\ Waits!Defaults.base = 1 /\ Waits!Defaults.step = 2 /\ Waits!Defaults.max = 4
      /\ Waits!Defaults.decay = TRUE /\ DOMAIN Waits!Defaults = Fields
  BY DEF Waits!Defaults, Fields
<1>2. DOMAIN Waits!NoFields = {} /\ Waits!NoFields \in Settings
  BY NoFieldsTyped
<1>3. \A f \in Fields : Waits!Merge(Waits!NoFields, Waits!Defaults)[f] = Waits!Defaults[f]
  BY <1>1, <1>2 DEF Waits!Merge
<1>4. Sound(Waits!NoFields)
  <2>1. "max" \in Fields /\ "base" \in Fields
    BY DEF Fields
  <2>2. QED
    BY <1>1, <1>3, <2>1 DEF Sound
<1>5. /\ s.max = Waits!Defaults.max
      /\ \A f \in Fields \ {"max"} : s[f] = Waits!Defaults[f]
  BY <1>2, <1>4, ResolveTyped
<1>6. {"base", "step", "decay"} \subseteq Fields \ {"max"}
  BY DEF Fields
<1>7. Waits!Cap(1, 4) = 4
  BY DEF Waits!Cap, Waits!Greater
<1>8. QED
  BY <1>1, <1>5, <1>6, <1>7

\* What is left of a wait told with the default settings.
LEMMA LeftIs ==
  ASSUME NEW e \in Entry, e.floor = 1
  PROVE  /\ Left(e) = IF e.est > e.age + 1 THEN e.est - e.age ELSE 1
         /\ \A s : s.decay = TRUE => Waits!Current(s, e) = Left(e)
         /\ Left(e) \in Nat
<1>1. e.est \in Nat /\ e.age \in Nat
  BY DEF Entry
<1>2. Waits!Defaults.decay = TRUE
  BY DEF Waits!Defaults
<1>3. Left(e) = Waits!Greater(e.floor, IF e.est > e.age THEN e.est - e.age ELSE 0)
  BY <1>2 DEF Left, Waits!Current
<1>4. QED
  BY <1>1, <1>3 DEF Waits!Greater, Waits!Current

\* Where the settings are the default ones, they were before the step.
LEMMA SettingsWereDefault ==
  ASSUME WaitsTyped, Waits!Next, told' = Waits!NoFields
  PROVE  told = Waits!NoFields
<1>1. told \in Settings /\ requests \in [Slots -> Request]
  BY DEF WaitsTyped
<1>2. ASSUME NEW r \in Slots, Waits!PatchWrite(r) PROVE told = Waits!NoFields
  <2>1. requests[r].patch \in Settings
    BY <1>1 DEF Request
  <2>2. told' = Waits!Merge(requests[r].patch, told)
    BY <1>2 DEF Waits!PatchWrite
  <2>3. DOMAIN Waits!Merge(requests[r].patch, told) = DOMAIN requests[r].patch \cup DOMAIN told
    BY <1>1, <2>1, MergeTyped
  <2>4. DOMAIN Waits!NoFields = {}
    BY NoFieldsTyped
  <2>5. DOMAIN told = {}
    BY <2>2, <2>3, <2>4
  <2>6. QED
    BY <1>1, <2>5, NoFieldsTyped
<1>3. told' = told \/ \E r \in Slots : Waits!PatchWrite(r)
  BY DEF Waits!Next, Waits!JoinRead, Waits!JoinCreate, Waits!Depart, Waits!Prioritize,
         Waits!Reorder, Waits!ResequenceRead, Waits!WritePlan, Waits!PatchRead, Waits!Minute
<1>4. QED
  BY <1>2, <1>3

\* Snapshots are kept by every step that makes no entry.
LEMMA SnapshotsStay ==
  ASSUME DefaultSnapshots,
         \A g \in Guests : entry'[g].at # "none" =>
           /\ entry[g].at # "none" /\ entry'[g].floor = entry[g].floor
           /\ entry'[g].step = entry[g].step /\ entry'[g].max = entry[g].max
  PROVE  DefaultSnapshots'
BY DEF DefaultSnapshots

LEMMA JoinReadKeepsOrder ==
  ASSUME WaitsTyped, alone, SettingsInv, QueueInv, WaitOrderInv, told = Waits!NoFields,
         NEW g \in Guests, Waits!JoinRead(g)
  PROVE  DefaultSnapshots' /\ OrderInv'
<1>1. /\ entry[g].at = "none" /\ ~Waits!UnderWay /\ entry \in [Guests -> Entry]
      /\ \A h \in Guests : InRange(entry[h])
      /\ stored = Waits!NoFields
  BY DEF Waits!JoinRead, Waits!MayBegin, WaitsTyped, SettingsInv
<1>2. /\ \A r \in Slots : requests[r].at = "idle"
      /\ \A h \in Guests : entry[h].at # "joining"
  BY <1>1 DEF Waits!UnderWay
<1>3. DefaultSnapshots /\ OrderInv /\ PositionsInv
  BY <1>2 DEF WaitOrderInv, QueueInv, Settled
<1>4. PICK s : s = Waits!Resolve(stored)
  OBVIOUS
<1>5. /\ s.base = 1 /\ s.step = 2 /\ s.max = 4 /\ s.decay = TRUE
      /\ Waits!Cap(1, 4) = 4
      /\ Waits!Defaults.base = 1 /\ Waits!Defaults.step = 2 /\ Waits!Defaults.max = 4
  BY <1>1, <1>4, DefaultsInForce
<1>6. PICK e \in Entry :
        /\ entry' = [entry EXCEPT ![g] = e] /\ e.at = "joining" /\ e.age = 0
        /\ e.floor = 1 /\ e.step = 2 /\ e.max = 4
        /\ e.est \in Waits!Allocations(s, e.position)
  BY <1>4, <1>5, JoinReadShape
<1>7. \A h \in Guests : entry'[h] = IF h = g THEN e ELSE entry[h]
  BY <1>1, <1>6
<1>8. Waiting' = Waiting /\ g \notin Waiting /\ Waiting \subseteq Guests
  BY <1>1, <1>6, <1>7 DEF Waiting
<1>9. DefaultSnapshots'
  BY <1>3, <1>5, <1>6, <1>7 DEF DefaultSnapshots
<1>10. ASSUME NEW k \in Waiting PROVE Left(entry[k]) <= Left(e)
  <2>1. PICK h \in Waits!LastWaiting : e.est = Waits!NextAllocation(s, Waits!Current(s, entry[h]))
    BY <1>5, <1>6, <1>10, GuestsCounted DEF Waits!Allocations
  <2>2. h \in Waiting /\ entry[k].position <= entry[h].position
    BY <1>10, <2>1, GuestsCounted DEF Waits!LastWaiting
  <2>3. /\ entry[h] \in Entry /\ entry[k] \in Entry
        /\ entry[h].floor = 1 /\ entry[h].max = 4 /\ entry[k].floor = 1
    BY <1>1, <1>3, <1>5, <1>8, <1>10, <2>2 DEF DefaultSnapshots, Waiting
  <2>4. PICK p \in Nat : /\ p = Left(entry[h]) /\ p = Waits!Current(s, entry[h]) /\ p <= 4
    <3>1. InRange(entry[h])
      BY <1>1, <1>8, <2>2
    <3>2. Waits!Current(s, entry[h]) <= 4
      BY <1>5, <2>3, <3>1, CurrentInRange
    <3>3. QED
      BY <1>5, <2>3, <3>2, LeftIs
  <2>5. Left(entry[k]) <= p
    <3>1. CASE entry[k].position = entry[h].position
      <4>1. k = h
        BY <1>3, <1>10, <2>2, <3>1, GuestsCounted DEF PositionsInv
      <4>2. Left(entry[k]) = p
        BY <2>4, <4>1
      <4>3. QED
        BY <4>2
    <3>2. CASE entry[k].position # entry[h].position
      <4>1. entry[k].position < entry[h].position
        <5>1. entry[k].position \in Nat /\ entry[h].position \in Nat
          BY <2>3, GuestsCounted DEF Entry
        <5>2. QED
          BY <2>2, <3>2, <5>1
      <4>2. QED
        BY <1>3, <1>10, <2>2, <2>4, <4>1 DEF OrderInv
    <3>3. QED
      BY <3>1, <3>2
  <2>6. e.est = Waits!Less(4, Waits!Greater(1, p) + 2)
    BY <1>5, <2>1, <2>4 DEF Waits!NextAllocation
  <2>7. p <= Left(e)
    <3>1. Left(e) = IF e.est > e.age + 1 THEN e.est - e.age ELSE 1
      BY <1>6, LeftIs
    <3>2. QED
      BY <1>6, <2>4, <2>6, <3>1 DEF Waits!Less, Waits!Greater
  <2>8. Left(entry[k]) \in Nat /\ Left(e) \in Nat
    BY <1>6, <2>3, LeftIs
  <2>9. QED
    BY <2>5, <2>7, <2>8
<1>11. OrderInv'
  <2>1. \A h \in Waiting : entry'[h] = entry[h] /\ Left(entry[h])' = Left(entry[h])
    BY <1>7, <1>8 DEF Left
  <2>2. Left(entry[g])' = Left(e)
    BY <1>7 DEF Left
  <2>3. \A h \in Guests : entry'[h].at = "joining" => h = g
    BY <1>2, <1>7
  <2>4. QED
    BY <1>3, <1>8, <1>10, <2>1, <2>2, <2>3 DEF OrderInv
<1>12. QED
  BY <1>9, <1>11

LEMMA JoinCreateKeepsOrder ==
  ASSUME WaitsTyped, alone, LoneRequest, QueueInv, WaitOrderInv, told = Waits!NoFields,
         NEW g \in Guests, Waits!JoinCreate(g)
  PROVE  DefaultSnapshots' /\ OrderInv'
<1>1. /\ entry[g].at = "joining" /\ entry \in [Guests -> Entry]
      /\ entry' = [entry EXCEPT ![g].at = "waiting"]
  BY DEF Waits!JoinCreate, WaitsTyped
<1>2. /\ entry' \in [Guests -> Entry] /\ entry'[g].at = "waiting"
      /\ \A h \in Guests \ {g} : entry'[h] = entry[h]
      /\ \A h \in Guests :
           /\ entry'[h].position = entry[h].position /\ entry'[h].age = entry[h].age
           /\ entry'[h].est = entry[h].est /\ entry'[h].floor = entry[h].floor
           /\ entry'[h].step = entry[h].step /\ entry'[h].max = entry[h].max
  BY <1>1, EntryAt
<1>3. /\ \A r \in Slots : requests[r].at = "idle"
      /\ \A h \in Guests \ {g} : entry[h].at # "joining"
  BY <1>1 DEF LoneRequest
<1>4. DefaultSnapshots /\ OrderInv /\ PositionsInv
  BY <1>3 DEF WaitOrderInv, QueueInv, Settled
<1>5. DefaultSnapshots'
  <2>1. \A h \in Guests : entry'[h].at # "none" => entry[h].at # "none"
    BY <1>1, <1>2
  <2>2. QED
    BY <1>2, <1>4, <2>1, SnapshotsStay
<1>6. Waiting' = Waiting \cup {g} /\ g \notin Waiting /\ Waiting \subseteq Guests
  BY <1>1, <1>2 DEF Waiting
<1>7. \A h \in Waiting' : Left(entry[h])' = Left(entry[h])
  <2>1. \A h \in Waiting' : entry[h].floor = 1 /\ entry'[h].floor = 1 /\ h \in Guests
    <3>1. \A h \in Waiting' : entry[h].at # "none"
      BY <1>1, <1>6 DEF Waiting
    <3>2. QED
      BY <1>2, <1>4, <1>6, <3>1 DEF DefaultSnapshots, Waits!Defaults
  <2>2. ASSUME NEW h \in Waiting' PROVE Left(entry[h])' = Left(entry[h])
    <3>1. PICK x : x = entry'[h]
      OBVIOUS
    <3>2. x \in Entry /\ entry[h] \in Entry /\ x.floor = 1 /\ x.est = entry[h].est /\ x.age = entry[h].age
      BY <1>1, <1>2, <2>1, <3>1
    <3>3. Left(x) = Left(entry[h])
      BY <2>1, <3>2, LeftIs
    <3>4. QED
      BY <3>1, <3>3 DEF Left
  <2>3. QED
    BY <2>2
<1>8. \A h \in Waiting : entry[h].position < entry[g].position
  <2>1. PICK n \in Nat : n = Cardinality(Active)
    BY GuestsCounted
  <2>2. entry[g].position = n + 1
    BY <1>1, <1>4, <2>1 DEF PositionsInv
  <2>3. \A h \in Waiting : entry[h].position <= n /\ entry[h].position \in Nat
    BY <1>1, <1>4, <1>6, <2>1, GuestsCounted DEF PositionsInv, Entry
  <2>4. QED
    BY <2>2, <2>3
<1>9. \A h \in Waiting : Left(entry[h]) <= Left(entry[g])
  BY <1>1, <1>4 DEF OrderInv
<1>10. entry[g].position \in Nat /\ \A h \in Waiting : entry[h].position \in Nat
  BY <1>1, <1>6, GuestsCounted DEF Entry
<1>11. \A h, k \in Waiting' : entry'[h].position < entry'[k].position =>
         Left(entry[h])' <= Left(entry[k])'
  <2>1. SUFFICES ASSUME NEW h \in Waiting', NEW k \in Waiting', entry'[h].position < entry'[k].position
                 PROVE  Left(entry[h]) <= Left(entry[k])
    BY <1>7
  <2>2. h \in Guests /\ k \in Guests /\ entry[h].position < entry[k].position
    BY <1>2, <1>6, <2>1
  <2>3. h # g
    BY <1>6, <1>8, <1>10, <2>2, <2>1
  <2>4. CASE k = g
    BY <1>6, <1>9, <2>1, <2>3, <2>4
  <2>5. CASE k # g
    BY <1>4, <1>6, <2>1, <2>2, <2>3, <2>5 DEF OrderInv
  <2>6. QED
    BY <2>4, <2>5
<1>12. \A h \in Guests : entry'[h].at # "joining"
  BY <1>2, <1>3
<1>13. QED
  BY <1>5, <1>11, <1>12 DEF OrderInv

LEMMA WritePlanKeepsOrder ==
  ASSUME WaitsTyped, alone, LoneRequest, QueueInv, WaitOrderInv, told = Waits!NoFields,
         NEW r \in Slots, Waits!WritePlan(r)
  PROVE  DefaultSnapshots' /\ OrderInv'
<1>1. PICK q : q = requests[r]
  OBVIOUS
<1>2. /\ q.at = "plan" /\ PlanInv(q) /\ entry \in [Guests -> Entry]
      /\ q.order \in [Guests -> Nat] /\ q.called \in Nat
  <2>1. /\ q.at = "plan" /\ PlanInv(q) /\ entry \in [Guests -> Entry]
        /\ q.order \in [Guests -> 0..Cardinality(Guests)] /\ q.called \in Nat
    BY <1>1 DEF Waits!WritePlan, QueueInv, WaitsTyped, Request
  <2>2. 0..Cardinality(Guests) \subseteq Nat
    BY GuestsCounted
  <2>3. QED
    BY <2>1, <2>2
<1>3. \A h \in Guests : entry[h].at # "joining"
  BY <1>1, <1>2 DEF LoneRequest
<1>4. /\ entry' \in [Guests -> Entry]
      /\ \A g \in Guests :
           /\ entry'[g].at = entry[g].at /\ entry'[g].floor = entry[g].floor
           /\ entry'[g].step = entry[g].step /\ entry'[g].max = entry[g].max
           /\ entry'[g].position = IF q.order[g] = 0 THEN entry[g].position ELSE q.order[g]
           /\ q.order[g] > q.called =>
                /\ entry'[g].age = 0
                /\ entry'[g].est = Waits!Rebased(entry[g], q.order[g] - q.called - 1)
  BY <1>1, WritePlanShape
<1>5. DefaultSnapshots /\ Waiting' = Waiting /\ Waiting \subseteq Guests
  BY <1>4, PlacesStay DEF WaitOrderInv, Waiting
<1>6. DefaultSnapshots'
  BY <1>4, <1>5, SnapshotsStay
<1>7. ASSUME NEW g \in Waiting
      PROVE  /\ entry'[g].position = q.order[g] /\ q.order[g] > q.called /\ q.order[g] \in Nat
             /\ Left(entry[g])' =
                  Waits!Less(4, 1 + 2 * (q.order[g] - q.called - 1))
  <2>1. /\ q.order[g] > q.called /\ q.order[g] \in Nat /\ q.order[g] # 0
        /\ entry[g].floor = 1 /\ entry[g].step = 2 /\ entry[g].max = 4
    BY <1>2, <1>5, <1>7 DEF PlanInv, DefaultSnapshots, Waiting, Waits!Defaults
  <2>2. PICK k \in Nat : k = q.order[g] - q.called - 1
    BY <1>2, <2>1
  <2>3. PICK x : x = entry'[g]
    OBVIOUS
  <2>4. x \in Entry /\ x.age = 0 /\ x.floor = 1 /\ x.est = Waits!Rebased(entry[g], k)
    BY <1>4, <1>5, <1>7, <2>1, <2>2, <2>3
  <2>5. Waits!Cap(1, 4) = 4
    BY DEF Waits!Cap, Waits!Greater
  <2>6. x.est = Waits!Less(4, 1 + 2 * k)
    BY <2>1, <2>4, <2>5 DEF Waits!Rebased
  <2>7. Left(x) = Waits!Less(4, 1 + 2 * k)
    <3>1. Left(x) = IF x.est > x.age + 1 THEN x.est - x.age ELSE 1
      BY <2>4, LeftIs
    <3>2. QED
      BY <2>4, <2>6, <3>1 DEF Waits!Less
  <2>8. Left(entry[g])' = Left(x)
    BY <2>3 DEF Left
  <2>9. QED
    BY <1>4, <1>5, <1>7, <2>1, <2>2, <2>7, <2>8
<1>8. ASSUME NEW g \in Waiting, NEW h \in Waiting, entry'[g].position < entry'[h].position
      PROVE  Left(entry[g])' <= Left(entry[h])'
  <2>1. q.order[g] < q.order[h] /\ q.order[g] \in Nat /\ q.order[h] \in Nat
    BY <1>7, <1>8
  <2>2. QED
    BY <1>2, <1>7, <2>1 DEF Waits!Less
<1>9. OrderInv'
  BY <1>3, <1>4, <1>5, <1>8 DEF OrderInv
<1>10. QED
  BY <1>6, <1>9

LEMMA MinuteKeepsOrder ==
  ASSUME WaitsTyped, WaitOrderInv, told = Waits!NoFields, Waits!Minute
  PROVE  DefaultSnapshots' /\ (Settled' => OrderInv')
<1>1. /\ entry' \in [Guests -> Entry] /\ entry \in [Guests -> Entry] /\ requests' = requests
      /\ \A g \in Guests :
           /\ entry'[g].at = entry[g].at /\ entry'[g].position = entry[g].position
           /\ entry'[g].est = entry[g].est /\ entry'[g].floor = entry[g].floor
           /\ entry'[g].step = entry[g].step /\ entry'[g].max = entry[g].max
           /\ entry'[g].age = IF entry[g].at \in {"joining", "waiting"} THEN entry[g].age + 1
                              ELSE entry[g].age
  BY MinuteShape DEF Waits!Minute, WaitsTyped
<1>2. DefaultSnapshots /\ Waiting' = Waiting /\ Waiting \subseteq Guests
  BY <1>1, PlacesStay DEF WaitOrderInv, Waiting
<1>3. DefaultSnapshots'
  BY <1>1, <1>2, SnapshotsStay
<1>4. ASSUME NEW g \in Guests, entry[g].at \in {"joining", "waiting"}
      PROVE  /\ Left(entry[g]) \in Nat
             /\ Left(entry[g])' = IF Left(entry[g]) > 1 THEN Left(entry[g]) - 1 ELSE 1
  <2>1. PICK x : x = entry'[g]
    OBVIOUS
  <2>2. /\ x \in Entry /\ entry[g] \in Entry /\ x.floor = 1 /\ entry[g].floor = 1
        /\ x.est = entry[g].est /\ x.age = entry[g].age + 1
    BY <1>1, <1>2, <1>4, <2>1 DEF DefaultSnapshots, Waits!Defaults
  <2>3. entry[g].est \in Nat /\ entry[g].age \in Nat
    BY <2>2 DEF Entry
  <2>4. /\ Left(entry[g]) = IF entry[g].est > entry[g].age + 1 THEN entry[g].est - entry[g].age ELSE 1
        /\ Left(x) = IF x.est > x.age + 1 THEN x.est - x.age ELSE 1
    BY <2>2, LeftIs
  <2>5. Left(entry[g])' = Left(x)
    BY <2>1 DEF Left
  <2>6. QED
    BY <2>2, <2>3, <2>4, <2>5
<1>5. ASSUME Settled PROVE OrderInv'
  <2>1. OrderInv
    BY <1>5 DEF WaitOrderInv
  <2>2. ASSUME NEW g \in Waiting, NEW h \in Waiting, entry'[g].position < entry'[h].position
        PROVE  Left(entry[g])' <= Left(entry[h])'
    <3>1. Left(entry[g]) <= Left(entry[h])
      BY <1>1, <1>2, <2>1, <2>2 DEF OrderInv
    <3>2. g \in Guests /\ h \in Guests /\ entry[g].at = "waiting" /\ entry[h].at = "waiting"
      BY DEF Waiting
    <3>3. QED
      BY <1>4, <3>1, <3>2
  <2>3. ASSUME NEW g \in Guests, NEW h \in Waiting, entry[g].at = "joining"
        PROVE  Left(entry[h])' <= Left(entry[g])'
    <3>1. Left(entry[h]) <= Left(entry[g])
      BY <2>1, <2>3 DEF OrderInv
    <3>2. h \in Guests /\ entry[h].at = "waiting"
      BY DEF Waiting
    <3>3. QED
      BY <1>4, <2>3, <3>1, <3>2
  <2>4. QED
    BY <1>1, <1>2, <2>2, <2>3 DEF OrderInv
<1>6. QED
  BY <1>1, <1>3, <1>5 DEF Settled

LEMMA WaitOrderNext ==
  ASSUME WaitsTyped, alone, LoneRequest, SettingsInv, QueueInv, WaitOrderInv, Waits!Next
  PROVE  WaitOrderInv'
<1>1. SUFFICES ASSUME told' = Waits!NoFields PROVE DefaultSnapshots' /\ (Settled' => OrderInv')
  BY DEF WaitOrderInv
<1>2. told = Waits!NoFields /\ requests \in [Slots -> Request] /\ entry \in [Guests -> Entry]
  BY <1>1, SettingsWereDefault DEF WaitsTyped
<1>3. ASSUME entry' = entry, Settled' => Settled
      PROVE  DefaultSnapshots' /\ (Settled' => OrderInv')
  <2>1. Waiting' = Waiting /\ Waiting \subseteq Guests
    BY <1>3 DEF Waiting
  <2>2. \A g \in Guests : Left(entry[g])' = Left(entry[g])
    BY <1>3 DEF Left
  <2>3. DefaultSnapshots'
    BY <1>2, <1>3, SnapshotsStay DEF WaitOrderInv
  <2>4. OrderInv => OrderInv'
    BY <1>3, <2>1, <2>2 DEF OrderInv
  <2>5. QED
    BY <1>2, <1>3, <2>3, <2>4 DEF WaitOrderInv
<1>4. ASSUME NEW r \in Slots, NEW g \in Guests, Waits!Depart(r, g)
      PROVE  DefaultSnapshots' /\ (Settled' => OrderInv')
  <2>1. PICK q \in Request : requests' = [requests EXCEPT ![r] = q] /\ q.at = "owed"
    BY <1>4, OwedShape
  <2>2. ~Settled'
    BY <1>2, <2>1 DEF Settled
  <2>3. PICK at \in {"waiting", "called", "gone"} :
          entry' = [entry EXCEPT ![g].at = at] /\ entry[g].at # "none"
    BY <1>4 DEF Waits!Depart, Waits!Active
  <2>4. /\ \A h \in Guests \ {g} : entry'[h] = entry[h]
        /\ \A h \in Guests : /\ entry'[h].floor = entry[h].floor
                             /\ entry'[h].step = entry[h].step /\ entry'[h].max = entry[h].max
    BY <1>2, <2>3, EntryAt
  <2>5. \A h \in Guests : entry'[h].at # "none" => entry[h].at # "none"
    BY <2>3, <2>4
  <2>6. DefaultSnapshots'
    BY <1>2, <2>4, <2>5, SnapshotsStay DEF WaitOrderInv
  <2>7. QED
    BY <2>2, <2>6
<1>5. ASSUME NEW r \in Slots, NEW q \in Request, requests' = [requests EXCEPT ![r] = q],
             requests[r].at \notin {"owed", "plan"} \/ q.at \in {"owed", "plan"}
      PROVE  Settled' => Settled
  <2>1. \A u \in Slots : requests'[u] = IF u = r THEN q ELSE requests[u]
    BY <1>2, <1>5
  <2>2. \A u \in Slots : requests[u].at \in {"idle", "owed", "plan", "patch"}
    BY <1>2 DEF Request
  <2>3. QED
    BY <1>5, <2>1, <2>2 DEF Settled
<1>6. ASSUME NEW r \in Slots, NEW g \in Guests, Waits!Prioritize(r, g)
      PROVE  DefaultSnapshots' /\ (Settled' => OrderInv')
  <2>1. entry' = entry
    BY <1>6 DEF Waits!Prioritize
  <2>2. Settled' => Settled
    BY <1>5, <1>6, OwedShape
  <2>3. QED
    BY <1>3, <2>1, <2>2
<1>7. ASSUME NEW r \in Slots, Waits!ResequenceRead(r) \/ \E g \in Guests : Waits!Reorder(r, g)
      PROVE  DefaultSnapshots' /\ (Settled' => OrderInv')
  <2>1. entry' = entry
    BY <1>7 DEF Waits!ResequenceRead, Waits!Reorder
  <2>2. Settled' => Settled
    BY <1>5, <1>7, PlannedShape
  <2>3. QED
    BY <1>3, <2>1, <2>2
<1>8. ASSUME NEW r \in Slots, NEW patch \in Patches, Waits!PatchRead(r, patch)
      PROVE  DefaultSnapshots' /\ (Settled' => OrderInv')
  <2>1. entry' = entry /\ requests[r].at = "idle"
    BY <1>8 DEF Waits!PatchRead
  <2>2. \E q \in Request : requests' = [requests EXCEPT ![r] = q]
    BY <1>8, PatchReadShape
  <2>3. Settled' => Settled
    BY <1>5, <2>1, <2>2
  <2>4. QED
    BY <1>3, <2>1, <2>3
<1>9. ASSUME NEW r \in Slots, Waits!PatchWrite(r)
      PROVE  DefaultSnapshots' /\ (Settled' => OrderInv')
  <2>1. entry' = entry /\ requests[r].at = "patch"
    BY <1>9 DEF Waits!PatchWrite
  <2>2. \E q \in Request : requests' = [requests EXCEPT ![r] = q]
    BY <1>9, RequestEnds
  <2>3. Settled' => Settled
    BY <1>5, <2>1, <2>2
  <2>4. QED
    BY <1>3, <2>1, <2>3
<1>10. QED
  BY <1>2, <1>4, <1>6, <1>7, <1>8, <1>9, JoinReadKeepsOrder, JoinCreateKeepsOrder,
     WritePlanKeepsOrder, MinuteKeepsOrder DEF Waits!Next

-----------------------------------------------------------------------------
(* The invariant, and what follows from it *)

LEMMA WaitsInit == Waits!Init => WaitsInv
<1>1. SUFFICES ASSUME Waits!Init PROVE WaitsInv
  OBVIOUS
<1>2. /\ \A g \in Guests : entry[g] = Waits!NoEntry
      /\ \A r \in Slots : requests[r] = Waits!NoRequest /\ requests[r].at = "idle"
      /\ stored = Waits!NoFields /\ told = Waits!NoFields
  BY <1>1, NoRequestTyped DEF Waits!Init
<1>3. /\ Waits!NoEntry \in Entry /\ Waits!NoEntry.at = "none" /\ Waits!NoEntry.age = 0
      /\ InRange(Waits!NoEntry)
  BY GuestsCounted DEF Waits!NoEntry, Entry, InRange, Waits!Cap, Waits!Greater
<1>4. WaitsTyped
  BY <1>1, <1>2, <1>3, NoRequestTyped, NoFieldsTyped, BoundsAssumption DEF Waits!Init, WaitsTyped
<1>5. Active = {} /\ Waiting = {} /\ \A g \in Guests : entry[g].at = "none"
  BY <1>2, <1>3 DEF Active, Waiting
<1>6. LoneRequest /\ PositionsInv /\ DefaultSnapshots /\ OrderInv
  BY <1>2, <1>5 DEF LoneRequest, PositionsInv, DefaultSnapshots, OrderInv
<1>7. SettingsInv
  <2>1. Sound(Waits!NoFields)
    BY DEF Sound, Waits!Merge, Waits!NoFields, Waits!Defaults
  <2>2. QED
    BY <1>2, <2>1 DEF SettingsInv
<1>8. QED
  BY <1>2, <1>4, <1>6, <1>7 DEF WaitsInv

LEMMA WaitsStutter ==
  ASSUME WaitsInv, UNCHANGED <<alone, waitVars>>
  PROVE  WaitsInv'
<1>1. UNCHANGED <<alone, stored, told, entry, requests, minutes, spent>>
  BY DEF waitVars
<1>2. WaitsTyped'
  BY <1>1 DEF WaitsInv, WaitsTyped
<1>3. /\ Active' = Active /\ Waiting' = Waiting /\ (Settled' <=> Settled)
      /\ \A g \in Guests : Left(entry[g])' = Left(entry[g])
  BY <1>1 DEF Active, Waiting, Settled, Left
<1>4. LoneRequest /\ SettingsInv => LoneRequest' /\ SettingsInv'
  BY <1>1 DEF LoneRequest, SettingsInv
<1>5. PositionsInv => PositionsInv'
  BY <1>1, <1>3 DEF PositionsInv
<1>6. \A r \in Slots : PlanInv(requests[r]) => PlanInv(requests[r])'
  BY <1>1, <1>3 DEF PlanInv
<1>7. DefaultSnapshots => DefaultSnapshots'
  BY <1>1 DEF DefaultSnapshots
<1>8. OrderInv => OrderInv'
  BY <1>1, <1>3 DEF OrderInv, Waiting
<1>9. QED
  BY <1>1, <1>2, <1>3, <1>4, <1>5, <1>6, <1>7, <1>8 DEF WaitsInv

LEMMA WaitsInvStep == WaitsInv /\ [ServicesNext]_allVars => WaitsInv'
<1>1. SUFFICES ASSUME WaitsInv, [ServicesNext]_allVars PROVE WaitsInv'
  OBVIOUS
<1>2. alone' = alone
  BY <1>1, AloneStays
<1>3. CASE OfWaits(Waits!Next)
  <2>1. Waits!Next /\ WaitsTyped
    BY <1>1, <1>3 DEF OfWaits, WaitsInv
  <2>2. WaitsTyped'
    BY <2>1, WaitsNextTyped
  <2>3. CASE ~alone
    BY <1>2, <2>2, <2>3 DEF WaitsInv
  <2>4. CASE alone
    <3>1. LoneRequest /\ SettingsInv /\ QueueInv /\ WaitOrderInv
      BY <1>1, <2>4 DEF WaitsInv, QueueInv, WaitOrderInv
    <3>2. LoneRequest' /\ SettingsInv' /\ QueueInv' /\ WaitOrderInv'
      BY <2>1, <2>4, <3>1, LoneNext, SettingsNext, QueueNext, WaitOrderNext
    <3>3. QED
      BY <2>2, <3>2 DEF WaitsInv, QueueInv, WaitOrderInv
  <2>5. QED
    BY <2>3, <2>4
<1>4. CASE OfLogin(Login!Next) \/ OfReminders(Sweep!Next) \/ UNCHANGED allVars
  <2>1. UNCHANGED waitVars
    BY <1>4 DEF OfLogin, OfReminders, allVars
  <2>2. QED
    BY <1>1, <1>2, <2>1, WaitsStutter
<1>5. QED
  BY <1>1, <1>3, <1>4 DEF ServicesNext

LEMMA InvHonest == WaitsInv => EstimateHonest
<1>1. SUFFICES ASSUME WaitsInv, NEW g \in Waits!Waiting
      PROVE LET e == entry[g]
                s == Waits!Resolve(stored)
            IN /\ Waits!Current(s, e) >= e.floor /\ Waits!Current(s, e) <= Waits!Cap(e.floor, e.max)
               /\ e.est > 0 => Waits!Shown(s, e) = Waits!Current(s, e)
  BY DEF EstimateHonest, Waits!EstimateHonest
<1>2. entry[g] \in Entry /\ InRange(entry[g])
  BY <1>1 DEF WaitsInv, WaitsTyped, Waits!Waiting
<1>3. PICK s : s = Waits!Resolve(stored)
  OBVIOUS
<1>4. /\ Waits!Current(s, entry[g]) \in Nat /\ entry[g].floor <= Waits!Current(s, entry[g])
      /\ Waits!Current(s, entry[g]) <= Waits!Cap(entry[g].floor, entry[g].max)
      /\ entry[g].floor \in Nat
  BY <1>2, CurrentInRange DEF Entry
<1>5. entry[g].est > 0 => Waits!Shown(s, entry[g]) = Waits!Current(s, entry[g])
  BY DEF Waits!Shown, Waits!Current
<1>6. QED
  BY <1>3, <1>4, <1>5

LEMMA InvKeepsSettings == WaitsInv => SettingsKept
<1>1. SUFFICES ASSUME WaitsInv, alone, NEW f \in DOMAIN told
      PROVE Waits!Resolve(stored)[f] = told[f]
  BY DEF SettingsKept, Waits!SettingsKept
<1>2. stored = told /\ Sound(stored) /\ stored \in Settings /\ f \in Fields
  BY <1>1 DEF WaitsInv, SettingsInv, WaitsTyped, Settings
<1>3. CASE f = "max"
  BY <1>1, <1>2, <1>3, ResolveTyped
<1>4. CASE f # "max"
  BY <1>1, <1>2, <1>4, ResolveTyped
<1>5. QED
  BY <1>3, <1>4

LEMMA InvInOrder == WaitsInv => EstimatesInOrder
<1>1. SUFFICES ASSUME WaitsInv, alone, ~Waits!UnderWay, told = Waits!NoFields,
                      NEW g \in Waiting, NEW h \in Waiting, entry[g].position < entry[h].position
               PROVE  Waits!Current(Waits!Resolve(stored), entry[g])
                        <= Waits!Current(Waits!Resolve(stored), entry[h])
  BY GuestsCounted DEF EstimatesInOrder, Waits!EstimatesInOrder
<1>2. /\ Settled /\ DefaultSnapshots /\ OrderInv /\ stored = Waits!NoFields
      /\ entry \in [Guests -> Entry]
  BY <1>1 DEF WaitsInv, WaitsTyped, SettingsInv, Settled, Waits!UnderWay
<1>3. PICK s : s = Waits!Resolve(stored)
  OBVIOUS
<1>4. s.decay = TRUE
  BY <1>2, <1>3, DefaultsInForce
<1>5. \A k \in Waiting : entry[k] \in Entry /\ entry[k].floor = 1
  BY <1>2 DEF Waiting, DefaultSnapshots, Waits!Defaults
<1>6. \A k \in Waiting : Waits!Current(s, entry[k]) = Left(entry[k])
  BY <1>4, <1>5, LeftIs
<1>7. Left(entry[g]) <= Left(entry[h])
  BY <1>1, <1>2 DEF OrderInv
<1>8. QED
  BY <1>3, <1>6, <1>7

LEMMA InvTypes == WaitsInv => Waits!TypeOK
<1>1. SUFFICES ASSUME WaitsInv PROVE Waits!TypeOK
  OBVIOUS
<1>2. WaitsTyped /\ Waits!Fields = Fields
  BY <1>1 DEF WaitsInv, Waits!Fields, Fields
<1>3. ASSUME NEW g \in Guests
      PROVE  entry[g] \in [at: {"none", "joining", "waiting", "called", "gone"},
                           position: 0..Cardinality(Guests), est: Nat, age: 0..MaxMinutes,
                           floor: Nat, step: Nat, max: Nat \ {0}]
  <2>1. entry[g] \in Entry /\ entry[g].age <= minutes /\ minutes \in 0..MaxMinutes /\ MaxMinutes \in Nat
    BY <1>2, BoundsAssumption DEF WaitsTyped
  <2>2. entry[g].age \in 0..MaxMinutes
    BY <2>1 DEF Entry
  <2>3. QED
    BY <2>1, <2>2 DEF Entry
<1>4. entry \in [Guests -> [at: {"none", "joining", "waiting", "called", "gone"},
                           position: 0..Waits!Cardinality(Guests), est: Nat, age: 0..MaxMinutes,
                           floor: Nat, step: Nat, max: Nat \ {0}]]
  BY <1>2, <1>3, GuestsCounted DEF WaitsTyped
<1>5. \A r \in Slots : requests[r].at \in {"idle", "owed", "plan", "patch"}
  BY <1>2 DEF WaitsTyped, Request
<1>6. DOMAIN stored \subseteq Fields /\ DOMAIN told \subseteq Fields
  BY <1>2 DEF WaitsTyped, Settings
<1>7. QED
  BY <1>2, <1>4, <1>5, <1>6 DEF WaitsTyped, Waits!TypeOK

-----------------------------------------------------------------------------
(* Theorems *)

LEMMA WaitsInvAlways == ServicesSpec => []WaitsInv
<1>1. ServicesInit => WaitsInv
  BY WaitsInit DEF ServicesInit
<1>2. QED
  BY <1>1, WaitsInvStep, PTL DEF ServicesSpec

\* The state of the three services keeps its types.
THEOREM ServicesKeepTypes == ServicesSpec => []ServicesTypeOK
<1>1. ServicesInit => LoginInv /\ ReminderInv
  BY LoginInit, ReminderInit DEF ServicesInit
<1>2. WaitsInv /\ LoginInv /\ ReminderInv => ServicesTypeOK
  BY InvTypes, LoginInvLimits, ReminderInvOne DEF ServicesTypeOK
<1>3. QED
  BY <1>1, <1>2, WaitsInvAlways, LoginInvStep, ReminderInvStep, PTL DEF ServicesSpec

\* calculateCurrentWaitEstimateMin, getQueueEntryEtaMin: however joins, moves,
\* resequences and patches overlap, a wait stays in the range of the snapshot
\* the guest was told it with, and page and server count down to the same.
THEOREM EstimatesStayHonest == ServicesSpec => []EstimateHonest
<1>1. QED
  BY WaitsInvAlways, InvHonest, PTL

\* updateVenueConfig: where requests come one at a time, what the host was told
\* is saved is in force.
THEOREM SettingsStayKept == ServicesSpec => []SettingsKept
<1>1. QED
  BY WaitsInvAlways, InvKeepsSettings, PTL

\* allocateWaitEstimateForJoin, recompactQueuePositions: where requests come one
\* at a time and no setting is changed, nobody who stands further back is told
\* a shorter wait.
THEOREM EstimatesFollowTheQueue == ServicesSpec => []EstimatesInOrder
<1>1. QED
  BY WaitsInvAlways, InvInOrder, PTL
=============================================================================
