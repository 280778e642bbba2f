------------------------- MODULE VenueServicesProofs -------------------------
(***************************************************************************)
(* Proofs about the staff login and the reminders of VenueServices, for     *)
(* every number of codes, tries, guests and ticks.  That requests overlap   *)
(* is a matter of counting for the login (who is under way on a code), and *)
(* of following the only tick for the reminders (InPipeline).               *)
(***************************************************************************)
EXTENDS VenueServices, Sequences, FiniteSetTheorems, TLAPS

-----------------------------------------------------------------------------
(* OtpLogin *)

\* The number of tries that may be under way at once.
Overlap == IF alone THEN 1 ELSE Cardinality(Tries)

Busy == {t \in Tries : tries[t].at # "idle"}
TryingWrong(c) == {t \in Tries : tries[t].at = "wrong" /\ tries[t].code = c}
LoggingIn(c) == {t \in Tries : tries[t].at \in {"right", "marked"} /\ tries[t].code = c}

Try == [at: {"idle", "right", "wrong", "marked"}, code: Nat]
Code == [attempts: Nat, verified: BOOLEAN, expired: BOOLEAN]

LoginTyped ==
  /\ alone \in BOOLEAN
  /\ codes \in Seq(Code) /\ Len(codes) <= MaxCodes
  /\ logins \in Seq(Nat) /\ Len(logins) = Len(codes)
  /\ tries \in [Tries -> Try]
  /\ \A t \in Tries : tries[t].code <= Len(codes)
  /\ \A t \in Busy : tries[t].code \in DOMAIN codes
  /\ tried \in 0..MaxTries

\* Wrong texts and logins count from when a try has read its code; a code that
\* is not verified has logged nobody in.
Counted(c) ==
  /\ codes[c].attempts + Cardinality(TryingWrong(c)) <= MaxAttempts + Overlap - 1
  /\ logins[c] + Cardinality(LoggingIn(c)) <= Overlap
  /\ ~codes[c].verified =>
       logins[c] = 0 /\ \A t \in Tries : ~(tries[t].at = "marked" /\ tries[t].code = c)

LoginInv == /\ LoginTyped
            /\ Cardinality(Busy) <= Overlap
            /\ \A c \in DOMAIN codes : Counted(c)

\* How many are under way.
LEMMA UnderWayFinite ==
  ASSUME NEW c
  PROVE  /\ IsFiniteSet(Busy) /\ IsFiniteSet(TryingWrong(c)) /\ IsFiniteSet(LoggingIn(c))
         /\ Cardinality(Busy) \in Nat /\ Cardinality(TryingWrong(c)) \in Nat
         /\ Cardinality(LoggingIn(c)) \in Nat
         /\ Cardinality(Busy) <= Cardinality(Tries)
         /\ Cardinality(TryingWrong(c)) <= Cardinality(Busy)
         /\ Cardinality(LoggingIn(c)) <= Cardinality(Busy)
         /\ Cardinality(Tries) \in Nat \ {0}
<1>1. IsFiniteSet(Tries) /\ Tries # {}
  BY ActorsAssumption
<1>2. Busy \subseteq Tries /\ TryingWrong(c) \subseteq Busy /\ LoggingIn(c) \subseteq Busy
  BY DEF Busy, TryingWrong, LoggingIn
<1>3. Cardinality(Tries) \in Nat \ {0}
  BY <1>1, FS_CardinalityType, FS_EmptySet
<1>4. IsFiniteSet(Busy) /\ Cardinality(Busy) <= Cardinality(Tries)
  BY <1>1, <1>2, FS_Subset
<1>5. /\ IsFiniteSet(TryingWrong(c)) /\ Cardinality(TryingWrong(c)) <= Cardinality(Busy)
      /\ IsFiniteSet(LoggingIn(c)) /\ Cardinality(LoggingIn(c)) <= Cardinality(Busy)
  BY <1>2, <1>4, FS_Subset
<1>6. QED
  BY <1>3, <1>4, <1>5, FS_CardinalityType

\* A try that ends gives up its place.
LEMMA TryEnds ==
  ASSUME LoginTyped, NEW t \in Tries, tries' = [tries EXCEPT ![t] = Login!NoTry],
         UNCHANGED alone, Cardinality(Busy) <= Overlap
  PROVE  /\ tries' \in [Tries -> Try] /\ (Cardinality(Busy) <= Overlap)'
         /\ \A c : /\ TryingWrong(c)' = TryingWrong(c) \ {t}
                   /\ LoggingIn(c)' = LoggingIn(c) \ {t}
         /\ \A s \in Tries : tries'[s] = IF s = t THEN Login!NoTry ELSE tries[s]
<1>1. /\ \A s \in Tries : tries'[s] = IF s = t THEN Login!NoTry ELSE tries[s]
      /\ Login!NoTry.at = "idle" /\ Login!NoTry.code = 0
  BY DEF LoginTyped, Login!NoTry
<1>2. \A c : TryingWrong(c)' = TryingWrong(c) \ {t} /\ LoggingIn(c)' = LoggingIn(c) \ {t}
  BY <1>1 DEF TryingWrong, LoggingIn
<1>3. Busy' \subseteq Busy
  BY <1>1 DEF Busy
<1>4. Cardinality(Busy') <= Cardinality(Busy) /\ IsFiniteSet(Busy')
  BY <1>3, UnderWayFinite, FS_Subset
<1>5. Cardinality(Busy') \in Nat /\ Cardinality(Busy) \in Nat /\ Overlap \in Nat /\ Overlap' = Overlap
  BY <1>4, UnderWayFinite, FS_CardinalityType DEF Overlap
<1>6. (Cardinality(Busy) <= Overlap)'
  BY <1>4, <1>5
<1>7. tries' \in [Tries -> Try]
  BY <1>1 DEF LoginTyped, Try, Login!NoTry
<1>8. QED
  BY <1>1, <1>2, <1>6, <1>7

\* A new code has no wrong texts and no logins.
LEMMA SendKeepsLogin ==
  ASSUME LoginInv, Login!SendStaffOtp
  PROVE  LoginInv'
<1>0. PICK n \in Nat : n = Len(codes)
  BY DEF LoginInv, LoginTyped
<1> DEFINE new == [attempts |-> 0, verified |-> FALSE, expired |-> FALSE]
<1>1. /\ LoginTyped /\ n = Len(codes) /\ n < MaxCodes /\ codes' = Append(codes, new)
      /\ logins' = Append(logins, 0) /\ UNCHANGED <<alone, tries, tried>>
  BY <1>0 DEF LoginInv, LoginTyped, Login!SendStaffOtp
<1>2. new \in Code /\ new.attempts = 0
  BY DEF Code
<1> HIDE DEF new
<1>3. /\ codes' \in Seq(Code) /\ Len(codes') = n + 1 /\ DOMAIN codes' = 1..(n + 1)
      /\ DOMAIN codes = 1..n /\ codes'[n + 1] = new
      /\ \A c \in 1..n : codes'[c] = codes[c]
  BY <1>1, <1>2 DEF LoginTyped
<1>9. /\ logins' \in Seq(Nat) /\ Len(logins') = n + 1 /\ logins'[n + 1] = 0
      /\ \A c \in 1..n : logins'[c] = logins[c]
  BY <1>1 DEF LoginTyped
<1>10. LoginTyped'
  <2>1. \A t \in Tries : tries[t].code \in Nat
    BY <1>1 DEF LoginTyped, Try
  <2>2. n + 1 <= MaxCodes /\ MaxCodes \in Nat
    BY <1>1, BoundsAssumption
  <2>3. \A t \in Tries : tries'[t].code <= n + 1
    BY <1>1, <2>1 DEF LoginTyped
  <2>4. \A t \in Busy' : tries'[t].code \in 1..(n + 1)
    BY <1>1, <1>3, <2>1 DEF LoginTyped, Busy
  <2>5. QED
    BY <1>1, <1>3, <1>9, <2>2, <2>3, <2>4 DEF LoginTyped
<1>4. Overlap' = Overlap /\ Busy' = Busy
  BY <1>1 DEF Overlap, Busy
<1>5. ASSUME NEW c \in 1..n PROVE Counted(c)'
  <2>1. Counted(c)
    BY <1>3 DEF LoginInv
  <2>2. TryingWrong(c)' = TryingWrong(c) /\ LoggingIn(c)' = LoggingIn(c)
    BY <1>1 DEF TryingWrong, LoggingIn
  <2>3. QED
    BY <1>1, <1>3, <1>4, <1>9, <2>1, <2>2 DEF Counted
<1>6. Counted(n + 1)'
  <2>1. TryingWrong(n + 1)' = {} /\ LoggingIn(n + 1)' = {}
    BY <1>1 DEF TryingWrong, LoggingIn, LoginTyped, Busy, Try
  <2>2. Cardinality({}) = 0
    BY FS_EmptySet
  <2>3. Overlap \in Nat \ {0} /\ MaxAttempts \in Nat \ {0}
    BY UnderWayFinite, BoundsAssumption DEF Overlap
  <2>4. \A t \in Tries : tries'[t].code # n + 1
    BY <1>1 DEF LoginTyped, Try
  <2>5. codes'[n + 1].attempts = 0 /\ logins'[n + 1] = 0
    BY <1>2, <1>3, <1>9
  <2>6. /\ codes'[n + 1].attempts + Cardinality(TryingWrong(n + 1)') <= MaxAttempts + Overlap - 1
        /\ logins'[n + 1] + Cardinality(LoggingIn(n + 1)') <= Overlap
    BY <2>1, <2>2, <2>3, <2>5
  <2>7. QED
    BY <1>4, <2>4, <2>5, <2>6 DEF Counted
<1>7. QED
  BY <1>3, <1>10, <1>1, <1>4, <1>5, <1>6 DEF LoginInv

\* A try begins on a code that is not verified and has attempts left.
LEMMA ReadKeepsLogin ==
  ASSUME LoginInv, NEW t \in Tries, Login!VerifyReads(t)
  PROVE  LoginInv'
<1>1. PICK c \in Login!Usable, typed \in 0..Len(codes) :
        /\ Login!MayTry(c)
        /\ tries' = [tries EXCEPT ![t] =
             [at |-> IF typed = c THEN "right" ELSE "wrong", code |-> c]]
  BY DEF Login!VerifyReads
<1> DEFINE x == [at |-> IF typed = c THEN "right" ELSE "wrong", code |-> c]
<1>2. /\ LoginTyped /\ tries[t].at = "idle" /\ tried < MaxTries /\ tried' = tried + 1
      /\ alone => \A u \in Tries : tries[u].at = "idle"
      /\ UNCHANGED <<alone, codes, logins>>
  BY DEF LoginInv, Login!VerifyReads
<1>3. c \in DOMAIN codes /\ ~codes[c].verified /\ codes[c].attempts < MaxAttempts
  BY <1>1 DEF Login!Usable, Login!MayTry
<1>4. /\ x.at \in {"right", "wrong"} /\ x.code = c /\ x \in Try
      /\ c <= Len(codes)
  BY <1>2, <1>3 DEF Try, LoginTyped
<1> HIDE DEF x
<1>5. \A s \in Tries : tries'[s] = IF s = t THEN x ELSE tries[s]
  BY <1>1, <1>2 DEF LoginTyped, x
<1>6. LoginTyped'
  BY <1>1, <1>2, <1>3, <1>4, <1>5, BoundsAssumption DEF LoginTyped, Busy, x
<1>7. Overlap' = Overlap /\ Overlap \in Nat \ {0}
  BY <1>2, UnderWayFinite DEF Overlap
<1>8. Cardinality(Busy') <= Overlap
  <2>1. CASE alone
    <3>1. Busy' = {t}
      BY <1>2, <1>4, <1>5, <2>1 DEF Busy
    <3>2. QED
      BY <2>1, <3>1, FS_Singleton, SMTT(40) DEF Overlap
  <2>2. CASE ~alone
    <3>1. Busy' \subseteq Tries /\ IsFiniteSet(Tries)
      BY ActorsAssumption DEF Busy
    <3>2. QED
      BY <2>2, <3>1, FS_Subset DEF Overlap
  <2>3. QED
    BY <2>1, <2>2
<1>9. ASSUME NEW d \in DOMAIN codes, d # c PROVE Counted(d)'
  <2>1. TryingWrong(d)' = TryingWrong(d) /\ LoggingIn(d)' = LoggingIn(d)
    BY <1>2, <1>4, <1>5, <1>9 DEF TryingWrong, LoggingIn
  <2>2. \A s \in Tries : tries'[s].at = "marked" => tries'[s] = tries[s]
    BY <1>4, <1>5
  <2>3. QED
    BY <1>2, <1>7, <2>1, <2>2 DEF LoginInv, Counted
<1>10. Counted(c)'
  <2>1. /\ TryingWrong(c)' \subseteq Busy' /\ LoggingIn(c)' \subseteq Busy'
        /\ IsFiniteSet(Busy') /\ Cardinality(Busy') \in Nat
    <3>1. Busy' \subseteq Tries /\ IsFiniteSet(Tries)
      BY ActorsAssumption DEF Busy
    <3>2. IsFiniteSet(Busy')
      BY <3>1, FS_Subset
    <3>3. QED
      BY <3>2, FS_CardinalityType DEF Busy, TryingWrong, LoggingIn
  <2>2. /\ Cardinality(TryingWrong(c)') <= Overlap /\ Cardinality(TryingWrong(c)') \in Nat
        /\ Cardinality(LoggingIn(c)') <= Overlap /\ Cardinality(LoggingIn(c)') \in Nat
    <3>1. /\ Cardinality(TryingWrong(c)') <= Cardinality(Busy') /\ IsFiniteSet(TryingWrong(c)')
          /\ Cardinality(LoggingIn(c)') <= Cardinality(Busy') /\ IsFiniteSet(LoggingIn(c)')
      BY <2>1, FS_Subset
    <3>2. Cardinality(TryingWrong(c)') \in Nat /\ Cardinality(LoggingIn(c)') \in Nat
      BY <3>1, FS_CardinalityType
    <3>3. QED
      BY <1>7, <1>8, <2>1, <3>1, <3>2
  <2>3. codes[c].attempts \in Nat /\ MaxAttempts \in Nat
    <3>1. codes[c] \in Code
      BY <1>2, <1>3 DEF LoginTyped
    <3>2. QED
      BY <3>1, BoundsAssumption DEF Code
  <2>4. Counted(c)
    BY <1>3 DEF LoginInv
  <2>5. \A s \in Tries : ~(tries'[s].at = "marked" /\ tries'[s].code = c)
    BY <1>3, <1>4, <1>5, <2>4 DEF Counted
  <2>6. QED
    BY <1>2, <1>3, <1>7, <2>2, <2>3, <2>4, <2>5 DEF Counted
<1>11. QED
  BY <1>2, <1>6, <1>7, <1>8, <1>9, <1>10 DEF LoginInv

\* A step that ends a try and changes only the code it is about.
LEMMA EndKeepsLogin ==
  ASSUME LoginInv, NEW t \in Tries, NEW c \in DOMAIN codes, NEW code \in Code, NEW k \in Nat,
         tries' = [tries EXCEPT ![t] = Login!NoTry],
         codes' = [codes EXCEPT ![c] = code], logins' = [logins EXCEPT ![c] = k],
         UNCHANGED <<alone, tried>>,
         code.attempts + Cardinality(TryingWrong(c) \ {t}) <= MaxAttempts + Overlap - 1,
         k + Cardinality(LoggingIn(c) \ {t}) <= Overlap,
         code.verified = codes[c].verified, ~code.verified => k = 0
  PROVE  LoginInv'
<1>1. /\ LoginTyped /\ Cardinality(Busy) <= Overlap
      /\ codes' \in Seq(Code) /\ Len(codes') = Len(codes) /\ DOMAIN codes' = DOMAIN codes
      /\ logins' \in Seq(Nat) /\ Len(logins') = Len(logins) /\ DOMAIN logins = DOMAIN codes
      /\ codes'[c] = code /\ logins'[c] = k
      /\ \A d \in DOMAIN codes : d # c => codes'[d] = codes[d] /\ logins'[d] = logins[d]
  BY DEF LoginInv, LoginTyped
<1>2. /\ tries' \in [Tries -> Try] /\ (Cardinality(Busy) <= Overlap)'
      /\ \A d : TryingWrong(d)' = TryingWrong(d) \ {t} /\ LoggingIn(d)' = LoggingIn(d) \ {t}
      /\ \A s \in Tries : tries'[s] = IF s = t THEN Login!NoTry ELSE tries[s]
  BY <1>1, TryEnds
<1>3. LoginTyped'
  <2>1. Len(codes) \in Nat
    BY <1>1 DEF LoginTyped
  <2>2. \A s \in Tries : tries'[s].code <= Len(codes')
    BY <1>1, <1>2, <2>1 DEF LoginTyped, Login!NoTry
  <2>3. \A s \in Busy' : tries'[s].code \in DOMAIN codes'
    BY <1>1, <1>2 DEF LoginTyped, Busy, Login!NoTry
  <2>4. QED
    BY <1>1, <1>2, <2>2, <2>3 DEF LoginTyped
<1>4. Overlap' = Overlap
  BY DEF Overlap
<1>5. \A s \in Tries : tries'[s].at = "marked" => tries'[s] = tries[s]
  BY <1>2 DEF Login!NoTry
<1>6. Counted(c)'
  <2>1. Counted(c)
    BY DEF LoginInv
  <2>2. QED
    BY <1>1, <1>2, <1>4, <1>5, <2>1 DEF Counted
<1>7. ASSUME NEW d \in DOMAIN codes, d # c PROVE Counted(d)'
  <2>1. Counted(d) /\ codes[d] \in Code /\ logins[d] \in Nat
    BY <1>1, <1>7 DEF LoginInv, LoginTyped
  <2>2. /\ Cardinality(TryingWrong(d) \ {t}) <= Cardinality(TryingWrong(d))
        /\ Cardinality(LoggingIn(d) \ {t}) <= Cardinality(LoggingIn(d))
        /\ Cardinality(TryingWrong(d) \ {t}) \in Nat /\ Cardinality(LoggingIn(d) \ {t}) \in Nat
    <3>1. /\ Cardinality(TryingWrong(d) \ {t}) <= Cardinality(TryingWrong(d))
          /\ Cardinality(LoggingIn(d) \ {t}) <= Cardinality(LoggingIn(d))
          /\ IsFiniteSet(TryingWrong(d) \ {t}) /\ IsFiniteSet(LoggingIn(d) \ {t})
      BY UnderWayFinite, FS_Subset
    <3>2. QED
      BY <3>1, FS_CardinalityType
  <2>3. /\ Cardinality(TryingWrong(d)) \in Nat /\ Cardinality(LoggingIn(d)) \in Nat
        /\ codes[d].attempts \in Nat /\ Overlap \in Nat /\ MaxAttempts \in Nat
    BY <2>1, UnderWayFinite, BoundsAssumption DEF Code, Overlap
  <2>4. /\ codes[d].attempts + Cardinality(TryingWrong(d) \ {t}) <= MaxAttempts + Overlap - 1
        /\ logins[d] + Cardinality(LoggingIn(d) \ {t}) <= Overlap
    BY <2>1, <2>2, <2>3 DEF Counted
  <2>5. QED
    BY <1>1, <1>2, <1>4, <1>5, <1>7, <2>1, <2>4 DEF Counted
<1>8. QED
  BY <1>1, <1>2, <1>3, <1>6, <1>7 DEF LoginInv

\* What is known of a try that is under way.
LEMMA TryUnderWay ==
  ASSUME LoginInv, NEW t \in Busy
  PROVE  /\ tries[t].code \in DOMAIN codes /\ Counted(tries[t].code)
         /\ codes[tries[t].code] \in Code /\ logins[tries[t].code] \in Nat
         /\ \A c \in DOMAIN codes :
              /\ Cardinality(TryingWrong(c) \ {t}) =
                   Cardinality(TryingWrong(c)) - (IF t \in TryingWrong(c) THEN 1 ELSE 0)
              /\ Cardinality(LoggingIn(c) \ {t}) =
                   Cardinality(LoggingIn(c)) - (IF t \in LoggingIn(c) THEN 1 ELSE 0)
         /\ \A c \in DOMAIN codes :
              Cardinality(TryingWrong(c)) \in Nat /\ Cardinality(LoggingIn(c)) \in Nat
         /\ Overlap \in Nat /\ MaxAttempts \in Nat
<1>1. LoginTyped /\ tries[t].code \in DOMAIN codes
  BY DEF LoginInv, LoginTyped
<1>2. /\ codes[tries[t].code] \in Code /\ logins[tries[t].code] \in Nat
      /\ Counted(tries[t].code)
  BY <1>1 DEF LoginInv, LoginTyped
<1>3. ASSUME NEW c \in DOMAIN codes
      PROVE  /\ Cardinality(TryingWrong(c) \ {t}) =
                  Cardinality(TryingWrong(c)) - (IF t \in TryingWrong(c) THEN 1 ELSE 0)
             /\ Cardinality(LoggingIn(c) \ {t}) =
                  Cardinality(LoggingIn(c)) - (IF t \in LoggingIn(c) THEN 1 ELSE 0)
             /\ Cardinality(TryingWrong(c)) \in Nat /\ Cardinality(LoggingIn(c)) \in Nat
  <2>1. /\ IsFiniteSet(TryingWrong(c)) /\ IsFiniteSet(LoggingIn(c))
        /\ Cardinality(TryingWrong(c)) \in Nat /\ Cardinality(LoggingIn(c)) \in Nat
    BY UnderWayFinite
  <2>2. /\ Cardinality(TryingWrong(c) \ {t}) =
             IF t \in TryingWrong(c) THEN Cardinality(TryingWrong(c)) - 1
                                     ELSE Cardinality(TryingWrong(c))
        /\ Cardinality(LoggingIn(c) \ {t}) =
             IF t \in LoggingIn(c) THEN Cardinality(LoggingIn(c)) - 1
                                   ELSE Cardinality(LoggingIn(c))
    BY <2>1, FS_RemoveElement
  <2>3. QED
    BY <2>1, <2>2
<1>4. Overlap \in Nat /\ MaxAttempts \in Nat
  BY UnderWayFinite, BoundsAssumption DEF Overlap
<1>5. QED
  BY <1>1, <1>2, <1>3, <1>4

\* The end of a try: a wrong text, a login, or a failure.
LEMMA TryEndKeepsLogin ==
  ASSUME LoginInv, NEW t \in Tries,
         Login!VerifyCounts(t) \/ Login!VerifySigns(t) \/ Login!VerifyFails(t)
  PROVE  LoginInv'
<1> DEFINE c == tries[t].code
<1>1. t \in Busy /\ tries' = [tries EXCEPT ![t] = Login!NoTry] /\ UNCHANGED <<alone, tried>>
  BY DEF Login!VerifyCounts, Login!VerifySigns, Login!VerifyFails, Busy
<1>2. /\ c \in DOMAIN codes /\ Counted(c) /\ codes[c] \in Code /\ logins[c] \in Nat
      /\ Cardinality(TryingWrong(c) \ {t}) =
           Cardinality(TryingWrong(c)) - (IF t \in TryingWrong(c) THEN 1 ELSE 0)
      /\ Cardinality(LoggingIn(c) \ {t}) =
           Cardinality(LoggingIn(c)) - (IF t \in LoggingIn(c) THEN 1 ELSE 0)
      /\ Cardinality(TryingWrong(c)) \in Nat /\ Cardinality(LoggingIn(c)) \in Nat
      /\ Overlap \in Nat /\ MaxAttempts \in Nat /\ codes[c].attempts \in Nat
  BY <1>1, TryUnderWay DEF Code
<1>3. codes \in Seq(Code) /\ logins \in Seq(Nat) /\ DOMAIN logins = DOMAIN codes
  BY DEF LoginInv, LoginTyped
<1>4. codes = [codes EXCEPT ![c] = codes[c]] /\ logins = [logins EXCEPT ![c] = logins[c]]
  BY <1>2, <1>3
<1>5. CASE Login!VerifyCounts(t)
  <2> DEFINE code == [codes[c] EXCEPT !.attempts = @ + 1]
  <2>1. /\ t \in TryingWrong(c) /\ codes' = [codes EXCEPT ![c] = code] /\ logins' = logins
    BY <1>5 DEF Login!VerifyCounts, TryingWrong
  <2>2. /\ code \in Code /\ code.attempts = codes[c].attempts + 1
        /\ code.verified = codes[c].verified
    BY <1>2 DEF Code
  <2>3. /\ code.attempts + Cardinality(TryingWrong(c) \ {t}) <= MaxAttempts + Overlap - 1
        /\ logins[c] + Cardinality(LoggingIn(c) \ {t}) <= Overlap
    <3> HIDE DEF code, c
    <3>1. QED
      BY <1>2, <2>1, <2>2 DEF Counted
  <2>4. ~code.verified => logins[c] = 0
    BY <1>2, <2>2 DEF Counted
  <2> HIDE DEF code, c
  <2>5. QED
    BY <1>1, <1>2, <1>4, <2>1, <2>2, <2>3, <2>4, EndKeepsLogin
<1>6. CASE Login!VerifySigns(t)
  <2>1. /\ t \in LoggingIn(c) /\ logins' = [logins EXCEPT ![c] = logins[c] + 1] /\ codes' = codes
        /\ tries[t].at = "marked"
    BY <1>6 DEF Login!VerifySigns, LoggingIn
  <2>2. codes[c].verified
    BY <1>2, <2>1 DEF Counted
  <2> HIDE DEF c
  <2>3. /\ codes[c].attempts + Cardinality(TryingWrong(c) \ {t}) <= MaxAttempts + Overlap - 1
        /\ logins[c] + 1 + Cardinality(LoggingIn(c) \ {t}) <= Overlap
    BY <1>2, <2>1 DEF Counted
  <2>4. codes' = [codes EXCEPT ![c] = codes[c]] /\ logins[c] + 1 \in Nat
    BY <1>2, <1>4, <2>1
  <2>5. QED
    BY <1>1, <1>2, <2>1, <2>2, <2>3, <2>4, EndKeepsLogin
<1>7. CASE Login!VerifyFails(t)
  <2>1. codes' = codes /\ logins' = logins
    BY <1>7 DEF Login!VerifyFails
  <2> HIDE DEF c
  <2>2. /\ codes[c].attempts + Cardinality(TryingWrong(c) \ {t}) <= MaxAttempts + Overlap - 1
        /\ logins[c] + Cardinality(LoggingIn(c) \ {t}) <= Overlap
    BY <1>2 DEF Counted
  <2>3. ~codes[c].verified => logins[c] = 0
    BY <1>2 DEF Counted
  <2>4. QED
    BY <1>1, <1>2, <1>4, <2>1, <2>2, <2>3, EndKeepsLogin
<1>8. QED
  BY <1>5, <1>6, <1>7

\* A right text marks its code, and then logs in.
LEMMA MarkKeepsLogin ==
  ASSUME LoginInv, NEW t \in Tries, Login!VerifyMarks(t)
  PROVE  LoginInv'
<1> DEFINE c == tries[t].code
<1>1. PICK d \in DOMAIN codes : d = c
  <2>1. t \in Busy
    BY DEF Login!VerifyMarks, Busy
  <2>2. QED
    BY <2>1, TryUnderWay
<1>2. /\ LoginTyped /\ tries[t].at = "right" /\ tries' = [tries EXCEPT ![t].at = "marked"]
      /\ codes' = [codes EXCEPT ![d].verified = TRUE] /\ UNCHANGED <<alone, logins, tried>>
  BY <1>1 DEF LoginInv, Login!VerifyMarks
<1>3. /\ DOMAIN codes' = DOMAIN codes /\ Len(codes') = Len(codes) /\ codes' \in Seq(Code)
      /\ \A e \in DOMAIN codes : /\ codes'[e].attempts = codes[e].attempts
                                 /\ codes'[e].verified <=> (e = d \/ codes[e].verified)
  <2>0. codes[d] \in Code
    BY <1>1, <1>2 DEF LoginTyped
  <2>1. [codes[d] EXCEPT !.verified = TRUE] \in Code
    BY <2>0 DEF Code
  <2>2. \A e \in DOMAIN codes : codes[e] \in Code
    BY <1>2 DEF LoginTyped
  <2>3. QED
    BY <1>2, <2>1, <2>2 DEF LoginTyped, Code
<1>4. \A s \in Tries : /\ tries'[s].code = tries[s].code
                       /\ tries'[s].at = IF s = t THEN "marked" ELSE tries[s].at
  BY <1>2 DEF LoginTyped, Try
<1>5. /\ Busy' = Busy /\ Overlap' = Overlap
      /\ \A e : TryingWrong(e)' = TryingWrong(e) /\ LoggingIn(e)' = LoggingIn(e)
  BY <1>2, <1>4 DEF Busy, TryingWrong, LoggingIn, Overlap
<1>6. LoginTyped'
  <2>1. tries' \in [Tries -> Try]
    BY <1>2 DEF LoginTyped, Try
  <2>2. QED
    BY <1>2, <1>3, <1>4, <1>5, <2>1 DEF LoginTyped
<1>7. ASSUME NEW e \in DOMAIN codes PROVE Counted(e)'
  <2>1. Counted(e)
    BY DEF LoginInv
  <2>2. ~codes'[e].verified =>
          logins'[e] = 0 /\ \A s \in Tries : ~(tries'[s].at = "marked" /\ tries'[s].code = e)
    BY <1>1, <1>2, <1>3, <1>4, <2>1 DEF Counted
  <2>3. QED
    BY <1>2, <1>3, <1>5, <2>1, <2>2 DEF Counted
<1>8. QED
  BY <1>3, <1>5, <1>6, <1>7 DEF LoginInv

\* The end of a code's time changes no count.
LEMMA ExpireKeepsLogin ==
  ASSUME LoginInv, NEW c \in DOMAIN codes, Login!Expire(c)
  PROVE  LoginInv'
<1>1. LoginTyped /\ codes' = [codes EXCEPT ![c].expired = TRUE] /\ UNCHANGED <<alone, tries, logins, tried>>
  BY DEF LoginInv, Login!Expire
<1>2. /\ DOMAIN codes' = DOMAIN codes /\ Len(codes') = Len(codes) /\ codes' \in Seq(Code)
      /\ \A e \in DOMAIN codes : /\ codes'[e].attempts = codes[e].attempts
                                 /\ codes'[e].verified = codes[e].verified
  <2>0. codes[c] \in Code
    BY <1>1 DEF LoginTyped
  <2>1. [codes[c] EXCEPT !.expired = TRUE] \in Code
    BY <2>0 DEF Code
  <2>2. QED
    BY <1>1, <2>1 DEF LoginTyped, Code
<1>3. /\ Busy' = Busy /\ Overlap' = Overlap
      /\ \A e : TryingWrong(e)' = TryingWrong(e) /\ LoggingIn(e)' = LoggingIn(e)
  BY <1>1 DEF Busy, TryingWrong, LoggingIn, Overlap
<1>4. LoginTyped'
  BY <1>1, <1>2, <1>3 DEF LoginTyped
<1>5. ASSUME NEW e \in DOMAIN codes PROVE Counted(e)'
  <2>1. Counted(e)
    BY DEF LoginInv
  <2>2. QED
    BY <1>1, <1>2, <1>3, <2>1 DEF Counted
<1>6. QED
  BY <1>2, <1>3, <1>4, <1>5 DEF LoginInv

LEMMA LoginNextKeepsInv == LoginInv /\ Login!Next => LoginInv'
<1>1. SUFFICES ASSUME LoginInv, Login!Next PROVE LoginInv'
  OBVIOUS
<1>2. QED
  BY <1>1, SendKeepsLogin, ExpireKeepsLogin, ReadKeepsLogin, MarkKeepsLogin, TryEndKeepsLogin
     DEF Login!Next

\* What is under way only adds to what has been counted.
LEMMA LoginInvLimits == LoginInv => CodeLimits /\ Login!TypeOK
<1>1. SUFFICES ASSUME LoginInv PROVE CodeLimits /\ Login!TypeOK
  OBVIOUS
<1>2. ASSUME NEW c \in DOMAIN codes
      PROVE  codes[c].attempts <= MaxAttempts + Overlap - 1 /\ logins[c] <= Overlap
  <2>1. Counted(c) /\ codes[c] \in Code /\ logins[c] \in Nat
    BY <1>1 DEF LoginInv, LoginTyped
  <2>2. /\ Cardinality(TryingWrong(c)) \in Nat /\ Cardinality(LoggingIn(c)) \in Nat
        /\ Overlap \in Nat /\ MaxAttempts \in Nat /\ codes[c].attempts \in Nat
    BY <2>1, UnderWayFinite, BoundsAssumption DEF Overlap, Code
  <2>3. QED
    BY <2>1, <2>2 DEF Counted
<1>3. CodeLimits
  <2>1. Overlap = IF alone THEN 1 ELSE Login!Cardinality(Tries)
    BY DEF Overlap, Login!Cardinality, Cardinality
  <2>2. QED
    BY <1>2, <2>1 DEF CodeLimits, Login!CodeLimits
<1>4. Login!TypeOK
  BY <1>1 DEF LoginInv, LoginTyped, Login!TypeOK, Code, Try
<1>5. QED
  BY <1>3, <1>4

LEMMA LoginInit == Login!Init => LoginInv
<1>1. SUFFICES ASSUME Login!Init PROVE LoginInv
  OBVIOUS
<1>2. Busy = {}
  BY <1>1 DEF Login!Init, Login!NoTry, Busy
<1>3. Cardinality(Busy) <= Overlap
  BY <1>2, FS_EmptySet, UnderWayFinite DEF Overlap
<1>4. LoginTyped
  BY <1>1, <1>2, BoundsAssumption DEF Login!Init, Login!NoTry, LoginTyped, Code, Try
<1>5. QED
  BY <1>1, <1>3, <1>4 DEF LoginInv, Login!Init

-----------------------------------------------------------------------------
(* Reminders *)

Row == [channel: {"WHATSAPP", "SMS"}, status: {"PENDING", "SENT", "FAILED"}]
Tick == [at: {"idle", "next", "create", "send", "update", "failed", "call"},
         todo: SUBSET CalledGuests, of: SUBSET CalledGuests,
         channel: {"WHATSAPP", "SMS"}, row: Nat]

\* A tick that is about a guest, and has a row of theirs in hand.
Pipeline == {"create", "send", "update", "failed", "call"}
HasRow == {"send", "update", "failed"}

TickTyped(x) ==
  /\ x.at \in Pipeline => \E g \in CalledGuests : x.of = {g}
  /\ x.at \in HasRow => \A g \in x.of : x.row \in DOMAIN rows[g]

ReminderTyped ==
  /\ alone \in BOOLEAN /\ whatsApp \in BOOLEAN
  /\ called \in [CalledGuests -> {"early", "due", "over", "left"}]
  /\ rows \in [CalledGuests -> Seq(Row)]
  /\ received \in [CalledGuests -> Nat] /\ rung \in [CalledGuests -> Nat]
  /\ ticks \in [Ticks -> Tick] /\ \A t \in Ticks : TickTyped(ticks[t])
  /\ begun \in 0..MaxTicks /\ lapses \in 0..MaxLapses

LoneTick == \A t, u \in Ticks : ticks[t].at # "idle" /\ ticks[u].at # "idle" => t = u

\* What is so of a guest whatever the tick is at: without a row that is sent or
\* on its way, no more has arrived than went wrong.
GuestInv(g) ==
  /\ \A i, j \in DOMAIN rows[g] : Sweep!Live(rows[g][i]) /\ Sweep!Live(rows[g][j]) => i = j
  /\ received[g] <= lapses + 1 /\ rung[g] <= lapses + 1
  /\ ~Sweep!Reminded(g) => received[g] <= lapses /\ rung[g] <= lapses

\* What the tick that is at a guest has still to be owed.
InPipeline(x) ==
  \A g \in CalledGuests : x.of = {g} =>
    /\ x.at = "create" => ~Sweep!Reminded(g)
    /\ x.at \in HasRow => /\ Sweep!Live(rows[g][x.row])
                          /\ \A i \in DOMAIN rows[g] : Sweep!Live(rows[g][i]) => i = x.row
    /\ x.at \in {"create", "send", "failed"} => received[g] <= lapses
    /\ x.at \in Pipeline => rung[g] <= lapses
    /\ x.at \in {"create", "send", "update"} /\ x.channel = "SMS" => rung[g] < lapses
    /\ x.at = "failed" => rung[g] < lapses
    /\ x.at = "call" /\ ~Sweep!Reminded(g) => rung[g] < lapses

ReminderInv ==
  /\ ReminderTyped
  /\ alone => LoneTick
  /\ alone /\ whatsApp => /\ \A g \in CalledGuests : GuestInv(g)
                          /\ \A t \in Ticks : InPipeline(ticks[t])

\* A step of tick t that leaves x of it, as far as the invariant goes.
LEMMA TickGoes ==
  ASSUME ReminderInv, NEW t \in Ticks, NEW x \in Tick, ticks' = [ticks EXCEPT ![t] = x],
         UNCHANGED <<alone, whatsApp, called>>,
         begun' \in 0..MaxTicks, lapses' \in 0..MaxLapses,
         rows' \in [CalledGuests -> Seq(Row)],
         received' \in [CalledGuests -> Nat], rung' \in [CalledGuests -> Nat],
         \A g \in CalledGuests : DOMAIN rows[g] \subseteq DOMAIN rows'[g],
         TickTyped(x)',
         alone => \A u \in Ticks \ {t} : ticks[u].at = "idle",
         alone /\ whatsApp => InPipeline(x)' /\ \A g \in CalledGuests : GuestInv(g)'
  PROVE  ReminderInv'
<1>1. \A u \in Ticks : ticks'[u] = IF u = t THEN x ELSE ticks[u]
  BY DEF ReminderInv, ReminderTyped
<1>2. ASSUME NEW u \in Ticks PROVE TickTyped(ticks[u])'
  <2>1. ticks[u] \in Tick /\ TickTyped(ticks[u])
    BY DEF ReminderInv, ReminderTyped
  <2>2. PICK y \in Tick : y = ticks[u]
    BY <2>1
  <2>3. TickTyped(y)'
    BY <2>1, <2>2 DEF TickTyped, Tick
  <2>4. QED
    BY <1>1, <2>2, <2>3
<1>3. ReminderTyped'
  BY <1>1, <1>2 DEF ReminderInv, ReminderTyped
<1>4. alone => LoneTick'
  BY <1>1 DEF LoneTick
<1>5. ASSUME alone, whatsApp, NEW u \in Ticks PROVE InPipeline(ticks[u])'
  <2>1. CASE u = t
    <3>1. ticks'[u] = x /\ InPipeline(x)'
      BY <1>1, <1>5, <2>1
    <3>2. QED
      BY <3>1 DEF InPipeline
  <2>2. CASE u # t
    <3>1. ticks'[u].at = "idle"
      BY <1>1, <1>5, <2>2
    <3>2. QED
      BY <3>1 DEF InPipeline, Pipeline, HasRow
  <2>3. QED
    BY <2>1, <2>2
<1>6. QED
  BY <1>3, <1>4, <1>5 DEF ReminderInv

\* Only a lapse leaves room for more.
LEMMA GuestStays ==
  ASSUME ReminderTyped, NEW g \in CalledGuests, GuestInv(g),
         rows'[g] = rows[g], received'[g] = received[g], rung'[g] = rung[g],
         lapses' \in Nat, lapses <= lapses'
  PROVE  GuestInv(g)'
<1>1. lapses \in Nat /\ received[g] \in Nat /\ rung[g] \in Nat
  BY DEF ReminderTyped
<1>2. Sweep!Reminded(g)' <=> Sweep!Reminded(g)
  BY DEF Sweep!Reminded
<1>3. QED
  BY <1>1, <1>2 DEF GuestInv

\* The guest a tick is at, and that it is the only one under way.
LEMMA TickAt ==
  ASSUME ReminderInv, NEW t \in Ticks, ticks[t].at \in Pipeline
  PROVE  /\ \E g \in CalledGuests : ticks[t].of = {g} /\ Sweep!Of(t) = g
         /\ alone => \A u \in Ticks \ {t} : ticks[u].at = "idle"
         /\ alone /\ whatsApp => InPipeline(ticks[t])
<1>1. PICK g \in CalledGuests : ticks[t].of = {g}
  BY DEF ReminderInv, ReminderTyped, TickTyped
<1>2. Sweep!Of(t) = g
  BY <1>1 DEF Sweep!Of
<1>3. QED
  BY <1>1, <1>2 DEF ReminderInv, LoneTick, Pipeline

LEMMA MovesKeepsReminders ==
  ASSUME ReminderInv, NEW g \in CalledGuests, Sweep!Moves(g)
  PROVE  ReminderInv'
<1>1. /\ called' \in [CalledGuests -> {"early", "due", "over", "left"}]
      /\ UNCHANGED <<alone, whatsApp, rows, received, rung, ticks, begun, lapses>>
  BY DEF Sweep!Moves, Sweep!Later, ReminderInv, ReminderTyped
<1>2. ReminderTyped'
  BY <1>1 DEF ReminderInv, ReminderTyped, TickTyped
<1>3. LoneTick => LoneTick'
  BY <1>1 DEF LoneTick
<1>4. \A h \in CalledGuests : GuestInv(h)' <=> GuestInv(h)
  BY <1>1 DEF GuestInv, Sweep!Reminded
<1>5. \A u \in Ticks : InPipeline(ticks[u])' <=> InPipeline(ticks[u])
  BY <1>1 DEF InPipeline, Sweep!Reminded
<1>6. QED
  BY <1>1, <1>2, <1>3, <1>4, <1>5 DEF ReminderInv

\* A tick begins, ends or is stopped between guests and rows.
LEMMA NoGuestKeepsReminders ==
  ASSUME ReminderInv, NEW t \in Ticks,
         Sweep!TickBegins(t) \/ Sweep!TickEnds(t) \/ Sweep!TickStops(t)
  PROVE  ReminderInv'
<1>1. /\ UNCHANGED <<alone, whatsApp, called, rows, received, rung>>
      /\ begun' \in 0..MaxTicks /\ lapses' \in 0..MaxLapses /\ lapses <= lapses'
  BY BoundsAssumption
     DEF Sweep!TickBegins, Sweep!TickEnds, Sweep!TickStops, Sweep!Lapse, ReminderInv, ReminderTyped
<1>2. PICK x \in Tick : ticks' = [ticks EXCEPT ![t] = x] /\ x.at \in {"idle", "next"}
  <2>1. Sweep!NoTick \in Tick /\ Sweep!NoTick.at = "idle"
    BY DEF Sweep!NoTick, Tick
  <2>2. CASE Sweep!TickBegins(t)
    <3> DEFINE y == [Sweep!NoTick EXCEPT !.at = "next",
                       !.todo = {g \in CalledGuests : called[g] = "due"}]
    <3>1. y \in Tick /\ y.at = "next"
      BY DEF Sweep!NoTick, Tick
    <3>2. ticks' = [ticks EXCEPT ![t] = y]
      BY <2>2 DEF Sweep!TickBegins
    <3>3. QED
      BY <3>1, <3>2
  <2>3. CASE Sweep!TickEnds(t) \/ Sweep!TickStops(t)
    BY <2>1, <2>3 DEF Sweep!TickEnds, Sweep!TickStops
  <2>4. QED
    BY <2>2, <2>3
<1>3. alone => \A u \in Ticks \ {t} : ticks[u].at = "idle"
  BY DEF Sweep!TickBegins, Sweep!TickEnds, Sweep!TickStops, Sweep!At, ReminderInv, LoneTick
<1>4. alone /\ whatsApp => \A g \in CalledGuests : GuestInv(g)'
  BY <1>1, GuestStays DEF ReminderInv, ReminderTyped
<1>5. TickTyped(x)' /\ InPipeline(x)'
  BY <1>2 DEF TickTyped, InPipeline, Pipeline, HasRow
<1>6. QED
  BY <1>1, <1>2, <1>3, <1>4, <1>5, TickGoes DEF ReminderInv, ReminderTyped

LEMMA CheckKeepsReminders ==
  ASSUME ReminderInv, NEW t \in Ticks, Sweep!Check(t)
  PROVE  ReminderInv'
<1>1. PICK g \in ticks[t].todo :
        ticks' = [ticks EXCEPT ![t] =
          [Sweep!NoTick EXCEPT !.todo = ticks[t].todo \ {g},
             !.of = IF Sweep!Reminded(g) THEN {} ELSE {g},
             !.at = IF Sweep!Reminded(g) THEN "next" ELSE IF whatsApp THEN "create" ELSE "call"]]
  BY DEF Sweep!Check
<1>2. /\ UNCHANGED <<alone, whatsApp, called, rows, received, rung, begun, lapses>>
      /\ ticks[t].at = "next" /\ ticks[t] \in Tick /\ lapses \in 0..MaxLapses
  BY DEF Sweep!Check, Sweep!At, ReminderInv, ReminderTyped
<1>3. g \in CalledGuests /\ ticks[t].todo \in SUBSET CalledGuests
  BY <1>1, <1>2 DEF Tick
<1>4. PICK x \in Tick :
        /\ ticks' = [ticks EXCEPT ![t] = x] /\ x.channel = "WHATSAPP"
        /\ x.of = IF Sweep!Reminded(g) THEN {} ELSE {g}
        /\ x.at = IF Sweep!Reminded(g) THEN "next" ELSE IF whatsApp THEN "create" ELSE "call"
  <2> DEFINE y == [Sweep!NoTick EXCEPT !.todo = ticks[t].todo \ {g},
             !.of = IF Sweep!Reminded(g) THEN {} ELSE {g},
             !.at = IF Sweep!Reminded(g) THEN "next" ELSE IF whatsApp THEN "create" ELSE "call"]
  <2>1. /\ y.at = (IF Sweep!Reminded(g) THEN "next" ELSE IF whatsApp THEN "create" ELSE "call")
        /\ y.of = (IF Sweep!Reminded(g) THEN {} ELSE {g}) /\ y.channel = "WHATSAPP"
        /\ y \in Tick
    BY <1>3 DEF Sweep!NoTick, Tick
  <2> HIDE DEF y
  <2>2. ticks' = [ticks EXCEPT ![t] = y]
    BY <1>1 DEF y
  <2>3. QED
    BY <2>1, <2>2
<1>5. alone => \A u \in Ticks \ {t} : ticks[u].at = "idle"
  BY <1>2 DEF ReminderInv, LoneTick
<1>6. alone /\ whatsApp => \A h \in CalledGuests : GuestInv(h)'
  BY <1>2, GuestStays DEF ReminderInv
<1>7. TickTyped(x)'
  BY <1>3, <1>4 DEF TickTyped, HasRow, Pipeline
<1>8. ASSUME alone, whatsApp PROVE InPipeline(x)'
  <2>1. CASE Sweep!Reminded(g)
    BY <1>4, <2>1 DEF InPipeline, HasRow, Pipeline
  <2>2. CASE ~Sweep!Reminded(g)
    <3>1. GuestInv(g)
      BY <1>3, <1>8 DEF ReminderInv
    <3>2. ~Sweep!Reminded(g)' /\ received'[g] <= lapses' /\ rung'[g] <= lapses'
      BY <1>2, <2>2, <3>1 DEF GuestInv, Sweep!Reminded
    <3>3. x.of = {g} /\ x.at = "create" /\ x.channel = "WHATSAPP"
      BY <1>4, <1>8, <2>2
    <3>4. QED
      BY <3>2, <3>3 DEF InPipeline, HasRow, Pipeline
  <2>3. QED
    BY <2>1, <2>2
<1>9. QED
  BY <1>2, <1>4, <1>5, <1>6, <1>7, <1>8, TickGoes DEF ReminderInv, ReminderTyped

LEMMA CreateKeepsReminders ==
  ASSUME ReminderInv, NEW t \in Ticks, Sweep!Create(t)
  PROVE  ReminderInv'
<1>1. /\ UNCHANGED <<alone, whatsApp, called, received, rung, begun, lapses>>
      /\ ticks[t].at = "create" /\ ticks[t] \in Tick /\ ReminderTyped /\ lapses \in Nat
  BY BoundsAssumption DEF Sweep!Create, Sweep!At, ReminderInv, ReminderTyped
<1>2. PICK g \in CalledGuests : ticks[t].of = {g} /\ Sweep!Of(t) = g
  BY <1>1, TickAt DEF Pipeline
<1>3. /\ alone => \A u \in Ticks \ {t} : ticks[u].at = "idle"
      /\ alone /\ whatsApp => InPipeline(ticks[t])
  BY <1>1, TickAt DEF Pipeline
<1>4. PICK n \in Nat : n = Len(rows[g]) + 1
  BY <1>1, <1>2 DEF ReminderTyped
<1>5. PICK row \in Row : /\ row = [channel |-> ticks[t].channel, status |-> "PENDING"]
                         /\ Sweep!Live(row)
  <2> DEFINE r == [channel |-> ticks[t].channel, status |-> "PENDING"]
  <2>1. ticks[t].channel \in {"WHATSAPP", "SMS"}
    BY <1>1 DEF Tick
  <2>2. r \in Row /\ r.status = "PENDING"
    BY <2>1 DEF Row
  <2>3. Sweep!Live(r)
    BY <2>2 DEF Sweep!Live
  <2>4. QED
    BY <2>2, <2>3
<1>6. rows' = [rows EXCEPT ![g] = Append(rows[g], row)]
  BY <1>2, <1>5 DEF Sweep!Create
<1>7. /\ rows'[g] \in Seq(Row) /\ rows' \in [CalledGuests -> Seq(Row)]
      /\ DOMAIN rows[g] = 1..(n - 1) /\ DOMAIN rows'[g] = 1..n
      /\ rows'[g][n] = row /\ \A i \in DOMAIN rows[g] : rows'[g][i] = rows[g][i]
      /\ \A h \in CalledGuests \ {g} : rows'[h] = rows[h]
  <2>1. rows[g] \in Seq(Row) /\ rows'[g] = Append(rows[g], row)
    BY <1>1, <1>2, <1>6 DEF ReminderTyped
  <2>2. QED
    BY <1>1, <1>2, <1>4, <1>6, <2>1 DEF ReminderTyped
<1>8. PICK x \in Tick : /\ ticks' = [ticks EXCEPT ![t] = x]
                        /\ x.at = "send" /\ x.row = n /\ x.of = {g} /\ x.channel = ticks[t].channel
  <2> DEFINE y == [ticks[t] EXCEPT !.at = "send", !.row = n]
  <2>1. y.at = "send" /\ y.row = n /\ y.of = {g} /\ y.channel = ticks[t].channel /\ y \in Tick
    BY <1>1, <1>2 DEF Tick
  <2>2. ticks' = [ticks EXCEPT ![t] = y]
    BY <1>2, <1>4 DEF Sweep!Create
  <2>3. QED
    BY <2>1, <2>2
<1>9. TickTyped(x)'
  <2>1. n \in DOMAIN rows'[g]
    BY <1>4, <1>7
  <2>2. QED
    BY <1>2, <1>8, <2>1 DEF TickTyped
<1>10. ASSUME alone, whatsApp
       PROVE  InPipeline(x)' /\ \A h \in CalledGuests : GuestInv(h)'
  <2>1. /\ ~Sweep!Reminded(g) /\ received[g] <= lapses /\ rung[g] <= lapses
        /\ ticks[t].channel = "SMS" => rung[g] < lapses
    BY <1>1, <1>2, <1>3, <1>10 DEF InPipeline, Pipeline
  <2>2. \A i \in DOMAIN rows'[g] : Sweep!Live(rows'[g][i]) <=> i = n
    BY <1>5, <1>7, <2>1 DEF Sweep!Reminded
  <2>3. n \in DOMAIN rows'[g] /\ Sweep!Live(rows'[g][n])
    BY <1>4, <1>5, <1>7
  <2>4. InPipeline(x)'
    BY <1>1, <1>8, <2>1, <2>2, <2>3 DEF InPipeline, Pipeline, HasRow
  <2>5. GuestInv(g)'
    <3>1. Sweep!Reminded(g)'
      BY <2>3 DEF Sweep!Reminded
    <3>2. received[g] \in Nat /\ rung[g] \in Nat
      BY <1>1, <1>2 DEF ReminderTyped
    <3>3. QED
      BY <1>1, <2>1, <2>2, <3>1, <3>2 DEF GuestInv
  <2>6. \A h \in CalledGuests \ {g} : GuestInv(h)'
    BY <1>1, <1>7, <1>10, GuestStays DEF ReminderInv
  <2>7. QED
    BY <2>4, <2>5, <2>6
<1>11. \A h \in CalledGuests : DOMAIN rows[h] \subseteq DOMAIN rows'[h]
  BY <1>4, <1>7
<1>12. QED
  BY <1>1, <1>3, <1>7, <1>8, <1>9, <1>10, <1>11, TickGoes DEF ReminderInv, ReminderTyped

LEMMA CallKeepsReminders ==
  ASSUME ReminderInv, NEW t \in Ticks, Sweep!Call(t)
  PROVE  ReminderInv'
<1>1. /\ UNCHANGED <<alone, whatsApp, called, rows, received, begun, lapses>>
      /\ ticks[t].at = "call" /\ ticks[t] \in Tick /\ ReminderTyped /\ lapses \in Nat
  BY BoundsAssumption DEF Sweep!Call, Sweep!At, ReminderInv, ReminderTyped
<1>2. PICK g \in CalledGuests : ticks[t].of = {g} /\ Sweep!Of(t) = g
  BY <1>1, TickAt DEF Pipeline
<1>3. /\ alone => \A u \in Ticks \ {t} : ticks[u].at = "idle"
      /\ alone /\ whatsApp => InPipeline(ticks[t])
  BY <1>1, TickAt DEF Pipeline
<1>4. PICK x \in Tick : ticks' = [ticks EXCEPT ![t] = x] /\ x.at = "next"
  <2>1. ticks[t].todo \in SUBSET CalledGuests
    BY <1>1 DEF Tick
  <2>2. [Sweep!NoTick EXCEPT !.at = "next", !.todo = ticks[t].todo] \in Tick
    BY <2>1 DEF Sweep!NoTick, Tick
  <2>3. QED
    BY <2>2 DEF Sweep!Call, Sweep!NoTick
<1>5. /\ rung' \in [CalledGuests -> Nat] /\ rung'[g] = rung[g] + 1
      /\ \A h \in CalledGuests \ {g} : rung'[h] = rung[h]
  BY <1>1, <1>2 DEF Sweep!Call, ReminderTyped
<1>6. TickTyped(x)' /\ InPipeline(x)'
  BY <1>4 DEF TickTyped, InPipeline, Pipeline, HasRow
<1>7. ASSUME alone, whatsApp, NEW h \in CalledGuests PROVE GuestInv(h)'
  <2>1. GuestInv(h)
    BY <1>7 DEF ReminderInv
  <2>2. CASE h # g
    BY <1>1, <1>5, <2>1, <2>2, GuestStays
  <2>3. CASE h = g
    <3>1. rung[g] <= lapses /\ (~Sweep!Reminded(g) => rung[g] < lapses)
      BY <1>1, <1>2, <1>3, <1>7 DEF InPipeline, Pipeline
    <3>2. Sweep!Reminded(g)' <=> Sweep!Reminded(g)
      BY <1>1 DEF Sweep!Reminded
    <3>3. rung[g] \in Nat
      BY <1>1 DEF ReminderTyped
    <3>4. QED
      BY <1>1, <1>5, <2>1, <2>3, <3>1, <3>2, <3>3 DEF GuestInv
  <2>4. QED
    BY <2>2, <2>3
<1>8. QED
  BY <1>1, <1>3, <1>4, <1>5, <1>6, <1>7, TickGoes DEF ReminderInv, ReminderTyped

LEMMA ProviderKeepsReminders ==
  ASSUME ReminderInv, NEW t \in Ticks, Sweep!Provider(t)
  PROVE  ReminderInv'
<1>1. /\ UNCHANGED <<alone, whatsApp, called, rows, rung, begun>>
      /\ ticks[t].at = "send" /\ ticks[t] \in Tick /\ ReminderTyped /\ lapses \in Nat
  BY BoundsAssumption DEF Sweep!Provider, Sweep!At, ReminderInv, ReminderTyped
<1>2. PICK g \in CalledGuests : ticks[t].of = {g} /\ Sweep!Of(t) = g
  BY <1>1, TickAt DEF Pipeline
<1>3. /\ alone => \A u \in Ticks \ {t} : ticks[u].at = "idle"
      /\ alone /\ whatsApp => InPipeline(ticks[t])
  BY <1>1, TickAt DEF Pipeline
<1>4. /\ lapses' \in 0..MaxLapses /\ lapses <= lapses'
      /\ received' \in [CalledGuests -> Nat]
      /\ \A h \in CalledGuests \ {g} : received'[h] = received[h]
      /\ \/ received'[g] = received[g] + 1 /\ lapses' = lapses
         \/ received'[g] = received[g] /\ lapses' = lapses + 1
  BY <1>1, <1>2, BoundsAssumption, SMTT(40) DEF Sweep!Provider, Sweep!Lapse, ReminderTyped
<1>5. PICK x \in Tick :
        /\ ticks' = [ticks EXCEPT ![t] = x]
        /\ x.of = {g} /\ x.row = ticks[t].row /\ x.channel = ticks[t].channel
        /\ x.at = IF lapses' = lapses THEN "update" ELSE "failed"
  <2>1. PICK place \in {"update", "failed"} :
          /\ ticks' = [ticks EXCEPT ![t].at = place]
          /\ place = IF lapses' = lapses THEN "update" ELSE "failed"
    BY <1>1 DEF Sweep!Provider, Sweep!Goes, Sweep!Lapse
  <2> DEFINE y == [ticks[t] EXCEPT !.at = place]
  <2>2. /\ y.of = {g} /\ y.row = ticks[t].row /\ y.channel = ticks[t].channel /\ y.at = place
        /\ y \in Tick
    BY <1>1, <1>2 DEF Tick
  <2>3. ticks' = [ticks EXCEPT ![t] = y]
    BY <2>1
  <2>4. QED
    BY <2>1, <2>2, <2>3
<1>6. TickTyped(x)'
  <2>1. TickTyped(ticks[t])
    BY <1>1 DEF ReminderTyped
  <2>2. ticks[t].row \in DOMAIN rows[g]
    BY <1>1, <1>2, <2>1 DEF TickTyped, HasRow
  <2>3. QED
    BY <1>1, <1>2, <1>5, <2>2 DEF TickTyped
<1>7. ASSUME alone, whatsApp
      PROVE  InPipeline(x)' /\ \A h \in CalledGuests : GuestInv(h)'
  <2>1. /\ Sweep!Live(rows[g][ticks[t].row])
        /\ \A i \in DOMAIN rows[g] : Sweep!Live(rows[g][i]) => i = ticks[t].row
        /\ received[g] <= lapses /\ rung[g] <= lapses
        /\ ticks[t].channel = "SMS" => rung[g] < lapses
    BY <1>1, <1>2, <1>3, <1>7 DEF InPipeline, Pipeline, HasRow
  <2>2. received[g] \in Nat /\ rung[g] \in Nat
    BY <1>1, <1>2 DEF ReminderTyped
  <2>3. InPipeline(x)'
    BY <1>1, <1>4, <1>5, <2>1, <2>2 DEF InPipeline, Pipeline, HasRow
  <2>4. GuestInv(g)'
    <3>1. TickTyped(ticks[t])
      BY <1>1 DEF ReminderTyped
    <3>2. Sweep!Reminded(g)'
      BY <1>1, <1>2, <2>1, <3>1 DEF Sweep!Reminded, TickTyped, HasRow
    <3>3. QED
      BY <1>1, <1>4, <2>1, <2>2, <3>2 DEF GuestInv
  <2>5. \A h \in CalledGuests \ {g} : GuestInv(h)'
    BY <1>1, <1>4, <1>7, GuestStays DEF ReminderInv
  <2>6. QED
    BY <2>3, <2>4, <2>5
<1>8. QED
  BY <1>1, <1>3, <1>4, <1>5, <1>6, <1>7, TickGoes DEF ReminderInv, ReminderTyped

\* The row in hand gets a status.
LEMMA RowSet ==
  ASSUME ReminderTyped, NEW t \in Ticks, NEW g \in CalledGuests, Sweep!Of(t) = g,
         ticks[t].row \in DOMAIN rows[g], NEW status \in {"PENDING", "SENT", "FAILED"},
         Sweep!RowIs(t, status)
  PROVE  /\ rows' \in [CalledGuests -> Seq(Row)] /\ DOMAIN rows'[g] = DOMAIN rows[g]
         /\ \A h \in CalledGuests \ {g} : rows'[h] = rows[h]
         /\ rows'[g][ticks[t].row].status = status
         /\ \A i \in DOMAIN rows[g] : i # ticks[t].row => rows'[g][i] = rows[g][i]
<1>1. PICK n : n = ticks[t].row
  OBVIOUS
<1>2. rows[g] \in Seq(Row) /\ n \in DOMAIN rows[g] /\ rows \in [CalledGuests -> Seq(Row)]
  BY <1>1 DEF ReminderTyped
<1>3. PICK row \in Row : row = [rows[g][n] EXCEPT !.status = status] /\ row.status = status
  <2> DEFINE r == [rows[g][n] EXCEPT !.status = status]
  <2>1. rows[g][n] \in Row
    BY <1>2
  <2>2. r \in Row /\ r.status = status
    BY <2>1 DEF Row
  <2>3. QED
    BY <2>2
<1>4. rows' = [rows EXCEPT ![g] = [rows[g] EXCEPT ![n] = row]]
  BY <1>1, <1>2, <1>3 DEF Sweep!RowIs
<1>5. /\ [rows[g] EXCEPT ![n] = row] \in Seq(Row)
      /\ DOMAIN [rows[g] EXCEPT ![n] = row] = DOMAIN rows[g]
  BY <1>2, <1>3
<1>6. QED
  BY <1>1, <1>2, <1>3, <1>4, <1>5

LEMMA UpdateSentKeepsReminders ==
  ASSUME ReminderInv, NEW t \in Ticks, Sweep!UpdateSent(t)
  PROVE  ReminderInv'
<1>1. /\ UNCHANGED <<alone, whatsApp, called, received, rung, begun>>
      /\ ticks[t].at = "update" /\ ticks[t] \in Tick /\ ReminderTyped /\ lapses \in Nat
  BY BoundsAssumption DEF Sweep!UpdateSent, Sweep!At, ReminderInv, ReminderTyped
<1>2. PICK g \in CalledGuests : ticks[t].of = {g} /\ Sweep!Of(t) = g
  BY <1>1, TickAt DEF Pipeline
<1>3. /\ alone => \A u \in Ticks \ {t} : ticks[u].at = "idle"
      /\ alone /\ whatsApp => InPipeline(ticks[t])
  BY <1>1, TickAt DEF Pipeline
<1>4. ticks[t].row \in DOMAIN rows[g]
  <2>1. TickTyped(ticks[t])
    BY <1>1 DEF ReminderTyped
  <2>2. QED
    BY <1>1, <1>2, <2>1 DEF TickTyped, HasRow
<1>5. PICK n : n = ticks[t].row
  OBVIOUS
<1>6. /\ received[g] \in Nat /\ rung[g] \in Nat
      /\ alone /\ whatsApp => /\ Sweep!Live(rows[g][n])
                              /\ \A i \in DOMAIN rows[g] : Sweep!Live(rows[g][i]) => i = n
                              /\ rung[g] <= lapses
                              /\ ticks[t].channel = "SMS" => rung[g] < lapses
                              /\ \A h \in CalledGuests : GuestInv(h)
  BY <1>1, <1>2, <1>3, <1>5 DEF InPipeline, Pipeline, HasRow, ReminderTyped, ReminderInv
<1>7. CASE Sweep!Goes(t, "call") /\ Sweep!RowIs(t, "SENT") /\ UNCHANGED lapses
  <2>1. /\ rows' \in [CalledGuests -> Seq(Row)] /\ DOMAIN rows'[g] = DOMAIN rows[g]
        /\ \A h \in CalledGuests \ {g} : rows'[h] = rows[h]
        /\ rows'[g][n].status = "SENT"
        /\ \A i \in DOMAIN rows[g] : i # n => rows'[g][i] = rows[g][i]
    BY <1>1, <1>2, <1>4, <1>5, <1>7, RowSet
  <2>2. PICK x \in Tick : ticks' = [ticks EXCEPT ![t] = x] /\ x.at = "call" /\ x.of = {g}
    <3>1. [ticks[t] EXCEPT !.at = "call"] \in Tick
      BY <1>1 DEF Tick
    <3>2. QED
      BY <1>1, <1>2, <1>7, <3>1 DEF Sweep!Goes, Tick
  <2>3. TickTyped(x)'
    BY <1>2, <2>2 DEF TickTyped, HasRow
  <2>4. Sweep!Live(rows'[g][n]) /\ n \in DOMAIN rows'[g]
    BY <1>4, <1>5, <2>1 DEF Sweep!Live
  <2>5. alone /\ whatsApp => Sweep!Reminded(g)' /\ Sweep!Reminded(g)
    BY <1>4, <1>5, <1>6, <2>4 DEF Sweep!Reminded
  <2>6. ASSUME alone, whatsApp
        PROVE  InPipeline(x)' /\ \A h \in CalledGuests : GuestInv(h)'
    <3>1. InPipeline(x)'
      BY <1>1, <1>6, <1>7, <2>2, <2>5, <2>6 DEF InPipeline, Pipeline, HasRow
    <3>2. GuestInv(g)'
      BY <1>1, <1>2, <1>6, <1>7, <2>1, <2>5, <2>6 DEF GuestInv
    <3>3. \A h \in CalledGuests \ {g} : GuestInv(h)'
      BY <1>1, <1>6, <1>7, <2>1, <2>6, GuestStays
    <3>4. QED
      BY <3>1, <3>2, <3>3
  <2>7. \A h \in CalledGuests : DOMAIN rows[h] \subseteq DOMAIN rows'[h]
    BY <2>1
  <2>8. QED
    BY <1>1, <1>3, <1>7, <2>1, <2>2, <2>3, <2>6, <2>7, TickGoes DEF ReminderInv, ReminderTyped
<1>8. CASE Sweep!Lapse /\ Sweep!Goes(t, "failed") /\ UNCHANGED rows
  <2>1. PICK x \in Tick : /\ ticks' = [ticks EXCEPT ![t] = x] /\ x.at = "failed" /\ x.of = {g}
                          /\ x.row = n
    <3>1. [ticks[t] EXCEPT !.at = "failed"] \in Tick
      BY <1>1 DEF Tick
    <3>2. QED
      BY <1>1, <1>2, <1>5, <1>8, <3>1 DEF Sweep!Goes, Tick
  <2>2. TickTyped(x)'
    BY <1>2, <1>4, <1>5, <1>8, <2>1 DEF TickTyped, HasRow
  <2>3. lapses' = lapses + 1 /\ lapses' \in 0..MaxLapses
    BY <1>1, <1>8, BoundsAssumption DEF Sweep!Lapse, ReminderTyped
  <2>4. ASSUME alone, whatsApp
        PROVE  InPipeline(x)' /\ \A h \in CalledGuests : GuestInv(h)'
    <3>1. received[g] <= lapses + 1 /\ rung[g] <= lapses
      BY <1>2, <1>6, <2>4 DEF GuestInv
    <3>2. InPipeline(x)'
      BY <1>1, <1>6, <1>8, <2>1, <2>3, <2>4, <3>1 DEF InPipeline, Pipeline, HasRow
    <3>3. \A h \in CalledGuests : GuestInv(h)'
      BY <1>1, <1>6, <1>8, <2>3, <2>4, GuestStays
    <3>4. QED
      BY <3>2, <3>3
  <2>5. QED
    BY <1>1, <1>3, <1>8, <2>1, <2>2, <2>3, <2>4, TickGoes DEF ReminderInv, ReminderTyped
<1>9. QED
  BY <1>7, <1>8 DEF Sweep!UpdateSent

LEMMA UpdateFailedKeepsReminders ==
  ASSUME ReminderInv, NEW t \in Ticks, Sweep!UpdateFailed(t)
  PROVE  ReminderInv'
<1>1. /\ UNCHANGED <<alone, whatsApp, called, received, rung, begun, lapses>>
      /\ Sweep!RowIs(t, "FAILED")
      /\ ticks[t].at = "failed" /\ ticks[t] \in Tick /\ ReminderTyped /\ lapses \in Nat
  BY BoundsAssumption DEF Sweep!UpdateFailed, Sweep!At, ReminderInv, ReminderTyped
<1>2. PICK g \in CalledGuests : ticks[t].of = {g} /\ Sweep!Of(t) = g
  BY <1>1, TickAt DEF Pipeline
<1>3. /\ alone => \A u \in Ticks \ {t} : ticks[u].at = "idle"
      /\ alone /\ whatsApp => InPipeline(ticks[t])
  BY <1>1, TickAt DEF Pipeline
<1>4. ticks[t].row \in DOMAIN rows[g]
  <2>1. TickTyped(ticks[t])
    BY <1>1 DEF ReminderTyped
  <2>2. QED
    BY <1>1, <1>2, <2>1 DEF TickTyped, HasRow
<1>5. PICK n : n = ticks[t].row
  OBVIOUS
<1>6. /\ received[g] \in Nat /\ rung[g] \in Nat
      /\ alone /\ whatsApp => /\ \A i \in DOMAIN rows[g] : Sweep!Live(rows[g][i]) => i = n
                              /\ received[g] <= lapses /\ rung[g] < lapses
                              /\ \A h \in CalledGuests : GuestInv(h)
  BY <1>1, <1>2, <1>3, <1>5 DEF InPipeline, Pipeline, HasRow, ReminderTyped, ReminderInv
<1>7. /\ rows' \in [CalledGuests -> Seq(Row)] /\ DOMAIN rows'[g] = DOMAIN rows[g]
      /\ \A h \in CalledGuests \ {g} : rows'[h] = rows[h]
      /\ rows'[g][n].status = "FAILED"
      /\ \A i \in DOMAIN rows[g] : i # n => rows'[g][i] = rows[g][i]
  BY <1>1, <1>2, <1>4, <1>5, RowSet
<1>8. PICK x \in Tick :
        /\ ticks' = [ticks EXCEPT ![t] = x] /\ x.at \in {"create", "call"} /\ x.of = {g}
  <2>1. CASE /\ ticks[t].channel = "WHATSAPP"
             /\ ticks' = [ticks EXCEPT ![t].at = "create", ![t].channel = "SMS"]
    <3> DEFINE y == [ticks[t] EXCEPT !.at = "create", !.channel = "SMS"]
    <3>1. y \in Tick /\ y.at = "create" /\ y.of = {g}
      BY <1>1, <1>2 DEF Tick
    <3>2. ticks' = [ticks EXCEPT ![t] = y]
      BY <1>1, <2>1 DEF ReminderTyped
    <3>3. QED
      BY <3>1, <3>2
  <2>2. CASE Sweep!Goes(t, "call")
    <3> DEFINE y == [ticks[t] EXCEPT !.at = "call"]
    <3>1. y \in Tick /\ y.at = "call" /\ y.of = {g}
      BY <1>1, <1>2 DEF Tick
    <3>2. ticks' = [ticks EXCEPT ![t] = y]
      BY <2>2 DEF Sweep!Goes
    <3>3. QED
      BY <3>1, <3>2
  <2>3. QED
    BY <2>1, <2>2 DEF Sweep!UpdateFailed
<1>9. TickTyped(x)'
  BY <1>2, <1>8 DEF TickTyped, HasRow
<1>10. ASSUME alone, whatsApp
       PROVE  InPipeline(x)' /\ \A h \in CalledGuests : GuestInv(h)'
  <2>1. \A i \in DOMAIN rows'[g] : ~Sweep!Live(rows'[g][i])
    BY <1>4, <1>5, <1>6, <1>7, <1>10 DEF Sweep!Live
  <2>2. ~Sweep!Reminded(g)'
    BY <2>1 DEF Sweep!Reminded
  <2>3. InPipeline(x)'
    BY <1>1, <1>6, <1>8, <1>10, <2>2 DEF InPipeline, Pipeline, HasRow
  <2>4. GuestInv(g)'
    BY <1>1, <1>6, <1>10, <2>1 DEF GuestInv
  <2>5. \A h \in CalledGuests \ {g} : GuestInv(h)'
    BY <1>1, <1>6, <1>7, <1>10, GuestStays
  <2>6. QED
    BY <2>3, <2>4, <2>5
<1>11. \A h \in CalledGuests : DOMAIN rows[h] \subseteq DOMAIN rows'[h]
  BY <1>7
<1>12. QED
  BY <1>1, <1>3, <1>7, <1>8, <1>9, <1>10, <1>11, TickGoes DEF ReminderInv, ReminderTyped

LEMMA SweepNextKeepsInv == ReminderInv /\ Sweep!Next => ReminderInv'
BY MovesKeepsReminders, NoGuestKeepsReminders, CheckKeepsReminders, CreateKeepsReminders,
   ProviderKeepsReminders, UpdateSentKeepsReminders, UpdateFailedKeepsReminders,
   CallKeepsReminders
   DEF Sweep!Next

\* One row at most is sent or on its way, so they are at most one.
LEMMA ReminderInvOne == ReminderInv => OneReminder /\ Sweep!TypeOK
<1>1. SUFFICES ASSUME ReminderInv PROVE OneReminder /\ Sweep!TypeOK
  OBVIOUS
<1>2. ASSUME alone, whatsApp, NEW g \in CalledGuests
      PROVE  /\ Cardinality({i \in DOMAIN rows[g] : Sweep!Live(rows[g][i])}) <= 1
             /\ received[g] <= 1 + lapses /\ rung[g] <= 1 + lapses
  <2> DEFINE S == {i \in DOMAIN rows[g] : Sweep!Live(rows[g][i])}
  <2>1. GuestInv(g)
    BY <1>1, <1>2 DEF ReminderInv
  <2>2. S = {} \/ \E i : S = {i}
    BY <2>1 DEF GuestInv
  <2>3. Cardinality(S) <= 1
    <3> HIDE DEF S
    <3>1. CASE S = {}
      <4>1. Cardinality(S) = 0
        BY <3>1, FS_EmptySet
      <4>2. QED
        BY <4>1
    <3>2. CASE \E i : S = {i}
      <4>1. Cardinality(S) = 1
        BY <3>2, FS_Singleton
      <4>2. QED
        BY <4>1
    <3>3. QED
      BY <2>2, <3>1, <3>2
  <2>4. received[g] \in Nat /\ rung[g] \in Nat /\ lapses \in 0..MaxLapses
    BY <1>1 DEF ReminderInv, ReminderTyped
  <2>5. QED
    BY <2>1, <2>3, <2>4, BoundsAssumption DEF GuestInv
<1>3. \A S : Sweep!Cardinality(S) = Cardinality(S)
  BY DEF Sweep!Cardinality, Cardinality
<1>4. OneReminder
  BY <1>2, <1>3 DEF OneReminder, Sweep!OneReminder
<1>5. Sweep!TypeOK
  <2>1. ASSUME NEW g \in CalledGuests, NEW i \in DOMAIN rows[g] PROVE rows[g][i] \in Row
    <3>1. rows[g] \in Seq(Row)
      BY <1>1 DEF ReminderInv, ReminderTyped
    <3>2. QED
      BY <3>1
  <2>2. QED
    BY <1>1, <2>1 DEF ReminderInv, ReminderTyped, Sweep!TypeOK, Row, Tick
<1>6. QED
  BY <1>4, <1>5

LEMMA ReminderInit == Sweep!Init => ReminderInv
<1>1. SUFFICES ASSUME Sweep!Init PROVE ReminderInv
  OBVIOUS
<1>2. \A t \in Ticks : ticks[t] = Sweep!NoTick /\ ticks[t].at = "idle"
  BY <1>1 DEF Sweep!Init, Sweep!NoTick
<1>3. Sweep!NoTick \in Tick
  BY DEF Sweep!NoTick, Tick
<1>4. ReminderTyped
  BY <1>1, <1>2, <1>3, BoundsAssumption
     DEF Sweep!Init, Sweep!None, ReminderTyped, TickTyped, Pipeline, HasRow
<1>5. LoneTick /\ \A t \in Ticks : InPipeline(ticks[t])
  BY <1>2 DEF LoneTick, InPipeline, Pipeline, HasRow
<1>6. \A g \in CalledGuests : GuestInv(g)
  BY <1>1 DEF Sweep!Init, Sweep!None, GuestInv, Sweep!Reminded
<1>7. QED
  BY <1>4, <1>5, <1>6 DEF ReminderInv

-----------------------------------------------------------------------------
(* The services together: a step is of one of them, and whether requests *)
(* overlap is settled at the start.                                      *)

LEMMA AloneStays == [ServicesNext]_allVars => alone' = alone
<1>1. Waits!Next => alone' = alone
  BY DEF Waits!Next, Waits!JoinRead, Waits!JoinCreate, Waits!Depart, Waits!Prioritize,
         Waits!Reorder, Waits!ResequenceRead, Waits!WritePlan, Waits!PatchWrite,
         Waits!PatchRead, Waits!Minute
<1>2. Login!Next => alone' = alone
  BY DEF Login!Next, Login!SendStaffOtp, Login!Expire, Login!VerifyReads, Login!VerifyCounts,
         Login!VerifyMarks, Login!VerifySigns, Login!VerifyFails
<1>3. Sweep!Next => alone' = alone
  BY DEF Sweep!Next, Sweep!Moves, Sweep!TickBegins, Sweep!TickEnds, Sweep!Check, Sweep!Create,
         Sweep!Provider, Sweep!UpdateSent, Sweep!UpdateFailed, Sweep!Call, Sweep!TickStops
<1>4. QED
  BY <1>1, <1>2, <1>3 DEF ServicesNext, OfWaits, OfLogin, OfReminders, allVars

LEMMA LoginStutters ==
  ASSUME LoginInv, UNCHANGED <<alone, loginVars>>
  PROVE  LoginInv'
<1>1. UNCHANGED <<alone, codes, tries, logins, tried>>
  BY DEF loginVars
<1>2. /\ Busy' = Busy /\ Overlap' = Overlap
      /\ \A c : TryingWrong(c)' = TryingWrong(c) /\ LoggingIn(c)' = LoggingIn(c)
  BY <1>1 DEF Busy, Overlap, TryingWrong, LoggingIn
<1>3. LoginTyped'
  BY <1>1, <1>2 DEF LoginInv, LoginTyped
<1>4. \A c \in DOMAIN codes : Counted(c)'
  BY <1>1, <1>2 DEF LoginInv, Counted
<1>5. QED
  BY <1>1, <1>2, <1>3, <1>4 DEF LoginInv

LEMMA RemindersStutter ==
  ASSUME ReminderInv, UNCHANGED <<alone, reminderVars>>
  PROVE  ReminderInv'
<1>1. UNCHANGED <<alone, whatsApp, called, rows, received, rung, ticks, begun, lapses>>
  BY DEF reminderVars
<1>2. ReminderTyped'
  BY <1>1 DEF ReminderInv, ReminderTyped, TickTyped
<1>3. LoneTick => LoneTick'
  BY <1>1 DEF LoneTick
<1>4. \A h \in CalledGuests : GuestInv(h)' <=> GuestInv(h)
  BY <1>1 DEF GuestInv, Sweep!Reminded
<1>5. \A u \in Ticks : InPipeline(ticks[u])' <=> InPipeline(ticks[u])
  BY <1>1 DEF InPipeline, Sweep!Reminded
<1>6. QED
  BY <1>1, <1>2, <1>3, <1>4, <1>5 DEF ReminderInv

LEMMA LoginInvStep == LoginInv /\ [ServicesNext]_allVars => LoginInv'
<1>1. SUFFICES ASSUME LoginInv, [ServicesNext]_allVars PROVE LoginInv'
  OBVIOUS
<1>2. CASE OfLogin(Login!Next)
  BY <1>1, <1>2, LoginNextKeepsInv DEF OfLogin
<1>3. CASE OfWaits(Waits!Next) \/ OfReminders(Sweep!Next) \/ UNCHANGED allVars
  <2>1. UNCHANGED <<alone, loginVars>>
    BY <1>1, <1>3, AloneStays DEF OfWaits, OfReminders, allVars
  <2>2. QED
    BY <1>1, <2>1, LoginStutters
<1>4. QED
  BY <1>1, <1>2, <1>3 DEF ServicesNext

LEMMA ReminderInvStep == ReminderInv /\ [ServicesNext]_allVars => ReminderInv'
<1>1. SUFFICES ASSUME ReminderInv, [ServicesNext]_allVars PROVE ReminderInv'
  OBVIOUS
<1>2. CASE OfReminders(Sweep!Next)
  BY <1>1, <1>2, SweepNextKeepsInv DEF OfReminders
<1>3. CASE OfWaits(Waits!Next) \/ OfLogin(Login!Next) \/ UNCHANGED allVars
  <2>1. UNCHANGED <<alone, reminderVars>>
    BY <1>1, <1>3, AloneStays DEF OfWaits, OfLogin, allVars
  <2>2. QED
    BY <1>1, <2>1, RemindersStutter
<1>4. QED
  BY <1>1, <1>2, <1>3 DEF ServicesNext

\* verifyOtp: however many tries overlap, a code is tried wrongly at most
\* MaxAttempts times and one for each try that was under way with the last,
\* and logs in one host for each try under way; one at a time, MaxAttempts
\* wrong texts and one login.
THEOREM LoginKeepsLimits == ServicesSpec => []CodeLimits
<1>1. ServicesInit => LoginInv
  BY LoginInit DEF ServicesInit
<1>2. LoginInv /\ [ServicesNext]_allVars => LoginInv'
  BY LoginInvStep
<1>3. LoginInv => CodeLimits
  BY LoginInvLimits
<1>4. QED
  BY <1>1, <1>2, <1>3, PTL DEF ServicesSpec

\* sweepReadyReminderEntries: where ticks do not overlap and reminders are
\* messages, a guest has at most one reminder that is sent or on its way, and
\* each message or call beyond the first is owed to a failure of its own.
THEOREM RemindsOnce == ServicesSpec => []OneReminder
<1>1. ServicesInit => ReminderInv
  BY ReminderInit DEF ServicesInit
<1>2. ReminderInv /\ [ServicesNext]_allVars => ReminderInv'
  BY ReminderInvStep
<1>3. ReminderInv => OneReminder
  BY ReminderInvOne
<1>4. QED
  BY <1>1, <1>2, <1>3, PTL DEF ServicesSpec
=============================================================================
