------------------------------- MODULE OtpLogin -------------------------------
(***************************************************************************)
(* The staff login by a code (auth.service.ts): the OtpCode rows of one     *)
(* phone at one venue, and requests that try a code.  A try reads the       *)
(* newest row that is neither verified nor expired in one step, and writes *)
(* it in another; other tries run between the two.                          *)
(*                                                                         *)
(* Left out: the six digits (a try types the text of some row, or of none; *)
(* two codes that happen to be equal are left out), the message that        *)
(* carries the code, the limits per minute of rateLimiter.ts, and the       *)
(* guest's codes, which no route verifies.                                  *)
(***************************************************************************)
EXTENDS Naturals, Sequences, FiniteSets

CONSTANTS
  Tries,        \* requests under way at a time
  MaxAttempts,  \* MAX_OTP_ATTEMPTS
  MaxCodes,     \* bound: of the codes that are sent
  MaxTries      \* bound: of the tries

VARIABLES
  alone,        \* no try begins while another is under way
  codes,        \* OtpCode rows, oldest first
  tries,        \* of each request: its step and the row it read
  logins,       \* per row, the tokens signed on it
  tried

vars == <<alone, codes, tries, logins, tried>>

NoTry == [at |-> "idle", code |-> 0]

Init ==
  /\ alone \in BOOLEAN
  /\ codes = <<>> /\ logins = <<>>
  /\ tries = [t \in Tries |-> NoTry]
  /\ tried = 0

Usable == {c \in DOMAIN codes : ~codes[c].verified /\ ~codes[c].expired}

\* sendStaffOtp of an active member of staff.
SendStaffOtp ==
  /\ Len(codes) < MaxCodes
  /\ codes' = Append(codes, [attempts |-> 0, verified |-> FALSE, expired |-> FALSE])
  /\ logins' = Append(logins, 0)
  /\ UNCHANGED <<alone, tries, tried>>

\* expiresAt passes; every code lives equally long.
Expire(c) ==
  /\ ~codes[c].expired /\ \A d \in 1..(c - 1) : codes[d].expired
  /\ codes' = [codes EXCEPT ![c].expired = TRUE]
  /\ UNCHANGED <<alone, tries, logins, tried>>

\* Variant: the number of attempts is not looked at.
MayTryAny(c) == TRUE

\* The row is refused once it has MaxAttempts.
MayTry(c) == codes[c].attempts < MaxAttempts

\* verifyStaffOtp reads the newest usable row and compares the typed text,
\* which may be the text of an older code.
VerifyReads(t) ==
  /\ tries[t].at = "idle" /\ tried < MaxTries /\ tried' = tried + 1
  /\ alone => \A u \in Tries : tries[u].at = "idle"
  /\ \E newest \in Usable :
       /\ \A c \in Usable : c <= newest
       /\ MayTry(newest)
       /\ \E typed \in 0..Len(codes) :
            tries' = [tries EXCEPT ![t] =
              [at |-> IF typed = newest THEN "right" ELSE "wrong", code |-> newest]]
  /\ UNCHANGED <<alone, codes, logins>>

\* A wrong text counts; the increment is the database's.
VerifyCounts(t) ==
  /\ tries[t].at = "wrong"
  /\ codes' = [codes EXCEPT ![tries[t].code].attempts = @ + 1]
  /\ tries' = [tries EXCEPT ![t] = NoTry]
  /\ UNCHANGED <<alone, logins, tried>>

VerifyMarks(t) ==
  /\ tries[t].at = "right"
  /\ codes' = [codes EXCEPT ![tries[t].code].verified = TRUE]
  /\ tries' = [tries EXCEPT ![t].at = "marked"]
  /\ UNCHANGED <<alone, logins, tried>>

\* lastLoginAt is written and the token signed.
VerifySigns(t) ==
  /\ tries[t].at = "marked"
  /\ logins' = [logins EXCEPT ![tries[t].code] = @ + 1]
  /\ tries' = [tries EXCEPT ![t] = NoTry]
  /\ UNCHANGED <<alone, codes, tried>>

\* A write fails or the server stops: the request ends where it is.
VerifyFails(t) ==
  /\ tries[t].at # "idle"
  /\ tries' = [tries EXCEPT ![t] = NoTry]
  /\ UNCHANGED <<alone, codes, logins, tried>>

Next ==
  \/ SendStaffOtp
  \/ \E c \in DOMAIN codes : Expire(c)
  \/ \E t \in Tries : VerifyReads(t) \/ VerifyCounts(t) \/ VerifyMarks(t)
                        \/ VerifySigns(t) \/ VerifyFails(t)

Spec == Init /\ [][Next]_vars

-----------------------------------------------------------------------------
(* Properties *)

TypeOK ==
  /\ codes \in Seq([attempts: Nat, verified: BOOLEAN, expired: BOOLEAN])
  /\ Len(codes) <= MaxCodes /\ Len(logins) = Len(codes)
  /\ \A t \in Tries : /\ tries[t].at \in {"idle", "right", "wrong", "marked"}
                      /\ tries[t].code \in 0..Len(codes)
  /\ tried \in 0..MaxTries

\* One try at a time, a code logs in once and takes at most MaxAttempts wrong
\* texts, through every failure between its writes.  Overlapping tries pass
\* these limits by no more than their number: every try that is under way when
\* the limit is reached may still count, and none that begins later.
CodeLimits ==
  LET n == IF alone THEN 1 ELSE Cardinality(Tries)
  IN \A c \in DOMAIN codes :
       /\ codes[c].attempts <= MaxAttempts + n - 1
       /\ logins[c] <= n
=============================================================================
