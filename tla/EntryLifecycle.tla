--------------------------- MODULE EntryLifecycle ---------------------------
(***************************************************************************)
(* What the service promises a guest about one queue entry: the statuses   *)
(* of schema.prisma's QueueEntryStatus are passed through in one           *)
(* direction, a closed entry stays closed, and a no-show is a guest who    *)
(* was called.  Several entries may move in one step (bulk clear, a table  *)
(* that closes its seated entries).                                        *)
(***************************************************************************)
CONSTANT Entries

VARIABLE status

\* The statuses an entry may move to.
MayBecome(s) ==
  CASE s = "ABSENT" -> {"WAITING"}
    [] s = "WAITING" -> {"NOTIFIED", "SEATED", "COMPLETED", "CANCELLED"}
    [] s = "NOTIFIED" -> {"SEATED", "COMPLETED", "CANCELLED", "NO_SHOW"}
    [] s = "SEATED" -> {"COMPLETED"}
    [] OTHER -> {}

Init == status = [e \in Entries |-> "ABSENT"]

Move ==
  \E S \in SUBSET Entries :
    \E to \in [S -> UNION {MayBecome(status[e]) : e \in S}] :
      /\ \A e \in S : to[e] \in MayBecome(status[e])
      /\ status' = [e \in Entries |-> IF e \in S THEN to[e] ELSE status[e]]

Spec == Init /\ [][Move]_status
=============================================================================
