---------------------------- MODULE MCQueueFloor ----------------------------
(* Small venues for TLC: parties of two sizes, a small and a large table.   *)
EXTENDS QueueFloor

CONSTANTS e1, e2, e3, t1, t2

\* The first and the last request carry the same phone.
MCPhone == [e \in Entries |-> IF e = e2 THEN "p2" ELSE "p1"]
MCPhoneDistinct == [e \in Entries |-> IF e = e1 THEN "p1" ELSE IF e = e2 THEN "p2" ELSE "p3"]
MCPartySize == [e \in Entries |-> IF e = e1 THEN 4 ELSE 2]
MCCapacity == [t \in Tables |-> IF t = t1 THEN 4 ELSE 2]

\* The buttons of the staff console (web/app.js, renderTableActions).
MCStaffMoves == {<<"FREE", "OCCUPIED">>, <<"FREE", "RESERVED">>,
                 <<"OCCUPIED", "CLEARING">>, <<"CLEARING", "FREE">>,
                 <<"RESERVED", "FREE">>}
=============================================================================
