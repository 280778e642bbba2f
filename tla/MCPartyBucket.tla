---------------------------- MODULE MCPartyBucket ----------------------------
(* A party of two devices for TLC.                                          *)
EXTENDS PartyBucket

MCLimits == [edits |-> 2, renders |-> 2, orders |-> 1, faults |-> 1, staff |-> 1]
=============================================================================
