---------------------------- MODULE MCLiveScreens ----------------------------
(* Two calls overlap on a page; three events of any kinds meet. *)
EXTENDS LiveScreens

MCLimits == [moves |-> 3, faults |-> 1, visits |-> 1, sheets |-> 1, expiries |-> 1]
MCStaffLimits == [moves |-> 1, actions |-> 1, clicks |-> 2, faults |-> 1, expiries |-> 1]
=============================================================================
