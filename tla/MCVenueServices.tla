--------------------------- MODULE MCVenueServices ---------------------------
(* Two requests of each kind overlap; the patches raise the range, lower    *)
(* the cap below that, set a base of 0, and stop the countdown.             *)
EXTENDS VenueServices, TLC

MCPatches == {[base |-> 3, max |-> 5], [max |-> 2], [base |-> 0], [decay |-> FALSE]}
MCSymmetry == Permutations(Guests) \cup Permutations(Slots)
=============================================================================
