--------------------------- MODULE MCBnapStorage ---------------------------
(* Values for the constants of BnapStorage.  Capacity, VoidLimit and       *)
(* MaxTime are set in the configurations.                                  *)
EXTENDS BnapStorage

(* A fix that agrees with the clock, one ahead of it, and two behind it by *)
(* less and by more than the limit.                                        *)
MCCorrections == {0, 1, -2, -4}
=============================================================================
