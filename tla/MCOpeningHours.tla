--------------------------- MODULE MCOpeningHours ---------------------------
(***************************************************************************)
(* Instances of OpeningHours for TLC: days of six units, three open days,  *)
(* a closed one, and every interval over ten days, so that the first and   *)
(* the last day, the closed days and both ends of the hours are all met.   *)
(***************************************************************************)
EXTENDS OpeningHours

MCMoments == 1 .. 60
MCWeekdays == {0, 1, 2, 4}

=============================================================================
