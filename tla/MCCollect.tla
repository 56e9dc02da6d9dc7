----------------------------- MODULE MCCollect -----------------------------
(***************************************************************************)
(* Instances of Collect for TLC: a source and its fallback, for a series   *)
(* that is always open and for one with two open days.                     *)
(***************************************************************************)
EXTENDS Collect

CONSTANTS primary, fallback, fetchedAt

MCSources == <<primary, fallback>>
MCYearOne == -1000
TwoDays == {[opens |-> 2, closes |-> 5], [opens |-> 9, closes |-> 12]}
MCHours == {NoHours, TwoDays}
MCStartTimes == 2 .. 14

(* Every age from before the first open day to the future, no time at all, *)
(* and the zero time of a source that sends one when it has no value.      *)
Times == {-1, 1, 3, 5, 7, 9, 10, 11, 13, 15, fetchedAt}
MCAsOfs(h) == Times \cup (IF h = NoHours THEN {MCYearOne} ELSE {})
MCAnyAsOfs(h) == Times \cup {MCYearOne}

=============================================================================
