------------------------------ MODULE MCRunner ------------------------------
(***************************************************************************)
(* Instances of Runner for TLC: one series that runs three times, or one   *)
(* that runs twice beside another that runs once.                          *)
(***************************************************************************)
EXTENDS Runner

CONSTANTS mep, bitso

TwoAndOne == [s \in Series |-> IF s = mep THEN 2 ELSE 1]
Three == [s \in Series |-> 3]

=============================================================================
