------------------------------ MODULE Decimals ------------------------------
(***************************************************************************)
(* What a decimal.Decimal is written with: the digits of a base, 10 in the *)
(* code, and the number of decimals a published value may have             *)
(* (MAX_DECIMALS of core/checks.py).                                       *)
(***************************************************************************)
EXTENDS Integers

CONSTANTS Base, MaxDecimals

ASSUME DecimalsAssumption == Base \in Nat \ {0, 1} /\ MaxDecimals \in Nat

Power[n \in Nat] == IF n = 0 THEN 1 ELSE Power[n - 1] * Base

=============================================================================
