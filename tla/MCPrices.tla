------------------------------ MODULE MCPrices ------------------------------
(***************************************************************************)
(* An instance of Prices for TLC, in base 3: two decimals, values up to 27,*)
(* and every form of up to four digits of the numbers around these limits. *)
(***************************************************************************)
EXTENDS Prices

=============================================================================
