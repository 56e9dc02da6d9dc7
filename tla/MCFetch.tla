------------------------------ MODULE MCFetch ------------------------------
(***************************************************************************)
(* An instance of Fetch for TLC with the proportions of the code: two      *)
(* retries, an attempt longer than one read and shorter than two, delays   *)
(* that grow.                                                              *)
(***************************************************************************)
EXTENDS Fetch

MCRetryDelays == <<1, 2>>

=============================================================================
