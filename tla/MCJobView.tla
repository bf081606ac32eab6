----------------------------- MODULE MCJobView -----------------------------
(* Instances of JobView for TLC.                                           *)
EXTENDS JobView, TLC
=============================================================================
