------------------------------- MODULE MCJobs -------------------------------
(* Instances of Jobs for TLC: one or two jobs of every kind.               *)
EXTENDS Jobs, TLC

AllKinds == Local \union Remote
=============================================================================
