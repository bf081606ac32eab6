----------------------------- MODULE MCSession -----------------------------
(* Instances of Session for TLC: one tab, or two that share localStorage.  *)
EXTENDS Session, TLC
=============================================================================
