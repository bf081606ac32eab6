--------------------------- MODULE MCClusterCache ---------------------------
(* Instances of ClusterCache for TLC.                                       *)
EXTENDS ClusterCache, TLC
=============================================================================
