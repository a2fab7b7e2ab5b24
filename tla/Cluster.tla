------------------------------- MODULE Cluster -------------------------------
(***************************************************************************)
(* The nodes that run FusionFS, and what a failed lookup in ZHT returns.   *)
(***************************************************************************)
CONSTANTS Nodes, None
=============================================================================
