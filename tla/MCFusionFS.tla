----------------------------- MODULE MCFusionFS -----------------------------
(***************************************************************************)
(* FusionFS on two or three nodes.  Where every node runs one process, the *)
(* processes are named by their nodes; the third process of SharedNode     *)
(* runs beside the one of n2.                                              *)
(***************************************************************************)
EXTENDS FusionFS, TLC

CONSTANTS n1, n2, n3, p1, p2, w1, w2

OnePerNode == [n \in Nodes |-> n]
SharedNode == n1 :> n1 @@ n2 :> n2 @@ n3 :> n2

FileSymmetry == Permutations(Nodes) \cup Permutations(Paths)

\* The state without stray, which the eviction loops write and no step reads.
WithoutStray ==
    <<zht, ssd, hdd, queue, pc, path, intent, peer, victim, fd,
      used, wrote, committed, wanted>>
=============================================================================
