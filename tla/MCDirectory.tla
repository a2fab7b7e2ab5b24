----------------------------- MODULE MCDirectory -----------------------------
(***************************************************************************)
(* The directories / and /a, the files /a/f, /a/g and /ab: a name in the   *)
(* root that begins like the directory beside it.                          *)
(***************************************************************************)
EXTENDS Directory, TLC

CONSTANTS n1, n2, n3, dirA, fileF, fileG, fileAB

MCParent == dirA :> Root @@ fileF :> dirA @@ fileG :> dirA @@ fileAB :> Root
\* The path of /ab begins with the path of /a; without that, what "rm -r path*"
\* removes is the directory and its content.
PrefixedName == Root :> Objects @@ dirA :> Objects
NoPrefixedName == Root :> Objects @@ dirA :> (Objects \ {fileAB})
NodeSymmetry == Permutations(Nodes)
=============================================================================
