------------------------------ MODULE NameTree -------------------------------
(***************************************************************************)
(* The names of files and directories: a root, directories in it, and      *)
(* files in either, and the nodes they are known to. Names are fixed;      *)
(* which of them exist is the state of Directory.                          *)
(***************************************************************************)
EXTENDS Cluster, Sequences

CONSTANTS
    Root, Dirs, Files,  \* the root, the directories in it, and the files
    Parent,             \* the directory of every file and of every directory
    Prefixed            \* Prefixed[d]: what "rm -r <path of d>*" removes

Objects == Dirs \cup Files
AllDirs == Dirs \cup {Root}

ASSUME TreeAssumption ==
    /\ Root \notin Objects /\ Dirs \cap Files = {}
    /\ Parent \in [Objects -> AllDirs]
    /\ \A d \in Dirs : Parent[d] = Root
    /\ Prefixed \in [AllDirs -> SUBSET Objects]
    /\ None \notin Nodes \cup Objects \cup AllDirs
    /\ None \notin [names : Seq(Objects), bare : BOOLEAN]
=============================================================================
