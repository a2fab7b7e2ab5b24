-------------------------------- MODULE Inodes --------------------------------
(***************************************************************************)
(* What the replacement queues of a node link together (inode_t, params.h): *)
(* cells of the heap, each with the path of a file.                        *)
(***************************************************************************)
CONSTANTS
    Files,      \* the SSD paths that can be cached
    Cells,      \* the memory cells malloc can return
    NULL        \* the null pointer, also "no file"

ASSUME NullAssumption == NULL \notin Cells /\ NULL \notin Files
=============================================================================
