------------------------------- MODULE MCFiles -------------------------------
(***************************************************************************)
(* One part of the file system at a time, which part says. "tiers":        *)
(* FusionFS on two nodes with two files and an SSD for one, sessions in    *)
(* turn (MCFusionFS). "names": Directory on these nodes, which take turns  *)
(* at changing a directory. "placement": FusionFS on three other nodes,    *)
(* with one process each and one file that any number of them read and one *)
(* writes or removes.                                                      *)
(***************************************************************************)
EXTENDS MCFusionFS, Directory

CONSTANTS m1, m2, m3, q1, dirA, fileF, fileG, fileAB

VARIABLES part,
          entry, marked, fast, slow, queued, step, name, use, addr, out,
          open, made, written, released, owed

\* The directories / and /a with the files /a/f, /a/g and /ab. What "rm -r path*"
\* removes is the directory and its content.
MCParent == dirA :> Root @@ fileF :> dirA @@ fileG :> dirA @@ fileAB :> Root
NoPrefixedName == Root :> Objects @@ dirA :> (Objects \ {fileAB})

FileNodes == {m1, m2, m3}

Placed == INSTANCE FusionFS
              WITH Nodes <- FileNodes, Procs <- FileNodes,
                   Home <- [n \in FileNodes |-> n], Paths <- {q1},
                   SsdLimit <- 1, Coordination <- "writers",
                   zht <- entry, stray <- marked, ssd <- fast, hdd <- slow,
                   queue <- queued, pc <- step, path <- name, intent <- use,
                   peer <- addr, victim <- out, fd <- open, used <- made,
                   wrote <- written, committed <- released, wanted <- owed
placedVars == <<entry, marked, fast, slow, queued, step, name, use, addr, out,
                open, made, written, released, owed>>

MCSymmetry == FileSymmetry \cup Permutations(FileNodes)

\* What of the state counts: stray of the tiers is not read by any step.
MCView == <<part, WithoutStray, namevars, placedVars>>

MCInit == part \in {"tiers", "names", "placement"} /\ Init /\ NamesInit /\ Placed!Init

MCNext ==
    \/ part = "tiers" /\ Next /\ UNCHANGED <<part, namevars, placedVars>>
    \/ part = "names" /\ NamesNext /\ UNCHANGED <<part, vars, placedVars>>
    \/ part = "placement" /\ Placed!Next /\ UNCHANGED <<part, vars, namevars>>

MCSpec == MCInit /\ [][MCNext]_<<part, vars, namevars, placedVars>>
-----------------------------------------------------------------------------
\* What was released is never lost while readers and one writer or remover of
\* the file interleave (fusion_release, fusion_unlink).
PlacedDurable == Placed!Durable

\* A writer works on what was released last (fusion_getattr, fusion_open).
PlacedUpToDate == Placed!WriterUpToDate

\* The copy of the node that answers for the file is not removed by a reader's
\* release or a take-over (fusion_release).
PlacedRemovals == Placed!SafeRemoval
=============================================================================
