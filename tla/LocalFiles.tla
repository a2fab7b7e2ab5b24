------------------------------ MODULE LocalFiles ------------------------------
(***************************************************************************)
(* The files of one node by name: the SSD, where a name is a file or a     *)
(* link to the HDD, the HDD, and the replacement queue, whose cells hold   *)
(* names (fusion.c, util.c). The callbacks that change names run one after *)
(* the other here, the passes of their eviction loops being steps;         *)
(* FusionFS has the nodes and the interleavings, for names that do not     *)
(* change.                                                                 *)
(*                                                                         *)
(* A file is a number; mv, which copies between the devices, keeps it. The *)
(* victim of an eviction is any name in the queue, as in the three queues. *)
(***************************************************************************)
EXTENDS Naturals, Sequences, FiniteSets, SequencesExt

CONSTANTS Names,       \* the paths
          MaxFiles,    \* bound on the files ever created
          Capacity,    \* the files the SSD takes
          AnyRename    \* FALSE: only what is queued is renamed, to a free name

VARIABLES ssd,      \* what a name is on the SSD: absent, a file, or a link
          hdd,      \* the file a name has on the HDD
          queue,    \* the names in the replacement queue
          known,    \* the names that have an entry in ZHT
          view,     \* the file every name should lead to
          crashed,  \* findelem returned NULL and was used
          callback  \* the callback that is evicting

localvars == <<ssd, hdd, queue, known, view, crashed, callback>>

NoFile == 0
Absent == [kind |-> "absent", to |-> NoFile]
File(i) == [kind |-> "file", to |-> i]
Link(n) == [kind |-> "link", to |-> n]    \* to the HDD file of n

NoCallback == [op |-> "none"]
Creates(n, i) == [op |-> "create", n |-> n, file |-> i]
Opens(n) == [op |-> "open", n |-> n]

LocalInit ==
    /\ ssd = [n \in Names |-> Absent]
    /\ hdd = [n \in Names |-> NoFile]
    /\ queue = <<>>
    /\ known = {}
    /\ view = [n \in Names |-> NoFile]
    /\ crashed = FALSE
    /\ callback = NoCallback

is_symlink_ssd(n) == ssd[n].kind = "link" /\ hdd[n] # NoFile

\* findelem: the first cell with the name, 0 if there is none.
findelem(q, n) == IF n \in ToSet(q) THEN CHOOSE k \in DOMAIN q :
                      q[k] = n /\ \A j \in 1..(k - 1) : q[j] # n
                  ELSE 0

insque(q, n) == IF findelem(q, n) = 0 THEN Append(q, n) ELSE q
rmelem(q, n) == IF findelem(q, n) = 0 THEN q ELSE RemoveAt(q, findelem(q, n))
-----------------------------------------------------------------------------
Full == Cardinality({n \in Names : ssd[n].kind = "file"}) >= Capacity
Room == ~Full \/ queue = <<>>

\* mv refuses what is not there and a link to its own target; then there is a
\* link, unless the name is still taken.
move_file_ssd(n) ==
    /\ hdd' = IF ssd[n].kind = "file" THEN [hdd EXCEPT ![n] = ssd[n].to] ELSE hdd
    /\ ssd' = IF ssd[n].kind = "link" THEN ssd ELSE [ssd EXCEPT ![n] = Link(n)]

\* The link goes, the file comes back.
move_file_hdd(n) ==
    /\ ssd' = [ssd EXCEPT ![n] = File(hdd[n])]
    /\ hdd' = [hdd EXCEPT ![n] = NoFile]

\* A pass of the loop before a file is created or moved to the SSD.
evict ==
    /\ callback # NoCallback /\ ~Room
    /\ \E v \in ToSet(queue) : move_file_ssd(v) /\ queue' = rmelem(queue, v)
    /\ UNCHANGED <<known, view, crashed, callback>>

Unused == CHOOSE i \in 1..(MaxFiles + 1) :
             /\ \A n \in Names : view[n] # i /\ hdd[n] # i /\ ssd[n] # File(i)
             /\ \A j \in 1..(i - 1) :
                   \E n \in Names : j \in {view[n], hdd[n]} \/ ssd[n] = File(j)

fusion_create(n) ==
    /\ callback = NoCallback /\ ~crashed
    /\ ssd[n].kind = "absent" /\ Unused \in 1..MaxFiles
    /\ callback' = Creates(n, Unused)
    /\ UNCHANGED <<ssd, hdd, queue, known, view, crashed>>

\* The rest of it: creat follows a link, and the name is put into ZHT.
Created ==
    /\ callback.op = "create" /\ Room
    /\ LET n == callback.n
           i == callback.file
       IN /\ IF ssd[n].kind = "link" THEN hdd' = [hdd EXCEPT ![n] = i] /\ UNCHANGED ssd
             ELSE ssd' = [ssd EXCEPT ![n] = File(i)] /\ UNCHANGED hdd
          /\ queue' = insque(queue, n)
          /\ view' = [view EXCEPT ![n] = i]
          /\ known' = known \cup {n}
    /\ callback' = NoCallback
    /\ UNCHANGED crashed

\* What is not on the SSD is not opened, but queued.
fusion_open(n) ==
    /\ callback = NoCallback /\ ~crashed /\ view[n] # NoFile
    /\ IF is_symlink_ssd(n) THEN callback' = Opens(n) /\ UNCHANGED queue
       ELSE queue' = insque(queue, n) /\ UNCHANGED callback
    /\ UNCHANGED <<ssd, hdd, known, view, crashed>>

\* The rest of it.
Opened ==
    /\ callback.op = "open" /\ Room
    /\ move_file_hdd(callback.n)
    /\ queue' = insque(queue, callback.n)
    /\ callback' = NoCallback
    /\ UNCHANGED <<known, view, crashed>>

\* fusion_unlink: a name ZHT does not know is refused.
fusion_unlink(n) ==
    /\ callback = NoCallback /\ ~crashed /\ n \in known
    /\ ssd[n].kind # "absent"
    /\ ssd' = [ssd EXCEPT ![n] = Absent]
    /\ hdd' = IF is_symlink_ssd(n) THEN [hdd EXCEPT ![n] = NoFile] ELSE hdd
    /\ queue' = rmelem(queue, n)
    /\ known' = known \ {n}
    /\ view' = [view EXCEPT ![n] = NoFile]
    /\ UNCHANGED <<crashed, callback>>

\* fusion_rename of a name that is a link: the HDD file, a link to it at the
\* new name, and then the old link is renamed to the new name as well.
RenameSwapped(n, m) ==
    /\ hdd' = [hdd EXCEPT ![n] = NoFile, ![m] = hdd[n]]
    /\ ssd' = [ssd EXCEPT ![n] = Absent, ![m] = ssd[n]]
    /\ UNCHANGED <<queue, crashed>>

\* Of any other: the name in the queue, which is not looked at.
RenameCell_Not(n, m) == queue
RenameCell(n, m) == [queue EXCEPT ![findelem(queue, n)] = m]

RenameResident(n, m) ==
    IF findelem(queue, n) = 0
    THEN crashed' = TRUE /\ UNCHANGED <<ssd, hdd, queue>>
    ELSE /\ queue' = RenameCell(n, m)
         /\ ssd' = [ssd EXCEPT ![n] = Absent, ![m] = ssd[n]]
         /\ UNCHANGED <<hdd, crashed>>

fusion_rename(n, m) ==
    /\ callback = NoCallback /\ ~crashed /\ n # m /\ view[n] # NoFile
    /\ AnyRename \/ (n \in ToSet(queue) /\ ssd[m] = Absent)
    /\ IF is_symlink_ssd(n) THEN RenameSwapped(n, m) ELSE RenameResident(n, m)
    /\ view' = [view EXCEPT ![n] = NoFile, ![m] = view[n]]
    /\ UNCHANGED <<known, callback>>

LocalNext ==
    \/ \E n \in Names :
          \/ fusion_create(n) \/ fusion_open(n) \/ fusion_unlink(n)
          \/ \E m \in Names : fusion_rename(n, m)
    \/ evict \/ Created \/ Opened

LocalSpec == LocalInit /\ [][LocalNext]_localvars
-----------------------------------------------------------------------------
\* What the name leads to: a file, or nothing; a link may lead nowhere.
Read(n) == CASE ssd[n].kind = "absent" -> {}
             [] ssd[n].kind = "file" -> {ssd[n].to}
             [] ssd[n].kind = "link" -> {hdd[ssd[n].to]}

\* Every name leads to the file it was given, through evictions, openings and
\* renamings, and a name that is not in use to nothing ("Rename a file";
\* "if fpath is a symbolic link, we need to update the HDD file name").
Readable == \A n \in Names : Read(n) = IF view[n] = NoFile THEN {} ELSE {view[n]}
=============================================================================
