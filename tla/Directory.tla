------------------------------ MODULE Directory ------------------------------
(***************************************************************************)
(* The name space of FusionFS: which files and directories exist, and what *)
(* a directory lists (fusion_create, _unlink, _mkdir, _rmdir, _readdir and *)
(* the lookups of fusion_getattr before them, in src/fusion.c).            *)
(*                                                                         *)
(* A directory is a ZHT key "path/" whose value is its list of names, a    *)
(* string that is read, changed and put back by a lookup, a remove and an  *)
(* insert.  Every node also has physical directories and copies, which     *)
(* fusion_getattr trusts when ZHT has no entry.                            *)
(*                                                                         *)
(* A node runs one operation at a time, one step per ZHT call; the steps   *)
(* of different nodes interleave.  The data of files is in FusionFS, which *)
(* has steps for the same callbacks.                                       *)
(***************************************************************************)
EXTENDS NameTree, Naturals, SequencesExt

CONSTANT Discipline     \* "none", or "directories": applications take turns at
                        \* changing a directory

VARIABLES
    listing,    \* the value of the ZHT key "path/" of a directory, or None
    owner,      \* the value of the ZHT key of a file: its location, or None
    disk,       \* disk[n]: the files and directories on the SSD of node n
    mounted,    \* the nodes that run FusionFS
    at, op, obj, \* the operation of every node, its next step and its object
    new         \* newval of zht_append and zht_delete

operation == <<at, op, obj>>
namevars == <<listing, owner, disk, mounted, at, op, obj, new>>

(***************************************************************************)
(* The value of a directory is " " when it is empty and " a b " when it    *)
(* lists a and b.  A value made from a failed lookup is "bare": it lacks   *)
(* the leading blank, so that " a " is not found at its front.             *)
(***************************************************************************)
Value == [names : Seq(Objects), bare : BOOLEAN]
NewListing_Bare == [names |-> <<>>, bare |-> TRUE]
NewListing == [names |-> <<>>, bare |-> FALSE]
Nothing == [names |-> <<>>, bare |-> TRUE]

\* The ZHT key of the parent: the path up to its last "/", or to its first.
dirname_First(o) == Root
dirname(o) == Parent[o]

Lookup(d) == IF listing[d] = None THEN Nothing ELSE listing[d]

Positions(v, o) == {k \in DOMAIN v.names : v.names[k] = o /\ (v.bare => k > 1)}
First(K) == CHOOSE k \in K : \A j \in K : k <= j
Appended(v, o) == [v EXCEPT !.names = Append(@, o)]
Deleted(v, o) == [v EXCEPT !.names = RemoveAt(@, First(Positions(v, o)))]

Ops == {"create", "unlink", "mkdir", "rmdir", "readdir"}
NameSteps == {"idle", "parent", "target", "body", "append", "delete", "remove",
              "insert", "finish"}

\* The ZHT values, the disks and the operations keep their types; the value of
\* a directory holds names of that directory only; a node that runs nothing has
\* no object.
NamesTyped ==
    /\ listing \in [AllDirs -> {None} \cup Value]
    /\ \A d \in AllDirs : \A o \in ToSet(Lookup(d).names) : Parent[o] = d
    /\ owner \in [Files -> {None} \cup Nodes]
    /\ disk \in [Nodes -> SUBSET Objects]
    /\ mounted \subseteq Nodes
    /\ at \in [Nodes -> NameSteps]
    /\ op \in [Nodes -> Ops \cup {None}]
    /\ obj \in [Nodes -> Objects \cup {Root, None}]
    /\ new \in [Nodes -> Value]
    /\ \A n \in Nodes : at[n] = "idle" <=> obj[n] = None

NamesInit ==
    /\ listing = [d \in AllDirs |-> None]
    /\ owner = [f \in Files |-> None]
    /\ disk = [n \in Nodes |-> {}]
    /\ mounted = {}
    /\ at = [n \in Nodes |-> "idle"]
    /\ op = [n \in Nodes |-> None]
    /\ obj = [n \in Nodes |-> None]
    /\ new = [n \in Nodes |-> Nothing]

-----------------------------------------------------------------------------
(***************************************************************************)
(* main: every mount puts an empty root directory into ZHT.  FusionFS is   *)
(* started on all nodes before it is used (README: start_all).             *)
(***************************************************************************)
Mount(n) ==
    /\ n \notin mounted
    /\ mounted' = mounted \cup {n}
    /\ listing' = [listing EXCEPT ![Root] = NewListing]
    /\ UNCHANGED <<owner, disk, operation, new>>

-----------------------------------------------------------------------------
(***************************************************************************)
(* The begin and the end of an operation.  An operation that changes the   *)
(* name space changes the directory of its object, and that object itself  *)
(* if it is a directory.                                                   *)
(***************************************************************************)
Targets(what) ==
    CASE what \in {"create", "unlink"} -> Files
      [] what \in {"mkdir", "rmdir"}   -> Dirs
      [] OTHER                         -> AllDirs

Changed(n) ==
    IF obj[n] = None \/ op[n] = "readdir" THEN {}
    ELSE {Parent[obj[n]]} \cup ({obj[n]} \cap Dirs)
Busy(d) == \E n \in Nodes : d \in Changed(n)

Admitted(what, o) ==
    Discipline = "directories" /\ what # "readdir"
        => ~Busy(Parent[o]) /\ (o \in Dirs => ~Busy(o))

Resume(n, step) == at' = [at EXCEPT ![n] = step]

Request(n, what, o) ==
    /\ at[n] = "idle"
    /\ mounted = Nodes
    /\ Admitted(what, o)
    /\ op' = [op EXCEPT ![n] = what]
    /\ obj' = [obj EXCEPT ![n] = o]
    /\ Resume(n, IF o = Root THEN "body"
                 ELSE IF Parent[o] = Root THEN "target" ELSE "parent")
    /\ UNCHANGED <<listing, owner, disk, mounted, new>>

Return(n) ==
    /\ Resume(n, "idle")
    /\ op' = [op EXCEPT ![n] = None]
    /\ obj' = [obj EXCEPT ![n] = None]

ContinueIf(n, condition, step) ==
    IF condition THEN Resume(n, step) /\ UNCHANGED <<op, obj>> ELSE Return(n)

-----------------------------------------------------------------------------
(***************************************************************************)
(* fusion_getattr, which the kernel calls for every component of a path.   *)
(* What it finds locally counts even if ZHT does not know it.              *)
(***************************************************************************)
\* A directory that ZHT knows is made locally, a file is transferred.
AfterGetattr(n, o) ==
    IF o \in Dirs
    THEN IF listing[o] # None THEN disk[n] \cup {o} ELSE disk[n]
    ELSE IF owner[o] # None /\ o \in disk[owner[o]] THEN disk[n] \cup {o}
                                                     ELSE disk[n]

GetattrParent(n) ==
    LET d == Parent[obj[n]]  there == AfterGetattr(n, d) IN
    /\ at[n] = "parent"
    /\ disk' = [disk EXCEPT ![n] = there]
    /\ ContinueIf(n, d \in there, "target")
    /\ UNCHANGED <<listing, owner, mounted, new>>

GetattrTarget(n) ==
    LET there == AfterGetattr(n, obj[n]) IN
    /\ at[n] = "target"
    /\ disk' = [disk EXCEPT ![n] = there]
    /\ ContinueIf(n, obj[n] \in there <=> op[n] \notin {"create", "mkdir"}, "body")
    /\ UNCHANGED <<listing, owner, mounted, new>>

-----------------------------------------------------------------------------
(***************************************************************************)
(* The callbacks up to their update of the parent directory; create_name   *)
(* and unlink_name are fusion_create and fusion_unlink.                    *)
(***************************************************************************)
create_name(n) ==
    /\ at[n] = "body" /\ op[n] = "create"
    /\ disk' = [disk EXCEPT ![n] = @ \cup {obj[n]}]
    /\ ContinueIf(n, listing[dirname(obj[n])] # None, "append")
    /\ UNCHANGED <<listing, owner, mounted, new>>

fusion_mkdir(n) ==
    /\ at[n] = "body" /\ op[n] = "mkdir"
    /\ disk' = [disk EXCEPT ![n] = @ \cup {obj[n]}]
    /\ listing' = [listing EXCEPT ![obj[n]] = NewListing]
    /\ Resume(n, "append")
    /\ UNCHANGED <<owner, mounted, op, obj, new>>

unlink_name(n) ==
    /\ at[n] = "body" /\ op[n] = "unlink"
    /\ ContinueIf(n, owner[obj[n]] # None, "delete")
    /\ UNCHANGED <<listing, owner, disk, mounted, new>>

IsEmpty_Known(d) == listing[d] # None
IsEmpty(d) == listing[d] = [names |-> <<>>, bare |-> FALSE]

fusion_rmdir(n) ==
    LET d == obj[n] IN
    /\ at[n] = "body" /\ op[n] = "rmdir"
    /\ IF IsEmpty(d)
       THEN disk' = [disk EXCEPT ![n] = {o \in @ : o # d /\ Parent[o] # d}]
       ELSE UNCHANGED disk
    /\ ContinueIf(n, IsEmpty(d), "delete")
    /\ UNCHANGED <<listing, owner, mounted, new>>

\* An empty directory is cleaned locally; listed directories are made locally.
fusion_readdir(n) ==
    LET d == obj[n] IN
    /\ at[n] = "body" /\ op[n] = "readdir"
    /\ disk' = [disk EXCEPT ![n] =
                   IF IsEmpty(d) THEN @ \ Prefixed[d]
                   ELSE @ \cup (ToSet(Lookup(d).names) \cap Dirs)]
    /\ Return(n)
    /\ UNCHANGED <<listing, owner, mounted, new>>

-----------------------------------------------------------------------------
(***************************************************************************)
(* zht_append and zht_delete: lookup, then zht_remove (remove_list) and    *)
(* zht_insert (insert_list) of the changed list.  zht_delete computes      *)
(* with the NULL of strstr if the name is not there: that process takes no *)
(* further step.                                                           *)
(***************************************************************************)
Update(n) == UNCHANGED <<owner, disk, mounted, op, obj>>

zht_append(n) ==
    /\ at[n] = "append"
    /\ new' = [new EXCEPT ![n] = Appended(Lookup(dirname(obj[n])), obj[n])]
    /\ Resume(n, "remove")
    /\ UNCHANGED listing /\ Update(n)

zht_delete(n) ==
    LET v == Lookup(dirname(obj[n])) IN
    /\ at[n] = "delete"
    /\ Positions(v, obj[n]) # {}
    /\ new' = [new EXCEPT ![n] = Deleted(v, obj[n])]
    /\ Resume(n, "remove")
    /\ UNCHANGED listing /\ Update(n)

remove_list(n) ==
    /\ at[n] = "remove"
    /\ listing' = [listing EXCEPT ![dirname(obj[n])] = None]
    /\ Resume(n, "insert")
    /\ UNCHANGED new /\ Update(n)

insert_list(n) ==
    /\ at[n] = "insert"
    /\ listing' = [listing EXCEPT ![dirname(obj[n])] = new[n]]
    /\ new' = [new EXCEPT ![n] = Nothing]
    /\ ContinueIf(n, op[n] # "mkdir", "finish")
    /\ UNCHANGED <<owner, disk, mounted>>

(***************************************************************************)
(* The entry of the object itself.  fusion_unlink also removes the file    *)
(* from its location and from this node.                                   *)
(***************************************************************************)
InsertFile(n) ==
    /\ at[n] = "finish" /\ op[n] = "create"
    /\ owner' = [owner EXCEPT ![obj[n]] = n]
    /\ Return(n)
    /\ UNCHANGED <<listing, disk, mounted, new>>

RemoveFile(n) ==
    LET f == obj[n] IN
    /\ at[n] = "finish" /\ op[n] = "unlink"
    /\ owner' = [owner EXCEPT ![f] = None]
    /\ disk' = [m \in Nodes |-> IF m \in {n, owner[f]} THEN disk[m] \ {f}
                                                      ELSE disk[m]]
    /\ Return(n)
    /\ UNCHANGED <<listing, mounted, new>>

RemoveDirectory(n) ==
    /\ at[n] = "finish" /\ op[n] = "rmdir"
    /\ listing' = [listing EXCEPT ![obj[n]] = None]
    /\ Return(n)
    /\ UNCHANGED <<owner, disk, mounted, new>>

-----------------------------------------------------------------------------
NameStep(n) ==
    \/ GetattrParent(n) \/ GetattrTarget(n)
    \/ create_name(n) \/ fusion_mkdir(n) \/ unlink_name(n)
    \/ fusion_rmdir(n) \/ fusion_readdir(n)
    \/ zht_append(n) \/ zht_delete(n) \/ remove_list(n) \/ insert_list(n)
    \/ InsertFile(n) \/ RemoveFile(n) \/ RemoveDirectory(n)

NamesNext ==
    \E n \in Nodes :
       \/ Mount(n)
       \/ \E what \in Ops : \E o \in Targets(what) : Request(n, what, o)
       \/ NameStep(n)

NamesSpec == NamesInit /\ [][NamesNext]_namevars

-----------------------------------------------------------------------------
(***************************************************************************)
(* Properties.                                                             *)
(***************************************************************************)
\* A directory also exists between the remove and the insert of its value.
Known(o) ==
    IF o \in Files THEN owner[o] # None
    ELSE \/ listing[o] # None
         \/ \E n \in Nodes : at[n] = "insert" /\ Parent[obj[n]] = o
Children(d) == {o \in Objects : Parent[o] = d /\ Known(o)}

\* A directory that nobody is changing lists exactly the files and directories
\* that ZHT knows in it, each once: creates and removes on other directories,
\* lookups and listings by all nodes leave no entry without a name and no name
\* without an entry, and no directory goes while something is in it.
NamespaceExact ==
    \A d \in AllDirs : ~Busy(d) =>
        /\ listing[d] = None => Children(d) = {}
        /\ listing[d] # None =>
              /\ ToSet(listing[d].names) = Children(d)
              /\ IsInjective(listing[d].names)

\* zht_delete finds the name it is to take out, whatever the calls of zht_append
\* and zht_delete that made the list (strstr does not return NULL).
DeleteFinds ==
    \A n \in Nodes : at[n] = "delete" => Positions(Lookup(Parent[obj[n]]), obj[n]) # {}

\* "add the filename to its parent path in the ZHT entry" (fusion_create): once
\* every operation has ended, a file that ZHT locates is listed.
LocatedListed ==
    (\A n \in Nodes : at[n] = "idle") =>
        \A f \in Files : owner[f] # None => f \in ToSet(Lookup(Parent[f]).names)

\* "If <path/> has no files, clean up the local physical path" (fusion_readdir):
\* listing a directory removes nothing that lies outside it.
CleansOnlyInside ==
    [][\A n \in Nodes : fusion_readdir(n) =>
         \A o \in disk[n] \ disk'[n] :
             o = obj[n] \/ Parent[o] = obj[n] \/ obj[n] = Root]_namevars
=============================================================================
