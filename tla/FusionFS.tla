------------------------------ MODULE FusionFS ------------------------------
(***************************************************************************)
(* Where the data of a file is: the callbacks of src/fusion.c that move a  *)
(* file between nodes (fusion_getattr, _open, _write, _release, _create,   *)
(* _unlink) and between the tiers of a node (the eviction loop, which      *)
(* moves a file to the HDD and leaves a symbolic link on the SSD).         *)
(*                                                                         *)
(* Each process runs one session on one file at a time: it stats the file  *)
(* and then, as its intent says, reads it, writes it (creating it if the   *)
(* stat found none), removes it, or does nothing more.  A callback is a    *)
(* chain of steps, one per ZHT call, per ffsnet transfer and per change of *)
(* the local file system; the steps of all processes interleave.  The      *)
(* content of a file is the set of writes it holds.  Directory listings    *)
(* are in Directory, the order of eviction in ClockQueue.                  *)
(***************************************************************************)
EXTENDS Cluster, Naturals, FiniteSets

CONSTANTS
    Paths,
    Procs, Home,     \* application processes, and the node each runs on
    Intents,         \* the intents of sessions, among the four below
    Writes,          \* identities of writes: a bound on their number
    SsdLimit,        \* ssd_is_full when more files than this are on the SSD
    Coordination,    \* how applications coordinate: not at all ("none"), by a
                     \* lock per file for sessions that write or remove it
                     \* ("writers"), or one session at a time ("sessions")
    Link             \* a symbolic link to the HDD; None is no file

ASSUME SystemAssumption ==
    /\ Home \in [Procs -> Nodes]
    /\ Intents \subseteq {"stat", "read", "write", "unlink"}
    /\ SsdLimit \in Nat
    /\ Coordination \in {"none", "writers", "sessions"}
    /\ None \notin Paths \cup [node : Nodes, hdd : BOOLEAN] /\ Link # None
    /\ \A data \in SUBSET Writes : data \notin {None, Link}

VARIABLES
    zht,        \* the ZHT entry under the key path: the location, or None
    stray,      \* the ZHT entry under the key "<ssd>/path", or None
    ssd,        \* ssd[n][p]: the content, Link or None
    hdd,        \* hdd[n][p]: the content or None
    queue,      \* queue[n]: the files in the node's replacement queue
    pc,         \* the next step of every process
    path,       \* the file of its session
    intent,     \* what the session is for
    peer,       \* the location the last lookup returned (res, nodeaddr)
    victim,     \* the file the eviction loop is moving
    fd,         \* the open file: [at |-> tier or "gone", data |-> ...]
    used,       \* history: the writes made so far
    wrote,      \* history: the writes of the session
    committed,  \* history: the writes whose release has ended, per file
    wanted      \* history: committed[path] when the session began

stores == <<ssd, hdd>>
session == <<path, intent, wrote, wanted>>
vars == <<zht, stray, ssd, hdd, queue, pc, path, intent, peer, victim, fd,
          used, wrote, committed, wanted>>

Content == SUBSET Writes

\* A location: an ip, or "ip/" when the file was swapped to the HDD there.
Entry == [node : Nodes, hdd : BOOLEAN]
At(n) == [node |-> n, hdd |-> FALSE]
Locates(entry, n) == entry # None /\ entry.node = n
Closed == [at |-> "closed", data |-> {}]

\* What a descriptor of process i reads, and where it writes.
Visible(i) ==
    LET n == Home[i]  p == path[i]
    IN IF fd[i].at = "ssd" THEN ssd[n][p]
       ELSE IF fd[i].at = "hdd" THEN hdd[n][p]
       ELSE fd[i].data

PCs == {"idle", "getattr", "fetch", "known", "absent", "open", "swap",
        "opened", "release", "update", "update2", "rmold", "drop",
        "insert", "unlink", "unlink2", "unlink3", "rmremote",
        "evict_open", "evict_create", "evict_release",
        "link_open", "link_create", "link_release"}

TypeOK ==
    /\ zht \in [Paths -> {None} \cup Entry]
    /\ stray \in [Paths -> {None} \cup Entry]
    /\ ssd \in [Nodes -> [Paths -> {None, Link} \cup Content]]
    /\ hdd \in [Nodes -> [Paths -> {None} \cup Content]]
    /\ queue \in [Nodes -> SUBSET Paths]
    /\ pc \in [Procs -> PCs]
    /\ path \in [Procs -> Paths \cup {None}]
    /\ intent \in [Procs -> Intents \cup {None}]
    /\ peer \in [Procs -> {None} \cup Entry]
    /\ victim \in [Procs -> Paths \cup {None}]
    /\ fd \in [Procs -> [at : {"closed", "ssd", "hdd", "gone"}, data : Content]]
    /\ used \in Content
    /\ wrote \in [Procs -> Content]
    /\ committed \in [Paths -> Content]
    /\ wanted \in [Procs -> Content]
    /\ \A i \in Procs :
          /\ pc[i] = "idle" <=> path[i] = None
          /\ pc[i] \in {"opened", "insert"} <=> fd[i] # Closed

-----------------------------------------------------------------------------
(***************************************************************************)
(* The file system of one node.                                            *)
(***************************************************************************)
\* access(2) follows the link; lstat(2) does not.
is_symlink_ssd(n, p) == ssd[n][p] = Link /\ hdd[n][p] # None
OnSsd(n, p) == ssd[n][p] \notin {None, Link}
Present(n, p) == OnSsd(n, p) \/ is_symlink_ssd(n, p)
Exists(n, p) == ssd[n][p] # None
\* What open(2) and a transfer find at the SSD path, through the link.
Data(n, p) == IF ssd[n][p] = Link THEN hdd[n][p] ELSE ssd[n][p]

ssd_is_full(n) == Cardinality({p \in Paths : OnSsd(n, p)}) > SsdLimit

Set(store, n, p, v) == [store EXCEPT ![n][p] = v]

\* The inode of p on a tier of node n is removed or moved off the device: the
\* descriptors that hold it keep its content and lose the name.
Orphan(n, p, tier) ==
    [i \in Procs |->
        IF Home[i] = n /\ path[i] = p /\ fd[i].at = tier
        THEN [at |-> "gone", data |-> Visible(i)]
        ELSE fd[i]]

\* open(2) for truncation and rewriting: through the link if there is one.
Rewrite(n, p, data) ==
    IF ssd[n][p] = Link
    THEN hdd' = Set(hdd, n, p, data) /\ UNCHANGED ssd
    ELSE ssd' = Set(ssd, n, p, data) /\ UNCHANGED hdd

\* The replacement queue; the order of eviction is in ClockQueue.
insque_skipped(n, p) == queue
insque(n, p) == [queue EXCEPT ![n] = @ \cup {p}]
rmelem(n, p) == [queue EXCEPT ![n] = @ \ {p}]

Goto(i, step) == pc' = [pc EXCEPT ![i] = step]

EndSession(i) ==
    /\ Goto(i, "idle")
    /\ path' = [path EXCEPT ![i] = None]
    /\ intent' = [intent EXCEPT ![i] = None]
    /\ peer' = [peer EXCEPT ![i] = None]
    /\ wrote' = [wrote EXCEPT ![i] = {}]
    /\ wanted' = [wanted EXCEPT ![i] = {}]

Init ==
    /\ zht = [p \in Paths |-> None]
    /\ stray = [p \in Paths |-> None]
    /\ ssd = [n \in Nodes |-> [p \in Paths |-> None]]
    /\ hdd = [n \in Nodes |-> [p \in Paths |-> None]]
    /\ queue = [n \in Nodes |-> {}]
    /\ pc = [i \in Procs |-> "idle"]
    /\ path = [i \in Procs |-> None]
    /\ intent = [i \in Procs |-> None]
    /\ peer = [i \in Procs |-> None]
    /\ victim = [i \in Procs |-> None]
    /\ fd = [i \in Procs |-> Closed]
    /\ used = {}
    /\ wrote = [i \in Procs |-> {}]
    /\ committed = [p \in Paths |-> {}]
    /\ wanted = [i \in Procs |-> {}]

-----------------------------------------------------------------------------
(***************************************************************************)
(* fusion_getattr begins every session: the lookup, then a transfer unless *)
(* this node is the location and has the file.  The stat succeeds if lstat *)
(* then finds anything at the path.                                        *)
(***************************************************************************)
Changes(what) == what \in {"write", "unlink"}
Granted(p, what) ==
    /\ Coordination = "sessions" => \A i \in Procs : pc[i] = "idle"
    /\ Coordination = "writers" /\ Changes(what) =>
          \A i \in Procs : path[i] = p => ~Changes(intent[i])

Start(i, p, what) ==
    /\ pc[i] = "idle"
    /\ Granted(p, what)
    /\ path' = [path EXCEPT ![i] = p]
    /\ intent' = [intent EXCEPT ![i] = what]
    /\ wanted' = [wanted EXCEPT ![i] = committed[p]]
    /\ Goto(i, "getattr")
    /\ UNCHANGED <<zht, stray, stores, queue, peer, victim, fd, used, wrote, committed>>

\* What lstat finds, and what the session does next.  A stat that is not
\* followed by anything ends its session; so does one that finds a link to
\* nothing, which the kernel follows out of FusionFS.
Lstat(i, found) ==
    LET next == IF found = "none" /\ intent[i] = "write" THEN "absent"
                ELSE IF \/ found = "file" /\ intent[i] # "stat"
                        \/ found = "link" /\ intent[i] = "unlink" THEN "known"
                ELSE "idle"
    IN IF next = "idle" THEN EndSession(i)
       ELSE /\ Goto(i, next)
            /\ peer' = [peer EXCEPT ![i] = None]
            /\ UNCHANGED session
Found(n, p) == IF Present(n, p) THEN "file"
               ELSE IF ssd[n][p] = None THEN "none" ELSE "link"

\* No transfer: ZHT has no entry, or names this node, which has the file.
NoTransfer_AnyCopy(n, p) == zht[p] = None \/ Present(n, p)
NoTransfer(n, p) == zht[p] = None \/ (Locates(zht[p], n) /\ Present(n, p))

\* The kernel holds the directory from the failed lookup to the create.
BeingCreated(n, p) ==
    \E i \in Procs : /\ Home[i] = n /\ path[i] = p
                    /\ pc[i] \in {"absent", "evict_create", "link_create", "insert"}

fusion_getattr(i) ==
    LET n == Home[i]  p == path[i] IN
    /\ pc[i] = "getattr"
    /\ ~BeingCreated(n, p)
    /\ IF NoTransfer(n, p)
       THEN Lstat(i, Found(n, p))
       ELSE /\ peer' = [peer EXCEPT ![i] = zht[p]]
            /\ Goto(i, "fetch")
            /\ UNCHANGED session
    /\ UNCHANGED <<zht, stray, stores, queue, victim, fd, used, committed>>

\* ffs_recvfile: the local copy is rewritten if the peer has the file. The
\* location is a local of fusion_getattr and goes with it (Lstat).
ffs_recvfile(i) ==
    LET n == Home[i]  p == path[i]
        data == IF peer[i].hdd THEN hdd[peer[i].node][p] ELSE Data(peer[i].node, p)
    IN
    /\ pc[i] = "fetch"
    /\ \/ /\ data # None
          /\ Rewrite(n, p, data)
          /\ Lstat(i, "file")
       \/ /\ data = None
          /\ Lstat(i, Found(n, p))
          /\ UNCHANGED stores
    /\ UNCHANGED <<zht, stray, queue, victim, fd, used, committed>>

-----------------------------------------------------------------------------
(***************************************************************************)
(* The eviction loop of _open, _create and _release: while the SSD is full *)
(* and the queue is not empty, a victim of remque_clock is moved to the    *)
(* HDD and then linked.  zht_update gets the SSD path as its key, so the   *)
(* "ip/" value lands beside the entry of the file.                         *)
(***************************************************************************)
Full(n) == ssd_is_full(n) /\ queue[n] # {}

MovedToHdd_Lost(n, v) == hdd
MovedToHdd(n, v) == Set(hdd, n, v, ssd[n][v])

move_file_ssd(i, from, to) ==
    LET n == Home[i] IN
    /\ pc[i] = from
    /\ Full(n)
    /\ \E v \in queue[n] :
          /\ queue' = rmelem(n, v)
          /\ victim' = [victim EXCEPT ![i] = v]
          /\ IF OnSsd(n, v)
             THEN /\ hdd' = MovedToHdd(n, v)
                  /\ ssd' = Set(ssd, n, v, None)
                  /\ fd' = Orphan(n, v, "ssd")
             ELSE UNCHANGED <<stores, fd>>
    /\ Goto(i, to)
    /\ UNCHANGED <<zht, stray, session, peer, used, committed>>

LinkVictim(i, from, to) ==
    LET n == Home[i]  v == victim[i] IN
    /\ pc[i] = from
    /\ ssd' = IF Exists(n, v) THEN ssd ELSE Set(ssd, n, v, Link)
    /\ stray' = [stray EXCEPT ![v] = [node |-> n, hdd |-> TRUE]]
    /\ victim' = [victim EXCEPT ![i] = None]
    /\ Goto(i, to)
    /\ UNCHANGED <<zht, hdd, queue, session, peer, fd, used, committed>>

EvictionStep(i) ==
    \E where \in {<<"evict_open", "link_open">>,
                  <<"evict_create", "link_create">>,
                  <<"evict_release", "link_release">>} :
       \/ move_file_ssd(i, where[1], where[2])
       \/ LinkVictim(i, where[2], where[1])

-----------------------------------------------------------------------------
(***************************************************************************)
(* fusion_open: a file on the HDD is first swapped in (move_file_hdd: the  *)
(* link goes, then the file is moved).  A failed open still queues the     *)
(* path.                                                                   *)
(***************************************************************************)
fusion_open(i) ==
    /\ pc[i] = "known"
    /\ intent[i] \in {"read", "write"}
    /\ Goto(i, IF is_symlink_ssd(Home[i], path[i]) THEN "evict_open" ELSE "open")
    /\ UNCHANGED <<zht, stray, stores, queue, session, peer, victim, fd, used, committed>>

UnlinkSymlink(i) ==
    /\ pc[i] = "evict_open"
    /\ ~Full(Home[i])
    /\ ssd' = Set(ssd, Home[i], path[i], None)
    /\ fd' = Orphan(Home[i], path[i], "ssd")
    /\ Goto(i, "swap")
    /\ UNCHANGED <<zht, stray, hdd, queue, session, peer, victim, used, committed>>

MoveToSsd(i) ==
    LET n == Home[i]  p == path[i] IN
    /\ pc[i] = "swap"
    /\ IF hdd[n][p] # None
       THEN /\ ssd' = Set(ssd, n, p, hdd[n][p])
            /\ hdd' = Set(hdd, n, p, None)
            /\ fd' = Orphan(n, p, "hdd")
       ELSE UNCHANGED <<stores, fd>>
    /\ Goto(i, "open")
    /\ UNCHANGED <<zht, stray, queue, session, peer, victim, used, committed>>

OpenFd(i) ==
    LET n == Home[i]  p == path[i] IN
    /\ pc[i] = "open"
    /\ queue' = insque(n, p)
    /\ \/ /\ Present(n, p)
          /\ fd' = [fd EXCEPT ![i] =
                       [at |-> IF OnSsd(n, p) THEN "ssd" ELSE "hdd", data |-> {}]]
          /\ Goto(i, "opened")
          /\ UNCHANGED <<session, peer>>
       \/ ~Present(n, p) /\ EndSession(i) /\ UNCHANGED fd
    /\ UNCHANGED <<zht, stray, stores, victim, used, committed>>

\* fusion_write goes to the descriptor, wherever its inode is by now.
fusion_write(i) ==
    LET n == Home[i]  p == path[i] IN
    /\ pc[i] = "opened"
    /\ intent[i] = "write"
    /\ \E w \in Writes \ used :
          /\ used' = used \cup {w}
          /\ wrote' = [wrote EXCEPT ![i] = @ \cup {w}]
          /\ \/ fd[i].at = "ssd" /\ ssd' = Set(ssd, n, p, ssd[n][p] \cup {w})
                                 /\ UNCHANGED <<hdd, fd>>
             \/ fd[i].at = "hdd" /\ hdd' = Set(hdd, n, p, hdd[n][p] \cup {w})
                                 /\ UNCHANGED <<ssd, fd>>
             \/ fd[i].at = "gone" /\ fd' = [fd EXCEPT ![i].data = @ \cup {w}]
                                  /\ UNCHANGED stores
    /\ UNCHANGED <<zht, stray, queue, pc, path, intent, wanted, peer, victim, committed>>

-----------------------------------------------------------------------------
(***************************************************************************)
(* fusion_release.  A writer on a node that is not the location becomes    *)
(* the location: zht_update (zht_remove, then zht_insert), then the old    *)
(* copy is removed by the daemon of the old location, then the eviction    *)
(* loop.  A reader drops its copy, whatever the lookup returned.           *)
(***************************************************************************)
Commit(i) == committed' = [committed EXCEPT ![path[i]] = @ \cup wrote[i]]

ClosedFd_Leaked(i) == fd
ClosedFd(i) == [fd EXCEPT ![i] = Closed]

IsLocal_Never(n, p) == FALSE
IsLocal(n, p) == Locates(zht[p], n)

fusion_release(i) ==
    LET n == Home[i]  p == path[i] IN
    /\ pc[i] = "opened"
    /\ fd' = ClosedFd(i)
    /\ \/ /\ IsLocal(n, p)
          /\ Commit(i)
          /\ EndSession(i)
       \/ /\ ~IsLocal(n, p)
          /\ peer' = [peer EXCEPT ![i] = zht[p]]
          /\ Goto(i, IF intent[i] = "write" THEN "update" ELSE "drop")
          /\ UNCHANGED <<session, committed>>
    /\ UNCHANGED <<zht, stray, stores, queue, victim, used>>

zht_remove(i) ==
    /\ pc[i] = "update"
    /\ zht' = [zht EXCEPT ![path[i]] = None]
    /\ Goto(i, "update2")
    /\ UNCHANGED <<stray, stores, queue, session, peer, victim, fd, used, committed>>

zht_insert(i) ==
    /\ pc[i] = "update2"
    /\ zht' = [zht EXCEPT ![path[i]] = At(Home[i])]
    /\ Goto(i, "rmold")
    /\ UNCHANGED <<stray, stores, queue, session, peer, victim, fd, used, committed>>

\* unlink(2) of the SSD path: the link or the file.
Unlink(n, p) ==
    /\ ssd' = Set(ssd, n, p, None)
    /\ fd' = Orphan(n, p, "ssd")
    /\ UNCHANGED hdd

\* ffs_rmfile at the location of an entry; an empty address reaches nobody.
ffs_rmfile(entry, p) ==
    IF entry = None THEN UNCHANGED <<stores, fd>>
    ELSE IF entry.hdd
    THEN /\ hdd' = Set(hdd, entry.node, p, None)
         /\ fd' = Orphan(entry.node, p, "hdd")
         /\ UNCHANGED ssd
    ELSE Unlink(entry.node, p)

OldLocation_Self(i) == At(Home[i])
OldLocation(i) == peer[i]

RemoveOldCopy(i) ==
    /\ pc[i] = "rmold"
    /\ ffs_rmfile(OldLocation(i), path[i])
    /\ Goto(i, "evict_release")
    /\ UNCHANGED <<zht, stray, queue, session, peer, victim, used, committed>>

ReleaseEnd(i) ==
    /\ pc[i] = "evict_release"
    /\ ~Full(Home[i])
    /\ Commit(i)
    /\ EndSession(i)
    /\ UNCHANGED <<zht, stray, stores, queue, victim, fd, used>>

DropCopy(i) ==
    LET n == Home[i]  p == path[i] IN
    /\ pc[i] = "drop"
    /\ Unlink(n, p)
    /\ queue' = rmelem(n, p)
    /\ EndSession(i)
    /\ UNCHANGED <<zht, stray, victim, used, committed>>

-----------------------------------------------------------------------------
(***************************************************************************)
(* fusion_create: the eviction loop, creat(2), and the entry in ZHT.       *)
(***************************************************************************)
fusion_create(i) ==
    /\ pc[i] = "absent"
    /\ Goto(i, "evict_create")
    /\ UNCHANGED <<zht, stray, stores, queue, session, peer, victim, fd, used, committed>>

Creat(i) ==
    LET n == Home[i]  p == path[i] IN
    /\ pc[i] = "evict_create"
    /\ ~Full(n)
    /\ Rewrite(n, p, {})
    /\ fd' = [fd EXCEPT ![i] = [at |-> IF ssd[n][p] = Link THEN "hdd" ELSE "ssd",
                               data |-> {}]]
    /\ queue' = insque(n, p)
    /\ Goto(i, "insert")
    /\ UNCHANGED <<zht, stray, session, peer, victim, used, committed>>

InsertCreated(i) ==
    /\ pc[i] = "insert"
    /\ zht' = [zht EXCEPT ![path[i]] = At(Home[i])]
    /\ Goto(i, "opened")
    /\ UNCHANGED <<stray, stores, queue, session, peer, victim, fd, used, committed>>

-----------------------------------------------------------------------------
(***************************************************************************)
(* fusion_unlink: the first lookup decides, the HDD file behind a local    *)
(* link goes, the second lookup names the node to clean, the ZHT entry     *)
(* goes, and then the file there and the copy here.                        *)
(***************************************************************************)
fusion_unlink(i) ==
    LET n == Home[i]  p == path[i] IN
    /\ pc[i] = "known"
    /\ intent[i] = "unlink"
    /\ \/ zht[p] = None /\ EndSession(i) /\ UNCHANGED <<hdd, queue, fd, committed>>
       \/ /\ zht[p] # None
          /\ IF is_symlink_ssd(n, p)
             THEN hdd' = Set(hdd, n, p, None) /\ fd' = Orphan(n, p, "hdd")
             ELSE UNCHANGED <<hdd, fd>>
          /\ queue' = rmelem(n, p)
          /\ committed' = [committed EXCEPT ![p] = {}]
          /\ Goto(i, "unlink")
          /\ UNCHANGED <<session, peer>>
    /\ UNCHANGED <<zht, stray, ssd, victim, used>>

LookupOldAddr(i) ==
    /\ pc[i] = "unlink"
    /\ peer' = [peer EXCEPT ![i] = zht[path[i]]]
    /\ Goto(i, "unlink2")
    /\ UNCHANGED <<zht, stray, stores, queue, session, victim, fd, used, committed>>

RemoveEntry(i) ==
    /\ pc[i] = "unlink2"
    /\ zht' = [zht EXCEPT ![path[i]] = None]
    /\ Goto(i, IF Locates(peer[i], Home[i]) THEN "unlink3" ELSE "rmremote")
    /\ UNCHANGED <<stray, stores, queue, session, peer, victim, fd, used, committed>>

RemoveRemote(i) ==
    /\ pc[i] = "rmremote"
    /\ ffs_rmfile(peer[i], path[i])
    /\ Goto(i, "unlink3")
    /\ UNCHANGED <<zht, stray, queue, session, peer, victim, used, committed>>

RemoveLocal(i) ==
    /\ pc[i] = "unlink3"
    /\ Unlink(Home[i], path[i])
    /\ EndSession(i)
    /\ UNCHANGED <<zht, stray, queue, victim, used, committed>>

-----------------------------------------------------------------------------
Step(i) ==
    \/ fusion_getattr(i) \/ ffs_recvfile(i)
    \/ fusion_open(i) \/ UnlinkSymlink(i) \/ MoveToSsd(i) \/ OpenFd(i)
    \/ EvictionStep(i)
    \/ fusion_release(i) \/ zht_remove(i) \/ zht_insert(i)
    \/ RemoveOldCopy(i) \/ ReleaseEnd(i) \/ DropCopy(i)
    \/ fusion_create(i) \/ Creat(i) \/ InsertCreated(i)
    \/ fusion_unlink(i) \/ LookupOldAddr(i) \/ RemoveEntry(i)
    \/ RemoveRemote(i) \/ RemoveLocal(i)

Next ==
    \E i \in Procs :
       \/ \E p \in Paths, what \in Intents : Start(i, p, what)
       \/ fusion_write(i)
       \/ Step(i)

\* A callback that has begun runs on, and an application closes its files.
Fairness == \A i \in Procs : WF_vars(Step(i))

Spec == Init /\ [][Next]_vars /\ Fairness

-----------------------------------------------------------------------------
(***************************************************************************)
(* Properties.                                                             *)
(***************************************************************************)

\* The node that answers for p: the one ZHT names, or the writer between the
\* remove and the insert of its zht_update.
Answers(n, p) ==
    \/ Locates(zht[p], n)
    \/ \E i \in Procs : pc[i] = "update2" /\ path[i] = p /\ Home[i] = n

Removing(p) == \E i \in Procs : path[i] = p /\ intent[i] = "unlink"
Quiet(p) == \A i \in Procs : path[i] # p

Holds(n, p, data) ==
    IF OnSsd(n, p) THEN data \subseteq ssd[n][p]
                   ELSE hdd[n][p] # None /\ data \subseteq hdd[n][p]

\* A file that was released is never lost: while it moves between nodes and
\* tiers, the node that answers for it holds every write whose release has
\* ended, until the file is removed.
Durable ==
    \A p \in Paths : (zht[p] # None \/ committed[p] # {}) /\ ~Removing(p)
        => \E n \in Nodes : Answers(n, p) /\ Holds(n, p, committed[p])

\* Callbacks remove copies all the time (a reader's at release, the old one
\* after a take-over, the victim's name before its link is made), but never
\* that of the node that answers for the file, unless its content is on the
\* HDD by then or the file itself is being removed.
SafeRemoval ==
    [][\A n \in Nodes, p \in Paths :
         Present(n, p) /\ ~Present(n, p)'
           => ~Answers(n, p)' \/ Removing(p) \/ hdd'[n][p] # None]_vars

\* A writer works on the latest released content: fusion_getattr transferred
\* the file, outdated local copy or not, and nothing replaced it since.
WriterUpToDate ==
    \A i \in Procs : pc[i] = "opened" /\ intent[i] = "write"
        => committed[path[i]] \cup wrote[i] \subseteq Visible(i)

\* A session sees at least what had been released when it began.
CloseToOpen == \A i \in Procs : pc[i] = "opened" => wanted[i] \subseteq Visible(i)

\* A file on the SSD of its location is in the replacement queue there, so
\* that the eviction loop can make room.
QueueCovers ==
    \A n \in Nodes, p \in Paths :
        Locates(zht[p], n) /\ OnSsd(n, p) /\ Quiet(p) => p \in queue[n]

\* "if the file doesn't exist, FUSE will pass the control to _create()"
\* (fusion_getattr): only a file that ZHT does not know is created.
CreateOnlyAbsent == [][\A i \in Procs : Creat(i) => zht[path[i]] = None]_vars

\* "we need to make the node who modifies the file as the new location of this
\* file" (fusion_release): the node ZHT names has the file.
LocationHasFile ==
    \A n \in Nodes, p \in Paths : Locates(zht[p], n) /\ Quiet(p) => Present(n, p)

\* "We also need to remove the old copy in its previous node" (fusion_release):
\* when the release of a new location ends, neither tier of the old one keeps
\* the file.
OldCopyRemoved ==
    [][\A i \in Procs : ReleaseEnd(i) /\ peer[i] # None =>
         LET n == peer[i].node IN ~Present(n, path[i]) /\ hdd[n][path[i]] = None]_vars
=============================================================================
