--------------------------- MODULE FusionFSProofs ----------------------------
(*****************************************************************************)
(* Theorems about FusionFS, in three parts: types, placement, and tiers.     *)
(*                                                                           *)
(* FusionFS never leaves its state space: the inductive invariant behind     *)
(* TypeOK, for every set of nodes, paths, processes and writes, every        *)
(* placement of processes on nodes and every discipline of the applications. *)
(*                                                                           *)
(* TypeOK alone is not inductive. A descriptor of fusion_open or             *)
(* fusion_create writes into the file its path names on a tier               *)
(* (fusion_write), so the file must still be there; a transfer of            *)
(* ffs_recvfile needs the location that the lookup returned. Typed adds      *)
(* both. Every callback step that only replaces files (unlink, a transfer,   *)
(* an eviction) is reduced to what it does to the open descriptors: Follows. *)
(*****************************************************************************)
EXTENDS FusionFS, FiniteSetTheorems, TLAPS

-----------------------------------------------------------------------------
(*****************************************************************************)
(* The inductive invariant.                                                  *)
(*****************************************************************************)
\* The stores and the queues have their types.
StoresTyped ==
    /\ zht \in [Paths -> {None} \cup Entry]
    /\ stray \in [Paths -> {None} \cup Entry]
    /\ ssd \in [Nodes -> [Paths -> {None, Link} \cup Content]]
    /\ hdd \in [Nodes -> [Paths -> {None} \cup Content]]
    /\ queue \in [Nodes -> SUBSET Paths]

\* The locals and the history of the sessions have their types.
SessionsTyped ==
    /\ pc \in [Procs -> PCs]
    /\ path \in [Procs -> Paths \cup {None}]
    /\ intent \in [Procs -> Intents \cup {None}]
    /\ peer \in [Procs -> {None} \cup Entry]
    /\ victim \in [Procs -> Paths \cup {None}]
    /\ used \in Content
    /\ wrote \in [Procs -> Content]
    /\ committed \in [Paths -> Content]
    /\ wanted \in [Procs -> Content]

\* The descriptors have their type.
FdTyped == fd \in [Procs -> [at : {"closed", "ssd", "hdd", "gone"}, data : Content]]

\* Process i has a path while a session runs and a descriptor from
\* fusion_create or fusion_open to fusion_release; a descriptor that has not
\* lost its name refers to a file that is there, and a transfer knows its peer.
OpenedBy(i) ==
    /\ pc[i] = "idle" <=> path[i] = None
    /\ pc[i] \in {"opened", "insert"} <=> fd[i] # Closed
    /\ fd[i].at = "ssd" => OnSsd(Home[i], path[i])
    /\ fd[i].at = "hdd" => hdd[Home[i]][path[i]] # None
    /\ pc[i] = "fetch" => peer[i] # None

\* The same of every process.
Opened == \A i \in Procs : OpenedBy(i)

\* The inductive invariant.
Typed == StoresTyped /\ SessionsTyped /\ FdTyped /\ Opened

-----------------------------------------------------------------------------
(*****************************************************************************)
(* What the helpers of the module do.                                        *)
(*****************************************************************************)
\* No content of a file is mistaken for a missing file or for a link.
LEMMA ContentIsData == \A data \in Content : data # None /\ data # Link
BY SystemAssumption DEF Content

\* The location that zht_insert writes is an entry that names the node, on its
\* SSD.
LEMMA AtEntry ==
    ASSUME NEW n \in Nodes
    PROVE  At(n) \in Entry /\ At(n) # None /\ At(n).node = n /\ ~At(n).hdd
<1>1. At(n) \in Entry /\ At(n).node = n /\ ~At(n).hdd
  BY DEF At, Entry
<1>2. None \notin Entry
  BY SystemAssumption DEF Entry
<1>3. QED
  BY <1>1, <1>2

\* A process in a callback works on a file.
LEMMA HasPath == ASSUME Typed, NEW i \in Procs, pc[i] # "idle" PROVE path[i] \in Paths
BY DEF Typed, SessionsTyped, Opened, OpenedBy

\* Set changes one file of one node.
LEMMA SetTyped ==
    ASSUME StoresTyped, NEW n \in Nodes, NEW p \in Paths,
           NEW v \in {None, Link} \cup Content
    PROVE  /\ Set(ssd, n, p, v) \in [Nodes -> [Paths -> {None, Link} \cup Content]]
           /\ v # Link => Set(hdd, n, p, v) \in [Nodes -> [Paths -> {None} \cup Content]]
           /\ \A m \in Nodes, q \in Paths :
                 /\ Set(ssd, n, p, v)[m][q] = IF m = n /\ q = p THEN v ELSE ssd[m][q]
                 /\ Set(hdd, n, p, v)[m][q] = IF m = n /\ q = p THEN v ELSE hdd[m][q]
BY DEF StoresTyped, Set

\* Orphan keeps open what was open, and what still has a name afterwards is
\* unchanged and is not on the removed inode (unlink(2) leaves descriptors
\* alone).
LEMMA OrphanTyped ==
    ASSUME Typed, NEW n \in Nodes, NEW p \in Paths, NEW tier \in {"ssd", "hdd"}
    PROVE  /\ Orphan(n, p, tier) \in
                 [Procs -> [at : {"closed", "ssd", "hdd", "gone"}, data : Content]]
           /\ \A j \in Procs :
                 /\ Orphan(n, p, tier)[j] = Closed <=> fd[j] = Closed
                 /\ Orphan(n, p, tier)[j].at \in {"ssd", "hdd"} =>
                       /\ Orphan(n, p, tier)[j] = fd[j]
                       /\ Home[j] # n \/ path[j] # p \/ fd[j].at # tier
<1>1. ASSUME NEW j \in Procs, Home[j] = n, path[j] = p, fd[j].at = tier
      PROVE  Visible(j) \in Content
  BY <1>1, SystemAssumption DEF Typed, StoresTyped, FdTyped, Opened, OpenedBy, Visible, OnSsd
<1>2. ASSUME NEW j \in Procs
      PROVE  /\ Orphan(n, p, tier)[j] \in
                   [at : {"closed", "ssd", "hdd", "gone"}, data : Content]
             /\ Orphan(n, p, tier)[j] = Closed <=> fd[j] = Closed
             /\ Orphan(n, p, tier)[j].at \in {"ssd", "hdd"} =>
                   /\ Orphan(n, p, tier)[j] = fd[j]
                   /\ Home[j] # n \/ path[j] # p \/ fd[j].at # tier
  <2>1. CASE Home[j] = n /\ path[j] = p /\ fd[j].at = tier
    BY <1>1, <2>1 DEF Orphan, Closed
  <2>2. CASE ~(Home[j] = n /\ path[j] = p /\ fd[j].at = tier)
    BY <2>2 DEF Orphan, Typed, FdTyped
  <2>3. QED
    BY <2>1, <2>2
<1>3. QED
  BY <1>2 DEF Orphan

\* Goto changes the step of one process.
LEMMA GotoTyped ==
    ASSUME SessionsTyped, NEW i \in Procs, NEW step \in PCs, Goto(i, step)
    PROVE  /\ pc' \in [Procs -> PCs]
           /\ \A j \in Procs : pc'[j] = IF j = i THEN step ELSE pc[j]
BY DEF SessionsTyped, Goto

\* Only process i may have left its session.
OnlySession(i) ==
    /\ pc' \in [Procs -> PCs]
    /\ path' \in [Procs -> Paths \cup {None}]
    /\ intent' \in [Procs -> Intents \cup {None}]
    /\ peer' \in [Procs -> {None} \cup Entry]
    /\ wrote' \in [Procs -> Content]
    /\ wanted' \in [Procs -> Content]
    /\ \A j \in Procs \ {i} :
          /\ pc'[j] = pc[j] /\ path'[j] = path[j] /\ intent'[j] = intent[j]
          /\ peer'[j] = peer[j] /\ wrote'[j] = wrote[j] /\ wanted'[j] = wanted[j]

\* EndSession clears the locals of one process.
LEMMA EndSessionTyped ==
    ASSUME SessionsTyped, NEW i \in Procs, EndSession(i)
    PROVE  /\ OnlySession(i)
           /\ pc'[i] = "idle" /\ path'[i] = None /\ intent'[i] = None
           /\ wrote'[i] = {} /\ wanted'[i] = {} /\ peer'[i] = None
BY DEF SessionsTyped, EndSession, OnlySession, Goto, PCs, Content

\* A step of process i that stays in its session leaves the others' alone.
LEMMA StaysInSession ==
    ASSUME SessionsTyped, NEW i \in Procs, NEW step \in PCs, Goto(i, step),
           UNCHANGED session, SessionsTyped', \A j \in Procs \ {i} : peer'[j] = peer[j]
    PROVE  /\ OnlySession(i)
           /\ pc'[i] = step /\ path' = path /\ intent' = intent /\ wrote' = wrote
           /\ wanted' = wanted
BY GotoTyped DEF SessionsTyped, session, OnlySession

\* fusion_getattr's lstat ends the session or goes on with what it found: a
\* file, no file that is to be written, or a link that is to be removed.
LEMMA LstatTyped ==
    ASSUME SessionsTyped, NEW i \in Procs, NEW found \in {"none", "file", "link"},
           Lstat(i, found)
    PROVE  /\ OnlySession(i)
           /\ \/ pc'[i] = "idle" /\ path'[i] = None /\ intent'[i] = None
                 /\ wrote'[i] = {} /\ wanted'[i] = {}
              \/ /\ path'[i] = path[i] /\ intent'[i] = intent[i]
                 /\ wrote'[i] = wrote[i] /\ wanted'[i] = wanted[i]
                 /\ \/ pc'[i] = "absent" /\ found = "none" /\ intent[i] = "write"
                    \/ pc'[i] = "known" /\ found = "file" /\ intent[i] # "stat"
                    \/ pc'[i] = "known" /\ found = "link" /\ intent[i] = "unlink"
           /\ peer'[i] = None
<1>1. CASE EndSession(i)
  BY <1>1, EndSessionTyped
<1>2. CASE ~EndSession(i)
  BY <1>2 DEF SessionsTyped, Lstat, Goto, PCs, session, OnlySession
<1>3. QED
  BY <1>1, <1>2

-----------------------------------------------------------------------------
(*****************************************************************************)
(* One lemma per step of a callback.                                         *)
(*****************************************************************************)
\* Starting a session.
LEMMA TypedStart ==
    ASSUME Typed, NEW i \in Procs, NEW p \in Paths, NEW what \in Intents,
           Start(i, p, what)
    PROVE  Typed'
<1> USE SystemAssumption DEF Typed, Start, stores
<1>1. StoresTyped' /\ FdTyped'
  BY DEF StoresTyped, FdTyped
<1>2. SessionsTyped'
  BY DEF SessionsTyped, Goto, PCs
<1>3. Opened'
  BY DEF SessionsTyped, Opened, OpenedBy, Goto, PCs, OnSsd, Closed
<1>4. QED
  BY <1>1, <1>2, <1>3

\* The lookup of fusion_getattr.
LEMMA TypedGetattr ==
    ASSUME Typed, NEW i \in Procs, fusion_getattr(i)
    PROVE  Typed'
<1> USE SystemAssumption DEF Typed, fusion_getattr, stores
<1>1. StoresTyped' /\ FdTyped'
  BY DEF StoresTyped, FdTyped
<1>2. Found(Home[i], path[i]) \in {"none", "file", "link"}
  BY DEF Found
<1>3. CASE Lstat(i, Found(Home[i], path[i]))
  <2>1. SessionsTyped'
    BY <1>2, <1>3, LstatTyped DEF SessionsTyped, OnlySession
  <2>2. Opened'
    BY <1>2, <1>3, LstatTyped DEF OnlySession, SessionsTyped, Opened, OpenedBy, OnSsd, Closed
  <2>3. QED
    BY <1>1, <2>1, <2>2
<1>4. CASE /\ peer' = [peer EXCEPT ![i] = zht[path[i]]] /\ ~NoTransfer(Home[i], path[i])
           /\ Goto(i, "fetch") /\ UNCHANGED session
  <2>1. path[i] \in Paths /\ zht[path[i]] \in Entry /\ zht[path[i]] # None
    BY <1>4 DEF SessionsTyped, StoresTyped, Opened, OpenedBy, NoTransfer
  <2>2. SessionsTyped'
    BY <1>4, <2>1 DEF SessionsTyped, Goto, PCs, session
  <2>3. Opened'
    BY <1>4, <2>1 DEF SessionsTyped, Opened, OpenedBy, Goto, session, OnSsd, Closed
  <2>4. QED
    BY <1>1, <2>2, <2>3
<1>5. QED
  BY <1>3, <1>4

\* An open for rewriting changes one file of one node, on the tier its link
\* points to, and removes nothing.
LEMMA RewriteTyped ==
    ASSUME Typed, NEW n \in Nodes, NEW p \in Paths, NEW data \in Content,
           Rewrite(n, p, data)
    PROVE  /\ ssd' \in [Nodes -> [Paths -> {None, Link} \cup Content]]
           /\ hdd' \in [Nodes -> [Paths -> {None} \cup Content]]
           /\ \A m \in Nodes, q \in Paths :
                 /\ OnSsd(m, q) => OnSsd(m, q)'
                 /\ hdd[m][q] # None => hdd'[m][q] # None
                 /\ m # n \/ q # p => ssd'[m][q] = ssd[m][q] /\ hdd'[m][q] = hdd[m][q]
           /\ IF ssd[n][p] = Link THEN hdd'[n][p] = data /\ ssd' = ssd
                                  ELSE ssd'[n][p] = data /\ hdd' = hdd
<1>1. data # None /\ data # Link
  BY SystemAssumption DEF Content
<1>2. CASE ssd[n][p] = Link
  BY <1>1, <1>2, SetTyped DEF Rewrite, Typed, StoresTyped, OnSsd
<1>3. CASE ssd[n][p] # Link
  BY <1>1, <1>3, SetTyped DEF Rewrite, Typed, StoresTyped, OnSsd
<1>4. QED
  BY <1>2, <1>3

\* The transfer of fusion_getattr: a descriptor that was open on the rewritten
\* copy still has its file.
LEMMA TypedRecvfile ==
    ASSUME Typed, NEW i \in Procs, ffs_recvfile(i)
    PROVE  Typed'
<1> DEFINE n == Home[i]
           p == path[i]
           data == IF peer[i].hdd THEN hdd[peer[i].node][p] ELSE Data(peer[i].node, p)
<1> USE SystemAssumption DEF Typed, ffs_recvfile
<1>1. n \in Nodes /\ p \in Paths /\ peer[i] \in Entry
  BY DEF SessionsTyped, Opened, OpenedBy
<1>2. data \in Content \cup {None}
  BY <1>1 DEF StoresTyped, Data, Entry
<1>3. \E found \in {"none", "file", "link"} : Lstat(i, found)
  BY DEF Found
<1>4. SessionsTyped'
  BY <1>3, LstatTyped DEF SessionsTyped, OnlySession
<1>5. FdTyped'
  BY DEF FdTyped
<1>6. CASE data # None /\ Rewrite(n, p, data)
  <2>1. StoresTyped'
    BY <1>1, <1>2, <1>6, RewriteTyped DEF StoresTyped
  <2>2. ASSUME NEW j \in Procs
        PROVE  OpenedBy(j)'
    <3>1. CASE j = i
      BY <1>3, <3>1, LstatTyped DEF OnlySession, SessionsTyped, Opened, OpenedBy, Closed
    <3>2. CASE j # i
      <4>1. /\ OpenedBy(j) /\ Home[j] \in Nodes /\ fd' = fd
            /\ fd[j] # Closed => path[j] \in Paths
        BY HasPath DEF Opened, OpenedBy
      <4>2. path'[j] = path[j] /\ pc'[j] = pc[j] /\ peer'[j] = peer[j]
        BY <1>3, <3>2, LstatTyped DEF OnlySession
      <4>3. QED
        BY <1>1, <1>2, <1>6, <4>1, <4>2, RewriteTyped DEF OpenedBy, Closed
    <3>3. QED
      BY <3>1, <3>2
  <2>3. QED
    BY <1>4, <1>5, <2>1, <2>2 DEF Opened
<1>7. CASE UNCHANGED stores
  <2>1. StoresTyped'
    BY <1>7 DEF StoresTyped, stores
  <2>2. Opened'
    BY <1>3, <1>7, LstatTyped DEF OnlySession, SessionsTyped, Opened, OpenedBy, Closed, OnSsd, stores
  <2>3. QED
    BY <1>4, <1>5, <2>1, <2>2
<1>8. QED
  BY <1>6, <1>7

\* The first half of an eviction: descriptors of the victim lose its name.
LEMMA TypedMoveFileSsd ==
    ASSUME Typed, NEW i \in Procs, NEW from \in PCs \ {"idle", "opened", "insert"},
           NEW to \in PCs \ {"idle", "opened", "insert", "fetch"}, move_file_ssd(i, from, to)
    PROVE  Typed'
<1> USE SystemAssumption DEF Typed, move_file_ssd, session
<1>1. PICK v \in queue[Home[i]] :
          /\ queue' = rmelem(Home[i], v)
          /\ victim' = [victim EXCEPT ![i] = v]
          /\ IF OnSsd(Home[i], v)
             THEN /\ hdd' = MovedToHdd(Home[i], v)
                  /\ ssd' = Set(ssd, Home[i], v, None)
                  /\ fd' = Orphan(Home[i], v, "ssd")
             ELSE UNCHANGED <<stores, fd>>
  BY DEF Full
<1>2. Home[i] \in Nodes /\ v \in Paths
  BY <1>1 DEF StoresTyped
<1>3. SessionsTyped'
  BY <1>2, <1>1, GotoTyped DEF SessionsTyped
<1>4. queue' \in [Nodes -> SUBSET Paths]
  BY <1>1, <1>2 DEF StoresTyped, rmelem
<1>5. CASE OnSsd(Home[i], v)
  <2>1. ssd[Home[i]][v] \in Content /\ ssd[Home[i]][v] \notin {None, Link}
    BY <1>2, <1>5 DEF StoresTyped, OnSsd
  <2>2. StoresTyped'
    BY <1>1, <1>2, <1>4, <1>5, <2>1, SetTyped DEF StoresTyped, MovedToHdd
  <2>3. FdTyped'
    BY <1>1, <1>2, <1>5, OrphanTyped DEF FdTyped
  <2>4. /\ \A m \in Nodes, q \in Paths : hdd[m][q] # None => hdd'[m][q] # None
        /\ \A m \in Nodes, q \in Paths : m # Home[i] \/ q # v => ssd'[m][q] = ssd[m][q]
    BY <1>1, <1>2, <1>5, <2>1, SetTyped DEF StoresTyped, MovedToHdd
  <2>5. ASSUME NEW j \in Procs
        PROVE  OpenedBy(j)'
    <3>1. /\ fd'[j] = Closed <=> fd[j] = Closed
          /\ fd'[j].at \in {"ssd", "hdd"} =>
                fd'[j] = fd[j] /\ (Home[j] # Home[i] \/ path[j] # v \/ fd[j].at # "ssd")
      BY <1>1, <1>2, <1>5, OrphanTyped
    <3>2. fd[j] # Closed => path[j] \in Paths
      BY HasPath DEF Opened, OpenedBy
    <3>3. /\ pc'[j] = pc[j] \/ (j = i /\ pc[j] \notin {"idle", "opened", "insert"}
                                       /\ pc'[j] \notin {"idle", "opened", "insert", "fetch"})
          /\ path'[j] = path[j] /\ peer'[j] = peer[j]
      BY GotoTyped
    <3>4. QED
      BY <2>4, <3>1, <3>2, <3>3 DEF Opened, OpenedBy, OnSsd, Closed
  <2>6. QED
    BY <1>3, <2>2, <2>3, <2>5 DEF Opened
<1>6. CASE ~OnSsd(Home[i], v)
  <2>1. StoresTyped' /\ FdTyped'
    BY <1>1, <1>4, <1>6 DEF StoresTyped, FdTyped, stores
  <2>2. Opened'
    BY <1>1, <1>6, GotoTyped DEF SessionsTyped, Opened, OpenedBy, OnSsd, stores
  <2>3. QED
    BY <1>3, <2>1, <2>2
<1>7. QED
  BY <1>5, <1>6

-----------------------------------------------------------------------------
(*****************************************************************************)
(* What the steps that remove or replace files have in common.               *)
(*****************************************************************************)
\* A step that replaces files: the descriptors that still have a name have a
\* file under it.
Follows ==
    /\ ssd' \in [Nodes -> [Paths -> {None, Link} \cup Content]]
    /\ hdd' \in [Nodes -> [Paths -> {None} \cup Content]]
    /\ FdTyped'
    /\ \A j \in Procs :
          /\ fd'[j] = Closed <=> fd[j] = Closed
          /\ fd'[j].at = "ssd" => ssd'[Home[j]][path[j]] \notin {None, Link}
          /\ fd'[j].at = "hdd" => hdd'[Home[j]][path[j]] # None

\* A step that leaves files and descriptors alone.
LEMMA SameFollows == ASSUME Typed, UNCHANGED <<stores, fd>> PROVE Follows
BY DEF Typed, StoresTyped, FdTyped, Opened, OpenedBy, OnSsd, Follows, stores

\* unlink(2) of an SSD path.
LEMMA UnlinkFollows ==
    ASSUME Typed, NEW n \in Nodes, NEW p \in Paths, Unlink(n, p)
    PROVE  /\ Follows
           /\ hdd' = hdd
           /\ \A m \in Nodes, q \in Paths :
                 ssd'[m][q] = IF m = n /\ q = p THEN None ELSE ssd[m][q]
<1> USE DEF Unlink
<1>1. /\ ssd' \in [Nodes -> [Paths -> {None, Link} \cup Content]]
      /\ hdd' \in [Nodes -> [Paths -> {None} \cup Content]]
      /\ \A m \in Nodes, q \in Paths :
            ssd'[m][q] = IF m = n /\ q = p THEN None ELSE ssd[m][q]
  BY SetTyped DEF Typed, StoresTyped
<1>2. FdTyped'
  BY OrphanTyped DEF FdTyped
<1>3. ASSUME NEW j \in Procs
      PROVE  /\ fd'[j] = Closed <=> fd[j] = Closed
             /\ fd'[j].at = "ssd" => ssd'[Home[j]][path[j]] \notin {None, Link}
             /\ fd'[j].at = "hdd" => hdd'[Home[j]][path[j]] # None
  <2>1. /\ fd'[j] = Closed <=> fd[j] = Closed
        /\ fd'[j].at \in {"ssd", "hdd"} =>
              fd'[j] = fd[j] /\ (Home[j] # n \/ path[j] # p \/ fd[j].at # "ssd")
    BY OrphanTyped
  <2>2. OpenedBy(j) /\ Home[j] \in Nodes /\ (fd[j] # Closed => path[j] \in Paths)
    BY HasPath, SystemAssumption DEF Typed, Opened, OpenedBy
  <2>3. QED
    BY <1>1, <2>1, <2>2 DEF OpenedBy, OnSsd, Closed
<1>4. QED
  BY <1>1, <1>2, <1>3 DEF Follows

\* Removing the HDD copy of a file.
LEMMA HddGoneFollows ==
    ASSUME Typed, NEW n \in Nodes, NEW p \in Paths,
           hdd' = Set(hdd, n, p, None), fd' = Orphan(n, p, "hdd"), ssd' = ssd
    PROVE  /\ Follows
           /\ \A m \in Nodes, q \in Paths :
                 hdd'[m][q] = IF m = n /\ q = p THEN None ELSE hdd[m][q]
<1>1. /\ ssd' \in [Nodes -> [Paths -> {None, Link} \cup Content]]
      /\ hdd' \in [Nodes -> [Paths -> {None} \cup Content]]
      /\ \A m \in Nodes, q \in Paths :
            hdd'[m][q] = IF m = n /\ q = p THEN None ELSE hdd[m][q]
  BY SetTyped, SystemAssumption DEF Typed, StoresTyped
<1>2. FdTyped'
  BY OrphanTyped DEF FdTyped
<1>3. ASSUME NEW j \in Procs
      PROVE  /\ fd'[j] = Closed <=> fd[j] = Closed
             /\ fd'[j].at = "ssd" => ssd'[Home[j]][path[j]] \notin {None, Link}
             /\ fd'[j].at = "hdd" => hdd'[Home[j]][path[j]] # None
  <2>1. /\ fd'[j] = Closed <=> fd[j] = Closed
        /\ fd'[j].at \in {"ssd", "hdd"} =>
              fd'[j] = fd[j] /\ (Home[j] # n \/ path[j] # p \/ fd[j].at # "hdd")
    BY OrphanTyped
  <2>2. OpenedBy(j) /\ Home[j] \in Nodes /\ (fd[j] # Closed => path[j] \in Paths)
    BY HasPath, SystemAssumption DEF Typed, Opened, OpenedBy
  <2>3. QED
    BY <1>1, <2>1, <2>2 DEF OpenedBy, OnSsd, Closed
<1>4. QED
  BY <1>1, <1>2, <1>3 DEF Follows

\* A step that removes no file.
LEMMA GrowFollows ==
    ASSUME Typed, fd' = fd,
           ssd' \in [Nodes -> [Paths -> {None, Link} \cup Content]],
           hdd' \in [Nodes -> [Paths -> {None} \cup Content]],
           \A m \in Nodes, q \in Paths :
              /\ OnSsd(m, q) => ssd'[m][q] \notin {None, Link}
              /\ hdd[m][q] # None => hdd'[m][q] # None
    PROVE  Follows
<1>1. ASSUME NEW j \in Procs
      PROVE  /\ fd[j].at = "ssd" => ssd'[Home[j]][path[j]] \notin {None, Link}
             /\ fd[j].at = "hdd" => hdd'[Home[j]][path[j]] # None
  <2>1. OpenedBy(j) /\ Home[j] \in Nodes /\ (fd[j] # Closed => path[j] \in Paths)
    BY HasPath, SystemAssumption DEF Typed, Opened, OpenedBy
  <2>2. QED
    BY <2>1 DEF OpenedBy, Closed
<1>2. QED
  BY <1>1 DEF Follows, Typed, FdTyped

\* ffs_rmfile at the location of any entry, or of none.
LEMMA RmfileFollows ==
    ASSUME Typed, NEW entry \in {None} \cup Entry, NEW p \in Paths, ffs_rmfile(entry, p)
    PROVE  Follows
<1>1. CASE entry = None
  BY <1>1, SameFollows DEF ffs_rmfile
<1>2. CASE entry # None /\ entry.hdd
  BY <1>2, HddGoneFollows DEF ffs_rmfile, Entry
<1>3. CASE entry # None /\ ~entry.hdd
  BY <1>3, UnlinkFollows DEF ffs_rmfile, Entry
<1>4. QED
  BY <1>1, <1>2, <1>3

\* A process that neither opens nor closes keeps its part of Opened.
LEMMA OpenedKept ==
    ASSUME Typed, Follows, NEW j \in Procs, path'[j] = path[j],
           pc'[j] = pc[j] \/ {pc[j], pc'[j]} \cap {"idle", "opened", "insert"} = {},
           pc'[j] = "fetch" => peer'[j] # None
    PROVE  OpenedBy(j)'
BY DEF Typed, Opened, OpenedBy, Follows, OnSsd

\* A process that ends its session without a descriptor keeps it too.
LEMMA OpenedEnds ==
    ASSUME Typed, Follows, NEW j \in Procs, pc[j] \notin {"opened", "insert"},
           pc'[j] = "idle", path'[j] = None
    PROVE  OpenedBy(j)'
BY DEF Typed, Opened, OpenedBy, Follows, OnSsd, Closed

\* The steps that neither open nor close a file, in one lemma: the session ends
\* or goes on, and the descriptors follow the files.
LEMMA TypedStep ==
    ASSUME Typed, NEW i \in Procs, Follows, 
           pc[i] \notin {"idle", "opened", "insert"},
           \/ EndSession(i)
           \/ /\ \E step \in PCs \ {"idle", "opened", "insert", "fetch"} : Goto(i, step)
              /\ peer' \in [Procs -> {None} \cup Entry]
              /\ \A j \in Procs \ {i} : peer'[j] = peer[j]
              /\ UNCHANGED session,
           zht' \in [Paths -> {None} \cup Entry],
           stray' \in [Paths -> {None} \cup Entry],
           queue' \in [Nodes -> SUBSET Paths],
           victim' \in [Procs -> Paths \cup {None}],
           used' \in Content,
           committed' \in [Paths -> Content]
    PROVE  Typed'
<1>1. StoresTyped' /\ FdTyped'
  BY DEF StoresTyped, Follows
<1>2. CASE EndSession(i)
  <2>1. SessionsTyped'
    BY <1>2, EndSessionTyped DEF Typed, SessionsTyped, OnlySession
  <2>2. Opened'
    BY <1>2, EndSessionTyped, OpenedKept, OpenedEnds DEF Typed, Opened, OpenedBy, OnlySession
  <2>3. QED
    BY <1>1, <2>1, <2>2 DEF Typed
<1>3. CASE ~EndSession(i)
  <2>1. SessionsTyped'
    BY <1>3, GotoTyped DEF Typed, SessionsTyped, session
  <2>2. ASSUME NEW j \in Procs
        PROVE  OpenedBy(j)'
    BY <1>3, GotoTyped, OpenedKept DEF Typed, Opened, OpenedBy, session
  <2>3. QED
    BY <1>1, <2>1, <2>2 DEF Typed, Opened
<1>4. QED
  BY <1>2, <1>3

-----------------------------------------------------------------------------
(*****************************************************************************)
(* The remaining steps.                                                      *)
(*****************************************************************************)
\* The second half of an eviction: the link is only made where nothing is.
LEMMA TypedLinkVictim ==
    ASSUME Typed, NEW i \in Procs, NEW from \in PCs \ {"idle", "opened", "insert"},
           NEW to \in PCs \ {"idle", "opened", "insert", "fetch"}, LinkVictim(i, from, to)
    PROVE  Typed'
<1> DEFINE n == Home[i]
           v == victim[i]
<1> USE DEF LinkVictim
<1>1. n \in Nodes
  BY SystemAssumption
<1>2. stray' \in [Paths -> {None} \cup Entry]
  BY <1>1 DEF Typed, StoresTyped, Entry
<1>3. /\ ssd' \in [Nodes -> [Paths -> {None, Link} \cup Content]]
      /\ \A m \in Nodes, q \in Paths : ssd[m][q] # None => ssd'[m][q] = ssd[m][q]
  <2>1. CASE Exists(n, v)
    BY <2>1 DEF Typed, StoresTyped
  <2>2. CASE ~Exists(n, v)
    <3>1. ssd' = [ssd EXCEPT ![n][v] = Link]
      BY <2>2 DEF Set
    <3>2. ssd \in [Nodes -> [Paths -> {None, Link} \cup Content]]
      BY DEF Typed, StoresTyped
    <3>3. ssd[n][v] = None
      BY <2>2 DEF Exists
    <3>4. CASE v \in Paths
      <4>1. ssd' = Set(ssd, n, v, Link)
        BY <2>2
      <4>2. QED
        BY <1>1, <3>3, <3>4, <4>1, SetTyped DEF Typed
    <3>5. CASE v \notin Paths
      <4>1. [ssd[n] EXCEPT ![v] = Link] = ssd[n]
        BY <1>1, <3>2, <3>5
      <4>2. ssd' = ssd
        BY <1>1, <3>1, <3>2, <4>1
      <4>3. QED
        BY <3>2, <4>2
    <3>6. QED
      BY <3>4, <3>5
  <2>3. QED
    BY <2>1, <2>2
<1>4. Follows
  BY <1>3, GrowFollows DEF Typed, StoresTyped, OnSsd
<1>5. QED
  BY <1>2, <1>4, TypedStep DEF Typed, StoresTyped, SessionsTyped

\* fusion_open, its entry.
LEMMA TypedOpen == ASSUME Typed, NEW i \in Procs, fusion_open(i) PROVE Typed'
<1>1. \E step \in {"evict_open", "open"} : Goto(i, step)
  BY DEF fusion_open
<1>2. QED
  BY <1>1, SameFollows, TypedStep
     DEF fusion_open, Typed, StoresTyped, SessionsTyped, PCs

\* fusion_open removes the link before the file is swapped in.
LEMMA TypedUnlinkSymlink == ASSUME Typed, NEW i \in Procs, UnlinkSymlink(i) PROVE Typed'
<1>1. Home[i] \in Nodes /\ path[i] \in Paths
  BY HasPath, SystemAssumption DEF UnlinkSymlink
<1>2. Follows
  BY <1>1, UnlinkFollows DEF UnlinkSymlink, Unlink
<1>3. QED
  BY <1>2, TypedStep DEF UnlinkSymlink, Typed, StoresTyped, SessionsTyped, PCs

\* move_file_hdd: the file leaves the HDD for the SSD, and the descriptors on
\* the HDD lose its name.
LEMMA TypedMoveToSsd == ASSUME Typed, NEW i \in Procs, MoveToSsd(i) PROVE Typed'
<1> DEFINE n == Home[i]
           p == path[i]
<1>1. n \in Nodes /\ p \in Paths
  BY HasPath, SystemAssumption DEF MoveToSsd
<1>2. Follows
  <2>1. CASE hdd[n][p] # None
    <3>1. hdd[n][p] \in Content
      BY <1>1, <2>1 DEF Typed, StoresTyped
    <3>2. hdd[n][p] \notin {None, Link}
      BY <3>1, ContentIsData
    <3>3. /\ ssd' \in [Nodes -> [Paths -> {None, Link} \cup Content]]
          /\ hdd' \in [Nodes -> [Paths -> {None} \cup Content]]
          /\ \A m \in Nodes, q \in Paths :
                /\ ssd'[m][q] = IF m = n /\ q = p THEN hdd[n][p] ELSE ssd[m][q]
                /\ hdd'[m][q] = IF m = n /\ q = p THEN None ELSE hdd[m][q]
      BY <1>1, <2>1, <3>1, SetTyped, SystemAssumption DEF MoveToSsd, Typed, StoresTyped
    <3>4. FdTyped'
      BY <1>1, <2>1, OrphanTyped DEF MoveToSsd, FdTyped
    <3>5. ASSUME NEW j \in Procs
          PROVE  /\ fd'[j] = Closed <=> fd[j] = Closed
                 /\ fd'[j].at = "ssd" => ssd'[Home[j]][path[j]] \notin {None, Link}
                 /\ fd'[j].at = "hdd" => hdd'[Home[j]][path[j]] # None
      <4>1. /\ fd'[j] = Closed <=> fd[j] = Closed
            /\ fd'[j].at \in {"ssd", "hdd"} =>
                  fd'[j] = fd[j] /\ (Home[j] # n \/ path[j] # p \/ fd[j].at # "hdd")
        BY <1>1, <2>1, OrphanTyped DEF MoveToSsd
      <4>2. OpenedBy(j) /\ Home[j] \in Nodes /\ (fd[j] # Closed => path[j] \in Paths)
        BY HasPath, SystemAssumption DEF Typed, Opened, OpenedBy
      <4>3. QED
        BY <3>2, <3>3, <4>1, <4>2 DEF OpenedBy, OnSsd, Closed
    <3>6. QED
      BY <3>3, <3>4, <3>5 DEF Follows
  <2>2. CASE hdd[n][p] = None
    BY <2>2, SameFollows DEF MoveToSsd
  <2>3. QED
    BY <2>1, <2>2
<1>3. QED
  BY <1>2, TypedStep DEF MoveToSsd, Typed, StoresTyped, SessionsTyped, PCs

\* The queue operations change the queue of one node.
LEMMA InsqueTyped ==
    ASSUME Typed, NEW n \in Nodes, NEW p \in Paths
    PROVE  /\ insque(n, p) \in [Nodes -> SUBSET Paths]
           /\ rmelem(n, p) \in [Nodes -> SUBSET Paths]
           /\ \A m \in Nodes : insque(n, p)[m] = IF m = n THEN queue[m] \cup {p} ELSE queue[m]
           /\ \A m \in Nodes : rmelem(n, p)[m] = IF m = n THEN queue[m] \ {p} ELSE queue[m]
BY DEF Typed, StoresTyped, insque, rmelem

\* open(2) in fusion_open: a descriptor for a file that is present.
LEMMA TypedOpenFd == ASSUME Typed, NEW i \in Procs, OpenFd(i) PROVE Typed'
<1> DEFINE n == Home[i]
           p == path[i]
<1> USE DEF OpenFd
<1>1. n \in Nodes /\ p \in Paths
  BY HasPath, SystemAssumption
<1>2. queue' \in [Nodes -> SUBSET Paths]
  BY <1>1, InsqueTyped
<1>3. CASE /\ Present(n, p)
           /\ fd' = [fd EXCEPT ![i] = [at |-> IF OnSsd(n, p) THEN "ssd" ELSE "hdd",
                                       data |-> {}]]
           /\ Goto(i, "opened") /\ UNCHANGED <<session, peer>>
  <2>1. StoresTyped' /\ FdTyped'
    BY <1>2, <1>3 DEF Typed, StoresTyped, FdTyped, stores, Content
  <2>2. SessionsTyped'
    BY <1>3, GotoTyped DEF Typed, SessionsTyped, session, PCs
  <2>3. ASSUME NEW j \in Procs
        PROVE  OpenedBy(j)'
    <3>1. CASE j = i
      BY <1>3, <3>1, GotoTyped
         DEF Typed, FdTyped, Opened, OpenedBy, session, stores, PCs, Closed, Present, OnSsd,
             is_symlink_ssd
    <3>2. CASE j # i
      BY <1>3, <3>2, GotoTyped
         DEF Typed, FdTyped, Opened, OpenedBy, session, stores, PCs, OnSsd
    <3>3. QED
      BY <3>1, <3>2
  <2>4. QED
    BY <2>1, <2>2, <2>3 DEF Typed, Opened
<1>4. CASE ~Present(n, p) /\ EndSession(i) /\ UNCHANGED fd
  BY <1>2, <1>4, SameFollows, TypedStep DEF Typed, StoresTyped, SessionsTyped
<1>5. QED
  BY <1>3, <1>4

\* fusion_write: on the SSD, on the HDD, or into an inode without a name.
LEMMA TypedWrite == ASSUME Typed, NEW i \in Procs, fusion_write(i) PROVE Typed'
<1> DEFINE n == Home[i]
           p == path[i]
<1>1. n \in Nodes /\ p \in Paths /\ fd[i] # Closed
  BY HasPath, SystemAssumption DEF fusion_write, Typed, Opened, OpenedBy
<1>2. PICK w \in Writes :
          /\ used' = used \cup {w}
          /\ wrote' = [wrote EXCEPT ![i] = @ \cup {w}]
          /\ \/ fd[i].at = "ssd" /\ ssd' = Set(ssd, n, p, ssd[n][p] \cup {w})
                                 /\ UNCHANGED <<hdd, fd>>
             \/ fd[i].at = "hdd" /\ hdd' = Set(hdd, n, p, hdd[n][p] \cup {w})
                                 /\ UNCHANGED <<ssd, fd>>
             \/ fd[i].at = "gone" /\ fd' = [fd EXCEPT ![i].data = @ \cup {w}]
                                  /\ UNCHANGED stores
  BY DEF fusion_write
<1>3. SessionsTyped'
  BY <1>2 DEF fusion_write, Typed, SessionsTyped, Content
<1>4. CASE fd[i].at = "ssd" /\ ssd' = Set(ssd, n, p, ssd[n][p] \cup {w})
                            /\ UNCHANGED <<hdd, fd>>
  <2>1. ssd[n][p] \cup {w} \in Content
    BY <1>1, <1>2, <1>4 DEF Typed, StoresTyped, Opened, OpenedBy, OnSsd, Content
  <2>2. ssd' \in [Nodes -> [Paths -> {None, Link} \cup Content]]
    BY <1>1, <1>4, <2>1, SetTyped DEF Typed
  <2>3. \A m \in Nodes, q \in Paths : OnSsd(m, q) => OnSsd(m, q)'
    BY <1>1, <1>4, <2>1, SetTyped, ContentIsData DEF Typed, OnSsd
  <2>4. Follows
    BY <1>4, <2>2, <2>3, GrowFollows DEF Typed, StoresTyped, OnSsd
  <2>5. Opened'
    BY <2>4, OpenedKept DEF fusion_write, Typed, Opened, OpenedBy
  <2>6. QED
    BY <1>3, <1>4, <2>2, <2>4, <2>5 DEF fusion_write, Typed, StoresTyped, Follows
<1>5. CASE fd[i].at = "hdd" /\ hdd' = Set(hdd, n, p, hdd[n][p] \cup {w})
                            /\ UNCHANGED <<ssd, fd>>
  <2>1. hdd[n][p] \cup {w} \in Content
    BY <1>1, <1>2, <1>5 DEF Typed, StoresTyped, Opened, OpenedBy, Content
  <2>2. hdd' \in [Nodes -> [Paths -> {None} \cup Content]]
    BY <1>1, <1>5, <2>1, SetTyped, ContentIsData DEF Typed
  <2>3. \A m \in Nodes, q \in Paths : hdd[m][q] # None => hdd'[m][q] # None
    BY <1>1, <1>5, <2>1, SetTyped, ContentIsData DEF Typed
  <2>4. Follows
    BY <1>5, <2>2, <2>3, GrowFollows DEF Typed, StoresTyped, OnSsd
  <2>5. Opened'
    BY <2>4, OpenedKept DEF fusion_write, Typed, Opened, OpenedBy
  <2>6. QED
    BY <1>3, <1>5, <2>2, <2>4, <2>5 DEF fusion_write, Typed, StoresTyped, Follows
<1>6. CASE fd[i].at = "gone" /\ fd' = [fd EXCEPT ![i].data = @ \cup {w}]
                             /\ UNCHANGED stores
  <2>1. StoresTyped' /\ FdTyped'
    BY <1>2, <1>6 DEF fusion_write, Typed, StoresTyped, FdTyped, stores, Content
  <2>2. \A j \in Procs : /\ fd'[j].at = fd[j].at
                         /\ j # i => fd'[j] = fd[j]
    BY <1>6 DEF Typed, FdTyped
  <2>3. Opened'
    BY <1>1, <1>6, <2>2 DEF fusion_write, Typed, Opened, OpenedBy, OnSsd, Closed, stores
  <2>4. QED
    BY <1>3, <2>1, <2>3 DEF Typed
<1>7. QED
  BY <1>2, <1>4, <1>5, <1>6

\* fusion_release closes the descriptor.
LEMMA TypedRelease == ASSUME Typed, NEW i \in Procs, fusion_release(i) PROVE Typed'
<1> USE DEF fusion_release
<1>1. StoresTyped' /\ FdTyped'
  BY DEF Typed, StoresTyped, FdTyped, stores, ClosedFd, Closed, Content
<1>2. path[i] \in Paths
  BY HasPath
<1>3. \A j \in Procs : fd'[j] = IF j = i THEN Closed ELSE fd[j]
  BY DEF Typed, FdTyped, ClosedFd
<1>4. CASE Commit(i) /\ EndSession(i)
  <2>1. SessionsTyped'
    BY <1>2, <1>4, EndSessionTyped DEF Typed, SessionsTyped, OnlySession, Commit, Content
  <2>2. ASSUME NEW j \in Procs
        PROVE  OpenedBy(j)'
    BY <1>4, <1>3, EndSessionTyped DEF Typed, OnlySession, Opened, OpenedBy, OnSsd, stores, Closed
  <2>3. QED
    BY <1>1, <2>1, <2>2 DEF Typed, Opened
<1>5. CASE /\ peer' = [peer EXCEPT ![i] = zht[path[i]]]
           /\ Goto(i, IF intent[i] = "write" THEN "update" ELSE "drop")
           /\ UNCHANGED <<session, committed>>
  <2>1. \E step \in {"update", "drop"} : Goto(i, step)
    BY <1>5
  <2>2. SessionsTyped'
    BY <1>2, <1>5, <2>1, GotoTyped DEF Typed, SessionsTyped, StoresTyped, session, PCs
  <2>3. ASSUME NEW j \in Procs
        PROVE  OpenedBy(j)'
    BY <1>5, <1>3, <2>1, GotoTyped
       DEF Typed, Opened, OpenedBy, OnSsd, stores, session, Closed, PCs
  <2>4. QED
    BY <1>1, <2>2, <2>3 DEF Typed, Opened
<1>6. QED
  BY <1>4, <1>5

\* The steps that only talk to ZHT, and the entry of fusion_create.
LEMMA TypedEntry ==
    ASSUME Typed, NEW i \in Procs,
           \/ zht_remove(i) \/ zht_insert(i) \/ fusion_create(i)
           \/ LookupOldAddr(i) \/ RemoveEntry(i)
    PROVE  Typed'
<1>1. Follows
  BY SameFollows DEF zht_remove, zht_insert, fusion_create, LookupOldAddr, RemoveEntry
<1>2. Home[i] \in Nodes /\ path[i] \in Paths /\ zht[path[i]] \in {None} \cup Entry
  BY HasPath, SystemAssumption
     DEF zht_remove, zht_insert, fusion_create, LookupOldAddr, RemoveEntry, Typed, StoresTyped
<1>3. At(Home[i]) \in Entry
  BY <1>2 DEF At, Entry
<1>4. zht' \in [Paths -> {None} \cup Entry]
  BY <1>2, <1>3
     DEF zht_remove, zht_insert, fusion_create, LookupOldAddr, RemoveEntry, Typed, StoresTyped
<1>5. /\ peer' \in [Procs -> {None} \cup Entry]
      /\ \A j \in Procs \ {i} : peer'[j] = peer[j]
  BY <1>2
     DEF zht_remove, zht_insert, fusion_create, LookupOldAddr, RemoveEntry, Typed, SessionsTyped
<1>6. /\ pc[i] \notin {"idle", "opened", "insert"}
      /\ \E step \in PCs \ {"idle", "opened", "insert", "fetch"} : Goto(i, step)
      /\ UNCHANGED <<session, stray, queue, victim, used, committed>>
  BY DEF zht_remove, zht_insert, fusion_create, LookupOldAddr, RemoveEntry, PCs
<1>7. QED
  BY <1>1, <1>4, <1>5, <1>6, TypedStep DEF Typed, StoresTyped, SessionsTyped

\* The steps that remove copies, of a release and of an unlink.
LEMMA TypedRemove ==
    ASSUME Typed, NEW i \in Procs,
           RemoveOldCopy(i) \/ DropCopy(i) \/ RemoveRemote(i) \/ RemoveLocal(i)
    PROVE  Typed'
<1>1. Home[i] \in Nodes /\ path[i] \in Paths /\ peer[i] \in {None} \cup Entry
  BY HasPath, SystemAssumption
     DEF RemoveOldCopy, DropCopy, RemoveRemote, RemoveLocal, Typed, SessionsTyped
<1>2. Follows
  <2>1. CASE RemoveOldCopy(i) \/ RemoveRemote(i)
    BY <1>1, <2>1, RmfileFollows DEF RemoveOldCopy, RemoveRemote, OldLocation
  <2>2. CASE DropCopy(i) \/ RemoveLocal(i)
    BY <1>1, <2>2, UnlinkFollows DEF DropCopy, RemoveLocal
  <2>3. QED
    BY <2>1, <2>2
<1>3. queue' \in [Nodes -> SUBSET Paths]
  BY <1>1, InsqueTyped
     DEF RemoveOldCopy, DropCopy, RemoveRemote, RemoveLocal, Typed, StoresTyped
<1>4. /\ pc[i] \notin {"idle", "opened", "insert"}
      /\ \/ EndSession(i)
         \/ /\ \E step \in PCs \ {"idle", "opened", "insert", "fetch"} : Goto(i, step)
            /\ UNCHANGED <<peer, session>>
      /\ UNCHANGED <<zht, stray, victim, used, committed>>
  BY DEF RemoveOldCopy, DropCopy, RemoveRemote, RemoveLocal, PCs
<1>5. QED
  BY <1>2, <1>3, <1>4, TypedStep DEF Typed, StoresTyped, SessionsTyped

\* The end of fusion_release.
LEMMA TypedReleaseEnd == ASSUME Typed, NEW i \in Procs, ReleaseEnd(i) PROVE Typed'
<1>1. Follows
  BY SameFollows DEF ReleaseEnd
<1>2. committed' \in [Paths -> Content]
  BY HasPath DEF ReleaseEnd, Commit, Typed, SessionsTyped, Content
<1>3. QED
  BY <1>1, <1>2, TypedStep DEF ReleaseEnd, Typed, StoresTyped, SessionsTyped

\* creat(2) in fusion_create, through the link if there is one.
LEMMA TypedCreat == ASSUME Typed, NEW i \in Procs, Creat(i) PROVE Typed'
<1> DEFINE n == Home[i]
           p == path[i]
<1> USE DEF Creat
<1>1. n \in Nodes /\ p \in Paths /\ {} \in Content
  BY HasPath, SystemAssumption DEF Content
<1>2. Rewrite(n, p, {})
  OBVIOUS
<1>3. queue' \in [Nodes -> SUBSET Paths]
  BY <1>1, InsqueTyped
<1>4. /\ ssd' \in [Nodes -> [Paths -> {None, Link} \cup Content]]
      /\ hdd' \in [Nodes -> [Paths -> {None} \cup Content]]
      /\ \A m \in Nodes, q \in Paths :
            /\ OnSsd(m, q) => OnSsd(m, q)'
            /\ hdd[m][q] # None => hdd'[m][q] # None
  BY <1>1, <1>2, RewriteTyped
<1>5. IF ssd[n][p] = Link THEN hdd'[n][p] = {} /\ ssd' = ssd
                          ELSE ssd'[n][p] = {} /\ hdd' = hdd
  BY <1>1, <1>2, RewriteTyped
<1>6. /\ FdTyped'
      /\ \A j \in Procs \ {i} : fd'[j] = fd[j]
      /\ fd'[i] = [at |-> IF ssd[n][p] = Link THEN "hdd" ELSE "ssd", data |-> {}]
  BY <1>1 DEF Typed, FdTyped
<1>7. StoresTyped'
  BY <1>3, <1>4 DEF Typed, StoresTyped
<1>8. SessionsTyped'
  BY GotoTyped DEF Typed, SessionsTyped, session, PCs
<1>9. ASSUME NEW j \in Procs
      PROVE  OpenedBy(j)'
  <2>1. /\ pc'[j] = IF j = i THEN "insert" ELSE pc[j]
        /\ path' = path /\ peer' = peer
    BY GotoTyped DEF Typed, session, PCs
  <2>2. CASE j = i
    <3>1. {} # None /\ {} # Link
      BY <1>1, ContentIsData
    <3>2. QED
      BY <1>1, <1>5, <1>6, <2>1, <2>2, <3>1 DEF Typed, Opened, OpenedBy, OnSsd, Closed
  <2>3. CASE j # i
    <3>1. OpenedBy(j) /\ Home[j] \in Nodes /\ (fd[j] # Closed => path[j] \in Paths)
      BY HasPath, SystemAssumption DEF Typed, Opened, OpenedBy
    <3>2. QED
      BY <1>4, <1>6, <2>1, <2>3, <3>1 DEF OpenedBy, Closed
  <2>4. QED
    BY <2>2, <2>3
<1>10. QED
  BY <1>6, <1>7, <1>8, <1>9 DEF Typed, Opened

\* zht_insert in fusion_create.
LEMMA TypedInsertCreated == ASSUME Typed, NEW i \in Procs, InsertCreated(i) PROVE Typed'
<1> USE DEF InsertCreated
<1>1. At(Home[i]) \in Entry
  BY SystemAssumption DEF At, Entry
<1>2. StoresTyped' /\ FdTyped'
  BY <1>1 DEF Typed, StoresTyped, FdTyped, stores
<1>3. SessionsTyped'
  BY GotoTyped DEF Typed, SessionsTyped, session, PCs
<1>4. ASSUME NEW j \in Procs
      PROVE  OpenedBy(j)'
  BY GotoTyped DEF Typed, Opened, OpenedBy, OnSsd, stores, session, PCs
<1>5. QED
  BY <1>2, <1>3, <1>4 DEF Typed, Opened

\* The first step of fusion_unlink.
LEMMA TypedUnlink == ASSUME Typed, NEW i \in Procs, fusion_unlink(i) PROVE Typed'
<1> USE DEF fusion_unlink
<1>1. Home[i] \in Nodes /\ path[i] \in Paths
  BY HasPath, SystemAssumption
<1>2. CASE EndSession(i) /\ UNCHANGED <<hdd, queue, fd, committed>>
  <2>1. Follows
    BY <1>2, SameFollows DEF stores
  <2>2. QED
    BY <1>2, <2>1, TypedStep DEF Typed, StoresTyped, SessionsTyped
<1>3. CASE /\ IF is_symlink_ssd(Home[i], path[i])
              THEN /\ hdd' = Set(hdd, Home[i], path[i], None)
                   /\ fd' = Orphan(Home[i], path[i], "hdd")
              ELSE UNCHANGED <<hdd, fd>>
           /\ queue' = rmelem(Home[i], path[i])
           /\ committed' = [committed EXCEPT ![path[i]] = {}]
           /\ Goto(i, "unlink")
           /\ UNCHANGED <<session, peer>>
  <2>1. Follows
    BY <1>1, <1>3, SameFollows, HddGoneFollows DEF stores
  <2>2. queue' \in [Nodes -> SUBSET Paths]
    BY <1>1, <1>3, InsqueTyped
  <2>3. committed' \in [Paths -> Content]
    BY <1>1, <1>3 DEF Typed, SessionsTyped, Content
  <2>4. QED
    BY <1>3, <2>1, <2>2, <2>3, TypedStep DEF Typed, StoresTyped, SessionsTyped, PCs
<1>4. QED
  BY <1>2, <1>3

\* The eviction loop of the three callbacks that have one.
LEMMA TypedEviction == ASSUME Typed, NEW i \in Procs, EvictionStep(i) PROVE Typed'
<1>1. PICK where \in {<<"evict_open", "link_open">>,
                      <<"evict_create", "link_create">>,
                      <<"evict_release", "link_release">>} :
         \/ move_file_ssd(i, where[1], where[2])
         \/ LinkVictim(i, where[2], where[1])
  BY DEF EvictionStep
<1>2. /\ where[1] \in PCs \ {"idle", "opened", "insert", "fetch"}
      /\ where[2] \in PCs \ {"idle", "opened", "insert", "fetch"}
  BY <1>1 DEF PCs
<1>3. QED
  BY <1>1, <1>2, TypedMoveFileSsd, TypedLinkVictim

-----------------------------------------------------------------------------
(*****************************************************************************)
(* The theorem.                                                              *)
(*****************************************************************************)
\* The initial states satisfy the invariant.
LEMMA InitTyped == Init => Typed
<1> SUFFICES ASSUME Init PROVE Typed
  OBVIOUS
<1> USE DEF Init
<1>1. StoresTyped
  BY DEF StoresTyped
<1>2. SessionsTyped
  BY DEF SessionsTyped, PCs, Content
<1>3. FdTyped
  BY DEF FdTyped, Closed, Content
<1>4. Opened
  BY DEF Opened, OpenedBy, Closed
<1>5. QED
  BY <1>1, <1>2, <1>3, <1>4 DEF Typed

\* Every step preserves it.
LEMMA NextTyped == Typed /\ [Next]_vars => Typed'
<1> SUFFICES ASSUME Typed, [Next]_vars PROVE Typed'
  OBVIOUS
<1>1. ASSUME NEW i \in Procs, NEW p \in Paths, NEW what \in Intents, Start(i, p, what)
      PROVE  Typed'
  BY <1>1, TypedStart
<1>2. ASSUME NEW i \in Procs, fusion_write(i) PROVE Typed'
  BY <1>2, TypedWrite
<1>3. ASSUME NEW i \in Procs, Step(i) PROVE Typed'
  BY <1>3, TypedGetattr, TypedRecvfile, TypedOpen, TypedUnlinkSymlink, TypedMoveToSsd,
     TypedOpenFd, TypedEviction, TypedRelease, TypedEntry, TypedRemove, TypedReleaseEnd,
     TypedCreat, TypedInsertCreated, TypedUnlink DEF Step
<1>4. CASE UNCHANGED vars
  BY <1>4 DEF vars, Typed, StoresTyped, SessionsTyped, FdTyped, Opened, OpenedBy, OnSsd
<1>5. QED
  BY <1>1, <1>2, <1>3, <1>4 DEF Next

\* Every state FusionFS reaches is well typed: in particular a lookup returns a
\* location, a descriptor is open exactly from fusion_create or fusion_open to
\* fusion_release, and what the queue holds are paths of the name space.
THEOREM TypeCorrect == Spec => []TypeOK
<1>1. Typed => TypeOK
  BY DEF Typed, StoresTyped, SessionsTyped, FdTyped, Opened, OpenedBy, TypeOK
<1>2. QED
  BY <1>1, InitTyped, NextTyped, PTL DEF Spec

-----------------------------------------------------------------------------
(*****************************************************************************)
(* Where a file is when applications take turns at changing it, readers come *)
(* and go, and no SSD fills up: the theorems about the placement of the run  *)
(* files, for any number of nodes, files, processes and writes.              *)
(*                                                                           *)
(* The argument. Of the sessions on a file at most one writes or removes it  *)
(* (OneChanger), so what that session learned from ZHT and from its transfer *)
(* stays true through its release or its unlink: WriterAt and RemoverAt say, *)
(* step by step, what it has established. Readers change nothing but the     *)
(* copy of their own node, and only where that copy is not the one ZHT names *)
(* (fusion_getattr fetches, fusion_release drops). So the copy ZHT names     *)
(* always holds what was released: FileInv. The three are inductive          *)
(* together, as Placed; each of the properties of FusionFS follows from it.  *)
(*                                                                           *)
(* Every step is shown to stay within Moves: it changes one file and one     *)
(* session, and a reader's step only on its own node. PlacedStep then leaves *)
(* two things to show of each step, SessionInv of its session and FileInv of *)
(* its file.                                                                 *)
(*****************************************************************************)

\* Sessions that write or remove a file take turns, a node runs one process,
\* and an SSD has room for every file, so that nothing is evicted.
Setting ==
    /\ Coordination = "writers"
    /\ \A i, j \in Procs : Home[i] = Home[j] => i = j
    /\ IsFiniteSet(Paths) /\ Cardinality(Paths) <= SsdLimit

-----------------------------------------------------------------------------
(*****************************************************************************)
(* The inductive invariant.                                                  *)
(*****************************************************************************)
\* Nothing has been moved to an HDD.
NoHdd ==
    /\ \A n \in Nodes, p \in Paths : ssd[n][p] # Link /\ hdd[n][p] = None
    /\ \A p \in Paths : zht[p] # None => ~zht[p].hdd

\* At most one session writes or removes a file: what Granted is for.
OneChanger ==
    \A i, j \in Procs :
        path[i] # None /\ path[i] = path[j] /\ Changes(intent[i]) /\ Changes(intent[j])
            => i = j

\* The copy on the SSD of n holds at least data.
Has(n, p, data) == ssd[n][p] # None /\ data \subseteq ssd[n][p]

\* ZHT does not know the file of the session and nothing of it was released.
Fresh(i) == zht[path[i]] = None /\ committed[path[i]] = {}

\* The copy of the session's node holds what was released and what the session
\* has written.
UpToDate(i) == Has(Home[i], path[i], committed[path[i]] \cup wrote[i])

\* The file of the session is in the queue of its node.
Queued(i) == path[i] \in queue[Home[i]]

\* ZHT does not name the session's node.
Elsewhere(i) == ~Locates(zht[path[i]], Home[i])

\* Nor does the location that the session remembers.
OldElsewhere(i) == ~Locates(peer[i], Home[i])

\* What a writing session has established, from its stat over fusion_open or
\* fusion_create to the end of fusion_release: the copy is up to date once it
\* was fetched and stays so; until zht_update begins the remembered location is
\* the current one, between its remove and its insert there is none, and
\* afterwards it is this node; the old copy that will be removed is not this
\* one.
WriterAt(i) ==
    /\ pc[i] = "fetch" => peer[i] = zht[path[i]]
    /\ pc[i] \in {"known", "open", "opened", "update", "update2", "rmold",
                  "evict_release"} => UpToDate(i)
    /\ pc[i] = "opened" => fd[i].at = "ssd"
    /\ pc[i] \in {"absent", "evict_create", "insert"} => Fresh(i)
    /\ pc[i] = "insert" => ssd[Home[i]][path[i]] # None /\ fd[i].at = "ssd"
    /\ pc[i] \in {"insert", "opened", "update", "update2"} => Queued(i)
    /\ pc[i] = "update" => peer[i] = zht[path[i]] /\ Elsewhere(i)
    /\ pc[i] = "update2" => zht[path[i]] = None
    /\ pc[i] \in {"rmold", "evict_release"} => zht[path[i]] = At(Home[i])
    /\ pc[i] \in {"update2", "rmold"} => OldElsewhere(i)

\* What a removing session has established: the location it remembers is
\* current until the entry goes, and then the file is gone from ZHT.
RemoverAt(i) ==
    /\ pc[i] \in {"unlink", "unlink2"} => committed[path[i]] = {}
    /\ pc[i] = "unlink2" => peer[i] = zht[path[i]]
    /\ pc[i] \in {"rmremote", "unlink3"} => Fresh(i)

\* Which steps belong to which intent; only a writer between its open and the
\* end of its release has writes to its name.
Phases(i) ==
    /\ pc[i] \in {"absent", "evict_create", "insert", "update", "update2", "rmold",
                  "evict_release"} => intent[i] = "write"
    /\ pc[i] \in {"unlink", "unlink2", "rmremote", "unlink3"} => intent[i] = "unlink"
    /\ pc[i] \in {"open", "opened"} => intent[i] \in {"read", "write"}
    /\ pc[i] = "drop" => intent[i] = "read"
    /\ pc[i] \notin {"evict_open", "swap", "link_open", "link_create", "link_release"}
    /\ ~(/\ intent[i] = "write"
         /\ pc[i] \in {"opened", "update", "update2", "rmold", "evict_release"})
          => wrote[i] = {}
    /\ peer[i] # None => ~peer[i].hdd

\* What every session has established. A reader needs one thing only: the copy
\* it fetches or drops is not the one ZHT names.
SessionInv(i) ==
    /\ Phases(i)
    /\ pc[i] \in {"fetch", "drop"} => Elsewhere(i)
    /\ intent[i] = "write" => WriterAt(i)
    /\ intent[i] = "unlink" => RemoverAt(i)

\* A session is between the first step of fusion_unlink and the removal of the
\* entry: the file is out of the queue while ZHT still names its copy.
BeingRemoved(p) ==
    \E i \in Procs : path[i] = p /\ intent[i] = "unlink" /\ pc[i] \in {"unlink", "unlink2"}

\* A writer is between the remove and the insert of zht_update.
BeingMoved(p) == \E i \in Procs : path[i] = p /\ pc[i] = "update2"

\* The copy ZHT names holds what was released and is queued there; a file ZHT
\* does not know was not released, or a writer is about to insert it.
FileInv(p) ==
    /\ zht[p] # None =>
          /\ Has(zht[p].node, p, committed[p])
          /\ p \in queue[zht[p].node] \/ BeingRemoved(p)
    /\ zht[p] = None => committed[p] = {} \/ BeingMoved(p)

\* The inductive invariant.
Placed ==
    /\ Typed
    /\ NoHdd
    /\ OneChanger
    /\ \A i \in Procs : SessionInv(i)
    /\ \A p \in Paths : FileInv(p)

-----------------------------------------------------------------------------
(*****************************************************************************)
(* What a step leaves alone.                                                 *)
(*****************************************************************************)
\* No SSD is ever full, so the eviction loop finds nothing to do.
LEMMA NeverFull == ASSUME Setting, NEW n \in Nodes PROVE ~ssd_is_full(n)
<1> DEFINE S == {p \in Paths : OnSsd(n, p)}
<1>1. S \subseteq Paths
  OBVIOUS
<1>2. Cardinality(S) \in Nat /\ Cardinality(Paths) \in Nat /\ Cardinality(S) <= Cardinality(Paths)
  BY <1>1, FS_Subset, FS_CardinalityType DEF Setting
<1>3. QED
  BY <1>2, SystemAssumption DEF Setting, ssd_is_full

\* What a step of a session of i on p leaves alone.
Moves(i, p) ==
    /\ path[i] = p
    /\ OnlySession(i)
    /\ path'[i] = None \/ (path'[i] = p /\ intent'[i] = intent[i])
    /\ \A q \in Paths \ {p} :
          /\ zht'[q] = zht[q] /\ committed'[q] = committed[q]
          /\ \A m \in Nodes : ssd'[m][q] = ssd[m][q] /\ (q \in queue'[m] <=> q \in queue[m])
    /\ zht'[p] \in {zht[p], None, At(Home[i])}
    /\ ~Changes(intent[i]) =>
          /\ zht'[p] = zht[p] /\ committed'[p] = committed[p]
          /\ \A m \in Nodes \ {Home[i]} :
                ssd'[m][p] = ssd[m][p] /\ (p \in queue'[m] <=> p \in queue[m])
    /\ \A j \in Procs \ {i} : path[j] # p \/ ~Changes(intent[i]) => fd'[j] = fd[j]

\* A session keeps what it has established while another one takes a step: by
\* OneChanger, one of the two does not change the file.
LEMMA OthersKept ==
    ASSUME Setting, Typed, OneChanger, NEW i \in Procs, NEW p \in Paths, Moves(i, p),
           NEW j \in Procs \ {i}, SessionInv(j)
    PROVE  SessionInv(j)'
<1>1. /\ pc'[j] = pc[j] /\ path'[j] = path[j] /\ intent'[j] = intent[j]
      /\ peer'[j] = peer[j] /\ wrote'[j] = wrote[j]
  BY DEF Moves, OnlySession
<1>2. Home[j] \in Nodes /\ Home[i] \in Nodes /\ Home[i] # Home[j]
  BY SystemAssumption DEF Setting
<1>3. Phases(j)'
  BY <1>1 DEF SessionInv, Phases
<1>4. CASE path[j] \notin Paths
  <2>1. pc[j] = "idle"
    BY <1>4, HasPath
  <2>2. QED
    BY <1>1, <1>3, <2>1 DEF SessionInv, WriterAt, RemoverAt
<1>5. CASE path[j] \in Paths \ {p}
  <2>1. /\ zht'[path[j]] = zht[path[j]] /\ committed'[path[j]] = committed[path[j]]
        /\ ssd'[Home[j]][path[j]] = ssd[Home[j]][path[j]]
        /\ path[j] \in queue'[Home[j]] <=> path[j] \in queue[Home[j]]
        /\ fd'[j] = fd[j]
    BY <1>2, <1>5 DEF Moves
  <2>2. QED
    BY <1>1, <1>3, <2>1 DEF SessionInv, WriterAt, RemoverAt, Fresh, UpToDate, Has, Queued,
                            Elsewhere, OldElsewhere
<1>6. CASE path[j] = p /\ Changes(intent[i])
  <2>1. ~Changes(intent[j])
    BY <1>6, SystemAssumption DEF Moves, OneChanger
  <2>2. Elsewhere(j) => Elsewhere(j)'
    BY <1>1, <1>2, <1>6 DEF Moves, Elsewhere, Locates, At
  <2>3. QED
    BY <1>1, <1>3, <2>1, <2>2 DEF SessionInv, Changes
<1>7. CASE path[j] = p /\ ~Changes(intent[i])
  <2>1. /\ zht'[p] = zht[p] /\ committed'[p] = committed[p]
        /\ ssd'[Home[j]][p] = ssd[Home[j]][p]
        /\ p \in queue'[Home[j]] <=> p \in queue[Home[j]]
        /\ fd'[j] = fd[j]
    BY <1>2, <1>7 DEF Moves
  <2>2. QED
    BY <1>1, <1>3, <1>7, <2>1 DEF SessionInv, WriterAt, RemoverAt, Fresh, UpToDate, Has,
                                  Queued, Elsewhere, OldElsewhere
<1>8. QED
  BY <1>4, <1>5, <1>6, <1>7

\* The other files are as they were.
LEMMA FilesKept ==
    ASSUME Typed, NEW i \in Procs, NEW p \in Paths, Moves(i, p),
           NEW q \in Paths \ {p}, FileInv(q)
    PROVE  FileInv(q)'
<1>1. /\ zht'[q] = zht[q] /\ committed'[q] = committed[q]
      /\ \A m \in Nodes : ssd'[m][q] = ssd[m][q] /\ (q \in queue'[m] <=> q \in queue[m])
  BY DEF Moves
<1>2. zht[q] # None => zht[q].node \in Nodes
  BY DEF Typed, StoresTyped, Entry
<1>3. \A j \in Procs : path[j] = q =>
         pc'[j] = pc[j] /\ path'[j] = path[j] /\ intent'[j] = intent[j]
  BY DEF Moves, OnlySession
<1>4. (BeingRemoved(q) => BeingRemoved(q)') /\ (BeingMoved(q) => BeingMoved(q)')
  BY <1>3 DEF BeingRemoved, BeingMoved
<1>5. QED
  BY <1>1, <1>2, <1>4 DEF FileInv, Has

\* No step but Start adds a session.
LEMMA ChangersKept ==
    ASSUME Typed, OneChanger, NEW i \in Procs, NEW p \in Paths, Moves(i, p)
    PROVE  OneChanger'
<1>1. \A j \in Procs : path'[j] # None => path'[j] = path[j] /\ intent'[j] = intent[j]
  BY DEF Moves, OnlySession
<1>2. QED
  BY <1>1 DEF OneChanger, Changes

\* What is left to show of a step.
LEMMA PlacedStep ==
    ASSUME Setting, Placed, NEW i \in Procs, NEW p \in Paths, Moves(i, p),
           Typed', NoHdd', SessionInv(i)', FileInv(p)'
    PROVE  Placed'
<1>1. Typed /\ OneChanger
  BY DEF Placed
<1>2. \A j \in Procs : SessionInv(j)'
  BY <1>1, OthersKept DEF Placed
<1>3. ASSUME NEW q \in Paths PROVE FileInv(q)'
  <2>1. CASE q = p
    BY <2>1
  <2>2. CASE q # p
    BY <1>1, <2>2, FilesKept DEF Placed
  <2>3. QED
    BY <2>1, <2>2
<1>4. OneChanger'
  BY <1>1, ChangersKept
<1>5. QED
  BY <1>2, <1>3, <1>4 DEF Placed

\* A session that ended has nothing to keep.
LEMMA EndedInv ==
    ASSUME NEW i \in Procs, pc'[i] = "idle", wrote'[i] = {}, peer'[i] = None
    PROVE  SessionInv(i)'
BY DEF SessionInv, Phases, WriterAt, RemoverAt

\* A step that changes neither the entry of its file nor the copy it names.
LEMMA FileKept ==
    ASSUME Typed, NEW i \in Procs, NEW p \in Paths, Moves(i, p), FileInv(p),
           zht'[p] = zht[p], committed'[p] = committed[p],
           pc[i] \notin {"unlink", "unlink2", "update2"},
           zht[p] # None =>
              /\ ssd[zht[p].node][p] # None =>
                    /\ ssd'[zht[p].node][p] # None
                    /\ ssd[zht[p].node][p] \subseteq ssd'[zht[p].node][p]
              /\ p \in queue[zht[p].node] => p \in queue'[zht[p].node]
    PROVE  FileInv(p)'
<1>1. \A j \in Procs \ {i} :
         pc'[j] = pc[j] /\ path'[j] = path[j] /\ intent'[j] = intent[j]
  BY DEF Moves, OnlySession
<1>2. (BeingRemoved(p) => BeingRemoved(p)') /\ (BeingMoved(p) => BeingMoved(p)')
  BY <1>1 DEF BeingRemoved, BeingMoved
<1>3. QED
  BY <1>2 DEF FileInv, Has

-----------------------------------------------------------------------------
(*****************************************************************************)
(* One lemma per step of a callback.                                         *)
(*****************************************************************************)
\* A session begins when Granted lets it: it has no work done, so only
\* OneChanger is at stake.
LEMMA PlacedStart ==
    ASSUME Setting, Placed, NEW i \in Procs, NEW p \in Paths, NEW what \in Intents,
           Start(i, p, what), Typed'
    PROVE  Placed'
<1> USE DEF Start
<1>1. /\ pc[i] = "idle" /\ pc'[i] = "getattr" /\ path'[i] = p /\ intent'[i] = what
      /\ \A j \in Procs \ {i} :
            pc'[j] = pc[j] /\ path'[j] = path[j] /\ intent'[j] = intent[j]
      /\ UNCHANGED <<zht, ssd, hdd, queue, peer, fd, wrote, committed>>
  BY DEF Placed, Typed, SessionsTyped, Goto, PCs, stores
<1>2. NoHdd'
  BY <1>1 DEF Placed, NoHdd
<1>3. OneChanger'
  <2>1. Changes(what) => \A j \in Procs : path[j] = p => ~Changes(intent[j])
    BY DEF Granted, Setting
  <2>2. QED
    BY <1>1, <2>1 DEF Placed, OneChanger, Changes
<1>4. ASSUME NEW j \in Procs PROVE SessionInv(j)'
  <2>1. CASE j = i
    BY <1>1, <2>1 DEF Placed, SessionInv, Phases, WriterAt, RemoverAt
  <2>2. CASE j # i
    <3>1. pc'[j] = pc[j] /\ path'[j] = path[j] /\ intent'[j] = intent[j]
      BY <1>1, <2>2
    <3>2. SessionInv(j)
      BY DEF Placed
    <3>3. QED
      BY <1>1, <3>1, <3>2 DEF SessionInv, Phases, WriterAt, RemoverAt, Fresh, UpToDate, Has,
                              Queued, Elsewhere, OldElsewhere
  <2>3. QED
    BY <2>1, <2>2
<1>5. ASSUME NEW q \in Paths PROVE FileInv(q)'
  <2>1. (BeingRemoved(q) => BeingRemoved(q)') /\ (BeingMoved(q) => BeingMoved(q)')
    BY <1>1 DEF BeingRemoved, BeingMoved
  <2>2. QED
    BY <1>1, <2>1 DEF Placed, FileInv, Has
<1>6. QED
  BY <1>2, <1>3, <1>4, <1>5 DEF Placed

\* What the session of i on p knows when it is not the one that moves the file.
LEMMA SoleChanger ==
    ASSUME Placed, NEW i \in Procs, NEW p \in Paths, path[i] = p, Changes(intent[i]),
           pc[i] # "update2", zht[p] = None
    PROVE  committed[p] = {}
<1>1. SUFFICES ASSUME BeingMoved(p) PROVE FALSE
  BY DEF Placed, FileInv
<1>2. PICK j \in Procs : path[j] = p /\ pc[j] = "update2"
  BY <1>1 DEF BeingMoved
<1>3. Changes(intent[j])
  BY <1>2 DEF Placed, SessionInv, Phases, Changes
<1>4. QED
  BY <1>2, <1>3, SystemAssumption DEF Placed, OneChanger

\* The lookup of fusion_getattr: without a transfer the copy here is the one
\* ZHT names; with one, this node is not the location.
LEMMA PlacedGetattr ==
    ASSUME Setting, Placed, NEW i \in Procs, NEW p \in Paths, path[i] = p,
           fusion_getattr(i), Typed'
    PROVE  Placed'
<1> DEFINE n == Home[i]
<1> USE DEF fusion_getattr
<1>1. /\ n \in Nodes /\ SessionInv(i) /\ FileInv(p) /\ NoHdd /\ Typed
      /\ UNCHANGED <<zht, ssd, hdd, queue, fd, committed>>
  BY SystemAssumption DEF Placed, stores
<1>2. NoHdd'
  BY <1>1 DEF NoHdd
<1>3. CASE NoTransfer(n, p) /\ Lstat(i, Found(n, p))
  <2>1. Moves(i, p)
    BY <1>1, <1>3, LstatTyped DEF Moves, Typed, Found
  <2>2. FileInv(p)'
    BY <1>1, <2>1, FileKept
  <2>3. SessionInv(i)'
    <3>1. CASE pc'[i] = "idle"
      BY <1>1, <1>3, <3>1, LstatTyped, EndedInv DEF Typed, Found
    <3>2. CASE pc'[i] = "known" /\ Found(n, p) = "file"
      <4>1. /\ path'[i] = p /\ intent'[i] = intent[i] /\ wrote'[i] = wrote[i]
            /\ peer'[i] = None /\ wrote[i] = {}
        BY <1>1, <1>3, <3>2, LstatTyped, SystemAssumption DEF Typed, SessionInv, Phases
      <4>2. ssd[n][p] # None
        BY <1>1, <3>2 DEF Found, Present, OnSsd, NoHdd, is_symlink_ssd
      <4>3. intent[i] = "write" => committed[p] \subseteq ssd[n][p]
        BY <1>1, <1>3, SoleChanger DEF NoTransfer, Changes, Locates, FileInv, Has
      <4>4. QED
        BY <1>1, <3>2, <4>1, <4>2, <4>3
           DEF SessionInv, Phases, WriterAt, RemoverAt, UpToDate, Has
    <3>3. CASE pc'[i] = "known" /\ Found(n, p) = "link"
      BY <1>1, <3>3 DEF Found, NoHdd, Present, OnSsd
    <3>4. CASE pc'[i] = "absent" /\ Found(n, p) = "none"
      <4>1. /\ path'[i] = p /\ intent'[i] = intent[i] /\ intent[i] = "write"
            /\ wrote'[i] = wrote[i] /\ peer'[i] = None /\ wrote[i] = {}
        BY <1>1, <1>3, <3>4, LstatTyped, SystemAssumption DEF Typed, SessionInv, Phases, Found
      <4>2. zht[p] = None
        BY <1>3, <3>4 DEF NoTransfer, Found
      <4>3. committed[p] = {}
        BY <4>1, <4>2, SoleChanger DEF Changes
      <4>4. QED
        BY <1>1, <3>4, <4>1, <4>2, <4>3
           DEF SessionInv, Phases, WriterAt, RemoverAt, Fresh
    <3>5. QED
      BY <1>1, <1>3, <3>1, <3>2, <3>3, <3>4, LstatTyped DEF Typed, Found
  <2>4. QED
    BY <1>2, <2>1, <2>2, <2>3, PlacedStep
<1>4. CASE ~NoTransfer(n, p) /\ peer' = [peer EXCEPT ![i] = zht[p]]
           /\ Goto(i, "fetch") /\ UNCHANGED session
  <2>1. peer'[i] = zht[p] /\ \A j \in Procs \ {i} : peer'[j] = peer[j]
    BY <1>1, <1>4 DEF Typed, SessionsTyped
  <2>2. /\ OnlySession(i) /\ pc'[i] = "fetch" /\ path' = path /\ intent' = intent /\ wrote' = wrote
    BY <1>1, <1>4, <2>1, StaysInSession DEF Typed, PCs
  <2>3. Moves(i, p)
    BY <1>1, <2>2 DEF Moves
  <2>4. FileInv(p)'
    BY <1>1, <2>3, FileKept
  <2>5. ~Locates(zht[p], n)
    BY <1>1, <1>4 DEF NoTransfer, Locates, FileInv, Has, Present, OnSsd, NoHdd
  <2>6. SessionInv(i)'
    BY <1>1, <2>1, <2>2, <2>5
       DEF SessionInv, Phases, WriterAt, RemoverAt, NoHdd, Elsewhere
  <2>7. QED
    BY <1>2, <2>3, <2>4, <2>6, PlacedStep
<1>5. QED
  BY <1>3, <1>4

\* The transfer of fusion_getattr: the copy of a node that is not the location
\* is replaced by the location's, which is up to date.
LEMMA PlacedRecvfile ==
    ASSUME Setting, Placed, NEW i \in Procs, NEW p \in Paths, path[i] = p,
           ffs_recvfile(i), Typed'
    PROVE  Placed'
<1> DEFINE n == Home[i]
           data == IF peer[i].hdd THEN hdd[peer[i].node][p] ELSE Data(peer[i].node, p)
<1> USE DEF ffs_recvfile
<1>1. /\ n \in Nodes /\ SessionInv(i) /\ FileInv(p) /\ NoHdd /\ Typed /\ pc[i] = "fetch"
      /\ UNCHANGED <<zht, queue, fd, committed>>
  BY SystemAssumption DEF Placed
<1>2. peer[i] \in Entry /\ ~peer[i].hdd /\ ~Locates(zht[p], n) /\ wrote[i] = {}
  BY <1>1, SystemAssumption
     DEF Typed, SessionsTyped, Opened, OpenedBy, SessionInv, Phases, Elsewhere
<1>3. data = ssd[peer[i].node][p] /\ peer[i].node \in Nodes
  BY <1>1, <1>2 DEF Data, NoHdd, Entry
<1>4. \E found \in {"none", "file", "link"} : Lstat(i, found)
  BY DEF Found
<1>5. OnlySession(i) /\ (path'[i] = None \/ (path'[i] = p /\ intent'[i] = intent[i]))
  BY <1>1, <1>4, LstatTyped DEF Typed
<1>6. CASE data # None /\ Rewrite(n, p, data) /\ Lstat(i, "file")
  <2>1. data \in Content
    BY <1>1, <1>3, <1>6 DEF Typed, StoresTyped, NoHdd
  <2>2. /\ hdd' = hdd /\ ssd'[n][p] = data
        /\ \A m \in Nodes, q \in Paths : m # n \/ q # p => ssd'[m][q] = ssd[m][q]
    BY <1>1, <1>6, <2>1, RewriteTyped DEF NoHdd
  <2>3. NoHdd'
    BY <1>1, <2>1, <2>2, ContentIsData DEF NoHdd
  <2>4. Moves(i, p)
    BY <1>1, <1>5, <2>2 DEF Moves
  <2>5. FileInv(p)'
    <3>1. zht[p] # None => zht[p].node \in Nodes \ {n}
      BY <1>1, <1>2 DEF Locates, Typed, StoresTyped, Entry
    <3>2. QED
      BY <1>1, <2>2, <2>4, <3>1, FileKept
  <2>6. SessionInv(i)'
    <3>1. CASE pc'[i] = "idle"
      BY <1>1, <1>6, <3>1, LstatTyped, EndedInv DEF Typed
    <3>2. CASE pc'[i] = "known"
      <4>1. /\ path'[i] = p /\ intent'[i] = intent[i] /\ wrote'[i] = {} /\ peer'[i] = None
        BY <1>1, <1>2, <1>6, <3>2, LstatTyped, SystemAssumption DEF Typed
      <4>2. data # None
        BY <2>1, ContentIsData
      <4>3. intent[i] = "write" => committed[p] \subseteq data
        BY <1>1, <1>2, <1>3, SystemAssumption DEF SessionInv, WriterAt, FileInv, Has, Entry
      <4>4. QED
        BY <1>1, <2>2, <3>2, <4>1, <4>2, <4>3
           DEF SessionInv, Phases, WriterAt, RemoverAt, UpToDate, Has
    <3>3. QED
      BY <1>1, <1>6, <3>1, <3>2, LstatTyped DEF Typed
  <2>7. QED
    BY <2>3, <2>4, <2>5, <2>6, PlacedStep
<1>7. CASE data = None /\ Lstat(i, Found(n, p)) /\ UNCHANGED stores
  <2>1. NoHdd'
    BY <1>1, <1>7 DEF NoHdd, stores
  <2>2. Moves(i, p)
    BY <1>1, <1>5, <1>7 DEF Moves, stores
  <2>3. FileInv(p)'
    BY <1>1, <1>7, <2>2, FileKept DEF stores
  <2>4. intent[i] # "write"
    BY <1>1, <1>2, <1>3, <1>7, SystemAssumption DEF SessionInv, WriterAt, FileInv, Has, Entry
  <2>5. SessionInv(i)'
    <3>1. CASE pc'[i] = "idle"
      BY <1>1, <1>4, <3>1, LstatTyped, EndedInv DEF Typed
    <3>2. CASE pc'[i] = "known"
      <4>1. /\ path'[i] = p /\ intent'[i] = intent[i] /\ wrote'[i] = {} /\ peer'[i] = None
        BY <1>1, <1>2, <1>4, <3>2, LstatTyped, SystemAssumption DEF Typed
      <4>2. QED
        BY <1>1, <2>4, <3>2, <4>1 DEF SessionInv, Phases, RemoverAt
    <3>3. QED
      BY <1>1, <1>4, <2>4, <3>1, <3>2, LstatTyped DEF Typed
  <2>6. QED
    BY <2>1, <2>2, <2>3, <2>5, PlacedStep
<1>8. QED
  BY <1>6, <1>7

\* fusion_open and fusion_create begin.
LEMMA PlacedOpen ==
    ASSUME Setting, Placed, NEW i \in Procs, NEW p \in Paths, path[i] = p,
           fusion_open(i) \/ fusion_create(i), Typed'
    PROVE  Placed'
<1>1. /\ SessionInv(i) /\ FileInv(p) /\ NoHdd /\ Typed
      /\ UNCHANGED <<zht, ssd, hdd, queue, fd, peer, session, committed>>
      /\ Home[i] \in Nodes
  BY SystemAssumption DEF Placed, stores, fusion_open, fusion_create
<1>2. \/ pc[i] = "known" /\ intent[i] \in {"read", "write"} /\ Goto(i, "open")
      \/ pc[i] = "absent" /\ Goto(i, "evict_create")
  BY <1>1 DEF fusion_open, fusion_create, is_symlink_ssd, NoHdd
<1>3. /\ OnlySession(i) /\ path' = path /\ intent' = intent /\ wrote' = wrote
      /\ \/ pc[i] = "known" /\ intent[i] \in {"read", "write"} /\ pc'[i] = "open"
         \/ pc[i] = "absent" /\ pc'[i] = "evict_create"
  BY <1>1, <1>2, StaysInSession DEF Typed, PCs
<1>4. NoHdd' /\ Moves(i, p)
  BY <1>1, <1>3 DEF NoHdd, Moves
<1>5. FileInv(p)'
  BY <1>1, <1>3, <1>4, FileKept
<1>6. SessionInv(i)'
  BY <1>1, <1>3 DEF SessionInv, Phases, WriterAt, RemoverAt, UpToDate, Has, Fresh
<1>7. QED
  BY <1>4, <1>5, <1>6, PlacedStep

\* fusion_open opens the copy and queues the file.
LEMMA PlacedOpenFd ==
    ASSUME Setting, Placed, NEW i \in Procs, NEW p \in Paths, path[i] = p, OpenFd(i), Typed'
    PROVE  Placed'
<1> DEFINE n == Home[i]
<1> USE DEF OpenFd
<1>1. /\ n \in Nodes /\ SessionInv(i) /\ FileInv(p) /\ NoHdd /\ Typed /\ pc[i] = "open"
      /\ UNCHANGED <<zht, ssd, hdd, committed>>
  BY SystemAssumption DEF Placed, stores
<1>2. \A m \in Nodes : queue'[m] = IF m = n THEN queue[m] \cup {p} ELSE queue[m]
  <2>1. queue' = insque(n, p)
    OBVIOUS
  <2>2. QED
    BY <1>1, <2>1 DEF Typed, StoresTyped, insque
<1>3. \A m \in Nodes :
         /\ \A q \in Paths \ {p} : q \in queue'[m] <=> q \in queue[m]
         /\ m # n => (p \in queue'[m] <=> p \in queue[m])
  BY <1>2
<1>4. NoHdd'
  BY <1>1 DEF NoHdd
<1>5. CASE /\ Present(n, p)
           /\ fd' = [fd EXCEPT ![i] = [at |-> IF OnSsd(n, p) THEN "ssd" ELSE "hdd",
                                       data |-> {}]]
           /\ Goto(i, "opened") /\ UNCHANGED <<session, peer>>
  <2>1. /\ OnlySession(i) /\ pc'[i] = "opened" /\ path' = path /\ intent' = intent
        /\ wrote' = wrote /\ peer' = peer
    BY <1>1, <1>5, StaysInSession DEF Typed, PCs
  <2>2. fd'[i].at = "ssd" /\ \A j \in Procs \ {i} : fd'[j] = fd[j]
    BY <1>1, <1>5 DEF Typed, FdTyped, Present, is_symlink_ssd, NoHdd
  <2>3. Moves(i, p)
    BY <1>1, <1>3, <2>1, <2>2 DEF Moves
  <2>4. FileInv(p)'
    BY <1>1, <1>2, <2>3, FileKept DEF Typed, StoresTyped, Entry
  <2>5. SessionInv(i)'
    BY <1>1, <1>2, <2>1, <2>2
       DEF SessionInv, Phases, WriterAt, RemoverAt, UpToDate, Has, Queued
  <2>6. QED
    BY <1>4, <2>3, <2>4, <2>5, PlacedStep
<1>6. CASE ~Present(n, p) /\ EndSession(i) /\ UNCHANGED fd
  <2>1. OnlySession(i) /\ path'[i] = None
    BY <1>1, <1>6, EndSessionTyped DEF Typed
  <2>2. Moves(i, p)
    BY <1>1, <1>3, <1>6, <2>1 DEF Moves
  <2>3. FileInv(p)'
    BY <1>1, <1>2, <2>2, FileKept DEF Typed, StoresTyped, Entry
  <2>4. SessionInv(i)'
    BY <1>1, <1>6, EndSessionTyped, EndedInv DEF Typed
  <2>5. QED
    BY <1>4, <2>3, <2>4, <2>2, PlacedStep
<1>7. QED
  BY <1>5, <1>6

\* fusion_write adds to the copy of the writer's node.
LEMMA PlacedWrite ==
    ASSUME Setting, Placed, NEW i \in Procs, NEW p \in Paths, path[i] = p, fusion_write(i), Typed'
    PROVE  Placed'
<1> DEFINE n == Home[i]
<1>1. /\ n \in Nodes /\ SessionInv(i) /\ FileInv(p) /\ NoHdd /\ Typed /\ pc[i] = "opened"
      /\ UNCHANGED <<zht, queue, committed, pc, path, intent, peer, wanted>>
      /\ intent[i] = "write"
  BY SystemAssumption DEF Placed, fusion_write
<1>2. fd[i].at = "ssd" /\ UpToDate(i) /\ Queued(i)
  BY <1>1 DEF SessionInv, WriterAt
<1>3. PICK w \in Writes :
          /\ wrote' = [wrote EXCEPT ![i] = @ \cup {w}]
          /\ ssd' = Set(ssd, n, p, ssd[n][p] \cup {w}) /\ UNCHANGED <<hdd, fd>>
  BY <1>2 DEF fusion_write
<1>4. ssd[n][p] \cup {w} \in Content
  BY <1>1, <1>2 DEF Typed, StoresTyped, Content, UpToDate, Has, NoHdd
<1>5. /\ ssd'[n][p] = ssd[n][p] \cup {w}
      /\ \A m \in Nodes, q \in Paths : m # n \/ q # p => ssd'[m][q] = ssd[m][q]
  BY <1>1, <1>3 DEF Typed, StoresTyped, Set
<1>6. wrote'[i] = wrote[i] \cup {w} /\ \A j \in Procs \ {i} : wrote'[j] = wrote[j]
  BY <1>1, <1>3 DEF Typed, SessionsTyped
<1>7. NoHdd'
  <2>1. ssd'[n][p] # Link
    BY <1>4, <1>5, ContentIsData
  <2>2. \A m \in Nodes, q \in Paths : ssd'[m][q] # Link
    BY <1>1, <1>5, <2>1 DEF NoHdd
  <2>3. QED
    BY <1>1, <1>3, <2>2 DEF NoHdd
<1>8. OnlySession(i)
  BY <1>1, <1>6 DEF OnlySession, Typed, SessionsTyped
<1>9. Moves(i, p)
  BY <1>1, <1>3, <1>5, <1>8 DEF Moves, Changes
<1>10. FileInv(p)'
  <2>1. ssd'[n][p] # None
    BY <1>4, <1>5, ContentIsData
  <2>2. \A m \in Nodes : ssd[m][p] # None =>
           ssd'[m][p] # None /\ ssd[m][p] \subseteq ssd'[m][p]
    BY <1>1, <1>5, <2>1
  <2>3. zht[p] # None => zht[p].node \in Nodes
    BY <1>1 DEF Typed, StoresTyped, Entry
  <2>4. QED
    BY <1>1, <1>9, <2>2, <2>3, FileKept
<1>11. SessionInv(i)'
  <2>1. UpToDate(i)'
    BY <1>1, <1>2, <1>4, <1>5, <1>6, ContentIsData DEF UpToDate, Has
  <2>2. QED
    BY <1>1, <1>2, <1>3, <2>1 DEF SessionInv, Phases, WriterAt, RemoverAt, Queued
<1>12. QED
  BY <1>7, <1>9, <1>10, <1>11, PlacedStep

\* fusion_release: at the location the writes are released at once, elsewhere a
\* writer goes on to take the file over.
LEMMA PlacedRelease ==
    ASSUME Setting, Placed, NEW i \in Procs, NEW p \in Paths, path[i] = p,
           fusion_release(i), Typed'
    PROVE  Placed'
<1> DEFINE n == Home[i]
<1> USE DEF fusion_release
<1>1. /\ n \in Nodes /\ SessionInv(i) /\ FileInv(p) /\ NoHdd /\ Typed /\ pc[i] = "opened"
      /\ UNCHANGED <<zht, ssd, hdd, queue>>
  BY SystemAssumption DEF Placed, stores
<1>2. \A j \in Procs \ {i} : fd'[j] = fd[j]
  BY <1>1 DEF Typed, FdTyped, ClosedFd
<1>3. NoHdd'
  BY <1>1 DEF NoHdd
<1>4. CASE IsLocal(n, p) /\ Commit(i) /\ EndSession(i)
  <2>1. /\ committed'[p] = committed[p] \cup wrote[i]
        /\ \A q \in Paths \ {p} : committed'[q] = committed[q]
    BY <1>1, <1>4 DEF Commit, Typed, SessionsTyped
  <2>2. ~Changes(intent[i]) => wrote[i] = {}
    BY <1>1 DEF SessionInv, Phases, Changes
  <2>3. Moves(i, p)
    BY <1>1, <1>2, <1>4, <2>1, <2>2, EndSessionTyped DEF Moves, Typed
  <2>4. FileInv(p)'
    <3>1. \A j \in Procs \ {i} :
             pc'[j] = pc[j] /\ path'[j] = path[j] /\ intent'[j] = intent[j]
      BY <2>3 DEF Moves, OnlySession
    <3>2. BeingRemoved(p) => BeingRemoved(p)'
      BY <1>1, <3>1 DEF BeingRemoved
    <3>3. zht[p] # None /\ zht[p].node = n
      BY <1>4 DEF IsLocal, Locates
    <3>4. Has(n, p, committed[p] \cup wrote[i])
      BY <1>1, <2>2, <3>3 DEF SessionInv, Phases, WriterAt, UpToDate, FileInv, Has
    <3>5. QED
      BY <1>1, <2>1, <3>2, <3>3, <3>4 DEF FileInv, Has
  <2>5. SessionInv(i)'
    BY <1>1, <1>4, EndSessionTyped, EndedInv DEF Typed
  <2>6. QED
    BY <1>3, <2>3, <2>4, <2>5, PlacedStep
<1>5. CASE /\ ~IsLocal(n, p) /\ peer' = [peer EXCEPT ![i] = zht[p]]
           /\ Goto(i, IF intent[i] = "write" THEN "update" ELSE "drop")
           /\ UNCHANGED <<session, committed>>
  <2>1. peer'[i] = zht[p] /\ \A j \in Procs \ {i} : peer'[j] = peer[j]
    BY <1>1, <1>5 DEF Typed, SessionsTyped
  <2>2. /\ OnlySession(i) /\ path' = path /\ intent' = intent /\ wrote' = wrote
        /\ pc'[i] = IF intent[i] = "write" THEN "update" ELSE "drop"
    BY <1>1, <1>5, <2>1, StaysInSession DEF Typed, PCs
  <2>3. Moves(i, p)
    BY <1>1, <1>2, <1>5, <2>2 DEF Moves
  <2>4. FileInv(p)'
    BY <1>1, <1>5, <2>3, FileKept
  <2>5. SessionInv(i)'
    BY <1>1, <1>5, <2>1, <2>2
       DEF SessionInv, Phases, WriterAt, RemoverAt, UpToDate, Has, Queued, Elsewhere,
           IsLocal, NoHdd
  <2>6. QED
    BY <1>3, <2>3, <2>4, <2>5, PlacedStep
<1>6. QED
  BY <1>4, <1>5

\* The remove of zht_update: for a moment ZHT does not know the file.
LEMMA PlacedZhtRemove ==
    ASSUME Setting, Placed, NEW i \in Procs, NEW p \in Paths, path[i] = p, zht_remove(i), Typed'
    PROVE  Placed'
<1>1. /\ Home[i] \in Nodes /\ SessionInv(i) /\ FileInv(p) /\ NoHdd /\ Typed /\ pc[i] = "update"
      /\ UNCHANGED <<ssd, hdd, queue, fd, peer, session, committed>>
      /\ Goto(i, "update2")
  BY SystemAssumption DEF Placed, stores, zht_remove
<1>2. zht'[p] = None /\ \A q \in Paths \ {p} : zht'[q] = zht[q]
  BY <1>1 DEF zht_remove, Typed, StoresTyped
<1>3. /\ OnlySession(i) /\ pc'[i] = "update2" /\ path' = path /\ intent' = intent /\ wrote' = wrote
  BY <1>1, StaysInSession DEF Typed, PCs
<1>4. intent[i] = "write" /\ WriterAt(i)
  BY <1>1 DEF SessionInv, Phases
<1>5. NoHdd'
  BY <1>1, <1>2 DEF NoHdd
<1>6. Moves(i, p)
  BY <1>1, <1>2, <1>3, <1>4 DEF Moves, Changes
<1>7. FileInv(p)'
  BY <1>2, <1>3 DEF FileInv, BeingMoved
<1>8. SessionInv(i)'
  BY <1>1, <1>2, <1>3, <1>4
     DEF SessionInv, Phases, WriterAt, RemoverAt, UpToDate, Has, Queued, Elsewhere, OldElsewhere
<1>9. QED
  BY <1>5, <1>6, <1>7, <1>8, PlacedStep

\* The insert of zht_update and of fusion_create: this node becomes the
\* location, and its copy is up to date.
LEMMA PlacedZhtInsert ==
    ASSUME Setting, Placed, NEW i \in Procs, NEW p \in Paths, path[i] = p,
           zht_insert(i) \/ InsertCreated(i), Typed'
    PROVE  Placed'
<1> DEFINE n == Home[i]
<1>1. /\ n \in Nodes /\ SessionInv(i) /\ FileInv(p) /\ NoHdd /\ Typed
      /\ UNCHANGED <<ssd, hdd, queue, fd, peer, session, committed>>
      /\ \/ pc[i] = "update2" /\ Goto(i, "rmold")
         \/ pc[i] = "insert" /\ Goto(i, "opened")
  BY SystemAssumption DEF Placed, stores, zht_insert, InsertCreated
<1>2. zht'[p] = At(n) /\ \A q \in Paths \ {p} : zht'[q] = zht[q]
  BY <1>1 DEF zht_insert, InsertCreated, Typed, StoresTyped
<1>3. At(n) # None /\ At(n).node = n /\ ~At(n).hdd
  BY <1>1, AtEntry
<1>4. /\ OnlySession(i) /\ path' = path /\ intent' = intent /\ wrote' = wrote
      /\ \/ pc[i] = "update2" /\ pc'[i] = "rmold"
         \/ pc[i] = "insert" /\ pc'[i] = "opened"
  BY <1>1, StaysInSession DEF Typed, PCs
<1>5. intent[i] = "write" /\ WriterAt(i)
  BY <1>1 DEF SessionInv, Phases
<1>6. NoHdd'
  BY <1>1, <1>2, <1>3 DEF NoHdd
<1>7. Moves(i, p)
  BY <1>1, <1>2, <1>4, <1>5 DEF Moves, Changes
<1>8. Has(n, p, committed[p] \cup wrote[i]) /\ Queued(i)
  BY <1>1, <1>5 DEF SessionInv, Phases, WriterAt, Fresh, UpToDate, Has
<1>9. FileInv(p)'
  BY <1>1, <1>2, <1>3, <1>8 DEF FileInv, Has, Queued
<1>10. SessionInv(i)'
  BY <1>1, <1>2, <1>4, <1>5, <1>8
     DEF SessionInv, Phases, WriterAt, RemoverAt, UpToDate, Has, Queued, OldElsewhere
<1>11. QED
  BY <1>6, <1>7, <1>9, <1>10, PlacedStep

\* The copies that a removal leaves: all but the one of node n.
LEMMA RemoveLeaves ==
    ASSUME Typed, NEW n \in Nodes, NEW p \in Paths, Unlink(n, p)
    PROVE  /\ hdd' = hdd
           /\ \A m \in Nodes, q \in Paths :
                 ssd'[m][q] = IF m = n /\ q = p THEN None ELSE ssd[m][q]
           /\ \A j \in Procs : Home[j] # n \/ path[j] # p => fd'[j] = fd[j]
BY UnlinkFollows DEF Unlink, Orphan

\* fusion_release removes the copy of the old location, which is not this node.
LEMMA PlacedRemoveOld ==
    ASSUME Setting, Placed, NEW i \in Procs, NEW p \in Paths, path[i] = p,
           RemoveOldCopy(i), Typed'
    PROVE  Placed'
<1> DEFINE n == Home[i]
<1>1. /\ n \in Nodes /\ SessionInv(i) /\ FileInv(p) /\ NoHdd /\ Typed /\ pc[i] = "rmold"
      /\ UNCHANGED <<zht, queue, peer, session, committed>> /\ Goto(i, "evict_release")
      /\ ffs_rmfile(peer[i], p)
  BY SystemAssumption DEF Placed, RemoveOldCopy, OldLocation
<1>2. /\ OnlySession(i) /\ path' = path /\ intent' = intent /\ wrote' = wrote
      /\ pc'[i] = "evict_release"
  BY <1>1, StaysInSession DEF Typed, PCs
<1>3. intent[i] = "write" /\ WriterAt(i) /\ ~Locates(peer[i], n) /\ zht[p] = At(n)
  BY <1>1 DEF SessionInv, Phases, WriterAt, OldElsewhere
<1>4. /\ hdd' = hdd
      /\ \A m \in Nodes, q \in Paths : q # p \/ m = n => ssd'[m][q] = ssd[m][q]
      /\ \A m \in Nodes : ssd'[m][p] \in {ssd[m][p], None}
      /\ \A j \in Procs : path[j] # p => fd'[j] = fd[j]
  <2>1. CASE peer[i] = None
    BY <1>1, <2>1 DEF ffs_rmfile, stores
  <2>2. CASE peer[i] # None
    <3>1. ~peer[i].hdd /\ peer[i].node \in Nodes \ {n}
      BY <1>1, <1>3, <2>2 DEF SessionInv, Phases, Locates, Typed, SessionsTyped, Entry
    <3>2. Unlink(peer[i].node, p)
      BY <1>1, <2>2, <3>1 DEF ffs_rmfile
    <3>3. QED
      BY <1>1, <3>1, <3>2, RemoveLeaves
  <2>3. QED
    BY <2>1, <2>2
<1>5. NoHdd'
  BY <1>1, <1>4, SystemAssumption DEF NoHdd
<1>6. Moves(i, p)
  BY <1>1, <1>2, <1>3, <1>4 DEF Moves, Changes
<1>7. At(n).node = n
  BY DEF At
<1>8. FileInv(p)'
  BY <1>1, <1>3, <1>4, <1>6, <1>7, FileKept
<1>9. SessionInv(i)'
  BY <1>1, <1>2, <1>3, <1>4 DEF SessionInv, Phases, WriterAt, RemoverAt, UpToDate, Has
<1>10. QED
  BY <1>5, <1>6, <1>8, <1>9, PlacedStep

\* The end of a take-over: the writes are released now that ZHT names this
\* node.
LEMMA PlacedReleaseEnd ==
    ASSUME Setting, Placed, NEW i \in Procs, NEW p \in Paths, path[i] = p, ReleaseEnd(i), Typed'
    PROVE  Placed'
<1> DEFINE n == Home[i]
<1>1. /\ n \in Nodes /\ SessionInv(i) /\ FileInv(p) /\ NoHdd /\ Typed
      /\ pc[i] = "evict_release" /\ EndSession(i) /\ Commit(i)
      /\ UNCHANGED <<zht, ssd, hdd, queue, fd>>
  BY SystemAssumption DEF Placed, ReleaseEnd, stores
<1>2. intent[i] = "write" /\ UpToDate(i) /\ zht[p] = At(n)
  BY <1>1 DEF SessionInv, Phases, WriterAt
<1>3. At(n).node = n /\ At(n) # None
  BY <1>1, AtEntry
<1>4. /\ committed'[p] = committed[p] \cup wrote[i]
      /\ \A q \in Paths \ {p} : committed'[q] = committed[q]
  BY <1>1 DEF Commit, Typed, SessionsTyped
<1>5. NoHdd'
  BY <1>1 DEF NoHdd
<1>6. Moves(i, p)
  BY <1>1, <1>2, <1>4, EndSessionTyped DEF Moves, Typed, Changes
<1>7. FileInv(p)'
  <2>1. \A j \in Procs \ {i} :
           pc'[j] = pc[j] /\ path'[j] = path[j] /\ intent'[j] = intent[j]
    BY <1>6 DEF Moves, OnlySession
  <2>2. BeingRemoved(p) => BeingRemoved(p)'
    BY <1>1, <2>1 DEF BeingRemoved
  <2>3. QED
    BY <1>1, <1>2, <1>3, <1>4, <2>2 DEF FileInv, UpToDate, Has
<1>8. SessionInv(i)'
  BY <1>1, EndSessionTyped, EndedInv DEF Typed
<1>9. QED
  BY <1>5, <1>6, <1>7, <1>8, PlacedStep

\* A reader drops its copy, which is not the one ZHT names.
LEMMA PlacedDrop ==
    ASSUME Setting, Placed, NEW i \in Procs, NEW p \in Paths, path[i] = p, DropCopy(i), Typed'
    PROVE  Placed'
<1> DEFINE n == Home[i]
<1>1. /\ n \in Nodes /\ SessionInv(i) /\ FileInv(p) /\ NoHdd /\ Typed
      /\ pc[i] = "drop" /\ EndSession(i) /\ Unlink(n, p) /\ queue' = rmelem(n, p)
      /\ UNCHANGED <<zht, committed>>
  BY SystemAssumption DEF Placed, DropCopy
<1>2. ~Locates(zht[p], n)
  BY <1>1 DEF SessionInv, Elsewhere
<1>3. /\ hdd' = hdd
      /\ \A m \in Nodes, q \in Paths :
            ssd'[m][q] = IF m = n /\ q = p THEN None ELSE ssd[m][q]
      /\ \A j \in Procs : Home[j] # n \/ path[j] # p => fd'[j] = fd[j]
  BY <1>1, RemoveLeaves
<1>4. \A m \in Nodes : queue'[m] = IF m = n THEN queue[m] \ {p} ELSE queue[m]
  BY <1>1 DEF Typed, StoresTyped, rmelem
<1>5. NoHdd'
  BY <1>1, <1>3, SystemAssumption DEF NoHdd
<1>6. Moves(i, p)
  <2>1. OnlySession(i) /\ path'[i] = None
    BY <1>1, EndSessionTyped DEF Typed
  <2>2. \A j \in Procs \ {i} : fd'[j] = fd[j]
    BY <1>3 DEF Setting
  <2>3. \A m \in Nodes :
           /\ \A q \in Paths \ {p} : q \in queue'[m] <=> q \in queue[m]
           /\ m # n => (p \in queue'[m] <=> p \in queue[m])
    BY <1>4
  <2>4. QED
    BY <1>1, <1>3, <2>1, <2>2, <2>3 DEF Moves
<1>7. FileInv(p)'
  <2>1. zht[p] # None => zht[p].node \in Nodes \ {n}
    BY <1>1, <1>2 DEF Locates, Typed, StoresTyped, Entry
  <2>2. QED
    BY <1>1, <1>3, <1>4, <1>6, <2>1, FileKept
<1>8. SessionInv(i)'
  BY <1>1, EndSessionTyped, EndedInv DEF Typed
<1>9. QED
  BY <1>5, <1>6, <1>7, <1>8, PlacedStep

\* creat(2) in fusion_create: the file is unknown to ZHT, so an outdated copy
\* may be truncated.
LEMMA PlacedCreat ==
    ASSUME Setting, Placed, NEW i \in Procs, NEW p \in Paths, path[i] = p, Creat(i), Typed'
    PROVE  Placed'
<1> DEFINE n == Home[i]
<1>1. /\ n \in Nodes /\ SessionInv(i) /\ FileInv(p) /\ NoHdd /\ Typed
      /\ pc[i] = "evict_create" /\ Goto(i, "insert")
      /\ Rewrite(n, p, {}) /\ queue' = insque(n, p)
      /\ UNCHANGED <<zht, committed, session, peer>>
  BY SystemAssumption DEF Placed, Creat
<1>2. intent[i] = "write" /\ Fresh(i)
  BY <1>1 DEF SessionInv, Phases, WriterAt
<1>3. /\ OnlySession(i) /\ path' = path /\ intent' = intent /\ wrote' = wrote /\ pc'[i] = "insert"
  BY <1>1, StaysInSession DEF Typed, PCs
<1>4. {} \in Content
  BY DEF Content
<1>5. /\ hdd' = hdd /\ ssd'[n][p] = {}
      /\ \A m \in Nodes, q \in Paths : m # n \/ q # p => ssd'[m][q] = ssd[m][q]
  BY <1>1, <1>4, RewriteTyped DEF NoHdd
<1>6. \A m \in Nodes : queue'[m] = IF m = n THEN queue[m] \cup {p} ELSE queue[m]
  BY <1>1 DEF Typed, StoresTyped, insque
<1>7. fd'[i].at = "ssd" /\ \A j \in Procs \ {i} : fd'[j] = fd[j]
  BY <1>1 DEF Creat, NoHdd, Typed, FdTyped
<1>8. NoHdd'
  <2>1. {} # Link
    BY <1>4, ContentIsData
  <2>2. \A m \in Nodes, q \in Paths : ssd'[m][q] # Link
    BY <1>1, <1>5, <2>1 DEF NoHdd
  <2>3. QED
    BY <1>1, <1>5, <2>2 DEF NoHdd
<1>9. Moves(i, p)
  <2>1. \A m \in Nodes, q \in Paths \ {p} : q \in queue'[m] <=> q \in queue[m]
    BY <1>6
  <2>2. QED
    BY <1>1, <1>2, <1>3, <1>5, <1>7, <2>1 DEF Moves, Changes
<1>10. FileInv(p)'
  BY <1>1, <1>2 DEF FileInv, Fresh
<1>11. SessionInv(i)'
  BY <1>1, <1>2, <1>3, <1>4, <1>5, <1>6, <1>7, ContentIsData
     DEF SessionInv, Phases, WriterAt, RemoverAt, Fresh, Queued
<1>12. QED
  BY <1>8, <1>9, <1>10, <1>11, PlacedStep

\* fusion_unlink begins: from here on nothing of the file counts as released.
LEMMA PlacedUnlink ==
    ASSUME Setting, Placed, NEW i \in Procs, NEW p \in Paths, path[i] = p,
           fusion_unlink(i), Typed'
    PROVE  Placed'
<1> DEFINE n == Home[i]
<1>1. /\ n \in Nodes /\ SessionInv(i) /\ FileInv(p) /\ NoHdd /\ Typed
      /\ pc[i] = "known" /\ intent[i] = "unlink"
      /\ UNCHANGED <<zht, ssd, hdd, fd>>
  BY SystemAssumption DEF Placed, fusion_unlink, is_symlink_ssd, NoHdd
<1>2. NoHdd'
  BY <1>1 DEF NoHdd
<1>3. CASE EndSession(i) /\ UNCHANGED <<queue, committed>>
  <2>1. Moves(i, p)
    BY <1>1, <1>3, EndSessionTyped DEF Moves, Typed
  <2>2. FileInv(p)'
    BY <1>1, <1>3, <2>1, FileKept
  <2>3. SessionInv(i)'
    BY <1>1, <1>3, EndSessionTyped, EndedInv DEF Typed
  <2>4. QED
    BY <1>2, <2>1, <2>2, <2>3, PlacedStep
<1>4. CASE /\ zht[p] # None /\ queue' = rmelem(n, p)
           /\ committed' = [committed EXCEPT ![p] = {}]
           /\ Goto(i, "unlink") /\ UNCHANGED <<session, peer>>
  <2>1. /\ OnlySession(i) /\ path' = path /\ intent' = intent /\ wrote' = wrote /\ peer' = peer
        /\ pc'[i] = "unlink"
    BY <1>1, <1>4, StaysInSession DEF Typed, PCs
  <2>2. committed'[p] = {} /\ \A q \in Paths \ {p} : committed'[q] = committed[q]
    BY <1>1, <1>4 DEF Typed, SessionsTyped
  <2>3. \A m \in Nodes : queue'[m] = IF m = n THEN queue[m] \ {p} ELSE queue[m]
    BY <1>1, <1>4 DEF Typed, StoresTyped, rmelem
  <2>4. \A m \in Nodes, q \in Paths \ {p} : q \in queue'[m] <=> q \in queue[m]
    BY <2>3
  <2>5. Moves(i, p)
    BY <1>1, <2>1, <2>2, <2>4 DEF Moves, Changes
  <2>6. FileInv(p)'
    BY <1>1, <1>4, <2>1, <2>2 DEF FileInv, Has, BeingRemoved
  <2>7. SessionInv(i)'
    BY <1>1, <2>1, <2>2 DEF SessionInv, Phases, WriterAt, RemoverAt
  <2>8. QED
    BY <1>2, <2>5, <2>6, <2>7, PlacedStep
<1>5. QED
  BY <1>3, <1>4 DEF fusion_unlink

\* The second lookup of fusion_unlink.
LEMMA PlacedLookup ==
    ASSUME Setting, Placed, NEW i \in Procs, NEW p \in Paths, path[i] = p,
           LookupOldAddr(i), Typed'
    PROVE  Placed'
<1>1. /\ Home[i] \in Nodes /\ SessionInv(i) /\ FileInv(p) /\ NoHdd /\ Typed
      /\ pc[i] = "unlink" /\ Goto(i, "unlink2") /\ peer' = [peer EXCEPT ![i] = zht[p]]
      /\ UNCHANGED <<zht, ssd, hdd, queue, fd, session, committed>>
  BY SystemAssumption DEF Placed, LookupOldAddr, stores
<1>2. peer'[i] = zht[p] /\ \A j \in Procs \ {i} : peer'[j] = peer[j]
  BY <1>1 DEF Typed, SessionsTyped
<1>3. /\ OnlySession(i) /\ path' = path /\ intent' = intent /\ wrote' = wrote
      /\ pc'[i] = "unlink2"
  BY <1>1, <1>2, StaysInSession DEF Typed, PCs
<1>4. intent[i] = "unlink"
  BY <1>1 DEF SessionInv, Phases
<1>5. NoHdd' /\ Moves(i, p)
  BY <1>1, <1>3 DEF NoHdd, Moves
<1>6. FileInv(p)'
  <2>1. committed[p] = {}
    BY <1>1, <1>4 DEF SessionInv, RemoverAt
  <2>2. QED
    BY <1>1, <1>3, <1>4, <2>1 DEF FileInv, Has, BeingRemoved
<1>7. SessionInv(i)'
  BY <1>1, <1>2, <1>3, <1>4 DEF SessionInv, Phases, RemoverAt, NoHdd
<1>8. QED
  BY <1>5, <1>6, <1>7, PlacedStep

\* fusion_unlink removes the entry.
LEMMA PlacedRemoveEntry ==
    ASSUME Setting, Placed, NEW i \in Procs, NEW p \in Paths, path[i] = p,
           RemoveEntry(i), Typed'
    PROVE  Placed'
<1>1. /\ Home[i] \in Nodes /\ SessionInv(i) /\ FileInv(p) /\ NoHdd /\ Typed
      /\ pc[i] = "unlink2" /\ \E step \in {"unlink3", "rmremote"} : Goto(i, step)
      /\ UNCHANGED <<ssd, hdd, queue, fd, session, peer, committed>>
  BY SystemAssumption DEF Placed, RemoveEntry, stores
<1>2. zht'[p] = None /\ \A q \in Paths \ {p} : zht'[q] = zht[q]
  BY <1>1 DEF RemoveEntry, Typed, StoresTyped
<1>3. /\ OnlySession(i) /\ path' = path /\ intent' = intent /\ wrote' = wrote
      /\ pc'[i] \in {"unlink3", "rmremote"}
  BY <1>1, StaysInSession DEF Typed, PCs
<1>4. intent[i] = "unlink" /\ committed[p] = {}
  BY <1>1 DEF SessionInv, Phases, RemoverAt
<1>5. NoHdd' /\ Moves(i, p)
  BY <1>1, <1>2, <1>3, <1>4 DEF NoHdd, Moves, Changes
<1>6. FileInv(p)'
  BY <1>1, <1>2, <1>4 DEF FileInv
<1>7. SessionInv(i)'
  BY <1>1, <1>2, <1>3, <1>4 DEF SessionInv, Phases, RemoverAt, Fresh
<1>8. QED
  BY <1>5, <1>6, <1>7, PlacedStep

\* fusion_unlink removes the remote and the local copy.
LEMMA PlacedRemoveCopies ==
    ASSUME Setting, Placed, NEW i \in Procs, NEW p \in Paths, path[i] = p,
           RemoveRemote(i) \/ RemoveLocal(i), Typed'
    PROVE  Placed'
<1>1. /\ Home[i] \in Nodes /\ SessionInv(i) /\ FileInv(p) /\ NoHdd /\ Typed
      /\ pc[i] \in {"rmremote", "unlink3"}
      /\ UNCHANGED <<zht, queue, committed>>
  BY SystemAssumption DEF Placed, RemoveRemote, RemoveLocal
<1>2. intent[i] = "unlink" /\ zht[p] = None
  BY <1>1 DEF SessionInv, Phases, RemoverAt, Fresh
<1>3. /\ hdd' = hdd
      /\ \A m \in Nodes, q \in Paths \ {p} : ssd'[m][q] = ssd[m][q]
      /\ \A m \in Nodes : ssd'[m][p] \in {ssd[m][p], None}
      /\ \A j \in Procs : path[j] # p => fd'[j] = fd[j]
  <2>1. CASE RemoveLocal(i)
    BY <1>1, <2>1, RemoveLeaves DEF RemoveLocal
  <2>2. CASE RemoveRemote(i) /\ peer[i] = None
    BY <2>2 DEF RemoveRemote, ffs_rmfile, stores
  <2>3. CASE RemoveRemote(i) /\ peer[i] # None
    <3>1. peer[i].node \in Nodes /\ ~peer[i].hdd
      BY <1>1, <2>3 DEF SessionInv, Phases, Typed, SessionsTyped, Entry
    <3>2. Unlink(peer[i].node, p)
      BY <2>3, <3>1 DEF RemoveRemote, ffs_rmfile
    <3>3. QED
      BY <1>1, <3>1, <3>2, RemoveLeaves
  <2>4. QED
    BY <2>1, <2>2, <2>3
<1>4. \/ EndSession(i)
      \/ /\ OnlySession(i) /\ path' = path /\ intent' = intent /\ wrote' = wrote /\ peer' = peer
         /\ pc'[i] = "unlink3"
  BY <1>1, StaysInSession DEF RemoveRemote, RemoveLocal, Typed, PCs
<1>5. OnlySession(i) /\ (path'[i] = None \/ (path'[i] = p /\ intent'[i] = intent[i]))
  BY <1>1, <1>4, EndSessionTyped DEF Typed
<1>6. NoHdd'
  BY <1>1, <1>3, SystemAssumption DEF NoHdd
<1>7. Moves(i, p)
  BY <1>1, <1>2, <1>3, <1>5 DEF Moves, Changes
<1>8. FileInv(p)'
  BY <1>1, <1>2, <1>7, FileKept
<1>9. SessionInv(i)'
  <2>1. CASE EndSession(i)
    BY <1>1, <2>1, EndSessionTyped, EndedInv DEF Typed
  <2>2. CASE ~EndSession(i)
    BY <1>1, <1>2, <1>4, <2>2 DEF SessionInv, Phases, RemoverAt, Fresh
  <2>3. QED
    BY <2>1, <2>2
<1>10. QED
  BY <1>6, <1>7, <1>8, <1>9, PlacedStep

\* Neither the eviction loop nor the swap of fusion_open has anything to do.
LEMMA NoEviction ==
    ASSUME Setting, Placed, NEW i \in Procs
    PROVE  ~EvictionStep(i) /\ ~UnlinkSymlink(i) /\ ~MoveToSsd(i)
<1>1. /\ ~Full(Home[i])
      /\ pc[i] \notin {"evict_open", "swap", "link_open", "link_create", "link_release"}
  BY NeverFull, SystemAssumption DEF Full, Placed, SessionInv, Phases
<1>2. QED
  BY <1>1 DEF EvictionStep, move_file_ssd, LinkVictim, UnlinkSymlink, MoveToSsd

-----------------------------------------------------------------------------
(*****************************************************************************)
(* The invariant is inductive.                                               *)
(*****************************************************************************)
\* The initial states satisfy the invariant.
LEMMA InitPlaced == ASSUME Init PROVE Placed
<1>1. Typed
  BY InitTyped
<1>2. NoHdd /\ OneChanger
  BY SystemAssumption DEF Init, NoHdd, OneChanger
<1>3. \A i \in Procs : SessionInv(i)
  BY DEF Init, SessionInv, Phases, WriterAt, RemoverAt
<1>4. \A p \in Paths : FileInv(p)
  BY DEF Init, FileInv
<1>5. QED
  BY <1>1, <1>2, <1>3, <1>4 DEF Placed

\* Every step preserves it.
LEMMA NextPlaced == ASSUME Setting, Placed, [Next]_vars PROVE Placed'
<1>1. Typed /\ Typed'
  BY NextTyped DEF Placed
<1>2. ASSUME NEW i \in Procs, NEW p \in Paths, NEW what \in Intents, Start(i, p, what)
      PROVE  Placed'
  BY <1>1, <1>2, PlacedStart
<1>3. ASSUME NEW i \in Procs, fusion_write(i) \/ Step(i)
      PROVE  Placed'
  <2>1. pc[i] # "idle"
    <3>1. ~EvictionStep(i) /\ ~UnlinkSymlink(i) /\ ~MoveToSsd(i)
      BY NoEviction
    <3>2. QED
      BY <1>3, <3>1
         DEF Step, fusion_write, fusion_getattr, ffs_recvfile, fusion_open, OpenFd,
             fusion_release, zht_remove, zht_insert, RemoveOldCopy, ReleaseEnd, DropCopy,
             fusion_create, Creat, InsertCreated, fusion_unlink, LookupOldAddr, RemoveEntry,
             RemoveRemote, RemoveLocal
  <2>2. PICK p \in Paths : path[i] = p
    BY <1>1, <2>1, HasPath
  <2>3. CASE fusion_write(i)
    BY <1>1, <2>2, <2>3, PlacedWrite
  <2>4. CASE Step(i)
    BY <1>1, <2>2, <2>4, NoEviction, PlacedGetattr, PlacedRecvfile, PlacedOpen, PlacedOpenFd,
       PlacedRelease, PlacedZhtRemove, PlacedZhtInsert, PlacedRemoveOld, PlacedReleaseEnd,
       PlacedDrop, PlacedCreat, PlacedUnlink, PlacedLookup, PlacedRemoveEntry,
       PlacedRemoveCopies DEF Step
  <2>5. QED
    BY <1>3, <2>3, <2>4
<1>4. CASE UNCHANGED vars
  <2>1. NoHdd' /\ OneChanger'
    BY <1>4 DEF Placed, NoHdd, OneChanger, vars
  <2>2. \A i \in Procs : SessionInv(i)'
    BY <1>4 DEF Placed, SessionInv, Phases, WriterAt, RemoverAt, Fresh, UpToDate, Has, Queued,
                Elsewhere, OldElsewhere, vars
  <2>3. \A p \in Paths : FileInv(p)'
    BY <1>4 DEF Placed, FileInv, Has, BeingRemoved, BeingMoved, vars
  <2>4. QED
    BY <1>1, <2>1, <2>2, <2>3 DEF Placed
<1>5. QED
  BY <1>2, <1>3, <1>4 DEF Next

-----------------------------------------------------------------------------
(*****************************************************************************)
(* What it implies.                                                          *)
(*****************************************************************************)
\* The invariant implies Durable: the copy ZHT names, or that of the writer
\* about to insert its location, is the witness.
LEMMA PlacedDurable == ASSUME Setting, Placed PROVE Durable
<1> SUFFICES ASSUME NEW p \in Paths, zht[p] # None \/ committed[p] # {}, ~Removing(p)
             PROVE  \E n \in Nodes : Answers(n, p) /\ Holds(n, p, committed[p])
  BY DEF Durable
<1>1. FileInv(p) /\ NoHdd /\ Typed
  BY DEF Placed
<1>2. CASE zht[p] # None
  <2>1. zht[p].node \in Nodes /\ Has(zht[p].node, p, committed[p])
    BY <1>1, <1>2 DEF FileInv, Typed, StoresTyped, Entry
  <2>2. QED
    BY <1>1, <1>2, <2>1 DEF Answers, Locates, Holds, OnSsd, Has, NoHdd
<1>3. CASE zht[p] = None
  <2>1. PICK i \in Procs : path[i] = p /\ pc[i] = "update2"
    BY <1>1, <1>3 DEF FileInv, BeingMoved
  <2>2. Home[i] \in Nodes /\ UpToDate(i)
    BY <2>1, SystemAssumption DEF Placed, SessionInv, Phases, WriterAt
  <2>3. QED
    BY <1>1, <2>1, <2>2 DEF Answers, Holds, OnSsd, UpToDate, Has, NoHdd
<1>4. QED
  BY <1>2, <1>3

\* It implies WriterUpToDate.
LEMMA PlacedUpToDate == ASSUME Setting, Placed PROVE WriterUpToDate
BY DEF Placed, SessionInv, WriterAt, UpToDate, Has, WriterUpToDate, Visible

\* It implies QueueCovers.
LEMMA PlacedQueue == ASSUME Setting, Placed PROVE QueueCovers
BY DEF Placed, FileInv, BeingRemoved, QueueCovers, Quiet, Locates

\* A step that removes a copy is that of a reader, of a writer at the old
\* location or of a removal; after it that node does not answer for the file.
LEMMA PlacedRemovals ==
    ASSUME Setting, Placed, Placed', [Next]_vars
    PROVE  \A n \in Nodes, p \in Paths :
              Present(n, p) /\ ~Present(n, p)'
                => ~Answers(n, p)' \/ Removing(p) \/ hdd'[n][p] # None
<1> SUFFICES ASSUME NEW n \in Nodes, NEW p \in Paths, Present(n, p), ~Present(n, p)',
                    Answers(n, p)', ~Removing(p)
             PROVE  FALSE
  OBVIOUS
<1>1. FileInv(p)' /\ NoHdd' /\ Typed'
  BY DEF Placed
<1>2. ssd'[n][p] = None
  BY <1>1 DEF Present, OnSsd, NoHdd, is_symlink_ssd
<1>3. CASE Locates(zht[p], n)'
  BY <1>1, <1>2, <1>3 DEF FileInv, Locates, Has
<1>4. CASE (\E i \in Procs : pc[i] = "update2" /\ path[i] = p /\ Home[i] = n)'
  <2>1. PICK i \in Procs : pc'[i] = "update2" /\ path'[i] = p /\ Home[i] = n
    BY <1>4
  <2>2. UpToDate(i)'
    BY <2>1 DEF Placed, SessionInv, Phases, WriterAt
  <2>3. QED
    BY <1>2, <2>1, <2>2 DEF UpToDate, Has
<1>5. QED
  BY <1>3, <1>4 DEF Answers

\* A released file is never lost, a writer works on the latest released content
\* and the queue of the location covers the file: through every interleaving of
\* fusion_getattr, _open, _write, _release, _create and _unlink on any number
\* of nodes.
THEOREM PlacementInvariants ==
    ASSUME Setting
    PROVE  Spec => [](Durable /\ WriterUpToDate /\ QueueCovers)
<1>1. Init => Placed
  BY InitPlaced
<1>2. Placed /\ [Next]_vars => Placed'
  BY NextPlaced
<1>3. Placed => Durable /\ WriterUpToDate /\ QueueCovers
  BY PlacedDurable, PlacedUpToDate, PlacedQueue
<1>4. QED
  BY <1>1, <1>2, <1>3, PTL DEF Spec

\* No callback removes the copy of the node that answers for a file, unless the
\* file itself is being removed.
THEOREM PlacementRemovals == ASSUME Setting PROVE Spec => SafeRemoval
<1>1. Init => Placed
  BY InitPlaced
<1>2. Placed /\ [Next]_vars => Placed'
  BY NextPlaced
<1>3. Placed /\ Placed' /\ [Next]_vars =>
         [\A n \in Nodes, p \in Paths :
             Present(n, p) /\ ~Present(n, p)'
               => ~Answers(n, p)' \/ Removing(p) \/ hdd'[n][p] # None]_vars
  BY PlacedRemovals
<1>4. QED
  BY <1>1, <1>2, <1>3, PTL DEF Spec, SafeRemoval

-----------------------------------------------------------------------------
(*****************************************************************************)
(* Where a file is when sessions take turns: it moves between nodes and,     *)
(* when an SSD is full, between the tiers of a node. These are the theorems  *)
(* about the tiers of the run files, for any number of nodes, processes and  *)
(* writes, any placement of processes on nodes and any size of the SSDs.     *)
(*                                                                           *)
(* The argument. With one session at a time nothing else moves while a       *)
(* callback runs, but the eviction loop of its callback may move any file of *)
(* its node, its own included. Between sessions every file is at rest: the   *)
(* copy ZHT names holds what was released and is reachable at its SSD path,  *)
(* as a file or through a link, and a file on the SSD is queued (Located).   *)
(* During a session one file may be the exception: the victim between its    *)
(* move and its link (BeingLinked), the file swapped in, the file between    *)
(* the remove and the insert of zht_update (BeingMoved), the file being      *)
(* removed (BeingRemoved), a file on the SSD that fusion_open has not queued *)
(* yet (BeingOpened). SessionNow says what the session itself has            *)
(* established, wherever the eviction loop has put its file meanwhile.       *)
(* Tiered is inductive, and each of the properties follows from it.          *)
(*****************************************************************************)

\* One session at a time, on whatever node.
TakeTurns == Coordination = "sessions"

-----------------------------------------------------------------------------
(*****************************************************************************)
(* The inductive invariant.                                                  *)
(*****************************************************************************)
\* What Granted is for.
OneSession == \A i, j \in Procs : pc[i] # "idle" /\ pc[j] # "idle" => i = j

\* The steps between the move of a victim and its link.
Linking == {"link_open", "link_create", "link_release"}

\* The file has left the SSD of n and its name is about to return: as a link
\* after an eviction, as a file after a swap.
BeingLinked(n, p) ==
    \E i \in Procs : /\ Home[i] = n
                     /\ \/ victim[i] = p /\ pc[i] \in Linking
                        \/ path[i] = p /\ pc[i] = "swap"

\* fusion_open has the file on the SSD and not yet in the queue.
BeingOpened(n, p) == \E i \in Procs : Home[i] = n /\ path[i] = p /\ pc[i] = "open"

\* Node n, which ZHT names, has what was released of p, reachable at its SSD
\* path and, on the SSD, queued, but for the moments above.
Located(n, p) ==
    /\ Holds(n, p, committed[p])
    /\ Present(n, p) \/ BeingLinked(n, p)
    /\ OnSsd(n, p) => p \in queue[n] \/ BeingOpened(n, p)

\* Every file is located where ZHT says or is being removed; one ZHT does not
\* know was not released, or a writer is about to insert it.
TierInv(p) ==
    /\ zht[p] # None => ~zht[p].hdd /\ (Located(zht[p].node, p) \/ BeingRemoved(p))
    /\ zht[p] = None => committed[p] = {} \/ BeingMoved(p)

\* The SSD path of n leads to at least data.
Got(n, p, data) == Present(n, p) /\ data \subseteq Data(n, p)

\* The session's node has what was released and what the session has written.
IsNewest(i) == Got(Home[i], path[i], committed[path[i]] \cup wrote[i])

\* Which steps belong to which intent, which sessions have written, and that
\* nothing was released since the session began.
Stages(i) ==
    /\ pc[i] \in {"absent", "evict_create", "link_create", "insert", "update", "update2",
                  "rmold", "evict_release", "link_release"} => intent[i] = "write"
    /\ pc[i] \in {"unlink", "unlink2", "rmremote", "unlink3"} => intent[i] = "unlink"
    /\ ~(/\ intent[i] = "write"
         /\ pc[i] \in {"opened", "update", "update2", "rmold", "evict_release",
                       "link_release"}) => wrote[i] = {}
    /\ peer[i] # None => ~peer[i].hdd
    /\ pc[i] \in {"getattr", "fetch", "known", "open", "evict_open", "link_open", "swap",
                  "absent", "evict_create", "link_create", "insert", "opened"}
          => wanted[i] = committed[path[i]]

\* From fusion_getattr to the open(2) of fusion_open: the location it fetches
\* from is current and elsewhere; the file is up to date, also while it is
\* swapped in from the HDD.
Opening(i) ==
    LET n == Home[i]  p == path[i] IN
    /\ pc[i] = "fetch" => peer[i] = zht[p] /\ Elsewhere(i)
    /\ pc[i] = "known" => intent[i] = "unlink" \/ IsNewest(i)
    /\ pc[i] \in {"evict_open", "link_open"} => IsNewest(i) /\ is_symlink_ssd(n, p)
    /\ pc[i] = "swap" =>
          ssd[n][p] = None /\ hdd[n][p] # None /\ committed[p] \subseteq hdd[n][p]
    /\ pc[i] = "open" => IsNewest(i) /\ OnSsd(n, p)

\* fusion_create: the file is unknown, until the insert.
Creating(i) ==
    /\ pc[i] \in {"absent", "evict_create", "link_create", "insert"} => Fresh(i)
    /\ pc[i] = "insert" => Present(Home[i], path[i]) /\ Queued(i)

\* From the open file to the end of fusion_release: the descriptor leads where
\* the SSD path leads, the copy is up to date until zht_update names this node,
\* and afterwards one of the two tiers holds it, whatever the eviction loop
\* does; the old copy that will be removed is not this one.
Closing(i) ==
    LET n == Home[i]  p == path[i] IN
    /\ pc[i] \in {"insert", "opened"} =>
          fd[i].at = "ssd" \/ (fd[i].at = "hdd" /\ ssd[n][p] = Link)
    /\ pc[i] \in {"opened", "update", "update2"} => IsNewest(i) /\ Queued(i)
    /\ pc[i] \in {"update", "drop"} => Elsewhere(i)
    /\ pc[i] = "update" => peer[i] = zht[p]
    /\ pc[i] = "update2" => zht[p] = None
    /\ pc[i] \in {"update2", "rmold"} => OldElsewhere(i)
    /\ pc[i] \in {"rmold", "evict_release", "link_release"} =>
          zht[p] = At(n) /\ Holds(n, p, committed[p] \cup wrote[i])

\* fusion_unlink: the location it remembers is current until the entry goes.
Unlinking(i) ==
    /\ pc[i] \in {"unlink", "unlink2", "rmremote", "unlink3"} => committed[path[i]] = {}
    /\ pc[i] = "unlink2" => peer[i] = zht[path[i]]
    /\ pc[i] \in {"rmremote", "unlink3"} => zht[path[i]] = None

\* What every session has established.
SessionNow(i) == Stages(i) /\ Opening(i) /\ Creating(i) /\ Closing(i) /\ Unlinking(i)

\* The inductive invariant.
Tiered ==
    /\ Typed
    /\ OneSession
    /\ \A i \in Procs : SessionNow(i)
    /\ \A p \in Paths : TierInv(p)

-----------------------------------------------------------------------------
(*****************************************************************************)
(* What a step leaves alone.                                                 *)
(*****************************************************************************)
\* A process outside a session has nothing to keep.
LEMMA IdleInv ==
    ASSUME NEW i \in Procs, SessionNow(i), pc[i] = "idle", pc'[i] = "idle",
           intent'[i] = intent[i], peer'[i] = peer[i], wrote'[i] = wrote[i]
    PROVE  SessionNow(i)'
BY DEF SessionNow, Stages, Opening, Creating, Closing, Unlinking

\* Nor has one that ended its session.
LEMMA EndedNow ==
    ASSUME NEW i \in Procs, pc'[i] = "idle", wrote'[i] = {}, peer'[i] = None
    PROVE  SessionNow(i)'
BY DEF SessionNow, Stages, Opening, Creating, Closing, Unlinking

\* Only the session under way can make an exception for a file.
LEMMA Sole ==
    ASSUME OneSession, NEW i \in Procs, pc[i] # "idle"
    PROVE  \A p \in Paths :
              /\ BeingMoved(p) => path[i] = p /\ pc[i] = "update2"
              /\ BeingRemoved(p) => path[i] = p /\ pc[i] \in {"unlink", "unlink2"}
              /\ \A n \in Nodes :
                    /\ BeingLinked(n, p) =>
                          /\ Home[i] = n
                          /\ \/ victim[i] = p /\ pc[i] \in Linking
                             \/ path[i] = p /\ pc[i] = "swap"
                    /\ BeingOpened(n, p) => Home[i] = n /\ path[i] = p /\ pc[i] = "open"
BY DEF OneSession, BeingMoved, BeingRemoved, BeingLinked, BeingOpened, Linking

\* What a step of i's session on p, other than those of the eviction loop,
\* leaves alone.
Turns(i, p) ==
    /\ path[i] = p /\ pc[i] # "idle" /\ pc[i] \notin Linking
    /\ OnlySession(i)
    /\ \A q \in Paths \ {p} :
          /\ zht'[q] = zht[q] /\ committed'[q] = committed[q]
          /\ \A m \in Nodes : /\ ssd'[m][q] = ssd[m][q] /\ hdd'[m][q] = hdd[m][q]
                              /\ q \in queue'[m] <=> q \in queue[m]

\* The other processes are idle.
LEMMA OthersIdle ==
    ASSUME Tiered, NEW i \in Procs, pc[i] # "idle", OnlySession(i), NEW j \in Procs \ {i}
    PROVE  SessionNow(j)'
BY IdleInv DEF Tiered, OneSession, OnlySession

\* No step but Start begins a session.
LEMMA OneSessionKept ==
    ASSUME OneSession, NEW i \in Procs, pc[i] # "idle", OnlySession(i)
    PROVE  OneSession'
BY DEF OneSession, OnlySession

\* The other files are as they were.
LEMMA TiersKept ==
    ASSUME Tiered, NEW i \in Procs, NEW p \in Paths, Turns(i, p), NEW q \in Paths \ {p}
    PROVE  TierInv(q)'
<1>1. /\ zht'[q] = zht[q] /\ committed'[q] = committed[q]
      /\ \A m \in Nodes : /\ ssd'[m][q] = ssd[m][q] /\ hdd'[m][q] = hdd[m][q]
                          /\ q \in queue'[m] <=> q \in queue[m]
  BY DEF Turns
<1>2. /\ ~BeingMoved(q) /\ ~BeingRemoved(q)
      /\ \A m \in Nodes : ~BeingLinked(m, q) /\ ~BeingOpened(m, q)
  BY Sole DEF Turns, Tiered
<1>3. zht[q] # None => zht[q].node \in Nodes
  BY DEF Tiered, Typed, StoresTyped, Entry
<1>4. TierInv(q)
  BY DEF Tiered
<1>5. QED
  BY <1>1, <1>2, <1>3, <1>4 DEF TierInv, Located, Holds, OnSsd, Present, is_symlink_ssd

\* What is left to show of a step outside the eviction loop.
LEMMA TieredStep ==
    ASSUME Tiered, NEW i \in Procs, NEW p \in Paths, Turns(i, p),
           Typed', SessionNow(i)', TierInv(p)'
    PROVE  Tiered'
<1>1. OneSession' /\ \A j \in Procs : SessionNow(j)'
  BY OthersIdle, OneSessionKept DEF Tiered, Turns
<1>2. ASSUME NEW q \in Paths PROVE TierInv(q)'
  <2>1. CASE q = p
    BY <2>1
  <2>2. CASE q # p
    BY <2>2, TiersKept
  <2>3. QED
    BY <2>1, <2>2
<1>3. QED
  BY <1>1, <1>2 DEF Tiered

\* A step that changes neither the entry of its file nor the copy it names.
LEMMA TierKept ==
    ASSUME Tiered, NEW i \in Procs, NEW p \in Paths, Turns(i, p),
           zht'[p] = zht[p], committed'[p] = committed[p],
           pc[i] \notin {"unlink", "unlink2", "update2", "swap", "open"},
           zht[p] # None =>
              /\ ssd'[zht[p].node][p] = ssd[zht[p].node][p]
              /\ hdd'[zht[p].node][p] = hdd[zht[p].node][p]
              /\ p \in queue[zht[p].node] => p \in queue'[zht[p].node]
    PROVE  TierInv(p)'
<1>1. /\ ~BeingMoved(p) /\ ~BeingRemoved(p)
      /\ \A m \in Nodes : ~BeingLinked(m, p) /\ ~BeingOpened(m, p)
  BY Sole DEF Turns, Tiered
<1>2. zht[p] # None => zht[p].node \in Nodes
  BY DEF Tiered, Typed, StoresTyped, Entry
<1>3. TierInv(p)
  BY DEF Tiered
<1>4. QED
  BY <1>1, <1>2, <1>3 DEF TierInv, Located, Holds, OnSsd, Present, is_symlink_ssd

\* What the entry of a file says before any callback has changed anything.
LEMMA Before ==
    ASSUME Tiered, NEW i \in Procs, NEW p \in Paths, path[i] = p,
           pc[i] \notin {"idle", "unlink", "unlink2", "update2", "swap"} \cup Linking
    PROVE  /\ zht[p] = None => committed[p] = {}
           /\ zht[p] # None =>
                 /\ zht[p].node \in Nodes /\ ~zht[p].hdd
                 /\ Got(zht[p].node, p, committed[p])
                 /\ Holds(zht[p].node, p, committed[p])
                 /\ pc[i] # "open" /\ OnSsd(zht[p].node, p) => p \in queue[zht[p].node]
<1>1. /\ ~BeingMoved(p) /\ ~BeingRemoved(p)
      /\ \A m \in Nodes : ~BeingLinked(m, p) /\ (pc[i] # "open" => ~BeingOpened(m, p))
  BY Sole DEF Tiered
<1>2. zht[p] # None => zht[p].node \in Nodes
  BY DEF Tiered, Typed, StoresTyped, Entry
<1>3. TierInv(p)
  BY DEF Tiered
<1>4. QED
  BY <1>1, <1>2, <1>3 DEF TierInv, Located, Holds, Got, Data, OnSsd, Present, is_symlink_ssd

-----------------------------------------------------------------------------
(*****************************************************************************)
(* One lemma per step of a callback.                                         *)
(*****************************************************************************)
\* A session begins: it has no work done yet.
LEMMA TieredStart ==
    ASSUME TakeTurns, Tiered, NEW i \in Procs, NEW p \in Paths, NEW what \in Intents,
           Start(i, p, what), Typed'
    PROVE  Tiered'
<1> USE DEF Start
<1>1. /\ pc'[i] = "getattr" /\ path'[i] = p /\ intent'[i] = what /\ wanted'[i] = committed[p]
      /\ \A j \in Procs \ {i} :
            pc'[j] = pc[j] /\ path'[j] = path[j] /\ intent'[j] = intent[j]
      /\ UNCHANGED <<zht, ssd, hdd, queue, peer, wrote, committed>>
  BY DEF Tiered, Typed, SessionsTyped, Goto, PCs, stores
<1>2. \A j \in Procs : pc[j] = "idle"
  BY DEF Granted, TakeTurns
<1>3. OneSession'
  BY <1>1, <1>2 DEF OneSession
<1>4. ASSUME NEW j \in Procs PROVE SessionNow(j)'
  <2>1. CASE j = i
    <3>1. wrote'[i] = {} /\ (peer'[i] # None => ~peer'[i].hdd)
      BY <1>1, <1>2 DEF Tiered, SessionNow, Stages
    <3>2. QED
      BY <1>1, <2>1, <3>1 DEF SessionNow, Stages, Opening, Creating, Closing, Unlinking
  <2>2. CASE j # i
    BY <1>1, <1>2, <2>2, IdleInv DEF Tiered
  <2>3. QED
    BY <2>1, <2>2
<1>5. ASSUME NEW q \in Paths PROVE TierInv(q)'
  <2>1. /\ ~BeingMoved(q) /\ ~BeingRemoved(q)
        /\ \A m \in Nodes : ~BeingLinked(m, q) /\ ~BeingOpened(m, q)
    BY <1>2 DEF BeingMoved, BeingRemoved, BeingLinked, BeingOpened, Linking
  <2>2. zht[q] # None => zht[q].node \in Nodes
    BY DEF Tiered, Typed, StoresTyped, Entry
  <2>3. TierInv(q)
    BY DEF Tiered
  <2>4. QED
    BY <1>1, <2>1, <2>2, <2>3
       DEF TierInv, Located, Holds, OnSsd, Present, is_symlink_ssd
<1>6. QED
  BY <1>3, <1>4, <1>5 DEF Tiered

\* The lookup of fusion_getattr: without a transfer this node is the location,
\* or nobody is.
LEMMA TieredGetattr ==
    ASSUME TakeTurns, Tiered, NEW i \in Procs, NEW p \in Paths, path[i] = p,
           fusion_getattr(i), Typed'
    PROVE  Tiered'
<1> DEFINE n == Home[i]
<1> USE DEF fusion_getattr
<1>1. /\ n \in Nodes /\ SessionNow(i) /\ Typed /\ pc[i] = "getattr"
      /\ UNCHANGED <<zht, ssd, hdd, queue, fd, committed>>
      /\ wrote[i] = {} /\ wanted[i] = committed[p]
  BY SystemAssumption DEF Tiered, stores, SessionNow, Stages
<1>2. /\ zht[p] = None => committed[p] = {}
      /\ zht[p] # None => ~zht[p].hdd /\ Got(zht[p].node, p, committed[p])
  BY <1>1, Before DEF Linking
<1>3. ASSUME Turns(i, p) PROVE TierInv(p)'
  BY <1>1, <1>3, TierKept
<1>4. CASE NoTransfer(n, p) /\ Lstat(i, Found(n, p))
  <2>1. OnlySession(i) /\ pc'[i] \in {"idle", "known", "absent"}
    BY <1>1, <1>4, LstatTyped DEF Typed, Found
  <2>2. Turns(i, p)
    BY <1>1, <2>1 DEF Turns, Linking
  <2>3. SessionNow(i)'
    <3>1. CASE pc'[i] = "idle"
      BY <1>1, <1>4, <3>1, LstatTyped, EndedNow DEF Typed, Found
    <3>2. CASE pc'[i] = "known"
      <4>1. /\ path'[i] = p /\ intent'[i] = intent[i] /\ wrote'[i] = {}
            /\ wanted'[i] = committed[p] /\ peer'[i] = None
            /\ Found(n, p) = "file" \/ intent[i] = "unlink"
        BY <1>1, <1>4, <3>2, LstatTyped, SystemAssumption DEF Typed, Found
      <4>2. Found(n, p) = "file" => Got(n, p, committed[p])
        BY <1>2, <1>4 DEF Found, Got, NoTransfer, Locates
      <4>3. QED
        BY <1>1, <3>2, <4>1, <4>2
           DEF SessionNow, Stages, Opening, Creating, Closing, Unlinking, IsNewest, Got,
               Present, OnSsd, is_symlink_ssd, Data
    <3>3. CASE pc'[i] = "absent"
      <4>1. /\ path'[i] = p /\ intent'[i] = intent[i] /\ wrote'[i] = {}
            /\ wanted'[i] = committed[p] /\ peer'[i] = None
            /\ Found(n, p) = "none" /\ intent[i] = "write"
        BY <1>1, <1>4, <3>3, LstatTyped, SystemAssumption DEF Typed, Found
      <4>2. zht[p] = None
        BY <1>4, <4>1 DEF NoTransfer, Found
      <4>3. QED
        BY <1>1, <1>2, <3>3, <4>1, <4>2
           DEF SessionNow, Stages, Opening, Creating, Closing, Unlinking, Fresh
    <3>4. QED
      BY <2>1, <3>1, <3>2, <3>3
  <2>4. QED
    BY <1>3, <2>2, <2>3, TieredStep
<1>5. CASE ~NoTransfer(n, p) /\ peer' = [peer EXCEPT ![i] = zht[p]]
           /\ Goto(i, "fetch") /\ UNCHANGED session
  <2>1. peer'[i] = zht[p] /\ \A j \in Procs \ {i} : peer'[j] = peer[j]
    BY <1>1, <1>5 DEF Typed, SessionsTyped
  <2>2. /\ OnlySession(i) /\ pc'[i] = "fetch" /\ path' = path /\ intent' = intent
        /\ wrote' = wrote /\ wanted' = wanted
    BY <1>1, <1>5, <2>1, StaysInSession DEF Typed, PCs
  <2>3. Turns(i, p)
    BY <1>1, <2>2 DEF Turns, Linking
  <2>4. ~Locates(zht[p], n) /\ (zht[p] # None => ~zht[p].hdd)
    BY <1>2, <1>5 DEF NoTransfer, Locates, Got
  <2>5. SessionNow(i)'
    BY <1>1, <2>1, <2>2, <2>4
       DEF SessionNow, Stages, Opening, Creating, Closing, Unlinking, Elsewhere
  <2>6. QED
    BY <1>3, <2>3, <2>5, TieredStep
<1>6. QED
  BY <1>4, <1>5

\* The transfer of fusion_getattr: the location's content arrives, on the tier
\* the local link points to.
LEMMA TieredRecvfile ==
    ASSUME TakeTurns, Tiered, NEW i \in Procs, NEW p \in Paths, path[i] = p,
           ffs_recvfile(i), Typed'
    PROVE  Tiered'
<1> DEFINE n == Home[i]
           data == Data(peer[i].node, p)
<1>1. /\ n \in Nodes /\ SessionNow(i) /\ Typed /\ pc[i] = "fetch"
      /\ UNCHANGED <<zht, queue, fd, committed>>
      /\ wrote[i] = {} /\ wanted[i] = committed[p]
  BY SystemAssumption DEF Tiered, ffs_recvfile, SessionNow, Stages
<1>2. /\ peer[i] = zht[p] /\ zht[p] # None /\ zht[p].node \in Nodes \ {n} /\ ~peer[i].hdd
      /\ Got(zht[p].node, p, committed[p])
  <2>1. peer[i] = zht[p] /\ ~Locates(zht[p], n) /\ peer[i] # None
    BY <1>1 DEF SessionNow, Opening, Elsewhere, Typed, Opened, OpenedBy
  <2>2. QED
    BY <1>1, <2>1, Before DEF Linking, Locates
<1>3. data \in Content /\ committed[p] \subseteq data
  BY <1>1, <1>2
     DEF Typed, StoresTyped, Got, Data, Present, OnSsd, is_symlink_ssd
<1>4. data # None /\ data # Link
  BY <1>3, ContentIsData
<1>5. Rewrite(n, p, data) /\ Lstat(i, "file")
  BY <1>2, <1>4 DEF ffs_recvfile
<1>6. /\ \A m \in Nodes, q \in Paths :
            m # n \/ q # p => ssd'[m][q] = ssd[m][q] /\ hdd'[m][q] = hdd[m][q]
      /\ IF ssd[n][p] = Link THEN hdd'[n][p] = data /\ ssd' = ssd
                             ELSE ssd'[n][p] = data /\ hdd' = hdd
  BY <1>1, <1>3, <1>5, RewriteTyped
<1>7. OnlySession(i) /\ pc'[i] \in {"idle", "known"}
  BY <1>1, <1>5, LstatTyped DEF Typed
<1>8. Turns(i, p)
  BY <1>1, <1>6, <1>7 DEF Turns, Linking
<1>9. TierInv(p)'
  BY <1>1, <1>2, <1>6, <1>8, TierKept
<1>10. SessionNow(i)'
  <2>1. CASE pc'[i] = "idle"
    BY <1>1, <1>5, <2>1, LstatTyped, EndedNow DEF Typed
  <2>2. CASE pc'[i] = "known"
    <3>1. /\ path'[i] = p /\ intent'[i] = intent[i] /\ wrote'[i] = {}
          /\ wanted'[i] = committed[p] /\ peer'[i] = None
      BY <1>1, <1>5, <2>2, LstatTyped, SystemAssumption DEF Typed
    <3>2. IsNewest(i)'
      BY <1>1, <1>3, <1>4, <1>6, <3>1
         DEF IsNewest, Got, Present, OnSsd, is_symlink_ssd, Data
    <3>3. QED
      BY <1>1, <2>2, <3>1, <3>2
         DEF SessionNow, Stages, Opening, Creating, Closing, Unlinking
  <2>3. QED
    BY <1>7, <2>1, <2>2
<1>11. QED
  BY <1>8, <1>9, <1>10, TieredStep

\* fusion_open and fusion_create begin.
LEMMA TieredOpen ==
    ASSUME TakeTurns, Tiered, NEW i \in Procs, NEW p \in Paths, path[i] = p,
           fusion_open(i) \/ fusion_create(i), Typed'
    PROVE  Tiered'
<1> DEFINE n == Home[i]
<1>1. /\ n \in Nodes /\ SessionNow(i) /\ Typed
      /\ UNCHANGED <<zht, ssd, hdd, queue, fd, peer, session, committed>>
  BY SystemAssumption DEF Tiered, stores, fusion_open, fusion_create
<1>2. \/ /\ pc[i] = "known" /\ intent[i] \in {"read", "write"}
         /\ Goto(i, IF is_symlink_ssd(n, p) THEN "evict_open" ELSE "open")
      \/ pc[i] = "absent" /\ Goto(i, "evict_create")
  BY DEF fusion_open, fusion_create
<1>3. /\ OnlySession(i) /\ path' = path /\ intent' = intent /\ wrote' = wrote /\ wanted' = wanted
      /\ \/ /\ pc[i] = "known" /\ intent[i] \in {"read", "write"}
            /\ pc'[i] = IF is_symlink_ssd(n, p) THEN "evict_open" ELSE "open"
         \/ pc[i] = "absent" /\ pc'[i] = "evict_create"
  BY <1>1, <1>2, StaysInSession DEF Typed, PCs
<1>4. Turns(i, p)
  BY <1>1, <1>3 DEF Turns, Linking
<1>5. TierInv(p)'
  BY <1>1, <1>3, <1>4, TierKept
<1>6. SessionNow(i)'
  BY <1>1, <1>3
     DEF SessionNow, Stages, Opening, Creating, Closing, Unlinking, IsNewest, Got, Fresh,
         Present, OnSsd, is_symlink_ssd, Data
<1>7. QED
  BY <1>4, <1>5, <1>6, TieredStep

\* fusion_open removes the link of a file on the HDD.
LEMMA TieredUnlinkSymlink ==
    ASSUME TakeTurns, Tiered, NEW i \in Procs, NEW p \in Paths, path[i] = p,
           UnlinkSymlink(i), Typed'
    PROVE  Tiered'
<1> DEFINE n == Home[i]
<1>1. /\ n \in Nodes /\ SessionNow(i) /\ Typed /\ pc[i] = "evict_open" /\ Goto(i, "swap")
      /\ ssd' = Set(ssd, n, p, None)
      /\ UNCHANGED <<zht, hdd, queue, peer, session, victim, committed>>
  BY SystemAssumption DEF Tiered, UnlinkSymlink
<1>2. /\ IsNewest(i) /\ is_symlink_ssd(n, p) /\ wrote[i] = {}
  BY <1>1 DEF SessionNow, Stages, Opening
<1>3. hdd[n][p] # None /\ committed[p] \subseteq hdd[n][p]
  BY <1>2 DEF IsNewest, Got, Data, is_symlink_ssd
<1>4. \A m \in Nodes, q \in Paths : ssd'[m][q] = IF m = n /\ q = p THEN None ELSE ssd[m][q]
  BY <1>1 DEF Typed, StoresTyped, Set
<1>5. /\ OnlySession(i) /\ path' = path /\ intent' = intent /\ wrote' = wrote /\ wanted' = wanted
      /\ pc'[i] = "swap"
  BY <1>1, StaysInSession DEF Typed, PCs
<1>6. Turns(i, p)
  BY <1>1, <1>4, <1>5 DEF Turns, Linking
<1>7. TierInv(p)'
  <2>1. /\ zht[p] = None => committed[p] = {}
        /\ zht[p] # None =>
              /\ zht[p].node \in Nodes /\ ~zht[p].hdd
              /\ Got(zht[p].node, p, committed[p]) /\ Holds(zht[p].node, p, committed[p])
              /\ OnSsd(zht[p].node, p) => p \in queue[zht[p].node]
    BY <1>1, Before DEF Linking
  <2>2. BeingLinked(n, p)'
    BY <1>1, <1>5 DEF BeingLinked
  <2>3. CASE zht[p] # None /\ zht[p].node = n
    BY <1>1, <1>3, <1>4, <2>1, <2>2, <2>3 DEF TierInv, Located, Holds, OnSsd
  <2>4. CASE zht[p] # None /\ zht[p].node # n
    BY <1>1, <1>4, <2>1, <2>4
       DEF TierInv, Located, Holds, OnSsd, Got, Present, is_symlink_ssd
  <2>5. QED
    BY <1>1, <2>1, <2>3, <2>4 DEF TierInv
<1>8. SessionNow(i)'
  BY <1>1, <1>3, <1>4, <1>5 DEF SessionNow, Stages, Opening, Creating, Closing, Unlinking
<1>9. QED
  BY <1>6, <1>7, <1>8, TieredStep

\* fusion_open swaps the file in.
LEMMA TieredMoveToSsd ==
    ASSUME TakeTurns, Tiered, NEW i \in Procs, NEW p \in Paths, path[i] = p,
           MoveToSsd(i), Typed'
    PROVE  Tiered'
<1> DEFINE n == Home[i]
<1>1. /\ n \in Nodes /\ SessionNow(i) /\ Typed /\ pc[i] = "swap" /\ Goto(i, "open")
      /\ UNCHANGED <<zht, queue, peer, session, victim, committed>>
  BY SystemAssumption DEF Tiered, MoveToSsd
<1>2. hdd[n][p] # None /\ committed[p] \subseteq hdd[n][p] /\ ssd[n][p] = None /\ wrote[i] = {}
  BY <1>1 DEF SessionNow, Stages, Opening
<1>3. /\ ssd' = Set(ssd, n, p, hdd[n][p])
      /\ hdd' = Set(hdd, n, p, None)
  BY <1>1, <1>2 DEF MoveToSsd
<1>4. \A m \in Nodes, q \in Paths :
         /\ ssd'[m][q] = IF m = n /\ q = p THEN hdd[n][p] ELSE ssd[m][q]
         /\ hdd'[m][q] = IF m = n /\ q = p THEN None ELSE hdd[m][q]
  BY <1>1, <1>3 DEF Typed, StoresTyped, Set
<1>5. /\ OnlySession(i) /\ path' = path /\ intent' = intent /\ wrote' = wrote /\ wanted' = wanted
      /\ pc'[i] = "open"
  BY <1>1, StaysInSession DEF Typed, PCs
<1>6. Turns(i, p)
  BY <1>1, <1>4, <1>5 DEF Turns, Linking
<1>7. OnSsd(n, p)' /\ committed[p] \subseteq ssd'[n][p]
  <2>1. hdd[n][p] \in Content
    BY <1>1, <1>2 DEF Typed, StoresTyped
  <2>2. QED
    BY <1>1, <1>2, <1>4, <2>1, ContentIsData DEF OnSsd
<1>8. TierInv(p)'
  <2>1. /\ ~BeingMoved(p) /\ ~BeingRemoved(p)
        /\ \A m \in Nodes : ~BeingOpened(m, p) /\ (BeingLinked(m, p) => m = n)
    BY <1>1, Sole DEF Tiered
  <2>2. TierInv(p) /\ (zht[p] # None => zht[p].node \in Nodes)
    BY DEF Tiered, Typed, StoresTyped, Entry
  <2>3. BeingOpened(n, p)'
    BY <1>1, <1>5 DEF BeingOpened
  <2>4. CASE zht[p] # None /\ zht[p].node = n
    BY <1>1, <1>7, <2>2, <2>1, <2>3, <2>4 DEF TierInv, Located, Holds, Present
  <2>5. CASE zht[p] # None /\ zht[p].node # n
    BY <1>1, <1>4, <2>1, <2>2, <2>5
       DEF TierInv, Located, Holds, OnSsd, Present, is_symlink_ssd
  <2>6. QED
    BY <1>1, <2>1, <2>2, <2>4, <2>5 DEF TierInv
<1>9. SessionNow(i)'
  <2>1. IsNewest(i)'
    BY <1>1, <1>2, <1>5, <1>7 DEF IsNewest, Got, Present, OnSsd, Data
  <2>2. QED
    BY <1>1, <1>5, <1>7, <2>1 DEF SessionNow, Stages, Opening, Creating, Closing, Unlinking
<1>10. QED
  BY <1>6, <1>8, <1>9, TieredStep

\* fusion_open opens the file on the SSD and queues it.
LEMMA TieredOpenFd ==
    ASSUME TakeTurns, Tiered, NEW i \in Procs, NEW p \in Paths, path[i] = p, OpenFd(i), Typed'
    PROVE  Tiered'
<1> DEFINE n == Home[i]
<1>1. /\ n \in Nodes /\ SessionNow(i) /\ Typed /\ pc[i] = "open"
      /\ queue' = insque(n, p)
      /\ UNCHANGED <<zht, ssd, hdd, victim, committed>>
  BY SystemAssumption DEF Tiered, stores, OpenFd
<1>2. IsNewest(i) /\ OnSsd(n, p)
  BY <1>1 DEF SessionNow, Opening
<1>3. /\ Goto(i, "opened") /\ UNCHANGED <<session, peer>>
      /\ fd' = [fd EXCEPT ![i] = [at |-> "ssd", data |-> {}]]
  BY <1>1, <1>2 DEF OpenFd, Present
<1>4. \A m \in Nodes : queue'[m] = IF m = n THEN queue[m] \cup {p} ELSE queue[m]
  BY <1>1 DEF Typed, StoresTyped, insque
<1>5. /\ OnlySession(i) /\ path' = path /\ intent' = intent /\ wrote' = wrote /\ wanted' = wanted
      /\ peer' = peer /\ pc'[i] = "opened"
  BY <1>1, <1>3, StaysInSession DEF Typed, PCs
<1>6. fd'[i].at = "ssd"
  BY <1>1, <1>3 DEF Typed, FdTyped
<1>7. Turns(i, p)
  <2>1. \A m \in Nodes, q \in Paths \ {p} : q \in queue'[m] <=> q \in queue[m]
    BY <1>4
  <2>2. QED
    BY <1>1, <1>5, <2>1 DEF Turns, Linking
<1>8. TierInv(p)'
  <2>1. /\ ~BeingMoved(p) /\ ~BeingRemoved(p)
        /\ \A m \in Nodes : ~BeingLinked(m, p) /\ (BeingOpened(m, p) => m = n)
    BY <1>1, Sole DEF Tiered, Linking
  <2>2. TierInv(p) /\ (zht[p] # None => zht[p].node \in Nodes)
    BY DEF Tiered, Typed, StoresTyped, Entry
  <2>3. QED
    BY <1>1, <1>4, <2>1, <2>2 DEF TierInv, Located, Holds, OnSsd, Present, is_symlink_ssd
<1>9. SessionNow(i)'
  BY <1>1, <1>2, <1>4, <1>5, <1>6
     DEF SessionNow, Stages, Opening, Creating, Closing, Unlinking, IsNewest, Got, Queued,
         Present, OnSsd, is_symlink_ssd, Data
<1>10. QED
  BY <1>7, <1>8, <1>9, TieredStep

\* fusion_write adds to the tier the descriptor leads to.
LEMMA TieredWrite ==
    ASSUME TakeTurns, Tiered, NEW i \in Procs, NEW p \in Paths, path[i] = p,
           fusion_write(i), Typed'
    PROVE  Tiered'
<1> DEFINE n == Home[i]
<1>1. /\ n \in Nodes /\ SessionNow(i) /\ Typed /\ pc[i] = "opened" /\ intent[i] = "write"
      /\ UNCHANGED <<zht, queue, committed, pc, path, intent, peer, victim, wanted>>
  BY SystemAssumption DEF Tiered, fusion_write
<1>2. /\ IsNewest(i) /\ Queued(i)
      /\ fd[i].at = "ssd" \/ (fd[i].at = "hdd" /\ ssd[n][p] = Link)
      /\ fd[i].at = "ssd" => OnSsd(n, p)
  BY <1>1 DEF SessionNow, Closing, Typed, Opened, OpenedBy
<1>3. PICK w \in Writes :
          /\ wrote' = [wrote EXCEPT ![i] = @ \cup {w}]
          /\ \/ fd[i].at = "ssd" /\ ssd' = Set(ssd, n, p, ssd[n][p] \cup {w})
                                 /\ UNCHANGED <<hdd, fd>>
             \/ fd[i].at = "hdd" /\ hdd' = Set(hdd, n, p, hdd[n][p] \cup {w})
                                 /\ UNCHANGED <<ssd, fd>>
  BY <1>1, <1>2 DEF fusion_write
<1>4. /\ Data(n, p) \in Content /\ Data(n, p) \cup {w} \in Content
      /\ fd' = fd
      /\ \A m \in Nodes, q \in Paths :
            m # n \/ q # p => ssd'[m][q] = ssd[m][q] /\ hdd'[m][q] = hdd[m][q]
      /\ IF ssd[n][p] = Link THEN hdd'[n][p] = Data(n, p) \cup {w} /\ ssd' = ssd
                             ELSE ssd'[n][p] = Data(n, p) \cup {w} /\ hdd' = hdd
  <2>1. Data(n, p) \in Content /\ Data(n, p) \cup {w} \in Content
    BY <1>1, <1>2
       DEF Typed, StoresTyped, Content, IsNewest, Got, Data, Present, OnSsd, is_symlink_ssd
  <2>2. CASE fd[i].at = "ssd"
    <3>1. ssd' = Set(ssd, n, p, Data(n, p) \cup {w}) /\ hdd' = hdd /\ fd' = fd
      BY <1>2, <1>3, <2>2 DEF Data, OnSsd
    <3>2. QED
      BY <1>1, <1>2, <2>1, <2>2, <3>1 DEF Typed, StoresTyped, Set, OnSsd
  <2>3. CASE fd[i].at = "hdd"
    <3>1. hdd' = Set(hdd, n, p, Data(n, p) \cup {w}) /\ ssd' = ssd /\ fd' = fd
      BY <1>2, <1>3, <2>3 DEF Data
    <3>2. QED
      BY <1>1, <1>2, <2>1, <2>3, <3>1 DEF Typed, StoresTyped, Set
  <2>4. QED
    BY <1>2, <2>1, <2>2, <2>3
<1>5. wrote'[i] = wrote[i] \cup {w} /\ \A j \in Procs \ {i} : wrote'[j] = wrote[j]
  BY <1>1, <1>3 DEF Typed, SessionsTyped
<1>6. OnlySession(i)
  BY <1>1, <1>5 DEF OnlySession, Typed, SessionsTyped
<1>7. Turns(i, p)
  BY <1>1, <1>4, <1>6 DEF Turns, Linking
<1>8. Data(n, p) \cup {w} # None /\ Data(n, p) \cup {w} # Link
  BY <1>4, ContentIsData
<1>9. IsNewest(i)'
  BY <1>1, <1>2, <1>4, <1>5, <1>8
     DEF IsNewest, Got, Present, OnSsd, is_symlink_ssd, Data
<1>10. TierInv(p)'
  <2>1. /\ zht[p] = None => committed[p] = {}
        /\ zht[p] # None =>
              /\ zht[p].node \in Nodes /\ ~zht[p].hdd
              /\ Got(zht[p].node, p, committed[p]) /\ Holds(zht[p].node, p, committed[p])
              /\ OnSsd(zht[p].node, p) => p \in queue[zht[p].node]
    BY <1>1, Before DEF Linking
  <2>2. CASE zht[p] # None /\ zht[p].node = n
    <3>1. committed[p] \subseteq Data(n, p)
      BY <2>1, <2>2 DEF Got
    <3>2. QED
      BY <1>1, <1>2, <1>4, <1>8, <2>1, <2>2, <3>1
         DEF TierInv, Located, Holds, OnSsd, Present, is_symlink_ssd, Queued
  <2>3. CASE zht[p] # None /\ zht[p].node # n
    BY <1>1, <1>4, <2>1, <2>3
       DEF TierInv, Located, Holds, OnSsd, Got, Present, is_symlink_ssd
  <2>4. QED
    BY <1>1, <2>1, <2>2, <2>3 DEF TierInv
<1>11. SessionNow(i)'
  <2>1. fd'[i].at = "ssd" \/ (fd'[i].at = "hdd" /\ ssd'[n][p] = Link)
    BY <1>2, <1>4
  <2>2. QED
    BY <1>1, <1>2, <1>9, <2>1
       DEF SessionNow, Stages, Opening, Creating, Closing, Unlinking, Queued
<1>12. QED
  BY <1>7, <1>10, <1>11, TieredStep

\* fusion_release: at the location the writes are released at once, elsewhere
\* the file is taken over or the copy dropped.
LEMMA TieredRelease ==
    ASSUME TakeTurns, Tiered, NEW i \in Procs, NEW p \in Paths, path[i] = p,
           fusion_release(i), Typed'
    PROVE  Tiered'
<1> DEFINE n == Home[i]
<1>1. /\ n \in Nodes /\ SessionNow(i) /\ Typed /\ pc[i] = "opened"
      /\ UNCHANGED <<zht, ssd, hdd, queue, victim>>
  BY SystemAssumption DEF Tiered, stores, fusion_release
<1>2. /\ zht[p] = None => committed[p] = {}
      /\ zht[p] # None =>
            /\ zht[p].node \in Nodes /\ ~zht[p].hdd
            /\ Got(zht[p].node, p, committed[p]) /\ Holds(zht[p].node, p, committed[p])
            /\ OnSsd(zht[p].node, p) => p \in queue[zht[p].node]
  BY <1>1, Before DEF Linking
<1>3. /\ IsNewest(i) /\ Queued(i)
      /\ intent[i] # "write" => wrote[i] = {}
  BY <1>1 DEF SessionNow, Stages, Closing
<1>4. CASE IsLocal(n, p) /\ Commit(i) /\ EndSession(i)
  <2>1. /\ committed'[p] = committed[p] \cup wrote[i]
        /\ \A q \in Paths \ {p} : committed'[q] = committed[q]
    BY <1>1, <1>4 DEF Commit, Typed, SessionsTyped
  <2>2. Turns(i, p)
    BY <1>1, <1>4, <2>1, EndSessionTyped DEF Turns, Typed, Linking
  <2>3. zht[p] # None /\ zht[p].node = n
    BY <1>4 DEF IsLocal, Locates
  <2>4. TierInv(p)'
    BY <1>1, <1>2, <1>3, <2>1, <2>3
       DEF TierInv, Located, Holds, OnSsd, Got, Present, is_symlink_ssd, IsNewest, Data, Queued
  <2>5. SessionNow(i)'
    BY <1>1, <1>4, EndSessionTyped, EndedNow DEF Typed
  <2>6. QED
    BY <2>2, <2>4, <2>5, TieredStep
<1>5. CASE /\ ~IsLocal(n, p) /\ peer' = [peer EXCEPT ![i] = zht[p]]
           /\ Goto(i, IF intent[i] = "write" THEN "update" ELSE "drop")
           /\ UNCHANGED <<session, committed>>
  <2>1. peer'[i] = zht[p] /\ \A j \in Procs \ {i} : peer'[j] = peer[j]
    BY <1>1, <1>5 DEF Typed, SessionsTyped
  <2>2. /\ OnlySession(i) /\ path' = path /\ intent' = intent /\ wrote' = wrote /\ wanted' = wanted
        /\ pc'[i] = IF intent[i] = "write" THEN "update" ELSE "drop"
    BY <1>1, <1>5, <2>1, StaysInSession DEF Typed, PCs
  <2>3. Turns(i, p)
    BY <1>1, <1>5, <2>2 DEF Turns, Linking
  <2>4. TierInv(p)'
    BY <1>1, <1>5, <2>3, TierKept
  <2>5. SessionNow(i)'
    BY <1>1, <1>2, <1>3, <1>5, <2>1, <2>2
       DEF SessionNow, Stages, Opening, Creating, Closing, Unlinking, IsNewest, Got, Queued,
           Elsewhere, IsLocal, Present, OnSsd, is_symlink_ssd, Data
  <2>6. QED
    BY <2>3, <2>4, <2>5, TieredStep
<1>6. QED
  BY <1>4, <1>5 DEF fusion_release

\* The remove of zht_update.
LEMMA TieredZhtRemove ==
    ASSUME TakeTurns, Tiered, NEW i \in Procs, NEW p \in Paths, path[i] = p,
           zht_remove(i), Typed'
    PROVE  Tiered'
<1>1. /\ Home[i] \in Nodes /\ SessionNow(i) /\ Typed /\ pc[i] = "update" /\ Goto(i, "update2")
      /\ UNCHANGED <<ssd, hdd, queue, fd, peer, session, committed>>
  BY SystemAssumption DEF Tiered, stores, zht_remove
<1>2. zht'[p] = None /\ \A q \in Paths \ {p} : zht'[q] = zht[q]
  BY <1>1 DEF zht_remove, Typed, StoresTyped
<1>3. /\ OnlySession(i) /\ pc'[i] = "update2" /\ path' = path /\ intent' = intent /\ wrote' = wrote
      /\ wanted' = wanted
  BY <1>1, StaysInSession DEF Typed, PCs
<1>4. Turns(i, p)
  BY <1>1, <1>2, <1>3 DEF Turns, Linking
<1>5. TierInv(p)'
  BY <1>1, <1>2, <1>3 DEF TierInv, BeingMoved
<1>6. SessionNow(i)'
  BY <1>1, <1>2, <1>3
     DEF SessionNow, Stages, Opening, Creating, Closing, Unlinking, IsNewest, Got, Queued,
         Elsewhere, OldElsewhere, Present, OnSsd, is_symlink_ssd, Data
<1>7. QED
  BY <1>4, <1>5, <1>6, TieredStep

\* The insert of zht_update and of fusion_create.
LEMMA TieredZhtInsert ==
    ASSUME TakeTurns, Tiered, NEW i \in Procs, NEW p \in Paths, path[i] = p,
           zht_insert(i) \/ InsertCreated(i), Typed'
    PROVE  Tiered'
<1> DEFINE n == Home[i]
<1>1. /\ n \in Nodes /\ SessionNow(i) /\ Typed
      /\ UNCHANGED <<ssd, hdd, queue, fd, peer, session, committed>>
      /\ \/ pc[i] = "update2" /\ Goto(i, "rmold")
         \/ pc[i] = "insert" /\ Goto(i, "opened")
  BY SystemAssumption DEF Tiered, stores, zht_insert, InsertCreated
<1>2. zht'[p] = At(n) /\ \A q \in Paths \ {p} : zht'[q] = zht[q]
  BY <1>1 DEF zht_insert, InsertCreated, Typed, StoresTyped
<1>3. At(n) # None /\ At(n).node = n /\ ~At(n).hdd
  BY <1>1, AtEntry
<1>4. /\ OnlySession(i) /\ path' = path /\ intent' = intent /\ wrote' = wrote /\ wanted' = wanted
      /\ \/ pc[i] = "update2" /\ pc'[i] = "rmold"
         \/ pc[i] = "insert" /\ pc'[i] = "opened"
  BY <1>1, StaysInSession DEF Typed, PCs
<1>5. IsNewest(i) /\ Queued(i)
  BY <1>1 DEF SessionNow, Stages, Creating, Closing, Fresh, IsNewest, Got
<1>6. Holds(n, p, committed[p] \cup wrote[i]) /\ Present(n, p)
  BY <1>1, <1>5 DEF IsNewest, Got, Holds, Present, Data, OnSsd, is_symlink_ssd
<1>7. Turns(i, p)
  BY <1>1, <1>2, <1>4 DEF Turns, Linking
<1>8. TierInv(p)'
  <2>1. Located(n, p)'
    BY <1>1, <1>5, <1>6 DEF Located, Holds, Present, OnSsd, is_symlink_ssd, Queued
  <2>2. QED
    BY <1>2, <1>3, <2>1 DEF TierInv
<1>9. SessionNow(i)'
  BY <1>1, <1>2, <1>4, <1>5, <1>6
     DEF SessionNow, Stages, Opening, Creating, Closing, Unlinking, IsNewest, Got, Queued,
         OldElsewhere, Holds, Present, OnSsd, is_symlink_ssd, Data
<1>10. QED
  BY <1>7, <1>8, <1>9, TieredStep

\* unlink(2) of one copy.
LEMMA UnlinkLeaves ==
    ASSUME Typed, NEW n \in Nodes, NEW p \in Paths, Unlink(n, p)
    PROVE  /\ hdd' = hdd
           /\ \A m \in Nodes, q \in Paths :
                 ssd'[m][q] = IF m = n /\ q = p THEN None ELSE ssd[m][q]
BY DEF Unlink, Typed, StoresTyped, Set

\* fusion_release removes the copy of the old location, which is not this node.
LEMMA TieredRemoveOld ==
    ASSUME TakeTurns, Tiered, NEW i \in Procs, NEW p \in Paths, path[i] = p,
           RemoveOldCopy(i), Typed'
    PROVE  Tiered'
<1> DEFINE n == Home[i]
<1>1. /\ n \in Nodes /\ SessionNow(i) /\ Typed /\ pc[i] = "rmold"
      /\ UNCHANGED <<zht, queue, peer, session, victim, committed>> /\ Goto(i, "evict_release")
      /\ ffs_rmfile(peer[i], p)
  BY SystemAssumption DEF Tiered, RemoveOldCopy, OldLocation
<1>2. /\ OnlySession(i) /\ path' = path /\ intent' = intent /\ wrote' = wrote /\ wanted' = wanted
      /\ pc'[i] = "evict_release"
  BY <1>1, StaysInSession DEF Typed, PCs
<1>3. ~Locates(peer[i], n) /\ zht[p] = At(n) /\ At(n) # None /\ At(n).node = n
  BY <1>1, AtEntry DEF SessionNow, Closing, OldElsewhere
<1>4. /\ hdd' = hdd
      /\ \A m \in Nodes, q \in Paths : q # p \/ m = n => ssd'[m][q] = ssd[m][q]
  <2>1. CASE peer[i] = None
    BY <1>1, <2>1 DEF ffs_rmfile, stores
  <2>2. CASE peer[i] # None
    <3>1. ~peer[i].hdd /\ peer[i].node \in Nodes \ {n}
      BY <1>1, <1>3, <2>2 DEF SessionNow, Stages, Locates, Typed, SessionsTyped, Entry
    <3>2. Unlink(peer[i].node, p)
      BY <1>1, <2>2, <3>1 DEF ffs_rmfile
    <3>3. QED
      BY <1>1, <3>1, <3>2, UnlinkLeaves
  <2>3. QED
    BY <2>1, <2>2
<1>5. Turns(i, p)
  BY <1>1, <1>2, <1>4 DEF Turns, Linking
<1>6. TierInv(p)'
  BY <1>1, <1>3, <1>4, <1>5, TierKept
<1>7. SessionNow(i)'
  BY <1>1, <1>2, <1>3, <1>4
     DEF SessionNow, Stages, Opening, Creating, Closing, Unlinking, Holds, OnSsd
<1>8. QED
  BY <1>5, <1>6, <1>7, TieredStep

\* The end of a take-over.
LEMMA TieredReleaseEnd ==
    ASSUME TakeTurns, Tiered, NEW i \in Procs, NEW p \in Paths, path[i] = p,
           ReleaseEnd(i), Typed'
    PROVE  Tiered'
<1> DEFINE n == Home[i]
<1>1. /\ n \in Nodes /\ SessionNow(i) /\ Typed
      /\ pc[i] = "evict_release" /\ EndSession(i) /\ Commit(i)
      /\ UNCHANGED <<zht, ssd, hdd, queue, victim>>
  BY SystemAssumption DEF Tiered, ReleaseEnd, stores
<1>2. /\ zht[p] = At(n) /\ At(n).node = n /\ At(n) # None
      /\ Holds(n, p, committed[p] \cup wrote[i])
  BY <1>1, AtEntry DEF SessionNow, Closing
<1>3. /\ committed'[p] = committed[p] \cup wrote[i]
      /\ \A q \in Paths \ {p} : committed'[q] = committed[q]
  BY <1>1 DEF Commit, Typed, SessionsTyped
<1>4. Turns(i, p)
  BY <1>1, <1>3, EndSessionTyped DEF Turns, Typed, Linking
<1>5. TierInv(p)'
  <2>1. /\ zht[p] # None => ~zht[p].hdd /\ Got(zht[p].node, p, committed[p])
        /\ OnSsd(n, p) => p \in queue[n]
    BY <1>1, <1>2, Before DEF Linking
  <2>2. QED
    BY <1>1, <1>2, <1>3, <2>1
       DEF TierInv, Located, Holds, OnSsd, Got, Present, is_symlink_ssd
<1>6. SessionNow(i)'
  BY <1>1, EndSessionTyped, EndedNow DEF Typed
<1>7. QED
  BY <1>4, <1>5, <1>6, TieredStep

\* A reader drops its copy, which is not the one ZHT names.
LEMMA TieredDrop ==
    ASSUME TakeTurns, Tiered, NEW i \in Procs, NEW p \in Paths, path[i] = p, DropCopy(i), Typed'
    PROVE  Tiered'
<1> DEFINE n == Home[i]
<1>1. /\ n \in Nodes /\ SessionNow(i) /\ Typed
      /\ pc[i] = "drop" /\ EndSession(i) /\ Unlink(n, p) /\ queue' = rmelem(n, p)
      /\ UNCHANGED <<zht, committed, victim>>
  BY SystemAssumption DEF Tiered, DropCopy
<1>2. ~Locates(zht[p], n)
  BY <1>1 DEF SessionNow, Closing, Elsewhere
<1>3. /\ hdd' = hdd
      /\ \A m \in Nodes, q \in Paths :
            ssd'[m][q] = IF m = n /\ q = p THEN None ELSE ssd[m][q]
  BY <1>1, UnlinkLeaves
<1>4. \A m \in Nodes : queue'[m] = IF m = n THEN queue[m] \ {p} ELSE queue[m]
  BY <1>1 DEF Typed, StoresTyped, rmelem
<1>5. Turns(i, p)
  <2>1. OnlySession(i)
    BY <1>1, EndSessionTyped DEF Typed
  <2>2. \A m \in Nodes, q \in Paths \ {p} : q \in queue'[m] <=> q \in queue[m]
    BY <1>4
  <2>3. QED
    BY <1>1, <1>3, <2>1, <2>2 DEF Turns, Linking
<1>6. TierInv(p)'
  <2>1. zht[p] # None => zht[p].node \in Nodes \ {n}
    BY <1>1, <1>2 DEF Locates, Typed, StoresTyped, Entry
  <2>2. QED
    BY <1>1, <1>3, <1>4, <1>5, <2>1, TierKept
<1>7. SessionNow(i)'
  BY <1>1, EndSessionTyped, EndedNow DEF Typed
<1>8. QED
  BY <1>5, <1>6, <1>7, TieredStep

\* creat(2) in fusion_create: the file is unknown, whatever is left of it here
\* may be truncated.
LEMMA TieredCreat ==
    ASSUME TakeTurns, Tiered, NEW i \in Procs, NEW p \in Paths, path[i] = p, Creat(i), Typed'
    PROVE  Tiered'
<1> DEFINE n == Home[i]
<1>1. /\ n \in Nodes /\ SessionNow(i) /\ Typed
      /\ pc[i] = "evict_create" /\ Goto(i, "insert")
      /\ Rewrite(n, p, {}) /\ queue' = insque(n, p)
      /\ UNCHANGED <<zht, committed, session, peer, victim>>
      /\ fd' = [fd EXCEPT ![i] = [at |-> IF ssd[n][p] = Link THEN "hdd" ELSE "ssd",
                                  data |-> {}]]
  BY SystemAssumption DEF Tiered, Creat
<1>2. Fresh(i)
  BY <1>1 DEF SessionNow, Creating
<1>3. /\ OnlySession(i) /\ path' = path /\ intent' = intent /\ wrote' = wrote /\ wanted' = wanted
      /\ pc'[i] = "insert"
  BY <1>1, StaysInSession DEF Typed, PCs
<1>4. {} \in Content /\ {} # None /\ {} # Link
  BY ContentIsData DEF Content
<1>5. /\ \A m \in Nodes, q \in Paths :
            m # n \/ q # p => ssd'[m][q] = ssd[m][q] /\ hdd'[m][q] = hdd[m][q]
      /\ IF ssd[n][p] = Link THEN hdd'[n][p] = {} /\ ssd' = ssd
                             ELSE ssd'[n][p] = {} /\ hdd' = hdd
  BY <1>1, <1>4, RewriteTyped
<1>6. \A m \in Nodes : queue'[m] = IF m = n THEN queue[m] \cup {p} ELSE queue[m]
  BY <1>1 DEF Typed, StoresTyped, insque
<1>7. fd'[i].at = "ssd" \/ (fd'[i].at = "hdd" /\ ssd'[n][p] = Link)
  BY <1>1, <1>5 DEF Typed, FdTyped
<1>8. Turns(i, p)
  <2>1. \A m \in Nodes, q \in Paths \ {p} : q \in queue'[m] <=> q \in queue[m]
    BY <1>6
  <2>2. QED
    BY <1>1, <1>3, <1>5, <2>1 DEF Turns, Linking
<1>9. TierInv(p)'
  BY <1>1, <1>2 DEF TierInv, Fresh
<1>10. SessionNow(i)'
  <2>1. Present(n, p)'
    BY <1>4, <1>5 DEF Present, OnSsd, is_symlink_ssd
  <2>2. QED
    BY <1>1, <1>2, <1>3, <1>6, <1>7, <2>1
       DEF SessionNow, Stages, Opening, Creating, Closing, Unlinking, Fresh, Queued
<1>11. QED
  BY <1>8, <1>9, <1>10, TieredStep

\* fusion_unlink begins, with the HDD copy behind a local link.
LEMMA TieredUnlink ==
    ASSUME TakeTurns, Tiered, NEW i \in Procs, NEW p \in Paths, path[i] = p,
           fusion_unlink(i), Typed'
    PROVE  Tiered'
<1> DEFINE n == Home[i]
<1>1. /\ n \in Nodes /\ SessionNow(i) /\ Typed /\ pc[i] = "known" /\ intent[i] = "unlink"
      /\ UNCHANGED <<zht, ssd, victim>>
      /\ wrote[i] = {}
  BY SystemAssumption DEF Tiered, fusion_unlink, SessionNow, Stages
<1>2. CASE zht[p] = None /\ EndSession(i) /\ UNCHANGED <<hdd, queue, fd, committed>>
  <2>1. Turns(i, p)
    BY <1>1, <1>2, EndSessionTyped DEF Turns, Typed, Linking
  <2>2. TierInv(p)'
    BY <1>1, <1>2, <2>1, TierKept
  <2>3. SessionNow(i)'
    BY <1>1, <1>2, EndSessionTyped, EndedNow DEF Typed
  <2>4. QED
    BY <2>1, <2>2, <2>3, TieredStep
<1>3. CASE /\ zht[p] # None
           /\ IF is_symlink_ssd(n, p) THEN hdd' = Set(hdd, n, p, None) ELSE hdd' = hdd
           /\ queue' = rmelem(n, p)
           /\ committed' = [committed EXCEPT ![p] = {}]
           /\ Goto(i, "unlink") /\ UNCHANGED <<session, peer>>
  <2>1. /\ OnlySession(i) /\ path' = path /\ intent' = intent /\ wrote' = wrote /\ wanted' = wanted
        /\ peer' = peer /\ pc'[i] = "unlink"
    BY <1>1, <1>3, StaysInSession DEF Typed, PCs
  <2>2. committed'[p] = {} /\ \A q \in Paths \ {p} : committed'[q] = committed[q]
    BY <1>1, <1>3 DEF Typed, SessionsTyped
  <2>3. \A m \in Nodes : queue'[m] = IF m = n THEN queue[m] \ {p} ELSE queue[m]
    BY <1>1, <1>3 DEF Typed, StoresTyped, rmelem
  <2>4. \A m \in Nodes, q \in Paths \ {p} : hdd'[m][q] = hdd[m][q]
    <3>1. CASE hdd' = hdd
      BY <3>1
    <3>2. CASE hdd' = Set(hdd, n, p, None)
      BY <1>1, <3>2 DEF Typed, StoresTyped, Set
    <3>3. QED
      BY <1>3, <3>1, <3>2
  <2>5. \A m \in Nodes, q \in Paths \ {p} : q \in queue'[m] <=> q \in queue[m]
    BY <2>3
  <2>6. Turns(i, p)
    BY <1>1, <2>1, <2>2, <2>4, <2>5 DEF Turns, Linking
  <2>7. BeingRemoved(p)'
    BY <1>1, <2>1 DEF BeingRemoved
  <2>8. ~zht[p].hdd
    BY <1>1, <1>3, Before DEF Linking
  <2>9. TierInv(p)'
    BY <1>1, <1>3, <2>7, <2>8 DEF TierInv
  <2>10. SessionNow(i)'
    BY <1>1, <2>1, <2>2 DEF SessionNow, Stages, Opening, Creating, Closing, Unlinking
  <2>11. QED
    BY <2>6, <2>9, <2>10, TieredStep
<1>4. QED
  BY <1>2, <1>3 DEF fusion_unlink

\* The second lookup of fusion_unlink.
LEMMA TieredLookup ==
    ASSUME TakeTurns, Tiered, NEW i \in Procs, NEW p \in Paths, path[i] = p,
           LookupOldAddr(i), Typed'
    PROVE  Tiered'
<1>1. /\ Home[i] \in Nodes /\ SessionNow(i) /\ TierInv(p) /\ Typed
      /\ pc[i] = "unlink" /\ Goto(i, "unlink2") /\ peer' = [peer EXCEPT ![i] = zht[p]]
      /\ UNCHANGED <<zht, ssd, hdd, queue, fd, session, committed>>
  BY SystemAssumption DEF Tiered, LookupOldAddr, stores
<1>2. peer'[i] = zht[p] /\ \A j \in Procs \ {i} : peer'[j] = peer[j]
  BY <1>1 DEF Typed, SessionsTyped
<1>3. /\ OnlySession(i) /\ path' = path /\ intent' = intent /\ wrote' = wrote /\ wanted' = wanted
      /\ pc'[i] = "unlink2"
  BY <1>1, <1>2, StaysInSession DEF Typed, PCs
<1>4. intent[i] = "unlink" /\ committed[p] = {}
  BY <1>1 DEF SessionNow, Stages, Unlinking
<1>5. Turns(i, p)
  BY <1>1, <1>3 DEF Turns, Linking
<1>6. TierInv(p)'
  BY <1>1, <1>3, <1>4 DEF TierInv, BeingRemoved
<1>7. SessionNow(i)'
  BY <1>1, <1>2, <1>3, <1>4
     DEF SessionNow, Stages, Opening, Creating, Closing, Unlinking, TierInv
<1>8. QED
  BY <1>5, <1>6, <1>7, TieredStep

\* fusion_unlink removes the entry.
LEMMA TieredRemoveEntry ==
    ASSUME TakeTurns, Tiered, NEW i \in Procs, NEW p \in Paths, path[i] = p,
           RemoveEntry(i), Typed'
    PROVE  Tiered'
<1>1. /\ Home[i] \in Nodes /\ SessionNow(i) /\ Typed
      /\ pc[i] = "unlink2" /\ \E step \in {"unlink3", "rmremote"} : Goto(i, step)
      /\ UNCHANGED <<ssd, hdd, queue, fd, session, peer, committed>>
  BY SystemAssumption DEF Tiered, RemoveEntry, stores
<1>2. zht'[p] = None /\ \A q \in Paths \ {p} : zht'[q] = zht[q]
  BY <1>1 DEF RemoveEntry, Typed, StoresTyped
<1>3. /\ OnlySession(i) /\ path' = path /\ intent' = intent /\ wrote' = wrote /\ wanted' = wanted
      /\ pc'[i] \in {"unlink3", "rmremote"}
  BY <1>1, StaysInSession DEF Typed, PCs
<1>4. intent[i] = "unlink" /\ committed[p] = {}
  BY <1>1 DEF SessionNow, Stages, Unlinking
<1>5. Turns(i, p)
  BY <1>1, <1>2, <1>3 DEF Turns, Linking
<1>6. TierInv(p)'
  BY <1>1, <1>2, <1>4 DEF TierInv
<1>7. SessionNow(i)'
  BY <1>1, <1>2, <1>3, <1>4
     DEF SessionNow, Stages, Opening, Creating, Closing, Unlinking
<1>8. QED
  BY <1>5, <1>6, <1>7, TieredStep

\* fusion_unlink removes the remote and the local copy.
LEMMA TieredRemoveCopies ==
    ASSUME TakeTurns, Tiered, NEW i \in Procs, NEW p \in Paths, path[i] = p,
           RemoveRemote(i) \/ RemoveLocal(i), Typed'
    PROVE  Tiered'
<1>1. /\ Home[i] \in Nodes /\ SessionNow(i) /\ Typed
      /\ pc[i] \in {"rmremote", "unlink3"}
      /\ UNCHANGED <<zht, queue, committed, victim>>
  BY SystemAssumption DEF Tiered, RemoveRemote, RemoveLocal
<1>2. intent[i] = "unlink" /\ zht[p] = None /\ committed[p] = {}
  BY <1>1 DEF SessionNow, Stages, Unlinking
<1>3. hdd' = hdd /\ \A m \in Nodes, q \in Paths \ {p} : ssd'[m][q] = ssd[m][q]
  <2>1. CASE RemoveLocal(i)
    BY <1>1, <2>1, UnlinkLeaves DEF RemoveLocal
  <2>2. CASE RemoveRemote(i) /\ peer[i] = None
    BY <2>2 DEF RemoveRemote, ffs_rmfile, stores
  <2>3. CASE RemoveRemote(i) /\ peer[i] # None
    <3>1. peer[i].node \in Nodes /\ ~peer[i].hdd
      BY <1>1, <2>3 DEF SessionNow, Stages, Typed, SessionsTyped, Entry
    <3>2. Unlink(peer[i].node, p)
      BY <2>3, <3>1 DEF RemoveRemote, ffs_rmfile
    <3>3. QED
      BY <1>1, <3>1, <3>2, UnlinkLeaves
  <2>4. QED
    BY <1>1, <2>1, <2>2, <2>3 DEF RemoveRemote, RemoveLocal
<1>4. \/ EndSession(i)
      \/ /\ OnlySession(i) /\ path' = path /\ intent' = intent /\ wrote' = wrote /\ peer' = peer
         /\ pc'[i] = "unlink3"
  BY <1>1, StaysInSession DEF RemoveRemote, RemoveLocal, Typed, PCs
<1>5. OnlySession(i)
  BY <1>1, <1>4, EndSessionTyped DEF Typed
<1>6. Turns(i, p)
  BY <1>1, <1>3, <1>5 DEF Turns, Linking
<1>7. TierInv(p)'
  BY <1>1, <1>2 DEF TierInv
<1>8. SessionNow(i)'
  <2>1. CASE EndSession(i)
    BY <1>1, <2>1, EndSessionTyped, EndedNow DEF Typed
  <2>2. CASE ~EndSession(i)
    BY <1>1, <1>2, <1>4, <2>2
       DEF SessionNow, Stages, Opening, Creating, Closing, Unlinking
  <2>3. QED
    BY <2>1, <2>2
<1>9. QED
  BY <1>6, <1>7, <1>8, TieredStep

\* The two pcs of the eviction loop of a callback.
EvictionPairs == {<<"evict_open", "link_open">>, <<"evict_create", "link_create">>,
                  <<"evict_release", "link_release">>}

\* The victim's content is moved to the HDD, nothing else changes place.
LEMMA VictimMoves ==
    ASSUME Typed, NEW n \in Nodes, NEW v \in Paths, OnSsd(n, v),
           hdd' = MovedToHdd(n, v), ssd' = Set(ssd, n, v, None)
    PROVE  /\ \A m \in Nodes, q \in Paths :
                 m # n \/ q # v => ssd'[m][q] = ssd[m][q] /\ hdd'[m][q] = hdd[m][q]
           /\ ssd'[n][v] = None /\ hdd'[n][v] = ssd[n][v] /\ hdd'[n][v] # None
BY DEF Typed, StoresTyped, Set, MovedToHdd, OnSsd

\* A victim is moved to the HDD: its content is there, its name is about to
\* return, and it leaves the queue.
LEMMA TieredEvict ==
    ASSUME TakeTurns, Tiered, NEW i \in Procs, NEW p \in Paths, path[i] = p,
           NEW from, NEW to, <<from, to>> \in EvictionPairs, move_file_ssd(i, from, to), Typed'
    PROVE  Tiered'
<1> DEFINE n == Home[i]
<1>1. /\ n \in Nodes /\ SessionNow(i) /\ Typed /\ Goto(i, to) /\ pc[i] = from
      /\ UNCHANGED <<zht, peer, session, committed>>
      /\ from \in {"evict_open", "evict_create", "evict_release"} /\ to \in Linking \cap PCs
  BY SystemAssumption DEF Tiered, move_file_ssd, EvictionPairs, Linking, PCs
<1>2. PICK v \in queue[n] :
          /\ queue' = rmelem(n, v)
          /\ victim' = [victim EXCEPT ![i] = v]
          /\ IF OnSsd(n, v) THEN hdd' = MovedToHdd(n, v) /\ ssd' = Set(ssd, n, v, None)
                            ELSE UNCHANGED stores
  BY DEF move_file_ssd, Full
<1>3. v \in Paths
  BY <1>1, <1>2 DEF Typed, StoresTyped
<1>4. /\ OnlySession(i) /\ path' = path /\ intent' = intent /\ wrote' = wrote /\ wanted' = wanted
      /\ pc'[i] = to /\ peer' = peer /\ zht' = zht /\ committed' = committed
  BY <1>1, StaysInSession DEF Typed
<1>5. victim'[i] = v
  BY <1>1, <1>2 DEF Typed, SessionsTyped
<1>6. \A m \in Nodes, q \in Paths : q # v \/ m # n => (q \in queue'[m] <=> q \in queue[m])
  BY <1>1, <1>2, <1>3 DEF Typed, StoresTyped, rmelem
<1>7. /\ \A m \in Nodes, q \in Paths :
            m # n \/ q # v \/ ~OnSsd(n, v) =>
               ssd'[m][q] = ssd[m][q] /\ hdd'[m][q] = hdd[m][q]
      /\ OnSsd(n, v) =>
            ssd'[n][v] = None /\ hdd'[n][v] = ssd[n][v] /\ hdd'[n][v] # None
  <2>1. CASE OnSsd(n, v)
    BY <1>1, <1>2, <1>3, <2>1, VictimMoves
  <2>2. CASE ~OnSsd(n, v)
    BY <1>2, <2>2 DEF stores
  <2>3. QED
    BY <2>1, <2>2
<1>8. BeingLinked(n, v)'
  BY <1>1, <1>4, <1>5 DEF BeingLinked
<1>9. OneSession' /\ \A j \in Procs \ {i} : SessionNow(j)'
  BY <1>1, <1>4, OthersIdle, OneSessionKept DEF Tiered
<1>10. ASSUME NEW q \in Paths PROVE TierInv(q)'
  <2>1. /\ ~BeingMoved(q) /\ ~BeingRemoved(q)
        /\ \A m \in Nodes : ~BeingLinked(m, q) /\ ~BeingOpened(m, q)
    BY <1>1, Sole DEF Tiered, Linking
  <2>2. TierInv(q) /\ (zht[q] # None => zht[q].node \in Nodes)
    BY DEF Tiered, Typed, StoresTyped, Entry
  <2>3. CASE q # v \/ zht[q] = None
    BY <1>4, <1>6, <1>7, <2>1, <2>2, <2>3
       DEF TierInv, Located, Holds, OnSsd, Present, is_symlink_ssd
  <2>4. CASE q = v /\ zht[q] # None /\ zht[q].node # n
    BY <1>4, <1>6, <1>7, <2>1, <2>2, <2>4
       DEF TierInv, Located, Holds, OnSsd, Present, is_symlink_ssd
  <2>5. CASE q = v /\ zht[q] # None /\ zht[q].node = n
    <3>1. CASE OnSsd(n, v)
      BY <1>4, <1>7, <1>8, <2>1, <2>2, <2>5, <3>1 DEF TierInv, Located, Holds, OnSsd
    <3>2. CASE ~OnSsd(n, v)
      BY <1>4, <1>7, <2>1, <2>2, <2>5, <3>2
         DEF TierInv, Located, Holds, OnSsd, Present, is_symlink_ssd
    <3>3. QED
      BY <3>1, <3>2
  <2>6. QED
    BY <2>3, <2>4, <2>5
<1>11. SessionNow(i)'
  <2>1. CASE from = "evict_open"
    <3>1. to = "link_open" /\ IsNewest(i) /\ is_symlink_ssd(n, p) /\ wrote[i] = {}
          /\ wanted[i] = committed[p] /\ (peer[i] # None => ~peer[i].hdd)
      BY <1>1, <2>1 DEF SessionNow, Stages, Opening, EvictionPairs
    <3>2. ssd'[n][p] = ssd[n][p] /\ hdd'[n][p] = hdd[n][p]
      BY <1>1, <1>7, <3>1 DEF is_symlink_ssd, OnSsd
    <3>3. IsNewest(i)' /\ is_symlink_ssd(n, p)'
      BY <1>1, <1>4, <3>1, <3>2 DEF IsNewest, Got, Present, OnSsd, is_symlink_ssd, Data
    <3>4. QED
      BY <1>4, <3>1, <3>3
         DEF SessionNow, Stages, Opening, Creating, Closing, Unlinking
  <2>2. CASE from = "evict_create"
    <3>1. to = "link_create"
      BY <2>2 DEF EvictionPairs
    <3>2. QED
      BY <1>1, <1>4, <2>2, <3>1
         DEF SessionNow, Stages, Opening, Creating, Closing, Unlinking, Fresh
  <2>3. CASE from = "evict_release"
    <3>1. to = "link_release"
      BY <2>3 DEF EvictionPairs
    <3>2. Holds(n, p, committed[p] \cup wrote[i])
      BY <1>1, <2>3 DEF SessionNow, Closing
    <3>3. Holds(n, p, committed[p] \cup wrote[i])'
      BY <1>1, <1>3, <1>4, <1>7, <3>2 DEF Holds, OnSsd
    <3>4. QED
      BY <1>1, <1>4, <2>3, <3>1, <3>3
         DEF SessionNow, Stages, Opening, Creating, Closing, Unlinking
  <2>4. QED
    BY <1>1, <2>1, <2>2, <2>3
<1>12. QED
  BY <1>9, <1>10, <1>11 DEF Tiered

\* The victim is linked: unless something has taken its SSD path, it can be
\* reached again.
LEMMA TieredLink ==
    ASSUME TakeTurns, Tiered, NEW i \in Procs, NEW p \in Paths, path[i] = p,
           NEW from, NEW to, <<to, from>> \in EvictionPairs, LinkVictim(i, from, to), Typed'
    PROVE  Tiered'
<1> DEFINE n == Home[i]
           v == victim[i]
<1>1. /\ n \in Nodes /\ SessionNow(i) /\ Typed /\ Goto(i, to) /\ pc[i] = from
      /\ UNCHANGED <<zht, peer, session, committed, hdd, queue>>
      /\ to \in {"evict_open", "evict_create", "evict_release"} \cap PCs /\ from \in Linking
  BY SystemAssumption DEF Tiered, LinkVictim, EvictionPairs, Linking, PCs
<1>2. /\ OnlySession(i) /\ path' = path /\ intent' = intent /\ wrote' = wrote /\ wanted' = wanted
      /\ pc'[i] = to /\ peer' = peer /\ zht' = zht /\ committed' = committed
  BY <1>1, StaysInSession DEF Typed
<1>3. /\ \A m \in Nodes, q \in Paths :
            m # n \/ q # v \/ ssd[n][v] # None => ssd'[m][q] = ssd[m][q]
      /\ v \in Paths /\ ssd[n][v] = None => ssd'[n][v] = Link
  BY <1>1 DEF LinkVictim, Exists, Set, Typed, StoresTyped
<1>4. OneSession' /\ \A j \in Procs \ {i} : SessionNow(j)'
  BY <1>1, <1>2, OthersIdle, OneSessionKept DEF Tiered, Linking
<1>5. ASSUME NEW q \in Paths PROVE TierInv(q)'
  <2>1. /\ ~BeingMoved(q) /\ ~BeingRemoved(q)
        /\ \A m \in Nodes : ~BeingOpened(m, q) /\ (BeingLinked(m, q) => m = n /\ q = v)
    BY <1>1, Sole DEF Tiered, Linking
  <2>2. TierInv(q) /\ (zht[q] # None => zht[q].node \in Nodes)
    BY DEF Tiered, Typed, StoresTyped, Entry
  <2>3. CASE q # v \/ zht[q] = None
    BY <1>1, <1>2, <1>3, <2>1, <2>2, <2>3
       DEF TierInv, Located, Holds, OnSsd, Present, is_symlink_ssd
  <2>4. CASE q = v /\ zht[q] # None /\ zht[q].node # n
    BY <1>1, <1>2, <1>3, <2>1, <2>2, <2>4
       DEF TierInv, Located, Holds, OnSsd, Present, is_symlink_ssd
  <2>5. CASE q = v /\ zht[q] # None /\ zht[q].node = n
    <3>1. CASE ssd[n][v] = None
      BY <1>1, <1>2, <1>3, <2>1, <2>2, <2>5, <3>1, SystemAssumption
         DEF TierInv, Located, Holds, OnSsd, Present, is_symlink_ssd
    <3>2. CASE ssd[n][v] # None
      BY <1>1, <1>2, <1>3, <2>1, <2>2, <2>5, <3>2
         DEF TierInv, Located, Holds, OnSsd, Present, is_symlink_ssd
    <3>3. QED
      BY <3>1, <3>2
  <2>6. QED
    BY <2>3, <2>4, <2>5
<1>6. SessionNow(i)'
  <2>1. CASE from = "link_open"
    <3>1. to = "evict_open" /\ IsNewest(i) /\ is_symlink_ssd(n, p) /\ wrote[i] = {}
          /\ wanted[i] = committed[p] /\ (peer[i] # None => ~peer[i].hdd)
      BY <1>1, <2>1 DEF SessionNow, Stages, Opening, EvictionPairs
    <3>2. ssd'[n][p] = ssd[n][p] /\ hdd'[n][p] = hdd[n][p]
      BY <1>1, <1>3, <3>1, SystemAssumption DEF is_symlink_ssd
    <3>3. IsNewest(i)' /\ is_symlink_ssd(n, p)'
      BY <1>1, <1>2, <3>1, <3>2 DEF IsNewest, Got, Present, OnSsd, is_symlink_ssd, Data
    <3>4. QED
      BY <1>2, <3>1, <3>3
         DEF SessionNow, Stages, Opening, Creating, Closing, Unlinking
  <2>2. CASE from = "link_create"
    <3>1. to = "evict_create"
      BY <2>2 DEF EvictionPairs
    <3>2. QED
      BY <1>1, <1>2, <2>2, <3>1
         DEF SessionNow, Stages, Opening, Creating, Closing, Unlinking, Fresh
  <2>3. CASE from = "link_release"
    <3>1. to = "evict_release"
      BY <2>3 DEF EvictionPairs
    <3>2. Holds(n, p, committed[p] \cup wrote[i])
      BY <1>1, <2>3 DEF SessionNow, Closing
    <3>3. Holds(n, p, committed[p] \cup wrote[i])'
      BY <1>1, <1>2, <1>3, <3>2 DEF Holds, OnSsd
    <3>4. QED
      BY <1>1, <1>2, <2>3, <3>1, <3>3
         DEF SessionNow, Stages, Opening, Creating, Closing, Unlinking
  <2>4. QED
    BY <1>1, <2>1, <2>2, <2>3 DEF Linking
<1>7. QED
  BY <1>4, <1>5, <1>6 DEF Tiered

\* The eviction loops.
LEMMA TieredEviction ==
    ASSUME TakeTurns, Tiered, NEW i \in Procs, NEW p \in Paths, path[i] = p,
           EvictionStep(i), Typed'
    PROVE  Tiered'
<1>1. \/ move_file_ssd(i, "evict_open", "link_open")
      \/ move_file_ssd(i, "evict_create", "link_create")
      \/ move_file_ssd(i, "evict_release", "link_release")
      \/ LinkVictim(i, "link_open", "evict_open")
      \/ LinkVictim(i, "link_create", "evict_create")
      \/ LinkVictim(i, "link_release", "evict_release")
  BY DEF EvictionStep
<1>2. /\ <<"evict_open", "link_open">> \in EvictionPairs
      /\ <<"evict_create", "link_create">> \in EvictionPairs
      /\ <<"evict_release", "link_release">> \in EvictionPairs
  BY DEF EvictionPairs
<1>3. QED
  BY <1>1, <1>2, TieredEvict, TieredLink

-----------------------------------------------------------------------------
(*****************************************************************************)
(* The invariant is inductive.                                               *)
(*****************************************************************************)
\* The initial states satisfy the invariant.
LEMMA InitTiered == ASSUME Init PROVE Tiered
<1>1. Typed
  BY InitTyped
<1>2. OneSession
  BY DEF Init, OneSession
<1>3. \A i \in Procs : SessionNow(i)
  BY DEF Init, SessionNow, Stages, Opening, Creating, Closing, Unlinking
<1>4. \A p \in Paths : TierInv(p)
  BY DEF Init, TierInv
<1>5. QED
  BY <1>1, <1>2, <1>3, <1>4 DEF Tiered

\* A callback step is taken in a session.
LEMMA NotIdle == ASSUME NEW i \in Procs, fusion_write(i) \/ Step(i) PROVE pc[i] # "idle"
<1>1. EvictionStep(i) => pc[i] # "idle"
  BY DEF EvictionStep, move_file_ssd, LinkVictim
<1>2. QED
  BY <1>1
     DEF Step, fusion_write, fusion_getattr, ffs_recvfile, fusion_open, UnlinkSymlink,
         MoveToSsd, OpenFd, fusion_release, zht_remove, zht_insert, RemoveOldCopy,
         ReleaseEnd, DropCopy, fusion_create, Creat, InsertCreated, fusion_unlink,
         LookupOldAddr, RemoveEntry, RemoveRemote, RemoveLocal

\* Every step preserves the invariant.
LEMMA NextTiered == ASSUME TakeTurns, Tiered, [Next]_vars PROVE Tiered'
<1>1. Typed /\ Typed'
  BY NextTyped DEF Tiered
<1>2. ASSUME NEW i \in Procs, NEW p \in Paths, NEW what \in Intents, Start(i, p, what)
      PROVE  Tiered'
  BY <1>1, <1>2, TieredStart
<1>3. ASSUME NEW i \in Procs, fusion_write(i) \/ Step(i)
      PROVE  Tiered'
  <2>1. PICK p \in Paths : path[i] = p
    BY <1>1, <1>3, NotIdle, HasPath
  <2>2. CASE fusion_write(i)
    BY <1>1, <2>1, <2>2, TieredWrite
  <2>3. CASE Step(i)
    BY <1>1, <2>1, <2>3, TieredGetattr, TieredRecvfile, TieredOpen, TieredUnlinkSymlink,
       TieredMoveToSsd, TieredOpenFd, TieredEviction, TieredRelease, TieredZhtRemove,
       TieredZhtInsert, TieredRemoveOld, TieredReleaseEnd, TieredDrop, TieredCreat,
       TieredUnlink, TieredLookup, TieredRemoveEntry, TieredRemoveCopies DEF Step
  <2>4. QED
    BY <1>3, <2>2, <2>3
<1>4. CASE UNCHANGED vars
  <2>1. OneSession'
    <3>1. pc' = pc
      BY <1>4 DEF vars
    <3>2. QED
      BY <3>1 DEF Tiered, OneSession
  <2>2. \A i \in Procs : SessionNow(i)'
    BY <1>4 DEF Tiered, SessionNow, Stages, Opening, Creating, Closing, Unlinking, Fresh,
                IsNewest, Got, Queued, Elsewhere, OldElsewhere, Holds, Present, OnSsd,
                is_symlink_ssd, Data, vars
  <2>3. \A p \in Paths : TierInv(p)'
    BY <1>4 DEF Tiered, TierInv, Located, BeingMoved, BeingRemoved, BeingLinked, BeingOpened,
                Holds, Present, OnSsd, is_symlink_ssd, vars
  <2>4. QED
    BY <1>1, <2>1, <2>2, <2>3 DEF Tiered
<1>5. QED
  BY <1>2, <1>3, <1>4 DEF Next

-----------------------------------------------------------------------------
(*****************************************************************************)
(* What it implies.                                                          *)
(*****************************************************************************)
\* The invariant implies Durable.
LEMMA TieredDurable == ASSUME Tiered PROVE Durable
<1> SUFFICES ASSUME NEW p \in Paths, zht[p] # None \/ committed[p] # {}, ~Removing(p)
             PROVE  \E n \in Nodes : Answers(n, p) /\ Holds(n, p, committed[p])
  BY DEF Durable
<1>1. TierInv(p) /\ Typed /\ ~BeingRemoved(p)
  BY DEF Tiered, BeingRemoved, Removing
<1>2. CASE zht[p] # None
  <2>1. zht[p].node \in Nodes /\ Holds(zht[p].node, p, committed[p])
    BY <1>1, <1>2 DEF TierInv, Located, Typed, StoresTyped, Entry
  <2>2. QED
    BY <1>2, <2>1 DEF Answers, Locates
<1>3. CASE zht[p] = None
  <2>1. PICK i \in Procs : path[i] = p /\ pc[i] = "update2"
    BY <1>1, <1>3 DEF TierInv, BeingMoved
  <2>2. Home[i] \in Nodes /\ IsNewest(i)
    BY <2>1, SystemAssumption DEF Tiered, SessionNow, Closing
  <2>3. Answers(Home[i], p)
    BY <2>1 DEF Answers
  <2>4. Holds(Home[i], p, committed[p])
    BY <2>1, <2>2 DEF IsNewest, Got, Data, Present, OnSsd, is_symlink_ssd, Holds
  <2>5. QED
    BY <2>2, <2>3, <2>4
<1>4. QED
  BY <1>2, <1>3

\* It implies CloseToOpen and WriterUpToDate: an open file shows what was
\* released, which is what it was when the session began.
LEMMA TieredVisible ==
    ASSUME Tiered, NEW i \in Procs, pc[i] = "opened"
    PROVE  /\ wanted[i] = committed[path[i]]
           /\ committed[path[i]] \cup wrote[i] \subseteq Visible(i)
<1>1. SessionNow(i) /\ OpenedBy(i)
  BY DEF Tiered, Typed, Opened
<1>2. QED
  BY <1>1
     DEF SessionNow, Stages, Closing, OpenedBy, IsNewest, Got, Data, OnSsd, Visible

\* It implies QueueCovers.
LEMMA TieredQueue == ASSUME Tiered PROVE QueueCovers
<1> SUFFICES ASSUME NEW n \in Nodes, NEW p \in Paths, Locates(zht[p], n), OnSsd(n, p), Quiet(p)
             PROVE  p \in queue[n]
  BY DEF QueueCovers
<1>1. ~BeingRemoved(p) /\ ~BeingOpened(n, p)
  BY DEF Quiet, BeingRemoved, BeingOpened
<1>2. QED
  BY <1>1 DEF Tiered, TierInv, Located, Locates

\* A step ends its session, goes on from lstat, or keeps the session as it is.
LEMMA SessionSteps ==
    ASSUME NEW i \in Procs, fusion_write(i) \/ Step(i)
    PROVE  \/ EndSession(i)
           \/ \E found \in {"none", "file", "link"} : Lstat(i, found)
           \/ UNCHANGED <<path, intent>>
<1>1. EvictionStep(i) => UNCHANGED <<path, intent>>
  BY DEF EvictionStep, move_file_ssd, LinkVictim, session
<1>2. fusion_getattr(i) \/ ffs_recvfile(i) =>
         \/ \E found \in {"none", "file", "link"} : Lstat(i, found)
         \/ UNCHANGED <<path, intent>>
  BY DEF fusion_getattr, ffs_recvfile, Found, session
<1>3. QED
  BY <1>1, <1>2
     DEF Step, fusion_write, fusion_open, UnlinkSymlink, MoveToSsd, OpenFd, fusion_release,
         zht_remove, zht_insert, RemoveOldCopy, ReleaseEnd, DropCopy, fusion_create, Creat,
         InsertCreated, fusion_unlink, LookupOldAddr, RemoveEntry, RemoveRemote,
         RemoveLocal, session

\* The session that is removing a file was to remove it a step before.
LEMMA RemovingBefore ==
    ASSUME Tiered, Next, NEW p \in Paths, BeingRemoved(p)'
    PROVE  Removing(p)
<1>1. PICK j \in Procs : /\ path'[j] = p /\ intent'[j] = "unlink"
                         /\ pc'[j] \in {"unlink", "unlink2"}
  BY DEF BeingRemoved
<1>2. SUFFICES path'[j] = path[j] /\ intent'[j] = intent[j]
  BY <1>1 DEF Removing
<1>3. SessionsTyped
  BY DEF Tiered, Typed
<1>4. CASE \E i \in Procs, q \in Paths, what \in Intents : Start(i, q, what)
  BY <1>1, <1>3, <1>4 DEF Start, Goto, SessionsTyped
<1>5. ASSUME NEW i \in Procs, fusion_write(i) \/ Step(i)
      PROVE  path'[j] = path[j] /\ intent'[j] = intent[j]
  <2>1. CASE EndSession(i)
    BY <1>1, <1>3, <2>1, EndSessionTyped DEF OnlySession
  <2>2. CASE \E found \in {"none", "file", "link"} : Lstat(i, found)
    BY <1>1, <1>3, <2>2, LstatTyped DEF OnlySession
  <2>3. CASE UNCHANGED <<path, intent>>
    BY <2>3
  <2>4. QED
    BY <1>5, <2>1, <2>2, <2>3, SessionSteps
<1>6. QED
  BY <1>4, <1>5 DEF Next

\* A step that removes a copy is that of the eviction loop (the content is on
\* the HDD by then), of fusion_open's swap, of a reader, of a writer at the old
\* location, or of a removal.
LEMMA TieredRemovals ==
    ASSUME Tiered, Tiered', [Next]_vars
    PROVE  [\A n \in Nodes, p \in Paths :
               Present(n, p) /\ ~Present(n, p)'
                 => ~Answers(n, p)' \/ Removing(p) \/ hdd'[n][p] # None]_vars
<1> SUFFICES ASSUME Next, NEW n \in Nodes, NEW p \in Paths,
                    ~Present(n, p)', Answers(n, p)', ~Removing(p), hdd'[n][p] = None
             PROVE  FALSE
  OBVIOUS
<1>1. ~BeingRemoved(p)'
  BY RemovingBefore
<1>2. ~OnSsd(n, p)'
  BY DEF Present
<1>3. CASE Locates(zht[p], n)'
  BY <1>1, <1>2, <1>3 DEF Tiered, TierInv, Located, Locates, Holds, OnSsd
<1>4. CASE (\E i \in Procs : pc[i] = "update2" /\ path[i] = p /\ Home[i] = n)'
  <2>1. PICK i \in Procs : pc'[i] = "update2" /\ path'[i] = p /\ Home[i] = n
    BY <1>4
  <2>2. IsNewest(i)'
    BY <2>1 DEF Tiered, SessionNow, Closing
  <2>3. QED
    BY <2>1, <2>2 DEF IsNewest, Got
<1>5. QED
  BY <1>3, <1>4 DEF Answers

\* A released file is never lost, a session sees all that was released before
\* it began, a writer works on the latest content and the queue covers what is
\* on the SSD: through every move between nodes and tiers that the callbacks
\* and their eviction loops make.
THEOREM TieredInvariants ==
    ASSUME TakeTurns
    PROVE  Spec => [](Durable /\ CloseToOpen /\ WriterUpToDate /\ QueueCovers)
<1>1. Init => Tiered
  BY InitTiered
<1>2. Tiered /\ [Next]_vars => Tiered'
  BY NextTiered
<1>3. Tiered => Durable /\ CloseToOpen /\ WriterUpToDate /\ QueueCovers
  <2>1. Tiered => CloseToOpen /\ WriterUpToDate
    BY TieredVisible DEF CloseToOpen, WriterUpToDate
  <2>2. QED
    BY <2>1, TieredDurable, TieredQueue
<1>4. QED
  BY <1>1, <1>2, <1>3, PTL DEF Spec

\* No callback removes the copy of the node that answers for a file, unless its
\* content is on the HDD by then or the file itself is being removed.
THEOREM TieredRemovalsSafe == ASSUME TakeTurns PROVE Spec => SafeRemoval
<1>1. Init => Tiered
  BY InitTiered
<1>2. Tiered /\ [Next]_vars => Tiered'
  BY NextTiered
<1>3. Tiered /\ Tiered' /\ [Next]_vars =>
         [\A n \in Nodes, p \in Paths :
             Present(n, p) /\ ~Present(n, p)'
               => ~Answers(n, p)' \/ Removing(p) \/ hdd'[n][p] # None]_vars
  BY TieredRemovals
<1>4. QED
  BY <1>1, <1>2, <1>3, PTL DEF Spec, SafeRemoval
=============================================================================
