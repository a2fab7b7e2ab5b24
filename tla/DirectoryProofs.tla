--------------------------- MODULE DirectoryProofs ---------------------------
(*****************************************************************************)
(* The name space when applications take turns at changing a directory: the  *)
(* theorems about the names of the run files, for any number of nodes,       *)
(* directories and files. Lookups, listings and changes of other directories *)
(* go on at any time.                                                        *)
(*                                                                           *)
(* The argument. A directory's list is looked up, changed and put back in    *)
(* three ZHT calls, and the entry of the object itself comes last (first,    *)
(* for fusion_mkdir). In between, the list and the entries disagree, but in  *)
(* a known way: ListInv says what the list of the parent, and the list about *)
(* to be put back, hold at every step, and ObjectInv what is known of the    *)
(* object's own entry. DirInv: once nobody is at those steps, a directory    *)
(* lists exactly what exists in it. FileInv ties in the disks, for           *)
(* fusion_getattr believes a local copy. None of these is inductive without  *)
(* the others; Named is all of them together.                                *)
(*                                                                           *)
(* A step changes one operation and what hangs on its object and on the      *)
(* parent of it (Steps). OneChanger keeps the other operations away from     *)
(* these, so NamedStep leaves to show of a step what concerns its own        *)
(* operation, the directories that operation changes, and the files.         *)
(*****************************************************************************)
EXTENDS Directory, SequenceTheorems, TLAPS

\* Applications take turns at changing a directory, and what fusion_readdir
\* removes of a directory lies inside it: no name continues the name of a
\* directory beside it.
TakeTurns ==
    /\ Discipline = "directories"
    /\ \A d \in Dirs : Prefixed[d] \subseteq {d} \cup {o \in Objects : Parent[o] = d}

-----------------------------------------------------------------------------
(*****************************************************************************)
(* The inductive invariant.                                                  *)
(*****************************************************************************)
\* Every variable has its type.
Typed ==
    /\ listing \in [AllDirs -> {None} \cup Value]
    /\ owner \in [Files -> {None} \cup Nodes]
    /\ disk \in [Nodes -> SUBSET Objects]
    /\ mounted \subseteq Nodes
    /\ at \in [Nodes -> NameSteps]
    /\ op \in [Nodes -> Ops \cup {None}]
    /\ obj \in [Nodes -> Objects \cup {Root, None}]
    /\ new \in [Nodes -> Value]

\* The steps of zht_append and zht_delete and what follows them.
Updates == {"append", "delete", "remove", "insert", "finish"}

\* The operation adds its object to the parent; the others take it out.
Adds(n) == op[n] \in {"create", "mkdir"}

\* Which objects and steps belong to which operation; FusionFS runs on all
\* nodes before it is used.
Shape(n) ==
    /\ at[n] = "idle" <=> obj[n] = None
    /\ at[n] # "idle" =>
          /\ mounted = Nodes
          /\ op[n] \in Ops
          /\ op[n] \in {"create", "unlink"} => obj[n] \in Files
          /\ op[n] \in {"mkdir", "rmdir"} => obj[n] \in Dirs
          /\ op[n] = "readdir" => obj[n] \in AllDirs
    /\ at[n] \in {"parent", "target"} => obj[n] \in Objects
    /\ at[n] = "parent" => Parent[obj[n]] \in Dirs
    /\ at[n] \in Updates => op[n] # "readdir"
    /\ at[n] = "append" => Adds(n)
    /\ at[n] = "delete" => ~Adds(n)
    /\ at[n] = "finish" => op[n] # "mkdir"

\* No two operations change the same directory: what Admitted is for.
OneChanger == \A n, m \in Nodes : Changed(n) \cap Changed(m) # {} => n = m

\* n is at the update of the list of d, or of the entry that goes with it.
Updating(n, d) == at[n] \in Updates /\ Parent[obj[n]] = d

\* The value v lists the names in S, each once.
Lists(v, S) == v # None /\ ~v.bare /\ ToSet(v.names) = S /\ IsInjective(v.names)

\* d lists what exists in it; a directory without a list has nothing in it.
Exact(d) == IF listing[d] = None THEN Children(d) = {} ELSE Lists(listing[d], Children(d))

\* A directory whose list nobody is updating lists what exists in it.
DirInv(d) == (\A n \in Nodes : ~Updating(n, d)) => Exact(d)

\* What exists in the parent beside the object of the operation.
Rest(n) == Children(Parent[obj[n]]) \ {obj[n]}

\* What the parent lists until the update is put back, and what afterwards.
Before(n) == IF Adds(n) THEN Rest(n) ELSE Rest(n) \cup {obj[n]}
After(n) == IF Adds(n) THEN Rest(n) \cup {obj[n]} ELSE Rest(n)

\* The list of the parent and newval, step by step: the old list until the
\* remove of zht_append or zht_delete, none until the insert, then the new
\* list, while newval holds the new list from the lookup on.
ListInv(n) ==
    LET v == listing[Parent[obj[n]]] IN
    /\ at[n] \in {"append", "delete", "remove"} => Lists(v, Before(n))
    /\ at[n] \in {"remove", "insert"} => Lists(new[n], After(n))
    /\ at[n] = "insert" => v = None
    /\ at[n] = "finish" => Lists(v, After(n))

\* The entry of the object itself: a file to create is unknown to ZHT until the
\* end, one to unlink known until the end; a directory gets its empty list
\* first and keeps it to the end.
ObjectInv(n) ==
    LET o == obj[n] IN
    /\ op[n] = "create" /\ at[n] \in {"body"} \cup Updates => owner[o] = None
    /\ op[n] = "create" /\ at[n] \in Updates => o \in disk[n]
    /\ op[n] = "mkdir" /\ at[n] = "body" => listing[o] = None
    /\ op[n] = "mkdir" /\ at[n] \in Updates => listing[o] = NewListing
    /\ op[n] = "unlink" /\ at[n] \in Updates => owner[o] # None
    /\ op[n] = "rmdir" /\ at[n] \in Updates => listing[o] = NewListing

\* A file that ZHT locates lies on the disk of that location, unless
\* fusion_unlink is about to remove the entry.
FileInv(f) ==
    owner[f] # None =>
       \/ f \in disk[owner[f]]
       \/ \E n \in Nodes : obj[n] = f /\ op[n] = "unlink" /\ at[n] = "finish"

\* Nothing exists before FusionFS runs on all nodes, and then the root has a
\* list, but for the moment between its remove and its insert.
Mounted ==
    /\ mounted # Nodes =>
          /\ \A f \in Files : owner[f] = None
          /\ \A d \in Dirs : listing[d] = None
    /\ mounted # {} => listing[Root] # None \/ \E n \in Nodes : at[n] = "insert" /\ Parent[obj[n]] = Root

\* The inductive invariant.
Named ==
    /\ Typed
    /\ OneChanger
    /\ Mounted
    /\ \A n \in Nodes : Shape(n) /\ ListInv(n) /\ ObjectInv(n)
    /\ \A d \in AllDirs : DirInv(d)
    /\ \A f \in Files : FileInv(f)

-----------------------------------------------------------------------------
(*****************************************************************************)
(* Names, values and lists.                                                  *)
(*****************************************************************************)
\* What the assumptions on the tree of names say.
LEMMA TreeFacts ==
    /\ \A o \in Objects : Parent[o] \in AllDirs /\ o # Root /\ o # None
    /\ \A d \in Dirs : d \in Objects /\ d \in AllDirs /\ Parent[d] = Root /\ d \notin Files
    /\ \A f \in Files : f \in Objects /\ f \notin Dirs
    /\ Root \in AllDirs /\ Root \notin Dirs /\ Root # None
    /\ None \notin Nodes
    /\ None \notin Value
BY TreeAssumption DEF Objects, AllDirs, Value

\* The value of an empty directory.
LEMMA ValueFacts ==
    /\ NewListing \in Value /\ ~NewListing.bare /\ NewListing # None
    /\ ToSet(NewListing.names) = {} /\ IsInjective(NewListing.names)
    /\ Nothing \in Value
<1>1. << >> \in Seq(Objects)
  OBVIOUS
<1>2. NewListing \in Value /\ ~NewListing.bare /\ Nothing \in Value
  BY <1>1 DEF NewListing, Nothing, Value
<1>3. ToSet(NewListing.names) = {} /\ IsInjective(NewListing.names)
  BY DEF NewListing, ToSet, IsInjective
<1>4. QED
  BY <1>2, <1>3, TreeFacts

\* zht_append adds a name that is not listed.
LEMMA AppendedLists ==
    ASSUME NEW v \in Value, NEW S, Lists(v, S), NEW o \in Objects, o \notin S
    PROVE  Appended(v, o) \in Value /\ Lists(Appended(v, o), S \cup {o})
<1> DEFINE s == v.names
           t == Append(s, o)
<1>1. s \in Seq(Objects) /\ Len(s) \in Nat /\ DOMAIN s = 1 .. Len(s)
  BY LenProperties DEF Value
<1>2. /\ t \in Seq(Objects) /\ Len(t) = Len(s) + 1 /\ DOMAIN t = 1 .. Len(s) + 1
      /\ \A i \in 1 .. Len(s) : t[i] = s[i]
      /\ t[Len(s) + 1] = o
  BY <1>1
<1>3. Appended(v, o) = [names |-> t, bare |-> v.bare]
  BY DEF Appended, Value
<1> HIDE DEF t
<1>4. \A i \in 1 .. Len(s) : s[i] \in S
  BY <1>1 DEF Lists, ToSet
<1>5. ToSet(t) = S \cup {o}
  <2>1. \A x \in ToSet(t) : x \in S \cup {o}
    BY <1>1, <1>2, <1>4 DEF ToSet
  <2>2. ASSUME NEW x \in S PROVE x \in ToSet(t)
    <3>1. PICK i \in 1 .. Len(s) : s[i] = x
      BY <1>1, <2>2 DEF Lists, ToSet
    <3>2. QED
      BY <1>1, <1>2, <3>1 DEF ToSet
  <2>3. o \in ToSet(t)
    BY <1>1, <1>2 DEF ToSet
  <2>4. QED
    BY <2>1, <2>2, <2>3
<1>6. IsInjective(t)
  <2>1. ASSUME NEW i \in 1 .. Len(s) + 1, NEW j \in 1 .. Len(s) + 1, t[i] = t[j]
        PROVE  i = j
    <3>1. CASE i \in 1 .. Len(s) /\ j \in 1 .. Len(s)
      BY <1>1, <1>2, <2>1, <3>1 DEF Lists, IsInjective
    <3>2. CASE i = Len(s) + 1 /\ j \in 1 .. Len(s)
      BY <1>2, <1>4, <2>1, <3>2
    <3>3. CASE j = Len(s) + 1 /\ i \in 1 .. Len(s)
      BY <1>2, <1>4, <2>1, <3>3
    <3>4. \A m \in 1 .. Len(s) + 1 : m \in 1 .. Len(s) \/ m = Len(s) + 1
      BY <1>1
    <3>5. QED
      BY <2>1, <3>1, <3>2, <3>3, <3>4
  <2>2. QED
    BY <1>2, <2>1 DEF IsInjective
<1>7. QED
  BY <1>2, <1>3, <1>5, <1>6, TreeFacts DEF Lists, Value

\* A sequence without its k-th element: the elements before k stay in place,
\* the ones after it move up.
LEMMA RemoveAtFacts ==
    ASSUME NEW s \in Seq(Objects), NEW k \in 1 .. Len(s)
    PROVE  /\ RemoveAt(s, k) \in Seq(Objects)
           /\ Len(RemoveAt(s, k)) = Len(s) - 1
           /\ \A i \in 1 .. Len(s) - 1 : RemoveAt(s, k)[i] = IF i < k THEN s[i] ELSE s[i + 1]
<1> DEFINE a == SubSeq(s, 1, k - 1)
           b == SubSeq(s, k + 1, Len(s))
<1>1. Len(s) \in Nat /\ k \in Nat /\ \A i \in 1 .. Len(s) : s[i] \in Objects
  BY LenProperties, ElementOfSeq
<1>2. /\ a \in Seq(Objects) /\ Len(a) = k - 1
      /\ \A i \in 1 .. k - 1 : a[i] = s[i]
  BY <1>1, SubSeqProperties
<1>3. /\ b \in Seq(Objects) /\ Len(b) = Len(s) - k
      /\ \A i \in 1 .. Len(s) - k : b[i] = s[k + i]
  BY <1>1, SubSeqProperties
<1>4. RemoveAt(s, k) = a \o b
  BY DEF RemoveAt
<1> HIDE DEF a, b
<1>5. /\ a \o b \in Seq(Objects) /\ Len(a \o b) = Len(a) + Len(b)
      /\ \A i \in 1 .. Len(a) + Len(b) : (a \o b)[i] = IF i <= Len(a) THEN a[i] ELSE b[i - Len(a)]
  BY <1>2, <1>3, ConcatProperties
<1>6. ASSUME NEW i \in 1 .. Len(s) - 1
      PROVE  (a \o b)[i] = IF i < k THEN s[i] ELSE s[i + 1]
  <2>1. CASE i < k
    <3>1. i \in 1 .. Len(a) + Len(b) /\ i <= Len(a) /\ i \in 1 .. k - 1
      BY <1>1, <1>2, <1>3, <2>1
    <3>2. (a \o b)[i] = a[i]
      BY <1>5, <3>1
    <3>3. QED
      BY <1>2, <2>1, <3>1, <3>2
  <2>2. CASE ~(i < k)
    <3>1. /\ i \in 1 .. Len(a) + Len(b) /\ ~(i <= Len(a))
          /\ i - Len(a) \in 1 .. Len(s) - k /\ k + (i - Len(a)) = i + 1
      BY <1>1, <1>2, <1>3, <2>2
    <3>2. (a \o b)[i] = b[i - Len(a)]
      BY <1>5, <3>1
    <3>3. QED
      BY <1>3, <2>2, <3>1, <3>2
  <2>3. QED
    BY <2>1, <2>2
<1>7. Len(a) + Len(b) = Len(s) - 1
  BY <1>1, <1>2, <1>3
<1>8. Len(a \o b) = Len(s) - 1
  BY <1>5, <1>7
<1>9. QED
  BY <1>4, <1>5, <1>6, <1>8

\* zht_delete finds a name that is listed and takes it out.
LEMMA DeletedLists ==
    ASSUME NEW v \in Value, NEW S, Lists(v, S), NEW o \in S
    PROVE  /\ Positions(v, o) # {}
           /\ Deleted(v, o) \in Value /\ Lists(Deleted(v, o), S \ {o})
<1> DEFINE s == v.names
           k == First(Positions(v, o))
           t == RemoveAt(s, k)
<1>1. s \in Seq(Objects) /\ Len(s) \in Nat /\ DOMAIN s = 1 .. Len(s)
  BY LenProperties DEF Value
<1>2. PICK i \in 1 .. Len(s) : s[i] = o
  BY <1>1 DEF Lists, ToSet
<1>3. Positions(v, o) = {i}
  BY <1>1, <1>2 DEF Lists, IsInjective, Positions
<1>4. k = i
  BY <1>3 DEF First
<1>5. /\ t \in Seq(Objects) /\ Len(t) = Len(s) - 1
      /\ \A j \in 1 .. Len(s) - 1 : t[j] = IF j < i THEN s[j] ELSE s[j + 1]
  BY <1>1, <1>2, <1>4, RemoveAtFacts
<1>6. DOMAIN t = 1 .. Len(s) - 1
  BY <1>5, LenProperties
<1>7. Deleted(v, o) = [names |-> t, bare |-> v.bare]
  BY DEF Deleted, Value
<1> HIDE DEF t, k
<1>8. ToSet(t) = S \ {o}
  <2>1. ASSUME NEW j \in 1 .. Len(s) - 1 PROVE t[j] \in S \ {o}
    <3>1. PICK m \in 1 .. Len(s) : m # i /\ t[j] = s[m]
      BY <1>1, <1>2, <1>5
    <3>2. QED
      BY <1>1, <1>2, <3>1 DEF Lists, ToSet, IsInjective
  <2>2. ASSUME NEW x \in S \ {o} PROVE x \in ToSet(t)
    <3>1. PICK m \in 1 .. Len(s) : s[m] = x
      BY <1>1 DEF Lists, ToSet
    <3>2. m # i
      BY <1>2, <2>2, <3>1
    <3>3. PICK j \in 1 .. Len(s) - 1 : t[j] = x
      <4>1. CASE m < i
        BY <1>1, <1>5, <3>1, <4>1
      <4>2. CASE m > i
        <5>1. m - 1 \in 1 .. Len(s) - 1 /\ ~(m - 1 < i) /\ (m - 1) + 1 = m
          BY <1>1, <4>2
        <5>2. QED
          BY <1>5, <3>1, <5>1
      <4>3. QED
        BY <1>1, <3>2, <4>1, <4>2
    <3>4. QED
      BY <1>6, <3>3 DEF ToSet
  <2>3. QED
    BY <1>6, <2>1, <2>2 DEF ToSet
<1>9. IsInjective(t)
  <2>1. ASSUME NEW j \in 1 .. Len(s) - 1, NEW m \in 1 .. Len(s) - 1, t[j] = t[m]
        PROVE  j = m
    <3>1. \A x, y \in 1 .. Len(s) : s[x] = s[y] => x = y
      BY <1>1 DEF Lists, IsInjective
    <3>2. /\ t[j] = IF j < i THEN s[j] ELSE s[j + 1]
          /\ t[m] = IF m < i THEN s[m] ELSE s[m + 1]
          /\ {j, j + 1, m, m + 1} \subseteq 1 .. Len(s)
      BY <1>1, <1>5
    <3>3. PICK x \in {j, j + 1}, y \in {m, m + 1} :
             /\ s[x] = s[y]
             /\ x = (IF j < i THEN j ELSE j + 1) /\ y = (IF m < i THEN m ELSE m + 1)
      BY <2>1, <3>2
    <3>4. x = y
      BY <3>1, <3>2, <3>3
    <3>5. QED
      BY <1>1, <3>3, <3>4
  <2>2. QED
    BY <1>6, <2>1 DEF IsInjective
<1>10. Deleted(v, o) \in Value
  BY <1>5, <1>7 DEF Value
<1>11. QED
  BY <1>3, <1>7, <1>8, <1>9, <1>10, TreeFacts DEF Lists

-----------------------------------------------------------------------------
(*****************************************************************************)
(* What a step leaves alone.                                                 *)
(*****************************************************************************)
\* What a step of n's operation leaves alone.
Steps(n) ==
    /\ at[n] # "idle"
    /\ \A m \in Nodes \ {n} :
          at'[m] = at[m] /\ op'[m] = op[m] /\ obj'[m] = obj[m] /\ new'[m] = new[m]
    /\ \/ op'[n] = op[n] /\ obj'[n] = obj[n] /\ at'[n] # "idle"
       \/ op'[n] = None /\ obj'[n] = None /\ at'[n] = "idle"
    /\ \A d \in AllDirs \ Changed(n) : listing'[d] = listing[d]
    /\ \A f \in Files : f # obj[n] => owner'[f] = owner[f]
    /\ op[n] # "readdir" =>
          (listing'[Parent[obj[n]]] = None /\ at'[n] # "insert"
              <=> listing[Parent[obj[n]]] = None /\ at[n] # "insert")
    /\ \A m \in Nodes \ {n}, o \in Objects : o # obj[n] /\ o \in disk[m] => o \in disk'[m]
    /\ mounted' = mounted

\* The object of an operation that changes directories, and these directories.
LEMMA ObjFacts ==
    ASSUME Typed, NEW n \in Nodes, Shape(n), at[n] # "idle"
    PROVE  /\ op[n] \in Ops
           /\ op[n] # "readdir" =>
                 /\ obj[n] \in Objects /\ Parent[obj[n]] \in AllDirs
                 /\ Parent[obj[n]] \in Changed(n)
                 /\ obj[n] \in Dirs => obj[n] \in Changed(n)
                 /\ \A d \in Changed(n) : d = Parent[obj[n]] \/ (d = obj[n] /\ obj[n] \in Dirs)
           /\ op[n] = "readdir" => obj[n] \in AllDirs /\ Changed(n) = {}
           /\ Changed(n) \subseteq AllDirs
<1>1. op[n] \in Ops
  BY DEF Shape, Typed
<1>2. CASE op[n] = "readdir"
  BY <1>1, <1>2 DEF Changed, Shape
<1>3. CASE op[n] # "readdir"
  <2>1. obj[n] \in Objects /\ obj[n] # None
    BY <1>1, <1>3, TreeFacts DEF Shape, Ops
  <2>2. Changed(n) = {Parent[obj[n]]} \cup ({obj[n]} \cap Dirs)
    BY <1>3, <2>1 DEF Changed
  <2>3. QED
    BY <1>1, <1>3, <2>1, <2>2, TreeFacts
<1>4. QED
  BY <1>2, <1>3

\* A node that runs nothing changes no directory.
LEMMA IdleChanges ==
    ASSUME Typed, NEW n \in Nodes, Shape(n), at[n] = "idle"
    PROVE  Changed(n) = {}
BY DEF Shape, Changed

\* Whether another object exists does not change.
LEMMA ExistsKept ==
    ASSUME Named, NEW n \in Nodes, Steps(n), Shape(n)', NEW o \in Objects, o # obj[n] \/ op[n] = "readdir"
    PROVE  Known(o)' <=> Known(o)
<1>1. Typed /\ Shape(n) /\ at[n] # "idle" /\ OneChanger
  BY DEF Named, Steps
<1>2. CASE o \in Files
  BY <1>1, <1>2, ObjFacts, TreeFacts DEF Steps, Known, AllDirs
<1>3. CASE o \in Dirs
  <2>1. \A m \in Nodes \ {n} :
           (at[m] = "insert" /\ Parent[obj[m]] = o) <=> (at[m] = "insert" /\ Parent[obj[m]] = o)'
    BY DEF Steps
  <2>2. CASE op[n] = "readdir" \/ Parent[obj[n]] # o
    <3>1. o \notin Changed(n)
      BY <1>1, <2>2, ObjFacts
    <3>2. listing'[o] = listing[o]
      BY <1>3, <3>1, TreeFacts DEF Steps
    <3>3. ~(at[n] = "insert" /\ Parent[obj[n]] = o)
      BY <1>1, <2>2 DEF Shape, Updates
    <3>4. ~(at[n] = "insert" /\ Parent[obj[n]] = o)'
      <4>1. CASE op[n] = "readdir"
        BY <4>1 DEF Steps, Shape, Updates
      <4>2. CASE Parent[obj[n]] # o
        BY <4>2 DEF Steps
      <4>3. QED
        BY <2>2, <4>1, <4>2
    <3>5. QED
      BY <1>3, <2>1, <3>2, <3>3, <3>4, TreeFacts DEF Known
  <2>3. CASE op[n] # "readdir" /\ Parent[obj[n]] = o
    <3>1. listing'[o] = None /\ at'[n] # "insert" <=> listing[o] = None /\ at[n] # "insert"
      BY <2>3 DEF Steps
    <3>2. at'[n] = "insert" => Parent[obj'[n]] = o
      BY <2>3 DEF Steps
    <3>3. QED
      BY <1>3, <2>1, <2>3, <3>1, <3>2, TreeFacts DEF Known
  <2>4. QED
    BY <2>2, <2>3
<1>4. QED
  BY <1>2, <1>3 DEF Objects

\* Nor does what exists in a directory the operation does not change.
LEMMA ChildrenKept ==
    ASSUME Named, NEW n \in Nodes, Steps(n), Shape(n)', NEW d \in AllDirs, d \notin Changed(n)
    PROVE  Children(d)' = Children(d)
<1>1. ASSUME NEW o \in Objects, Parent[o] = d PROVE Known(o)' <=> Known(o)
  <2>1. op[n] = "readdir" \/ o # obj[n]
    BY <1>1, ObjFacts DEF Named, Steps
  <2>2. QED
    BY <2>1, ExistsKept
<1>2. QED
  BY <1>1 DEF Children

\* In the parent, nothing but the object appears or disappears.
LEMMA RestKept ==
    ASSUME Named, NEW n \in Nodes, Steps(n), Shape(n)', NEW d \in AllDirs
    PROVE  op[n] # "readdir" => Children(d)' \ {obj[n]} = Children(d) \ {obj[n]}
<1>1. \A o \in Objects : o # obj[n] => (Known(o)' <=> Known(o))
  BY ExistsKept
<1>2. QED
  BY <1>1 DEF Children

\* The other operations keep what they have established.
LEMMA OthersKept ==
    ASSUME Named, NEW n \in Nodes, Steps(n), Shape(n)', NEW m \in Nodes \ {n}
    PROVE  Shape(m)' /\ ListInv(m)' /\ ObjectInv(m)'
<1>1. Typed /\ Shape(m) /\ ListInv(m) /\ ObjectInv(m) /\ OneChanger /\ Shape(n) /\ at[n] # "idle"
  BY DEF Named, Steps
<1>2. /\ at'[m] = at[m] /\ op'[m] = op[m] /\ obj'[m] = obj[m] /\ new'[m] = new[m]
      /\ mounted' = mounted
  BY DEF Steps
<1>3. Shape(m)'
  BY <1>1, <1>2 DEF Shape, Adds
<1>4. CASE op[m] = "readdir" \/ at[m] = "idle"
  <2>1. at[m] \notin Updates
    BY <1>1, <1>4 DEF Shape, Updates
  <2>2. QED
    BY <1>2, <1>3, <1>4, <2>1 DEF ListInv, ObjectInv, Updates
<1>5. CASE op[m] # "readdir" /\ at[m] # "idle"
  <2>1. PICK o \in Objects, d \in AllDirs :
           /\ o = obj[m] /\ d = Parent[o]
           /\ d \in Changed(m) /\ (o \in Dirs => o \in Changed(m))
    BY <1>1, <1>5, ObjFacts
  <2>2. d \notin Changed(n) /\ (o \in Dirs => o \notin Changed(n))
    BY <1>1, <2>1 DEF OneChanger
  <2>3. listing'[d] = listing[d] /\ (o \in Dirs => listing'[o] = listing[o])
    BY <2>1, <2>2, TreeFacts DEF Steps
  <2>4. Children(d)' = Children(d)
    BY <2>1, <2>2, ChildrenKept
  <2>5. o # obj[n] \/ (op[n] = "readdir" /\ obj[n] \in AllDirs)
    BY <1>1, <2>1, <2>2, ObjFacts
  <2>6. o \in Files => owner'[o] = owner[o] /\ (o \in disk[m] => o \in disk'[m])
    BY <2>1, <2>5, TreeFacts DEF Steps, AllDirs
  <2>7. ListInv(m)'
    BY <1>1, <1>2, <2>1, <2>3, <2>4 DEF ListInv, Before, After, Rest, Adds
  <2>8. ObjectInv(m)'
    BY <1>1, <1>2, <2>1, <2>3, <2>6 DEF ObjectInv, Shape, Updates
  <2>9. QED
    BY <1>3, <2>7, <2>8
<1>6. QED
  BY <1>4, <1>5

\* The directories the operation does not change stay exact.
LEMMA DirsKept ==
    ASSUME Named, NEW n \in Nodes, Steps(n), Shape(n)', NEW d \in AllDirs, d \notin Changed(n)
    PROVE  DirInv(d)'
<1>1. listing'[d] = listing[d] /\ Children(d)' = Children(d)
  BY ChildrenKept DEF Steps
<1>2. ASSUME \A m \in Nodes : ~Updating(m, d)' PROVE \A m \in Nodes : ~Updating(m, d)
  <2>1. ~Updating(n, d)
    BY ObjFacts DEF Named, Steps, Updating, Shape, Updates
  <2>2. QED
    BY <1>2, <2>1 DEF Steps, Updating
<1>3. DirInv(d)
  BY DEF Named
<1>4. QED
  BY <1>1, <1>2, <1>3 DEF DirInv, Exact

\* No step but Request adds an operation.
LEMMA ChangersKept ==
    ASSUME Named, NEW n \in Nodes, Steps(n)
    PROVE  OneChanger'
<1>1. \A m \in Nodes : Changed(m)' = Changed(m) \/ Changed(m)' = {}
  BY DEF Steps, Changed
<1>2. QED
  BY <1>1 DEF Named, OneChanger

\* The root keeps its list.
LEMMA MountedKept ==
    ASSUME Named, NEW n \in Nodes, Steps(n), Shape(n)'
    PROVE  Mounted'
<1>1. mounted = Nodes /\ mounted' = Nodes /\ Typed /\ Shape(n) /\ at[n] # "idle"
  BY DEF Named, Steps, Shape
<1>2. ASSUME mounted' # {}
      PROVE  (listing[Root] # None \/ \E m \in Nodes : at[m] = "insert" /\ Parent[obj[m]] = Root)'
  <2>1. listing[Root] # None \/ \E m \in Nodes : at[m] = "insert" /\ Parent[obj[m]] = Root
    BY <1>1, <1>2 DEF Named, Mounted
  <2>2. CASE \E m \in Nodes \ {n} : at[m] = "insert" /\ Parent[obj[m]] = Root
    BY <2>2 DEF Steps
  <2>3. CASE listing[Root] # None \/ (at[n] = "insert" /\ Parent[obj[n]] = Root)
    <3>1. CASE op[n] # "readdir" /\ Parent[obj[n]] = Root
      <4>1. listing'[Root] # None \/ at'[n] = "insert"
        BY <2>3, <3>1 DEF Steps
      <4>2. at'[n] = "insert" => obj'[n] = obj[n]
        BY DEF Steps
      <4>3. QED
        BY <3>1, <4>1, <4>2
    <3>2. CASE op[n] = "readdir" \/ Parent[obj[n]] # Root
      <4>1. Root \notin Changed(n)
        BY <1>1, <3>2, ObjFacts, TreeFacts
      <4>2. listing'[Root] = listing[Root]
        BY <4>1, TreeFacts DEF Steps
      <4>3. ~(at[n] = "insert" /\ Parent[obj[n]] = Root)
        BY <1>1, <3>2 DEF Shape, Updates
      <4>4. QED
        BY <2>3, <4>2, <4>3
    <3>3. QED
      BY <3>1, <3>2
  <2>4. QED
    BY <2>1, <2>2, <2>3
<1>3. QED
  BY <1>1, <1>2 DEF Mounted

\* What is left to show of a step.
LEMMA NamedStep ==
    ASSUME Named, NEW n \in Nodes, Steps(n), Typed', Shape(n)', ListInv(n)', ObjectInv(n)',
           \A d \in Changed(n) : DirInv(d)', \A f \in Files : FileInv(f)'
    PROVE  Named'
<1>1. OneChanger' /\ Mounted'
  BY ChangersKept, MountedKept
<1>2. \A m \in Nodes : Shape(m)' /\ ListInv(m)' /\ ObjectInv(m)'
  BY OthersKept
<1>3. \A d \in AllDirs : DirInv(d)'
  BY DirsKept
<1>4. QED
  BY <1>1, <1>2, <1>3 DEF Named

-----------------------------------------------------------------------------
(*****************************************************************************)
(* What the steps have in common.                                            *)
(*****************************************************************************)
\* Where ContinueIf leads.
LEMMA Went ==
    ASSUME Typed, NEW n \in Nodes, NEW step \in NameSteps \ {"idle"},
           (Resume(n, step) /\ UNCHANGED <<op, obj>>) \/ Return(n)
    PROVE  /\ at' \in [Nodes -> NameSteps]
           /\ op' \in [Nodes -> Ops \cup {None}]
           /\ obj' \in [Nodes -> Objects \cup {Root, None}]
           /\ \A m \in Nodes \ {n} : at'[m] = at[m] /\ op'[m] = op[m] /\ obj'[m] = obj[m]
           /\ \/ at'[n] = step /\ op' = op /\ obj' = obj
              \/ at'[n] = "idle" /\ op'[n] = None /\ obj'[n] = None
<1>1. CASE Resume(n, step) /\ UNCHANGED <<op, obj>>
  BY <1>1 DEF Typed, Resume
<1>2. CASE Return(n)
  BY <1>2 DEF Typed, Return, Resume, NameSteps
<1>3. QED
  BY <1>1, <1>2

\* What Return does.
LEMMA Returned ==
    ASSUME Typed, NEW n \in Nodes, Return(n)
    PROVE  /\ at' \in [Nodes -> NameSteps] /\ op' \in [Nodes -> Ops \cup {None}]
           /\ obj' \in [Nodes -> Objects \cup {Root, None}]
           /\ at'[n] = "idle" /\ op'[n] = None /\ obj'[n] = None
           /\ \A m \in Nodes \ {n} : at'[m] = at[m] /\ op'[m] = op[m] /\ obj'[m] = obj[m]
BY DEF Return, Resume, Typed, NameSteps

\* An operation that returned has nothing to keep.
LEMMA IdleInv ==
    ASSUME NEW n \in Nodes, at'[n] = "idle", obj'[n] = None
    PROVE  Shape(n)' /\ ListInv(n)' /\ ObjectInv(n)'
BY DEF Shape, ListInv, ObjectInv, Updates

\* Before the update begins, the directories of the operation are exact.
LEMMA Settled ==
    ASSUME Named, NEW n \in Nodes, at[n] \notin Updates, NEW d \in Changed(n)
    PROVE  Exact(d)
<1>1. ASSUME NEW m \in Nodes, Updating(m, d) PROVE FALSE
  <2>1. at[m] # "idle" /\ op[m] # "readdir" /\ Typed /\ Shape(m) /\ OneChanger
    BY <1>1 DEF Named, Updating, Updates, Shape
  <2>2. d \in Changed(m)
    BY <1>1, <2>1, ObjFacts DEF Updating
  <2>3. QED
    BY <1>1, <2>1, <2>2 DEF OneChanger, Updating
<1>2. d \in AllDirs
  BY ObjFacts, IdleChanges DEF Named
<1>3. QED
  BY <1>1, <1>2 DEF Named, DirInv

\* A directory that is made or removed is exact throughout: by OneChanger
\* nobody updates its list.
LEMMA OwnDir ==
    ASSUME Named, NEW n \in Nodes, at[n] # "idle", op[n] # "readdir", obj[n] \in Dirs
    PROVE  Exact(obj[n]) /\ \A m \in Nodes : ~Updating(m, obj[n])
<1>1. Typed /\ Shape(n) /\ OneChanger /\ obj[n] \in Changed(n) /\ Parent[obj[n]] = Root
  BY ObjFacts, TreeFacts DEF Named
<1>2. ASSUME NEW m \in Nodes, Updating(m, obj[n]) PROVE FALSE
  <2>1. at[m] # "idle" /\ op[m] # "readdir" /\ Shape(m)
    BY <1>2 DEF Named, Updating, Updates, Shape
  <2>2. obj[n] \in Changed(m)
    BY <1>1, <1>2, <2>1, ObjFacts DEF Updating
  <2>3. m = n
    BY <1>1, <2>2 DEF OneChanger
  <2>4. QED
    BY <1>1, <1>2, <2>3, TreeFacts DEF Updating
<1>3. QED
  BY <1>2, TreeFacts DEF Named, DirInv

\* A step that keeps a file's entry and removes no copy of it keeps FileInv.
LEMMA FilesGrow ==
    ASSUME Named, NEW n \in Nodes, Steps(n), NEW f \in Files, owner'[f] = owner[f],
           at[n] # "finish" \/ f # obj[n], \A m \in Nodes : f \in disk[m] => f \in disk'[m]
    PROVE  FileInv(f)'
<1>1. owner[f] # None => owner[f] \in Nodes
  BY DEF Named, Typed
<1>2. QED
  BY <1>1 DEF Named, FileInv, Steps

\* A step that changes no list and no location changes nothing that exists.
LEMMA ExistsSame ==
    ASSUME Named, NEW n \in Nodes, Steps(n), UNCHANGED <<listing, owner>>,
           at[n] # "insert", at'[n] # "insert", NEW d \in AllDirs
    PROVE  Children(d)' = Children(d)
<1>1. \A o \in Objects : Known(o)' <=> Known(o)
  BY DEF Known, Steps
<1>2. QED
  BY <1>1 DEF Children

\* Such a step needs to show only what concerns its own operation.
LEMMA QuietStep ==
    ASSUME Named, NEW n \in Nodes, Steps(n), Typed', Shape(n)', ListInv(n)', ObjectInv(n)',
           UNCHANGED <<listing, owner>>, at[n] # "insert", at'[n] # "insert",
           at[n] \notin Updates \/ at'[n] \in Updates,
           \A f \in Files : FileInv(f)'
    PROVE  Named'
<1>1. Typed /\ Shape(n) /\ at[n] # "idle"
  BY DEF Named, Steps
<1>2. ASSUME NEW d \in Changed(n) PROVE DirInv(d)'
  <2>1. d \in AllDirs
    BY <1>1, ObjFacts
  <2>2. listing'[d] = listing[d] /\ Children(d)' = Children(d)
    BY <2>1, ExistsSame
  <2>3. CASE at[n] \notin Updates
    BY <2>2, <2>3, Settled DEF DirInv, Exact
  <2>4. CASE at[n] \in Updates /\ d = Parent[obj[n]]
    <3>1. at'[n] \in Updates /\ obj'[n] = obj[n]
      BY <2>4 DEF Steps, Updates
    <3>2. QED
      BY <2>4, <3>1 DEF DirInv, Updating
  <2>5. CASE at[n] \in Updates /\ d = obj[n] /\ obj[n] \in Dirs
    <3>1. op[n] # "readdir"
      BY <1>1, <1>2, ObjFacts
    <3>2. Exact(d)
      BY <1>1, <2>5, <3>1, OwnDir
    <3>3. QED
      BY <2>2, <3>2 DEF DirInv, Exact
  <2>6. QED
    BY <1>1, <2>3, <2>4, <2>5, ObjFacts
<1>3. QED
  BY <1>2, NamedStep

-----------------------------------------------------------------------------
(*****************************************************************************)
(* One lemma per step of a callback.                                         *)
(*****************************************************************************)
\* fusion_getattr on the parent makes a directory that ZHT knows.
LEMMA NamedGetattrParent ==
    ASSUME Named, NEW n \in Nodes, GetattrParent(n)
    PROVE  Named'
<1> DEFINE there == AfterGetattr(n, Parent[obj[n]])
<1> USE DEF GetattrParent
<1>1. /\ Typed /\ Shape(n) /\ at[n] = "parent" /\ obj[n] \in Objects /\ Parent[obj[n]] \in Dirs
      /\ UNCHANGED <<listing, owner, new, mounted>>
  BY DEF Named, Shape
<1>2. there \subseteq Objects /\ disk[n] \subseteq there
  BY <1>1, TreeFacts DEF AfterGetattr, Typed
<1>3. /\ disk' \in [Nodes -> SUBSET Objects]
      /\ \A m \in Nodes : disk'[m] = IF m = n THEN there ELSE disk[m]
  BY <1>1, <1>2 DEF Typed
<1>4. (Resume(n, "target") /\ UNCHANGED <<op, obj>>) \/ Return(n)
  BY DEF ContinueIf
<1>5. /\ at' \in [Nodes -> NameSteps] /\ op' \in [Nodes -> Ops \cup {None}]
      /\ obj' \in [Nodes -> Objects \cup {Root, None}]
      /\ \A m \in Nodes \ {n} : at'[m] = at[m] /\ op'[m] = op[m] /\ obj'[m] = obj[m]
      /\ \/ at'[n] = "target" /\ op' = op /\ obj' = obj
         \/ at'[n] = "idle" /\ op'[n] = None /\ obj'[n] = None
  BY <1>1, <1>4, Went DEF NameSteps
<1> HIDE DEF there, GetattrParent
<1>6. Typed' /\ Steps(n)
  BY <1>1, <1>2, <1>3, <1>5 DEF Typed, Steps
<1>7. Shape(n)' /\ ListInv(n)' /\ ObjectInv(n)'
  <2>1. CASE at'[n] = "target" /\ op' = op /\ obj' = obj
    BY <1>1, <2>1, TreeFacts DEF Shape, ListInv, ObjectInv, Updates
  <2>2. CASE at'[n] = "idle" /\ obj'[n] = None
    BY <2>2, IdleInv
  <2>3. QED
    BY <1>5, <2>1, <2>2
<1>8. \A f \in Files : FileInv(f)'
  BY <1>1, <1>2, <1>3, <1>6, FilesGrow
<1>9. at[n] \notin Updates /\ at[n] # "insert" /\ at'[n] # "insert"
  BY <1>1, <1>5 DEF Updates
<1>10. QED
  BY <1>1, <1>6, <1>7, <1>8, <1>9, QuietStep

\* fusion_getattr on the object: a local copy counts, so a file that ZHT
\* locates is found, and one to create is unknown to ZHT; a directory to make
\* has no list.
LEMMA NamedGetattrTarget ==
    ASSUME Named, NEW n \in Nodes, GetattrTarget(n)
    PROVE  Named'
<1> DEFINE there == AfterGetattr(n, obj[n])
<1> USE DEF GetattrTarget
<1>1. /\ Typed /\ Shape(n) /\ OneChanger /\ at[n] = "target" /\ obj[n] \in Objects
      /\ UNCHANGED <<listing, owner, new, mounted>>
  BY DEF Named, Shape
<1>2. there \subseteq Objects /\ disk[n] \subseteq there
  BY <1>1, TreeFacts DEF AfterGetattr, Typed
<1>3. /\ disk' \in [Nodes -> SUBSET Objects]
      /\ \A m \in Nodes : disk'[m] = IF m = n THEN there ELSE disk[m]
  BY <1>1, <1>2 DEF Typed
<1>4. /\ (Resume(n, "body") /\ UNCHANGED <<op, obj>>) \/ Return(n)
      /\ Return(n) \/ (obj[n] \in there <=> op[n] \notin {"create", "mkdir"})
  BY DEF ContinueIf
<1>5. /\ at' \in [Nodes -> NameSteps] /\ op' \in [Nodes -> Ops \cup {None}]
      /\ obj' \in [Nodes -> Objects \cup {Root, None}]
      /\ \A m \in Nodes \ {n} : at'[m] = at[m] /\ op'[m] = op[m] /\ obj'[m] = obj[m]
      /\ \/ at'[n] = "body" /\ op' = op /\ obj' = obj
         \/ at'[n] = "idle" /\ op'[n] = None /\ obj'[n] = None
  BY <1>1, <1>4, Went DEF NameSteps
<1>6. at'[n] = "body" => (obj[n] \in there <=> op[n] \notin {"create", "mkdir"})
  BY <1>1, <1>4 DEF Return, Resume, Typed
<1>7. op[n] = "mkdir" /\ obj[n] \notin there => listing[obj[n]] = None
  BY <1>1 DEF AfterGetattr, Shape
<1>8. ASSUME op[n] = "create", obj[n] \notin there PROVE owner[obj[n]] = None
  <2>1. obj[n] \in Files /\ Parent[obj[n]] \in Changed(n)
    BY <1>1, <1>8, ObjFacts DEF Shape
  <2>2. ASSUME NEW m \in Nodes, obj[m] = obj[n], op[m] = "unlink", at[m] = "finish" PROVE FALSE
    <3>1. Shape(m) /\ Parent[obj[m]] \in Changed(m)
      BY <1>1, <2>2, ObjFacts DEF Named
    <3>2. m = n
      BY <1>1, <2>1, <2>2, <3>1 DEF OneChanger
    <3>3. QED
      BY <1>1, <2>2, <3>2
  <2>3. owner[obj[n]] # None => obj[n] \in disk[owner[obj[n]]]
    BY <2>1, <2>2 DEF Named, FileInv
  <2>4. QED
    BY <1>8, <2>1, <2>3, TreeFacts DEF AfterGetattr
<1> HIDE DEF there, GetattrTarget
<1>9. Typed' /\ Steps(n)
  BY <1>1, <1>2, <1>3, <1>5 DEF Typed, Steps
<1>10. Shape(n)' /\ ListInv(n)' /\ ObjectInv(n)'
  <2>1. CASE at'[n] = "body" /\ op' = op /\ obj' = obj
    BY <1>1, <1>6, <1>7, <1>8, <2>1, TreeFacts DEF Shape, ListInv, ObjectInv, Updates
  <2>2. CASE at'[n] = "idle" /\ obj'[n] = None
    BY <2>2, IdleInv
  <2>3. QED
    BY <1>5, <2>1, <2>2
<1>11. \A f \in Files : FileInv(f)'
  BY <1>1, <1>2, <1>3, <1>9, FilesGrow
<1>12. at[n] \notin Updates /\ at[n] # "insert" /\ at'[n] # "insert"
  BY <1>1, <1>5 DEF Updates
<1>13. QED
  BY <1>1, <1>9, <1>10, <1>11, <1>12, QuietStep

\* fusion_create makes the file locally and goes on only if ZHT knows the
\* parent.
LEMMA NamedCreate ==
    ASSUME Named, NEW n \in Nodes, create_name(n)
    PROVE  Named'
<1> USE DEF create_name
<1>1. /\ Typed /\ Shape(n) /\ ObjectInv(n) /\ at[n] = "body" /\ op[n] = "create"
      /\ UNCHANGED <<listing, owner, new, mounted>>
  BY DEF Named
<1>2. PICK o \in Files, d \in AllDirs :
         o = obj[n] /\ d = Parent[o] /\ d \in Changed(n) /\ o \in Objects
  BY <1>1, ObjFacts, TreeFacts DEF Shape
<1>3. /\ disk' \in [Nodes -> SUBSET Objects]
      /\ \A m \in Nodes : disk'[m] = IF m = n THEN disk[n] \cup {o} ELSE disk[m]
  BY <1>1, <1>2 DEF Typed
<1>4. /\ (Resume(n, "append") /\ UNCHANGED <<op, obj>>) \/ Return(n)
      /\ Return(n) \/ listing[d] # None
  BY <1>2 DEF ContinueIf, dirname
<1>5. /\ at' \in [Nodes -> NameSteps] /\ op' \in [Nodes -> Ops \cup {None}]
      /\ obj' \in [Nodes -> Objects \cup {Root, None}]
      /\ \A m \in Nodes \ {n} : at'[m] = at[m] /\ op'[m] = op[m] /\ obj'[m] = obj[m]
      /\ \/ at'[n] = "append" /\ op' = op /\ obj' = obj
         \/ at'[n] = "idle" /\ op'[n] = None /\ obj'[n] = None
  BY <1>1, <1>4, Went DEF NameSteps
<1>6. at'[n] = "append" => listing[d] # None
  BY <1>1, <1>4 DEF Return, Resume, Typed
<1> HIDE DEF create_name
<1>7. Typed' /\ Steps(n)
  BY <1>1, <1>2, <1>3, <1>5 DEF Typed, Steps
<1>8. at[n] \notin Updates /\ at[n] # "insert" /\ at'[n] # "insert"
  BY <1>1, <1>5 DEF Updates
<1>9. Children(d)' = Children(d)
  BY <1>1, <1>7, <1>8, ExistsSame
<1>10. owner[o] = None /\ o \notin Children(d)
  BY <1>1, <1>2 DEF ObjectInv, Children, Known
<1>11. Exact(d)
  BY <1>2, <1>8, Settled
<1>12. Shape(n)' /\ ListInv(n)' /\ ObjectInv(n)'
  <2>1. CASE at'[n] = "append" /\ op' = op /\ obj' = obj
    <3>1. Shape(n)' /\ ObjectInv(n)'
      BY <1>1, <1>2, <1>3, <1>10, <2>1 DEF Shape, ObjectInv, Updates, Adds
    <3>2. Before(n)' = Children(d)
      BY <1>1, <1>2, <1>9, <1>10, <2>1 DEF Before, Rest, Adds
    <3>3. Lists(listing'[Parent[obj'[n]]], Children(d))
      BY <1>1, <1>2, <1>6, <1>11, <2>1 DEF Exact
    <3>4. QED
      BY <2>1, <3>1, <3>2, <3>3 DEF ListInv
  <2>2. CASE at'[n] = "idle" /\ obj'[n] = None
    BY <2>2, IdleInv
  <2>3. QED
    BY <1>5, <2>1, <2>2
<1>13. \A f \in Files : FileInv(f)'
  BY <1>1, <1>3, <1>7, FilesGrow
<1>14. QED
  BY <1>1, <1>7, <1>8, <1>12, <1>13, QuietStep

\* fusion_unlink goes on only if ZHT locates the file.
LEMMA NamedUnlink ==
    ASSUME Named, NEW n \in Nodes, unlink_name(n)
    PROVE  Named'
<1> USE DEF unlink_name
<1>1. /\ Typed /\ Shape(n) /\ at[n] = "body" /\ op[n] = "unlink"
      /\ UNCHANGED <<listing, owner, disk, new, mounted>>
  BY DEF Named
<1>2. PICK o \in Files, d \in AllDirs :
         o = obj[n] /\ d = Parent[o] /\ d \in Changed(n) /\ o \in Objects
  BY <1>1, ObjFacts, TreeFacts DEF Shape
<1>3. /\ (Resume(n, "delete") /\ UNCHANGED <<op, obj>>) \/ Return(n)
      /\ Return(n) \/ owner[o] # None
  BY <1>2 DEF ContinueIf
<1>4. /\ at' \in [Nodes -> NameSteps] /\ op' \in [Nodes -> Ops \cup {None}]
      /\ obj' \in [Nodes -> Objects \cup {Root, None}]
      /\ \A m \in Nodes \ {n} : at'[m] = at[m] /\ op'[m] = op[m] /\ obj'[m] = obj[m]
      /\ \/ at'[n] = "delete" /\ op' = op /\ obj' = obj
         \/ at'[n] = "idle" /\ op'[n] = None /\ obj'[n] = None
  BY <1>1, <1>3, Went DEF NameSteps
<1>5. at'[n] = "delete" => owner[o] # None
  BY <1>1, <1>3 DEF Return, Resume, Typed
<1> HIDE DEF unlink_name
<1>6. Typed' /\ Steps(n)
  BY <1>1, <1>2, <1>4 DEF Typed, Steps
<1>7. at[n] \notin Updates /\ at[n] # "insert" /\ at'[n] # "insert"
  BY <1>1, <1>4 DEF Updates
<1>8. Children(d)' = Children(d)
  BY <1>1, <1>6, <1>7, ExistsSame
<1>9. Exact(d)
  BY <1>2, <1>7, Settled
<1>10. Shape(n)' /\ ListInv(n)' /\ ObjectInv(n)'
  <2>1. CASE at'[n] = "delete" /\ op' = op /\ obj' = obj
    <3>1. o \in Children(d)
      BY <1>2, <1>5, <2>1 DEF Children, Known
    <3>2. Shape(n)' /\ ObjectInv(n)'
      BY <1>1, <1>2, <1>5, <2>1 DEF Shape, ObjectInv, Updates, Adds
    <3>3. Before(n)' = Children(d)
      BY <1>1, <1>2, <1>8, <2>1, <3>1 DEF Before, Rest, Adds
    <3>4. Lists(listing'[Parent[obj'[n]]], Children(d))
      BY <1>1, <1>2, <1>9, <2>1, <3>1 DEF Exact
    <3>5. QED
      BY <2>1, <3>2, <3>3, <3>4 DEF ListInv
  <2>2. CASE at'[n] = "idle" /\ obj'[n] = None
    BY <2>2, IdleInv
  <2>3. QED
    BY <1>4, <2>1, <2>2
<1>11. \A f \in Files : FileInv(f)'
  BY <1>1, <1>6, FilesGrow
<1>12. QED
  BY <1>1, <1>6, <1>7, <1>10, <1>11, QuietStep

\* fusion_rmdir goes on only if the list of the directory is empty; what it
\* removes locally lies in it, and nothing exists there.
LEMMA NamedRmdir ==
    ASSUME Named, NEW n \in Nodes, fusion_rmdir(n)
    PROVE  Named'
<1> USE DEF fusion_rmdir
<1>1. /\ Typed /\ Shape(n) /\ at[n] = "body" /\ op[n] = "rmdir"
      /\ UNCHANGED <<listing, owner, new, mounted>>
  BY DEF Named
<1>2. PICK o \in Dirs, d \in AllDirs :
         /\ o = obj[n] /\ d = Parent[o] /\ d \in Changed(n) /\ o \in Changed(n)
         /\ o \in Objects /\ o \in AllDirs
  BY <1>1, ObjFacts, TreeFacts DEF Shape
<1>3. /\ disk' \in [Nodes -> SUBSET Objects]
      /\ \A m \in Nodes \ {n} : disk'[m] = disk[m]
      /\ \A x \in disk[n] : x \in disk'[n] \/ (IsEmpty(o) /\ (x = o \/ Parent[x] = o))
  BY <1>1, <1>2 DEF Typed
<1>4. /\ (Resume(n, "delete") /\ UNCHANGED <<op, obj>>) \/ Return(n)
      /\ Return(n) \/ IsEmpty(o)
  BY <1>2 DEF ContinueIf
<1>5. /\ at' \in [Nodes -> NameSteps] /\ op' \in [Nodes -> Ops \cup {None}]
      /\ obj' \in [Nodes -> Objects \cup {Root, None}]
      /\ \A m \in Nodes \ {n} : at'[m] = at[m] /\ op'[m] = op[m] /\ obj'[m] = obj[m]
      /\ \/ at'[n] = "delete" /\ op' = op /\ obj' = obj
         \/ at'[n] = "idle" /\ op'[n] = None /\ obj'[n] = None
  BY <1>1, <1>4, Went DEF NameSteps
<1>6. at'[n] = "delete" => IsEmpty(o)
  BY <1>1, <1>4 DEF Return, Resume, Typed
<1> HIDE DEF fusion_rmdir
<1>7. Typed' /\ Steps(n)
  BY <1>1, <1>2, <1>3, <1>5 DEF Typed, Steps
<1>8. at[n] \notin Updates /\ at[n] # "insert" /\ at'[n] # "insert"
  BY <1>1, <1>5 DEF Updates
<1>9. Children(d)' = Children(d)
  BY <1>1, <1>7, <1>8, ExistsSame
<1>10. Exact(d) /\ Exact(o)
  BY <1>2, <1>8, Settled
<1>11. IsEmpty(o) => listing[o] = NewListing /\ listing[o] # None /\ Children(o) = {}
  BY <1>10, ValueFacts DEF IsEmpty, NewListing, Exact, Lists
<1>12. Shape(n)' /\ ListInv(n)' /\ ObjectInv(n)'
  <2>1. CASE at'[n] = "delete" /\ op' = op /\ obj' = obj
    <3>1. o \in Children(d)
      BY <1>2, <1>6, <1>11, <2>1, TreeFacts DEF Children, Known
    <3>2. Shape(n)' /\ ObjectInv(n)'
      BY <1>1, <1>2, <1>6, <1>11, <2>1 DEF Shape, ObjectInv, Updates, Adds
    <3>3. Before(n)' = Children(d)
      BY <1>1, <1>2, <1>9, <2>1, <3>1 DEF Before, Rest, Adds
    <3>4. Lists(listing'[Parent[obj'[n]]], Children(d))
      BY <1>1, <1>2, <1>10, <2>1, <3>1 DEF Exact
    <3>5. QED
      BY <2>1, <3>2, <3>3, <3>4 DEF ListInv
  <2>2. CASE at'[n] = "idle" /\ obj'[n] = None
    BY <2>2, IdleInv
  <2>3. QED
    BY <1>5, <2>1, <2>2
<1>13. ASSUME NEW f \in Files PROVE FileInv(f)'
  <2>1. CASE owner[f] = None
    BY <1>1, <2>1 DEF FileInv
  <2>2. CASE owner[f] # None
    <3>1. ~(IsEmpty(o) /\ (f = o \/ Parent[f] = o))
      BY <1>2, <1>11, <2>2, TreeFacts DEF Children, Known
    <3>2. \A m \in Nodes : f \in disk[m] => f \in disk'[m]
      BY <1>3, <3>1
    <3>3. QED
      BY <1>1, <1>7, <3>2, FilesGrow
  <2>3. QED
    BY <2>1, <2>2
<1>14. QED
  BY <1>1, <1>7, <1>8, <1>12, <1>13, QuietStep

\* While the list of a directory is empty, whatever exists in it is being made
\* or being removed.
LEMMA EmptyLists ==
    ASSUME Named, NEW d \in AllDirs, IsEmpty(d), NEW o \in Children(d)
    PROVE  \E m \in Nodes : /\ at[m] \in Updates /\ obj[m] = o /\ Parent[o] = d
                            /\ \/ op[m] = "mkdir"
                               \/ at[m] = "finish" /\ op[m] \in {"unlink", "rmdir"}
<1>1. /\ listing[d] # None /\ ToSet(listing[d].names) = {}
  BY ValueFacts DEF IsEmpty, NewListing
<1>2. PICK m \in Nodes : Updating(m, d)
  BY <1>1 DEF Named, DirInv, Exact, Lists
<1>3. /\ Typed /\ Shape(m) /\ ListInv(m) /\ ObjectInv(m)
      /\ at[m] \in Updates /\ Parent[obj[m]] = d /\ at[m] # "idle" /\ op[m] \in Ops
      /\ op[m] # "readdir"
  BY <1>2 DEF Named, Updating, Shape, Updates
<1>4. at[m] # "insert"
  BY <1>1, <1>3 DEF ListInv
<1>5. CASE at[m] \in {"append", "delete", "remove"}
  <2>1. Before(m) = {}
    BY <1>1, <1>3, <1>5 DEF ListInv, Lists
  <2>2. Adds(m) /\ Rest(m) = {}
    BY <2>1 DEF Before
  <2>3. obj[m] = o
    BY <1>3, <2>2 DEF Rest
  <2>4. op[m] # "create"
    BY <1>3, <2>3 DEF ObjectInv, Shape, Children, Known
  <2>5. QED
    BY <1>3, <2>2, <2>3, <2>4 DEF Adds
<1>6. CASE at[m] = "finish"
  <2>1. After(m) = {}
    BY <1>1, <1>3, <1>6 DEF ListInv, Lists
  <2>2. ~Adds(m) /\ Rest(m) = {}
    BY <2>1 DEF After
  <2>3. obj[m] = o
    BY <1>3, <2>2 DEF Rest
  <2>4. QED
    BY <1>3, <1>6, <2>2, <2>3 DEF Adds, Ops
<1>7. QED
  BY <1>3, <1>4, <1>5, <1>6 DEF Updates

\* The directory of a file that ZHT locates exists.
LEMMA ParentExists ==
    ASSUME Named, NEW f \in Files, owner[f] # None, NEW d \in Dirs, Parent[f] = d
    PROVE  Known(d)
<1>1. f \in Children(d) /\ d \notin Files /\ d \in AllDirs
  BY TreeFacts DEF Children, Known
<1>2. CASE \A m \in Nodes : ~Updating(m, d)
  <2>1. listing[d] # None
    BY <1>1, <1>2 DEF Named, DirInv, Exact
  <2>2. QED
    BY <1>1, <2>1 DEF Known
<1>3. CASE \E m \in Nodes : Updating(m, d)
  <2>1. PICK m \in Nodes : Updating(m, d)
    BY <1>3
  <2>2. ListInv(m)
    BY DEF Named
  <2>3. at[m] = "insert" \/ listing[d] # None
    BY <2>1, <2>2 DEF ListInv, Updating, Updates, Lists
  <2>4. QED
    BY <1>1, <2>1, <2>3 DEF Known, Updating
<1>4. QED
  BY <1>2, <1>3

\* What the rm -r of fusion_readdir removes from under an empty directory is
\* not located by ZHT, or is being unlinked.
LEMMA CleansNothing ==
    ASSUME TakeTurns, Named, NEW d \in AllDirs, IsEmpty(d),
           NEW f \in Files, f \in Prefixed[d], owner[f] # None
    PROVE  \E m \in Nodes : obj[m] = f /\ op[m] = "unlink" /\ at[m] = "finish"
<1>1. CASE Parent[f] = d
  <2>1. f \in Children(d)
    BY <1>1, TreeFacts DEF Children, Known
  <2>2. PICK m \in Nodes : /\ at[m] \in Updates /\ obj[m] = f
                           /\ \/ op[m] = "mkdir"
                              \/ at[m] = "finish" /\ op[m] \in {"unlink", "rmdir"}
    BY <2>1, EmptyLists
  <2>3. Shape(m) /\ at[m] # "idle"
    BY <2>2 DEF Named, Updates
  <2>4. QED
    BY <2>2, <2>3, TreeFacts DEF Shape
<1>2. CASE Parent[f] # d
  <2>1. d = Root
    BY <1>2, TreeFacts DEF TakeTurns, AllDirs
  <2>2. PICK e \in Dirs : e = Parent[f]
    BY <1>2, <2>1, TreeFacts DEF AllDirs
  <2>3. e \in Children(d)
    BY <2>1, <2>2, ParentExists, TreeFacts DEF Children
  <2>4. PICK m \in Nodes : /\ at[m] \in Updates /\ obj[m] = e
                           /\ \/ op[m] = "mkdir"
                              \/ at[m] = "finish" /\ op[m] \in {"unlink", "rmdir"}
    BY <2>3, EmptyLists
  <2>5. Shape(m) /\ ObjectInv(m) /\ at[m] # "idle"
    BY <2>4 DEF Named, Updates
  <2>6. op[m] \in {"mkdir", "rmdir"}
    BY <2>2, <2>4, <2>5, TreeFacts DEF Shape
  <2>7. listing[e] = NewListing
    BY <2>4, <2>5, <2>6 DEF ObjectInv
  <2>8. Exact(e)
    BY <2>2, <2>4, <2>5, <2>6, OwnDir
  <2>9. Children(e) = {}
    BY <2>7, <2>8, ValueFacts DEF Exact, Lists
  <2>10. QED
    BY <2>2, <2>9, TreeFacts DEF Children, Known
<1>3. QED
  BY <1>1, <1>2

\* fusion_readdir cleans an empty directory and makes the listed ones.
LEMMA NamedReaddir ==
    ASSUME TakeTurns, Named, NEW n \in Nodes, fusion_readdir(n)
    PROVE  Named'
<1> USE DEF fusion_readdir
<1>1. /\ Typed /\ Shape(n) /\ at[n] = "body" /\ op[n] = "readdir"
      /\ UNCHANGED <<listing, owner, new, mounted>> /\ Return(n)
  BY DEF Named
<1>2. PICK d \in AllDirs : d = obj[n]
  BY <1>1, ObjFacts
<1>3. /\ disk' \in [Nodes -> SUBSET Objects]
      /\ \A m \in Nodes \ {n} : disk'[m] = disk[m]
      /\ \A x \in disk[n] : x \in disk'[n] \/ (IsEmpty(d) /\ x \in Prefixed[d])
  BY <1>1, <1>2, TreeFacts DEF Typed
<1>4. /\ at' \in [Nodes -> NameSteps] /\ op' \in [Nodes -> Ops \cup {None}]
      /\ obj' \in [Nodes -> Objects \cup {Root, None}]
      /\ \A m \in Nodes \ {n} : at'[m] = at[m] /\ op'[m] = op[m] /\ obj'[m] = obj[m]
      /\ at'[n] = "idle" /\ op'[n] = None /\ obj'[n] = None
  BY <1>1 DEF Return, Resume, Typed, NameSteps
<1> HIDE DEF fusion_readdir
<1>5. Typed' /\ Steps(n)
  BY <1>1, <1>3, <1>4 DEF Typed, Steps
<1>6. Shape(n)' /\ ListInv(n)' /\ ObjectInv(n)'
  BY <1>4, IdleInv
<1>7. at[n] \notin Updates /\ at[n] # "insert" /\ at'[n] # "insert"
  BY <1>1, <1>4 DEF Updates
<1>8. ASSUME NEW f \in Files PROVE FileInv(f)'
  <2>1. CASE owner[f] # None /\ IsEmpty(d) /\ f \in Prefixed[d]
    <3>1. PICK m \in Nodes : obj[m] = f /\ op[m] = "unlink" /\ at[m] = "finish"
      BY <2>1, CleansNothing
    <3>2. m # n
      BY <1>1, <3>1
    <3>3. QED
      BY <1>4, <3>1, <3>2 DEF FileInv
  <2>2. CASE owner[f] = None
    BY <1>1, <2>2 DEF FileInv
  <2>3. CASE ~(IsEmpty(d) /\ f \in Prefixed[d])
    <3>1. \A m \in Nodes : f \in disk[m] => f \in disk'[m]
      BY <1>3, <2>3
    <3>2. QED
      BY <1>1, <1>5, <3>1, FilesGrow
  <2>4. QED
    BY <2>1, <2>2, <2>3
<1>9. QED
  BY <1>1, <1>5, <1>6, <1>7, <1>8, QuietStep

\* What the four calls of an update, and the step after them, have in common.
LEMMA UpdateFacts ==
    ASSUME Named, NEW n \in Nodes, at[n] \in Updates
    PROVE  /\ Typed /\ Shape(n) /\ ListInv(n) /\ ObjectInv(n) /\ at[n] # "idle"
           /\ op[n] \in Ops /\ op[n] # "readdir" /\ new[n] \in Value
           /\ obj[n] \in Objects /\ Parent[obj[n]] \in AllDirs /\ obj[n] # Parent[obj[n]]
           /\ Parent[obj[n]] \in Changed(n)
           /\ obj[n] \in Dirs => obj[n] \in Changed(n)
           /\ \A d \in Changed(n) : d = Parent[obj[n]] \/ (d = obj[n] /\ obj[n] \in Dirs)
<1>1. Typed /\ Shape(n) /\ ListInv(n) /\ ObjectInv(n) /\ at[n] # "idle" /\ op[n] # "readdir"
  BY DEF Named, Updates, Shape
<1>2. new[n] \in Value
  BY <1>1 DEF Typed
<1>3. QED
  BY <1>1, <1>2, ObjFacts, TreeFacts, TreeAssumption DEF AllDirs, Objects

\* The lookup of zht_append: newval is the list with the object.
LEMMA NamedAppend ==
    ASSUME Named, NEW n \in Nodes, zht_append(n)
    PROVE  Named'
<1> USE DEF zht_append, Update
<1>1. at[n] = "append" /\ at[n] \in Updates /\ UNCHANGED <<listing, owner, disk, mounted, op, obj>>
  BY DEF Updates
<1>2. /\ Typed /\ Shape(n) /\ ListInv(n) /\ ObjectInv(n) /\ op[n] # "readdir"
      /\ Adds(n)
  BY <1>1, UpdateFacts DEF Shape
<1>3. PICK o \in Objects, d \in AllDirs : o = obj[n] /\ d = Parent[o]
  BY <1>1, UpdateFacts
<1>4. Lists(listing[d], Children(d) \ {o}) /\ listing[d] \in Value
  BY <1>1, <1>2, <1>3 DEF ListInv, Before, Rest, Lists, Typed
<1>5. /\ new' = [new EXCEPT ![n] = Appended(listing[d], o)]
      /\ at' = [at EXCEPT ![n] = "remove"]
  BY <1>3, <1>4 DEF Lookup, dirname, Resume, Lists
<1>6. Appended(listing[d], o) \in Value /\ Lists(Appended(listing[d], o), (Children(d) \ {o}) \cup {o})
  BY <1>4, AppendedLists
<1>7. /\ new' \in [Nodes -> Value] /\ new'[n] = Appended(listing[d], o) /\ at' \in [Nodes -> NameSteps]
      /\ at'[n] = "remove"
      /\ \A m \in Nodes \ {n} : at'[m] = at[m] /\ new'[m] = new[m]
  BY <1>2, <1>5, <1>6 DEF Typed, NameSteps
<1>8. Typed' /\ Steps(n)
  BY <1>1, <1>2, <1>7 DEF Typed, Steps
<1>9. Children(d)' = Children(d)
  BY <1>1, <1>7, <1>8, ExistsSame
<1>10. Shape(n)' /\ ObjectInv(n)'
  BY <1>1, <1>2, <1>7 DEF Shape, ObjectInv, Updates, Adds
<1>11. ListInv(n)'
  BY <1>1, <1>2, <1>3, <1>4, <1>6, <1>7, <1>9 DEF ListInv, Before, After, Rest, Adds
<1>12. \A f \in Files : FileInv(f)'
  BY <1>1, <1>8, FilesGrow
<1>13. at'[n] \in Updates
  BY <1>7 DEF Updates
<1>14. QED
  BY <1>1, <1>7, <1>8, <1>10, <1>11, <1>12, <1>13, QuietStep

\* The lookup of zht_delete: newval is the list without it.
LEMMA NamedDelete ==
    ASSUME Named, NEW n \in Nodes, zht_delete(n)
    PROVE  Named'
<1> USE DEF zht_delete, Update
<1>1. at[n] = "delete" /\ at[n] \in Updates /\ UNCHANGED <<listing, owner, disk, mounted, op, obj>>
  BY DEF Updates
<1>2. /\ Typed /\ Shape(n) /\ ListInv(n) /\ ObjectInv(n) /\ op[n] # "readdir"
      /\ ~Adds(n)
  BY <1>1, UpdateFacts DEF Shape
<1>3. PICK o \in Objects, d \in AllDirs : o = obj[n] /\ d = Parent[o]
  BY <1>1, UpdateFacts
<1>4. Lists(listing[d], (Children(d) \ {o}) \cup {o}) /\ listing[d] \in Value
  BY <1>1, <1>2, <1>3 DEF ListInv, Before, Rest, Lists, Typed
<1>5. /\ new' = [new EXCEPT ![n] = Deleted(listing[d], o)]
      /\ at' = [at EXCEPT ![n] = "remove"]
  BY <1>3, <1>4 DEF Lookup, dirname, Resume, Lists
<1>6. Deleted(listing[d], o) \in Value /\ Lists(Deleted(listing[d], o), Children(d) \ {o})
  <2>1. ((Children(d) \ {o}) \cup {o}) \ {o} = Children(d) \ {o}
    OBVIOUS
  <2>2. Lists(Deleted(listing[d], o), ((Children(d) \ {o}) \cup {o}) \ {o})
    BY <1>4, DeletedLists
  <2>3. QED
    BY <1>4, <2>1, <2>2, DeletedLists
<1>7. /\ new' \in [Nodes -> Value] /\ new'[n] = Deleted(listing[d], o) /\ at' \in [Nodes -> NameSteps]
      /\ at'[n] = "remove"
      /\ \A m \in Nodes \ {n} : at'[m] = at[m] /\ new'[m] = new[m]
  BY <1>2, <1>5, <1>6 DEF Typed, NameSteps
<1>8. Typed' /\ Steps(n)
  BY <1>1, <1>2, <1>7 DEF Typed, Steps
<1>9. Children(d)' = Children(d)
  BY <1>1, <1>7, <1>8, ExistsSame
<1>10. Shape(n)' /\ ObjectInv(n)'
  BY <1>1, <1>2, <1>7 DEF Shape, ObjectInv, Updates, Adds
<1>11. ListInv(n)'
  BY <1>1, <1>2, <1>3, <1>4, <1>6, <1>7, <1>9 DEF ListInv, Before, After, Rest, Adds
<1>12. \A f \in Files : FileInv(f)'
  BY <1>1, <1>8, FilesGrow
<1>13. at'[n] \in Updates
  BY <1>7 DEF Updates
<1>14. QED
  BY <1>1, <1>7, <1>8, <1>10, <1>11, <1>12, <1>13, QuietStep

\* A directory that is made or removed keeps its content while its parent's
\* list changes.
LEMMA OwnKept ==
    ASSUME Named, NEW n \in Nodes, Steps(n), Shape(n)', op[n] # "readdir",
           NEW o \in Dirs, o = obj[n]
    PROVE  /\ Exact(o) /\ \A m \in Nodes : ~Updating(m, o)
           /\ Children(o)' = Children(o)
           /\ listing'[o] = listing[o] => DirInv(o)'
<1>1. Exact(o) /\ \A m \in Nodes : ~Updating(m, o)
  BY OwnDir DEF Steps
<1>2. o \in AllDirs /\ Parent[o] # o
  BY TreeFacts
<1>3. Children(o)' \ {o} = Children(o) \ {o}
  BY <1>2, RestKept
<1>4. Children(o)' = Children(o)
  BY <1>2, <1>3 DEF Children
<1>5. QED
  BY <1>1, <1>4 DEF DirInv, Exact

\* The remove: for a moment ZHT does not know the parent.
LEMMA NamedRemove ==
    ASSUME Named, NEW n \in Nodes, remove_list(n)
    PROVE  Named'
<1> USE DEF remove_list, Update
<1>1. at[n] = "remove" /\ at[n] \in Updates /\ UNCHANGED <<owner, disk, mounted, op, obj, new>>
  BY DEF Updates
<1>2. Typed /\ Shape(n) /\ ListInv(n) /\ ObjectInv(n) /\ op[n] # "readdir"
  BY <1>1, UpdateFacts
<1>3. PICK o \in Objects, d \in AllDirs :
         /\ o = obj[n] /\ d = Parent[o] /\ o # d /\ d \in Changed(n)
         /\ \A e \in Changed(n) : e = d \/ (e = o /\ o \in Dirs)
  BY <1>1, UpdateFacts
<1>4. Lists(listing[d], Before(n)) /\ Lists(new[n], After(n))
  BY <1>1, <1>2, <1>3 DEF ListInv
<1>5. /\ listing' = [listing EXCEPT ![d] = None] /\ at' = [at EXCEPT ![n] = "insert"]
  BY <1>3 DEF dirname, Resume
<1>6. /\ listing' \in [AllDirs -> {None} \cup Value] /\ at' \in [Nodes -> NameSteps]
      /\ listing'[d] = None /\ at'[n] = "insert"
      /\ \A e \in AllDirs : e # d => listing'[e] = listing[e]
      /\ \A m \in Nodes \ {n} : at'[m] = at[m]
  BY <1>2, <1>5 DEF Typed, NameSteps
<1>7. Typed' /\ Steps(n)
  BY <1>1, <1>2, <1>3, <1>4, <1>6 DEF Typed, Steps, Lists
<1>8. Shape(n)' /\ ObjectInv(n)'
  BY <1>1, <1>2, <1>3, <1>6, TreeFacts DEF Shape, ObjectInv, Updates, Adds
<1>9. Children(d)' \ {o} = Children(d) \ {o}
  BY <1>2, <1>3, <1>7, <1>8, RestKept
<1>10. ListInv(n)'
  BY <1>1, <1>2, <1>3, <1>4, <1>6, <1>9 DEF ListInv, After, Rest, Adds
<1>11. \A f \in Files : FileInv(f)'
  BY <1>1, <1>7, FilesGrow
<1>12. DirInv(d)'
  BY <1>1, <1>3, <1>6 DEF DirInv, Updating, Updates
<1>13. o \in Dirs => DirInv(o)'
  BY <1>2, <1>3, <1>6, <1>7, <1>8, OwnKept, TreeFacts
<1>14. QED
  BY <1>3, <1>7, <1>8, <1>10, <1>11, <1>12, <1>13, NamedStep

\* The insert: the parent lists newval. This ends fusion_mkdir, whose directory
\* already exists.
LEMMA NamedInsert ==
    ASSUME Named, NEW n \in Nodes, insert_list(n)
    PROVE  Named'
<1> USE DEF insert_list
<1>1. at[n] = "insert" /\ at[n] \in Updates /\ UNCHANGED <<owner, disk, mounted>>
  BY DEF Updates
<1>2. Typed /\ Shape(n) /\ ListInv(n) /\ ObjectInv(n) /\ op[n] # "readdir" /\ at[n] # "idle"
  BY <1>1, UpdateFacts
<1>3. PICK o \in Objects, d \in AllDirs :
         /\ o = obj[n] /\ d = Parent[o] /\ o # d /\ d \in Changed(n)
         /\ \A e \in Changed(n) : e = d \/ (e = o /\ o \in Dirs)
  BY <1>1, UpdateFacts
<1>4. /\ Lists(new[n], After(n)) /\ new[n] \in Value
  BY <1>1, <1>2, <1>3, UpdateFacts DEF ListInv
<1>5. /\ listing' = [listing EXCEPT ![d] = new[n]] /\ new' = [new EXCEPT ![n] = Nothing]
  BY <1>3 DEF dirname
<1>6. /\ (Resume(n, "finish") /\ UNCHANGED <<op, obj>>) \/ Return(n)
      /\ Return(n) <=> op[n] = "mkdir"
  BY <1>2 DEF ContinueIf, Return, Resume, Typed
<1>7. /\ at' \in [Nodes -> NameSteps] /\ op' \in [Nodes -> Ops \cup {None}]
      /\ obj' \in [Nodes -> Objects \cup {Root, None}]
      /\ \A m \in Nodes \ {n} : at'[m] = at[m] /\ op'[m] = op[m] /\ obj'[m] = obj[m]
      /\ \/ at'[n] = "finish" /\ op' = op /\ obj' = obj /\ op[n] # "mkdir"
         \/ at'[n] = "idle" /\ op'[n] = None /\ obj'[n] = None /\ op[n] = "mkdir"
  <2>1. "finish" \in NameSteps \ {"idle"}
    BY DEF NameSteps
  <2>2. CASE Resume(n, "finish") /\ UNCHANGED <<op, obj>> /\ op[n] # "mkdir"
    BY <1>2, <2>1, <2>2 DEF Resume, Typed
  <2>3. CASE Return(n) /\ op[n] = "mkdir"
    BY <1>2, <2>3 DEF Return, Resume, Typed, NameSteps
  <2>4. QED
    BY <1>6, <2>2, <2>3
<1>8. /\ listing' \in [AllDirs -> {None} \cup Value] /\ new' \in [Nodes -> Value]
      /\ listing'[d] = new[n] /\ listing'[d] # None
      /\ \A e \in AllDirs : e # d => listing'[e] = listing[e]
      /\ \A m \in Nodes \ {n} : new'[m] = new[m]
  <2>1. new[n] # None /\ Nothing \in Value
    BY <1>4, ValueFacts DEF Lists
  <2>2. /\ listing' \in [AllDirs -> {None} \cup Value] /\ listing'[d] = new[n]
        /\ \A e \in AllDirs : e # d => listing'[e] = listing[e]
    BY <1>2, <1>4, <1>5 DEF Typed
  <2>3. new' \in [Nodes -> Value] /\ \A m \in Nodes \ {n} : new'[m] = new[m]
    BY <1>2, <1>5, <2>1 DEF Typed
  <2>4. QED
    BY <2>1, <2>2, <2>3
<1>9. Typed' /\ Steps(n)
  BY <1>1, <1>2, <1>3, <1>7, <1>8 DEF Typed, Steps
<1>10. Shape(n)' /\ ObjectInv(n)'
  <2>1. CASE at'[n] = "idle" /\ obj'[n] = None
    BY <2>1, IdleInv
  <2>2. CASE at'[n] = "finish" /\ op' = op /\ obj' = obj /\ op[n] # "mkdir"
    BY <1>1, <1>2, <1>3, <1>8, <2>2, TreeFacts DEF Shape, ObjectInv, Updates, Adds
  <2>3. QED
    BY <1>7, <2>1, <2>2
<1>11. Children(d)' \ {o} = Children(d) \ {o}
  BY <1>2, <1>3, <1>9, <1>10, RestKept
<1>12. ListInv(n)'
  <2>1. CASE at'[n] = "idle" /\ obj'[n] = None
    BY <2>1, IdleInv
  <2>2. CASE at'[n] = "finish" /\ op' = op /\ obj' = obj /\ op[n] # "mkdir"
    BY <1>3, <1>4, <1>8, <1>11, <2>2 DEF ListInv, After, Rest, Adds
  <2>3. QED
    BY <1>7, <2>1, <2>2
<1>13. \A f \in Files : FileInv(f)'
  BY <1>1, <1>9, FilesGrow
<1>14. DirInv(d)'
  <2>1. CASE at'[n] = "finish" /\ obj' = obj
    BY <1>3, <2>1 DEF DirInv, Updating, Updates
  <2>2. CASE op[n] = "mkdir"
    <3>1. o \in Dirs /\ listing'[o] = NewListing /\ Parent[o] = d
      BY <1>1, <1>2, <1>3, <1>8, <2>2, TreeFacts DEF Shape, ObjectInv
    <3>2. o \in Children(d)'
      BY <3>1, TreeFacts, ValueFacts DEF Children, Known
    <3>3. After(n) = (Children(d) \ {o}) \cup {o}
      BY <1>3, <2>2 DEF After, Rest, Adds
    <3>4. After(n) = Children(d)'
      BY <1>11, <3>2, <3>3
    <3>5. Lists(listing'[d], Children(d)')
      BY <1>4, <1>8, <3>4
    <3>6. QED
      BY <1>8, <3>5 DEF DirInv, Exact
  <2>3. QED
    BY <1>7, <2>1, <2>2
<1>15. o \in Dirs => DirInv(o)'
  BY <1>2, <1>3, <1>8, <1>9, <1>10, OwnKept, TreeFacts
<1>16. QED
  BY <1>3, <1>9, <1>10, <1>12, <1>13, <1>14, <1>15, NamedStep

\* fusion_mkdir: the new directory has an empty list before its parent lists
\* it, and nothing is in it.
LEMMA NamedMkdir ==
    ASSUME Named, NEW n \in Nodes, fusion_mkdir(n)
    PROVE  Named'
<1> USE DEF fusion_mkdir
<1>1. at[n] = "body" /\ op[n] = "mkdir" /\ UNCHANGED <<owner, mounted, op, obj, new>>
  OBVIOUS
<1>2. Typed /\ Shape(n) /\ ObjectInv(n) /\ OneChanger
  BY DEF Named
<1>3. PICK o \in Dirs : o = obj[n] /\ Parent[o] = Root /\ listing[o] = None /\ o # Root
  BY <1>1, <1>2, TreeFacts DEF Shape, ObjectInv
<1>4. /\ o \in Objects /\ Root \in Changed(n) /\ o \in Changed(n)
      /\ \A e \in Changed(n) : e = Root \/ e = o
  BY <1>1, <1>2, <1>3, ObjFacts
<1>5. /\ listing' = [listing EXCEPT ![o] = NewListing]
      /\ disk' = [disk EXCEPT ![n] = @ \cup {o}]
      /\ at' = [at EXCEPT ![n] = "append"]
  BY <1>3 DEF Resume
<1>6. /\ listing' \in [AllDirs -> {None} \cup Value] /\ listing'[o] = NewListing
      /\ \A e \in AllDirs : e # o => listing'[e] = listing[e]
  BY <1>2, <1>3, <1>5, ValueFacts, TreeFacts DEF Typed
<1>7. disk' \in [Nodes -> SUBSET Objects] /\ \A m \in Nodes : disk[m] \subseteq disk'[m]
  BY <1>2, <1>4, <1>5 DEF Typed
<1>8. /\ at' \in [Nodes -> NameSteps] /\ at'[n] = "append"
      /\ \A m \in Nodes \ {n} : at'[m] = at[m]
  BY <1>2, <1>5 DEF Typed, NameSteps
<1>9. Typed' /\ Steps(n)
  BY <1>1, <1>2, <1>3, <1>4, <1>6, <1>7, <1>8, TreeFacts DEF Typed, Steps
<1>10. Shape(n)' /\ ObjectInv(n)'
  BY <1>1, <1>2, <1>3, <1>6, <1>8, TreeFacts DEF Shape, ObjectInv, Updates, Adds
<1>11. Children(Root)' \ {o} = Children(Root) \ {o}
  BY <1>1, <1>3, <1>9, <1>10, RestKept, TreeFacts
<1>12. o \notin Children(Root)
  <2>1. \A m \in Nodes : ~Updating(m, o)
    BY <1>1, <1>3, OwnDir
  <2>2. ~Known(o)
    BY <1>3, <2>1, TreeFacts DEF Known, Updating, Updates
  <2>3. QED
    BY <2>2 DEF Children
<1>13. listing[Root] # None
  <2>1. Root \in AllDirs /\ mounted # {}
    BY <1>1, <1>2, TreeFacts DEF Shape
  <2>2. ASSUME NEW m \in Nodes, at[m] = "insert", Parent[obj[m]] = Root PROVE FALSE
    <3>1. Root \in Changed(m)
      BY <2>2, UpdateFacts DEF Updates
    <3>2. QED
      BY <1>1, <1>2, <1>4, <2>2, <3>1 DEF OneChanger
  <2>3. QED
    BY <2>1, <2>2 DEF Named, Mounted
<1>14. Lists(listing[Root], Children(Root))
  BY <1>1, <1>4, <1>13, Settled DEF Exact, Updates
<1>15. Lists(listing'[Root], Children(Root)' \ {o})
  <2>1. Children(Root) \ {o} = Children(Root)
    BY <1>12
  <2>2. QED
    BY <1>3, <1>6, <1>11, <1>14, <2>1, TreeFacts
<1>16. ListInv(n)'
  BY <1>1, <1>3, <1>8, <1>15 DEF ListInv, Before, Rest, Adds
<1>17. \A f \in Files : FileInv(f)'
  BY <1>1, <1>7, <1>9, FilesGrow
<1>18. DirInv(Root)'
  BY <1>1, <1>3, <1>8 DEF DirInv, Updating, Updates
<1>19. DirInv(o)'
  <2>1. Exact(o) /\ Children(o)' = Children(o)
    BY <1>1, <1>3, <1>9, <1>10, OwnKept
  <2>2. Children(o)' = {}
    BY <1>3, <2>1 DEF Exact
  <2>3. Lists(listing'[o], Children(o)')
    BY <1>6, <2>2, ValueFacts DEF Lists
  <2>4. QED
    BY <1>6, <2>3, ValueFacts DEF DirInv, Exact
<1>20. QED
  BY <1>4, <1>9, <1>10, <1>16, <1>17, <1>18, <1>19, NamedStep

\* The end of fusion_create: the file exists, as its parent says already.
LEMMA NamedInsertFile ==
    ASSUME Named, NEW n \in Nodes, InsertFile(n)
    PROVE  Named'
<1> USE DEF InsertFile
<1>1. /\ at[n] = "finish" /\ at[n] \in Updates /\ op[n] = "create" /\ Return(n)
      /\ UNCHANGED <<listing, disk, mounted, new>>
  BY DEF Updates
<1>2. Typed /\ Shape(n) /\ ListInv(n) /\ ObjectInv(n)
  BY <1>1, UpdateFacts
<1>3. PICK f \in Files, d \in AllDirs :
         /\ f = obj[n] /\ d = Parent[f] /\ d \in Changed(n) /\ \A e \in Changed(n) : e = d
  BY <1>1, <1>2, UpdateFacts, TreeFacts DEF Shape
<1>4. owner' = [owner EXCEPT ![f] = n]
  BY <1>3
<1>5. /\ owner' \in [Files -> {None} \cup Nodes] /\ owner'[f] = n
      /\ \A g \in Files : g # f => owner'[g] = owner[g]
  BY <1>2, <1>4 DEF Typed
<1>6. Typed' /\ Steps(n)
  BY <1>1, <1>2, <1>3, <1>5, Returned DEF Typed, Steps
<1>7. at'[n] = "idle" /\ obj'[n] = None
  BY <1>1, <1>2, Returned
<1>8. Shape(n)' /\ ListInv(n)' /\ ObjectInv(n)'
  BY <1>7, IdleInv
<1>9. Lists(listing[d], (Children(d) \ {f}) \cup {f})
  BY <1>1, <1>2, <1>3 DEF ListInv, After, Rest, Adds
<1>10. Children(d)' = (Children(d) \ {f}) \cup {f}
  <2>1. Children(d)' \ {f} = Children(d) \ {f}
    BY <1>1, <1>3, <1>6, <1>8, RestKept
  <2>2. Known(f)'
    BY <1>5, TreeFacts DEF Known
  <2>3. f \in Children(d)'
    BY <1>3, <2>2, TreeFacts DEF Children
  <2>4. QED
    BY <2>1, <2>3
<1>11. DirInv(d)'
  BY <1>1, <1>9, <1>10 DEF DirInv, Exact, Lists
<1>12. f \in disk'[n]
  BY <1>1, <1>2, <1>3 DEF ObjectInv
<1>13. \A g \in Files : FileInv(g)'
  <2>1. FileInv(f)'
    BY <1>5, <1>12 DEF FileInv
  <2>2. ASSUME NEW g \in Files, g # f PROVE FileInv(g)'
    BY <1>1, <1>3, <1>5, <1>6, <2>2, FilesGrow
  <2>3. QED
    BY <2>1, <2>2
<1>14. QED
  BY <1>3, <1>6, <1>8, <1>11, <1>13, NamedStep

\* The end of fusion_unlink: the file is gone, as its parent says already.
LEMMA NamedRemoveFile ==
    ASSUME Named, NEW n \in Nodes, RemoveFile(n)
    PROVE  Named'
<1> USE DEF RemoveFile
<1>1. /\ at[n] = "finish" /\ at[n] \in Updates /\ op[n] = "unlink" /\ Return(n)
      /\ UNCHANGED <<listing, mounted, new>>
  BY DEF Updates
<1>2. Typed /\ Shape(n) /\ ListInv(n) /\ ObjectInv(n)
  BY <1>1, UpdateFacts
<1>3. PICK f \in Files, d \in AllDirs :
         /\ f = obj[n] /\ d = Parent[f] /\ d \in Changed(n) /\ \A e \in Changed(n) : e = d
  BY <1>1, <1>2, UpdateFacts, TreeFacts DEF Shape
<1>4. /\ owner' = [owner EXCEPT ![f] = None]
      /\ disk' = [m \in Nodes |-> IF m \in {n, owner[f]} THEN disk[m] \ {f} ELSE disk[m]]
  BY <1>3
<1>5. /\ owner' \in [Files -> {None} \cup Nodes] /\ owner'[f] = None
      /\ \A g \in Files : g # f => owner'[g] = owner[g]
  BY <1>2, <1>4 DEF Typed
<1>6. /\ disk' \in [Nodes -> SUBSET Objects]
      /\ \A m \in Nodes : \A o \in disk[m] : o # f => o \in disk'[m]
  BY <1>2, <1>4 DEF Typed
<1>7. Typed' /\ Steps(n)
  BY <1>1, <1>2, <1>3, <1>5, <1>6, Returned DEF Typed, Steps
<1>8. at'[n] = "idle" /\ obj'[n] = None
  BY <1>1, <1>2, Returned
<1>9. Shape(n)' /\ ListInv(n)' /\ ObjectInv(n)'
  BY <1>8, IdleInv
<1>10. Lists(listing[d], Children(d) \ {f})
  BY <1>1, <1>2, <1>3 DEF ListInv, After, Rest, Adds
<1>11. Children(d)' = Children(d) \ {f}
  <2>1. Children(d)' \ {f} = Children(d) \ {f}
    BY <1>1, <1>3, <1>7, <1>9, RestKept
  <2>2. ~Known(f)'
    BY <1>5 DEF Known
  <2>3. f \notin Children(d)'
    BY <2>2 DEF Children
  <2>4. QED
    BY <2>1, <2>3
<1>12. DirInv(d)'
  BY <1>1, <1>10, <1>11 DEF DirInv, Exact, Lists
<1>13. \A g \in Files : FileInv(g)'
  <2>1. FileInv(f)'
    BY <1>5 DEF FileInv
  <2>2. ASSUME NEW g \in Files, g # f PROVE FileInv(g)'
    BY <1>3, <1>5, <1>6, <1>7, <2>2, FilesGrow
  <2>3. QED
    BY <2>1, <2>2
<1>14. QED
  BY <1>3, <1>7, <1>9, <1>12, <1>13, NamedStep

\* The end of fusion_rmdir: nobody was let into the directory since its list
\* was found empty.
LEMMA NamedRemoveDirectory ==
    ASSUME Named, NEW n \in Nodes, RemoveDirectory(n)
    PROVE  Named'
<1> USE DEF RemoveDirectory
<1>1. /\ at[n] = "finish" /\ at[n] \in Updates /\ op[n] = "rmdir" /\ Return(n)
      /\ UNCHANGED <<owner, disk, mounted, new>>
  BY DEF Updates
<1>2. Typed /\ Shape(n) /\ ListInv(n) /\ ObjectInv(n)
  BY <1>1, UpdateFacts
<1>3. PICK o \in Dirs :
         /\ o = obj[n] /\ Parent[o] = Root /\ o # Root /\ o \in AllDirs /\ o \in Objects
         /\ listing[o] = NewListing
  BY <1>1, <1>2, TreeFacts DEF Shape, ObjectInv
<1>4. Root \in Changed(n) /\ \A e \in Changed(n) : e = Root \/ e = o
  BY <1>1, <1>3, UpdateFacts
<1>5. o \in Changed(n)
  BY <1>1, <1>3, UpdateFacts
<1>6. listing' = [listing EXCEPT ![o] = None]
  BY <1>3
<1>7. /\ listing' \in [AllDirs -> {None} \cup Value] /\ listing'[o] = None
      /\ \A e \in AllDirs : e # o => listing'[e] = listing[e]
  BY <1>2, <1>3, <1>6 DEF Typed
<1>8. Typed' /\ Steps(n)
  BY <1>1, <1>2, <1>3, <1>5, <1>7, Returned, TreeFacts DEF Typed, Steps
<1>9. at'[n] = "idle" /\ obj'[n] = None
  BY <1>1, <1>2, Returned
<1>10. Shape(n)' /\ ListInv(n)' /\ ObjectInv(n)'
  BY <1>9, IdleInv
<1>11. Lists(listing'[Root], Children(Root) \ {o})
  BY <1>1, <1>2, <1>3, <1>7, TreeFacts DEF ListInv, After, Rest, Adds
<1>12. Exact(o) /\ (\A m \in Nodes : ~Updating(m, o)) /\ Children(o)' = Children(o)
  BY <1>1, <1>3, <1>8, <1>10, OwnKept
<1>13. ~Known(o)'
  <2>1. \A m \in Nodes \ {n} : at'[m] = at[m] /\ obj'[m] = obj[m]
    BY <1>8 DEF Steps
  <2>2. \A m \in Nodes : ~(at'[m] = "insert" /\ Parent[obj'[m]] = o)
    BY <1>9, <1>12, <2>1 DEF Updating, Updates
  <2>3. QED
    BY <1>3, <1>7, <2>2, TreeFacts DEF Known
<1>14. Children(Root)' = Children(Root) \ {o}
  <2>1. Children(Root)' \ {o} = Children(Root) \ {o}
    BY <1>1, <1>3, <1>8, <1>10, RestKept, TreeFacts
  <2>2. o \notin Children(Root)'
    BY <1>13 DEF Children
  <2>3. QED
    BY <2>1, <2>2
<1>15. DirInv(Root)'
  BY <1>11, <1>14 DEF DirInv, Exact, Lists
<1>16. DirInv(o)'
  <2>1. Children(o) = {}
    BY <1>3, <1>12, ValueFacts DEF Exact, Lists
  <2>2. QED
    BY <1>7, <1>12, <2>1 DEF DirInv, Exact
<1>17. \A f \in Files : FileInv(f)'
  <2>1. ASSUME NEW f \in Files PROVE FileInv(f)'
    BY <1>1, <1>3, <1>8, TreeFacts, FilesGrow
  <2>2. QED
    BY <2>1
<1>18. QED
  BY <1>4, <1>8, <1>10, <1>15, <1>16, <1>17, NamedStep

-----------------------------------------------------------------------------
(*****************************************************************************)
(* The invariant is inductive.                                               *)
(*****************************************************************************)
\* The initial states satisfy the invariant.
LEMMA NamedInit ==
    ASSUME NamesInit
    PROVE  Named
<1> USE DEF NamesInit
<1>1. Typed
  BY ValueFacts DEF Typed, NameSteps
<1>2. \A n \in Nodes : at[n] = "idle" /\ obj[n] = None /\ Changed(n) = {}
  BY DEF Changed
<1>3. OneChanger /\ \A n \in Nodes : Shape(n) /\ ListInv(n) /\ ObjectInv(n)
  BY <1>2 DEF OneChanger, Shape, ListInv, ObjectInv, Updates
<1>4. Mounted
  BY DEF Mounted, AllDirs
<1>5. \A o \in Objects : ~Known(o)
  BY <1>2 DEF Known, AllDirs, Objects
<1>6. \A d \in AllDirs : DirInv(d)
  BY <1>5 DEF DirInv, Exact, Children
<1>7. \A f \in Files : FileInv(f)
  BY DEF FileInv
<1>8. QED
  BY <1>1, <1>3, <1>4, <1>6, <1>7 DEF Named

\* A mount overwrites the root's list, but nothing exists yet.
LEMMA NamedMount ==
    ASSUME Named, NEW n \in Nodes, Mount(n)
    PROVE  Named'
<1> USE DEF Mount
<1>1. /\ Typed /\ OneChanger /\ mounted # Nodes /\ mounted' = mounted \cup {n}
      /\ UNCHANGED <<owner, disk, at, op, obj, new>>
  BY DEF Named, operation
<1>2. \A m \in Nodes : at[m] = "idle" /\ obj[m] = None
  BY <1>1 DEF Named, Shape
<1>3. /\ \A f \in Files : owner[f] = None
      /\ \A d \in Dirs : listing[d] = None
  BY <1>1 DEF Named, Mounted
<1>4. /\ listing' \in [AllDirs -> {None} \cup Value] /\ listing'[Root] = NewListing
      /\ \A d \in Dirs : listing'[d] = None
  BY <1>1, <1>3, ValueFacts, TreeFacts DEF Typed
<1>5. Typed'
  BY <1>1, <1>4 DEF Typed
<1>6. OneChanger' /\ \A m \in Nodes : Shape(m)' /\ ListInv(m)' /\ ObjectInv(m)'
  BY <1>1, <1>2 DEF OneChanger, Changed, Shape, ListInv, ObjectInv, Updates
<1>7. Mounted'
  BY <1>1, <1>3, <1>4, ValueFacts DEF Mounted
<1>8. \A o \in Objects : ~Known(o)'
  BY <1>1, <1>2, <1>3, <1>4 DEF Known, Objects
<1>9. \A d \in AllDirs : Children(d)' = {}
  BY <1>8 DEF Children
<1>10. ASSUME NEW d \in AllDirs PROVE DirInv(d)'
  <2>1. CASE d = Root
    BY <1>4, <1>9, <2>1, ValueFacts DEF DirInv, Exact, Lists
  <2>2. CASE d \in Dirs
    BY <1>4, <1>9, <2>2 DEF DirInv, Exact
  <2>3. QED
    BY <2>1, <2>2 DEF AllDirs
<1>11. \A f \in Files : FileInv(f)'
  BY <1>1, <1>3 DEF FileInv
<1>12. QED
  BY <1>5, <1>6, <1>7, <1>10, <1>11 DEF Named

\* An operation begins when Admitted lets it.
LEMMA NamedStart ==
    ASSUME TakeTurns, Named, NEW n \in Nodes, NEW what \in Ops, NEW o \in Targets(what),
           Request(n, what, o)
    PROVE  Named'
<1> USE DEF Request
<1>1. /\ Typed /\ OneChanger /\ mounted = Nodes /\ at[n] = "idle" /\ obj[n] = None
      /\ UNCHANGED <<listing, owner, disk, mounted, new>>
  BY DEF Named, Shape
<1>2. /\ what \in {"create", "unlink"} => o \in Files
      /\ what \in {"mkdir", "rmdir"} => o \in Dirs
      /\ what = "readdir" => o \in AllDirs
      /\ o \in Objects \cup {Root} /\ (what # "readdir" => o \in Objects)
  <2>1. CASE what \in {"create", "unlink"}
    BY <2>1, TreeFacts DEF Targets
  <2>2. CASE what \in {"mkdir", "rmdir"}
    BY <2>2, TreeFacts DEF Targets
  <2>3. CASE what = "readdir"
    BY <2>3, TreeFacts DEF Targets, AllDirs
  <2>4. QED
    BY <2>1, <2>2, <2>3 DEF Ops
<1>3. PICK step \in {"body", "target", "parent"} :
         /\ at' = [at EXCEPT ![n] = step]
         /\ o = Root => step = "body"
         /\ step = "parent" => o # Root /\ Parent[o] # Root
         /\ step = "target" => o # Root
         /\ step = "body" => o = Root
  BY DEF Resume
<1>4. /\ at' \in [Nodes -> NameSteps] /\ at'[n] = step /\ step # "idle" /\ step \notin Updates
      /\ op' \in [Nodes -> Ops \cup {None}] /\ op'[n] = what
      /\ obj' \in [Nodes -> Objects \cup {Root, None}] /\ obj'[n] = o /\ o # None
      /\ \A m \in Nodes \ {n} : at'[m] = at[m] /\ op'[m] = op[m] /\ obj'[m] = obj[m]
  BY <1>1, <1>2, <1>3, TreeFacts DEF Typed, NameSteps, Updates
<1>5. Typed'
  BY <1>1, <1>4 DEF Typed
<1>6. ASSUME NEW m \in Nodes PROVE Shape(m)' /\ ListInv(m)' /\ ObjectInv(m)'
  <2>1. CASE m = n
    <3>1. Shape(n)'
      BY <1>1, <1>2, <1>3, <1>4, TreeFacts DEF Shape, AllDirs
    <3>2. ListInv(n)'
      BY <1>4 DEF ListInv, Updates
    <3>3. ObjectInv(n)'
      BY <1>2, <1>3, <1>4, TreeFacts DEF ObjectInv, Updates
    <3>4. QED
      BY <2>1, <3>1, <3>2, <3>3
  <2>2. CASE m # n
    <3>1. Shape(m)' /\ ObjectInv(m)'
      BY <1>1, <1>4, <2>2 DEF Named, Shape, ObjectInv, Adds
    <3>2. \A d \in AllDirs : Children(d)' = Children(d)
      <4>1. \A p \in Nodes : at'[p] = "insert" <=> at[p] = "insert"
        BY <1>1, <1>3, <1>4
      <4>2. \A p \in Nodes : at'[p] = "insert" => obj'[p] = obj[p]
        BY <1>3, <1>4
      <4>3. \A x \in Objects : Known(x)' <=> Known(x)
        BY <1>1, <4>1, <4>2 DEF Known
      <4>4. QED
        BY <4>3 DEF Children
    <3>3. CASE at[m] \notin Updates
      BY <1>4, <2>2, <3>1, <3>3 DEF ListInv, Updates
    <3>4. CASE at[m] \in Updates
      <4>1. PICK x \in Objects, d \in AllDirs : x = obj[m] /\ d = Parent[x]
        BY <3>4, UpdateFacts
      <4>2. Before(m)' = Before(m) /\ After(m)' = After(m)
        BY <1>4, <2>2, <3>2, <4>1 DEF Before, After, Rest, Adds
      <4>3. ListInv(m)
        BY DEF Named
      <4>4. QED
        BY <1>1, <1>4, <2>2, <3>1, <4>1, <4>2, <4>3 DEF ListInv
    <3>5. QED
      BY <3>1, <3>3, <3>4
  <2>3. QED
    BY <2>1, <2>2
<1>7. OneChanger'
  <2>1. \A m \in Nodes \ {n} : Changed(m)' = Changed(m)
    BY <1>4 DEF Changed
  <2>2. \A d \in Changed(n)' : ~Busy(d)
    BY <1>2, <1>4 DEF Changed, TakeTurns, Admitted
  <2>3. QED
    BY <1>1, <2>1, <2>2 DEF OneChanger, Busy
<1>8. Mounted'
  BY <1>1, <1>4 DEF Named, Mounted
<1>9. ASSUME NEW d \in AllDirs PROVE DirInv(d)'
  <2>1. \A m \in Nodes : Updating(m, d)' <=> Updating(m, d)
    BY <1>1, <1>4 DEF Updating, Updates
  <2>2. \A x \in Objects : Known(x)' <=> Known(x)
    <3>1. \A p \in Nodes : (at'[p] = "insert" <=> at[p] = "insert")
                             /\ (at'[p] = "insert" => obj'[p] = obj[p])
      BY <1>1, <1>3, <1>4
    <3>2. QED
      BY <1>1, <3>1 DEF Known
  <2>3. Children(d)' = Children(d)
    BY <2>2 DEF Children
  <2>4. DirInv(d)
    BY DEF Named
  <2>5. QED
    BY <1>1, <2>1, <2>3, <2>4 DEF DirInv, Exact
<1>10. \A f \in Files : FileInv(f)'
  BY <1>1, <1>4 DEF Named, FileInv
<1>11. QED
  BY <1>5, <1>6, <1>7, <1>8, <1>9, <1>10 DEF Named

\* Every step preserves it.
LEMMA NamedNext ==
    ASSUME TakeTurns, Named, [NamesNext]_namevars
    PROVE  Named'
<1>1. ASSUME NEW n \in Nodes, Mount(n) PROVE Named'
  BY <1>1, NamedMount
<1>2. ASSUME NEW n \in Nodes, NEW what \in Ops, NEW o \in Targets(what), Request(n, what, o)
      PROVE  Named'
  BY <1>2, NamedStart
<1>3. ASSUME NEW n \in Nodes, NameStep(n) PROVE Named'
  BY <1>3, NamedGetattrParent, NamedGetattrTarget, NamedCreate, NamedMkdir, NamedUnlink,
     NamedRmdir, NamedReaddir, NamedAppend, NamedDelete, NamedRemove, NamedInsert,
     NamedInsertFile, NamedRemoveFile, NamedRemoveDirectory DEF NameStep
<1>4. CASE UNCHANGED namevars
  <2>1. /\ listing' = listing /\ owner' = owner /\ disk' = disk /\ mounted' = mounted
        /\ at' = at /\ op' = op /\ obj' = obj /\ new' = new
    BY <1>4 DEF namevars, operation
  <2>2. Typed' /\ OneChanger' /\ Mounted' /\ \A f \in Files : FileInv(f)'
    BY <2>1 DEF Named, Typed, OneChanger, Changed, Mounted, FileInv
  <2>3. \A d \in AllDirs : Children(d)' = Children(d)
    BY <2>1 DEF Children, Known
  <2>4. \A d \in AllDirs : DirInv(d)'
    BY <2>1, <2>3 DEF Named, DirInv, Updating, Exact
  <2>5. \A n \in Nodes : Shape(n)' /\ ObjectInv(n)'
    BY <2>1 DEF Named, Shape, ObjectInv, Adds
  <2>6. ASSUME NEW n \in Nodes PROVE ListInv(n)'
    <3>1. CASE at[n] \in Updates
      <4>1. PICK d \in AllDirs : d = Parent[obj[n]]
        BY <3>1, UpdateFacts
      <4>2. Before(n)' = Before(n) /\ After(n)' = After(n)
        BY <2>1, <2>3, <4>1 DEF Before, After, Rest, Adds
      <4>3. ListInv(n)
        BY DEF Named
      <4>4. QED
        BY <2>1, <4>2, <4>3 DEF ListInv
    <3>2. CASE at[n] \notin Updates
      BY <2>1, <3>2 DEF ListInv, Updates
    <3>3. QED
      BY <3>1, <3>2
  <2>7. QED
    BY <2>2, <2>4, <2>5, <2>6 DEF Named
<1>5. QED
  BY <1>1, <1>2, <1>3, <1>4 DEF NamesNext

-----------------------------------------------------------------------------
(*****************************************************************************)
(* What it implies.                                                          *)
(*****************************************************************************)
\* The invariant implies NamesTyped.
LEMMA NamedTypes ==
    ASSUME Named
    PROVE  NamesTyped
<1>1. Typed /\ \A n \in Nodes : Shape(n)
  BY DEF Named
<1>2. ASSUME NEW d \in AllDirs, NEW o \in ToSet(Lookup(d).names)
      PROVE  Parent[o] = d
  <2>1. listing[d] # None
    BY <1>2 DEF Lookup, Nothing, ToSet
  <2>2. o \in ToSet(listing[d].names)
    BY <1>2, <2>1 DEF Lookup
  <2>3. CASE \A n \in Nodes : ~Updating(n, d)
    BY <2>1, <2>2, <2>3 DEF Named, DirInv, Exact, Lists, Children
  <2>4. ASSUME NEW n \in Nodes, Updating(n, d) PROVE o \in Children(d) \cup {obj[n]} /\ Parent[obj[n]] = d
    <3>1. ListInv(n) /\ at[n] \in Updates /\ Parent[obj[n]] = d
      BY <2>4 DEF Named, Updating
    <3>2. at[n] # "insert"
      BY <2>1, <3>1 DEF ListInv
    <3>3. Lists(listing[d], Before(n)) \/ Lists(listing[d], After(n))
      BY <3>1, <3>2 DEF ListInv, Updates
    <3>4. QED
      BY <2>2, <3>1, <3>3 DEF Lists, Before, After, Rest
  <2>5. QED
    BY <2>3, <2>4 DEF Children
<1>3. QED
  BY <1>1, <1>2 DEF NamesTyped, Typed, Shape

\* It implies NamespaceExact: a directory nobody changes is updated by nobody.
LEMMA NamedExact ==
    ASSUME Named
    PROVE  NamespaceExact
<1>1. SUFFICES ASSUME NEW d \in AllDirs, ~Busy(d)
               PROVE  Exact(d)
  BY DEF NamespaceExact, Exact, Lists
<1>2. \A n \in Nodes : ~Updating(n, d)
  BY <1>1, UpdateFacts DEF Updating, Busy
<1>3. QED
  BY <1>2 DEF Named, DirInv

\* It implies DeleteFinds: before the update the parent lists the object.
LEMMA NamedFinds ==
    ASSUME Named
    PROVE  DeleteFinds
<1>1. SUFFICES ASSUME NEW n \in Nodes, at[n] = "delete"
               PROVE  Positions(Lookup(Parent[obj[n]]), obj[n]) # {}
  BY DEF DeleteFinds
<1>2. /\ Typed /\ Shape(n) /\ ListInv(n)
      /\ obj[n] \in Objects /\ Parent[obj[n]] \in AllDirs
  BY <1>1, UpdateFacts DEF Updates
<1>3. PICK v : v = listing[Parent[obj[n]]]
  OBVIOUS
<1>4. Lists(v, Before(n)) /\ v \in Value /\ v # None
  BY <1>1, <1>2, <1>3 DEF ListInv, Lists, Typed
<1>5. obj[n] \in Before(n)
  BY <1>1, <1>2 DEF Shape, Before, Updates
<1>6. Positions(v, obj[n]) # {}
  BY <1>4, <1>5, DeletedLists
<1>7. QED
  BY <1>3, <1>4, <1>6 DEF Lookup

\* It implies LocatedListed: once every operation has ended, all directories
\* are exact.
LEMMA NamedListed ==
    ASSUME Named
    PROVE  LocatedListed
<1>1. SUFFICES ASSUME \A n \in Nodes : at[n] = "idle", NEW f \in Files, owner[f] # None
               PROVE  f \in ToSet(Lookup(Parent[f]).names)
  BY DEF LocatedListed
<1>2. PICK d \in AllDirs : d = Parent[f] /\ f \in Children(d)
  BY <1>1, TreeFacts DEF Children, Known
<1>3. Exact(d)
  BY <1>1 DEF Named, DirInv, Updating, Updates
<1>4. listing[d] # None /\ f \in ToSet(listing[d].names)
  BY <1>2, <1>3 DEF Exact, Lists
<1>5. QED
  BY <1>2, <1>4 DEF Lookup

\* A directory that nobody is changing lists exactly what exists in it, each
\* name once; zht_delete finds the name it takes out, so that strstr never
\* returns NULL; and once every operation has ended, every file that ZHT
\* locates is listed: through every interleaving of fusion_getattr, _create,
\* _unlink, _mkdir, _rmdir and _readdir on any number of nodes.
THEOREM NameSpaceInvariants ==
    ASSUME TakeTurns
    PROVE  NamesSpec => [](NamesTyped /\ NamespaceExact /\ DeleteFinds /\ LocatedListed)
<1>1. NamesInit => Named
  BY NamedInit
<1>2. Named /\ [NamesNext]_namevars => Named'
  BY NamedNext
<1>3. Named => NamesTyped /\ NamespaceExact /\ DeleteFinds /\ LocatedListed
  BY NamedTypes, NamedExact, NamedFinds, NamedListed
<1>4. QED
  BY <1>1, <1>2, <1>3, PTL DEF NamesSpec
=============================================================================
