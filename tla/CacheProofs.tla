----------------------------- MODULE CacheProofs -----------------------------
(***************************************************************************)
(* Proofs about the replacement queues, for any sets of files and cells,   *)
(* finite or not: the clock queue, then the LRU and LFU queues, the policy *)
(* the clock queue implements and, at the end, the names a queue holds.    *)
(*                                                                         *)
(* The heart of the first is two lemmas on rings that know nothing of the  *)
(* queue: a cell spliced between two neighbours extends the cycle, a cell  *)
(* spliced out leaves one.  "One cycle" is stated by closed sets, so       *)
(* neither the definition nor the proofs need induction along the          *)
(* pointers.                                                               *)
(***************************************************************************)
EXTENDS ClockQueue, AgedQueue, LocalFiles, SequenceTheorems, FiniteSetTheorems,
        WellFoundedInduction, TLAPS

RingState(L, nx, pv) == IsRing(L, nx, pv) /\ OneCycle(L, nx)

\* A cell e placed between p and its successor v extends the ring L: what
\* ins_Q does, before the hand or at the tail.
LEMMA SpliceIn ==
    ASSUME NEW L, NEW nx, NEW pv, NEW nx2, NEW pv2,
           NEW p \in L, NEW v \in L, NEW e, e \notin L,
           RingState(L, nx, pv),
           nx[p] = v,
           nx2[p] = e, nx2[e] = v, \A c \in L \ {p} : nx2[c] = nx[c],
           pv2[v] = e, pv2[e] = p, \A c \in L \ {v} : pv2[c] = pv[c]
    PROVE  RingState(L \cup {e}, nx2, pv2)
<1>1. IsRing(L \cup {e}, nx2, pv2)
  BY DEF RingState, IsRing
<1>2. OneCycle(L \cup {e}, nx2)
  <2> SUFFICES ASSUME NEW S \in SUBSET (L \cup {e}), S # {},
                      \A c \in S : nx2[c] \in S
               PROVE  S = L \cup {e}
    BY DEF OneCycle
  <2> DEFINE T == S \ {e}
  <2>1. T \in SUBSET L
    OBVIOUS
  <2>2. T # {}
    <3>1. CASE e \in S
      BY <3>1
    <3>2. CASE e \notin S
      BY <3>2
    <3> QED BY <3>1, <3>2
  <2>3. \A c \in T : nx[c] \in T
    <3> TAKE c \in T
    <3>1. CASE c = p
      BY <3>1
    <3>2. CASE c # p
      <4>1. nx[c] = nx2[c] /\ nx2[c] \in S
        BY <3>2
      <4>2. nx[c] \in L
        BY DEF RingState, IsRing
      <4> QED BY <4>1, <4>2
    <3> QED BY <3>1, <3>2
  <2>4. T = L
    BY <2>1, <2>2, <2>3 DEF RingState, OneCycle
  <2>5. e \in S
    BY <2>4
  <2> QED BY <2>4, <2>5
<1> QED BY <1>1, <1>2 DEF RingState

\* A cell e taken out from between its neighbours p and n leaves a ring: what
\* rem_Q does.  The cell is not the only one.
LEMMA SpliceOut ==
    ASSUME NEW L, NEW nx, NEW pv, NEW nx2, NEW pv2,
           NEW e \in L,
           RingState(L, nx, pv),
           nx[e] # e,
           nx2[pv[e]] = nx[e], \A c \in L \ {e, pv[e]} : nx2[c] = nx[c],
           pv2[nx[e]] = pv[e], \A c \in L \ {e, nx[e]} : pv2[c] = pv[c]
    PROVE  RingState(L \ {e}, nx2, pv2)
<1> DEFINE p == pv[e]
           n == nx[e]
<1>0. /\ p \in L /\ n \in L /\ p # e /\ n # e
      /\ nx[p] = e /\ pv[n] = e
  BY DEF RingState, IsRing
<1>1. IsRing(L \ {e}, nx2, pv2)
  <2> SUFFICES ASSUME NEW c \in L \ {e}
               PROVE  /\ nx2[c] \in L \ {e} /\ pv2[nx2[c]] = c
                      /\ pv2[c] \in L \ {e} /\ nx2[pv2[c]] = c
    BY DEF IsRing
  <2>1. /\ nx[c] \in L /\ pv[nx[c]] = c
        /\ pv[c] \in L /\ nx[pv[c]] = c
    BY DEF RingState, IsRing
  <2>2. nx2[c] \in L \ {e} /\ pv2[nx2[c]] = c
    <3>1. CASE c = p
      BY <3>1, <1>0
    <3>2. CASE c # p
      BY <3>2, <1>0, <2>1
    <3> QED BY <3>1, <3>2
  <2>3. pv2[c] \in L \ {e} /\ nx2[pv2[c]] = c
    <3>1. CASE c = n
      BY <3>1, <1>0
    <3>2. CASE c # n
      BY <3>2, <1>0, <2>1
    <3> QED BY <3>1, <3>2
  <2> QED BY <2>2, <2>3
<1>2. OneCycle(L \ {e}, nx2)
  <2> SUFFICES ASSUME NEW S \in SUBSET (L \ {e}), S # {},
                      \A c \in S : nx2[c] \in S
               PROVE  S = L \ {e}
    BY DEF OneCycle
  <2> DEFINE T == IF p \in S THEN S \cup {e} ELSE S
  <2>1. T \in SUBSET L /\ T # {}
    OBVIOUS
  <2>2. \A c \in T : nx[c] \in T
    <3> TAKE c \in T
    <3>1. CASE c = e
      <4>1. p \in S
        BY <3>1
      <4>2. n \in S
        BY <4>1
      <4> QED BY <3>1, <4>2
    <3>2. CASE c = p /\ c # e
      <4>1. nx[c] = e /\ p \in S
        BY <3>2, <1>0
      <4> QED BY <4>1
    <3>3. CASE c # p /\ c # e
      <4>1. c \in S /\ nx[c] = nx2[c]
        BY <3>3
      <4> QED BY <4>1
    <3> QED BY <3>1, <3>2, <3>3
  <2>3. T = L
    BY <2>1, <2>2 DEF RingState, OneCycle
  <2> QED BY <2>3, <1>0
<1> QED BY <1>1, <1>2 DEF RingState

-----------------------------------------------------------------------------
(***************************************************************************)
(* The inductive invariant: ListIntegrity without the walk from the head,  *)
(* which follows from the rest, and with the state of a sweep.             *)
(***************************************************************************)
IInv ==
    /\ TypeOK
    /\ RingState(Live, next, prev)
    /\ Anchored
    /\ NamesUnique
    /\ SweepSound

\* free() takes one cell out of the allocated ones.
LEMMA LiveAfterFree ==
    ASSUME TypeOK, NEW e \in Cells, name' = [name EXCEPT ![e] = NULL]
    PROVE  /\ Live' = Live \ {e}
           /\ \A c \in Live' : name'[c] = name[c]
BY DEF Live, TypeOK

\* malloc and the copy of the name add one allocated cell.
LEMMA LiveAfterMalloc ==
    ASSUME TypeOK, NEW e \in Cells, NEW f \in Files, e \notin Live,
           name' = [name EXCEPT ![e] = f]
    PROVE  /\ Live' = Live \cup {e}
           /\ name'[e] = f
           /\ \A c \in Live : name'[c] = name[c]
BY NullAssumption DEF Live, TypeOK

\* A walk from the head visits exactly the allocated cells, so that
\* findelem_clock finds a file iff it is cached.
LEMMA WalkIsLive ==
    ASSUME IInv, head # NULL
    PROVE  Walk = Live
<1>1. Live \in SUBSET Cells
  BY DEF Live
<1>2. Closed(Live)
  BY DEF IInv, Anchored, Closed, RingState, IsRing
<1>3. Walk \subseteq Live
  BY <1>1, <1>2 DEF Walk
<1>4. ASSUME NEW S \in SUBSET Cells, Closed(S)
      PROVE  Live \subseteq S
  <2> DEFINE T == S \cap Live
  <2>1. head \in T /\ \A c \in T : next[c] \in T
    BY <1>4 DEF IInv, Anchored, Closed, RingState, IsRing
  <2>2. T = Live
    BY <2>1 DEF IInv, RingState, OneCycle
  <2> QED BY <2>2
<1>5. Live \subseteq Walk
  BY <1>1, <1>4 DEF Walk
<1> QED BY <1>3, <1>5

\* findelem_clock returns the cell of a cached file, and NULL for any other.
LEMMA FindelemExact ==
    ASSUME IInv, NEW f \in Files
    PROVE  findelem_clock(f) = {c \in Live : name[c] = f}
<1>1. CASE head = NULL
  BY <1>1 DEF IInv, Anchored, findelem_clock
<1>2. CASE head # NULL
  BY <1>2, WalkIsLive DEF findelem_clock
<1> QED BY <1>1, <1>2

\* The empty queue of a fresh mount satisfies the invariant.
LEMMA InvInit == Init => IInv
<1> SUFFICES ASSUME Init PROVE IInv
  OBVIOUS
<1>1. Live = {}
  BY DEF Init, Live
<1>2. TypeOK
  BY DEF Init, TypeOK, Pointer
<1>3. RingState(Live, next, prev)
  BY <1>1 DEF RingState, IsRing, OneCycle
<1>4. Anchored /\ NamesUnique /\ SweepSound
  BY <1>1 DEF Init, Anchored, NamesUnique, SweepSound
<1> QED BY <1>2, <1>3, <1>4 DEF IInv

\* rem_Q keeps the queue whole, for a hand that is NULL or on the queue.
LEMMA RemQ ==
    ASSUME IInv, NEW elem \in Live, NEW hand \in Live \cup {NULL},
           rem_Q(elem, hand)
    PROVE  /\ head' \in Pointer /\ tail' \in Pointer /\ victim' \in Pointer
           /\ next' \in [Cells -> Pointer] /\ prev' \in [Cells -> Pointer]
           /\ name' \in [Cells -> Files \cup {NULL}]
           /\ ref' \in [Cells -> {0, 1}]
           /\ RingState(Live, next, prev)'
           /\ Anchored'
           /\ NamesUnique'
<1>0. elem \in Cells /\ Live \subseteq Cells
  BY DEF Live
<1>1. /\ Live' = Live \ {elem}
      /\ \A c \in Live' : name'[c] = name[c]
  BY <1>0, LiveAfterFree DEF IInv, rem_Q, Free
<1>2. /\ name' \in [Cells -> Files \cup {NULL}]
      /\ ref' \in [Cells -> {0, 1}]
  BY <1>0 DEF IInv, TypeOK, rem_Q, Free
<1>3. NamesUnique'
  BY <1>1 DEF IInv, NamesUnique
<1>4. CASE next[elem] = elem
  <2>1. /\ head' = NULL /\ tail' = NULL /\ victim' = NULL
        /\ next' = [next EXCEPT ![elem] = NULL]
        /\ prev' = [prev EXCEPT ![elem] = NULL]
    BY <1>4 DEF rem_Q
  <2>2. Live = {elem}
    <3>1. {elem} \in SUBSET Live /\ {elem} # {}
      OBVIOUS
    <3>2. \A c \in {elem} : next[c] \in {elem}
      BY <1>4
    <3> QED BY <3>1, <3>2 DEF IInv, RingState, OneCycle
  <2>3. Live' = {}
    BY <1>1, <2>2
  <2>4. RingState(Live, next, prev)'
    BY <2>3 DEF RingState, IsRing, OneCycle
  <2>5. Anchored'
    BY <2>1, <2>3 DEF Anchored
  <2>6. next' \in [Cells -> Pointer] /\ prev' \in [Cells -> Pointer]
    BY <2>1 DEF IInv, TypeOK, Pointer
  <2> QED BY <1>2, <1>3, <2>1, <2>4, <2>5, <2>6 DEF Pointer
<1>5. CASE next[elem] # elem
  <2> DEFINE p == prev[elem]
             n == next[elem]
  <2>0. /\ p \in Live /\ n \in Live /\ p # elem /\ n # elem
        /\ next[p] = elem /\ prev[n] = elem
    BY <1>5 DEF IInv, RingState, IsRing
  <2>1. /\ head' = IF elem = head THEN n ELSE head
        /\ tail' = IF elem # head /\ elem = tail THEN p ELSE tail
        /\ victim' = IF hand = elem THEN n ELSE hand
        /\ next' = [next EXCEPT ![p] = n, ![elem] = NULL]
        /\ prev' = [prev EXCEPT ![n] = p, ![elem] = NULL]
    BY <1>5 DEF rem_Q, HandMoved
  <2>2. /\ next'[p] = n /\ \A c \in Live \ {elem, p} : next'[c] = next[c]
        /\ prev'[n] = p /\ \A c \in Live \ {elem, n} : prev'[c] = prev[c]
    BY <2>0, <2>1, <1>0 DEF IInv, TypeOK
  <2>3. RingState(Live \ {elem}, next', prev')
    BY <2>2, <1>5, SpliceOut DEF IInv
  <2>4. RingState(Live, next, prev)'
    BY <2>3, <1>1
  <2>5. next' \in [Cells -> Pointer] /\ prev' \in [Cells -> Pointer]
    BY <2>0, <2>1, <1>0 DEF IInv, TypeOK, Pointer
  <2>6. head # NULL /\ head \in Live /\ tail \in Live /\ next[tail] = head
    BY DEF IInv, Anchored
  <2>7. head' \in Live' /\ tail' \in Live' /\ victim' \in Live' \cup {NULL}
    <3>1. elem = tail => elem # head
      BY <2>6, <1>5
    <3> QED BY <3>1, <2>0, <2>1, <2>6, <1>1
  <2>8. next'[tail'] = head'
    <3>1. prev[head] = tail
      BY <2>6 DEF IInv, RingState, IsRing
    <3>2. CASE elem = head
      BY <3>1, <3>2, <2>1, <2>2
    <3>3. CASE elem # head /\ elem = tail
      BY <3>3, <2>1, <2>2, <2>6
    <3>4. CASE elem # head /\ elem # tail
      <4>1. tail # p
        BY <3>4, <2>0, <2>6
      <4> QED BY <3>4, <4>1, <2>1, <2>2, <2>6
    <3> QED BY <3>2, <3>3, <3>4
  <2>9. head' # NULL
    BY <2>7, <1>0, <1>1, NullAssumption
  <2>10. Anchored'
    BY <2>7, <2>8, <2>9 DEF Anchored
  <2>11. head' \in Pointer /\ tail' \in Pointer /\ victim' \in Pointer
    BY <2>7, <1>0, <1>1 DEF Pointer
  <2> QED BY <1>2, <1>3, <2>4, <2>5, <2>10, <2>11
<1> QED BY <1>4, <1>5

\* Insert: an empty queue becomes the cycle of one cell, a non-empty one is
\* extended before the hand or at the tail.
LEMMA InsertInv ==
    ASSUME IInv, NEW f \in Files, Insert(f)
    PROVE  IInv'
<1>0. PICK elem \in Cells \ Live :
          /\ name' = [name EXCEPT ![elem] = f]
          /\ ref' = [ref EXCEPT ![elem] = 1]
          /\ \/ /\ head = NULL
                /\ next' = [next EXCEPT ![elem] = elem]
                /\ prev' = [prev EXCEPT ![elem] = elem]
                /\ head' = elem /\ tail' = elem
             \/ head # NULL /\ ins_Q(elem)
  BY DEF Insert, NewBit
<1>1. /\ ~sweeping /\ sweeping' = sweeping /\ victim' = victim
      /\ evicted' = evicted /\ cold' = cold /\ findelem_clock(f) = {}
  BY DEF Insert
<1>2. /\ Live' = Live \cup {elem} /\ name'[elem] = f
      /\ \A c \in Live : name'[c] = name[c]
  BY <1>0, LiveAfterMalloc DEF IInv
<1>3. /\ name' \in [Cells -> Files \cup {NULL}] /\ ref' \in [Cells -> {0, 1}]
      /\ victim' \in Pointer /\ evicted' \in Files \cup {NULL}
      /\ cold' \subseteq Files /\ sweeping' \in BOOLEAN
  <2>1. name' \in [Cells -> Files \cup {NULL}] /\ ref' \in [Cells -> {0, 1}]
    BY <1>0 DEF IInv, TypeOK
  <2>2. /\ victim' \in Pointer /\ evicted' \in Files \cup {NULL}
        /\ cold' \subseteq Files /\ sweeping' \in BOOLEAN
    BY <1>1 DEF IInv, TypeOK
  <2> QED BY <2>1, <2>2
<1>4. NamesUnique'
  <2>1. \A c \in Live : name[c] # f
    BY <1>1, FindelemExact
  <2> QED BY <2>1, <1>2 DEF IInv, NamesUnique
<1>5. SweepSound'
  BY <1>1 DEF SweepSound
<1>6. CASE head = NULL
  <2>1. /\ next' = [next EXCEPT ![elem] = elem]
        /\ prev' = [prev EXCEPT ![elem] = elem]
        /\ head' = elem /\ tail' = elem
    BY <1>0, <1>6
  <2>2. Live' = {elem} /\ victim' = NULL
    BY <1>1, <1>2, <1>6 DEF IInv, Anchored
  <2>3. next'[elem] = elem /\ prev'[elem] = elem
    BY <2>1 DEF IInv, TypeOK
  <2>4. RingState(Live, next, prev)'
    BY <2>2, <2>3 DEF RingState, IsRing, OneCycle
  <2>5. Anchored'
    BY <2>1, <2>2, <2>3, NullAssumption DEF Anchored
  <2>6. TypeOK'
    <3>1. /\ next' \in [Cells -> Pointer] /\ prev' \in [Cells -> Pointer]
          /\ head' \in Pointer /\ tail' \in Pointer
      BY <2>1 DEF IInv, TypeOK, Pointer
    <3> QED BY <3>1, <1>3 DEF TypeOK
  <2> QED BY <1>4, <1>5, <2>4, <2>5, <2>6 DEF IInv
<1>7. CASE head # NULL /\ victim # NULL
  <2> DEFINE p == prev[victim]
  <2>1. /\ head' = IF victim = head THEN elem ELSE head
        /\ next' = [next EXCEPT ![p] = elem, ![elem] = victim]
        /\ prev' = [prev EXCEPT ![victim] = elem, ![elem] = p]
        /\ tail' = tail
    BY <1>0, <1>7 DEF ins_Q
  <2>2. /\ head \in Live /\ tail \in Live /\ victim \in Live
        /\ next[tail] = head
    BY <1>7 DEF IInv, Anchored
  <2>3. /\ p \in Live /\ next[p] = victim
    BY <2>2 DEF IInv, RingState, IsRing
  <2>4. /\ next'[p] = elem /\ next'[elem] = victim
        /\ \A c \in Live \ {p} : next'[c] = next[c]
        /\ prev'[victim] = elem /\ prev'[elem] = p
        /\ \A c \in Live \ {victim} : prev'[c] = prev[c]
    BY <1>0, <2>1, <2>2, <2>3 DEF IInv, TypeOK, Live
  <2>5. RingState(Live, next, prev)'
    <3>1. RingState(Live \cup {elem}, next', prev')
      BY <1>0, <2>2, <2>3, <2>4, SpliceIn DEF IInv
    <3> QED BY <3>1, <1>2
  <2>6. Anchored'
    <3>1. prev[head] = tail
      BY <2>2 DEF IInv, RingState, IsRing
    <3>2. head' # NULL /\ head' \in Live' /\ tail' \in Live'
      BY <1>0, <1>2, <1>7, <2>1, <2>2, NullAssumption
    <3>3. next'[tail'] = head'
      BY <3>1, <2>1, <2>2, <2>3, <2>4
    <3> QED BY <3>2, <3>3, <1>1, <1>2, <2>2 DEF Anchored
  <2>7. TypeOK'
    <3>1. /\ next' \in [Cells -> Pointer] /\ prev' \in [Cells -> Pointer]
          /\ head' \in Pointer /\ tail' \in Pointer
      BY <2>1, <2>2, <2>3 DEF IInv, TypeOK, Pointer, Live
    <3> QED BY <3>1, <1>3 DEF TypeOK
  <2> QED BY <1>4, <1>5, <2>5, <2>6, <2>7 DEF IInv
<1>8. CASE head # NULL /\ victim = NULL
  <2>1. /\ prev' = [prev EXCEPT ![elem] = tail, ![head] = elem]
        /\ next' = [next EXCEPT ![elem] = next[tail], ![tail] = elem]
        /\ tail' = elem /\ head' = head
    BY <1>0, <1>8 DEF ins_Q
  <2>2. head \in Live /\ tail \in Live /\ next[tail] = head
    BY <1>8 DEF IInv, Anchored
  <2>3. /\ next'[tail] = elem /\ next'[elem] = head
        /\ \A c \in Live \ {tail} : next'[c] = next[c]
        /\ prev'[head] = elem /\ prev'[elem] = tail
        /\ \A c \in Live \ {head} : prev'[c] = prev[c]
    BY <1>0, <2>1, <2>2 DEF IInv, TypeOK, Live
  <2>4. RingState(Live, next, prev)'
    <3>1. RingState(Live \cup {elem}, next', prev')
      BY <1>0, <2>2, <2>3, SpliceIn DEF IInv
    <3> QED BY <3>1, <1>2
  <2>5. Anchored'
    BY <1>0, <1>1, <1>2, <1>8, <2>1, <2>2, <2>3 DEF Anchored
  <2>6. TypeOK'
    <3>1. /\ next' \in [Cells -> Pointer] /\ prev' \in [Cells -> Pointer]
          /\ head' \in Pointer /\ tail' \in Pointer
      BY <2>1, <2>2 DEF IInv, TypeOK, Pointer, Live
    <3> QED BY <3>1, <1>3 DEF TypeOK
  <2> QED BY <1>4, <1>5, <2>4, <2>5, <2>6 DEF IInv
<1> QED BY <1>6, <1>7, <1>8

\* A hit only sets a bit, outside any sweep.
LEMMA ReferenceInv ==
    ASSUME IInv, NEW f \in Files, Reference(f)
    PROVE  IInv'
<1>1. PICK c \in Cells : ref' = [ref EXCEPT ![c] = 1]
  BY DEF Reference, Referenced, findelem_clock, Walk
<1>2. /\ ~sweeping' /\ UNCHANGED <<pointers, evicted, cold, sweeping>>
  BY DEF Reference
<1>3. Live' = Live
  BY <1>2 DEF Live, pointers
<1>4. TypeOK'
  <2>1. ref' \in [Cells -> {0, 1}]
    BY <1>1 DEF IInv, TypeOK
  <2> QED BY <1>2, <2>1 DEF IInv, TypeOK, pointers
<1>5. RingState(Live, next, prev)' /\ Anchored' /\ NamesUnique'
  BY <1>2, <1>3 DEF IInv, Anchored, NamesUnique, RingState, pointers
<1>6. SweepSound'
  BY <1>2 DEF SweepSound
<1> QED BY <1>4, <1>5, <1>6 DEF IInv

\* rmelem_clock takes out a cell the list holds.
LEMMA RmelemInv ==
    ASSUME IInv, NEW f \in Files, rmelem_clock(f)
    PROVE  IInv'
<1>1. PICK c \in Live : rem_Q(c, victim)
  BY FindelemExact DEF rmelem_clock
<1>2. victim \in Live \cup {NULL}
  BY DEF IInv, Anchored
<1>3. ~sweeping /\ sweeping' = sweeping /\ evicted' = evicted /\ cold' = cold
  BY DEF rmelem_clock
<1>4. /\ head' \in Pointer /\ tail' \in Pointer /\ victim' \in Pointer
      /\ next' \in [Cells -> Pointer] /\ prev' \in [Cells -> Pointer]
      /\ name' \in [Cells -> Files \cup {NULL}]
      /\ ref' \in [Cells -> {0, 1}]
      /\ RingState(Live, next, prev)' /\ Anchored' /\ NamesUnique'
  BY <1>1, <1>2, RemQ
<1>5. TypeOK'
  <2>1. sweeping' \in BOOLEAN /\ evicted' \in Files \cup {NULL} /\ cold' \subseteq Files
    BY <1>3 DEF IInv, TypeOK
  <2> QED BY <1>4, <2>1 DEF TypeOK
<1>6. SweepSound'
  BY <1>3 DEF SweepSound
<1> QED BY <1>4, <1>5, <1>6 DEF IInv

\* remque_clock starts at a cell of the list.
LEMMA HandLive ==
    ASSUME IInv, head # NULL
    PROVE  Hand \in Live
BY DEF IInv, Anchored, Hand, Live

\* The files with a clear bit are files.
LEMMA ColdFilesAreFiles ==
    ASSUME IInv
    PROVE  ColdFiles \subseteq Files
BY DEF IInv, TypeOK, ColdFiles, Live

\* remque_clock on a queue of one empties it.
LEMMA RemqueOnlyInv ==
    ASSUME IInv, RemqueOnly
    PROVE  IInv'
<1>1. /\ ~sweeping /\ head # NULL /\ sweeping' = sweeping
      /\ evicted' = name[Hand] /\ cold' = ColdFiles /\ rem_Q(Hand, Hand)
  BY DEF RemqueOnly, Several
<1>2. Hand \in Live
  BY <1>1, HandLive
<1>3. /\ head' \in Pointer /\ tail' \in Pointer /\ victim' \in Pointer
      /\ next' \in [Cells -> Pointer] /\ prev' \in [Cells -> Pointer]
      /\ name' \in [Cells -> Files \cup {NULL}]
      /\ ref' \in [Cells -> {0, 1}]
      /\ RingState(Live, next, prev)' /\ Anchored' /\ NamesUnique'
  BY <1>1, <1>2, RemQ
<1>4. TypeOK'
  <2>1. sweeping' \in BOOLEAN
    BY <1>1 DEF IInv, TypeOK
  <2>2. evicted' \in Files \cup {NULL}
    BY <1>1, <1>2 DEF IInv, TypeOK, Live
  <2>3. cold' \subseteq Files
    BY <1>1, ColdFilesAreFiles
  <2> QED BY <1>3, <2>1, <2>2, <2>3 DEF TypeOK
<1>5. SweepSound'
  BY <1>1 DEF SweepSound
<1> QED BY <1>3, <1>4, <1>5 DEF IInv

\* A sweep begins with no cell cleared.
LEMMA RemqueEnterInv ==
    ASSUME IInv, RemqueEnter
    PROVE  IInv'
<1>1. /\ ~sweeping /\ head # NULL /\ next[Hand] # Hand /\ victim' = Hand
      /\ sweeping' = TRUE /\ cold' = ColdFiles
      /\ UNCHANGED <<head, tail, next, prev, name, ref, evicted>>
  BY DEF RemqueEnter, Several
<1>2. Hand \in Live
  BY <1>1, HandLive
<1>3. Live' = Live
  BY <1>1 DEF Live
<1>4. TypeOK'
  <2>1. victim' \in Pointer
    BY <1>1, <1>2 DEF Live, Pointer
  <2>2. cold' \subseteq Files
    BY <1>1, ColdFilesAreFiles
  <2> QED BY <1>1, <2>1, <2>2 DEF IInv, TypeOK
<1>5. RingState(Live, next, prev)' /\ Anchored' /\ NamesUnique'
  BY <1>1, <1>2, <1>3 DEF IInv, Anchored, NamesUnique, RingState
<1>6. SweepSound'
  <2>1. ColdFiles' = ColdFiles
    BY <1>1, <1>3 DEF ColdFiles
  <2>2. Swept' = {}
    BY <1>1, <1>3 DEF Swept, ColdFiles
  <2> QED BY <1>1, <1>2, <1>3, <2>1, <2>2 DEF SweepSound
<1> QED BY <1>4, <1>5, <1>6 DEF IInv

\* A skip clears the bit under the hand, which the sweep had not cleared yet.
LEMMA RemqueSkipInv ==
    ASSUME IInv, RemqueSkip
    PROVE  IInv'
<1>1. /\ sweeping /\ ref[victim] # 0
      /\ ref' = [ref EXCEPT ![victim] = 0] /\ victim' = next[victim]
      /\ UNCHANGED <<head, tail, next, prev, name, sweeping, evicted, cold>>
  BY DEF RemqueSkip, Cleared
<1>2. /\ victim \in Live /\ victim \in Cells /\ next[victim] # victim
      /\ cold \subseteq ColdFiles
      /\ \A c \in Swept : next[c] \in Swept \cup {victim}
  BY <1>1 DEF IInv, SweepSound, Live
<1>3. /\ next[victim] \in Live /\ next[next[victim]] # next[victim]
      /\ \A c \in Live : next[c] \in Live
  BY <1>2 DEF IInv, RingState, IsRing
<1>4. Live' = Live
  BY <1>1 DEF Live
<1>5. TypeOK'
  <2>1. ref' \in [Cells -> {0, 1}]
    BY <1>1, <1>2 DEF IInv, TypeOK
  <2>2. victim' \in Pointer
    BY <1>1, <1>3 DEF Live, Pointer
  <2> QED BY <1>1, <2>1, <2>2 DEF IInv, TypeOK
<1>6. RingState(Live, next, prev)' /\ Anchored' /\ NamesUnique'
  BY <1>1, <1>3, <1>4 DEF IInv, Anchored, NamesUnique, RingState
<1>7. \A c \in Live : c # victim => ref'[c] = ref[c]
  BY <1>1, <1>2 DEF IInv, TypeOK, Live
<1>8. ref'[victim] = 0
  BY <1>1, <1>2 DEF IInv, TypeOK
<1>9. name[victim] \notin cold
  <2> SUFFICES ASSUME name[victim] \in cold PROVE FALSE
    OBVIOUS
  <2>1. PICK d \in Live : ref[d] = 0 /\ name[d] = name[victim]
    BY <1>2 DEF ColdFiles
  <2>2. d = victim
    BY <2>1, <1>2 DEF IInv, NamesUnique
  <2> QED BY <2>1, <2>2, <1>1
<1>10. cold' \subseteq ColdFiles'
  BY <1>1, <1>2, <1>4, <1>7, <1>8 DEF ColdFiles
<1>11. Swept' = Swept \cup {victim}
  BY <1>1, <1>2, <1>4, <1>7, <1>8, <1>9 DEF Swept
<1>12. SweepSound'
  BY <1>1, <1>2, <1>3, <1>4, <1>10, <1>11 DEF SweepSound
<1> QED BY <1>5, <1>6, <1>12 DEF IInv

\* An eviction takes the cell under the hand, which is on the list.
LEMMA RemqueEvictInv ==
    ASSUME IInv, RemqueEvict
    PROVE  IInv'
<1>1. /\ sweeping /\ ref[victim] = 0 /\ evicted' = name[victim]
      /\ rem_Q(victim, victim) /\ sweeping' = FALSE /\ cold' = cold
  BY DEF RemqueEvict
<1>2. victim \in Live
  BY <1>1 DEF IInv, SweepSound
<1>3. /\ head' \in Pointer /\ tail' \in Pointer /\ victim' \in Pointer
      /\ next' \in [Cells -> Pointer] /\ prev' \in [Cells -> Pointer]
      /\ name' \in [Cells -> Files \cup {NULL}]
      /\ ref' \in [Cells -> {0, 1}]
      /\ RingState(Live, next, prev)' /\ Anchored' /\ NamesUnique'
  BY <1>1, <1>2, RemQ
<1>4. TypeOK'
  <2>1. evicted' \in Files \cup {NULL}
    BY <1>1, <1>2 DEF IInv, TypeOK, Live
  <2>2. cold' \subseteq Files /\ sweeping' \in BOOLEAN
    BY <1>1 DEF IInv, TypeOK
  <2> QED BY <1>3, <2>1, <2>2 DEF TypeOK
<1>5. SweepSound'
  BY <1>1 DEF SweepSound
<1> QED BY <1>3, <1>4, <1>5 DEF IInv

\* Every step of the queue preserves the invariant.
LEMMA InvNext == IInv /\ [Next]_vars => IInv'
<1> SUFFICES ASSUME IInv, [Next]_vars PROVE IInv'
  OBVIOUS
<1>1. ASSUME NEW f \in Files, insque_clock(f) PROVE IInv'
  BY <1>1, ReferenceInv, InsertInv DEF insque_clock
<1>2. ASSUME NEW f \in Files, rmelem_clock(f) PROVE IInv'
  BY <1>2, RmelemInv
<1>3. CASE RemqueOnly
  BY <1>3, RemqueOnlyInv
<1>4. CASE RemqueEnter
  BY <1>4, RemqueEnterInv
<1>5. CASE RemqueSkip
  BY <1>5, RemqueSkipInv
<1>6. CASE RemqueEvict
  BY <1>6, RemqueEvictInv
<1>7. CASE UNCHANGED vars
  BY <1>7 DEF vars, IInv, TypeOK, RingState, Anchored, NamesUnique, SweepSound,
              Live, Swept, ColdFiles
<1> QED BY <1>1, <1>2, <1>3, <1>4, <1>5, <1>6, <1>7 DEF Next, remque_clock

\* The inductive invariant holds in every state the calls of insque_clock,
\* rmelem_clock and remque_clock reach.
THEOREM QueueInvariant == Spec => []IInv
<1> QED BY InvInit, InvNext, PTL DEF Spec

\* The variables of the queue keep their types.
THEOREM TypeCorrect == Spec => []TypeOK
<1>1. IInv => TypeOK
  BY DEF IInv
<1> QED BY <1>1, QueueInvariant, PTL

\* Whatever is inserted, referenced, removed and evicted, and wherever the
\* hand stands, ins_Q and rem_Q keep one doubly linked cycle that holds every
\* allocated cell and names no file twice.
THEOREM ListAlwaysWhole == Spec => []ListIntegrity
<1>1. IInv => ListIntegrity
  <2> SUFFICES ASSUME IInv PROVE ListIntegrity
    OBVIOUS
  <2>1. Connected
    BY WalkIsLive DEF Connected
  <2> QED BY <2>1 DEF IInv, RingState, ListIntegrity
<1> QED BY <1>1, QueueInvariant, PTL

\* A sweep of remque_clock never loses the files it could evict.
THEOREM SweepAlwaysSound == Spec => []SweepSound
<1>1. IInv => SweepSound
  BY DEF IInv
<1> QED BY <1>1, QueueInvariant, PTL

\* A sweep that finds a cleared bit where it cleared one itself has been all
\* the way round: no file was cold when it began.
LEMMA EvictedWasCold ==
    ASSUME IInv, RemqueEvict
    PROVE  evicted' \in cold' \/ cold' = {}
<1>1. /\ sweeping /\ ref[victim] = 0 /\ evicted' = name[victim] /\ cold' = cold
  BY DEF RemqueEvict
<1>2. /\ victim \in Live /\ cold \subseteq ColdFiles
      /\ \A c \in Swept : next[c] \in Swept \cup {victim}
  BY <1>1 DEF IInv, SweepSound
<1>3. CASE name[victim] \in cold
  BY <1>1, <1>3
<1>4. CASE name[victim] \notin cold
  <2>1. victim \in Swept /\ Swept \in SUBSET Live
    BY <1>1, <1>2, <1>4 DEF Swept
  <2>2. \A c \in Swept : next[c] \in Swept
    BY <1>2, <2>1
  <2>3. Swept = Live
    BY <2>1, <2>2 DEF IInv, RingState, OneCycle
  <2>4. cold \cap {name[c] : c \in Live} = {}
    BY <2>3 DEF Swept
  <2>5. cold = {}
    BY <2>4, <1>2 DEF ColdFiles
  <2> QED BY <1>1, <2>5
<1> QED BY <1>3, <1>4

\* remque_clock evicts a file that was cold when it was called, or every file
\* was hot.
THEOREM SecondChanceAlways == Spec => SecondChanceGiven
<1>1. IInv /\ [Next]_vars
        => [RemqueOnly \/ RemqueEvict => evicted' \in cold' \/ cold' = {}]_vars
  <2> SUFFICES ASSUME IInv, RemqueOnly \/ RemqueEvict
               PROVE  evicted' \in cold' \/ cold' = {}
    OBVIOUS
  <2>1. CASE RemqueEvict
    BY <2>1, EvictedWasCold
  <2>2. CASE RemqueOnly
    <3>1. /\ head # NULL /\ next[Hand] = Hand
          /\ evicted' = name[Hand] /\ cold' = ColdFiles
      BY <2>2 DEF RemqueOnly, Several
    <3>2. Hand \in Live
      BY <3>1, HandLive
    <3>3. {Hand} = Live
      <4>1. {Hand} \in SUBSET Live /\ {Hand} # {} /\ \A c \in {Hand} : next[c] \in {Hand}
        BY <3>1, <3>2
      <4> QED BY <4>1 DEF IInv, RingState, OneCycle
    <3>4. \A f \in ColdFiles : f = name[Hand]
      BY <3>3 DEF ColdFiles
    <3> QED BY <3>1, <3>4
  <2> QED BY <2>1, <2>2
<1> QED BY <1>1, QueueInvariant, PTL DEF Spec, SecondChanceGiven

-----------------------------------------------------------------------------
(***************************************************************************)
(* The LRU and LFU queues, for any sets of files and cells and any number  *)
(* of uses. Here a sequence w of cells stands for the list: a step that    *)
(* frees the k-th cell is Cut(w, k), one that links a cell in the k-th     *)
(* place is Put(w, k, e), and the list of the model, the recursive walk    *)
(* Order, is w (WalkIsOrder). That w is ordered by count makes the place   *)
(* of get_pos_lfu the place AgeOrder asks for.                             *)
(***************************************************************************)
\* The types of the fields.
Queues ==
    [head : Cells \cup {NULL}, tail : Cells \cup {NULL},
     next : [Cells -> Cells \cup {NULL}], prev : [Cells -> Cells \cup {NULL}],
     name : [Cells -> Files \cup {NULL}], freq : [Cells -> Nat]]

Ahead(w, i) == IF i = Len(w) THEN 1 ELSE i + 1
Behind(w, i) == IF i = 1 THEN Len(w) ELSE i - 1

\* w is the turn of the cycle of cells L along nx that starts at h.
Turn(h, L, nx, w) ==
    /\ w \in Seq(Cells)
    /\ \A i, j \in 1..Len(w) : w[i] = w[j] => i = j
    /\ L = {w[i] : i \in 1..Len(w)}
    /\ \A i \in 1..Len(w) : nx[w[i]] = w[Ahead(w, i)]
    /\ Len(w) > 0 => h = w[1]

\* The equation of the recursive walks Order and FromHand.
Steps(n, h, nx, a) == [i \in 1..n |-> IF i = 1 THEN h ELSE nx[a[i - 1]]]

\* The walk of q visits the cells of w in their order, and no other is in use.
Walks(q, w) ==
    /\ w \in Seq(Cells)
    /\ \A i, j \in 1..Len(w) : w[i] = w[j] => i = j
    /\ InUse(q) = {w[i] : i \in 1..Len(w)}
    /\ Len(w) = 0 => q.head = NULL /\ q.tail = NULL
    /\ Len(w) > 0 => q.head = w[1] /\ q.tail = w[Len(w)]
    /\ \A i \in 1..Len(w) : /\ q.next[w[i]] = w[Ahead(w, i)]
                            /\ q.prev[w[i]] = w[Behind(w, i)]

\* No file has two cells, and the counts never fall.
Lined(q, w) ==
    /\ \A i, j \in 1..Len(w) : q.name[w[i]] = q.name[w[j]] => i = j
    /\ \A i, j \in 1..Len(w) : i <= j => q.freq[w[i]] <= q.freq[w[j]]

\* A set of positions that is not empty has a first one.
LEMMA FirstOne ==
    ASSUME NEW S \in SUBSET Nat, S # {}
    PROVE  \E x \in S : \A k \in S : x <= k
<1> DEFINE Upto == {0..k : k \in S}
<1>1. Upto \subseteq FiniteSubsetsOf(Nat) /\ Upto # {}
  <2>1. ASSUME NEW k \in S PROVE 0..k \in FiniteSubsetsOf(Nat)
    BY FS_Interval DEF FiniteSubsetsOf
  <2>2. QED
    BY <2>1
<1>2. PICK T \in Upto : \A U \in Upto : <<U, T>> \notin StrictSubsetOrdering(Nat)
  <2>1. IsWellFoundedOn(StrictSubsetOrdering(Nat), FiniteSubsetsOf(Nat))
    BY FS_StrictSubsetOrderingWellFounded
  <2> HIDE DEF Upto
  <2>2. QED
    BY <1>1, <2>1, WFMin
<1>3. PICK x \in S : T = 0..x
  BY <1>2
<1>4. ASSUME NEW k \in S, k < x PROVE FALSE
  <2>1. 0..k \in Upto /\ 0..k \in SUBSET Nat /\ 0..x \in SUBSET Nat
    OBVIOUS
  <2>2. 0..k \subseteq 0..x /\ x \in 0..x /\ x \notin 0..k
    BY <1>4
  <2>3. <<0..k, 0..x>> \in StrictSubsetOrdering(Nat)
    BY <2>1, <2>2 DEF StrictSubsetOrdering
  <2>4. QED
    BY <1>2, <1>3, <2>1, <2>3
<1>5. QED
  BY <1>4

\* The walk along nx from the first cell is the turn: one function has the
\* equation.
LEMMA OneWalk ==
    ASSUME NEW h, NEW L, NEW nx, NEW w, Turn(h, L, nx, w)
    PROVE  /\ Cardinality(L) = Len(w)
           /\ w = Steps(Len(w), h, nx, w)
           /\ \A a : a = Steps(Len(w), h, nx, a) => a = w
<1> DEFINE n == Len(w)
           Step(a) == [i \in 1..n |-> IF i = 1 THEN h ELSE nx[a[i - 1]]]
<1>1. w \in [1..n -> Cells] /\ n \in Nat
  BY LenProperties DEF Turn
<1>0. n = Len(w)
  OBVIOUS
<1> HIDE DEF n
<1>2. Cardinality(L) = n
  <2>1. w \in Bijection(1..n, L)
    <3>1. L = {w[i] : i \in 1..n} /\ \A i, j \in 1..n : w[i] = w[j] => i = j
      BY <1>0 DEF Turn
    <3>2. w \in [1..n -> L] /\ \A c \in L : \E i \in 1..n : w[i] = c
      BY <1>1, <3>1
    <3>3. QED
      BY <3>1, <3>2 DEF Bijection, Injection, Surjection, IsInjective
  <2>2. IsFiniteSet(1..n) /\ Cardinality(1..n) = n
    <3>1. n \in Int /\ 1 \in Int
      BY <1>1
    <3>2. QED
      BY <3>1, <1>1, FS_Interval
  <2>3. QED
    BY <2>1, <2>2, FS_Bijection DEF ExistsBijection
<1>3. w = Step(w)
  <2>1. ASSUME NEW i \in 1..n PROVE w[i] = Step(w)[i]
    <3>1. CASE i = 1
      BY <3>1, <1>0, <1>1 DEF Turn
    <3>2. CASE i # 1
      <4>1. i - 1 \in 1..n /\ i - 1 # n
        BY <3>2, <1>1
      <4>2. nx[w[i - 1]] = w[i - 1 + 1]
        BY <4>1, <1>0 DEF Turn, Ahead
      <4>3. QED
        BY <3>2, <4>1, <4>2
    <3>3. QED
      BY <3>1, <3>2
  <2>2. QED
    BY <1>1, <2>1
<1>4. ASSUME NEW a, a = Step(a) PROVE a = w
  <2> DEFINE Wrong == {i \in 1..n : a[i] # w[i]}
  <2>1. CASE Wrong = {}
    <3>1. DOMAIN a = 1..n /\ a = [i \in 1..n |-> a[i]]
      BY <1>4
    <3>2. QED
      BY <1>1, <2>1, <3>1
  <2>2. CASE Wrong # {}
    <3>1. PICK x \in Wrong : \A k \in Wrong : x <= k
      <4>1. Wrong \in SUBSET Nat
        BY <1>1
      <4>2. QED
        BY <2>2, <4>1, FirstOne
    <3>2. x # 1
      BY <3>1, <1>3, <1>4
    <3>3. x - 1 \in 1..n /\ a[x - 1] = w[x - 1]
      BY <3>1, <3>2, <1>1
    <3>4. a[x] = Step(a)[x] /\ w[x] = Step(w)[x] /\ x \in 1..n
      BY <3>1, <1>3, <1>4
    <3>5. a[x] = nx[a[x - 1]] /\ w[x] = nx[w[x - 1]]
      BY <3>2, <3>4
    <3>6. QED
      BY <3>1, <3>3, <3>5
  <2>3. QED
    BY <2>1, <2>2
<1>5. QED
  BY <1>0, <1>2, <1>3, <1>4 DEF Steps

\* Walking from the head along next gives the sequence the cells are linked in.
LEMMA WalkIsOrder ==
    ASSUME NEW q, NEW w, Walks(q, w)
    PROVE  Order(q) = w
<1> DEFINE n == Len(w)
           Step(a) == Steps(n, q.head, q.next, a)
<1>0. Turn(q.head, InUse(q), q.next, w)
  BY DEF Walks, Turn
<1>1. Cardinality(InUse(q)) = n /\ w = Step(w) /\ \A a : a = Step(a) => a = w
  BY <1>0, OneWalk
<1>2. Order(q) = CHOOSE at : at = Step(at)
  BY <1>1 DEF Order, Steps
<1>3. Order(q) = Step(Order(q))
  BY <1>1, <1>2
<1>4. QED
  BY <1>1, <1>3

\* What is found: the cell that holds the file, if one does.
LEMMA FoundIsHolder ==
    ASSUME NEW q, NEW w, Walks(q, w), Lined(q, w), NEW f
    PROVE  /\ \A k \in 1..Len(w) : q.name[w[k]] = f => findelem_lru(q, f) = w[k]
           /\ (\A k \in 1..Len(w) : q.name[w[k]] # f) => findelem_lru(q, f) = NULL
<1> DEFINE hits == {i \in DOMAIN w : q.name[w[i]] = f}
<1>1. Len(w) \in Nat /\ DOMAIN w = 1..Len(w)
  BY LenProperties DEF Walks
<1>2. findelem_lru(q, f) =
        IF hits = {} THEN NULL
        ELSE w[CHOOSE i \in hits : \A j \in hits : i <= j]
  <2>1. Order(q) = w
    BY WalkIsOrder
  <2>2. QED
    BY <2>1 DEF findelem_lru
<1>3. ASSUME NEW k \in 1..Len(w), q.name[w[k]] = f
      PROVE  findelem_lru(q, f) = w[k]
  <2>1. hits = {k}
    BY <1>1, <1>3 DEF Lined
  <2>2. (CHOOSE i \in hits : \A j \in hits : i <= j) = k
    BY <2>1, <1>1
  <2>3. QED
    BY <1>2, <2>1, <2>2
<1>4. ASSUME \A k \in 1..Len(w) : q.name[w[k]] # f
      PROVE  findelem_lru(q, f) = NULL
  <2>1. hits = {}
    BY <1>1, <1>4
  <2>2. QED
    BY <1>2, <2>1
<1>5. QED
  BY <1>3, <1>4

\* remque(3) and free, field by field.
LEMMA UnlinkedFields ==
    ASSUME NEW q \in Queues, NEW e \in Cells,
           q.next[e] \in Cells, q.prev[e] \in Cells
    PROVE  LET r == Unlinked(q, e)
           IN  /\ r \in Queues
               /\ r.head = q.head /\ r.tail = q.tail
               /\ r.next = [q.next EXCEPT ![q.prev[e]] = q.next[e], ![e] = NULL]
               /\ r.prev = [q.prev EXCEPT ![q.next[e]] = q.prev[e], ![e] = NULL]
               /\ r.name = [q.name EXCEPT ![e] = NULL]
               /\ r.freq = [q.freq EXCEPT ![e] = 0]
  BY DEF Unlinked, Queues

\* The walk without its k-th cell.
Cut(w, k) == [i \in 1..(Len(w) - 1) |-> IF i < k THEN w[i] ELSE w[i + 1]]

\* The queue after its k-th cell is freed.
Freed(q, r, w, k) ==
    LET e == w[k] IN
    /\ r \in Queues
    /\ Len(w) = 1 => r.head = NULL /\ r.tail = NULL
    /\ Len(w) > 1 => /\ r.head = IF k = 1 THEN w[2] ELSE w[1]
                     /\ r.tail = IF k = Len(w) THEN w[k - 1] ELSE w[Len(w)]
    /\ r.next = [q.next EXCEPT ![q.prev[e]] = q.next[e], ![e] = NULL]
    /\ r.prev = [q.prev EXCEPT ![q.next[e]] = q.prev[e], ![e] = NULL]
    /\ r.name = [q.name EXCEPT ![e] = NULL]
    /\ r.freq = [q.freq EXCEPT ![e] = 0]

\* remque_lru frees the first cell.
LEMMA HeadFreed ==
    ASSUME NEW q \in Queues, NEW w, Walks(q, w), Len(w) > 0
    PROVE  Freed(q, remque_lru(q), w, 1)
<1>1. Len(w) \in Nat /\ \A i \in 1..Len(w) : w[i] \in Cells
  BY LenProperties, ElementOfSeq DEF Walks
<1>0. 1 \in 1..Len(w) /\ Len(w) \in 1..Len(w) /\ Ahead(w, 1) \in 1..Len(w)
  BY <1>1 DEF Ahead
<1>2. /\ q.head = w[1] /\ q.tail = w[Len(w)]
      /\ q.next[w[1]] = w[Ahead(w, 1)] /\ q.prev[w[1]] = w[Len(w)]
      /\ Ahead(w, 1) = IF Len(w) = 1 THEN 1 ELSE 2
  BY <1>0 DEF Walks, Ahead, Behind
<1>3. w[1] \in Cells /\ q.next[w[1]] \in Cells /\ q.prev[w[1]] \in Cells
  BY <1>0, <1>1, <1>2
<1>4. q.next[w[1]] = w[1] <=> Len(w) = 1
  BY <1>0, <1>1, <1>2 DEF Walks
<1> DEFINE r == Unlinked(q, w[1])
<1>5. /\ r \in Queues
      /\ r.head = q.head /\ r.tail = q.tail
      /\ r.next = [q.next EXCEPT ![q.prev[w[1]]] = q.next[w[1]], ![w[1]] = NULL]
      /\ r.prev = [q.prev EXCEPT ![q.next[w[1]]] = q.prev[w[1]], ![w[1]] = NULL]
      /\ r.name = [q.name EXCEPT ![w[1]] = NULL]
      /\ r.freq = [q.freq EXCEPT ![w[1]] = 0]
  BY <1>3, UnlinkedFields
<1>6. remque_lru(q) = IF Len(w) = 1 THEN [r EXCEPT !.head = NULL, !.tail = NULL]
                                    ELSE [r EXCEPT !.head = w[Ahead(w, 1)]]
  BY <1>2, <1>4 DEF remque_lru
<1> HIDE DEF r
<1>7. CASE Len(w) = 1
  <2> DEFINE s == [r EXCEPT !.head = NULL, !.tail = NULL]
  <2>1. /\ s \in Queues /\ s.head = NULL /\ s.tail = NULL
        /\ s.next = r.next /\ s.prev = r.prev /\ s.name = r.name /\ s.freq = r.freq
    BY <1>5 DEF Queues
  <2>2. QED
    BY <1>5, <1>6, <1>7, <2>1 DEF Freed
<1>8. CASE Len(w) > 1
  <2>1. w[2] \in Cells /\ Ahead(w, 1) = 2
    BY <1>1, <1>2, <1>8
  <2> DEFINE s == [r EXCEPT !.head = w[2]]
  <2>2. /\ s \in Queues /\ s.head = w[2] /\ s.tail = r.tail
        /\ s.next = r.next /\ s.prev = r.prev /\ s.name = r.name /\ s.freq = r.freq
    BY <1>5, <2>1 DEF Queues
  <2>3. QED
    BY <1>2, <1>5, <1>6, <1>8, <2>1, <2>2 DEF Freed
<1>9. QED
  BY <1>1, <1>7, <1>8

\* rmelem_lru frees the cell of the file, and does nothing without one.
LEMMA FileFreed ==
    ASSUME NEW q \in Queues, NEW w, Walks(q, w), Lined(q, w), NEW f
    PROVE  /\ \A k \in 1..Len(w) : q.name[w[k]] = f => Freed(q, rmelem_lru(q, f), w, k)
           /\ (\A k \in 1..Len(w) : q.name[w[k]] # f) => rmelem_lru(q, f) = q
<1>1. Len(w) \in Nat /\ \A i \in 1..Len(w) : w[i] \in Cells
  BY LenProperties, ElementOfSeq DEF Walks
<1>2. ASSUME NEW k \in 1..Len(w), q.name[w[k]] = f
      PROVE  Freed(q, rmelem_lru(q, f), w, k)
  <2>1. findelem_lru(q, f) = w[k] /\ q.head = w[1] /\ q.tail = w[Len(w)] /\ w[k] # NULL
    BY <1>1, <1>2, FoundIsHolder, NullAssumption DEF Walks
  <2>2. CASE k = 1
    <3>1. rmelem_lru(q, f) = remque_lru(q)
      BY <1>1, <2>1, <2>2, NullAssumption DEF rmelem_lru
    <3>2. QED
      BY <1>1, <2>2, <3>1, HeadFreed
  <2>3. CASE k # 1
    <3>1. w[k] # w[1] /\ w[1] # NULL /\ (w[k] = w[Len(w)] <=> k = Len(w))
      BY <1>1, <2>3, NullAssumption DEF Walks
    <3>2. q.prev[w[k]] = w[k - 1] /\ q.next[w[k]] = w[Ahead(w, k)]
      BY <1>1, <2>3 DEF Walks, Behind
    <3>3. w[k] \in Cells /\ q.prev[w[k]] \in Cells /\ q.next[w[k]] \in Cells
      BY <1>1, <2>3, <3>2 DEF Ahead
    <3> DEFINE r == Unlinked(q, w[k])
               t == IF k = Len(w) THEN w[k - 1] ELSE w[Len(w)]
    <3>4. /\ r \in Queues
          /\ r.head = q.head /\ r.tail = q.tail
          /\ r.next = [q.next EXCEPT ![q.prev[w[k]]] = q.next[w[k]], ![w[k]] = NULL]
          /\ r.prev = [q.prev EXCEPT ![q.next[w[k]]] = q.prev[w[k]], ![w[k]] = NULL]
          /\ r.name = [q.name EXCEPT ![w[k]] = NULL]
          /\ r.freq = [q.freq EXCEPT ![w[k]] = 0]
      BY <3>3, UnlinkedFields
    <3>5. rmelem_lru(q, f) = [r EXCEPT !.tail = t]
      BY <2>1, <2>3, <3>1, <3>2 DEF rmelem_lru, TailWithout
    <3>6. t \in Cells
      BY <1>1, <2>3
    <3> HIDE DEF r, t
    <3>7. /\ [r EXCEPT !.tail = t] \in Queues
          /\ [r EXCEPT !.tail = t].head = w[1] /\ [r EXCEPT !.tail = t].tail = t
          /\ [r EXCEPT !.tail = t].next = r.next /\ [r EXCEPT !.tail = t].prev = r.prev
          /\ [r EXCEPT !.tail = t].name = r.name /\ [r EXCEPT !.tail = t].freq = r.freq
      BY <2>1, <3>4, <3>6 DEF Queues
    <3>8. Len(w) > 1
      BY <1>1, <2>3
    <3>9. QED
      BY <2>3, <3>4, <3>5, <3>7, <3>8 DEF Freed, t
  <2>4. QED
    BY <2>2, <2>3
<1>3. ASSUME \A k \in 1..Len(w) : q.name[w[k]] # f
      PROVE  rmelem_lru(q, f) = q
  BY <1>3, FoundIsHolder DEF rmelem_lru
<1>4. QED
  BY <1>2, <1>3

\* What is left is linked in the same order, and its names and counts are kept.
LEMMA CutWalks ==
    ASSUME NEW q \in Queues, NEW w, Walks(q, w), NEW k \in 1..Len(w),
           NEW r, Freed(q, r, w, k)
    PROVE  /\ Walks(r, Cut(w, k))
           /\ Len(Cut(w, k)) = Len(w) - 1
           /\ \A i \in 1..Len(w) \ {k} : /\ r.name[w[i]] = q.name[w[i]]
                                         /\ r.freq[w[i]] = q.freq[w[i]]
<1> DEFINE n == Len(w)
           c == Cut(w, k)
<1>0. /\ n \in Nat /\ n > 0 /\ \A i \in 1..n : w[i] \in Cells
      /\ \A i, j \in 1..n : w[i] = w[j] => i = j
  BY LenProperties, ElementOfSeq DEF Walks
<1>1. c \in Seq(Cells) /\ Len(c) = n - 1
      /\ \A i \in 1..(n - 1) : c[i] = IF i < k THEN w[i] ELSE w[i + 1]
  <2>1. c \in [1..(n - 1) -> Cells] /\ n - 1 \in Nat
    BY <1>0 DEF Cut
  <2>2. c \in Seq(Cells)
    BY <2>1
  <2>3. Len(c) = n - 1
    <3>1. DOMAIN c = 1..(n - 1) /\ DOMAIN c = 1..Len(c) /\ Len(c) \in Nat
      BY <2>1, <2>2, LenProperties
    <3>2. QED
      BY <2>1, <3>1
  <2>4. QED
    BY <2>2, <2>3 DEF Cut
<1>2. \A i \in 1..n \ {k} : /\ r.name[w[i]] = q.name[w[i]]
                            /\ r.freq[w[i]] = q.freq[w[i]]
  BY <1>0 DEF Freed, Queues
<1>3. \A i \in 1..n \ {k} :
         /\ r.next[w[i]] = IF i = Behind(w, k) THEN w[Ahead(w, k)] ELSE w[Ahead(w, i)]
         /\ r.prev[w[i]] = IF i = Ahead(w, k) THEN w[Behind(w, k)] ELSE w[Behind(w, i)]
  <2>1. Behind(w, k) \in 1..n /\ Ahead(w, k) \in 1..n
    BY <1>0 DEF Behind, Ahead
  <2>2. q.prev[w[k]] = w[Behind(w, k)] /\ q.next[w[k]] = w[Ahead(w, k)]
    BY DEF Walks
  <2>3. ASSUME NEW i \in 1..n \ {k}
        PROVE  /\ r.next[w[i]] = IF w[i] = w[Behind(w, k)] THEN w[Ahead(w, k)] ELSE q.next[w[i]]
               /\ r.prev[w[i]] = IF w[i] = w[Ahead(w, k)] THEN w[Behind(w, k)] ELSE q.prev[w[i]]
    <3>1. w[i] \in Cells /\ w[i] # w[k] /\ w[Behind(w, k)] \in Cells /\ w[Ahead(w, k)] \in Cells
      BY <1>0, <2>1, <2>3
    <3>2. QED
      BY <2>2, <3>1 DEF Freed, Queues
  <2>4. QED
    BY <1>0, <2>1, <2>3 DEF Walks
<1>4. InUse(r) = {c[i] : i \in 1..(n - 1)}
  <2>1. InUse(r) = InUse(q) \ {w[k]}
    BY <1>0 DEF InUse, Freed, Queues
  <2>2. InUse(q) = {w[i] : i \in 1..n}
    BY DEF Walks
  <2>3. ASSUME NEW i \in 1..(n - 1) PROVE c[i] \in InUse(r)
    <3>1. CASE i < k
      BY <1>0, <1>1, <2>1, <2>2, <3>1
    <3>2. CASE ~(i < k)
      <4>1. c[i] = w[i + 1] /\ i + 1 \in 1..n /\ i + 1 # k
        BY <1>0, <1>1, <3>2
      <4>2. QED
        BY <1>0, <2>1, <2>2, <4>1
    <3>3. QED
      BY <3>1, <3>2
  <2>4. ASSUME NEW j \in 1..n, j # k PROVE \E i \in 1..(n - 1) : c[i] = w[j]
    <3>1. CASE j < k
      BY <1>0, <1>1, <3>1
    <3>2. CASE j > k
      <4>1. j - 1 \in 1..(n - 1) /\ ~(j - 1 < k) /\ j - 1 + 1 = j
        BY <1>0, <3>2
      <4>2. QED
        BY <1>1, <4>1
    <3>3. QED
      BY <1>0, <2>4, <3>1, <3>2
  <2>5. ASSUME NEW x \in InUse(r) PROVE \E i \in 1..(n - 1) : c[i] = x
    <3>1. PICK j \in 1..n : x = w[j]
      BY <2>1, <2>2
    <3>2. j # k
      BY <2>1, <3>1
    <3>3. QED
      BY <2>4, <3>1, <3>2
  <2>6. QED
    BY <2>3, <2>5
<1>5. \A i, j \in 1..(n - 1) : c[i] = c[j] => i = j
  <2>1. \A i \in 1..(n - 1) : \E a \in 1..n : c[i] = w[a] /\ a = IF i < k THEN i ELSE i + 1
    BY <1>0, <1>1
  <2>2. QED
    BY <1>0, <2>1
<1>6. ASSUME NEW i \in 1..(n - 1)
      PROVE  r.next[c[i]] = c[Ahead(c, i)] /\ r.prev[c[i]] = c[Behind(c, i)]
  <2>1. CASE i < k
    <3>1. c[i] = w[i] /\ i \in 1..n \ {k}
      BY <1>0, <1>1, <2>1
    <3>2. r.next[c[i]] = c[Ahead(c, i)]
      BY <1>0, <1>1, <1>3, <2>1, <3>1 DEF Ahead, Behind
    <3>3. r.prev[c[i]] = c[Behind(c, i)]
      BY <1>0, <1>1, <1>3, <2>1, <3>1 DEF Ahead, Behind
    <3>4. QED
      BY <3>2, <3>3
  <2>2. CASE ~(i < k)
    <3>1. c[i] = w[i + 1] /\ i + 1 \in 1..n \ {k}
      BY <1>0, <1>1, <2>2
    <3>2. r.next[c[i]] = c[Ahead(c, i)]
      <4>1. r.next[c[i]] = IF i + 1 = Behind(w, k) THEN w[Ahead(w, k)] ELSE w[Ahead(w, i + 1)]
        BY <1>3, <3>1
      <4>2. CASE i + 1 = n
        BY <1>0, <1>1, <2>2, <4>1, <4>2 DEF Ahead, Behind
      <4>3. CASE i + 1 # n
        BY <1>0, <1>1, <2>2, <4>1, <4>3 DEF Ahead, Behind
      <4>4. QED
        BY <4>2, <4>3
    <3>3. r.prev[c[i]] = c[Behind(c, i)]
      BY <1>0, <1>1, <1>3, <2>2, <3>1 DEF Ahead, Behind
    <3>4. QED
      BY <3>2, <3>3
  <2>3. QED
    BY <2>1, <2>2
<1>7. n - 1 = 0 => r.head = NULL /\ r.tail = NULL
  BY <1>0 DEF Freed
<1>8. n - 1 > 0 => r.head = c[1] /\ r.tail = c[n - 1]
  BY <1>0, <1>1 DEF Freed
<1> HIDE DEF c
<1>9. Walks(r, c)
  BY <1>1, <1>4, <1>5, <1>6, <1>7, <1>8 DEF Walks
<1>10. QED
  BY <1>1, <1>2, <1>9 DEF c

\* insque(3), field by field.
LEMMA LinkedFields ==
    ASSUME NEW q \in Queues, NEW e \in Cells, NEW p \in Cells,
           q.next[p] \in Cells
    PROVE  LET r == Linked(q, e, p)
           IN  /\ r \in Queues
               /\ r.head = q.head /\ r.tail = q.tail
               /\ r.next = [q.next EXCEPT ![p] = e, ![e] = q.next[p]]
               /\ r.prev = [q.prev EXCEPT ![e] = p, ![q.next[p]] = e]
               /\ r.name = q.name /\ r.freq = q.freq
  BY DEF Linked, Queues

\* The walk with the cell e in the k-th place.
Put(w, k, e) == [i \in 1..(Len(w) + 1) |->
                    IF i < k THEN w[i] ELSE IF i = k THEN e ELSE w[i - 1]]

\* The queue after the cell e joins it in the k-th place.
Joined(q, r, w, k, e) ==
    /\ r \in Queues
    /\ r.head = IF k = 1 THEN e ELSE w[1]
    /\ r.tail = IF k = Len(w) + 1 THEN e ELSE w[Len(w)]
    /\ r.name = q.name /\ r.freq = q.freq
    /\ Len(w) = 0 => /\ r.next = [q.next EXCEPT ![e] = e]
                     /\ r.prev = [q.prev EXCEPT ![e] = e]
    /\ Len(w) > 0 =>
         LET p == IF k = 1 THEN w[Len(w)] ELSE w[k - 1]
         IN  /\ r.next = [q.next EXCEPT ![p] = e, ![e] = q.next[p]]
             /\ r.prev = [q.prev EXCEPT ![e] = p, ![q.next[p]] = e]

\* The place of a new cell with count n: behind every cell that has no higher
\* count, and in an LRU queue behind all.
Fits(q, w, k, n) ==
    /\ k \in 1..(Len(w) + 1)
    /\ IF lfu THEN \A i \in 1..Len(w) : i < k <=> q.freq[w[i]] <= n
              ELSE k = Len(w) + 1

\* There is such a place, because the counts never fall along the walk.
LEMMA SomePlaceFits ==
    ASSUME NEW q \in Queues, NEW w, Walks(q, w), Lined(q, w), NEW n \in Nat
    PROVE  \E k : Fits(q, w, k, n)
<1>1. Len(w) \in Nat /\ \A i \in 1..Len(w) : w[i] \in Cells /\ q.freq[w[i]] \in Nat
  BY LenProperties, ElementOfSeq DEF Walks, Queues
<1> DEFINE later == {i \in 1..Len(w) : n < q.freq[w[i]]}
<1>2. CASE later = {}
  <2>1. Len(w) + 1 \in 1..(Len(w) + 1)
        /\ \A i \in 1..Len(w) : i < Len(w) + 1 /\ q.freq[w[i]] <= n
    BY <1>1, <1>2
  <2>2. QED
    BY <2>1 DEF Fits
<1>3. CASE later # {}
  <2>1. PICK k \in later : \A i \in later : k <= i
    <3>1. later \in SUBSET Nat
      BY <1>1
    <3>2. QED
      BY <1>3, <3>1, FirstOne
  <2>2. \A i \in 1..Len(w) : i < k => q.freq[w[i]] <= n
    BY <1>1, <2>1
  <2>3. ASSUME NEW i \in 1..Len(w), ~(i < k) PROVE ~(q.freq[w[i]] <= n)
    <3>1. k <= i /\ k \in 1..Len(w)
      BY <1>1, <2>1, <2>3
    <3>2. q.freq[w[k]] <= q.freq[w[i]] /\ n < q.freq[w[k]]
      BY <2>1, <3>1 DEF Lined
    <3>3. q.freq[w[k]] \in Nat /\ q.freq[w[i]] \in Nat
      BY <1>1, <3>1
    <3>4. QED
      BY <3>2, <3>3
  <2>4. CASE lfu
    <3>1. k \in 1..(Len(w) + 1)
      BY <1>1, <2>1
    <3>2. \A i \in 1..Len(w) : i < k <=> q.freq[w[i]] <= n
      BY <2>2, <2>3
    <3>3. QED
      BY <2>4, <3>1, <3>2 DEF Fits
  <2>5. CASE ~lfu
    BY <1>1, <2>5 DEF Fits
  <2>6. QED
    BY <2>4, <2>5
<1>4. QED
  BY <1>2, <1>3

\* get_pos_lfu names the cell before that place.
LEMMA PositionFits ==
    ASSUME NEW q \in Queues, NEW w, Walks(q, w), Len(w) > 0,
           NEW n \in Nat, NEW k, lfu, Fits(q, w, k, n)
    PROVE  get_pos_lfu(q, n) = IF k = Len(w) + 1 THEN w[Len(w)]
                               ELSE IF k = 1 THEN NULL ELSE w[k - 1]
<1> DEFINE later == {i \in 1..Len(w) : n < q.freq[w[i]]}
           first == CHOOSE i \in later : \A j \in later : i <= j
<1>1. /\ Len(w) \in Nat /\ DOMAIN w = 1..Len(w)
      /\ \A i \in 1..Len(w) : w[i] \in Cells /\ q.freq[w[i]] \in Nat
  BY LenProperties, ElementOfSeq DEF Walks, Queues
<1>2. Order(q) = w /\ q.tail = w[Len(w)]
  BY WalkIsOrder DEF Walks
<1>3. get_pos_lfu(q, n) = IF later = {} THEN q.tail
                          ELSE IF first = 1 THEN NULL ELSE q.prev[w[first]]
  BY <1>1, <1>2 DEF get_pos_lfu, Passed
<1>4. k \in 1..(Len(w) + 1) /\ later = {i \in 1..Len(w) : ~(i < k)}
  BY <1>1 DEF Fits
<1> HIDE DEF later
<1>5. CASE k = Len(w) + 1
  BY <1>1, <1>2, <1>3, <1>4, <1>5
<1>6. CASE k # Len(w) + 1
  <2>1. k \in later /\ \A j \in later : k <= j
    BY <1>1, <1>4, <1>6
  <2>2. \A i \in later : (\A j \in later : i <= j) => i = k
    BY <1>1, <1>4, <2>1
  <2>3. first = k
    BY <2>1, <2>2
  <2>4. k # 1 => q.prev[w[k]] = w[k - 1]
    BY <1>1, <1>4, <1>6 DEF Walks, Behind
  <2>5. QED
    BY <1>3, <1>6, <2>1, <2>3, <2>4
<1>7. QED
  BY <1>5, <1>6

\* insque_lru and insque_lfu put the cell there.
LEMMA PlaceJoins ==
    ASSUME NEW q \in Queues, NEW w, Walks(q, w), lfu \in BOOLEAN,
           NEW e \in Cells, e \notin InUse(q),
           NEW n \in Nat, NEW k, Fits(q, w, k, n)
    PROVE  Joined(q, Place(q, e, n), w, k, e)
<1>1. /\ Len(w) \in Nat /\ k \in 1..(Len(w) + 1) /\ e # NULL
      /\ \A i \in 1..Len(w) : w[i] \in Cells /\ w[i] # NULL /\ w[i] # e
  <2>1. Len(w) \in Nat /\ \A i \in 1..Len(w) : w[i] \in Cells /\ w[i] \in InUse(q)
    BY LenProperties, ElementOfSeq DEF Walks
  <2>2. QED
    BY <2>1, NullAssumption DEF Fits
<1> DEFINE pred == IF lfu THEN get_pos_lfu(q, n) ELSE q.tail
           r == Place(q, e, n)
<1>2. CASE Len(w) = 0
  <2> DEFINE a == [q EXCEPT !.next[e] = e, !.prev[e] = e]
             b == Linked(a, e, e)
  <2>1. q.head = NULL
    BY <1>2 DEF Walks
  <2>2. r = [b EXCEPT !.head = e, !.tail = e]
    BY <2>1 DEF Place
  <2>3. /\ a \in Queues /\ a.next = [q.next EXCEPT ![e] = e]
        /\ a.prev = [q.prev EXCEPT ![e] = e] /\ a.name = q.name /\ a.freq = q.freq
    BY DEF Queues
  <2> HIDE DEF a
  <2>4. a.next[e] = e /\ a.prev[e] = e /\ a.next \in [Cells -> Cells \cup {NULL}]
        /\ a.prev \in [Cells -> Cells \cup {NULL}]
    BY <2>3 DEF Queues
  <2>5. /\ b \in Queues /\ b.next = [a.next EXCEPT ![e] = e, ![e] = a.next[e]]
        /\ b.prev = [a.prev EXCEPT ![e] = e, ![a.next[e]] = e]
        /\ b.name = a.name /\ b.freq = a.freq
    <3>1. a.next[e] \in Cells
      BY <2>4
    <3>2. a \in Queues
      BY <2>3
    <3>3. QED
      BY <3>1, <3>2, LinkedFields
  <2> HIDE DEF b
  <2>6. b.next = a.next /\ b.prev = a.prev
    BY <2>4, <2>5
  <2> DEFINE s == [b EXCEPT !.head = e, !.tail = e]
  <2>7. /\ s \in Queues /\ s.head = e /\ s.tail = e /\ s.next = b.next
        /\ s.prev = b.prev /\ s.name = b.name /\ s.freq = b.freq
    BY <2>5 DEF Queues
  <2> HIDE DEF s
  <2>8. r = s
    BY <2>2 DEF s
  <2> HIDE DEF r
  <2>9. k = 1
    BY <1>1, <1>2
  <2>10. QED
    BY <1>2, <2>3, <2>5, <2>6, <2>7, <2>8, <2>9 DEF Joined, r
<1>3. CASE Len(w) > 0
  <2> DEFINE p == IF k = 1 THEN w[Len(w)] ELSE w[k - 1]
             b == Linked(q, e, p)
  <2>1. q.head = w[1] /\ q.tail = w[Len(w)] /\ q.head # NULL /\ q.tail # NULL
    <3>1. 1 \in 1..Len(w) /\ Len(w) \in 1..Len(w)
      BY <1>1, <1>3
    <3>2. QED
      BY <1>1, <1>3, <3>1 DEF Walks
  <2>2. pred = IF k = Len(w) + 1 THEN q.tail ELSE IF k = 1 THEN NULL ELSE w[k - 1]
    <3>1. CASE lfu
      BY <1>3, <2>1, <3>1, PositionFits
    <3>2. CASE ~lfu
      BY <2>1, <3>2 DEF Fits
    <3>3. QED
      BY <3>1, <3>2
  <2>3. p \in Cells /\ q.next[p] \in Cells
    <3>1. ASSUME NEW i \in 1..Len(w) PROVE q.next[w[i]] \in Cells
      <4>1. Ahead(w, i) \in 1..Len(w)
        BY <1>1 DEF Ahead
      <4>2. QED
        BY <1>1, <4>1 DEF Walks
    <3>2. \E i \in 1..Len(w) : p = w[i]
      BY <1>1, <1>3
    <3>3. QED
      BY <1>1, <3>1, <3>2
  <2>4. /\ b \in Queues /\ b.head = q.head /\ b.tail = q.tail
        /\ b.next = [q.next EXCEPT ![p] = e, ![e] = q.next[p]]
        /\ b.prev = [q.prev EXCEPT ![e] = p, ![q.next[p]] = e]
        /\ b.name = q.name /\ b.freq = q.freq
    <3> HIDE DEF p
    <3>1. QED
      BY <2>3, LinkedFields
  <2>5. r = IF pred = NULL THEN [Linked(q, e, q.tail) EXCEPT !.head = e]
            ELSE IF pred = q.tail THEN [Linked(q, e, pred) EXCEPT !.tail = e]
            ELSE Linked(q, e, pred)
    BY <2>1 DEF Place
  <2> DEFINE h == IF k = 1 THEN e ELSE w[1]
             t == IF k = Len(w) + 1 THEN e ELSE w[Len(w)]
  <2>6. /\ r \in Queues /\ r.head = h /\ r.tail = t
        /\ r.next = b.next /\ r.prev = b.prev /\ r.name = b.name /\ r.freq = b.freq
    <3>1. CASE k = 1
      <4>1. k # Len(w) + 1 /\ pred = NULL /\ p = q.tail
        BY <1>1, <1>3, <2>1, <2>2, <3>1
      <4>2. r = [b EXCEPT !.head = e]
        BY <2>5, <4>1
      <4> HIDE DEF b, r
      <4>3. QED
        BY <2>1, <2>4, <3>1, <4>1, <4>2 DEF Queues
    <3>2. CASE k = Len(w) + 1
      <4>1. k # 1 /\ pred = q.tail /\ p = q.tail
        BY <1>1, <1>3, <2>1, <2>2, <3>2
      <4>2. r = [b EXCEPT !.tail = e]
        BY <2>1, <2>5, <4>1
      <4> HIDE DEF b, r
      <4>3. QED
        BY <2>1, <2>4, <3>2, <4>1, <4>2 DEF Queues
    <3>3. CASE k # 1 /\ k # Len(w) + 1
      <4>1. pred = w[k - 1] /\ p = w[k - 1] /\ k - 1 \in 1..Len(w) /\ k - 1 # Len(w)
        BY <1>1, <1>3, <2>2, <3>3
      <4>2. pred # NULL /\ pred # q.tail
        <5>1. Len(w) \in 1..Len(w)
          BY <1>1, <1>3
        <5>2. QED
          BY <1>1, <2>1, <4>1, <5>1 DEF Walks
      <4>3. r = b
        BY <2>5, <4>1, <4>2
      <4> HIDE DEF b, r
      <4>4. QED
        BY <2>1, <2>4, <3>3, <4>3
    <3>4. QED
      BY <3>1, <3>2, <3>3
  <2> HIDE DEF b, r
  <2>7. QED
    BY <1>3, <2>4, <2>6 DEF Joined, r
<1>4. QED
  BY <1>1, <1>2, <1>3

\* The queue after the cell e gets its file and its count.
Named(q, s, e, f, n) ==
    /\ s \in Queues /\ s.head = q.head /\ s.tail = q.tail
    /\ s.next = q.next /\ s.prev = q.prev
    /\ s.name = [q.name EXCEPT ![e] = f] /\ s.freq = [q.freq EXCEPT ![e] = n]

\* The cell is then linked in the k-th place, and the others are kept.
LEMMA PutWalks ==
    ASSUME NEW q \in Queues, NEW w, Walks(q, w),
           NEW e \in Cells, e \notin InUse(q), NEW k \in 1..(Len(w) + 1),
           NEW r, Joined(q, r, w, k, e), NEW f \in Files, NEW n \in Nat,
           NEW s, Named(r, s, e, f, n)
    PROVE  /\ s \in Queues
           /\ Walks(s, Put(w, k, e))
           /\ Len(Put(w, k, e)) = Len(w) + 1
           /\ s.name[e] = f /\ s.freq[e] = n
           /\ \A i \in 1..Len(w) : /\ s.name[w[i]] = q.name[w[i]]
                                   /\ s.freq[w[i]] = q.freq[w[i]]
<1> DEFINE m == Len(w)
           c == Put(w, k, e)
           P == IF k = 1 THEN m ELSE k - 1
           Q == Ahead(w, P)
<1>0. /\ m \in Nat /\ \A i \in 1..m : w[i] \in Cells /\ w[i] # e
      /\ \A i, j \in 1..m : w[i] = w[j] => i = j
      /\ InUse(q) = {w[i] : i \in 1..m}
  BY LenProperties, ElementOfSeq DEF Walks
<1>1. c \in Seq(Cells) /\ Len(c) = m + 1
      /\ \A i \in 1..(m + 1) : c[i] = IF i < k THEN w[i] ELSE IF i = k THEN e ELSE w[i - 1]
  <2>1. c \in [1..(m + 1) -> Cells] /\ m + 1 \in Nat
    BY <1>0 DEF Put
  <2>2. c \in Seq(Cells)
    BY <2>1
  <2>3. Len(c) = m + 1
    <3>1. DOMAIN c = 1..(m + 1) /\ DOMAIN c = 1..Len(c) /\ Len(c) \in Nat
      BY <2>1, <2>2, LenProperties
    <3>2. QED
      BY <2>1, <3>1
  <2>4. QED
    BY <2>2, <2>3 DEF Put
<1> HIDE DEF c
<1>2. /\ s \in Queues /\ s.head = r.head /\ s.tail = r.tail
      /\ s.next = r.next /\ s.prev = r.prev
      /\ s.name = [q.name EXCEPT ![e] = f] /\ s.freq = [q.freq EXCEPT ![e] = n]
  BY DEF Joined, Named
<1>3. /\ s.name[e] = f /\ s.freq[e] = n
      /\ \A x \in Cells \ {e} : s.name[x] = q.name[x] /\ s.freq[x] = q.freq[x]
  BY <1>2 DEF Queues
<1>4. InUse(s) = InUse(q) \cup {e}
  <2>1. f # NULL
    BY NullAssumption
  <2>2. QED
    BY <1>3, <2>1 DEF InUse
<1>5. InUse(s) = {c[i] : i \in 1..(m + 1)}
  <2>1. ASSUME NEW i \in 1..(m + 1) PROVE c[i] \in InUse(s)
    <3>1. CASE i < k
      BY <1>0, <1>1, <1>4, <3>1
    <3>2. CASE i = k
      BY <1>1, <1>4, <3>2
    <3>3. CASE i > k
      <4>1. c[i] = w[i - 1] /\ i - 1 \in 1..m
        BY <1>0, <1>1, <3>3
      <4>2. QED
        BY <1>0, <1>4, <4>1
    <3>4. QED
      BY <1>0, <3>1, <3>2, <3>3
  <2>2. ASSUME NEW j \in 1..m PROVE \E i \in 1..(m + 1) : c[i] = w[j]
    <3>1. CASE j < k
      BY <1>0, <1>1, <3>1
    <3>2. CASE ~(j < k)
      <4>1. j + 1 \in 1..(m + 1) /\ ~(j + 1 < k) /\ j + 1 # k /\ j + 1 - 1 = j
        BY <1>0, <3>2
      <4>2. c[j + 1] = w[j + 1 - 1]
        BY <1>1, <4>1
      <4>3. QED
        BY <4>1, <4>2
    <3>3. QED
      BY <3>1, <3>2
  <2>3. c[k] = e
    BY <1>0, <1>1
  <2>4. \A x \in InUse(s) : \E i \in 1..(m + 1) : c[i] = x
    <3>1. \A x \in InUse(q) : \E j \in 1..m : x = w[j]
      BY <1>0
    <3>2. QED
      BY <1>4, <2>2, <2>3, <3>1
  <2>5. QED
    BY <2>1, <2>4
<1>6. \A i, j \in 1..(m + 1) : c[i] = c[j] => i = j
  <2>1. \A i \in 1..(m + 1) :
           \/ i = k /\ c[i] = e
           \/ \E a \in 1..m : c[i] = w[a] /\ a = (IF i < k THEN i ELSE i - 1) /\ i # k
    BY <1>0, <1>1
  <2>2. QED
    BY <1>0, <2>1
<1>7. CASE m = 0
  <2>1. k = 1 /\ c[1] = e
    BY <1>0, <1>1, <1>7
  <2>2. s.head = e /\ s.tail = e /\ s.next[e] = e /\ s.prev[e] = e
    BY <1>2, <1>7, <2>1 DEF Joined, Queues
  <2>3. Walks(s, c)
    BY <1>1, <1>5, <1>6, <1>7, <2>1, <2>2 DEF Walks, Ahead, Behind
  <2>4. QED
    BY <1>0, <1>1, <1>2, <1>3, <1>7, <2>3 DEF c
<1>8. CASE m > 0
  <2>1. P \in 1..m /\ Q \in 1..m /\ Q = (IF k = 1 \/ k = m + 1 THEN 1 ELSE k)
    BY <1>0, <1>8 DEF Ahead
  <2>2. /\ s.next = [q.next EXCEPT ![w[P]] = e, ![e] = w[Q]]
        /\ s.prev = [q.prev EXCEPT ![e] = w[P], ![w[Q]] = e]
    <3>1. q.next[w[P]] = w[Q]
      BY <2>1 DEF Walks
    <3>2. w[P] = IF k = 1 THEN w[Len(w)] ELSE w[k - 1]
      OBVIOUS
    <3> HIDE DEF P, Q
    <3>3. QED
      BY <1>2, <1>8, <3>1, <3>2 DEF Joined
  <2>3. s.next[e] = w[Q] /\ s.prev[e] = w[P]
    <3>1. w[P] \in Cells /\ w[Q] \in Cells /\ w[P] # e /\ w[Q] # e
      BY <1>0, <2>1
    <3> HIDE DEF P, Q
    <3>2. QED
      BY <2>2, <3>1 DEF Queues
  <2>4. \A i \in 1..m : /\ s.next[w[i]] = IF i = P THEN e ELSE w[Ahead(w, i)]
                        /\ s.prev[w[i]] = IF i = Q THEN e ELSE w[Behind(w, i)]
    <3> HIDE DEF P, Q
    <3>1. ASSUME NEW i \in 1..m
          PROVE  /\ s.next[w[i]] = IF w[i] = w[P] THEN e ELSE q.next[w[i]]
                 /\ s.prev[w[i]] = IF w[i] = w[Q] THEN e ELSE q.prev[w[i]]
      <4>1. w[i] \in Cells /\ w[i] # e /\ w[P] \in Cells /\ w[Q] \in Cells
        BY <1>0, <2>1
      <4>2. QED
        BY <2>2, <4>1 DEF Queues
    <3>2. QED
      BY <1>0, <2>1, <3>1 DEF Walks
  <2>5. ASSUME NEW i \in 1..(m + 1)
        PROVE  s.next[c[i]] = c[Ahead(c, i)] /\ s.prev[c[i]] = c[Behind(c, i)]
    <3>1. CASE i < k
      <4>1. c[i] = w[i] /\ i \in 1..m
        BY <1>0, <1>1, <3>1
      <4>2. /\ s.next[c[i]] = IF i = P THEN e ELSE w[Ahead(w, i)]
            /\ s.prev[c[i]] = IF i = Q THEN e ELSE w[Behind(w, i)]
        BY <2>4, <4>1
      <4>3. s.next[c[i]] = c[Ahead(c, i)]
        BY <1>0, <1>1, <3>1, <4>1, <4>2 DEF Ahead
      <4>4. s.prev[c[i]] = c[Behind(c, i)]
        BY <1>0, <1>1, <2>1, <3>1, <4>1, <4>2 DEF Behind
      <4>5. QED
        BY <4>3, <4>4
    <3>2. CASE i = k
      <4>1. c[i] = e
        BY <1>1, <3>2
      <4>2. s.next[e] = c[Ahead(c, i)]
        <5>1. CASE k = m + 1
          BY <1>0, <1>1, <1>8, <2>1, <2>3, <3>2, <5>1 DEF Ahead
        <5>2. CASE k # m + 1
          <6>1. Ahead(c, i) = k + 1 /\ k + 1 \in 1..(m + 1) /\ c[k + 1] = w[k]
            BY <1>0, <1>1, <3>2, <5>2 DEF Ahead
          <6>2. w[Q] = w[k]
            BY <1>0, <1>8, <2>1, <5>2
          <6>3. QED
            BY <2>3, <6>1, <6>2
        <5>3. QED
          BY <5>1, <5>2
      <4>3. s.prev[e] = c[Behind(c, i)]
        BY <1>0, <1>1, <1>8, <2>3, <3>2 DEF Behind
      <4>4. QED
        BY <4>1, <4>2, <4>3
    <3>3. CASE i > k
      <4>1. c[i] = w[i - 1] /\ i - 1 \in 1..m
        BY <1>0, <1>1, <3>3
      <4>2. /\ s.next[c[i]] = IF i - 1 = P THEN e ELSE w[Ahead(w, i - 1)]
            /\ s.prev[c[i]] = IF i - 1 = Q THEN e ELSE w[Behind(w, i - 1)]
        BY <2>4, <4>1
      <4>3. s.next[c[i]] = c[Ahead(c, i)]
        BY <1>0, <1>1, <3>3, <4>1, <4>2 DEF Ahead
      <4>4. s.prev[c[i]] = c[Behind(c, i)]
        BY <1>0, <1>1, <2>1, <3>3, <4>1, <4>2 DEF Behind
      <4>5. QED
        BY <4>3, <4>4
    <3>4. QED
      BY <1>0, <3>1, <3>2, <3>3
  <2>6. s.head = c[1] /\ s.tail = c[m + 1]
    <3>1. s.head = (IF k = 1 THEN e ELSE w[1]) /\ s.tail = (IF k = m + 1 THEN e ELSE w[m])
      BY <1>2 DEF Joined
    <3>2. c[1] = IF k = 1 THEN e ELSE w[1]
      BY <1>0, <1>1
    <3>3. c[m + 1] = IF k = m + 1 THEN e ELSE w[m]
      BY <1>0, <1>1, <1>8
    <3>4. QED
      BY <3>1, <3>2, <3>3
  <2>7. Walks(s, c)
    BY <1>0, <1>1, <1>5, <1>6, <2>5, <2>6 DEF Walks
  <2>8. QED
    BY <1>0, <1>1, <1>2, <1>3, <2>7 DEF c
<1>9. QED
  BY <1>0, <1>7, <1>8

-----------------------------------------------------------------------------
(***************************************************************************)
(* The inductive invariant: some walk orders the cells, their names differ *)
(* and their counts do not fall; an LRU queue does not count.              *)
(***************************************************************************)
Whole(q) ==
    /\ q \in Queues
    /\ \E w : /\ Walks(q, w) /\ Lined(q, w)
              /\ ~lfu => \A i \in 1..Len(w) : q.freq[w[i]] = 0

AInv == lfu \in BOOLEAN /\ Whole(aged)

\* What stands in the places of w.
Row(q, w) == [i \in 1..Len(w) |-> [file |-> q.name[w[i]], uses |-> q.freq[w[i]]]]

Entries == [file : Files \cup {NULL}, uses : Nat]

LEMMA RowFacts ==
    ASSUME NEW q \in Queues, NEW w, Walks(q, w)
    PROVE  Row(q, w) \in Seq(Entries) /\ Len(Row(q, w)) = Len(w)
<1>1. Len(w) \in Nat /\ \A i \in 1..Len(w) : w[i] \in Cells
  BY LenProperties, ElementOfSeq DEF Walks
<1>2. Row(q, w) \in [1..Len(w) -> Entries]
  <2>1. ASSUME NEW i \in 1..Len(w)
        PROVE  [file |-> q.name[w[i]], uses |-> q.freq[w[i]]] \in Entries
    <3>1. q.name[w[i]] \in Files \cup {NULL} /\ q.freq[w[i]] \in Nat
      BY <1>1 DEF Queues
    <3>2. QED
      BY <3>1 DEF Entries
  <2>2. QED
    BY <2>1 DEF Row
<1>3. Row(q, w) \in Seq(Entries)
  BY <1>1, <1>2
<1>4. Len(Row(q, w)) = Len(w)
  <2>1. DOMAIN Row(q, w) = 1..Len(w) /\ DOMAIN Row(q, w) = 1..Len(Row(q, w))
        /\ Len(Row(q, w)) \in Nat
    BY <1>2, <1>3, LenProperties
  <2>2. QED
    BY <1>1, <2>1
<1>5. QED
  BY <1>3, <1>4

\* Cut and Put are what the community modules call RemoveAt and InsertAt.
LEMMA CutFacts ==
    ASSUME NEW S, NEW s \in Seq(S), NEW k \in 1..Len(s)
    PROVE  /\ RemoveAt(s, k) \in Seq(S) /\ Len(RemoveAt(s, k)) = Len(s) - 1
           /\ \A i \in 1..(Len(s) - 1) :
                 RemoveAt(s, k)[i] = IF i < k THEN s[i] ELSE s[i + 1]
<1> DEFINE l == Len(s)
           a == SubSeq(s, 1, k - 1)
           b == SubSeq(s, k + 1, l)
           r == RemoveAt(s, k)
<1>0. l \in Nat /\ k \in 1..l
  BY LenProperties
<1>1. a \in Seq(S) /\ Len(a) = k - 1 /\ \A i \in 1..(k - 1) : a[i] = s[i]
  BY <1>0, SubSeqProperties
<1>2. b \in Seq(S) /\ Len(b) = l - k /\ \A i \in 1..(l - k) : b[i] = s[k + i]
  <2>1. k + 1 \in 1..(l + 1) /\ l \in k..l
    BY <1>0
  <2>2. /\ b \in Seq(S)
        /\ Len(b) = IF k + 1 <= l THEN l - (k + 1) + 1 ELSE 0
        /\ \A i \in 1..(l - (k + 1) + 1) : b[i] = s[k + 1 + i - 1]
    BY <2>1, <1>0, SubSeqProperties
  <2> HIDE DEF b, l
  <2>3. QED
    BY <2>2, <1>0
<1>3. r = a \o b
  BY DEF RemoveAt
<1> HIDE DEF a, b, r
<1>4. r \in Seq(S) /\ Len(r) = l - 1
  <2>1. r \in Seq(S) /\ Len(r) = Len(a) + Len(b)
    BY <1>1, <1>2, <1>3, ConcatProperties
  <2> HIDE DEF l
  <2>2. QED
    BY <2>1, <1>0, <1>1, <1>2
<1>5. ASSUME NEW i \in 1..(l - 1)
      PROVE  r[i] = IF i < k THEN s[i] ELSE s[i + 1]
  <2>1. CASE i < k
    BY <2>1, <1>0, <1>1, <1>2, <1>3
  <2>2. CASE i >= k
    <3>1. r[i] = b[i - (k - 1)] /\ i - (k - 1) \in 1..(l - k)
      BY <2>2, <1>0, <1>1, <1>2, <1>3
    <3>2. k + (i - (k - 1)) = i + 1
      BY <1>0
    <3>3. QED
      BY <2>2, <3>1, <3>2, <1>2, <1>0
  <2>3. QED
    BY <2>1, <2>2, <1>0
<1>6. QED
  BY <1>4, <1>5 DEF r

LEMMA PutFacts ==
    ASSUME NEW S, NEW s \in Seq(S), NEW k \in 1..(Len(s) + 1), NEW e \in S
    PROVE  /\ InsertAt(s, k, e) \in Seq(S) /\ Len(InsertAt(s, k, e)) = Len(s) + 1
           /\ \A i \in 1..(Len(s) + 1) :
                 InsertAt(s, k, e)[i] =
                    IF i < k THEN s[i] ELSE IF i = k THEN e ELSE s[i - 1]
<1> DEFINE l == Len(s)
           a == SubSeq(s, 1, k - 1)
           b == SubSeq(s, k, l)
           t == a \o <<e>>
           r == InsertAt(s, k, e)
<1>0. l \in Nat /\ k \in 1..(l + 1)
  BY LenProperties
<1>1. a \in Seq(S) /\ Len(a) = k - 1 /\ \A i \in 1..(k - 1) : a[i] = s[i]
  BY <1>0, SubSeqProperties
<1>2. b \in Seq(S) /\ Len(b) = l - k + 1 /\ \A i \in 1..(l - k + 1) : b[i] = s[k + i - 1]
  <2>1. k \in 1..(l + 1) /\ l \in (k - 1)..l
    BY <1>0
  <2>2. /\ b \in Seq(S)
        /\ Len(b) = IF k <= l THEN l - k + 1 ELSE 0
        /\ \A i \in 1..(l - k + 1) : b[i] = s[k + i - 1]
    BY <2>1, <1>0, SubSeqProperties
  <2> HIDE DEF b, l
  <2>3. QED
    BY <2>2, <1>0
<1>3. r = t \o b
  BY DEF InsertAt
<1>4. t \in Seq(S) /\ Len(t) = k /\ t[k] = e /\ \A i \in 1..(k - 1) : t[i] = s[i]
  <2>1. t = Append(a, e)
    BY <1>1
  <2> HIDE DEF a, t
  <2>2. t \in Seq(S) /\ Len(t) = Len(a) + 1
        /\ \A i \in 1..(Len(a) + 1) : t[i] = IF i <= Len(a) THEN a[i] ELSE e
    BY <1>1, <2>1
  <2>3. QED
    BY <1>0, <1>1, <2>2
<1> HIDE DEF a, b, r, t
<1>5. r \in Seq(S) /\ Len(r) = l + 1
  <2>1. r \in Seq(S) /\ Len(r) = Len(t) + Len(b)
    BY <1>2, <1>3, <1>4, ConcatProperties
  <2> HIDE DEF l
  <2>2. QED
    BY <2>1, <1>0, <1>2, <1>4
<1>6. ASSUME NEW i \in 1..(l + 1)
      PROVE  r[i] = IF i < k THEN s[i] ELSE IF i = k THEN e ELSE s[i - 1]
  <2>1. CASE i <= k
    <3>1. r[i] = t[i]
      BY <2>1, <1>0, <1>2, <1>3, <1>4
    <3>2. QED
      BY <2>1, <3>1, <1>0, <1>4
  <2>2. CASE i > k
    <3>1. r[i] = b[i - k] /\ i - k \in 1..(l - k + 1)
      BY <2>2, <1>0, <1>2, <1>3, <1>4
    <3>2. k + (i - k) - 1 = i - 1
      BY <1>0
    <3>3. QED
      BY <2>2, <3>1, <3>2, <1>2, <1>0
  <2>3. QED
    BY <2>1, <2>2, <1>0
<1>7. QED
  BY <1>5, <1>6 DEF r

\* A freed cell leaves a whole queue, and its entry leaves the row.
LEMMA CutStays ==
    ASSUME NEW q \in Queues, NEW w, Walks(q, w), Lined(q, w), NEW k \in 1..Len(w),
           NEW r, Freed(q, r, w, k)
    PROVE  /\ r \in Queues /\ Walks(r, Cut(w, k)) /\ Lined(r, Cut(w, k))
           /\ \A i \in 1..Len(Cut(w, k)) : r.name[Cut(w, k)[i]] # q.name[w[k]]
           /\ ~lfu /\ (\A i \in 1..Len(w) : q.freq[w[i]] = 0)
                => \A i \in 1..Len(Cut(w, k)) : r.freq[Cut(w, k)[i]] = 0
           /\ Row(r, Cut(w, k)) = RemoveAt(Row(q, w), k)
<1> DEFINE m == Len(w)
           c == Cut(w, k)
<1>0. /\ m \in Nat /\ \A i \in 1..m : w[i] \in Cells
      /\ \A i \in 1..m : q.freq[w[i]] \in Nat
  BY LenProperties, ElementOfSeq DEF Walks, Queues
<1>1. /\ r \in Queues /\ Walks(r, c) /\ Len(c) = m - 1
      /\ \A i \in 1..m \ {k} : r.name[w[i]] = q.name[w[i]] /\ r.freq[w[i]] = q.freq[w[i]]
  <2>1. r \in Queues
    BY DEF Freed
  <2> HIDE DEF c
  <2>2. Walks(r, Cut(w, k)) /\ Len(Cut(w, k)) = Len(w) - 1
        /\ \A i \in 1..Len(w) \ {k} : r.name[w[i]] = q.name[w[i]] /\ r.freq[w[i]] = q.freq[w[i]]
    BY CutWalks
  <2>3. QED
    BY <2>1, <2>2 DEF c
<1>2. \A i \in 1..(m - 1) : c[i] = IF i < k THEN w[i] ELSE w[i + 1]
  BY DEF Cut
<1> HIDE DEF c
<1>3. \A i \in 1..(m - 1) :
         \E a \in 1..m \ {k} : /\ a = (IF i < k THEN i ELSE i + 1) /\ c[i] = w[a]
                               /\ r.name[c[i]] = q.name[w[a]] /\ r.freq[c[i]] = q.freq[w[a]]
  <2>1. ASSUME NEW i \in 1..(m - 1)
        PROVE  (IF i < k THEN i ELSE i + 1) \in 1..m \ {k}
    BY <1>0
  <2>2. QED
    BY <1>1, <1>2, <2>1
<1>4. Lined(r, c)
  <2>1. ASSUME NEW i \in 1..(m - 1), NEW j \in 1..(m - 1), r.name[c[i]] = r.name[c[j]]
        PROVE  i = j
    <3>1. PICK a \in 1..m \ {k} : a = (IF i < k THEN i ELSE i + 1) /\ r.name[c[i]] = q.name[w[a]]
      BY <1>3
    <3>2. PICK b \in 1..m \ {k} : b = (IF j < k THEN j ELSE j + 1) /\ r.name[c[j]] = q.name[w[b]]
      BY <1>3
    <3>3. a = b
      BY <2>1, <3>1, <3>2 DEF Lined
    <3>4. QED
      BY <1>0, <3>1, <3>2, <3>3
  <2>2. ASSUME NEW i \in 1..(m - 1), NEW j \in 1..(m - 1), i <= j
        PROVE  r.freq[c[i]] <= r.freq[c[j]]
    <3>1. PICK a \in 1..m \ {k} : a = (IF i < k THEN i ELSE i + 1) /\ r.freq[c[i]] = q.freq[w[a]]
      BY <1>3
    <3>2. PICK b \in 1..m \ {k} : b = (IF j < k THEN j ELSE j + 1) /\ r.freq[c[j]] = q.freq[w[b]]
      BY <1>3
    <3>3. a <= b
      BY <1>0, <2>2, <3>1, <3>2
    <3>4. QED
      BY <3>1, <3>2, <3>3 DEF Lined
  <2>3. QED
    BY <1>1, <2>1, <2>2 DEF Lined
<1>5. \A i \in 1..(m - 1) : r.name[c[i]] # q.name[w[k]]
  BY <1>3 DEF Lined
<1>6. (\A i \in 1..m : q.freq[w[i]] = 0) => \A i \in 1..(m - 1) : r.freq[c[i]] = 0
  BY <1>3
<1>7. Row(r, c) = RemoveAt(Row(q, w), k)
  <2>1. Row(q, w) \in Seq(Entries) /\ Len(Row(q, w)) = m
    BY RowFacts
  <2>2. Row(r, c) \in Seq(Entries) /\ Len(Row(r, c)) = m - 1
    BY <1>1, RowFacts
  <2>3. /\ RemoveAt(Row(q, w), k) \in Seq(Entries)
        /\ Len(RemoveAt(Row(q, w), k)) = m - 1
        /\ \A i \in 1..(m - 1) : RemoveAt(Row(q, w), k)[i] =
              IF i < k THEN Row(q, w)[i] ELSE Row(q, w)[i + 1]
    BY <2>1, CutFacts
  <2>4. ASSUME NEW i \in 1..(m - 1) PROVE Row(r, c)[i] = RemoveAt(Row(q, w), k)[i]
    <3>1. PICK a \in 1..m \ {k} : /\ a = (IF i < k THEN i ELSE i + 1)
                                  /\ r.name[c[i]] = q.name[w[a]] /\ r.freq[c[i]] = q.freq[w[a]]
      BY <1>3
    <3>2. RemoveAt(Row(q, w), k)[i] = Row(q, w)[a]
      BY <2>3, <3>1
    <3>3. QED
      BY <1>1, <3>1, <3>2 DEF Row
  <2>5. QED
    BY <2>2, <2>3, <2>4, SeqEqual
<1>8. QED
  BY <1>1, <1>4, <1>5, <1>6, <1>7 DEF c

\* A cell that joins in a place where it fits leaves a whole queue.
LEMMA PutStays ==
    ASSUME NEW q \in Queues, NEW w, Walks(q, w), Lined(q, w), lfu \in BOOLEAN,
           NEW e \in Cells, e \notin InUse(q), NEW f \in Files, NEW n \in Nat,
           \A i \in 1..Len(w) : q.name[w[i]] # f,
           ~lfu => n = 0 /\ \A i \in 1..Len(w) : q.freq[w[i]] = 0,
           NEW k, Fits(q, w, k, n),
           NEW r, Joined(q, r, w, k, e), NEW s, Named(r, s, e, f, n)
    PROVE  /\ s \in Queues /\ Walks(s, Put(w, k, e)) /\ Lined(s, Put(w, k, e))
           /\ ~lfu => \A i \in 1..Len(Put(w, k, e)) : s.freq[Put(w, k, e)[i]] = 0
           /\ Row(s, Put(w, k, e)) =
                 InsertAt(Row(q, w), k, [file |-> f, uses |-> n])
<1> DEFINE m == Len(w)
           c == Put(w, k, e)
           new == [file |-> f, uses |-> n]
<1>0. /\ m \in Nat /\ k \in 1..(m + 1) /\ \A i \in 1..m : w[i] \in Cells
      /\ \A i \in 1..m : q.freq[w[i]] \in Nat
  BY LenProperties, ElementOfSeq DEF Walks, Queues, Fits
<1>1. /\ s \in Queues /\ Walks(s, c) /\ Len(c) = m + 1
      /\ s.name[e] = f /\ s.freq[e] = n
      /\ \A i \in 1..m : s.name[w[i]] = q.name[w[i]] /\ s.freq[w[i]] = q.freq[w[i]]
  <2>1. k \in 1..(Len(w) + 1)
    BY <1>0
  <2> HIDE DEF c
  <2>2. QED
    BY <2>1, PutWalks DEF c
<1>2. \A i \in 1..(m + 1) : c[i] = IF i < k THEN w[i] ELSE IF i = k THEN e ELSE w[i - 1]
  BY DEF Put
<1> HIDE DEF c
<1>3. \A i \in 1..(m + 1) :
         \/ i = k /\ s.name[c[i]] = f /\ s.freq[c[i]] = n
         \/ \E a \in 1..m : /\ a = (IF i < k THEN i ELSE i - 1) /\ i # k
                            /\ s.name[c[i]] = q.name[w[a]] /\ s.freq[c[i]] = q.freq[w[a]]
  <2>1. ASSUME NEW i \in 1..(m + 1), i # k
        PROVE  (IF i < k THEN i ELSE i - 1) \in 1..m
    BY <1>0, <2>1
  <2>2. QED
    BY <1>0, <1>1, <1>2, <2>1
<1>4. \A a \in 1..m : (a < k => q.freq[w[a]] <= n) /\ (a >= k => n <= q.freq[w[a]])
  BY <1>0 DEF Fits
<1>5. Lined(s, c)
  <2>1. ASSUME NEW i \in 1..(m + 1), NEW j \in 1..(m + 1), s.name[c[i]] = s.name[c[j]]
        PROVE  i = j
    <3>1. CASE i = k \/ j = k
      BY <1>3, <2>1, <3>1
    <3>2. CASE i # k /\ j # k
      <4>1. PICK a \in 1..m : a = (IF i < k THEN i ELSE i - 1) /\ s.name[c[i]] = q.name[w[a]]
        BY <1>3, <3>2
      <4>2. PICK b \in 1..m : b = (IF j < k THEN j ELSE j - 1) /\ s.name[c[j]] = q.name[w[b]]
        BY <1>3, <3>2
      <4>3. a = b
        BY <2>1, <4>1, <4>2 DEF Lined
      <4>4. QED
        BY <1>0, <3>2, <4>1, <4>2, <4>3
    <3>3. QED
      BY <3>1, <3>2
  <2>2. ASSUME NEW i \in 1..(m + 1), NEW j \in 1..(m + 1), i <= j
        PROVE  s.freq[c[i]] <= s.freq[c[j]]
    BY <1>0, <1>3, <1>4, <2>2 DEF Lined
  <2>3. QED
    BY <1>1, <2>1, <2>2 DEF Lined
<1>6. ~lfu => \A i \in 1..(m + 1) : s.freq[c[i]] = 0
  BY <1>3
<1>7. Row(s, c) = InsertAt(Row(q, w), k, new)
  <2>1. Row(q, w) \in Seq(Entries) /\ Len(Row(q, w)) = m /\ new \in Entries
    BY RowFacts DEF Entries
  <2>2. Row(s, c) \in Seq(Entries) /\ Len(Row(s, c)) = m + 1
    BY <1>1, RowFacts
  <2> HIDE DEF new
  <2>3. /\ InsertAt(Row(q, w), k, new) \in Seq(Entries)
        /\ Len(InsertAt(Row(q, w), k, new)) = m + 1
        /\ \A i \in 1..(m + 1) : InsertAt(Row(q, w), k, new)[i] =
              IF i < k THEN Row(q, w)[i] ELSE IF i = k THEN new ELSE Row(q, w)[i - 1]
    <3>1. k \in 1..(Len(Row(q, w)) + 1)
      BY <1>0, <2>1
    <3>2. QED
      BY <2>1, <3>1, PutFacts
  <2>4. ASSUME NEW i \in 1..(m + 1)
        PROVE  Row(s, c)[i] = InsertAt(Row(q, w), k, new)[i]
    <3>1. Row(s, c)[i] = [file |-> s.name[c[i]], uses |-> s.freq[c[i]]]
      BY <1>1 DEF Row
    <3>2. CASE i = k
      BY <1>3, <2>3, <3>1, <3>2 DEF new
    <3>3. CASE i # k
      <4>1. PICK a \in 1..m : /\ a = (IF i < k THEN i ELSE i - 1)
                              /\ s.name[c[i]] = q.name[w[a]] /\ s.freq[c[i]] = q.freq[w[a]]
        BY <1>3, <3>3
      <4>2. InsertAt(Row(q, w), k, new)[i] = Row(q, w)[a]
        BY <2>3, <3>3, <4>1
      <4>3. QED
        BY <3>1, <4>1, <4>2 DEF Row
    <3>4. QED
      BY <3>2, <3>3
  <2>5. QED
    BY <2>2, <2>3, <2>4, SeqEqual
<1>8. QED
  BY <1>1, <1>5, <1>6, <1>7 DEF c, new

\* On a whole queue the walk of the model is any walk that orders the cells.
LEMMA LineIsRow ==
    ASSUME NEW q, NEW w, Walks(q, w)
    PROVE  [i \in DOMAIN Order(q) |-> [file |-> q.name[Order(q)[i]],
                                       uses |-> q.freq[Order(q)[i]]]] = Row(q, w)
<1>1. Order(q) = w /\ DOMAIN w = 1..Len(w)
  BY WalkIsOrder, LenProperties DEF Walks
<1>2. QED
  BY <1>1 DEF Row

\* The queue without the file, its row, and the count the file gets when it
\* is used: what AgeOrder says of them.
LEMMA WithoutFile ==
    ASSUME AInv, NEW f \in Files
    PROVE  /\ Frequency(f) \in Nat /\ (~lfu => Frequency(f) = 0)
           /\ Frequency(f) = ByAge!Uses(f)
           /\ rmelem_lru(aged, f) \in Queues
           /\ InUse(rmelem_lru(aged, f)) \subseteq InUse(aged)
           /\ \E w : /\ Walks(rmelem_lru(aged, f), w)
                     /\ Lined(rmelem_lru(aged, f), w)
                     /\ \A i \in 1..Len(w) : rmelem_lru(aged, f).name[w[i]] # f
                     /\ ~lfu => \A i \in 1..Len(w) : rmelem_lru(aged, f).freq[w[i]] = 0
                     /\ Row(rmelem_lru(aged, f), w) = ByAge!Without(f)
<1> DEFINE r == rmelem_lru(aged, f)
<1>1. aged \in Queues /\ lfu \in BOOLEAN
  BY DEF AInv, Whole
<1>2. PICK w : /\ Walks(aged, w) /\ Lined(aged, w)
               /\ ~lfu => \A i \in 1..Len(w) : aged.freq[w[i]] = 0
  BY DEF AInv, Whole
<1>3. /\ Len(w) \in Nat
      /\ \A i \in 1..Len(w) : /\ w[i] \in Cells /\ w[i] # NULL
                              /\ aged.freq[w[i]] \in Nat
  BY <1>1, <1>2, LenProperties, ElementOfSeq, NullAssumption DEF Walks, Queues
<1>4. Line = Row(aged, w)
  BY <1>2, LineIsRow DEF Line
<1>5. ByAge!Positions(f) = {i \in 1..Len(w) : aged.name[w[i]] = f}
  BY <1>4 DEF ByAge!Positions, Row
<1>6. CASE \A i \in 1..Len(w) : aged.name[w[i]] # f
  <2>1. findelem_lru(aged, f) = NULL /\ r = aged
    BY <1>1, <1>2, <1>6, FoundIsHolder, FileFreed
  <2>2. ByAge!Positions(f) = {}
    BY <1>5, <1>6
  <2>3. Frequency(f) = IF ~lfu THEN 0 ELSE 1
    BY <2>1 DEF Frequency
  <2>4. ByAge!Uses(f) = Frequency(f) /\ ByAge!Without(f) = Line
    BY <2>2, <2>3 DEF ByAge!Uses, ByAge!Without
  <2> HIDE DEF r
  <2>5. r \in Queues /\ InUse(r) \subseteq InUse(aged) /\ Walks(r, w) /\ Lined(r, w)
        /\ (\A i \in 1..Len(w) : r.name[w[i]] # f)
        /\ (~lfu => \A i \in 1..Len(w) : r.freq[w[i]] = 0)
        /\ Row(r, w) = ByAge!Without(f)
    BY <1>1, <1>2, <1>4, <1>6, <2>1, <2>4
  <2>6. QED
    BY <2>3, <2>4, <2>5 DEF r
<1>7. CASE \E k \in 1..Len(w) : aged.name[w[k]] = f
  <2>1. PICK k \in 1..Len(w) : aged.name[w[k]] = f
    BY <1>7
  <2>2. findelem_lru(aged, f) = w[k] /\ Freed(aged, r, w, k)
    BY <1>1, <1>2, <2>1, FoundIsHolder, FileFreed
  <2>3. ByAge!Positions(f) = {k}
    BY <1>2, <1>5, <2>1 DEF Lined
  <2>4. ByAge!Position(f) = k
    BY <2>3 DEF ByAge!Position
  <2>5. Frequency(f) = IF ~lfu THEN 0 ELSE aged.freq[w[k]] + 1
    BY <1>3, <2>2 DEF Frequency
  <2>6. Line[k].uses = aged.freq[w[k]]
    BY <1>4, <2>1 DEF Row
  <2>7. ByAge!Uses(f) = Frequency(f) /\ ByAge!Without(f) = RemoveAt(Line, k)
    <3>1. ByAge!Positions(f) # {}
      BY <2>3
    <3>2. ByAge!Uses(f) = IF ~lfu THEN 0 ELSE Line[k].uses + 1
      BY <2>4, <3>1 DEF ByAge!Uses
    <3>3. ByAge!Without(f) = RemoveAt(Line, k)
      BY <2>4, <3>1 DEF ByAge!Without, ByAge!RemoveAt, RemoveAt
    <3>4. QED
      BY <2>5, <2>6, <3>2, <3>3
  <2> HIDE DEF r
  <2>8. /\ r \in Queues /\ Walks(r, Cut(w, k)) /\ Lined(r, Cut(w, k))
        /\ \A i \in 1..Len(Cut(w, k)) : r.name[Cut(w, k)[i]] # f
        /\ ~lfu => \A i \in 1..Len(Cut(w, k)) : r.freq[Cut(w, k)[i]] = 0
        /\ Row(r, Cut(w, k)) = RemoveAt(Row(aged, w), k)
    BY <1>1, <1>2, <2>1, <2>2, CutStays
  <2>9. InUse(r) \subseteq InUse(aged)
    <3>1. r.name = [aged.name EXCEPT ![w[k]] = NULL]
      BY <2>2 DEF Freed
    <3>2. aged.name \in [Cells -> Files \cup {NULL}] /\ w[k] \in Cells
      BY <1>1, <1>3 DEF Queues
    <3>3. QED
      BY <3>1, <3>2 DEF InUse
  <2>10. Frequency(f) \in Nat /\ (~lfu => Frequency(f) = 0)
    BY <1>3, <2>5
  <2>11. QED
    BY <1>4, <2>7, <2>8, <2>9, <2>10 DEF r
<1>8. QED
  BY <1>6, <1>7

LEMMA AgedInitially == AgedInit => AInv /\ ByAge!OInit
<1> SUFFICES ASSUME AgedInit PROVE AInv /\ ByAge!OInit
  OBVIOUS
<1>1. aged \in Queues /\ lfu \in BOOLEAN /\ InUse(aged) = {}
      /\ aged.head = NULL /\ aged.tail = NULL
  BY DEF AgedInit, EmptyQueue, Queues, InUse
<1>2. << >> \in Seq(Cells) /\ Len(<< >>) = 0
  BY EmptySeq
<1>3. Walks(aged, << >>) /\ Lined(aged, << >>)
  BY <1>1, <1>2 DEF Walks, Lined
<1>4. AInv
  BY <1>1, <1>2, <1>3 DEF AInv, Whole
<1>5. Line = << >>
  <2>1. Line = Row(aged, << >>)
    BY <1>3, LineIsRow DEF Line
  <2>2. QED
    BY <2>1 DEF Row
<1>6. ByAge!OInit
  BY <1>5 DEF AgedInit, ByAge!OInit
<1>7. QED
  BY <1>4, <1>6

LEMMA MountStep == AInv /\ Mount => AInv' /\ ByAge!Restart
<1> SUFFICES ASSUME AInv, Mount PROVE AInv' /\ ByAge!Restart
  OBVIOUS
<1>1. aged' \in Queues /\ lfu' = lfu /\ lfu \in BOOLEAN /\ InUse(aged') = {}
      /\ aged'.head = NULL /\ aged'.tail = NULL /\ moved' = NULL
  BY DEF AInv, Mount, EmptyQueue, Queues, InUse
<1>2. << >> \in Seq(Cells) /\ Len(<< >>) = 0
  BY EmptySeq
<1>3. Walks(aged', << >>) /\ Lined(aged', << >>)
  BY <1>1, <1>2 DEF Walks, Lined
<1>4. AInv'
  BY <1>1, <1>2, <1>3 DEF AInv, Whole
<1>5. Line' = << >>
  <2>1. Line' = Row(aged', << >>)
    BY <1>3, LineIsRow DEF Line
  <2>2. QED
    BY <2>1 DEF Row
<1>6. ByAge!Restart
  BY <1>1, <1>5 DEF ByAge!Restart
<1>7. QED
  BY <1>4, <1>6

LEMMA RmelemStep == ASSUME NEW f \in Files PROVE AInv /\ Rmelem(f) => AInv' /\ ByAge!Leave(f)
<1> SUFFICES ASSUME AInv, Rmelem(f) PROVE AInv' /\ ByAge!Leave(f)
  OBVIOUS
<1>1. aged' = rmelem_lru(aged, f) /\ lfu' = lfu /\ moved' = moved /\ lfu \in BOOLEAN
  BY DEF Rmelem, AInv
<1>2. PICK w : /\ Walks(aged', w) /\ Lined(aged', w)
               /\ ~lfu => \A i \in 1..Len(w) : aged'.freq[w[i]] = 0
               /\ Row(aged', w) = ByAge!Without(f)
  BY <1>1, WithoutFile
<1>3. AInv'
  <2>1. aged' \in Queues
    BY <1>1, WithoutFile
  <2>2. QED
    BY <1>1, <1>2, <2>1 DEF AInv, Whole
<1>4. Line' = ByAge!Without(f)
  BY <1>2, LineIsRow DEF Line
<1>5. QED
  BY <1>1, <1>3, <1>4 DEF ByAge!Leave

LEMMA InsqueStep == ASSUME NEW f \in Files PROVE AInv /\ Insque(f) => AInv' /\ ByAge!Use(f)
<1> SUFFICES ASSUME AInv, Insque(f) PROVE AInv' /\ ByAge!Use(f)
  OBVIOUS
<1> DEFINE r == rmelem_lru(aged, f)
           n == Frequency(f)
           new == [file |-> f, uses |-> n]
<1>1. PICK e \in Cells \ InUse(aged) :
         aged' = [Place(r, e, n) EXCEPT !.name[e] = f, !.freq[e] = n]
  BY DEF Insque
<1>2. lfu' = lfu /\ moved' = moved /\ lfu \in BOOLEAN
  BY DEF Insque, AInv
<1>3. /\ n \in Nat /\ (~lfu => n = 0) /\ n = ByAge!Uses(f)
      /\ r \in Queues /\ e \notin InUse(r)
  BY <1>1, WithoutFile
<1>4. PICK w : /\ Walks(r, w) /\ Lined(r, w)
               /\ \A i \in 1..Len(w) : r.name[w[i]] # f
               /\ ~lfu => \A i \in 1..Len(w) : r.freq[w[i]] = 0
               /\ Row(r, w) = ByAge!Without(f)
  BY WithoutFile
<1> HIDE DEF r, n
<1>5. PICK k : Fits(r, w, k, n)
  BY <1>3, <1>4, SomePlaceFits
<1>6. /\ aged' \in Queues /\ Walks(aged', Put(w, k, e)) /\ Lined(aged', Put(w, k, e))
      /\ ~lfu => \A i \in 1..Len(Put(w, k, e)) : aged'.freq[Put(w, k, e)[i]] = 0
      /\ Row(aged', Put(w, k, e)) = InsertAt(Row(r, w), k, new)
  <2> DEFINE p == Place(r, e, n)
  <2>1. Joined(r, p, w, k, e)
    BY <1>2, <1>3, <1>4, <1>5, PlaceJoins
  <2>2. aged' = [p EXCEPT !.name[e] = f, !.freq[e] = n]
    BY <1>1
  <2> HIDE DEF p
  <2>3. Named(p, aged', e, f, n)
    BY <1>3, <2>1, <2>2 DEF Named, Joined, Queues
  <2>4. QED
    BY <1>2, <1>3, <1>4, <1>5, <2>1, <2>3, PutStays
<1>7. AInv'
  BY <1>2, <1>6 DEF AInv, Whole
<1>8. Line' = InsertAt(ByAge!Without(f), k, [file |-> f, uses |-> ByAge!Uses(f)])
  <2>1. Line' = Row(aged', Put(w, k, e))
    BY <1>6, LineIsRow DEF Line
  <2>2. QED
    BY <1>3, <1>4, <1>6, <2>1
<1>9. /\ k \in 1..(Len(ByAge!Without(f)) + 1)
      /\ \A i \in DOMAIN ByAge!Without(f) :
            ByAge!Without(f)[i].uses <= ByAge!Uses(f) <=> i < k
  <2>1. Len(Row(r, w)) = Len(w) /\ DOMAIN Row(r, w) = 1..Len(w) /\ Len(w) \in Nat
    BY <1>3, <1>4, RowFacts, LenProperties DEF Row, Walks
  <2>2. k \in 1..(Len(w) + 1)
    BY <1>5 DEF Fits
  <2>3. ASSUME NEW i \in 1..Len(w) PROVE r.freq[w[i]] <= n <=> i < k
    BY <1>2, <1>3, <1>4, <1>5, <2>1, <2>3 DEF Fits
  <2>4. \A i \in 1..Len(w) : Row(r, w)[i].uses = r.freq[w[i]]
    BY DEF Row
  <2>5. \A i \in DOMAIN Row(r, w) : Row(r, w)[i].uses <= n <=> i < k
    BY <2>1, <2>3, <2>4
  <2>6. QED
    BY <1>3, <1>4, <2>1, <2>2, <2>5
<1>10. ByAge!Use(f)
  BY <1>2, <1>8, <1>9 DEF ByAge!Use, ByAge!InsertAt, InsertAt
<1>11. QED
  BY <1>7, <1>10

LEMMA EvictStep == AInv /\ Evict => AInv' /\ ByAge!EvictFront
<1> SUFFICES ASSUME AInv, Evict PROVE AInv' /\ ByAge!EvictFront
  OBVIOUS
<1>1. aged \in Queues /\ lfu \in BOOLEAN /\ lfu' = lfu
      /\ aged.head # NULL /\ aged' = remque_lru(aged)
      /\ moved' = aged.name[aged.head]
  BY DEF AInv, Whole, Evict
<1>2. PICK w : /\ Walks(aged, w) /\ Lined(aged, w)
               /\ ~lfu => \A i \in 1..Len(w) : aged.freq[w[i]] = 0
  BY DEF AInv, Whole
<1>3. Len(w) \in Nat /\ Len(w) > 0 /\ aged.head = w[1] /\ 1 \in 1..Len(w)
  BY <1>1, <1>2, LenProperties DEF Walks
<1>4. Freed(aged, aged', w, 1)
  BY <1>1, <1>2, <1>3, HeadFreed
<1>5. /\ aged' \in Queues /\ Walks(aged', Cut(w, 1)) /\ Lined(aged', Cut(w, 1))
      /\ ~lfu => \A i \in 1..Len(Cut(w, 1)) : aged'.freq[Cut(w, 1)[i]] = 0
      /\ Row(aged', Cut(w, 1)) = RemoveAt(Row(aged, w), 1)
  BY <1>1, <1>2, <1>3, <1>4, CutStays
<1>6. AInv'
  BY <1>1, <1>5 DEF AInv, Whole
<1>7. Line = Row(aged, w) /\ Line' = Row(aged', Cut(w, 1))
  BY <1>2, <1>5, LineIsRow DEF Line
<1>8. Row(aged, w) \in Seq(Entries) /\ Len(Row(aged, w)) = Len(w)
  BY <1>1, <1>2, RowFacts
<1>9. RemoveAt(Row(aged, w), 1) = Tail(Row(aged, w))
  <2> DEFINE s == Row(aged, w)
  <2> HIDE DEF s
  <2>1. s \in Seq(Entries) /\ Len(s) > 0 /\ Len(s) \in Nat /\ 1 \in 1..Len(s)
    BY <1>3, <1>8 DEF s
  <2>2. /\ RemoveAt(s, 1) \in Seq(Entries) /\ Len(RemoveAt(s, 1)) = Len(s) - 1
        /\ \A i \in 1..(Len(s) - 1) :
              RemoveAt(s, 1)[i] = IF i < 1 THEN s[i] ELSE s[i + 1]
    BY <2>1, CutFacts
  <2>3. Tail(s) \in Seq(Entries) /\ Len(Tail(s)) = Len(s) - 1
        /\ \A i \in 1..(Len(s) - 1) : Tail(s)[i] = s[i + 1]
    BY <2>1
  <2>4. \A i \in 1..Len(Tail(s)) : RemoveAt(s, 1)[i] = Tail(s)[i]
    BY <2>1, <2>2, <2>3
  <2>5. RemoveAt(s, 1) = Tail(s)
    BY <2>2, <2>3, <2>4, SeqEqual
  <2>6. QED
    BY <2>5 DEF s
<1>10. Line # << >> /\ Head(Line).file = aged.name[w[1]]
  <2>1. Row(aged, w)[1].file = aged.name[w[1]]
    BY <1>3 DEF Row
  <2>2. Row(aged, w) # << >> /\ Head(Row(aged, w)) = Row(aged, w)[1]
    BY <1>3, <1>8, EmptySeq
  <2>3. QED
    BY <1>7, <2>1, <2>2
<1>11. ByAge!EvictFront
  BY <1>1, <1>3, <1>5, <1>7, <1>9, <1>10 DEF ByAge!EvictFront
<1>12. QED
  BY <1>6, <1>11

LEMMA AgedStep ==
    AInv /\ [AgedNext]_agedvars => AInv' /\ [ByAge!ONext]_(ByAge!ovars)
<1> SUFFICES ASSUME AInv, [AgedNext]_agedvars
             PROVE  AInv' /\ [ByAge!ONext]_(ByAge!ovars)
  OBVIOUS
<1>1. CASE Mount
  BY <1>1, MountStep DEF ByAge!ONext
<1>2. CASE Evict
  BY <1>2, EvictStep DEF ByAge!ONext
<1>3. CASE \E f \in Files : Insque(f) \/ Rmelem(f)
  BY <1>3, InsqueStep, RmelemStep DEF ByAge!ONext
<1>4. CASE UNCHANGED agedvars
  <2>1. aged' = aged /\ lfu' = lfu /\ moved' = moved
    BY <1>4 DEF agedvars
  <2>2. AInv'
    BY <2>1 DEF AInv, Whole
  <2>3. Line' = Line
    BY <2>1 DEF Line
  <2>4. QED
    BY <2>1, <2>2, <2>3 DEF ByAge!ovars
<1>5. QED
  BY <1>1, <1>2, <1>3, <1>4 DEF AgedNext

\* The list is a whole cycle.
LEMMA AgedWhole == AInv => AgedListIntact
<1> SUFFICES ASSUME AInv PROVE AgedListIntact
  OBVIOUS
<1>1. PICK w : Walks(aged, w) /\ Lined(aged, w)
  BY DEF AInv, Whole
<1>2. /\ Len(w) \in Nat /\ DOMAIN w = 1..Len(w)
      /\ \A i \in 1..Len(w) : w[i] # NULL
  BY <1>1, LenProperties, ElementOfSeq, NullAssumption DEF Walks
<1>3. Order(aged) = w
  BY <1>1, WalkIsOrder
<1>4. CASE Len(w) = 0
  <2>1. aged.head = NULL /\ aged.tail = NULL /\ InUse(aged) = {}
    BY <1>1, <1>4 DEF Walks
  <2>2. QED
    BY <2>1 DEF AgedListIntact
<1>5. CASE Len(w) > 0
  <2>1. 1 \in 1..Len(w) /\ Len(w) \in 1..Len(w)
    BY <1>2, <1>5
  <2>2. aged.head = w[1] /\ aged.tail = w[Len(w)] /\ aged.head # NULL
    BY <1>1, <1>2, <1>5, <2>1 DEF Walks
  <2>3. aged.next[aged.tail] = aged.head
    BY <1>1, <2>1, <2>2 DEF Walks, Ahead
  <2>4. ToSet(w) = InUse(aged)
    BY <1>1, <1>2 DEF Walks, ToSet
  <2>5. ASSUME NEW c \in InUse(aged) PROVE aged.prev[aged.next[c]] = c
    <3>1. PICK i \in 1..Len(w) : c = w[i]
      BY <1>1 DEF Walks
    <3>2. Ahead(w, i) \in 1..Len(w) /\ Behind(w, Ahead(w, i)) = i
      <4>1. CASE i = Len(w)
        BY <2>1, <4>1 DEF Ahead, Behind
      <4>2. CASE i # Len(w)
        <5>1. Ahead(w, i) = i + 1
          BY <4>2 DEF Ahead
        <5>2. Len(w) \in Nat
          BY <1>2
        <5>3. i + 1 \in 1..Len(w) /\ i + 1 # 1 /\ i + 1 - 1 = i
          BY <4>2, <5>2
        <5>4. QED
          BY <5>1, <5>3 DEF Behind
      <4>3. QED
        BY <4>1, <4>2
    <3>3. QED
      BY <1>1, <3>1, <3>2 DEF Walks
  <2>6. ASSUME NEW c \in InUse(aged), NEW d \in InUse(aged), aged.name[c] = aged.name[d]
        PROVE  c = d
    <3>1. PICK i \in 1..Len(w) : c = w[i]
      BY <1>1 DEF Walks
    <3>2. PICK j \in 1..Len(w) : d = w[j]
      BY <1>1 DEF Walks
    <3>3. QED
      BY <1>1, <2>6, <3>1, <3>2 DEF Lined
  <2>7. \A i, j \in DOMAIN w : i < j => aged.freq[w[i]] <= aged.freq[w[j]]
    BY <1>1, <1>2 DEF Lined
  <2>8. QED
    BY <1>3, <2>2, <2>3, <2>4, <2>5, <2>6, <2>7 DEF AgedListIntact
<1>6. QED
  BY <1>2, <1>4, <1>5

\* The list of the LRU or LFU queue is always one cycle in both directions,
\* without a file twice and in the order of its counts (util.c).
THEOREM AgedListAlwaysIntact == AgedSpec => []AgedListIntact
  BY AgedInitially, AgedStep, AgedWhole, PTL DEF AgedSpec

\* The linked list, pointer by pointer, implements the line of its policy
\* (insque_lru, insque_lfu, get_pos_lfu, rmelem_lru, remque_lru).
THEOREM AgedQueueImplementsAgeOrder == AgedSpec => ImplementsAgeOrder
  BY AgedInitially, AgedStep, PTL DEF AgedSpec, ImplementsAgeOrder, ByAge!OSpec

-----------------------------------------------------------------------------
(***************************************************************************)
(* The clock queue as the line of SecondChance. The sequence w of cells    *)
(* from the hand on is a turn of the cycle: a new cell comes at its end,   *)
(* before the hand or, when there is none yet, at the tail; rem_Q cuts one *)
(* out; and a hand that moves on sends the first cell to the end.          *)
(***************************************************************************)
\* What the cells of w hold.
Held(w, nm, rf) == [i \in 1..Len(w) |-> [file |-> nm[w[i]], bit |-> rf[w[i]]]]

CInv == IInv /\ \E w : Turn(Hand, Live, next, w)

LEMMA RingIsHeld ==
    ASSUME NEW w, Turn(Hand, Live, next, w)
    PROVE  Ring = Held(w, name, ref)
<1> DEFINE n == Len(w)
           Step(a) == Steps(n, Hand, next, a)
<1>0. Cardinality(Live) = n /\ w = Step(w) /\ \A a : a = Step(a) => a = w
  BY OneWalk
<1>1. FromHand = w
  <2>1. FromHand = CHOOSE at : at = Step(at)
    BY <1>0 DEF FromHand, Steps
  <2>2. FromHand = Step(FromHand)
    BY <1>0, <2>1
  <2>3. QED
    BY <1>0, <2>2
<1>2. DOMAIN w = 1..Len(w)
  BY LenProperties DEF Turn
<1>3. QED
  BY <1>1, <1>2 DEF Ring, Held

LEMMA RingIsHeldNext ==
    ASSUME NEW w, Turn(Hand', Live', next', w)
    PROVE  Ring' = Held(w, name', ref')
<1> DEFINE n == Len(w)
           Step(a) == Steps(n, Hand', next', a)
<1>0. Cardinality(Live') = n /\ w = Step(w) /\ \A a : a = Step(a) => a = w
  BY OneWalk
<1>1. FromHand' = w
  <2>1. FromHand' = CHOOSE at : at = Step(at)
    BY <1>0 DEF FromHand, Steps
  <2>2. FromHand' = Step(FromHand')
    BY <1>0, <2>1
  <2>3. QED
    BY <1>0, <2>2
<1>2. DOMAIN w = 1..Len(w)
  BY LenProperties DEF Turn
<1>3. QED
  BY <1>1, <1>2 DEF Ring, Held

LEMMA TurnFacts ==
    ASSUME NEW h, NEW L, NEW nx, NEW w, Turn(h, L, nx, w)
    PROVE  /\ Len(w) \in Nat /\ w \in [1..Len(w) -> Cells]
           /\ \A i \in 1..Len(w) : w[i] \in Cells /\ w[i] \in L
           /\ \A c \in L : \E i \in 1..Len(w) : w[i] = c
  BY LenProperties, ElementOfSeq DEF Turn

\* Tail is a cut of the first element.
LEMMA TailIsCut ==
    ASSUME NEW S, NEW s \in Seq(S), Len(s) > 0
    PROVE  Tail(s) = RemoveAt(s, 1)
<1>0. Len(s) \in Nat /\ s # <<>> /\ 1 \in 1..Len(s)
  BY LenProperties
<1>1. Tail(s) \in Seq(S) /\ Len(Tail(s)) = Len(s) - 1
      /\ \A i \in 1..Len(Tail(s)) : Tail(s)[i] = s[i + 1]
  BY <1>0, HeadTailProperties
<1>2. /\ RemoveAt(s, 1) \in Seq(S) /\ Len(RemoveAt(s, 1)) = Len(s) - 1
      /\ \A i \in 1..(Len(s) - 1) :
            RemoveAt(s, 1)[i] = IF i < 1 THEN s[i] ELSE s[i + 1]
  BY <1>0, CutFacts
<1>3. \A i \in 1..Len(Tail(s)) : Tail(s)[i] = RemoveAt(s, 1)[i]
  BY <1>0, <1>1, <1>2
<1>4. QED
  BY <1>1, <1>2, <1>3, SeqEqual

\* A cell linked between the last and the first comes at the end of the turn.
LEMMA TurnGrows ==
    ASSUME NEW h, NEW L, NEW nx, NEW w, Turn(h, L, nx, w), Len(w) > 0,
           NEW e \in Cells \ L, NEW r,
           r[w[Len(w)]] = e, r[e] = h,
           \A c \in L : c # w[Len(w)] => r[c] = nx[c]
    PROVE  Turn(h, L \cup {e}, r, Append(w, e))
<1> DEFINE n == Len(w)
           a == Append(w, e)
<1>0. /\ n \in Nat /\ w \in Seq(Cells) /\ e \in Cells /\ e \notin L
      /\ \A i \in 1..n : w[i] \in L
  BY TurnFacts DEF Turn
<1>1. /\ a \in Seq(Cells) /\ Len(a) = n + 1
      /\ \A i \in 1..n : a[i] = w[i]
      /\ a[n + 1] = e
  BY <1>0, AppendProperties
<1> HIDE DEF a
<1>2. \A i, j \in 1..(n + 1) : a[i] = a[j] => i = j
  <2>1. \A i, j \in 1..n : a[i] = a[j] => i = j
    BY <1>1 DEF Turn
  <2>2. \A i \in 1..n : a[i] # a[n + 1]
    BY <1>0, <1>1
  <2>3. QED
    BY <1>0, <2>1, <2>2
<1>3. L \cup {e} = {a[i] : i \in 1..(n + 1)}
  <2>1. L = {w[i] : i \in 1..n}
    BY DEF Turn
  <2>2. \A c \in L : \E i \in 1..(n + 1) : c = a[i]
    BY <1>0, <1>1, <2>1
  <2>3. \A i \in 1..(n + 1) : a[i] \in L \cup {e}
    BY <1>0, <1>1
  <2>4. n + 1 \in 1..(n + 1)
    BY <1>0
  <2>5. QED
    BY <1>1, <2>2, <2>3, <2>4
<1>4. ASSUME NEW i \in 1..(n + 1) PROVE r[a[i]] = a[Ahead(a, i)]
  <2>1. CASE i = n + 1
    BY <1>0, <1>1, <2>1 DEF Turn, Ahead
  <2>2. CASE i = n
    BY <1>0, <1>1, <2>2 DEF Ahead
  <2>3. CASE i < n
    <3>1. i \in 1..n /\ i + 1 \in 1..n /\ n \in 1..n /\ i # n
      BY <1>0, <2>3
    <3>2. w[i] \in L /\ w[i] # w[n]
      BY <1>0, <3>1 DEF Turn
    <3>3. r[w[i]] = w[i + 1]
      BY <3>1, <3>2 DEF Turn, Ahead
    <3>4. QED
      BY <1>0, <1>1, <2>3, <3>1, <3>3 DEF Ahead
  <2>4. QED
    BY <1>0, <2>1, <2>2, <2>3
<1>5. h = a[1]
  BY <1>0, <1>1 DEF Turn
<1>6. Turn(h, L \cup {e}, r, a)
  BY <1>1, <1>2, <1>3, <1>4, <1>5 DEF Turn
<1>7. QED
  BY <1>6 DEF a

\* A cell unlinked leaves the turn; a hand on it has moved on.
LEMMA TurnShrinks ==
    ASSUME NEW h, NEW L, NEW nx, NEW w, Turn(h, L, nx, w), Len(w) > 1,
           NEW k \in 1..Len(w), NEW r,
           r[w[Behind(w, k)]] = nx[w[k]],
           \A c \in L : c # w[k] /\ c # w[Behind(w, k)] => r[c] = nx[c]
    PROVE  Turn(IF h = w[k] THEN nx[h] ELSE h, L \ {w[k]}, r, RemoveAt(w, k))
<1> DEFINE n == Len(w)
           a == RemoveAt(w, k)
<1>0. /\ n \in Nat /\ w \in Seq(Cells) /\ h = w[1] /\ L = {w[i] : i \in 1..n}
      /\ \A i \in 1..n : w[i] \in L
      /\ \A i, j \in 1..n : w[i] = w[j] => i = j
      /\ \A i \in 1..n : nx[w[i]] = w[Ahead(w, i)]
  BY TurnFacts DEF Turn
<1>1. /\ a \in Seq(Cells) /\ Len(a) = n - 1
      /\ \A i \in 1..(n - 1) : a[i] = IF i < k THEN w[i] ELSE w[i + 1]
  BY <1>0, CutFacts
<1> HIDE DEF a
<1>2. \A i, j \in 1..(n - 1) : a[i] = a[j] => i = j
  <2>1. \A i \in 1..(n - 1) : \E b \in 1..n : a[i] = w[b] /\ b = IF i < k THEN i ELSE i + 1
    BY <1>0, <1>1
  <2>2. QED
    BY <1>0, <2>1
<1>3. L \ {w[k]} = {a[i] : i \in 1..(n - 1)}
  <2>1. ASSUME NEW i \in 1..(n - 1) PROVE a[i] \in L \ {w[k]}
    <3>1. \E b \in 1..n : a[i] = w[b] /\ b # k
      BY <1>0, <1>1
    <3>2. QED
      BY <1>0, <3>1
  <2>2. ASSUME NEW j \in 1..n, j # k PROVE \E i \in 1..(n - 1) : a[i] = w[j]
    <3>1. CASE j < k
      BY <1>0, <1>1, <3>1
    <3>2. CASE j > k
      <4>1. j - 1 \in 1..(n - 1) /\ ~(j - 1 < k) /\ j - 1 + 1 = j
        BY <1>0, <3>2
      <4>2. QED
        BY <1>1, <4>1
    <3>3. QED
      BY <1>0, <2>2, <3>1, <3>2
  <2>3. ASSUME NEW c \in L \ {w[k]} PROVE \E i \in 1..(n - 1) : a[i] = c
    <3>1. PICK j \in 1..n : c = w[j]
      BY <1>0
    <3>2. QED
      BY <2>2, <3>1
  <2>4. QED
    BY <2>1, <2>3
<1>4. \A i \in 1..n \ {k} :
         r[w[i]] = IF i = Behind(w, k) THEN w[Ahead(w, k)] ELSE w[Ahead(w, i)]
  <2>1. Behind(w, k) \in 1..n
    BY <1>0 DEF Behind
  <2>2. QED
    BY <1>0, <2>1
<1>5. ASSUME NEW i \in 1..(n - 1) PROVE r[a[i]] = a[Ahead(a, i)]
  <2>1. CASE i < k
    <3>1. a[i] = w[i] /\ i \in 1..n \ {k}
      BY <1>0, <1>1, <2>1
    <3>2. r[w[i]] = IF i = Behind(w, k) THEN w[Ahead(w, k)] ELSE w[Ahead(w, i)]
      BY <1>4, <3>1
    <3>3. CASE i + 1 = k
      BY <1>0, <1>1, <2>1, <3>1, <3>2, <3>3 DEF Ahead, Behind
    <3>4. CASE i + 1 # k
      <4>1. i + 1 < k /\ i # Behind(w, k) /\ Ahead(w, i) = i + 1 /\ Ahead(a, i) = i + 1
            /\ i + 1 \in 1..(n - 1)
        BY <1>0, <1>1, <2>1, <3>4 DEF Ahead, Behind
      <4>2. QED
        BY <1>1, <3>1, <3>2, <4>1
    <3>5. QED
      BY <3>3, <3>4
  <2>2. CASE ~(i < k)
    <3>1. a[i] = w[i + 1] /\ i + 1 \in 1..n \ {k}
      BY <1>0, <1>1, <2>2
    <3>2. r[a[i]] = IF i + 1 = Behind(w, k) THEN w[Ahead(w, k)] ELSE w[Ahead(w, i + 1)]
      BY <1>4, <3>1
    <3>3. CASE i + 1 = n
      BY <1>0, <1>1, <2>2, <3>2, <3>3 DEF Ahead, Behind
    <3>4. CASE i + 1 # n
      <4>1. i + 1 # Behind(w, k) /\ Ahead(w, i + 1) = i + 1 + 1 /\ Ahead(a, i) = i + 1
            /\ i + 1 \in 1..(n - 1) /\ ~(i + 1 < k)
        BY <1>0, <1>1, <2>2, <3>4 DEF Ahead, Behind
      <4>2. QED
        BY <1>1, <3>1, <3>2, <4>1
    <3>5. QED
      BY <3>3, <3>4
  <2>3. QED
    BY <2>1, <2>2
<1>6. (IF h = w[k] THEN nx[h] ELSE h) = a[1]
  <2>1. 1 \in 1..n /\ 1 \in 1..(n - 1)
    BY <1>0
  <2>2. CASE k = 1
    BY <1>0, <1>1, <2>1, <2>2 DEF Ahead
  <2>3. CASE k # 1
    BY <1>0, <1>1, <2>1, <2>3
  <2>4. QED
    BY <2>2, <2>3
<1>7. Turn(IF h = w[k] THEN nx[h] ELSE h, L \ {w[k]}, r, a)
  BY <1>1, <1>2, <1>3, <1>5, <1>6 DEF Turn
<1>8. QED
  BY <1>7 DEF a

\* The hand that moves on leaves the first cell for the last.
LEMMA TurnMoves ==
    ASSUME NEW h, NEW L, NEW nx, NEW w, Turn(h, L, nx, w), Len(w) > 0
    PROVE  Turn(nx[h], L, nx, Append(Tail(w), w[1]))
<1> DEFINE n == Len(w)
           a == Append(Tail(w), w[1])
<1>0. /\ n \in Nat /\ w \in Seq(Cells) /\ w # <<>> /\ h = w[1] /\ w[1] \in Cells
      /\ L = {w[i] : i \in 1..n}
      /\ \A i, j \in 1..n : w[i] = w[j] => i = j
      /\ \A i \in 1..n : nx[w[i]] = w[Ahead(w, i)]
  BY TurnFacts DEF Turn
<1>1. /\ Tail(w) \in Seq(Cells) /\ Len(Tail(w)) = n - 1
      /\ \A i \in 1..(n - 1) : Tail(w)[i] = w[i + 1]
  BY <1>0, HeadTailProperties
<1>2. /\ a \in Seq(Cells) /\ Len(a) = n - 1 + 1
      /\ \A i \in 1..(n - 1) : a[i] = Tail(w)[i]
      /\ a[n - 1 + 1] = w[1]
  BY <1>0, <1>1, AppendProperties
<1> HIDE DEF a
<1>3. Len(a) = n /\ \A i \in 1..n : a[i] = w[Ahead(w, i)]
  <2>1. Len(a) = n /\ a[n] = w[1]
    BY <1>0, <1>2
  <2>2. ASSUME NEW i \in 1..n, i # n PROVE a[i] = w[i + 1]
    <3>1. i \in 1..(n - 1)
      BY <1>0, <2>2
    <3>2. QED
      BY <1>1, <1>2, <3>1
  <2>3. QED
    BY <2>1, <2>2 DEF Ahead
<1>4. \A i \in 1..n : Ahead(w, i) \in 1..n
  BY <1>0 DEF Ahead
<1>5. \A i, j \in 1..n : a[i] = a[j] => i = j
  <2>1. \A i, j \in 1..n : Ahead(w, i) = Ahead(w, j) => i = j
    BY <1>0 DEF Ahead
  <2>2. QED
    BY <1>0, <1>3, <1>4, <2>1
<1>6. L = {a[i] : i \in 1..n}
  <2>1. \A i \in 1..n : \E j \in 1..n : i = Ahead(w, j)
    <3>1. ASSUME NEW i \in 1..n PROVE \E j \in 1..n : i = Ahead(w, j)
      <4>1. i = Ahead(w, Behind(w, i)) /\ Behind(w, i) \in 1..n
        BY <1>0 DEF Ahead, Behind
      <4>2. QED
        BY <4>1
    <3>2. QED
      BY <3>1
  <2>2. \A i \in 1..n : \E j \in 1..n : w[i] = a[j]
    BY <1>3, <2>1
  <2>3. \A i \in 1..n : \E j \in 1..n : a[i] = w[j]
    BY <1>3, <1>4
  <2>4. ASSUME NEW c \in L PROVE \E j \in 1..n : c = a[j]
    <3>1. PICK i \in 1..n : c = w[i]
      BY <1>0
    <3>2. QED
      BY <2>2, <3>1
  <2>5. ASSUME NEW j \in 1..n PROVE a[j] \in L
    <3>1. PICK i \in 1..n : a[j] = w[i]
      BY <2>3
    <3>2. QED
      BY <1>0, <3>1
  <2>6. QED
    BY <2>4, <2>5
<1>7. ASSUME NEW i \in 1..n PROVE nx[a[i]] = a[Ahead(a, i)]
  <2>1. Ahead(a, i) = Ahead(w, i)
    BY <1>3 DEF Ahead
  <2>2. nx[w[Ahead(w, i)]] = w[Ahead(w, Ahead(w, i))]
    BY <1>0, <1>4
  <2>3. QED
    BY <1>3, <1>4, <2>1, <2>2
<1>8. nx[h] = a[1]
  BY <1>0, <1>3
<1>9. Turn(nx[h], L, nx, a)
  BY <1>2, <1>3, <1>5, <1>6, <1>7, <1>8 DEF Turn
<1>10. QED
  BY <1>9 DEF a

\* What the cells hold, as a sequence.
Slots == [file : Files \cup {NULL}, bit : {0, 1}]

HeldTypes(nm, rf) == nm \in [Cells -> Files \cup {NULL}] /\ rf \in [Cells -> {0, 1}]

LEMMA HeldFacts ==
    ASSUME NEW w \in Seq(Cells), NEW nm, NEW rf, HeldTypes(nm, rf)
    PROVE  /\ Held(w, nm, rf) \in Seq(Slots)
           /\ Len(Held(w, nm, rf)) = Len(w)
           /\ DOMAIN Held(w, nm, rf) = 1..Len(w)
           /\ \A i \in 1..Len(w) :
                 Held(w, nm, rf)[i] = [file |-> nm[w[i]], bit |-> rf[w[i]]]
<1>1. Len(w) \in Nat /\ \A i \in 1..Len(w) : w[i] \in Cells
  BY LenProperties, ElementOfSeq
<1>2. Held(w, nm, rf) \in [1..Len(w) -> Slots]
  BY <1>1 DEF Held, HeldTypes, Slots
<1>3. Held(w, nm, rf) \in Seq(Slots)
  BY <1>1, <1>2
<1>4. DOMAIN Held(w, nm, rf) = 1..Len(w)
      /\ DOMAIN Held(w, nm, rf) = 1..Len(Held(w, nm, rf))
      /\ Len(Held(w, nm, rf)) \in Nat
  BY <1>2, <1>3, LenProperties
<1>5. Len(Held(w, nm, rf)) = Len(w)
  BY <1>1, <1>4
<1>6. QED
  BY <1>3, <1>4, <1>5 DEF Held

\* A cell that joins or leaves the turn does so in what the cells hold.
LEMMA HeldGrows ==
    ASSUME NEW w \in Seq(Cells), NEW nm, NEW rf, HeldTypes(nm, rf),
           NEW m, NEW b, HeldTypes(m, b), NEW e \in Cells,
           \A i \in 1..Len(w) : m[w[i]] = nm[w[i]] /\ b[w[i]] = rf[w[i]]
    PROVE  Held(Append(w, e), m, b)
              = Append(Held(w, nm, rf), [file |-> m[e], bit |-> b[e]])
<1> DEFINE n == Len(w)
           s == [file |-> m[e], bit |-> b[e]]
           a == Append(w, e)
           g == Append(Held(w, nm, rf), s)
<1>1. n \in Nat /\ a \in Seq(Cells) /\ Len(a) = n + 1
      /\ (\A i \in 1..n : a[i] = w[i]) /\ a[n + 1] = e
  BY LenProperties, AppendProperties
<1>2. s \in Slots
  BY DEF HeldTypes, Slots
<1>3. /\ Held(w, nm, rf) \in Seq(Slots) /\ Len(Held(w, nm, rf)) = n
      /\ \A i \in 1..n : Held(w, nm, rf)[i] = [file |-> nm[w[i]], bit |-> rf[w[i]]]
  BY HeldFacts
<1> HIDE DEF s, a
<1>4. /\ g \in Seq(Slots) /\ Len(g) = n + 1
      /\ (\A i \in 1..n : g[i] = [file |-> nm[w[i]], bit |-> rf[w[i]]])
      /\ g[n + 1] = s
  <2> HIDE DEF n
  <2>1. QED
    BY <1>2, <1>3, AppendProperties
<1>5. /\ Held(a, m, b) \in Seq(Slots) /\ Len(Held(a, m, b)) = n + 1
      /\ \A i \in 1..(n + 1) : Held(a, m, b)[i] = [file |-> m[a[i]], bit |-> b[a[i]]]
  BY <1>1, HeldFacts
<1>6. \A i \in 1..(n + 1) : Held(a, m, b)[i] = g[i]
  <2>1. ASSUME NEW i \in 1..n PROVE Held(a, m, b)[i] = g[i]
    <3>1. i \in 1..(n + 1) /\ a[i] = w[i]
      BY <1>1
    <3>2. Held(a, m, b)[i] = [file |-> m[w[i]], bit |-> b[w[i]]]
      BY <1>5, <3>1
    <3>3. g[i] = [file |-> nm[w[i]], bit |-> rf[w[i]]]
      BY <1>4
    <3>4. QED
      BY <3>2, <3>3
  <2>2. Held(a, m, b)[n + 1] = g[n + 1]
    BY <1>1, <1>4, <1>5 DEF s
  <2>3. \A i \in 1..(n + 1) : i \in 1..n \/ i = n + 1
    BY <1>1
  <2> HIDE DEF n, g
  <2>4. QED
    BY <2>1, <2>2, <2>3
<1> HIDE DEF g
<1>7. Held(a, m, b) = g
  BY <1>1, <1>4, <1>5, <1>6, SeqEqual
<1>8. QED
  BY <1>7 DEF a, g, s

LEMMA HeldShrinks ==
    ASSUME NEW w \in Seq(Cells), NEW nm, NEW rf, HeldTypes(nm, rf),
           NEW m, NEW b, HeldTypes(m, b), NEW k \in 1..Len(w),
           \A i \in 1..Len(w) : i # k => m[w[i]] = nm[w[i]] /\ b[w[i]] = rf[w[i]]
    PROVE  Held(RemoveAt(w, k), m, b) = RemoveAt(Held(w, nm, rf), k)
<1> DEFINE n == Len(w)
           a == RemoveAt(w, k)
           g == RemoveAt(Held(w, nm, rf), k)
<1>1. n \in Nat /\ a \in Seq(Cells) /\ Len(a) = n - 1
      /\ \A i \in 1..(n - 1) : a[i] = IF i < k THEN w[i] ELSE w[i + 1]
  BY LenProperties, CutFacts
<1>2. /\ Held(w, nm, rf) \in Seq(Slots) /\ Len(Held(w, nm, rf)) = n
      /\ \A i \in 1..n : Held(w, nm, rf)[i] = [file |-> nm[w[i]], bit |-> rf[w[i]]]
  BY HeldFacts
<1>3. /\ g \in Seq(Slots) /\ Len(g) = n - 1
      /\ \A i \in 1..(n - 1) :
            g[i] = IF i < k THEN Held(w, nm, rf)[i] ELSE Held(w, nm, rf)[i + 1]
  <2>1. k \in 1..Len(Held(w, nm, rf))
    BY <1>2
  <2>2. /\ g \in Seq(Slots) /\ Len(g) = Len(Held(w, nm, rf)) - 1
        /\ \A i \in 1..(Len(Held(w, nm, rf)) - 1) :
              g[i] = IF i < k THEN Held(w, nm, rf)[i] ELSE Held(w, nm, rf)[i + 1]
    BY <1>2, <2>1, CutFacts
  <2>3. QED
    BY <1>2, <2>2
<1> HIDE DEF a, g
<1>4. /\ Held(a, m, b) \in Seq(Slots) /\ Len(Held(a, m, b)) = n - 1
      /\ \A i \in 1..(n - 1) : Held(a, m, b)[i] = [file |-> m[a[i]], bit |-> b[a[i]]]
  BY <1>1, HeldFacts
<1>5. ASSUME NEW i \in 1..(n - 1) PROVE Held(a, m, b)[i] = g[i]
  <2>1. CASE i < k
    <3>1. a[i] = w[i] /\ i \in 1..n /\ i # k
      BY <1>1, <2>1
    <3>2. g[i] = [file |-> nm[w[i]], bit |-> rf[w[i]]]
      BY <1>2, <1>3, <2>1, <3>1
    <3>3. Held(a, m, b)[i] = [file |-> m[w[i]], bit |-> b[w[i]]]
      BY <1>4, <3>1
    <3>4. QED
      BY <3>1, <3>2, <3>3
  <2>2. CASE ~(i < k)
    <3>1. a[i] = w[i + 1] /\ i + 1 \in 1..n /\ i + 1 # k
      BY <1>1, <2>2
    <3>2. g[i] = [file |-> nm[w[i + 1]], bit |-> rf[w[i + 1]]]
      BY <1>2, <1>3, <2>2, <3>1
    <3>3. Held(a, m, b)[i] = [file |-> m[w[i + 1]], bit |-> b[w[i + 1]]]
      BY <1>4, <3>1
    <3>4. QED
      BY <3>1, <3>2, <3>3
  <2>3. QED
    BY <2>1, <2>2
<1>6. Held(a, m, b) = g
  BY <1>3, <1>4, <1>5, SeqEqual
<1>7. QED
  BY <1>6 DEF a, g

\* The queue in any state, its cells and what they hold.
LEMMA TurnNow ==
    ASSUME IInv, NEW w, Turn(Hand, Live, next, w)
    PROVE  /\ w \in Seq(Cells) /\ Len(w) \in Nat /\ HeldTypes(name, ref)
           /\ \A i \in 1..Len(w) : w[i] \in Live /\ w[i] \in Cells /\ w[i] # NULL
           /\ \A c \in Live : \E i \in 1..Len(w) : c = w[i]
           /\ Len(w) > 0 <=> head # NULL
           /\ Len(w) > 0 => Hand = w[1]
           /\ Ring \in Seq(Slots) /\ Len(Ring) = Len(w) /\ DOMAIN Ring = 1..Len(w)
           /\ \A i \in 1..Len(w) : Ring[i] = [file |-> name[w[i]], bit |-> ref[w[i]]]
           /\ Ring = Held(w, name, ref)
<1>1. w \in Seq(Cells) /\ Len(w) \in Nat /\ HeldTypes(name, ref)
  BY TurnFacts DEF Turn, IInv, TypeOK, HeldTypes
<1>2. /\ \A i \in 1..Len(w) : w[i] \in Live /\ w[i] \in Cells
      /\ \A c \in Live : \E i \in 1..Len(w) : c = w[i]
  BY TurnFacts
<1>3. Len(w) > 0 <=> head # NULL
  <2>1. head = NULL => Live = {}
    BY DEF IInv, Anchored
  <2>2. head # NULL => head \in Live
    BY DEF IInv, Anchored
  <2>3. Len(w) > 0 => w[1] \in Live
    BY <1>1, <1>2
  <2>4. Len(w) = 0 => Live = {}
    BY <1>2
  <2>5. QED
    BY <1>1, <2>1, <2>2, <2>3, <2>4
<1>4. Ring = Held(w, name, ref)
  BY RingIsHeld
<1>5. QED
  BY <1>1, <1>2, <1>3, <1>4, HeldFacts, NullAssumption DEF Turn

\* rem_Q takes the cell out of the line, and the file with it.
LEMMA RemQCuts ==
    ASSUME IInv, HeldTypes(name', ref'), NEW w, Turn(Hand, Live, next, w),
           NEW k \in 1..Len(w), NEW hand \in Live \cup {NULL},
           hand = NULL => Hand = head, hand # NULL => Hand = hand,
           rem_Q(w[k], hand)
    PROVE  /\ Turn(Hand', Live', next', RemoveAt(w, k))
           /\ Ring' = RemoveAt(Ring, k)
<1> DEFINE n == Len(w)
           e == w[k]
<1>1. /\ w \in Seq(Cells) /\ n \in Nat /\ HeldTypes(name, ref)
      /\ \A i \in 1..n : w[i] \in Live /\ w[i] \in Cells
      /\ Hand = w[1] /\ Ring = Held(w, name, ref)
      /\ \A i, j \in 1..n : w[i] = w[j] => i = j
      /\ \A i \in 1..n : next[w[i]] = w[Ahead(w, i)]
  BY TurnNow DEF Turn
<1>2. e \in Live /\ e \in Cells /\ e # NULL
  BY <1>1, NullAssumption
<1>3. name' = [name EXCEPT ![e] = NULL] /\ ref' = [ref EXCEPT ![e] = 0]
  BY DEF rem_Q, Free
<1>4. Live' = Live \ {e}
  BY <1>2, <1>3, LiveAfterFree DEF IInv
<1>5. Held(RemoveAt(w, k), name', ref') = RemoveAt(Ring, k)
  <2>1. \A i \in 1..n : i # k => name'[w[i]] = name[w[i]] /\ ref'[w[i]] = ref[w[i]]
    BY <1>1, <1>3 DEF HeldTypes
  <2>2. QED
    BY <1>1, <2>1, HeldShrinks
<1>6. CASE n = 1
  <2>1. RemoveAt(w, k) \in Seq(Cells) /\ Len(RemoveAt(w, k)) = 0
    <3>1. Len(RemoveAt(w, k)) = Len(w) - 1 /\ RemoveAt(w, k) \in Seq(Cells)
      BY <1>1, CutFacts
    <3>2. QED
      BY <1>6, <3>1
  <2>2. Live' = {}
    <3>1. Live = {w[i] : i \in 1..n}
      BY DEF Turn
    <3>2. k = 1 /\ \A i \in 1..n : i = 1
      BY <1>6
    <3>3. QED
      BY <1>4, <3>1, <3>2
  <2>3. Turn(Hand', Live', next', RemoveAt(w, k))
    BY <2>1, <2>2 DEF Turn
  <2>4. QED
    BY <1>5, <2>3, RingIsHeldNext
<1>7. CASE n # 1
  <2>1. n > 1 /\ Behind(w, k) \in 1..n /\ Ahead(w, k) \in 1..n /\ Ahead(w, k) # k
        /\ Ahead(w, Behind(w, k)) = k /\ Behind(w, k) # k
    <3>1. n \in Nat /\ n > 1 /\ k \in 1..n
      <4>1. n \in Nat /\ k \in 1..n
        BY <1>1
      <4> HIDE DEF n
      <4>2. QED
        BY <1>7, <4>1
    <3>2. QED
      BY <3>1 DEF Ahead, Behind
  <2>2. next[e] = w[Ahead(w, k)] /\ next[e] # e /\ next[e] \in Live
    BY <1>1, <2>1
  <2>3. prev[e] = w[Behind(w, k)]
    <3>1. next[w[Behind(w, k)]] = e
      BY <1>1, <2>1
    <3>2. QED
      BY <1>1, <2>1, <3>1 DEF IInv, RingState, IsRing
  <2>4. /\ head' = IF e = head THEN next[e] ELSE head
        /\ victim' = IF hand = e THEN next[e] ELSE hand
        /\ next' = [next EXCEPT ![prev[e]] = next[e], ![e] = NULL]
    BY <2>2 DEF rem_Q, HandMoved
  <2>5. /\ next'[w[Behind(w, k)]] = next[w[k]]
        /\ \A c \in Live : c # w[k] /\ c # w[Behind(w, k)] => next'[c] = next[c]
    <3>1. next \in [Cells -> Pointer] /\ Live \subseteq Cells /\ w[Behind(w, k)] \in Cells
          /\ w[Behind(w, k)] # e
      BY <1>1, <2>1 DEF IInv, TypeOK, Live
    <3>2. QED
      BY <1>2, <2>3, <2>4, <3>1
  <2>6. Turn(IF Hand = e THEN next[Hand] ELSE Hand, Live \ {e}, next', RemoveAt(w, k))
    BY <2>1, <2>5, TurnShrinks
  <2>7. Hand' = IF Hand = e THEN next[Hand] ELSE Hand
    <3>1. \A c \in Live : c # NULL
      BY NullAssumption DEF Live
    <3>2. CASE hand = NULL
      BY <1>2, <2>4, <3>2 DEF Hand
    <3>3. CASE hand # NULL
      <4>1. victim' # NULL /\ Hand' = victim'
        BY <2>2, <2>4, <3>1, <3>3 DEF Hand
      <4>2. QED
        BY <2>4, <3>3, <4>1
    <3>4. QED
      BY <3>2, <3>3
  <2>8. Turn(Hand', Live', next', RemoveAt(w, k))
    BY <1>4, <2>6, <2>7
  <2>9. QED
    BY <1>5, <2>8, RingIsHeldNext
<1>8. QED
  BY <1>6, <1>7

\* The line of a queue that has just been mounted is empty.
LEMMA QueueInitially == Init => CInv /\ Policy!AInit
<1> SUFFICES ASSUME Init PROVE CInv /\ Policy!AInit
  OBVIOUS
<1>1. Live = {} /\ sweeping = FALSE /\ evicted = NULL
  BY DEF Init, Live
<1>2. <<>> \in Seq(Cells) /\ Len(<<>>) = 0
  BY EmptySeq
<1>3. Turn(Hand, Live, next, <<>>)
  BY <1>1, <1>2 DEF Turn
<1>4. Ring = Held(<<>>, name, ref)
  BY <1>3, RingIsHeld
<1>5. HeldTypes(name, ref)
  BY DEF Init, HeldTypes
<1>6. Ring \in Seq(Slots) /\ Len(Ring) = 0
  BY <1>2, <1>4, <1>5, HeldFacts
<1>7. Ring = <<>>
  BY <1>6, EmptySeq
<1>8. IInv
  BY InvInit
<1>9. QED
  BY <1>1, <1>3, <1>7, <1>8 DEF CInv, Policy!AInit

\* A hit sets the bit of the file where it stands.
LEMMA ReferenceFollows ==
    ASSUME CInv, NEW f \in Files, Reference(f), IInv'
    PROVE  CInv' /\ Policy!Touch(f)
<1>1. PICK w : Turn(Hand, Live, next, w)
  BY DEF CInv
<1>2. PICK c \in findelem_clock(f) : ref' = [ref EXCEPT ![c] = 1]
  BY DEF Reference, Referenced
<1>3. ~sweeping /\ UNCHANGED <<head, victim, next, name, sweeping, evicted>>
  BY DEF Reference, pointers
<1>4. c \in Live /\ name[c] = f
  BY <1>2, FindelemExact DEF CInv
<1>5. Turn(Hand', Live', next', w)
  BY <1>1, <1>3 DEF Hand, Live
<1>6. Ring' = Held(w, name', ref')
  BY <1>5, RingIsHeldNext
<1>7. /\ w \in Seq(Cells) /\ Len(w) \in Nat /\ HeldTypes(name, ref)
      /\ \A i \in 1..Len(w) : w[i] \in Live /\ w[i] \in Cells
      /\ \A d \in Live : \E i \in 1..Len(w) : d = w[i]
      /\ DOMAIN Ring = 1..Len(w)
      /\ \A i \in 1..Len(w) : Ring[i] = [file |-> name[w[i]], bit |-> ref[w[i]]]
  BY <1>1, TurnNow DEF CInv
<1>8. Ring' = [i \in DOMAIN Ring |-> IF Ring[i].file = f THEN [Ring[i] EXCEPT !.bit = 1]
                                                        ELSE Ring[i]]
  <2>1. ASSUME NEW i \in 1..Len(w)
        PROVE  [file |-> name'[w[i]], bit |-> ref'[w[i]]]
                 = IF Ring[i].file = f THEN [Ring[i] EXCEPT !.bit = 1] ELSE Ring[i]
    <3>1. name' = name /\ w[i] \in Cells /\ w[i] \in Live
      BY <1>3, <1>7
    <3>2. Ring[i] = [file |-> name[w[i]], bit |-> ref[w[i]]]
      BY <1>7
    <3>3. CASE w[i] = c
      <4>1. ref'[w[i]] = 1 /\ name[w[i]] = f
        BY <1>2, <1>4, <1>7, <3>1, <3>3 DEF HeldTypes
      <4>2. QED
        BY <3>1, <3>2, <4>1
    <3>4. CASE w[i] # c
      <4>1. ref'[w[i]] = ref[w[i]] /\ name[w[i]] # f
        BY <1>2, <1>4, <1>7, <3>1, <3>4 DEF HeldTypes, CInv, IInv, NamesUnique
      <4>2. QED
        BY <3>1, <3>2, <4>1
    <3>5. QED
      BY <3>3, <3>4
  <2>2. QED
    BY <1>6, <1>7, <2>1 DEF Held
<1>9. f \in Policy!Present
  <2>1. PICK i \in 1..Len(w) : c = w[i]
    BY <1>4, <1>7
  <2>2. Ring[i].file = f
    BY <1>4, <1>7, <2>1
  <2>3. QED
    BY <1>7, <2>2 DEF Policy!Present
<1>10. CInv'
  BY <1>5 DEF CInv
<1>11. QED
  BY <1>3, <1>8, <1>9, <1>10 DEF Policy!Touch

\* A new cell joins at the end, its bit set.
LEMMA InsertFollows ==
    ASSUME CInv, NEW f \in Files, Insert(f), IInv'
    PROVE  CInv' /\ Policy!Enter(f)
<1>1. PICK w : Turn(Hand, Live, next, w)
  BY DEF CInv
<1>2. PICK elem \in Cells \ Live :
          /\ name' = [name EXCEPT ![elem] = f]
          /\ ref' = [ref EXCEPT ![elem] = 1]
          /\ \/ /\ head = NULL
                /\ next' = [next EXCEPT ![elem] = elem]
                /\ prev' = [prev EXCEPT ![elem] = elem]
                /\ head' = elem /\ tail' = elem
             \/ head # NULL /\ ins_Q(elem)
  BY DEF Insert, NewBit
<1>3. ~sweeping /\ UNCHANGED <<victim, sweeping, evicted>> /\ findelem_clock(f) = {}
  BY DEF Insert
<1>4. /\ w \in Seq(Cells) /\ Len(w) \in Nat /\ HeldTypes(name, ref)
      /\ \A i \in 1..Len(w) : w[i] \in Live /\ w[i] \in Cells /\ w[i] # NULL
      /\ Len(w) > 0 <=> head # NULL
      /\ Len(w) > 0 => Hand = w[1]
      /\ Ring = Held(w, name, ref) /\ DOMAIN Ring = 1..Len(w)
      /\ \A i \in 1..Len(w) : Ring[i] = [file |-> name[w[i]], bit |-> ref[w[i]]]
  BY <1>1, TurnNow DEF CInv
<1>5. Live' = Live \cup {elem} /\ elem # NULL
  BY <1>2, LiveAfterMalloc, NullAssumption DEF CInv, IInv
<1>6. Turn(Hand', Live', next', Append(w, elem))
  <2>0. /\ next \in [Cells -> Pointer] /\ Live \subseteq Cells
    BY DEF CInv, IInv, TypeOK, Live
  <2>1. CASE head = NULL
    <3>1. victim' = NULL /\ head' = elem /\ next' = [next EXCEPT ![elem] = elem]
          /\ Live = {}
      BY <1>2, <1>3, <2>1 DEF CInv, IInv, Anchored
    <3>2. Len(w) = 0 /\ Hand' = elem /\ next'[elem] = elem /\ Live' = {elem}
      BY <1>2, <1>4, <1>5, <2>0, <2>1, <3>1 DEF Hand
    <3>3. /\ Append(w, elem) \in Seq(Cells) /\ Len(Append(w, elem)) = 1
          /\ Append(w, elem)[1] = elem
      BY <1>2, <1>4, <3>2, AppendProperties
    <3>4. \A i \in 1..1 : i = 1
      OBVIOUS
    <3>5. QED
      BY <3>2, <3>3, <3>4 DEF Turn, Ahead
  <2>2. CASE head # NULL
    <3>1. ins_Q(elem) /\ Len(w) > 0 /\ Hand = w[1] /\ w[Len(w)] \in Live /\ w[1] \in Live
          /\ w[Len(w)] \in Cells /\ w[Len(w)] # elem
      BY <1>2, <1>4, <2>2
    <3>2. next[w[Len(w)]] = Hand /\ prev[Hand] = w[Len(w)]
      <4>1. next[w[Len(w)]] = w[1]
        BY <1>1, <1>4, <3>1 DEF Turn, Ahead
      <4>2. QED
        BY <3>1, <4>1 DEF CInv, IInv, RingState, IsRing
    <3>3. Hand' = Hand /\ next' = [next EXCEPT ![w[Len(w)]] = elem, ![elem] = Hand]
      <4>1. CASE victim # NULL
        <5>1. Hand = victim /\ victim' = victim
          BY <1>3, <4>1 DEF Hand
        <5>2. next' = [next EXCEPT ![prev[victim]] = elem, ![elem] = victim]
          BY <3>1, <4>1 DEF ins_Q
        <5>3. QED
          BY <3>2, <4>1, <5>1, <5>2 DEF Hand
      <4>2. CASE victim = NULL
        <5>1. Hand = head /\ victim' = NULL /\ head' = head
              /\ next' = [next EXCEPT ![elem] = next[tail], ![tail] = elem]
          BY <1>3, <3>1, <4>2 DEF ins_Q, Hand
        <5>2. next[tail] = head /\ tail \in Live
          BY <2>2 DEF CInv, IInv, Anchored
        <5>3. tail = w[Len(w)]
          BY <3>2, <5>1, <5>2 DEF CInv, IInv, RingState, IsRing
        <5>4. next' = [next EXCEPT ![w[Len(w)]] = elem, ![elem] = Hand]
          BY <3>1, <5>1, <5>2, <5>3
        <5>5. QED
          BY <4>2, <5>1, <5>4 DEF Hand
      <4>3. QED
        BY <4>1, <4>2
    <3>4. /\ next'[w[Len(w)]] = elem /\ next'[elem] = Hand
          /\ \A c \in Live : c # w[Len(w)] => next'[c] = next[c]
      BY <1>2, <2>0, <3>1, <3>3
    <3>5. Turn(Hand, Live \cup {elem}, next', Append(w, elem))
      BY <1>1, <1>2, <3>1, <3>4, TurnGrows
    <3>6. QED
      BY <1>5, <3>3, <3>5
  <2>3. QED
    BY <2>1, <2>2
<1>7. Ring' = Append(Ring, [file |-> f, bit |-> 1])
  <2>1. HeldTypes(name', ref')
    BY DEF IInv, TypeOK, HeldTypes
  <2>2. /\ \A i \in 1..Len(w) : name'[w[i]] = name[w[i]] /\ ref'[w[i]] = ref[w[i]]
        /\ name'[elem] = f /\ ref'[elem] = 1
    <3>1. \A i \in 1..Len(w) : w[i] \in Cells /\ w[i] # elem
      BY <1>2, <1>4
    <3>2. QED
      BY <1>2, <1>4, <3>1 DEF HeldTypes
  <2>3. Held(Append(w, elem), name', ref')
          = Append(Held(w, name, ref), [file |-> name'[elem], bit |-> ref'[elem]])
    <3>1. w \in Seq(Cells) /\ HeldTypes(name, ref) /\ elem \in Cells
      BY <1>2, <1>4
    <3>2. \A i \in 1..Len(w) : name'[w[i]] = name[w[i]] /\ ref'[w[i]] = ref[w[i]]
      BY <2>2
    <3>3. QED
      BY <2>1, <3>1, <3>2, HeldGrows
  <2>4. Ring' = Held(Append(w, elem), name', ref')
    BY <1>6, RingIsHeldNext
  <2>5. QED
    BY <1>4, <2>2, <2>3, <2>4
<1>8. f \notin Policy!Present
  <2>1. \A c \in Live : name[c] # f
    BY <1>3, FindelemExact DEF CInv
  <2>2. \A i \in 1..Len(w) : Ring[i].file # f
    BY <1>4, <2>1
  <2>3. QED
    BY <1>4, <2>2 DEF Policy!Present
<1>9. CInv'
  BY <1>6 DEF CInv
<1>10. QED
  BY <1>3, <1>7, <1>8, <1>9 DEF Policy!Enter

\* The file that is removed leaves the line, wherever it stands.
LEMMA RmelemFollows ==
    ASSUME CInv, NEW f \in Files, rmelem_clock(f), IInv'
    PROVE  CInv' /\ Policy!Leave(f)
<1>1. PICK w : Turn(Hand, Live, next, w)
  BY DEF CInv
<1>2. PICK c \in findelem_clock(f) : rem_Q(c, victim)
  BY DEF rmelem_clock
<1>3. ~sweeping /\ UNCHANGED <<sweeping, evicted>>
  BY DEF rmelem_clock
<1>4. c \in Live /\ name[c] = f
  BY <1>2, FindelemExact DEF CInv
<1>5. PICK k \in 1..Len(w) : c = w[k]
  BY <1>1, <1>4, TurnNow DEF CInv
<1>6. HeldTypes(name', ref')
  BY DEF IInv, TypeOK, HeldTypes
<1>7. victim \in Live \cup {NULL} /\ (victim = NULL => Hand = head)
      /\ (victim # NULL => Hand = victim)
  BY DEF CInv, IInv, Anchored, Hand
<1>8. Turn(Hand', Live', next', RemoveAt(w, k)) /\ Ring' = RemoveAt(Ring, k)
  BY <1>1, <1>2, <1>5, <1>6, <1>7, RemQCuts DEF CInv
<1>9. k \in DOMAIN Ring /\ Ring[k].file = f
  <2>1. /\ DOMAIN Ring = 1..Len(w)
        /\ \A i \in 1..Len(w) : Ring[i] = [file |-> name[w[i]], bit |-> ref[w[i]]]
    BY <1>1, TurnNow DEF CInv
  <2>2. Ring[k] = [file |-> name[c], bit |-> ref[c]]
    BY <1>5, <2>1
  <2>3. QED
    BY <1>4, <1>5, <2>1, <2>2
<1>10. CInv'
  BY <1>8 DEF CInv
<1>11. Policy!Leave(f)
  BY <1>3, <1>8, <1>9 DEF Policy!Leave, Policy!RemoveAt, RemoveAt
<1>12. QED
  BY <1>10, <1>11

\* What the front of the line is while the queue is not empty.
LEMMA FrontIsHand ==
    ASSUME CInv, head # NULL, NEW w, Turn(Hand, Live, next, w)
    PROVE  /\ Len(w) > 0 /\ 1 \in 1..Len(w) /\ Hand = w[1] /\ Hand \in Live
           /\ Len(Ring) = Len(w) /\ Ring \in Seq(Slots) /\ Ring # <<>>
           /\ Head(Ring) = Ring[1]
           /\ Ring[1] = [file |-> name[Hand], bit |-> ref[Hand]]
           /\ next[Hand] = Hand <=> Len(w) = 1
<1>1. /\ Len(w) \in Nat /\ Len(w) > 0 /\ Hand = w[1] /\ 1 \in 1..Len(w)
      /\ Len(Ring) = Len(w) /\ Ring \in Seq(Slots)
      /\ Ring[1] = [file |-> name[w[1]], bit |-> ref[w[1]]]
  BY TurnNow DEF CInv
<1>2. Hand \in Live
  BY <1>1, TurnNow DEF CInv
<1>3. Ring # <<>>
  BY <1>1, EmptySeq
<1>4. next[Hand] = Hand <=> Len(w) = 1
  <2>1. next[w[1]] = w[Ahead(w, 1)] /\ Ahead(w, 1) \in 1..Len(w)
    BY <1>1 DEF Turn, Ahead
  <2>2. w[Ahead(w, 1)] = w[1] <=> Ahead(w, 1) = 1
    BY <1>1, <2>1 DEF Turn
  <2>3. Ahead(w, 1) = 1 <=> Len(w) = 1
    BY <1>1 DEF Ahead
  <2>4. QED
    BY <1>1, <2>1, <2>2, <2>3
<1>5. QED
  BY <1>1, <1>2, <1>3, <1>4

\* The only file is evicted whatever its bit.
LEMMA OnlyFollows ==
    ASSUME CInv, RemqueOnly, IInv'
    PROVE  CInv' /\ Policy!EvictOnly
<1>1. PICK w : Turn(Hand, Live, next, w)
  BY DEF CInv
<1>2. /\ ~sweeping /\ sweeping' = sweeping /\ head # NULL /\ next[Hand] = Hand
      /\ evicted' = name[Hand] /\ rem_Q(Hand, Hand)
  BY DEF RemqueOnly, Several
<1>3. /\ Len(w) = 1 /\ 1 \in 1..Len(w) /\ Hand = w[1] /\ Hand \in Live
      /\ Len(Ring) = 1 /\ Ring \in Seq(Slots) /\ Ring[1].file = name[Hand]
  BY <1>1, <1>2, FrontIsHand
<1>4. HeldTypes(name', ref')
  BY DEF IInv, TypeOK, HeldTypes
<1>5. Hand # NULL
  BY <1>3, NullAssumption DEF Live
<1>6. Turn(Hand', Live', next', RemoveAt(w, 1)) /\ Ring' = RemoveAt(Ring, 1)
  <2>1. rem_Q(w[1], Hand) /\ Hand \in Live \cup {NULL}
    BY <1>2, <1>3
  <2>2. QED
    BY <1>1, <1>3, <1>4, <1>5, <2>1, RemQCuts DEF CInv
<1>7. Ring' = <<>>
  <2>1. Ring' \in Seq(Slots) /\ Len(Ring') = 0
    <3>1. 1 \in 1..Len(Ring)
      BY <1>3
    <3>2. RemoveAt(Ring, 1) \in Seq(Slots) /\ Len(RemoveAt(Ring, 1)) = Len(Ring) - 1
      BY <1>3, <3>1, CutFacts
    <3>3. QED
      BY <1>3, <1>6, <3>2
  <2>2. QED
    BY <2>1, EmptySeq
<1>8. CInv'
  BY <1>6 DEF CInv
<1>9. QED
  BY <1>2, <1>3, <1>7, <1>8 DEF Policy!EvictOnly

\* A sweep starts with the line as it is.
LEMMA EnterFollows ==
    ASSUME CInv, RemqueEnter, IInv'
    PROVE  CInv' /\ Policy!StartEvict
<1>1. PICK w : Turn(Hand, Live, next, w)
  BY DEF CInv
<1>2. /\ ~sweeping /\ sweeping' = TRUE /\ head # NULL /\ next[Hand] # Hand
      /\ victim' = Hand /\ UNCHANGED <<head, next, name, ref, evicted>>
  BY DEF RemqueEnter, Several
<1>3. Len(w) > 0 /\ Len(w) # 1 /\ Len(Ring) = Len(w) /\ Hand \in Live /\ Len(w) \in Nat
  BY <1>1, <1>2, FrontIsHand, TurnNow DEF CInv
<1>4. Hand' = Hand /\ Live' = Live
  BY <1>2, <1>3, NullAssumption DEF Hand, Live
<1>5. Turn(Hand', Live', next', w)
  BY <1>1, <1>2, <1>4
<1>6. Ring' = Ring
  BY <1>1, <1>2, <1>5, RingIsHeld, RingIsHeldNext
<1>7. CInv'
  BY <1>5 DEF CInv
<1>8. QED
  BY <1>2, <1>3, <1>6, <1>7 DEF Policy!StartEvict

\* A second look sends the first to the end, its bit cleared.
LEMMA SkipFollows ==
    ASSUME CInv, RemqueSkip, IInv'
    PROVE  CInv' /\ Policy!SecondLook
<1>1. PICK w : Turn(Hand, Live, next, w)
  BY DEF CInv
<1>2. /\ sweeping /\ ref[victim] # 0 /\ ref' = [ref EXCEPT ![victim] = 0]
      /\ victim' = next[victim]
      /\ UNCHANGED <<head, next, name, sweeping, evicted>>
  BY DEF RemqueSkip, Cleared
<1>3. victim \in Live /\ victim # NULL /\ head # NULL /\ Hand = victim
  <2>1. victim \in Live
    BY <1>2 DEF CInv, IInv, SweepSound
  <2>2. victim # NULL
    BY <2>1, NullAssumption DEF Live
  <2>3. QED
    BY <2>1, <2>2 DEF CInv, IInv, Anchored, Hand
<1>4. /\ Len(w) > 0 /\ 1 \in 1..Len(w) /\ victim = w[1]
      /\ Len(Ring) = Len(w) /\ Ring \in Seq(Slots) /\ Ring # <<>>
      /\ Head(Ring) = [file |-> name[victim], bit |-> ref[victim]]
  BY <1>1, <1>3, FrontIsHand
<1>5. next[victim] \in Live /\ next[victim] # NULL
  <2>1. next[victim] \in Live
    BY <1>3 DEF CInv, IInv, RingState, IsRing
  <2>2. QED
    BY <2>1, NullAssumption DEF Live
<1>6. Hand' = next[Hand] /\ Live' = Live
  BY <1>2, <1>3, <1>5 DEF Hand, Live
<1>7. Turn(Hand', Live', next', Append(Tail(w), w[1]))
  BY <1>1, <1>2, <1>4, <1>6, TurnMoves
<1>8. /\ HeldTypes(name, ref) /\ HeldTypes(name', ref') /\ w \in Seq(Cells)
      /\ \A i \in 1..Len(w) : w[i] \in Cells
      /\ \A i, j \in 1..Len(w) : w[i] = w[j] => i = j
      /\ Ring = Held(w, name, ref)
  BY <1>1, TurnNow DEF CInv, IInv, TypeOK, HeldTypes, Turn
<1>9. Tail(w) \in Seq(Cells) /\ Held(Tail(w), name', ref') = Tail(Ring)
  <2>1. \A i \in 1..Len(w) : i # 1 => name'[w[i]] = name[w[i]] /\ ref'[w[i]] = ref[w[i]]
    BY <1>2, <1>4, <1>8 DEF HeldTypes
  <2>2. Held(RemoveAt(w, 1), name', ref') = RemoveAt(Ring, 1)
    BY <1>4, <1>8, <2>1, HeldShrinks
  <2>3. Tail(w) = RemoveAt(w, 1) /\ Tail(Ring) = RemoveAt(Ring, 1)
    BY <1>4, <1>8, TailIsCut
  <2>4. RemoveAt(w, 1) \in Seq(Cells)
    BY <1>4, <1>8, CutFacts
  <2>5. QED
    BY <2>2, <2>3, <2>4
<1>10. Held(Append(Tail(w), w[1]), name', ref')
         = Append(Tail(Ring), [file |-> name'[w[1]], bit |-> ref'[w[1]]])
  <2>1. w[1] \in Cells
    BY <1>4, <1>8
  <2>2. QED
    <3>1. ASSUME NEW u \in Seq(Cells), NEW m, NEW b, HeldTypes(m, b), NEW e \in Cells
          PROVE  Held(Append(u, e), m, b) = Append(Held(u, m, b), [file |-> m[e], bit |-> b[e]])
      BY <3>1, HeldGrows
    <3>2. HeldTypes(name', ref') /\ Tail(w) \in Seq(Cells)
      BY <1>8, <1>9
    <3>3. Held(Append(Tail(w), w[1]), name', ref')
            = Append(Held(Tail(w), name', ref'),
                     [file |-> name'[w[1]], bit |-> ref'[w[1]]])
      BY <2>1, <3>1, <3>2
    <3>4. QED
      BY <1>9, <3>3
<1>11. [file |-> name'[w[1]], bit |-> ref'[w[1]]] = [Head(Ring) EXCEPT !.bit = 0]
  <2>1. name'[w[1]] = name[victim] /\ ref'[w[1]] = 0
    BY <1>2, <1>4, <1>8 DEF HeldTypes
  <2>2. QED
    BY <1>4, <2>1
<1>12. Ring' = Append(Tail(Ring), [Head(Ring) EXCEPT !.bit = 0])
  BY <1>7, <1>10, <1>11, RingIsHeldNext
<1>13. Head(Ring).bit = 1
  <2>1. ref[victim] \in {0, 1}
    BY <1>4, <1>8 DEF HeldTypes
  <2>2. QED
    BY <1>2, <1>4, <2>1
<1>14. CInv'
  BY <1>7 DEF CInv
<1>15. QED
  BY <1>2, <1>12, <1>13, <1>14 DEF Policy!SecondLook

\* The sweep ends with the first cold file of the line, which leaves it.
LEMMA EvictFollows ==
    ASSUME CInv, RemqueEvict, IInv'
    PROVE  CInv' /\ Policy!Evict
<1>1. PICK w : Turn(Hand, Live, next, w)
  BY DEF CInv
<1>2. /\ sweeping /\ ref[victim] = 0 /\ evicted' = name[victim]
      /\ rem_Q(victim, victim) /\ sweeping' = FALSE
  BY DEF RemqueEvict
<1>3. victim \in Live /\ victim # NULL /\ head # NULL /\ Hand = victim
  <2>1. victim \in Live
    BY <1>2 DEF CInv, IInv, SweepSound
  <2>2. victim # NULL
    BY <2>1, NullAssumption DEF Live
  <2>3. QED
    BY <2>1, <2>2 DEF CInv, IInv, Anchored, Hand
<1>4. /\ Len(w) > 0 /\ 1 \in 1..Len(w) /\ victim = w[1]
      /\ Len(Ring) = Len(w) /\ Ring \in Seq(Slots)
      /\ Head(Ring) = [file |-> name[victim], bit |-> ref[victim]]
  BY <1>1, <1>3, FrontIsHand
<1>5. HeldTypes(name', ref')
  BY DEF IInv, TypeOK, HeldTypes
<1>6. Turn(Hand', Live', next', RemoveAt(w, 1)) /\ Ring' = RemoveAt(Ring, 1)
  <2>1. rem_Q(w[1], victim) /\ victim \in Live \cup {NULL}
    BY <1>2, <1>3, <1>4
  <2>2. QED
    BY <1>1, <1>3, <1>4, <1>5, <2>1, RemQCuts DEF CInv
<1>7. Ring' = Tail(Ring)
  BY <1>4, <1>6, TailIsCut
<1>8. CInv'
  BY <1>6 DEF CInv
<1>9. QED
  BY <1>2, <1>4, <1>7, <1>8 DEF Policy!Evict

LEMMA FollowsStep ==
    CInv /\ [Next]_vars => CInv' /\ [Policy!ANext]_(Policy!avars)
<1> SUFFICES ASSUME CInv, [Next]_vars
             PROVE  CInv' /\ [Policy!ANext]_(Policy!avars)
  OBVIOUS
<1>0. IInv'
  BY InvNext DEF CInv
<1>1. CASE \E f \in Files : insque_clock(f)
  BY <1>0, <1>1, ReferenceFollows, InsertFollows DEF insque_clock, Policy!ANext
<1>2. CASE \E f \in Files : rmelem_clock(f)
  BY <1>0, <1>2, RmelemFollows DEF Policy!ANext
<1>3. CASE RemqueOnly
  BY <1>0, <1>3, OnlyFollows DEF Policy!ANext
<1>4. CASE RemqueEnter
  BY <1>0, <1>4, EnterFollows DEF Policy!ANext
<1>5. CASE RemqueSkip
  BY <1>0, <1>5, SkipFollows DEF Policy!ANext
<1>6. CASE RemqueEvict
  BY <1>0, <1>6, EvictFollows DEF Policy!ANext
<1>7. CASE UNCHANGED vars
  <2>1. UNCHANGED <<head, victim, next, name, ref, sweeping, evicted>>
    BY <1>7 DEF vars
  <2>2. Hand' = Hand /\ Live' = Live
    BY <2>1 DEF Hand, Live
  <2>3. FromHand' = FromHand
    BY <2>1, <2>2 DEF FromHand
  <2>4. Ring' = Ring
    BY <2>1, <2>3 DEF Ring
  <2>5. CInv'
    BY <1>0, <2>1, <2>2 DEF CInv
  <2>6. QED
    BY <2>1, <2>4, <2>5 DEF Policy!avars
<1>8. QED
  BY <1>1, <1>2, <1>3, <1>4, <1>5, <1>6, <1>7 DEF Next, remque_clock

\* The linked cycle and its hand implement second-chance replacement, call by
\* call (insque_clock, rmelem_clock, remque_clock): who joins where, who gets a
\* second chance, and who is evicted. That a sweep ends is TLC's to check.
THEOREM QueueFollowsPolicy == Spec => Policy!ASafety
  BY QueueInitially, FollowsStep, PTL DEF Spec, Policy!ASafety

-----------------------------------------------------------------------------
(***************************************************************************)
(* LocalFiles: the names on the disks of a node, for any number of names   *)
(* and files. The queue holds the names that are files on the SSD, each    *)
(* once; a link is to the file of its own name.                            *)
(***************************************************************************)
NamesOnce(q) ==
    /\ q \in Seq(Names)
    /\ \A i, j \in DOMAIN q : q[i] = q[j] => i = j

\* A name is not in use, on the SSD, or swapped to the HDD: s, h and v are what
\* it is on the SSD, its HDD file and its file.
Placed(n, s, h, v, q) ==
    \/ s = Absent /\ v = NoFile /\ n \notin ToSet(q)
    \/ s = File(v) /\ v # NoFile /\ n \in ToSet(q)
    \/ s = Link(n) /\ h = v /\ v # NoFile /\ n \notin ToSet(q)

Shaped ==
    /\ ssd = [n \in Names |-> ssd[n]] /\ hdd = [n \in Names |-> hdd[n]]
    /\ view = [n \in Names |-> view[n]] /\ known \subseteq Names
    /\ NamesOnce(queue) /\ ~crashed

Evicting ==
    \/ callback = NoCallback
    \/ /\ callback.op = "create" /\ callback = Creates(callback.n, callback.file)
       /\ callback.n \in Names /\ callback.file # NoFile
       /\ ssd[callback.n] = Absent
    \/ /\ callback.op = "open" /\ callback = Opens(callback.n)
       /\ callback.n \in Names /\ ssd[callback.n] = Link(callback.n)

NInv ==
    /\ Shaped /\ Evicting
    /\ \A n \in Names : Placed(n, ssd[n], hdd[n], view[n], queue)

-----------------------------------------------------------------------------
\* What findelem, insque and rmelem do to a queue that holds a name once.
LEMMA Found ==
    ASSUME NEW q, NamesOnce(q), NEW n \in ToSet(q)
    PROVE  findelem(q, n) \in DOMAIN q /\ q[findelem(q, n)] = n
<1>1. PICK k \in DOMAIN q : q[k] = n
  BY DEF ToSet
<1>2. \A j \in 1..(k - 1) : q[j] # n
  BY <1>1 DEF NamesOnce
<1>3. n \in ToSet(q)
  OBVIOUS
<1>4. QED
  BY <1>1, <1>2, <1>3 DEF findelem

LEMMA NotFound ==
    ASSUME NEW q, NamesOnce(q), NEW n, n \notin ToSet(q)
    PROVE  findelem(q, n) = 0
  BY DEF findelem

LEMMA FoundIsNotZero ==
    ASSUME NEW q, NamesOnce(q), NEW n \in ToSet(q) PROVE findelem(q, n) # 0
<1>1. findelem(q, n) \in DOMAIN q
  BY Found
<1>2. QED
  BY <1>1 DEF NamesOnce

LEMMA Queued ==
    ASSUME NEW q, NamesOnce(q), NEW n \in Names
    PROVE  NamesOnce(insque(q, n)) /\ ToSet(insque(q, n)) = ToSet(q) \cup {n}
<1>1. CASE n \in ToSet(q)
  <2>1. insque(q, n) = q
    BY <1>1, FoundIsNotZero DEF insque
  <2>2. QED
    BY <1>1, <2>1
<1>2. CASE n \notin ToSet(q)
  <2> DEFINE r == Append(q, n)
             k == Len(q) + 1
  <2>1. insque(q, n) = r
    BY <1>2, NotFound DEF insque
  <2>2. r \in Seq(Names) /\ DOMAIN r = 1..k /\ DOMAIN q = 1..(k - 1) /\ k \in Nat
    BY DEF NamesOnce
  <2>3. r[k] = n /\ \A i \in 1..(k - 1) : r[i] = q[i]
    BY DEF NamesOnce
  <2>4. ToSet(r) = ToSet(q) \cup {n}
    <3>1. \A x \in ToSet(r) : x \in ToSet(q) \cup {n}
      BY <2>2, <2>3 DEF ToSet
    <3>2. \A x \in ToSet(q) : x \in ToSet(r)
      BY <2>2, <2>3 DEF ToSet
    <3>3. n \in ToSet(r)
      BY <2>2, <2>3 DEF ToSet
    <3>4. QED
      BY <3>1, <3>2, <3>3
  <2>5. \A i \in 1..(k - 1) : r[i] # n
    BY <1>2, <2>2, <2>3 DEF ToSet
  <2>6. NamesOnce(r)
    BY <2>2, <2>3, <2>5 DEF NamesOnce
  <2>7. QED
    BY <2>1, <2>4, <2>6
<1>3. QED
  BY <1>1, <1>2

LEMMA Unqueued ==
    ASSUME NEW q, NamesOnce(q), NEW n
    PROVE  NamesOnce(rmelem(q, n)) /\ ToSet(rmelem(q, n)) = ToSet(q) \ {n}
<1>1. CASE n \notin ToSet(q)
  <2>1. rmelem(q, n) = q
    BY <1>1, NotFound DEF rmelem
  <2>2. QED
    BY <1>1, <2>1
<1>2. CASE n \in ToSet(q)
  <2> DEFINE k == findelem(q, n)
             r == RemoveAt(q, k)
             l == Len(q)
  <2>1. rmelem(q, n) = r
    BY <1>2, FoundIsNotZero DEF rmelem
  <2>2. l \in Nat /\ DOMAIN q = 1..l /\ k \in 1..l /\ q[k] = n
    BY <1>2, Found DEF NamesOnce
  <2> HIDE DEF k
  <2>3. /\ r \in Seq(Names) /\ Len(r) = l - 1 /\ DOMAIN r = 1..(l - 1)
        /\ \A i \in 1..(l - 1) : r[i] = IF i < k THEN q[i] ELSE q[i + 1]
    <3>1. q \in Seq(Names) /\ k \in 1..Len(q)
      BY <2>2 DEF NamesOnce
    <3>2. /\ r \in Seq(Names) /\ Len(r) = l - 1
          /\ \A i \in 1..(l - 1) : r[i] = IF i < k THEN q[i] ELSE q[i + 1]
      BY <3>1, CutFacts
    <3> HIDE DEF r, l
    <3>3. QED
      BY <3>2
  <2> HIDE DEF r
  <2>4. \A i \in 1..(l - 1) : \E j \in 1..l \ {k} : j = (IF i < k THEN i ELSE i + 1) /\ r[i] = q[j]
    <3> HIDE DEF l
    <3>1. QED
      BY <2>2, <2>3
  <2>5. NamesOnce(r)
    <3>1. ASSUME NEW i \in 1..(l - 1), NEW j \in 1..(l - 1), r[i] = r[j]
          PROVE  i = j
      <4>1. PICK a \in 1..l \ {k} : a = (IF i < k THEN i ELSE i + 1) /\ r[i] = q[a]
        BY <2>4
      <4>2. PICK b \in 1..l \ {k} : b = (IF j < k THEN j ELSE j + 1) /\ r[j] = q[b]
        BY <2>4
      <4>3. a = b
        BY <3>1, <4>1, <4>2, <2>2 DEF NamesOnce
      <4> HIDE DEF l
      <4>4. QED
        BY <4>1, <4>2, <4>3, <2>2
    <3>2. QED
      BY <3>1, <2>3 DEF NamesOnce
  <2>6. ASSUME NEW x \in ToSet(r)
        PROVE  x \in ToSet(q) \ {n}
    <3>1. PICK i \in 1..(l - 1) : r[i] = x
      BY <2>3 DEF ToSet
    <3>2. PICK j \in 1..l \ {k} : x = q[j]
      BY <3>1, <2>4
    <3>3. x # n
      BY <3>2, <2>2 DEF NamesOnce
    <3>4. QED
      BY <3>2, <3>3, <2>2 DEF ToSet
  <2>7. ASSUME NEW x \in ToSet(q) \ {n}
        PROVE  x \in ToSet(r)
    <3>1. PICK i \in 1..l : q[i] = x
      BY <2>2 DEF ToSet
    <3>2. CASE i < k
      BY <3>1, <3>2, <2>2, <2>3 DEF ToSet
    <3>3. CASE i > k
      <4>1. (i - 1) \in 1..(l - 1) /\ r[i - 1] = q[i]
        BY <3>3, <2>2, <2>3
      <4>2. QED
        BY <4>1, <3>1, <2>3 DEF ToSet
    <3>4. QED
      BY <3>1, <3>2, <3>3, <2>2
  <2>8. ToSet(r) = ToSet(q) \ {n}
    BY <2>6, <2>7
  <2>9. QED
    BY <2>1, <2>5, <2>8
<1>3. QED
  BY <1>1, <1>2

\* The cell of n takes the name m.
Relabelled(q, n, m) == [q EXCEPT ![findelem(q, n)] = m]

LEMMA Renamed ==
    ASSUME NEW q, NamesOnce(q), NEW n \in ToSet(q),
           NEW m \in Names, m \notin ToSet(q),
           NEW r, r = Relabelled(q, n, m)
    PROVE  NamesOnce(r) /\ ToSet(r) = (ToSet(q) \ {n}) \cup {m}
<1> DEFINE k == findelem(q, n)
<1>1. k \in DOMAIN q /\ q[k] = n
  BY Found
<1>2. r = [q EXCEPT ![k] = m]
  BY DEF Relabelled
<1> HIDE DEF k
<1>3. r \in Seq(Names) /\ DOMAIN r = DOMAIN q /\ r[k] = m
  BY <1>1, <1>2 DEF NamesOnce
<1>4. \A i \in DOMAIN q \ {k} : r[i] = q[i] /\ q[i] # n /\ q[i] # m
  BY <1>1, <1>2 DEF NamesOnce, ToSet
<1>5. NamesOnce(r)
  BY <1>1, <1>3, <1>4 DEF NamesOnce
<1>6. ToSet(r) = (ToSet(q) \ {n}) \cup {m}
  <2>1. \A x \in ToSet(r) : x \in (ToSet(q) \ {n}) \cup {m}
    BY <1>1, <1>3, <1>4 DEF ToSet
  <2>2. \A x \in ToSet(q) \ {n} : x \in ToSet(r)
    BY <1>1, <1>3, <1>4 DEF ToSet
  <2>3. m \in ToSet(r)
    BY <1>1, <1>3 DEF ToSet
  <2>4. QED
    BY <2>1, <2>2, <2>3
<1>7. QED
  BY <1>5, <1>6

-----------------------------------------------------------------------------
(***************************************************************************)
(* The steps. What is not renamed, created or moved stays placed when the  *)
(* queue changes for another name only.                                    *)
(***************************************************************************)
LEMMA StaysPlaced ==
    ASSUME NEW n, NEW s, NEW h, NEW v, NEW q, NEW r, Placed(n, s, h, v, q),
           n \in ToSet(q) <=> n \in ToSet(r)
    PROVE  Placed(n, s, h, v, r)
  BY DEF Placed

LEMMA InitN == LocalInit => NInv
<1> SUFFICES ASSUME LocalInit PROVE NInv
  OBVIOUS
<1>1. NamesOnce(queue) /\ ToSet(queue) = {}
  BY DEF LocalInit, NamesOnce, ToSet
<1>2. Shaped /\ Evicting
  BY <1>1 DEF LocalInit, Shaped, Evicting
<1>3. \A n \in Names : Placed(n, ssd[n], hdd[n], view[n], queue)
  BY <1>1 DEF LocalInit, Placed
<1>4. QED
  BY <1>2, <1>3 DEF NInv

LEMMA EvictN == NInv /\ evict => NInv'
<1> SUFFICES ASSUME NInv, evict PROVE NInv'
  OBVIOUS
<1> USE DEF NInv, Shaped
<1>1. PICK v \in ToSet(queue) :
          /\ hdd' = IF ssd[v].kind = "file" THEN [hdd EXCEPT ![v] = ssd[v].to] ELSE hdd
          /\ ssd' = IF ssd[v].kind = "link" THEN ssd ELSE [ssd EXCEPT ![v] = Link(v)]
          /\ queue' = rmelem(queue, v)
  BY DEF evict, move_file_ssd
<1>2. v \in Names /\ ssd[v] = File(view[v]) /\ view[v] # NoFile
  BY DEF NamesOnce, ToSet, Placed
<1>3. hdd' = [hdd EXCEPT ![v] = view[v]] /\ ssd' = [ssd EXCEPT ![v] = Link(v)]
  <2>1. ssd[v].kind = "file" /\ ssd[v].to = view[v] /\ ssd[v].kind # "link"
    BY <1>2 DEF File
  <2>2. QED
    BY <1>1, <2>1
<1>4. NamesOnce(queue') /\ ToSet(queue') = ToSet(queue) \ {v}
  BY <1>1, Unqueued
<1>5. view' = view /\ known' = known /\ crashed' = crashed /\ callback' = callback
  BY DEF evict
<1>6. Shaped'
  BY <1>2, <1>3, <1>4, <1>5
<1>7. Evicting'
  <2>1. ASSUME NEW n \in Names, ssd[n] = Absent \/ ssd[n] = Link(n)
        PROVE  ssd'[n] = ssd[n]
    <3>1. n # v
      BY <2>1, <1>2 DEF Absent, Link, File
    <3>2. QED
      BY <3>1, <1>2, <1>3
  <2>2. QED
    BY <2>1, <1>5 DEF Evicting
<1>8. ASSUME NEW n \in Names
      PROVE  Placed(n, ssd'[n], hdd'[n], view'[n], queue')
  <2>1. CASE n = v
    BY <2>1, <1>2, <1>3, <1>4, <1>5 DEF Placed
  <2>2. CASE n # v
    <3>1. ssd'[n] = ssd[n] /\ hdd'[n] = hdd[n] /\ view'[n] = view[n]
      BY <2>2, <1>2, <1>3, <1>5
    <3>2. QED
      BY <2>2, <3>1, <1>4, StaysPlaced
  <2>3. QED
    BY <2>1, <2>2
<1>9. QED
  BY <1>6, <1>7, <1>8

LEMMA CreateN == ASSUME NEW n \in Names PROVE NInv /\ fusion_create(n) => NInv'
<1> SUFFICES ASSUME NInv, fusion_create(n) PROVE NInv'
  OBVIOUS
<1>1. ssd[n] = Absent
  <2>1. ssd[n] \in {Absent, File(view[n]), Link(n)}
    BY DEF NInv, Placed
  <2>2. ssd[n].kind = "absent"
    BY DEF fusion_create
  <2>3. QED
    BY <2>1, <2>2 DEF Absent, File, Link
<1>2. Evicting'
  BY <1>1 DEF fusion_create, Evicting, Creates, NoFile
<1>3. QED
  BY <1>2 DEF fusion_create, NInv, Shaped

LEMMA CreatedN == NInv /\ Created => NInv'
<1> SUFFICES ASSUME NInv, Created PROVE NInv'
  OBVIOUS
<1> USE DEF NInv, Shaped
<1> DEFINE n == callback.n
           i == callback.file
<1>1. n \in Names /\ i # NoFile /\ ssd[n] = Absent
  BY DEF Created, Evicting, NoCallback
<1>2. /\ ssd' = [ssd EXCEPT ![n] = File(i)] /\ hdd' = hdd
      /\ view' = [view EXCEPT ![n] = i] /\ queue' = insque(queue, n)
      /\ known' = known \cup {n} /\ crashed' = crashed /\ callback' = NoCallback
  BY <1>1 DEF Created, Absent
<1> HIDE DEF n, i
<1>3. NamesOnce(queue') /\ ToSet(queue') = ToSet(queue) \cup {n}
  BY <1>1, <1>2, Queued
<1>4. Shaped' /\ Evicting'
  BY <1>1, <1>2, <1>3 DEF Evicting
<1>5. ASSUME NEW m \in Names
      PROVE  Placed(m, ssd'[m], hdd'[m], view'[m], queue')
  <2>1. CASE m = n
    BY <2>1, <1>1, <1>2, <1>3 DEF Placed
  <2>2. CASE m # n
    <3>1. ssd'[m] = ssd[m] /\ hdd'[m] = hdd[m] /\ view'[m] = view[m]
      BY <2>2, <1>1, <1>2
    <3>2. QED
      BY <2>2, <3>1, <1>3, StaysPlaced
  <2>3. QED
    BY <2>1, <2>2
<1>6. QED
  BY <1>4, <1>5

LEMMA OpenN == ASSUME NEW n \in Names PROVE NInv /\ fusion_open(n) => NInv'
<1> SUFFICES ASSUME NInv, fusion_open(n) PROVE NInv'
  OBVIOUS
<1> USE DEF NInv, Shaped
<1>1. CASE is_symlink_ssd(n)
  <2>1. ssd[n] = Link(n)
    BY <1>1 DEF is_symlink_ssd, Placed, Absent, File
  <2>2. QED
    BY <1>1, <2>1 DEF fusion_open, Evicting, Opens
<1>2. CASE ~is_symlink_ssd(n)
  <2>1. n \in ToSet(queue)
    BY <1>2 DEF fusion_open, is_symlink_ssd, Placed, Link
  <2>2. queue' = insque(queue, n) /\ callback' = callback
        /\ UNCHANGED <<ssd, hdd, known, view, crashed>>
    BY <1>2 DEF fusion_open
  <2>3. NamesOnce(queue') /\ ToSet(queue') = ToSet(queue)
    <3>1. NamesOnce(queue)
      OBVIOUS
    <3>2. NamesOnce(insque(queue, n)) /\ ToSet(insque(queue, n)) = ToSet(queue) \cup {n}
      BY <3>1, Queued
    <3>3. QED
      BY <3>2, <2>1, <2>2
  <2>4. Shaped' /\ Evicting'
    BY <2>2, <2>3 DEF Evicting
  <2>5. QED
    BY <2>2, <2>3, <2>4 DEF Placed
<1>3. QED
  BY <1>1, <1>2

LEMMA OpenedN == NInv /\ Opened => NInv'
<1> SUFFICES ASSUME NInv, Opened PROVE NInv'
  OBVIOUS
<1> USE DEF NInv, Shaped
<1> DEFINE n == callback.n
<1>1. n \in Names /\ ssd[n] = Link(n)
  BY DEF Opened, Evicting, NoCallback
<1>2. hdd[n] = view[n] /\ view[n] # NoFile
  BY <1>1 DEF Placed, Absent, File, Link
<1>3. /\ ssd' = [ssd EXCEPT ![n] = File(hdd[n])] /\ hdd' = [hdd EXCEPT ![n] = NoFile]
      /\ view' = view /\ queue' = insque(queue, n)
      /\ known' = known /\ crashed' = crashed /\ callback' = NoCallback
  BY DEF Opened, move_file_hdd
<1> HIDE DEF n
<1>4. NamesOnce(queue') /\ ToSet(queue') = ToSet(queue) \cup {n}
  BY <1>1, <1>3, Queued
<1>5. Shaped' /\ Evicting'
  BY <1>1, <1>3, <1>4 DEF Evicting
<1>6. ASSUME NEW m \in Names
      PROVE  Placed(m, ssd'[m], hdd'[m], view'[m], queue')
  <2>1. CASE m = n
    BY <2>1, <1>1, <1>2, <1>3, <1>4 DEF Placed
  <2>2. CASE m # n
    <3>1. ssd'[m] = ssd[m] /\ hdd'[m] = hdd[m] /\ view'[m] = view[m]
      BY <2>2, <1>1, <1>3
    <3>2. QED
      BY <2>2, <3>1, <1>4, StaysPlaced
  <2>3. QED
    BY <2>1, <2>2
<1>7. QED
  BY <1>5, <1>6

LEMMA UnlinkN == ASSUME NEW n \in Names PROVE NInv /\ fusion_unlink(n) => NInv'
<1> SUFFICES ASSUME NInv, fusion_unlink(n) PROVE NInv'
  OBVIOUS
<1> USE DEF NInv, Shaped
<1>1. /\ ssd' = [ssd EXCEPT ![n] = Absent] /\ view' = [view EXCEPT ![n] = NoFile]
      /\ hdd' = IF is_symlink_ssd(n) THEN [hdd EXCEPT ![n] = NoFile] ELSE hdd
      /\ queue' = rmelem(queue, n) /\ known' = known \ {n}
      /\ crashed' = crashed /\ callback = NoCallback /\ callback' = callback
  BY DEF fusion_unlink
<1>2. NamesOnce(queue') /\ ToSet(queue') = ToSet(queue) \ {n}
  BY <1>1, Unqueued
<1>3. hdd' = [m \in Names |-> hdd'[m]] /\ \A m \in Names \ {n} : hdd'[m] = hdd[m]
  BY <1>1
<1>4. Shaped' /\ Evicting'
  BY <1>1, <1>2, <1>3 DEF Evicting
<1>5. ASSUME NEW m \in Names
      PROVE  Placed(m, ssd'[m], hdd'[m], view'[m], queue')
  <2>1. CASE m = n
    BY <2>1, <1>1, <1>2 DEF Placed
  <2>2. CASE m # n
    <3>1. ssd'[m] = ssd[m] /\ hdd'[m] = hdd[m] /\ view'[m] = view[m]
      BY <2>2, <1>1, <1>3
    <3>2. QED
      BY <2>2, <3>1, <1>2, StaysPlaced
  <2>3. QED
    BY <2>1, <2>2
<1>6. QED
  BY <1>4, <1>5

\* Only what is queued, and so a file on the SSD, is renamed, and only to a name
\* that is free.
LEMMA RenameN ==
    ASSUME ~AnyRename, NEW n \in Names, NEW m \in Names
    PROVE  NInv /\ fusion_rename(n, m) => NInv'
<1> SUFFICES ASSUME NInv, fusion_rename(n, m) PROVE NInv'
  OBVIOUS
<1>0. NamesOnce(queue)
  BY DEF NInv, Shaped
<1> USE DEF NInv, Shaped
<1>1. n # m /\ n \in ToSet(queue) /\ ssd[m] = Absent
      /\ callback = NoCallback /\ callback' = callback /\ known' = known
      /\ view' = [view EXCEPT ![n] = NoFile, ![m] = view[n]]
  BY DEF fusion_rename
<1>2. ssd[n] = File(view[n]) /\ view[n] # NoFile /\ m \notin ToSet(queue)
  BY <1>1 DEF Placed, Absent, File, Link
<1>3. RenameResident(n, m)
  BY <1>2 DEF fusion_rename, is_symlink_ssd, File
<1>4. /\ queue' = [queue EXCEPT ![findelem(queue, n)] = m]
      /\ ssd' = [ssd EXCEPT ![n] = Absent, ![m] = ssd[n]]
      /\ hdd' = hdd /\ crashed' = crashed
  BY <1>1, <1>3, FoundIsNotZero DEF RenameResident, RenameCell
<1>5. NamesOnce(queue') /\ ToSet(queue') = (ToSet(queue) \ {n}) \cup {m}
  <2> HIDE DEF NInv, Shaped
  <2>1. n \in ToSet(queue) /\ m \notin ToSet(queue)
    BY <1>1, <1>2
  <2>2. queue' = Relabelled(queue, n, m)
    BY <1>4 DEF Relabelled
  <2>3. QED
    BY <1>0, <2>1, <2>2, Renamed
<1>6. Shaped' /\ Evicting'
  BY <1>1, <1>4, <1>5 DEF Evicting
<1>7. ASSUME NEW k \in Names
      PROVE  Placed(k, ssd'[k], hdd'[k], view'[k], queue')
  <2>1. CASE k = n
    BY <2>1, <1>1, <1>4, <1>5 DEF Placed
  <2>2. CASE k = m
    BY <2>2, <1>1, <1>2, <1>4, <1>5 DEF Placed
  <2>3. CASE k \notin {n, m}
    <3>1. ssd'[k] = ssd[k] /\ hdd'[k] = hdd[k] /\ view'[k] = view[k]
      BY <2>3, <1>1, <1>4
    <3>2. QED
      BY <2>3, <3>1, <1>5, StaysPlaced
  <2>4. QED
    BY <2>1, <2>2, <2>3
<1>8. QED
  BY <1>6, <1>7

LEMMA NextN == ASSUME ~AnyRename PROVE NInv /\ [LocalNext]_localvars => NInv'
<1> SUFFICES ASSUME NInv, [LocalNext]_localvars PROVE NInv'
  OBVIOUS
<1>1. CASE \E n \in Names :
              \/ fusion_create(n) \/ fusion_open(n) \/ fusion_unlink(n)
              \/ \E m \in Names : fusion_rename(n, m)
  BY <1>1, CreateN, OpenN, UnlinkN, RenameN
<1>2. CASE evict \/ Created \/ Opened
  BY <1>2, EvictN, CreatedN, OpenedN
<1>3. CASE UNCHANGED localvars
  BY <1>3 DEF localvars, NInv, Shaped, Evicting
<1>4. QED
  BY <1>1, <1>2, <1>3 DEF LocalNext

\* Every name leads to the file it was given, for any number of names and files
\* and an SSD of any size, as long as only resident files are renamed, and to
\* free names (fusion_create, _open, _unlink, _rename, move_file_ssd).
THEOREM NamesLead == ASSUME ~AnyRename PROVE LocalSpec => []Readable
<1>1. NInv => Readable
  <2> SUFFICES ASSUME NInv, NEW n \in Names
               PROVE  Read(n) = IF view[n] = NoFile THEN {} ELSE {view[n]}
    BY DEF Readable
  <2>1. CASE ssd[n] = Absent /\ view[n] = NoFile
    BY <2>1 DEF Read, Absent
  <2>2. CASE ssd[n] = File(view[n]) /\ view[n] # NoFile
    BY <2>2 DEF Read, File
  <2>3. CASE ssd[n] = Link(n) /\ hdd[n] = view[n] /\ view[n] # NoFile
    BY <2>3 DEF Read, Link
  <2>4. QED
    BY <2>1, <2>2, <2>3 DEF NInv, Placed
<1>2. QED
  BY <1>1, InitN, NextN, PTL DEF LocalSpec
=============================================================================
