--------------------------- MODULE UdtQueueProofs ----------------------------
(*****************************************************************************)
(* The units of the receiving queue are accounted for, for every size of the *)
(* window, of the entries of the pool and of the packets: the theorem about  *)
(* UdtBuffers. At the end, the heap of the sending queue and its worker, for *)
(* any number of sockets: the theorem about SendSchedule.                    *)
(*                                                                           *)
(* The argument for the units. getNextAvailUnit hands out a unit whose flag  *)
(* is 0 whatever m_iCount says, for it looks at the flags (SearchFinds);     *)
(* increase only adds free units. By the invariant such a unit is at no      *)
(* place of the window, and addData puts it at an empty one. Units are freed *)
(* together with the places that held them (FreeingKeeps); since no other    *)
(* place holds them, the rest of the window keeps its units in use. A        *)
(* message that overtakes changes flags from 1 to 2 only: its places hold    *)
(* units, which are in use.                                                  *)
(*****************************************************************************)
EXTENDS UdtBuffers, SendSchedule, FiniteSetTheorems, WellFoundedInduction, TLAPS

-----------------------------------------------------------------------------
Places == 0..(RcvSize - 1)

\* A pool and a window have the fields that the steps look at.
Pooled(p) ==
    /\ p = [flag |-> p.flag, data |-> p.data, entry |-> p.entry,
            avail |-> p.avail, count |-> p.count]
    /\ \E n \in Nat : p.flag \in [1..n -> 0..2]

Windowed(r) ==
    /\ r = [unit |-> r.unit, start |-> r.start, lastack |-> r.lastack,
            maxpos |-> r.maxpos, notch |-> r.notch, acked |-> r.acked,
            have |-> r.have]
    /\ r.start \in Places /\ r.lastack \in Places
    /\ r.maxpos \in Int /\ r.acked \in Int /\ IsFiniteSet(r.have)

Numbered(s) ==
    /\ s = [ring |-> s.ring, size |-> s.size, first |-> s.first,
            curr |-> s.curr, last |-> s.last, count |-> s.count,
            acked |-> s.acked, top |-> s.top]
    /\ s.acked \in Int /\ s.top \in Int

\* The pool p and the window r agree on the units in use.
Held(p, r) ==
    /\ Pooled(p) /\ Windowed(r)
    /\ r.unit \in [Places -> {NoUnit} \cup DOMAIN p.flag]
    /\ Used(p) = Range(r.unit) \ {NoUnit}
    /\ \A i, j \in Places : r.unit[i] = r.unit[j] /\ r.unit[i] # NoUnit => i = j

BInv == Numbered(snd) /\ Held(pool, rcv)

-----------------------------------------------------------------------------
(*****************************************************************************)
(* Facts the steps rest on.                                                  *)
(*****************************************************************************)
LEMMA ModInPlaces == ASSUME NEW x \in Int PROVE x % RcvSize \in Places
  BY BuffersAssumption DEF Places

LEMMA MaxOfTwo == ASSUME NEW x \in Int, NEW y \in Int PROVE Max({x, y}) \in Int
<1>1. \E z \in {x, y} : \A w \in {x, y} : z >= w
  OBVIOUS
<1>2. Max({x, y}) \in {x, y}
  BY <1>1 DEF Max
<1>3. QED
  BY <1>2

\* A set of numbers that is not empty has a least one, however large it is.
LEMMA MinFacts ==
    ASSUME NEW S \in SUBSET Nat, S # {}
    PROVE  Min(S) \in S /\ \A k \in S : Min(S) <= k
<1> DEFINE Upto == {0..k : k \in S}
<1>1. Upto \subseteq FiniteSubsetsOf(Nat) /\ Upto # {}
  <2>1. ASSUME NEW k \in S PROVE 0..k \in FiniteSubsetsOf(Nat)
    BY FS_Interval DEF FiniteSubsetsOf
  <2>2. QED
    BY <2>1
<1>2. PICK T \in Upto : \A U \in Upto : <<U, T>> \notin StrictSubsetOrdering(Nat)
  <2>1. IsWellFoundedOn(StrictSubsetOrdering(Nat), FiniteSubsetsOf(Nat))
    BY FS_StrictSubsetOrderingWellFounded
  <2> HIDE DEF Upto
  <2>2. QED
    BY <1>1, <2>1, WFMin
<1>3. PICK x \in S : T = 0..x
  BY <1>2
<1>4. ASSUME NEW k \in S, k < x PROVE FALSE
  <2>1. 0..k \in Upto /\ 0..k \in SUBSET Nat /\ 0..x \in SUBSET Nat
    OBVIOUS
  <2>2. 0..k \subseteq 0..x /\ x \in 0..x /\ x \notin 0..k
    BY <1>4
  <2>3. 0..k # 0..x
    BY <2>2
  <2>4. <<0..k, 0..x>> \in StrictSubsetOrdering(Nat)
    BY <2>1, <2>2, <2>3 DEF StrictSubsetOrdering
  <2>5. QED
    BY <1>2, <1>3, <2>1, <2>4
<1>5. \A k \in S : x <= k
  BY <1>4
<1>6. QED
  BY <1>5 DEF Min

\* A set of numbers up to a bound that is not empty has a greatest one.
LEMMA MaxFacts ==
    ASSUME NEW n \in Int, NEW S \in SUBSET (0..n), S # {}
    PROVE  Max(S) \in S
<1> DEFINE Below == {n - k : k \in S}
<1>1. Below \in SUBSET Nat /\ Below # {}
  <2>1. \A k \in S : n - k \in Nat
    OBVIOUS
  <2>2. QED
    BY <2>1
<1>2. Min(Below) \in Below /\ \A k \in Below : Min(Below) <= k
  BY <1>1, MinFacts
<1>3. PICK x \in S : Min(Below) = n - x
  BY <1>2
<1>4. \A k \in S : x >= k
  <2>1. SUFFICES ASSUME NEW k \in S PROVE x >= k
    OBVIOUS
  <2>2. n - k \in Below
    OBVIOUS
  <2>3. n - x <= n - k
    BY <1>2, <1>3, <2>2
  <2>4. QED
    BY <2>3
<1>5. QED
  BY <1>4 DEF Max

\* The units of a pool that has n.
LEMMA UnitsCounted ==
    ASSUME NEW p, NEW n \in Nat, p.flag \in [1..n -> 0..2]
    PROVE  DOMAIN p.flag = 1..n /\ UnitsOf(p) = n
<1>1. DOMAIN p.flag = 1..n
  OBVIOUS
<1>2. Cardinality(1..n) = n
  BY FS_Interval
<1>3. QED
  BY <1>1, <1>2 DEF UnitsOf

\* increase adds free units only.
LEMMA IncreaseKeeps ==
    ASSUME NEW p, Pooled(p)
    PROVE  /\ Pooled(increase(p)) /\ Used(increase(p)) = Used(p)
           /\ DOMAIN p.flag \subseteq DOMAIN increase(p).flag
<1>1. PICK n \in Nat : p.flag \in [1..n -> 0..2]
  BY DEF Pooled
<1>2. DOMAIN p.flag = 1..n /\ UnitsOf(p) = n
  BY <1>1, UnitsCounted
<1>3. PICK q : q = increase(p)
  OBVIOUS
<1> DEFINE more == [u \in 1..(n + EntrySize) |-> IF u <= n THEN p.flag[u] ELSE 0]
<1>4. q.flag = p.flag \/ q.flag = more
  BY <1>2, <1>3 DEF increase, Pooled
<1>5. q = [flag |-> q.flag, data |-> q.data, entry |-> q.entry,
           avail |-> q.avail, count |-> q.count]
  BY <1>3 DEF increase, Pooled
<1>6. CASE q.flag = p.flag
  BY <1>1, <1>3, <1>5, <1>6 DEF Pooled, Used
<1>7. CASE q.flag = more
  <2>1. n + EntrySize \in Nat /\ EntrySize \in Nat /\ EntrySize >= 1
    BY BuffersAssumption
  <2>2. q.flag \in [1..(n + EntrySize) -> 0..2]
    BY <1>1, <1>7, <2>1
  <2>3. DOMAIN q.flag = 1..(n + EntrySize)
    BY <1>7
  <2>4. Pooled(q)
    BY <1>5, <2>1, <2>2 DEF Pooled
  <2>5. Used(q) = Used(p)
    <3>1. ASSUME NEW u \in 1..n
          PROVE  u \in 1..(n + EntrySize) /\ q.flag[u] = p.flag[u]
      <4>1. u \in 1..(n + EntrySize) /\ u <= n
        BY <2>1
      <4>2. QED
        BY <1>7, <4>1
    <3>2. ASSUME NEW u \in 1..(n + EntrySize), u \notin 1..n PROVE q.flag[u] = 0
      <4>1. ~(u <= n)
        BY <2>1, <3>2
      <4>2. QED
        BY <1>7, <4>1
    <3>3. QED
      BY <1>2, <2>3, <3>1, <3>2 DEF Used
  <2>6. QED
    BY <1>2, <1>3, <2>1, <2>3, <2>4, <2>5
<1>8. QED
  BY <1>4, <1>6, <1>7

\* What the search finds is free.
LEMMA SearchFinds ==
    ASSUME NEW p, Pooled(p)
    PROVE  LET x == Searched(p)
           IN /\ Pooled(x.pool) /\ Used(x.pool) = Used(p)
              /\ DOMAIN p.flag \subseteq DOMAIN x.pool.flag
              /\ x.unit = NoUnit \/ x.unit \in DOMAIN x.pool.flag \ Used(x.pool)
<1>1. PICK n \in Nat : p.flag \in [1..n -> 0..2]
  BY DEF Pooled
<1>2. DOMAIN p.flag = 1..n /\ UnitsOf(p) = n
  BY <1>1, UnitsCounted
<1> DEFINE turns == {k \in 0..(Entries(p) - 1) : FreeAt(p, k) # {}}
           k == Min(turns)
           gone == [p EXCEPT !.avail = FirstOf(p.entry)]
           found == [p EXCEPT !.entry = EntryAt(p, k), !.avail = NextFree(p, k)]
<1>3. PICK x : x = Searched(p)
  OBVIOUS
<1>4. CASE turns = {}
  <2>1. x = [pool |-> increase(gone), unit |-> NoUnit]
    BY <1>3, <1>4 DEF Searched
  <2>2. PICK g : g = gone
    OBVIOUS
  <2>3. Pooled(g) /\ g.flag = p.flag
    BY <2>2 DEF Pooled
  <2>4. Pooled(increase(g)) /\ Used(increase(g)) = Used(g)
        /\ DOMAIN g.flag \subseteq DOMAIN increase(g).flag
    BY <2>3, IncreaseKeeps
  <2>5. Used(g) = Used(p)
    BY <2>3 DEF Used
  <2>6. QED
    BY <1>3, <2>1, <2>2, <2>3, <2>4, <2>5
<1>5. CASE turns # {}
  <2>1. x = [pool |-> found, unit |-> NextFree(p, k)]
    BY <1>3, <1>5 DEF Searched
  <2>2. k \in turns
    <3>1. Entries(p) \in Int
      BY <1>2, BuffersAssumption DEF Entries
    <3>2. turns \in SUBSET Nat
      BY <3>1
    <3> HIDE DEF turns
    <3>3. QED
      BY <1>5, <3>2, MinFacts
  <2>3. FreeAt(p, k) # {} /\ FreeAt(p, k) \subseteq DOMAIN p.flag \ Used(p)
    BY <2>2 DEF FreeAt
  <2> HIDE DEF turns, k
  <2>4. NextFree(p, k) \in FreeAt(p, k)
    <3>1. PICK S : /\ S = IF {u \in FreeAt(p, k) : u >= StartAt(p, k)} # {}
                          THEN {u \in FreeAt(p, k) : u >= StartAt(p, k)}
                          ELSE FreeAt(p, k)
      OBVIOUS
    <3>2. S \subseteq FreeAt(p, k) /\ S # {}
      BY <2>3, <3>1
    <3>3. S \in SUBSET Nat
      BY <1>2, <2>3, <3>2
    <3>4. Min(S) \in S
      BY <3>2, <3>3, MinFacts
    <3>5. NextFree(p, k) = Min(S)
      BY <3>1 DEF NextFree
    <3>6. QED
      BY <3>2, <3>4, <3>5
  <2>5. PICK g : g = found
    OBVIOUS
  <2>6. Pooled(g) /\ g.flag = p.flag
    BY <2>5 DEF Pooled
  <2>7. Used(g) = Used(p)
    BY <2>6 DEF Used
  <2>8. x.pool = g /\ x.unit = NextFree(p, k)
    BY <2>1, <2>5
  <2>9. x.unit \in DOMAIN x.pool.flag \ Used(x.pool)
    BY <2>3, <2>4, <2>6, <2>7, <2>8
  <2>10. QED
    BY <1>3, <2>6, <2>7, <2>8, <2>9
<1>6. QED
  BY <1>4, <1>5

LEMMA NextAvailUnit ==
    ASSUME Pooled(pool)
    PROVE  LET x == getNextAvailUnit
           IN /\ Pooled(x.pool) /\ Used(x.pool) = Used(pool)
              /\ DOMAIN pool.flag \subseteq DOMAIN x.pool.flag
              /\ x.unit = NoUnit \/ x.unit \in DOMAIN x.pool.flag \ Used(x.pool)
<1>1. PICK p : p = IF pool.count * 10 > UnitsOf(pool) * 9 THEN increase(pool) ELSE pool
  OBVIOUS
<1>2. Pooled(p) /\ Used(p) = Used(pool) /\ DOMAIN pool.flag \subseteq DOMAIN p.flag
  BY <1>1, IncreaseKeeps
<1>3. PICK x : x = getNextAvailUnit
  OBVIOUS
<1>4. x = [pool |-> p, unit |-> NoUnit] \/ x = Searched(p)
  BY <1>1, <1>3 DEF getNextAvailUnit
<1>5. CASE x = [pool |-> p, unit |-> NoUnit]
  BY <1>2, <1>3, <1>5
<1>6. CASE x = Searched(p)
  BY <1>2, <1>3, <1>6, SearchFinds
<1>7. QED
  BY <1>4, <1>5, <1>6

-----------------------------------------------------------------------------
(*****************************************************************************)
(* The window.                                                               *)
(*****************************************************************************)
LEMMA InWindow ==
    ASSUME NEW r, Windowed(r), NEW i \in Int
    PROVE  At(r, i) \in Places
<1>1. r.start + i \in Int
  BY BuffersAssumption DEF Windowed, Places
<1>2. QED
  BY <1>1, ModInPlaces DEF At

LEMMA FirstInWindow ==
    ASSUME NEW r, Windowed(r), NEW n \in Int
    PROVE  First(r, n) \subseteq Places
<1>1. \A i \in 0..(n - 1) : At(r, i) \in Places
  BY InWindow
<1>2. QED
  BY <1>1 DEF First

\* Places are emptied and their units freed.
LEMMA FreeingKeeps ==
    ASSUME NEW p, NEW r, Held(p, r), NEW places \in SUBSET Places,
           NEW start \in Places, NEW lost
    PROVE  Held(Freed(p, r, places, lost), Emptied(r, places, start))
<1> DEFINE out == {r.unit[i] : i \in places} \ {NoUnit}
<1>1. PICK q : q = Freed(p, r, places, lost)
  OBVIOUS
<1>2. PICK w : w = Emptied(r, places, start)
  OBVIOUS
<1>3. PICK n \in Nat : p.flag \in [1..n -> 0..2]
  BY DEF Held, Pooled
<1>4. DOMAIN p.flag = 1..n /\ DOMAIN r.unit = Places
  BY <1>3 DEF Held
<1>5. q.flag = [u \in 1..n |-> IF u \in out THEN 0 ELSE p.flag[u]]
  BY <1>1, <1>4 DEF Freed, Held, Pooled
<1>6. w.unit = [i \in Places |-> IF i \in places THEN NoUnit ELSE r.unit[i]]
  BY <1>2, <1>4 DEF Emptied, Held, Windowed
<1>7. Pooled(q)
  <2>1. q = [flag |-> q.flag, data |-> q.data, entry |-> q.entry,
             avail |-> q.avail, count |-> q.count]
    BY <1>1 DEF Freed, Held, Pooled
  <2>2. q.flag \in [1..n -> 0..2]
    BY <1>3, <1>5
  <2>3. QED
    BY <2>1, <2>2 DEF Pooled
<1>8. Windowed(w)
  <2>1. w = [unit |-> w.unit, start |-> start, lastack |-> r.lastack,
             maxpos |-> r.maxpos, notch |-> r.notch, acked |-> r.acked,
             have |-> r.have]
    BY <1>2 DEF Emptied, Held, Windowed
  <2>2. QED
    BY <2>1 DEF Held, Windowed
<1>9. \A i \in Places : r.unit[i] = NoUnit \/ r.unit[i] \in 1..n
  BY <1>4 DEF Held
<1>10. w.unit \in [Places -> {NoUnit} \cup DOMAIN q.flag]
  <2>1. \A i \in Places : w.unit[i] \in {NoUnit} \cup 1..n
    BY <1>6, <1>9
  <2>2. QED
    BY <1>5, <1>6, <2>1
<1>11. \A i, j \in Places : w.unit[i] = w.unit[j] /\ w.unit[i] # NoUnit => i = j
  BY <1>6 DEF Held
<1>12. Used(q) = Range(w.unit) \ {NoUnit}
  <2>1. \A u \in 1..n : p.flag[u] # 0 <=> \E i \in Places : r.unit[i] = u
    <3>1. Used(p) = {u \in 1..n : p.flag[u] # 0}
      BY <1>4 DEF Used
    <3>2. Range(r.unit) = {r.unit[i] : i \in Places}
      BY <1>4 DEF Range
    <3>3. NoUnit \notin 1..n
      BY DEF NoUnit
    <3>4. Used(p) = Range(r.unit) \ {NoUnit}
      BY DEF Held
    <3>5. QED
      BY <3>1, <3>2, <3>3, <3>4
  <2>2. \A u \in 1..n : q.flag[u] # 0 <=> \E i \in Places : w.unit[i] = u
    <3>1. SUFFICES ASSUME NEW u \in 1..n
                   PROVE  q.flag[u] # 0 <=> \E i \in Places : w.unit[i] = u
      OBVIOUS
    <3>2. u # NoUnit
      BY DEF NoUnit
    <3>3. CASE u \in out
      <4>1. q.flag[u] = 0
        BY <1>5, <3>3
      <4>2. PICK k \in places : r.unit[k] = u
        BY <3>3
      <4>3. \A i \in Places : r.unit[i] = u => i = k
        BY <3>2, <4>2 DEF Held
      <4>4. \A i \in Places : w.unit[i] # u
        BY <1>6, <3>2, <4>2, <4>3
      <4>5. QED
        BY <4>1, <4>4
    <3>4. CASE u \notin out
      <4>1. q.flag[u] = p.flag[u]
        BY <1>5, <3>4
      <4>2. \A i \in Places : r.unit[i] = u <=> w.unit[i] = u
        <5>1. \A i \in places : r.unit[i] # u
          BY <3>2, <3>4
        <5>2. QED
          BY <1>6, <3>2, <5>1
      <4>3. QED
        BY <2>1, <4>1, <4>2
    <3>5. QED
      BY <3>3, <3>4
  <2>3. Used(q) = {u \in 1..n : q.flag[u] # 0}
    BY <1>5 DEF Used
  <2>4. Range(w.unit) = {w.unit[i] : i \in Places}
    BY <1>6 DEF Range
  <2>5. \A i \in Places : w.unit[i] = NoUnit \/ w.unit[i] \in 1..n
    BY <1>6, <1>9
  <2>6. NoUnit \notin 1..n
    BY DEF NoUnit
  <2>7. QED
    BY <2>2, <2>3, <2>4, <2>5, <2>6
<1>13. QED
  BY <1>1, <1>2, <1>7, <1>8, <1>10, <1>11, <1>12 DEF Held

-----------------------------------------------------------------------------
(*****************************************************************************)
(* One lemma per operation.                                                  *)
(*****************************************************************************)
\* More units, of which none more is used, change nothing for the window.
LEMMA MoreUnits ==
    ASSUME NEW p, NEW q, NEW r, Held(p, r), Pooled(q), Used(q) = Used(p),
           DOMAIN p.flag \subseteq DOMAIN q.flag
    PROVE  Held(q, r)
<1>1. r.unit \in [Places -> {NoUnit} \cup DOMAIN p.flag]
  BY DEF Held
<1>2. r.unit \in [Places -> {NoUnit} \cup DOMAIN q.flag]
  BY <1>1
<1>3. QED
  BY <1>2 DEF Held

LEMMA AddDataKeeps ==
    ASSUME Held(pool, rcv), NEW p, p.seq \in Int, NEW lost, addData(p, lost)
    PROVE  Held(pool', rcv')
<1> DEFINE offset == p.seq - rcv.acked
           pos == (rcv.lastack + offset) % RcvSize
<1>1. PICK x : x = getNextAvailUnit
  OBVIOUS
<1>2. /\ Pooled(x.pool) /\ Used(x.pool) = Used(pool)
      /\ DOMAIN pool.flag \subseteq DOMAIN x.pool.flag
      /\ x.unit = NoUnit \/ x.unit \in DOMAIN x.pool.flag \ Used(x.pool)
  BY <1>1, NextAvailUnit DEF Held
<1>3. Held(x.pool, rcv)
  BY <1>2, MoreUnits
<1>4. offset \in Int /\ pos \in Places /\ rcv.maxpos \in Int
  <2>1. offset \in Int /\ rcv.lastack \in Int /\ rcv.maxpos \in Int
    BY BuffersAssumption DEF Held, Windowed, Places
  <2>2. QED
    BY <2>1, ModInPlaces
<1>5. Max({rcv.maxpos, offset}) \in Int
  BY <1>4, MaxOfTwo
<1>6. \/ pool' = x.pool /\ rcv' = rcv
      \/ pool' = x.pool /\ rcv' = [rcv EXCEPT !.maxpos = Max({@, offset})]
      \/ /\ x.unit # NoUnit /\ rcv.unit[pos] = NoUnit
         /\ pool' = [x.pool EXCEPT !.flag[x.unit] = 1, !.data[x.unit] = p.block,
                                   !.count = IF lost THEN @ ELSE @ + 1]
         /\ rcv' = [rcv EXCEPT !.maxpos = Max({@, offset}), !.unit[pos] = x.unit,
                               !.have = @ \cup {p.seq}]
  BY <1>1 DEF addData
<1>7. CASE pool' = x.pool /\ rcv' = rcv
  BY <1>3, <1>7
<1>8. CASE pool' = x.pool /\ rcv' = [rcv EXCEPT !.maxpos = Max({@, offset})]
  <2>1. rcv' = [unit |-> rcv.unit, start |-> rcv.start, lastack |-> rcv.lastack,
                maxpos |-> Max({rcv.maxpos, offset}), notch |-> rcv.notch,
                acked |-> rcv.acked, have |-> rcv.have]
    BY <1>8 DEF Held, Windowed
  <2>2. PICK w : w = rcv'
    OBVIOUS
  <2>3. Windowed(w) /\ w.unit = rcv.unit
    BY <1>5, <2>1, <2>2 DEF Held, Windowed
  <2>4. Held(x.pool, w)
    BY <1>3, <2>3 DEF Held
  <2>5. QED
    BY <1>8, <2>2, <2>4
<1>9. CASE /\ x.unit # NoUnit /\ rcv.unit[pos] = NoUnit
           /\ pool' = [x.pool EXCEPT !.flag[x.unit] = 1, !.data[x.unit] = p.block,
                                     !.count = IF lost THEN @ ELSE @ + 1]
           /\ rcv' = [rcv EXCEPT !.maxpos = Max({@, offset}), !.unit[pos] = x.unit,
                                 !.have = @ \cup {p.seq}]
  <2>1. PICK q : q = x.pool
    OBVIOUS
  <2>2. PICK u : u = x.unit
    OBVIOUS
  <2>3. PICK n \in Nat : q.flag \in [1..n -> 0..2]
    BY <1>2, <2>1 DEF Pooled
  <2>4. DOMAIN q.flag = 1..n /\ u \in 1..n /\ u \notin Used(q) /\ u # NoUnit
    BY <1>2, <1>9, <2>1, <2>2, <2>3
  <2>5. PICK v : v = pool'
    OBVIOUS
  <2>6. PICK w : w = rcv'
    OBVIOUS
  <2>7. /\ v = [flag |-> v.flag, data |-> v.data, entry |-> v.entry,
                avail |-> v.avail, count |-> v.count]
        /\ v.flag = [q.flag EXCEPT ![u] = 1]
    BY <1>2, <1>9, <2>1, <2>2, <2>5 DEF Pooled
  <2>8. w = [unit |-> [rcv.unit EXCEPT ![pos] = u], start |-> rcv.start,
             lastack |-> rcv.lastack, maxpos |-> Max({rcv.maxpos, offset}),
             notch |-> rcv.notch, acked |-> rcv.acked,
             have |-> rcv.have \cup {p.seq}]
    BY <1>9, <2>2, <2>6 DEF Held, Windowed
  <2>9. PICK f : f = rcv.unit
    OBVIOUS
  <2>10. PICK k \in Places : k = pos
    BY <1>4
  <2>11. f \in [Places -> {NoUnit} \cup 1..n] /\ f[k] = NoUnit
    BY <1>3, <1>9, <2>1, <2>4, <2>9, <2>10 DEF Held
  <2>12. w.unit = [f EXCEPT ![k] = u]
    BY <2>8, <2>9, <2>10
  <2>13. Pooled(v) /\ DOMAIN v.flag = 1..n
    BY <2>3, <2>4, <2>7 DEF Pooled
  <2>14. Windowed(w)
    <3>1. IsFiniteSet(rcv.have \cup {p.seq})
      BY FS_AddElement DEF Held, Windowed
    <3>2. QED
      BY <1>5, <2>8, <3>1 DEF Held, Windowed
  <2>15. w.unit \in [Places -> {NoUnit} \cup 1..n]
    BY <2>4, <2>11, <2>12
  <2>16. Used(q) = Range(f) \ {NoUnit}
    BY <1>3, <2>1, <2>9 DEF Held
  <2>17. Range(f) = {f[i] : i \in Places} /\ Range(w.unit) = {w.unit[i] : i \in Places}
    BY <2>11, <2>15 DEF Range
  <2>18. \A i \in Places : f[i] # u
    BY <2>4, <2>16, <2>17
  <2>19. Used(v) = Used(q) \cup {u}
    BY <2>3, <2>4, <2>7, <2>13 DEF Used
  <2>20. Range(w.unit) \ {NoUnit} = (Range(f) \ {NoUnit}) \cup {u}
    <3>1. \A i \in Places : w.unit[i] = IF i = k THEN u ELSE f[i]
      BY <2>11, <2>12
    <3>2. QED
      BY <2>4, <2>11, <2>17, <3>1
  <2>21. \A i, j \in Places : f[i] = f[j] /\ f[i] # NoUnit => i = j
    BY <1>3, <2>9 DEF Held
  <2>22. \A i, j \in Places : w.unit[i] = w.unit[j] /\ w.unit[i] # NoUnit => i = j
    <3>1. \A i \in Places : w.unit[i] = IF i = k THEN u ELSE f[i]
      BY <2>11, <2>12
    <3>2. QED
      BY <2>18, <2>21, <3>1
  <2>23. Held(v, w)
    BY <2>13, <2>14, <2>15, <2>16, <2>19, <2>20, <2>22 DEF Held
  <2>24. QED
    BY <2>5, <2>6, <2>23
<1>10. QED
  BY <1>6, <1>7, <1>8, <1>9

LEMMA SendsKeeps ==
    ASSUME BInv, NEW len, NEW have, NEW order, Sends(len, have, order)
    PROVE  BInv'
<1>1. PICK r : r = RoomFor(snd, Blocks(len))
  OBVIOUS
<1>2. PICK f : f = Filled(r, Pieces(len, have, order))
  OBVIOUS
<1>3. PICK s : s = snd'
  OBVIOUS
<1>4. r = [ring |-> r.ring, size |-> r.size, first |-> r.first, curr |-> r.curr,
           last |-> r.last, count |-> r.count, acked |-> snd.acked, top |-> snd.top]
  BY <1>1 DEF RoomFor, increased, BInv, Numbered
<1>5. f = [ring |-> f.ring, size |-> f.size, first |-> f.first, curr |-> f.curr,
           last |-> f.last, count |-> f.count, acked |-> snd.acked, top |-> snd.top]
  <2>1. PICK ring, last : f = [r EXCEPT !.ring = ring, !.last = last]
    BY <1>2 DEF Filled
  <2>2. f = [ring |-> ring, size |-> r.size, first |-> r.first, curr |-> r.curr,
             last |-> last, count |-> r.count, acked |-> snd.acked, top |-> snd.top]
    <3>1. PICK a, b, c, d, e, g : r = [ring |-> a, size |-> b, first |-> c,
              curr |-> d, last |-> e, count |-> g, acked |-> snd.acked, top |-> snd.top]
      BY <1>4
    <3>2. QED
      BY <2>1, <3>1
  <2>3. QED
    BY <2>2
<1>6. s = [f EXCEPT !.count = @ + Blocks(len)] /\ rcv' = rcv /\ pool' = pool
  BY <1>1, <1>2, <1>3 DEF Sends
<1>7. s = [ring |-> s.ring, size |-> s.size, first |-> s.first, curr |-> s.curr,
           last |-> s.last, count |-> s.count, acked |-> snd.acked, top |-> snd.top]
  BY <1>5, <1>6
<1>8. Numbered(s)
  BY <1>7 DEF BInv, Numbered
<1>9. QED
  BY <1>3, <1>6, <1>8 DEF BInv

LEMMA AckDataSndKeeps == ASSUME BInv, ackDataSnd PROVE BInv'
<1>1. PICK s : s = snd'
  OBVIOUS
<1>2. s = [ring |-> s.ring, size |-> s.size, first |-> s.first, curr |-> s.curr,
           last |-> s.last, count |-> s.count, acked |-> rcv.acked, top |-> snd.top]
  BY <1>1 DEF ackDataSnd, BInv, Numbered
<1>3. rcv' = rcv /\ pool' = pool
  BY DEF ackDataSnd
<1>4. Numbered(s)
  BY <1>2 DEF BInv, Numbered, Held, Windowed
<1>5. QED
  BY <1>1, <1>3, <1>4 DEF BInv

LEMMA AckDataKeeps == ASSUME BInv, ackData PROVE BInv'
<1>1. PICK len \in 1..Cardinality(rcv.have) :
          rcv' = [rcv EXCEPT !.lastack = (@ + len) % RcvSize,
                             !.maxpos = Max({@ - len, 0}),
                             !.acked = @ + len,
                             !.have = {s \in @ : s >= rcv.acked + len}]
  BY DEF ackData
<1>2. Windowed(rcv)
  BY DEF BInv, Held
<1>3. len \in Int
  <2>1. Cardinality(rcv.have) \in Nat
    BY <1>2, FS_CardinalityType DEF Windowed
  <2>2. QED
    BY <2>1
<1>4. PICK w : w = rcv'
  OBVIOUS
<1>5. w = [unit |-> rcv.unit, start |-> rcv.start,
           lastack |-> (rcv.lastack + len) % RcvSize,
           maxpos |-> Max({rcv.maxpos - len, 0}), notch |-> rcv.notch,
           acked |-> rcv.acked + len,
           have |-> {s \in rcv.have : s >= rcv.acked + len}]
  BY <1>1, <1>2, <1>4 DEF Windowed
<1>6. (rcv.lastack + len) % RcvSize \in Places
  <2>1. rcv.lastack + len \in Int
    BY <1>2, <1>3, BuffersAssumption DEF Windowed, Places
  <2>2. QED
    BY <2>1, ModInPlaces
<1>7. Max({rcv.maxpos - len, 0}) \in Int
  <2>1. rcv.maxpos - len \in Int
    BY <1>2, <1>3 DEF Windowed
  <2>2. QED
    BY <2>1, MaxOfTwo
<1>8. IsFiniteSet({s \in rcv.have : s >= rcv.acked + len})
  BY <1>2, FS_Subset DEF Windowed
<1>9. Windowed(w) /\ w.unit = rcv.unit
  BY <1>2, <1>3, <1>5, <1>6, <1>7, <1>8 DEF Windowed
<1>10. snd' = snd /\ pool' = pool
  BY DEF ackData
<1>11. Held(pool, w)
  BY <1>9 DEF BInv, Held
<1>12. QED
  BY <1>4, <1>10, <1>11 DEF BInv

\* A packet that is sent arrives or does not.
LEMMA TransmittedKeeps ==
    ASSUME BInv, NEW seq \in Int, NEW at, Transmitted(seq, at)
    PROVE  Held(pool', rcv')
<1>1. CASE rcv' = rcv /\ pool' = pool
  BY <1>1 DEF BInv
<1>2. CASE \E lost \in MayLose : addData([seq |-> seq, block |-> snd.ring[at]], lost)
  <2>1. PICK lost \in MayLose : addData([seq |-> seq, block |-> snd.ring[at]], lost)
    BY <1>2
  <2>2. PICK p : p = [seq |-> seq, block |-> snd.ring[at]]
    OBVIOUS
  <2>3. addData(p, lost) /\ p.seq \in Int
    BY <2>1, <2>2
  <2>4. QED
    BY <2>3, AddDataKeeps DEF BInv
<1>3. QED
  BY <1>1, <1>2 DEF Transmitted

LEMMA ReadDataKeeps == ASSUME BInv, readData PROVE BInv'
<1>1. Transmitted(snd.top, snd.curr) /\ snd.top \in Int
  BY DEF readData, BInv, Numbered
<1>2. PICK s : s = snd'
  OBVIOUS
<1>3. s = [ring |-> snd.ring, size |-> snd.size, first |-> snd.first,
           curr |-> (snd.curr + 1) % snd.size, last |-> snd.last,
           count |-> snd.count, acked |-> snd.acked, top |-> snd.top + 1]
  BY <1>2 DEF readData, BInv, Numbered
<1>4. Numbered(s)
  BY <1>3 DEF BInv, Numbered
<1>5. Held(pool', rcv')
  BY <1>1, TransmittedKeeps
<1>6. QED
  BY <1>2, <1>4, <1>5 DEF BInv

LEMMA ReadDataAtKeeps ==
    ASSUME BInv, NEW offset \in Int, readDataAt(offset)
    PROVE  BInv'
<1>1. /\ Transmitted(snd.acked + offset, (snd.first + offset) % snd.size)
      /\ snd.acked + offset \in Int /\ snd' = snd
  BY DEF readDataAt, BInv, Numbered
<1>2. Held(pool', rcv')
  BY <1>1, TransmittedKeeps
<1>3. QED
  BY <1>1, <1>2 DEF BInv

LEMMA ReadBufferKeeps ==
    ASSUME BInv, NEW len, NEW lost, readBuffer(len, lost)
    PROVE  BInv'
<1>1. PICK N : N = Len([i \in 1..getRcvDataSize(rcv) |->
                         pool.data[rcv.unit[At(rcv, i - 1)]].bytes])
  OBVIOUS
<1>2. getRcvDataSize(rcv) \in Nat
  BY ModInPlaces, BuffersAssumption DEF getRcvDataSize, BInv, Held, Windowed, Places
<1>3. N \in Nat
  BY <1>1, <1>2
<1>3a. PICK n \in 0..N : \E notch :
          /\ rcv' = [Emptied(rcv, First(rcv, n), At(rcv, n)) EXCEPT !.notch = notch]
          /\ pool' = Freed(pool, rcv, First(rcv, n), IF lost THEN 1 ELSE 0)
  BY <1>1 DEF readBuffer
<1>4. PICK notch :
          /\ rcv' = [Emptied(rcv, First(rcv, n), At(rcv, n)) EXCEPT !.notch = notch]
          /\ pool' = Freed(pool, rcv, First(rcv, n), IF lost THEN 1 ELSE 0)
  BY <1>3a
<1>5. First(rcv, n) \in SUBSET Places /\ At(rcv, n) \in Places
  BY <1>3, FirstInWindow, InWindow DEF BInv, Held
<1>6. PICK w : w = Emptied(rcv, First(rcv, n), At(rcv, n))
  OBVIOUS
<1>7. Held(pool', w)
  BY <1>4, <1>5, <1>6, FreeingKeeps DEF BInv
<1>8. PICK v : v = rcv'
  OBVIOUS
<1>9. v = [w EXCEPT !.notch = notch]
  BY <1>4, <1>6, <1>8
<1>10. v = [unit |-> w.unit, start |-> w.start, lastack |-> w.lastack,
            maxpos |-> w.maxpos, notch |-> notch, acked |-> w.acked,
            have |-> w.have]
  BY <1>7, <1>9 DEF Held, Windowed
<1>11. Windowed(v) /\ v.unit = w.unit
  BY <1>7, <1>10 DEF Held, Windowed
<1>12. Held(pool', v)
  BY <1>7, <1>11 DEF Held
<1>13. snd' = snd
  BY DEF readBuffer
<1>14. QED
  BY <1>8, <1>12, <1>13 DEF BInv

\* What scanMsg finds is between two places of the window.
LEMMA ScanFinds ==
    ASSUME NEW p, NEW r, Windowed(r), scanMsg(p, r).found
    PROVE  scanMsg(p, r).p \in Places /\ scanMsg(p, r).q \in Places
<1> DEFINE last == r.maxpos + getRcvDataSize(r)
           whole == {k \in 0..last : Whole(p, r, k)}
           i == IF whole # {} THEN Min(whole) ELSE last
           heads == Heads(p, r, i)
           head == IF heads = {} THEN -1 ELSE At(r, Max(heads))
<1>1. PICK s : s = scanMsg(p, r)
  OBVIOUS
<1>2. \/ /\ whole # {} /\ s.p = head /\ s.q = At(r, i)
      \/ /\ whole = {} /\ s.p = head /\ s.q = At(r, i + 1)
         /\ At(r, i + 2) = head
  BY <1>1 DEF scanMsg
<1>3. getRcvDataSize(r) \in Int
  BY ModInPlaces, BuffersAssumption DEF getRcvDataSize, Windowed, Places
<1>4. last \in Int
  BY <1>3 DEF Windowed
<1>5. CASE whole # {}
  <2>1. whole \in SUBSET Nat
    BY <1>4
  <2>2. Min(whole) \in whole
    <3> HIDE DEF whole
    <3>1. QED
      BY <1>5, <2>1, MinFacts
  <2>3. i \in whole /\ i \in Int /\ Whole(p, r, i)
    BY <1>4, <1>5, <2>2
  <2>4. heads # {} /\ heads \in SUBSET (0..i)
    BY <2>3 DEF Whole, Heads
  <2>5. Max(heads) \in heads
    <3> HIDE DEF heads, i
    <3>1. QED
      BY <2>3, <2>4, MaxFacts
  <2>6. head = At(r, Max(heads)) /\ Max(heads) \in Int
    <3> HIDE DEF heads, i
    <3>1. Max(heads) \in 0..i
      BY <2>4, <2>5
    <3>2. head = At(r, Max(heads))
      BY <2>4
    <3>3. QED
      BY <2>3, <3>1, <3>2
  <2>7. head \in Places /\ At(r, i) \in Places
    <3> HIDE DEF heads, i
    <3>1. At(r, Max(heads)) \in Places /\ At(r, i) \in Places
      BY <2>3, <2>6, InWindow
    <3>2. QED
      BY <2>6, <3>1
  <2>8. QED
    BY <1>1, <1>2, <1>5, <2>7
<1>6. CASE whole = {}
  <2>1. i + 1 \in Int /\ i + 2 \in Int
    BY <1>4, <1>6
  <2>2. At(r, i + 1) \in Places /\ At(r, i + 2) \in Places
    <3> HIDE DEF i
    <3>1. QED
      BY <2>1, InWindow
  <2>3. QED
    BY <1>1, <1>2, <1>6, <2>2
<1>7. QED
  BY <1>5, <1>6

\* Marking units of the window as read keeps them in use.
LEMMA MarkingKeeps ==
    ASSUME NEW p, NEW r, Held(p, r), NEW read \in SUBSET Places, NEW q,
           q = [p EXCEPT !.flag = [u \in DOMAIN @ |->
                   IF \E i \in read : r.unit[i] = u THEN 2 ELSE @[u]]]
    PROVE  Held(q, r)
<1>1. PICK n \in Nat : p.flag \in [1..n -> 0..2]
  BY DEF Held, Pooled
<1>2. q.flag = [u \in 1..n |-> IF \E i \in read : r.unit[i] = u THEN 2 ELSE p.flag[u]]
  BY <1>1 DEF Held, Pooled
<1>3. q = [flag |-> q.flag, data |-> q.data, entry |-> q.entry,
           avail |-> q.avail, count |-> q.count]
  BY DEF Held, Pooled
<1>4. Pooled(q)
  <2>1. q.flag \in [1..n -> 0..2]
    BY <1>1, <1>2
  <2>2. QED
    BY <1>3, <2>1 DEF Pooled
<1>5. \A u \in 1..n : q.flag[u] # 0 <=> p.flag[u] # 0
  <2> SUFFICES ASSUME NEW u \in 1..n, NEW i \in read, r.unit[i] = u
               PROVE  p.flag[u] # 0
    BY <1>2
  <2>2. u # NoUnit /\ u \in Range(r.unit)
    BY DEF NoUnit, Held, Range
  <2>3. u \in Used(p)
    BY <2>2 DEF Held
  <2>4. QED
    BY <2>3 DEF Used
<1>6. Used(q) = Used(p)
  BY <1>1, <1>2, <1>5 DEF Used
<1>7. DOMAIN p.flag \subseteq DOMAIN q.flag
  BY <1>1, <1>2
<1>8. QED
  BY <1>4, <1>6, <1>7, MoreUnits

LEMMA ReadMsgKeeps ==
    ASSUME BInv, NEW lost, readMsg(lost)
    PROVE  BInv'
<1> DEFINE k == Skipped(pool, rcv)
           r == Emptied(rcv, First(rcv, k), At(rcv, k))
           pl == Freed(pool, rcv, First(rcv, k), 0)
           s == scanMsg(pl, r)
           at == FromTo(s.p, s.q)
<1>6. \/ rcv' = r /\ pool' = pl
      \/ /\ s.found /\ rcv' = r
         /\ pool' = [pl EXCEPT !.flag = [u \in DOMAIN @ |->
                        IF \E i \in DOMAIN at : r.unit[at[i]] = u THEN 2 ELSE @[u]]]
      \/ /\ s.found
         /\ rcv' = Emptied(r, Range(at), (s.q + 1) % RcvSize)
         /\ pool' = Freed(pl, r, Range(at), IF lost THEN 1 ELSE 0)
  BY DEF readMsg
<1>7. k \in Int
  <2>1. getRcvDataSize(rcv) \in Nat
    BY ModInPlaces, BuffersAssumption DEF getRcvDataSize, BInv, Held, Windowed, Places
  <2>2. PICK S : S = {i \in 0..getRcvDataSize(rcv) :
                        i = getRcvDataSize(rcv) \/ Good(pool, rcv, i)}
    OBVIOUS
  <2>3. S \in SUBSET Nat /\ S # {}
    BY <2>1, <2>2
  <2>4. QED
    BY <2>2, <2>3, MinFacts DEF Skipped
<1> HIDE DEF k
<1>8. Held(pl, r)
  <2>1. First(rcv, k) \in SUBSET Places /\ At(rcv, k) \in Places
    BY <1>7, FirstInWindow, InWindow DEF BInv, Held
  <2>2. QED
    BY <2>1, FreeingKeeps DEF BInv
<1>9. snd' = snd
  BY DEF readMsg
<1> HIDE DEF r, pl
<1>10. ASSUME s.found
       PROVE  Range(at) \in SUBSET Places /\ (s.q + 1) % RcvSize \in Places
  <2>1. s.p \in Int /\ s.q \in Int
    BY <1>8, <1>10, ScanFinds, BuffersAssumption DEF Held, Places
  <2>2. (s.q + 1) % RcvSize \in Places /\ (s.q + 1 - s.p) % RcvSize \in Places
    BY <2>1, ModInPlaces
  <2>3. PICK d \in Int : d = ((s.q + 1 - s.p) % RcvSize) - 1
    BY <2>2, BuffersAssumption DEF Places
  <2>4. at = [i \in 0..d |-> (s.p + i) % RcvSize]
    BY <2>3 DEF FromTo
  <2>5. \A i \in 0..d : (s.p + i) % RcvSize \in Places
    BY <2>1, ModInPlaces
  <2>6. QED
    BY <2>2, <2>4, <2>5 DEF Range
<1> HIDE DEF s, at
<1>11. CASE rcv' = r /\ pool' = pl
  BY <1>8, <1>9, <1>11 DEF BInv
<1>12. CASE /\ s.found /\ rcv' = r
            /\ pool' = [pl EXCEPT !.flag = [u \in DOMAIN @ |->
                   IF \E i \in DOMAIN at : r.unit[at[i]] = u THEN 2 ELSE @[u]]]
  <2>1. \A u : (\E i \in DOMAIN at : r.unit[at[i]] = u) <=> (\E i \in Range(at) : r.unit[i] = u)
    BY DEF Range
  <2>2. PICK q : q = pool'
    OBVIOUS
  <2>3. q = [pl EXCEPT !.flag = [u \in DOMAIN @ |->
                IF \E i \in Range(at) : r.unit[i] = u THEN 2 ELSE @[u]]]
    BY <1>12, <2>1, <2>2
  <2>4. Held(q, r)
    BY <1>8, <1>10, <1>12, <2>3, MarkingKeeps
  <2>5. QED
    BY <1>9, <1>12, <2>2, <2>4 DEF BInv
<1>13. CASE /\ s.found
            /\ rcv' = Emptied(r, Range(at), (s.q + 1) % RcvSize)
            /\ pool' = Freed(pl, r, Range(at), IF lost THEN 1 ELSE 0)
  <2>1. Held(pool', rcv')
    BY <1>8, <1>10, <1>13, FreeingKeeps
  <2>2. QED
    BY <1>9, <2>1 DEF BInv
<1>14. QED
  BY <1>6, <1>11, <1>12, <1>13

-----------------------------------------------------------------------------
(*****************************************************************************)
(* The theorem.                                                              *)
(*****************************************************************************)
LEMMA Started == BuffersInit => BInv
<1> SUFFICES ASSUME BuffersInit PROVE BInv
  OBVIOUS
<1>1. Numbered(snd)
  BY DEF BuffersInit, Numbered
<1>2. Pooled(pool) /\ Used(pool) = {}
  <2>1. EntrySize \in Nat /\ pool.flag = [u \in 1..EntrySize |-> 0]
    BY BuffersAssumption DEF BuffersInit
  <2>2. pool.flag \in [1..EntrySize -> 0..2] /\ EntrySize \in Nat
    BY <2>1
  <2>3. Pooled(pool)
    BY <2>2 DEF BuffersInit, Pooled
  <2>4. QED
    BY <2>1, <2>3 DEF Used
<1>3. Windowed(rcv)
  BY FS_EmptySet, BuffersAssumption DEF BuffersInit, Windowed, Places
<1>4. rcv.unit = [i \in Places |-> NoUnit]
  BY DEF BuffersInit, Places
<1>5. Range(rcv.unit) \ {NoUnit} = {}
  BY <1>4 DEF Range
<1>6. QED
  BY <1>1, <1>2, <1>3, <1>4, <1>5 DEF BInv, Held

LEMMA Kept == ASSUME BInv, [BuffersNext]_buffervars PROVE BInv'
<1>1. CASE UNCHANGED buffervars
  BY <1>1 DEF buffervars, BInv
<1>2. CASE \E len \in Lens :
              \/ \E order \in BOOLEAN : addBuffer(len, order)
              \/ \E have \in 0..len : addBufferFromFile(len, have)
  BY <1>2, SendsKeeps DEF addBuffer, addBufferFromFile
<1>3. CASE \E len \in Lens, lost \in MayLose : readBuffer(len, lost)
  BY <1>3, ReadBufferKeeps
<1>4. CASE readData \/ ackDataSnd \/ ackData
  BY <1>4, ReadDataKeeps, AckDataSndKeeps, AckDataKeeps
<1>5. CASE \E offset \in 0..(Ahead - 1) : readDataAt(offset)
  BY <1>5, ReadDataAtKeeps
<1>6. CASE \E lost \in MayLose : readMsg(lost)
  BY <1>6, ReadMsgKeeps
<1>7. QED
  BY <1>1, <1>2, <1>3, <1>4, <1>5, <1>6 DEF BuffersNext

\* Whatever arrives, is lost or comes twice, however the program reads and even
\* if m_iCount is wrong: the units in use are those in the window, each at one
\* place (CUnitQueue::getNextAvailUnit, CRcvBuffer::addData, readBuffer,
\* readMsg, scanMsg).
THEOREM UnitsAlwaysAccounted == BuffersSpec => []UnitsAccounted
<1>1. BInv /\ [BuffersNext]_buffervars => BInv'
  BY Kept
<1>2. BuffersSpec => []BInv
  BY <1>1, Started, PTL DEF BuffersSpec
<1>3. BInv => UnitsAccounted
  <2> SUFFICES ASSUME BInv PROVE UnitsAccounted
    OBVIOUS
  <2>2. DOMAIN rcv.unit = Places
    BY DEF BInv, Held
  <2>3. QED
    BY <2>2 DEF BInv, Held, UnitsAccounted
<1>4. QED
  BY <1>2, <1>3, PTL

-----------------------------------------------------------------------------
(*****************************************************************************)
(* The heap of the sending queue. Between calls, heap and locations agree;   *)
(* while a socket rises it alone does not know its place, and while one      *)
(* sinks the removed socket alone has a location that is no longer its own.  *)
(*****************************************************************************)
\* The sockets but those of x are at their locations; the places but those of x
\* are the locations of their sockets.
Listed(h, l, x) == \A u \in Senders \ x : l[u] # 0 => l[u] \in 1..Len(h) /\ h[l[u]] = u
Located(h, l, x) == \A i \in 1..Len(h) \ x : l[h[i]] = i

Heap(h, l) == h \in Seq(Senders) /\ l \in [Senders -> Nat]
Agree(h, l) == Heap(h, l) /\ Listed(h, l, {}) /\ Located(h, l, {})

\* u is at q and does not know it yet; u has been taken off and still has a
\* location.
Rising(h, l, u, q) ==
    /\ Heap(h, l) /\ Listed(h, l, {}) /\ Located(h, l, {q})
    /\ u \in Senders /\ q \in 1..Len(h) /\ h[q] = u /\ l[u] = 0

Sinking(h, l, u, q) ==
    /\ Heap(h, l) /\ Listed(h, l, {u}) /\ Located(h, l, {})
    /\ u \in Senders /\ q \in Nat \ {0} /\ \A i \in 1..Len(h) : h[i] # u

HeapInv ==
    \/ call \in {Unlocked, Signals} /\ Agree(heap, loc)
    \/ call.at = "insert" /\ call = Inserts(call.u, call.t)
       /\ call.u \in Senders /\ Agree(heap, loc)
    \/ call.at = "remove" /\ call = Removes(call.u, call.t)
       /\ call.u \in Senders /\ Agree(heap, loc)
    \/ call.at = "rise" /\ call = Rises(call.u, call.q)
       /\ Rising(heap, loc, call.u, call.q)
    \/ call.at = "sink" /\ call = Sinks(call.u, call.q, call.t)
       /\ Sinking(heap, loc, call.u, call.q)

\* The worker waits only until a call of its first socket is over.
Woken == worker.at = "waiting" =>
             \/ heap = <<>> \/ call = Signals
             \/ call.at = "rise" /\ Len(heap) = 1

WInv == HeapInv /\ Woken

-----------------------------------------------------------------------------
(*****************************************************************************)
(* What the passes do to the heap h and the locations l.                     *)
(*****************************************************************************)
\* insert_ puts u at the end.
LEMMA AppendRises ==
    ASSUME NEW h, NEW l, NEW u \in Senders, Agree(h, l), l[u] = 0
    PROVE  Rising(Append(h, u), l, u, Len(h) + 1)
<1> DEFINE n == Len(h)
           g == Append(h, u)
<1>1. n \in Nat /\ Len(g) = n + 1 /\ g \in Seq(Senders) /\ g[n + 1] = u
  BY DEF Agree, Heap
<1>2. \A i \in 1..n : g[i] = h[i]
  BY DEF Agree, Heap
<1>3. Listed(g, l, {}) /\ Located(g, l, {n + 1})
  BY <1>1, <1>2 DEF Agree, Heap, Listed, Located
<1>4. QED
  BY <1>1, <1>3 DEF Agree, Heap, Rising

\* A pass upwards changes places with the socket above.
LEMMA PassUp ==
    ASSUME NEW h, NEW l, NEW u, NEW q, Rising(h, l, u, q),
           NEW p \in 1..Len(h), p # q
    PROVE  Rising([h EXCEPT ![p] = h[q], ![q] = h[p]],
                  [l EXCEPT ![h[p]] = q], u, p)
<1> DEFINE g == [h EXCEPT ![p] = h[q], ![q] = h[p]]
           m == [l EXCEPT ![h[p]] = q]
<1>1. Len(h) \in Nat /\ q \in 1..Len(h) /\ h[p] \in Senders
      /\ h[q] = u /\ u \in Senders
  BY DEF Rising, Heap
<1>2. g \in Seq(Senders) /\ Len(g) = Len(h) /\ g[p] = u /\ g[q] = h[p]
  BY <1>1 DEF Rising, Heap
<1>3. \A i \in 1..Len(h) \ {p, q} : g[i] = h[i]
  BY <1>1 DEF Rising, Heap
<1>4. l[h[p]] = p /\ h[p] # u
  BY <1>1 DEF Rising, Located
<1>5. m \in [Senders -> Nat] /\ m[h[p]] = q /\ m[u] = 0
  BY <1>1, <1>4 DEF Rising, Heap
<1>6. \A v \in Senders \ {h[p]} : m[v] = l[v]
  BY <1>1 DEF Rising, Heap
<1>7. Listed(g, m, {})
  BY <1>1, <1>2, <1>3, <1>4, <1>5, <1>6 DEF Rising, Heap, Listed, Located
<1>8. ASSUME NEW i \in 1..Len(g) \ {p}
      PROVE  m[g[i]] = i
  <2>1. CASE i = q
    BY <2>1, <1>2, <1>5
  <2>2. CASE i # q
    <3>1. g[i] = h[i] /\ l[h[i]] = i /\ h[i] \in Senders
      BY <2>2, <1>2, <1>3 DEF Rising, Heap, Located
    <3>2. QED
      BY <3>1, <1>4, <1>6
  <2>3. QED
    BY <2>1, <2>2
<1>9. QED
  BY <1>1, <1>2, <1>5, <1>7, <1>8 DEF Rising, Heap, Located

\* u learns where it has arrived.
LEMMA Arrives ==
    ASSUME NEW h, NEW l, NEW u, NEW q, Rising(h, l, u, q)
    PROVE  Agree(h, [l EXCEPT ![u] = q])
<1> DEFINE m == [l EXCEPT ![u] = q]
<1>1. Len(h) \in Nat /\ q \in 1..Len(h) /\ h[q] = u /\ u \in Senders
  BY DEF Rising, Heap
<1>2. m \in [Senders -> Nat] /\ m[u] = q /\ \A v \in Senders \ {u} : m[v] = l[v]
  BY <1>1 DEF Rising, Heap
<1>3. Listed(h, m, {})
  BY <1>1, <1>2 DEF Rising, Listed
<1>4. ASSUME NEW i \in 1..Len(h)
      PROVE  m[h[i]] = i
  <2>1. CASE i = q
    BY <2>1, <1>1, <1>2
  <2>2. CASE i # q
    BY <2>2, <1>1, <1>2 DEF Rising, Heap, Located
  <2>3. QED
    BY <2>1, <2>2
<1>5. QED
  BY <1>2, <1>3, <1>4 DEF Rising, Heap, Agree, Located

\* remove_ puts the last one where u was.
LEMMA TakesOut ==
    ASSUME NEW h, NEW l, NEW u \in Senders, Agree(h, l), l[u] # 0
    PROVE  Sinking(SubSeq([h EXCEPT ![l[u]] = h[Len(h)]], 1, Len(h) - 1),
                   [l EXCEPT ![h[Len(h)]] = l[u]], u, l[u])
<1> DEFINE n == Len(h)
           k == l[u]
           f == [h EXCEPT ![k] = h[n]]
           g == SubSeq(f, 1, n - 1)
           m == [l EXCEPT ![h[n]] = k]
<1>1. n \in Nat /\ k \in 1..n /\ h[k] = u
  BY DEF Agree, Heap, Listed
<1>2. n \in 1..n /\ h[n] \in Senders /\ l[h[n]] = n
  BY <1>1 DEF Agree, Heap, Located
<1>3. f \in Seq(Senders) /\ Len(f) = n /\ f[k] = h[n] /\ \A i \in 1..n \ {k} : f[i] = h[i]
  BY <1>1, <1>2 DEF Agree, Heap
<1>4. g \in Seq(Senders) /\ Len(g) = n - 1 /\ \A i \in 1..(n - 1) : g[i] = f[i]
  BY <1>1, <1>2, <1>3
<1>5. m \in [Senders -> Nat] /\ m[h[n]] = k /\ \A v \in Senders \ {h[n]} : m[v] = l[v]
  BY <1>1, <1>2 DEF Agree, Heap
<1>6. ASSUME NEW i \in 1..(n - 1)
      PROVE  m[g[i]] = i /\ g[i] # u
  <2>1. CASE i = k
    <3>1. g[i] = h[n] /\ h[n] # u
      BY <2>1, <1>1, <1>2, <1>3, <1>4
    <3>2. QED
      BY <3>1, <2>1, <1>5
  <2>2. CASE i # k
    <3>1. g[i] = h[i] /\ l[h[i]] = i /\ h[i] \in Senders
      BY <2>2, <1>1, <1>3, <1>4 DEF Agree, Heap, Located
    <3>2. h[i] # h[n] /\ h[i] # u
      BY <3>1, <2>2, <1>1, <1>2
    <3>3. QED
      BY <3>1, <3>2, <1>5
  <2>3. QED
    BY <2>1, <2>2
<1>7. ASSUME NEW v \in Senders \ {u}, m[v] # 0
      PROVE  m[v] \in 1..(n - 1) /\ g[m[v]] = v
  <2>1. CASE v = h[n]
    <3>1. m[v] = k /\ k # n
      BY <2>1, <1>1, <1>5
    <3>2. QED
      BY <3>1, <2>1, <1>1, <1>3, <1>4
  <2>2. CASE v # h[n]
    <3>1. m[v] = l[v] /\ l[v] \in 1..n /\ h[l[v]] = v
      BY <2>2, <1>5, <1>7 DEF Agree, Listed
    <3>2. l[v] # n /\ l[v] # k
      BY <3>1, <2>2, <1>1
    <3>3. QED
      BY <3>1, <3>2, <1>1, <1>3, <1>4
  <2>3. QED
    BY <2>1, <2>2
<1>8. Listed(g, m, {u})
  BY <1>4, <1>7 DEF Listed
<1>9. Located(g, m, {}) /\ \A i \in 1..Len(g) : g[i] # u
  BY <1>4, <1>6 DEF Located
<1>10. k \in Nat \ {0}
  BY <1>1
<1>11. QED
  BY <1>4, <1>5, <1>8, <1>9, <1>10 DEF Sinking, Heap

\* A pass downwards changes places with a socket below.
LEMMA PassDown ==
    ASSUME NEW h, NEW l, NEW u, NEW q, Sinking(h, l, u, q),
           q \in 1..Len(h), NEW p \in 1..Len(h), p # q
    PROVE  Sinking([h EXCEPT ![p] = h[q], ![q] = h[p]],
                   [l EXCEPT ![h[q]] = p, ![h[p]] = q], u, p)
<1> DEFINE g == [h EXCEPT ![p] = h[q], ![q] = h[p]]
           m == [l EXCEPT ![h[q]] = p, ![h[p]] = q]
<1>1. /\ Len(h) \in Nat /\ h[p] \in Senders /\ h[q] \in Senders
      /\ l[h[p]] = p /\ l[h[q]] = q /\ h[p] # h[q] /\ h[p] # u /\ h[q] # u
  BY DEF Sinking, Heap, Located
<1>2. g \in Seq(Senders) /\ Len(g) = Len(h) /\ g[p] = h[q] /\ g[q] = h[p]
  BY <1>1 DEF Sinking, Heap
<1>3. \A i \in 1..Len(h) \ {p, q} : g[i] = h[i]
  BY <1>1 DEF Sinking, Heap
<1>4. m \in [Senders -> Nat] /\ m[h[p]] = q /\ m[h[q]] = p
  BY <1>1 DEF Sinking, Heap
<1>5. \A v \in Senders \ {h[p], h[q]} : m[v] = l[v]
  BY <1>1 DEF Sinking, Heap
<1>6. ASSUME NEW i \in 1..Len(g)
      PROVE  m[g[i]] = i /\ g[i] # u
  <2>1. CASE i \in {p, q}
    BY <2>1, <1>1, <1>2, <1>4
  <2>2. CASE i \notin {p, q}
    <3>1. g[i] = h[i] /\ l[h[i]] = i /\ h[i] \in Senders /\ h[i] # u
      BY <2>2, <1>2, <1>3 DEF Sinking, Heap, Located
    <3>2. QED
      BY <3>1, <2>2, <1>1, <1>5
  <2>3. QED
    BY <2>1, <2>2
<1>7. ASSUME NEW v \in Senders \ {u}, m[v] # 0
      PROVE  m[v] \in 1..Len(g) /\ g[m[v]] = v
  <2>1. CASE v \in {h[p], h[q]}
    BY <2>1, <1>1, <1>2, <1>4
  <2>2. CASE v \notin {h[p], h[q]}
    <3>1. m[v] = l[v] /\ l[v] \in 1..Len(h) /\ h[l[v]] = v
      BY <2>2, <1>5, <1>7 DEF Sinking, Listed
    <3>2. QED
      BY <3>1, <2>2, <1>2, <1>3
  <2>3. QED
    BY <2>1, <2>2
<1>8. Listed(g, m, {u}) /\ Located(g, m, {})
  BY <1>6, <1>7 DEF Listed, Located
<1>9. \A i \in 1..Len(g) : g[i] # u
  BY <1>6
<1>10. u \in Senders /\ p \in Nat \ {0}
  BY <1>1 DEF Sinking
<1> HIDE DEF g, m
<1>11. Sinking(g, m, u, p)
  BY <1>2, <1>4, <1>8, <1>9, <1>10 DEF Sinking, Heap
<1>12. QED
  BY <1>11 DEF g, m

\* u forgets where it was.
LEMMA Goes ==
    ASSUME NEW h, NEW l, NEW u, NEW q, Sinking(h, l, u, q)
    PROVE  Agree(h, [l EXCEPT ![u] = 0])
<1> DEFINE m == [l EXCEPT ![u] = 0]
<1>1. m \in [Senders -> Nat] /\ m[u] = 0 /\ \A v \in Senders \ {u} : m[v] = l[v]
  BY DEF Sinking, Heap
<1>2. Listed(h, m, {})
  BY <1>1 DEF Sinking, Listed
<1>3. Located(h, m, {})
  BY <1>1 DEF Sinking, Heap, Located
<1>4. QED
  BY <1>1, <1>2, <1>3 DEF Sinking, Heap, Agree

LEMMA HalfOf == ASSUME NEW q \in Nat, q > 1 PROVE q \div 2 \in 1..(q - 1)
  OBVIOUS

-----------------------------------------------------------------------------
(*****************************************************************************)
(* The steps.                                                                *)
(*****************************************************************************)
LEMMA InitW == ScheduleInit => WInv
  BY DEF ScheduleInit, WInv, HeapInv, Woken, Agree, Heap, Listed, Located,
         Unlocked, Worker

LEMMA InsertW == WInv /\ insert_ => WInv'
<1> SUFFICES ASSUME WInv, insert_ PROVE WInv'
  OBVIOUS
<1> DEFINE u == call.u
<1>1. u \in Senders /\ Agree(heap, loc) /\ loc' = loc /\ worker' = worker
  BY DEF WInv, HeapInv, insert_, Unlocked, Signals
<1>2. CASE loc[u] # 0
  BY <1>1, <1>2 DEF WInv, HeapInv, Woken, insert_, Unlocked, Signals
<1>3. CASE loc[u] = 0
  <2>1. heap' = Append(heap, u) /\ call' = Rises(u, Len(heap) + 1)
    BY <1>3 DEF insert_
  <2>2. Rising(heap', loc', u, Len(heap) + 1)
    BY <1>1, <1>3, <2>1, AppendRises
  <2>3. HeapInv'
    BY <2>1, <2>2 DEF HeapInv, Rises
  <2>4. heap = <<>> => Len(heap') = 1
    BY <1>1, <2>1 DEF Agree, Heap
  <2>5. Woken'
    BY <1>1, <2>1, <2>4 DEF WInv, Woken, insert_, Rises, Signals
  <2>6. QED
    BY <2>3, <2>5 DEF WInv
<1>4. QED
  BY <1>2, <1>3

LEMMA RiseW == WInv /\ rise => WInv'
<1> SUFFICES ASSUME WInv, rise PROVE WInv'
  OBVIOUS
<1> DEFINE u == call.u
           q == call.q
           p == q \div 2
<1>1. Rising(heap, loc, u, q) /\ worker' = worker
  BY DEF WInv, HeapInv, rise, Unlocked, Signals
<1>2. Len(heap) \in Nat /\ q \in 1..Len(heap)
  BY <1>1 DEF Rising, Heap
<1>3. CASE q > 1 /\ Earlier(q, p)
  <2>1. heap' = Swapped(p, q) /\ loc' = [loc EXCEPT ![heap[p]] = q]
        /\ call' = Rises(u, p)
    BY <1>3 DEF rise
  <2>2. p \in 1..(q - 1)
    BY <1>2, <1>3, HalfOf
  <2>3. p \in 1..Len(heap) /\ p # q /\ Len(heap) # 1
    <3>1. q > 1
      BY <1>3
    <3> HIDE DEF p, q
    <3>2. QED
      BY <3>1, <1>2, <2>2
  <2>4. Rising(heap', loc', u, p)
    BY <1>1, <2>1, <2>3, PassUp DEF Swapped
  <2>5. HeapInv'
    BY <2>1, <2>4 DEF HeapInv, Rises
  <2>6. worker.at # "waiting"
    BY <1>2, <2>3 DEF WInv, Woken, rise, Signals
  <2>7. QED
    BY <1>1, <2>5, <2>6 DEF WInv, Woken
<1>4. CASE ~(q > 1 /\ Earlier(q, p))
  <2>1. heap' = heap /\ loc' = [loc EXCEPT ![u] = q]
        /\ call' = IF Len(heap) = 1 THEN Signals ELSE Unlocked
    BY <1>4 DEF rise
  <2>2. Agree(heap', loc')
    BY <1>1, <2>1, Arrives
  <2>3. HeapInv'
    BY <2>1, <2>2 DEF HeapInv
  <2>4. Woken'
    BY <1>1, <1>2, <2>1 DEF WInv, Woken, rise, Signals
  <2>5. QED
    BY <2>3, <2>4 DEF WInv
<1>5. QED
  BY <1>3, <1>4

LEMMA SignalW == WInv /\ signal => WInv'
  BY DEF WInv, HeapInv, Woken, signal, Unlocked, Signals, Worker

LEMMA RemoveW == WInv /\ remove_ => WInv'
<1> SUFFICES ASSUME WInv, remove_ PROVE WInv'
  OBVIOUS
<1> DEFINE u == call.u
           n == Len(heap)
<1>1. u \in Senders /\ Agree(heap, loc) /\ worker' = worker
  BY DEF WInv, HeapInv, remove_, Unlocked, Signals
<1>2. worker.at = "waiting" => heap = <<>>
  BY DEF WInv, Woken, remove_, Signals
<1>3. CASE loc[u] = 0
  <2>1. Removed(u, call.t) /\ heap' = heap /\ loc' = loc
    BY <1>3 DEF remove_
  <2>2. HeapInv'
    BY <1>1, <2>1 DEF Removed, HeapInv, Inserts
  <2>3. QED
    BY <1>1, <1>2, <2>1, <2>2 DEF WInv, Woken
<1>4. CASE loc[u] # 0
  <2>1. /\ heap' = SubSeq([heap EXCEPT ![loc[u]] = heap[n]], 1, n - 1)
        /\ loc' = [loc EXCEPT ![heap[n]] = loc[u]]
        /\ call' = Sinks(u, loc[u], call.t)
    BY <1>4 DEF remove_
  <2>2. Sinking(heap', loc', u, loc[u])
    BY <1>1, <1>4, <2>1, TakesOut
  <2>3. HeapInv'
    BY <2>1, <2>2 DEF HeapInv, Sinks
  <2>4. heap # <<>>
    BY <1>1, <1>4 DEF Agree, Heap, Listed
  <2>5. QED
    BY <1>1, <1>2, <2>3, <2>4 DEF WInv, Woken
<1>5. QED
  BY <1>3, <1>4

LEMMA SinkW == WInv /\ sink => WInv'
<1> SUFFICES ASSUME WInv, sink PROVE WInv'
  OBVIOUS
<1> DEFINE u == call.u
           q == call.q
           n == Len(heap)
           p == IF 2 * q + 1 <= n /\ Earlier(2 * q + 1, 2 * q)
                THEN 2 * q + 1 ELSE 2 * q
<1>1. Sinking(heap, loc, u, q) /\ worker' = worker
  BY DEF WInv, HeapInv, sink, Unlocked, Signals
<1>2. n \in Nat /\ q \in Nat \ {0}
  BY <1>1 DEF Sinking, Heap
<1>3. worker.at = "waiting" => heap = <<>>
  BY DEF WInv, Woken, sink, Signals
<1>4. CASE 2 * q <= n /\ Earlier(p, q)
  <2>1. heap' = Swapped(p, q) /\ loc' = [loc EXCEPT ![heap[q]] = p, ![heap[p]] = q]
        /\ call' = Sinks(u, p, call.t)
    BY <1>4 DEF sink
  <2>2. p \in 1..n /\ q \in 1..n /\ p # q
    BY <1>2, <1>4
  <2>3. Sinking(heap', loc', u, p)
    <3> HIDE DEF p
    <3>1. QED
      BY <1>1, <2>1, <2>2, PassDown DEF Swapped
  <2>4. HeapInv'
    BY <2>1, <2>3 DEF HeapInv, Sinks
  <2>5. worker.at # "waiting"
    BY <1>2, <1>3, <1>4
  <2>6. QED
    BY <1>1, <2>4, <2>5 DEF WInv, Woken
<1>5. CASE ~(2 * q <= n /\ Earlier(p, q))
  <2>1. heap' = heap /\ loc' = [loc EXCEPT ![u] = 0] /\ Removed(u, call.t)
    BY <1>5 DEF sink
  <2>2. Agree(heap', loc') /\ u \in Senders
    BY <1>1, <2>1, Goes DEF Sinking
  <2>3. HeapInv'
    BY <2>1, <2>2 DEF Removed, HeapInv, Inserts
  <2>4. QED
    BY <1>1, <1>3, <2>1, <2>3 DEF WInv, Woken
<1>6. QED
  BY <1>4, <1>5

\* The calls begin where the heap and the locations agree.
LEMMA UnlockedAgrees == WInv /\ call = Unlocked => Agree(heap, loc)
  BY DEF WInv, HeapInv, Unlocked

LEMMA UpdateW ==
    ASSUME NEW u \in Senders, NEW reschedule \in BOOLEAN
    PROVE  WInv /\ update(u, reschedule) => WInv'
<1> SUFFICES ASSUME WInv, update(u, reschedule) PROVE WInv'
  OBVIOUS
<1>1. call = Unlocked /\ heap' = heap /\ loc' = loc /\ worker' = worker
  BY DEF update
<1>2. Agree(heap, loc) /\ (worker.at = "waiting" => heap = <<>>)
  BY <1>1, UnlockedAgrees DEF WInv, Woken, Unlocked, Signals
<1>3. call' \in {Unlocked, Inserts(u, 1), Removes(u, 1)}
  BY <1>1 DEF update
<1>4. QED
  BY <1>1, <1>2, <1>3 DEF WInv, HeapInv, Woken, Inserts, Removes

LEMMA RemovesW == ASSUME NEW u \in Senders PROVE WInv /\ remove(u) => WInv'
<1> SUFFICES ASSUME WInv, remove(u) PROVE WInv'
  OBVIOUS
<1>1. Agree(heap, loc) /\ (worker.at = "waiting" => heap = <<>>)
  BY UnlockedAgrees DEF remove, WInv, Woken, Unlocked, Signals
<1>2. QED
  BY <1>1 DEF remove, WInv, HeapInv, Woken, Removes

LEMMA PopW == WInv /\ pop => WInv'
<1> SUFFICES ASSUME WInv, pop PROVE WInv'
  OBVIOUS
<1>1. Agree(heap, loc) /\ heap' = heap /\ loc' = loc
  BY UnlockedAgrees DEF pop
<1>2. Woken'
  BY DEF pop, Woken, Worker
<1>3. CASE call' = call
  BY <1>1, <1>2, <1>3 DEF pop, WInv, HeapInv
<1>4. CASE heap # <<>> /\ \E t \in {0} \cup now..MaxTime : call' = Removes(heap[1], t)
  <2>1. heap[1] \in Senders
    BY <1>1, <1>4 DEF Agree, Heap
  <2>2. QED
    BY <1>1, <1>2, <1>4, <2>1 DEF WInv, HeapInv, Removes
<1>5. QED
  BY <1>3, <1>4 DEF pop

\* The rest of the worker, and the time, leave the heap and the call alone.
LEMMA WorkerW ==
    WInv /\ (getNextProcTime \/ sleepto \/ wake \/ waits \/ Tick) => WInv'
<1> SUFFICES ASSUME WInv, getNextProcTime \/ sleepto \/ wake \/ waits \/ Tick
             PROVE  WInv'
  OBVIOUS
<1>1. heap' = heap /\ loc' = loc /\ call' = call
  BY DEF getNextProcTime, sleepto, wake, waits, Tick
<1>2. worker'.at = "waiting" => worker' = worker \/ heap = <<>>
  BY DEF getNextProcTime, sleepto, wake, waits, Tick, Worker
<1>3. QED
  BY <1>1, <1>2 DEF WInv, HeapInv, Woken

LEMMA NextW == WInv /\ [ScheduleNext]_schedulevars => WInv'
<1> SUFFICES ASSUME WInv, [ScheduleNext]_schedulevars PROVE WInv'
  OBVIOUS
<1>1. CASE \E u \in Senders : (\E r \in BOOLEAN : update(u, r)) \/ remove(u)
  BY <1>1, UpdateW, RemovesW
<1>2. CASE insert_ \/ rise \/ signal \/ remove_ \/ sink
  BY <1>2, InsertW, RiseW, SignalW, RemoveW, SinkW
<1>3. CASE getNextProcTime \/ sleepto \/ wake \/ pop \/ waits \/ Tick
  BY <1>3, WorkerW, PopW
<1>4. CASE UNCHANGED schedulevars
  BY <1>4 DEF schedulevars, WInv, HeapInv, Woken
<1>5. QED
  BY <1>1, <1>2, <1>3, <1>4 DEF ScheduleNext

\* The heap and the locations agree between the calls of any number of sockets,
\* and the sending worker does not wait beside a socket that is to be sent from
\* (CSndUList::insert_, remove_, CSndQueue::worker).
THEOREM WorkerNeverForgotten == ScheduleSpec => []WorkerAwake
<1>1. WInv => WorkerAwake
  <2> SUFFICES ASSUME WInv PROVE WorkerAwake
    OBVIOUS
  <2>1. ASSUME call = Unlocked
        PROVE  /\ \A u \in Senders : loc[u] # 0 => loc[u] \in DOMAIN heap /\ heap[loc[u]] = u
               /\ \A i \in DOMAIN heap : loc[heap[i]] = i
    BY <2>1, UnlockedAgrees DEF Agree, Heap, Listed, Located
  <2>2. worker.at = "waiting" => heap = <<>> \/ call.at \in {"rise", "signal"}
    BY DEF WInv, Woken, Signals
  <2>3. QED
    BY <2>1, <2>2 DEF WorkerAwake
<1>2. QED
  BY <1>1, InitW, NextW, PTL DEF ScheduleSpec
=============================================================================
