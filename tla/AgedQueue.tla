----------------------------- MODULE AgedQueue ------------------------------
(***************************************************************************)
(* The LRU and the LFU replacement queues (src/util.c), which params.h     *)
(* compiles in place of the clock queue: a doubly linked cyclic list of    *)
(* malloc'ed inode_t, maintained with insque(3) and remque(3).  The queue  *)
(* is one record, so that a callback that removes an element and inserts   *)
(* it again is the composition of the two functions.                       *)
(***************************************************************************)
EXTENDS Naturals, FiniteSets, Sequences, SequencesExt, Inodes

CONSTANT
    MaxFreq     \* bound: a file is opened at most this often while queued

VARIABLES
    lfu,        \* MODE: FALSE for MODE_LRU, TRUE for LFU
    aged,       \* the queue: head, tail and the fields of the cells
    moved,      \* the file the last eviction moved to the HDD
    recorded    \* the file it then records in ZHT as moved to the HDD

agedvars == <<lfu, aged, moved, recorded>>

EmptyQueue ==
    [head |-> NULL, tail |-> NULL,
     next |-> [c \in Cells |-> NULL], prev |-> [c \in Cells |-> NULL],
     name |-> [c \in Cells |-> NULL], freq |-> [c \in Cells |-> 0]]

AgedInit ==
    /\ lfu \in BOOLEAN
    /\ aged = EmptyQueue
    /\ moved = NULL
    /\ recorded = NULL

InUse(q) == {c \in Cells : q.name[c] # NULL}

\* The cells in the order of a walk from the head along next.
Order(q) ==
    LET at[i \in 1..Cardinality(InUse(q))] ==
            IF i = 1 THEN q.head ELSE q.next[at[i - 1]]
    IN at

\* findelem_lru, findelem_lfu: the first cell of the walk that names f.
findelem_lru(q, f) ==
    LET hits == {i \in DOMAIN Order(q) : q.name[Order(q)[i]] = f}
    IN IF hits = {} THEN NULL
       ELSE Order(q)[CHOOSE i \in hits : \A j \in hits : i <= j]

\* insque(3) and remque(3) followed by free.
Linked(q, elem, pred) ==
    [q EXCEPT !.next[pred] = elem, !.prev[elem] = pred,
              !.next[elem] = q.next[pred], !.prev[q.next[pred]] = elem]
Unlinked(q, elem) ==
    [q EXCEPT !.next[q.prev[elem]] = q.next[elem],
              !.prev[q.next[elem]] = q.prev[elem],
              !.next[elem] = NULL, !.prev[elem] = NULL,
              !.name[elem] = NULL, !.freq[elem] = 0]

\* remque_lru, remque_lfu: drop the head.
remque_lru(q) ==
    LET after == Unlinked(q, q.head)
    IN IF q.next[q.head] = q.head
       THEN [after EXCEPT !.head = NULL, !.tail = NULL]
       ELSE [after EXCEPT !.head = q.next[q.head]]

\* rmelem_lru, rmelem_lfu.
TailWithout_Kept(q, c) == q.tail
TailWithout(q, c) == IF c = q.tail THEN q.prev[c] ELSE q.tail
rmelem_lru(q, f) ==
    LET found == findelem_lru(q, f)
    IN IF q.head = NULL \/ found = NULL THEN q
       ELSE IF found = q.head THEN remque_lru(q)
       ELSE [Unlinked(q, found) EXCEPT !.tail = TailWithout(q, found)]

\* get_pos_lfu: the cell the new one goes behind, NULL for a new head.
Passed_OrEqual(n, m) == n <= m
Passed(n, m) == n < m
get_pos_lfu(q, n) ==
    LET later == {i \in DOMAIN Order(q) : Passed(n, q.freq[Order(q)[i]])}
        first == CHOOSE i \in later : \A j \in later : i <= j
    IN IF later = {} THEN q.tail
       ELSE IF first = 1 THEN NULL
       ELSE q.prev[Order(q)[first]]

(***************************************************************************)
(* insque_lru and insque_lfu with the freshly allocated elem.              *)
(***************************************************************************)
Frequency(f) ==
    LET found == findelem_lru(aged, f)
    IN IF ~lfu THEN 0
       ELSE IF found = NULL THEN 1 ELSE aged.freq[found] + 1

Place(q, elem, n) ==
    LET pred == IF lfu THEN get_pos_lfu(q, n) ELSE q.tail
    IN IF q.head = NULL
       THEN [Linked([q EXCEPT !.next[elem] = elem, !.prev[elem] = elem],
                    elem, elem) EXCEPT !.head = elem, !.tail = elem]
       ELSE IF pred = NULL
       THEN [Linked(q, elem, q.tail) EXCEPT !.head = elem]
       ELSE IF pred = q.tail
       THEN [Linked(q, elem, pred) EXCEPT !.tail = elem]
       ELSE Linked(q, elem, pred)

Insque(f) ==
    /\ Frequency(f) <= MaxFreq
    /\ \E elem \in Cells \ InUse(aged) :
          aged' = [Place(rmelem_lru(aged, f), elem, Frequency(f)) EXCEPT
                      !.name[elem] = f, !.freq[elem] = Frequency(f)]
    /\ UNCHANGED <<lfu, moved, recorded>>

\* unlink and release take a file out.
Rmelem(f) ==
    /\ aged' = rmelem_lru(aged, f)
    /\ UNCHANGED <<lfu, moved, recorded>>

(***************************************************************************)
(* One round of the eviction loop of open: the head is moved to the HDD    *)
(* and dropped, and then the name of the head is read for the record.  By  *)
(* then that is the file behind; behind the last one there is none and the *)
(* process dies of the null pointer.                                       *)
(***************************************************************************)
Died == moved # NULL /\ recorded = NULL

Evict ==
    /\ aged.head # NULL
    /\ aged' = remque_lru(aged)
    /\ moved' = aged.name[aged.head]
    /\ recorded' = IF aged'.head = NULL THEN NULL
                                         ELSE aged'.name[aged'.head]
    /\ UNCHANGED lfu

\* Mounting starts from an empty queue, whatever the SSD holds.
Mount == aged' = EmptyQueue /\ moved' = NULL /\ recorded' = NULL /\ UNCHANGED lfu

AgedNext ==
    \/ Mount
    \/ ~Died /\ Evict
    \/ ~Died /\ \E f \in Files : Insque(f) \/ Rmelem(f)

AgedSpec == AgedInit /\ [][AgedNext]_agedvars

-----------------------------------------------------------------------------
(***************************************************************************)
(* Properties.                                                             *)
(***************************************************************************)

\* "this is a double cyclic list" (util.c): the cells in use are one cycle in
\* both directions, the tail stands before the head, no file has two cells and,
\* for LFU, the counts never fall along the list.
AgedListIntact ==
    LET L == InUse(aged)
        at == Order(aged)
    IN IF aged.head = NULL THEN L = {} /\ aged.tail = NULL
       ELSE /\ ToSet(at) = L
            /\ aged.next[aged.tail] = aged.head
            /\ \A c \in L : aged.prev[aged.next[c]] = c
            /\ \A c, d \in L : aged.name[c] = aged.name[d] => c = d
            /\ \A i, j \in DOMAIN at : i < j =>
                  aged.freq[at[i]] <= aged.freq[at[j]]

\* The linked list keeps the order of its policy, through hits, removals and
\* evictions: least recently used first, or least often used first and among
\* equals the least recent ("if multiple elements have the same frequency we
\* want to apply LRU", util.c).
Line == [i \in DOMAIN Order(aged) |->
            [file |-> aged.name[Order(aged)[i]],
             uses |-> aged.freq[Order(aged)[i]]]]
ByAge == INSTANCE AgeOrder
             WITH File <- Files, None <- NULL, counts <- lfu,
                  line <- Line, out <- moved
ImplementsAgeOrder == ByAge!OSpec
=============================================================================
