----------------------------- MODULE ClockQueue -----------------------------
(***************************************************************************)
(* The clock replacement queue of one FusionFS node (src/clock.c): a       *)
(* doubly linked cyclic list of the files cached on the SSD, with a head,  *)
(* a tail and the clock hand `victim'.                                     *)
(*                                                                         *)
(* The heap is the set Cells of inode_t objects.  A cell is allocated      *)
(* exactly when it holds a file name; free() wipes it, so that a pointer   *)
(* that outlives its cell leads to NULL and not to a plausible file.       *)
(* Calls do not overlap here, but the loop of remque_clock is a step per   *)
(* iteration, so that its termination is a property and not an assumption. *)
(***************************************************************************)
EXTENDS Naturals, FiniteSets, Inodes

VARIABLES
    head,       \* FUSION_DATA->clock_head
    tail,       \* FUSION_DATA->clock_tail
    victim,     \* FUSION_DATA->victim, the hand
    next,       \* inode_t.next of every cell
    prev,       \* inode_t.prev of every cell
    name,       \* inode_t.fname of every cell, NULL when the cell is free
    ref,        \* inode_t.ref_bit of every cell
    sweeping,   \* remque_clock is inside its while loop
    evicted,    \* the fname the last remque_clock handed back
    cold        \* history: files with a clear bit when remque_clock was called

pointers == <<head, tail, victim, next, prev, name>>
vars == <<head, tail, victim, next, prev, name, ref, sweeping, evicted, cold>>

Pointer == Cells \cup {NULL}

\* The fields and the pointers of FUSION_DATA keep their types; a bit is 0 or 1.
TypeOK ==
    /\ head \in Pointer /\ tail \in Pointer /\ victim \in Pointer
    /\ next \in [Cells -> Pointer]
    /\ prev \in [Cells -> Pointer]
    /\ name \in [Cells -> Files \cup {NULL}]
    /\ ref \in [Cells -> {0, 1}]
    /\ sweeping \in BOOLEAN
    /\ evicted \in Files \cup {NULL}
    /\ cold \subseteq Files

Live == {c \in Cells : name[c] # NULL}
Cached == {name[c] : c \in Live}
ColdFiles == {name[c] : c \in {d \in Live : ref[d] = 0}}

(***************************************************************************)
(* The cells a walk from clock_head along next visits: those in every set  *)
(* that holds the head and is closed under next.                           *)
(***************************************************************************)
Closed(S) == head \in S /\ \A c \in S : next[c] \in S
Walk == {c \in Cells : \A S \in SUBSET Cells : Closed(S) => c \in S}

\* The cells findelem_clock can return for f.
findelem_clock(f) == IF head = NULL THEN {} ELSE {c \in Walk : name[c] = f}

Init ==
    /\ head = NULL /\ tail = NULL /\ victim = NULL
    /\ next = [c \in Cells |-> NULL]
    /\ prev = [c \in Cells |-> NULL]
    /\ name = [c \in Cells |-> NULL]
    /\ ref = [c \in Cells |-> 0]
    /\ sweeping = FALSE
    /\ evicted = NULL
    /\ cold = {}

-----------------------------------------------------------------------------
(***************************************************************************)
(* ins_Q: before the hand if there is one, else at the tail.               *)
(***************************************************************************)
ins_Q(elem) ==
    \/ /\ victim # NULL
       /\ head' = IF victim = head THEN elem ELSE head
       /\ next' = [next EXCEPT ![prev[victim]] = elem, ![elem] = victim]
       /\ prev' = [prev EXCEPT ![victim] = elem, ![elem] = prev[victim]]
       /\ UNCHANGED tail
    \/ /\ victim = NULL
       /\ prev' = [prev EXCEPT ![elem] = tail, ![head] = elem]
       /\ next' = [next EXCEPT ![elem] = next[tail], ![tail] = elem]
       /\ tail' = elem
       /\ UNCHANGED head

(***************************************************************************)
(* rem_Q with the hand at hand: unlink elem and free it.  The only element *)
(* empties the queue; the hand moves on when its own cell goes.            *)
(***************************************************************************)
HandMoved_Stays(elem, hand) == hand
HandMoved(elem, hand) == IF hand = elem THEN next[elem] ELSE hand

Free(elem) ==
    /\ name' = [name EXCEPT ![elem] = NULL]
    /\ ref' = [ref EXCEPT ![elem] = 0]

rem_Q(elem, hand) ==
    /\ Free(elem)
    /\ \/ /\ next[elem] = elem
          /\ head' = NULL /\ tail' = NULL /\ victim' = NULL
          /\ next' = [next EXCEPT ![elem] = NULL]
          /\ prev' = [prev EXCEPT ![elem] = NULL]
       \/ /\ next[elem] # elem
          /\ head' = IF elem = head THEN next[elem] ELSE head
          /\ tail' = IF elem # head /\ elem = tail THEN prev[elem] ELSE tail
          /\ victim' = HandMoved(elem, hand)
          /\ next' = [next EXCEPT ![prev[elem]] = next[elem], ![elem] = NULL]
          /\ prev' = [prev EXCEPT ![next[elem]] = prev[elem], ![elem] = NULL]

-----------------------------------------------------------------------------
(***************************************************************************)
(* insque_clock: a hit sets the reference bit, a miss links a new cell.    *)
(***************************************************************************)
Referenced_Counted(c) == [ref EXCEPT ![c] = @ + 1]
Referenced(c) == [ref EXCEPT ![c] = 1]
NewBit_Cold == 0
NewBit == 1

Reference(f) ==
    /\ ~sweeping
    /\ \E c \in findelem_clock(f) : ref' = Referenced(c)
    /\ UNCHANGED <<pointers, sweeping, evicted, cold>>

Insert(f) ==
    /\ ~sweeping
    /\ findelem_clock(f) = {}
    /\ \E elem \in Cells \ Live :
          /\ name' = [name EXCEPT ![elem] = f]
          /\ ref' = [ref EXCEPT ![elem] = NewBit]
          /\ \/ /\ head = NULL
                /\ next' = [next EXCEPT ![elem] = elem]
                /\ prev' = [prev EXCEPT ![elem] = elem]
                /\ head' = elem /\ tail' = elem
             \/ head # NULL /\ ins_Q(elem)
    /\ UNCHANGED <<victim, sweeping, evicted, cold>>

insque_clock(f) == Reference(f) \/ Insert(f)

(***************************************************************************)
(* rmelem_clock: unlink and release take a file out of the queue.          *)
(***************************************************************************)
rmelem_clock(f) ==
    /\ ~sweeping
    /\ \E c \in findelem_clock(f) : rem_Q(c, victim)
    /\ UNCHANGED <<sweeping, evicted, cold>>

(***************************************************************************)
(* remque_clock, called only when clock_head is set.  The hand starts at   *)
(* the head the first time; a queue of one is emptied whatever its bit.    *)
(***************************************************************************)
Hand == IF victim = NULL THEN head ELSE victim
Several_Any == next[Hand] # NULL
Several_MoreThanTwo == next[Hand] # prev[Hand]
Several == next[Hand] # Hand
Cleared_Never == ref
Cleared == [ref EXCEPT ![victim] = 0]

RemqueOnly ==
    /\ ~sweeping
    /\ head # NULL
    /\ ~Several
    /\ evicted' = name[Hand]
    /\ cold' = ColdFiles
    /\ rem_Q(Hand, Hand)
    /\ UNCHANGED sweeping

RemqueEnter ==
    /\ ~sweeping
    /\ head # NULL
    /\ Several
    /\ victim' = Hand
    /\ sweeping' = TRUE
    /\ cold' = ColdFiles
    /\ UNCHANGED <<head, tail, next, prev, name, ref, evicted>>

RemqueSkip ==
    /\ sweeping
    /\ ref[victim] # 0
    /\ ref' = Cleared
    /\ victim' = next[victim]
    /\ UNCHANGED <<head, tail, next, prev, name, sweeping, evicted, cold>>

RemqueEvict ==
    /\ sweeping
    /\ ref[victim] = 0
    /\ evicted' = name[victim]
    /\ rem_Q(victim, victim)
    /\ sweeping' = FALSE
    /\ UNCHANGED cold

remque_clock == RemqueOnly \/ RemqueEnter \/ RemqueSkip \/ RemqueEvict

Next ==
    \/ \E f \in Files : insque_clock(f)
    \/ \E f \in Files : rmelem_clock(f)
    \/ remque_clock

\* A thread inside remque_clock keeps running its loop.
Fairness == WF_vars(RemqueSkip \/ RemqueEvict)

Spec == Init /\ [][Next]_vars /\ Fairness

-----------------------------------------------------------------------------
(***************************************************************************)
(* Properties.                                                             *)
(***************************************************************************)

\* next and prev are inverse to each other on the cells L and stay inside L.
IsRing(L, nx, pv) ==
    \A c \in L : /\ nx[c] \in L /\ pv[nx[c]] = c
                 /\ pv[c] \in L /\ nx[pv[c]] = c

\* The cells L form a single cycle: no proper part of L is closed under nx.
OneCycle(L, nx) ==
    \A S \in SUBSET L : S # {} /\ (\A c \in S : nx[c] \in S) => S = L

\* head, tail and victim are NULL together with the queue, point to allocated
\* cells otherwise, and the tail closes the cycle to the head.
Anchored ==
    IF head = NULL
    THEN Live = {} /\ tail = NULL /\ victim = NULL
    ELSE /\ head \in Live /\ tail \in Live
         /\ victim \in Live \cup {NULL}
         /\ next[tail] = head

\* Walking from the head reaches every allocated cell: none leaks.
Connected == head # NULL => Walk = Live

\* No file has two cells (params.h: "absolute path, unique").
NamesUnique == \A c, d \in Live : name[c] = name[d] => c = d

\* The allocated cells are one doubly linked cycle through all cells, whatever the
\* calls of insque_clock, rmelem_clock and remque_clock before ("it's double
\* cyclic Q", clock.c): findelem_clock ends and misses no file, and ins_Q and
\* rem_Q dereference no freed cell.
ListIntegrity ==
    /\ IsRing(Live, next, prev)
    /\ OneCycle(Live, next)
    /\ Anchored
    /\ Connected
    /\ NamesUnique

\* While remque_clock sweeps, its hand is on a queue of at least two files,
\* the files that were cold when it began are still there and cold, and the
\* cells it has cleared so far are a stretch that ends at the hand.
Swept == {c \in Live : ref[c] = 0 /\ name[c] \notin cold}
SweepSound ==
    sweeping => /\ victim \in Live
                /\ next[victim] # victim
                /\ cold \subseteq ColdFiles
                /\ \A c \in Swept : next[c] \in Swept \cup {victim}

\* remque_clock gives a second chance: the file it evicts had a clear bit when
\* the call began, unless no file had one.
SecondChanceGiven ==
    [][RemqueOnly \/ RemqueEvict =>
         evicted' \in cold' \/ cold' = {}]_vars

\* The while (1) loop of remque_clock ends.
SweepEnds == sweeping ~> ~sweeping

\* The queue from the hand on, for the refinement: its cells, and what they hold.
FromHand ==
    LET at[i \in 1..Cardinality(Live)] ==
            IF i = 1 THEN Hand ELSE next[at[i - 1]]
    IN at
Ring == [i \in DOMAIN FromHand |->
            [file |-> name[FromHand[i]], bit |-> ref[FromHand[i]]]]

\* The linked list behaves as the line of SecondChance: insertion order,
\* second chances and the choice of the victim are those of the policy.
Policy == INSTANCE SecondChance
              WITH File <- Files, None <- NULL, line <- Ring,
                   evicting <- sweeping, out <- evicted
ImplementsSecondChance == Policy!ASpec
=============================================================================
