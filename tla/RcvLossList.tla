----------------------------- MODULE RcvLossList -----------------------------
(***************************************************************************)
(* CRcvLossList (list.cpp): what the receiver is missing. As in the        *)
(* sender's list an interval sits in the cell that is as far from the      *)
(* head's as its first number is from the head's, here with links in both  *)
(* directions. New losses are later than all of the list; numbers leave it *)
(* anywhere, as packets are sent again or dropped. Only the receiving      *)
(* thread uses the list.                                                   *)
(***************************************************************************)
EXTENDS SeqNo, Sequences, FiniteSets, SequencesExt

CONSTANTS m_iSize,     \* the cells: the flight flag size
          Buffer,      \* the packets the receive buffer takes
          ISN,         \* the number before the first
          MaxArrivals  \* bound on how far the numbers go

VARIABLES list,            \* data1, data2, next, prior, head, tail, length
          m_iRcvLastAck, m_iRcvCurrSeqNo,
          missing,         \* the numbers skipped that have not come since
                           \* and that no request has dropped
          kept,            \* the largest number, when a request to drop it
                           \* has left it in the list
          found            \* remove found what was in the list

rcvlistvars == <<list, m_iRcvLastAck, m_iRcvCurrSeqNo, missing, kept, found>>

Slots == 0..(m_iSize - 1)
-----------------------------------------------------------------------------
EmptyList ==
    [data1 |-> [c \in Slots |-> -1], data2 |-> [c \in Slots |-> -1],
     next |-> [c \in Slots |-> -1], prior |-> [c \in Slots |-> -1],
     head |-> -1, tail |-> -1, length |-> 0]

\* [a, b], later than all of the list, joins the last interval or gets a cell.
insert(L, a, b) ==
    LET loc == IF L.length = 0 THEN 0
               ELSE (L.head + seqoff(L.data1[L.head], a)) % m_iSize
        joins == L.length # 0 /\ L.data2[L.tail] # -1
                 /\ incseq(L.data2[L.tail]) = a
        M == [L EXCEPT !.length = @ + seqlen(a, b)]
        N == [M EXCEPT !.data1[loc] = a,
                       !.data2[loc] = IF b # a THEN b ELSE @,
                       !.next[loc] = -1, !.tail = loc]
    IN IF L.length = 0 THEN [N EXCEPT !.head = 0, !.prior[0] = -1]
       ELSE IF joins THEN [M EXCEPT !.data2[L.tail] = b]
       ELSE [N EXCEPT !.next[L.tail] = loc, !.prior[loc] = L.tail]

\* The interval of cell loc is one number: the cell is unlinked.
Unlink(L, loc) ==
    LET n == L.next[loc]
        p == L.prior[loc]
        M == [L EXCEPT !.data1[loc] = -1]
    IN IF loc = L.head
       THEN [M EXCEPT !.head = n,
                      !.prior = IF n # -1 THEN [@ EXCEPT ![n] = -1] ELSE @]
       ELSE [M EXCEPT !.next[p] = n,
                      !.prior = IF n # -1 THEN [@ EXCEPT ![n] = p] ELSE @,
                      !.tail = IF n # -1 THEN @ ELSE p]

\* The interval of cell loc begins one later, in the next cell.
Advance(L, loc) ==
    LET i == (loc + 1) % m_iSize
        n == L.next[loc]
        p == L.prior[loc]
    IN [L EXCEPT !.data1[i] = incseq(L.data1[loc]),
                 !.data2[i] = IF seqcmp(L.data2[loc], incseq(L.data1[loc])) > 0
                              THEN L.data2[loc] ELSE @,
                 !.data1[loc] = -1, !.data2[loc] = -1,
                 !.head = IF @ = loc THEN i ELSE @,
                 !.tail = IF @ = loc THEN i ELSE @,
                 !.next = IF L.head = loc THEN [@ EXCEPT ![i] = n]
                          ELSE [@ EXCEPT ![i] = n, ![p] = i],
                 !.prior = IF L.tail = loc THEN [@ EXCEPT ![i] = p]
                           ELSE [@ EXCEPT ![i] = p, ![n] = i]]

\* The end of cell i when its interval stops before n.
StopBefore_Pair(L, i, n) == decseq(n)
StopBefore(L, i, n) == IF n = incseq(L.data1[i]) THEN -1 ELSE decseq(n)

\* n is inside cell i: what follows n gets the cell after n's place loc.
Split(L, i, loc, n) ==
    LET to == (loc + 1) % m_iSize
        after == L.next[i]
    IN [L EXCEPT !.data1[to] = incseq(n),
                 !.data2 = [@ EXCEPT ![to] = IF seqcmp(L.data2[i], incseq(n)) > 0
                                             THEN L.data2[i] ELSE @,
                                     ![i] = StopBefore(L, i, n)],
                 !.next = [@ EXCEPT ![to] = after, ![i] = to],
                 !.prior = IF L.tail = i THEN [@ EXCEPT ![to] = i]
                           ELSE [@ EXCEPT ![to] = i, ![after] = to],
                 !.tail = IF @ = i THEN to ELSE @]

\* The nearest cell in use before the place loc.
RECURSIVE InUseBefore(_, _)
InUseBefore(L, loc) ==
    LET i == (loc - 1 + m_iSize) % m_iSize
    IN IF L.data1[i] # -1 THEN i ELSE InUseBefore(L, i)

\* remove(seqno): whether the number was in the list, and the list without it.
remove(L, n) ==
    LET offset == seqoff(L.data1[L.head], n)
        loc == (L.head + offset) % m_iSize
        i == InUseBefore(L, loc)
        Removed(M) == <<TRUE, [M EXCEPT !.length = @ - 1]>>
    IN IF L.length = 0 THEN <<FALSE, L>>
       ELSE IF offset < 0 THEN <<FALSE, L>>
       ELSE IF n = L.data1[loc]
       THEN Removed(IF L.data2[loc] = -1 THEN Unlink(L, loc) ELSE Advance(L, loc))
       ELSE IF L.data2[i] = -1 \/ seqcmp(n, L.data2[i]) > 0 THEN <<FALSE, L>>
       ELSE IF n = L.data2[i]
       THEN Removed([L EXCEPT !.data2[i] = StopBefore(L, i, n)])
       ELSE Removed(Split(L, i, loc, n))

\* remove(seqno1, seqno2): one number after the other; where the numbers
\* start again at 0 the loop leaves the largest number out.
removeRange(L, a, b) ==
    LET numbers == IF a <= b THEN [k \in 1..(b - a + 1) |-> a + k - 1]
                   ELSE [k \in 1..(m_iMaxSeqNo - a) |-> a + k - 1]
                        \o [k \in 1..(b + 1) |-> k - 1]
    IN FoldLeft(LAMBDA M, n : remove(M, n)[2], L, numbers)

getFirstLostSeq(L) == IF L.length = 0 THEN -1 ELSE L.data1[L.head]
-----------------------------------------------------------------------------
Init ==
    /\ list = EmptyList
    /\ m_iRcvLastAck = incseq(ISN)
    /\ m_iRcvCurrSeqNo = ISN
    /\ missing = {}
    /\ kept = {}
    /\ found = TRUE

\* processData of a packet the receive buffer takes.
processData(n) ==
    /\ seqoff(m_iRcvLastAck, n) \in 0..(Buffer - 1)
    /\ IF seqcmp(n, m_iRcvCurrSeqNo) > 0
       THEN LET first == incseq(m_iRcvCurrSeqNo)
            IN /\ m_iRcvCurrSeqNo' = n
               /\ IF seqcmp(n, first) > 0
                  THEN /\ list' = insert(list, first, decseq(n))
                       /\ missing' = missing \cup SeqRange(first, decseq(n))
                  ELSE UNCHANGED <<list, missing>>
               /\ UNCHANGED <<kept, found>>
       ELSE /\ list' = remove(list, n)[2]
            /\ found' = (remove(list, n)[1] <=> n \in missing \cup kept)
            /\ missing' = missing \ {n}
            /\ kept' = kept \ {n}
            /\ UNCHANGED m_iRcvCurrSeqNo
    /\ UNCHANGED m_iRcvLastAck

\* sendCtrl(2): everything before the first loss is acknowledged.
Acknowledge ==
    /\ m_iRcvLastAck' = IF list.length = 0 THEN incseq(m_iRcvCurrSeqNo)
                        ELSE getFirstLostSeq(list)
    /\ UNCHANGED <<list, m_iRcvCurrSeqNo, missing, kept, found>>

\* processCtrl of a message drop request. Where the numbers of the message
\* start again at 0, removeRange keeps the largest one if it is in the list.
DropRequest(a, b) ==
    /\ seqcmp(a, b) <= 0
    /\ list' = removeRange(list, a, b)
    /\ missing' = missing \ SeqRange(a, b)
    /\ kept' = IF a <= b THEN kept \ SeqRange(a, b)
               ELSE kept \cup (missing \cap {m_iMaxSeqNo})
    /\ m_iRcvCurrSeqNo' = IF /\ seqcmp(a, incseq(m_iRcvCurrSeqNo)) <= 0
                             /\ seqcmp(b, m_iRcvCurrSeqNo) > 0
                          THEN b ELSE m_iRcvCurrSeqNo
    /\ UNCHANGED <<m_iRcvLastAck, found>>

\* The numbers the buffer takes now.
Expected == {n \in {incseqBy(m_iRcvLastAck, k) : k \in 0..(Buffer - 1)} :
               seqlen(ISN, n) <= MaxArrivals}

Next ==
    \/ \E n \in Expected : processData(n)
    \/ \E a, b \in Expected : DropRequest(a, b)
    \/ Acknowledge
-----------------------------------------------------------------------------
\* The intervals of the list in the order of its links.
RECURSIVE Intervals(_, _)
Intervals(L, c) ==
    IF c = -1 THEN <<>>
    ELSE <<<<L.data1[c], IF L.data2[c] = -1 THEN L.data1[c] ELSE L.data2[c]>>>>
         \o Intervals(L, L.next[c])

\* The linked cells of CRcvLossList are, in order and without overlap, the
\* numbers that were skipped and have neither arrived nor been dropped since,
\* and besides them at most the largest number, which a request to drop a
\* message on both sides of it leaves in the list; the length is right, the
\* links back agree, no other cell holds anything, and remove tells a packet
\* that is in the list from one that is not (insert, remove, processData).
RcvLossExact ==
    LET I == IF list.length = 0 THEN <<>> ELSE Intervals(list, list.head)
        used == {c \in Slots : list.data1[c] # -1}
        lost == missing \cup kept
    IN /\ list.length = Cardinality(lost)
       /\ lost = UNION {SeqRange(I[k][1], I[k][2]) : k \in DOMAIN I}
       /\ \A k \in 1..(Len(I) - 1) : seqcmp(I[k][2], I[k + 1][1]) < 0
       /\ Cardinality(used) = Len(I)
       /\ \A c \in Slots \ used : list.data2[c] = -1
       /\ \A c \in used : list.next[c] # -1 => list.prior[list.next[c]] = c
       /\ list.length # 0 => list.next[list.tail] = -1 /\ list.tail \in used
       /\ found
=============================================================================
