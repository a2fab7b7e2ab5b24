----------------------------- MODULE SndLossList -----------------------------
(***************************************************************************)
(* CSndLossList (list.cpp): what the sender has to send again. The numbers *)
(* are kept as intervals, each in the cell of a static array that is as    *)
(* far from the head's cell as its first number is from the head's, and    *)
(* the cells are linked in order. The state has the list, the variables of *)
(* CUDT its callers compute their arguments from, and the set the list     *)
(* stands for. The mutex m_ListLock makes every operation atomic.          *)
(***************************************************************************)
EXTENDS SeqNo, Sequences, FiniteSets, SequencesExt

CONSTANTS FlowWindow,     \* the flow window; the list has twice as many cells
          ISN,        \* the first number sent
          MaxSends    \* bound on the packets sent

VARIABLES list,            \* data1, data2, next, head, length, lastInsertPos
          m_iSndLastAck, m_iSndLastDataAck, m_iSndCurrSeqNo,
          lost             \* the numbers inserted and not yet removed

sndlistvars == <<list, m_iSndLastAck, m_iSndLastDataAck, m_iSndCurrSeqNo, lost>>

m_iSize == 2 * FlowWindow
Slots   == 0..(m_iSize - 1)
-----------------------------------------------------------------------------
EmptyList ==
    [data1 |-> [c \in Slots |-> -1], data2 |-> [c \in Slots |-> -1],
     next |-> [c \in Slots |-> -1],
     head |-> -1, length |-> 0, lastInsertPos |-> -1]

\* The second number of a cell: -1 when the interval is a single number.
Second(a, b) == IF b # a THEN b ELSE -1

\* The cell that is `offset` after the head's.
Cell(L, offset) == (L.head + offset + m_iSize) % m_iSize

\* A new cell for [a, b] in front of cell n.
NewCell(L, loc, a, b, n) ==
    [L EXCEPT !.data1[loc] = a,
              !.data2[loc] = IF b # a THEN b ELSE @,
              !.next[loc] = n,
              !.length = @ + seqlen(a, b),
              !.lastInsertPos = loc]

\* Cell loc, which begins at a, now ends at b if that is later.
Extend_Twice(L, loc, a, b) ==
    IF L.data2[loc] = -1
    THEN IF b = a THEN L
         ELSE [L EXCEPT !.data2[loc] = b, !.length = @ + seqlen(a, b) - 1]
    ELSE IF seqcmp(b, L.data2[loc]) > 0
         THEN [L EXCEPT !.data2[loc] = b,
                        !.length = @ + seqlen(L.data2[loc], b)]
         ELSE L
Extend(L, loc, a, b) ==
    IF L.data2[loc] = -1
    THEN IF b = a THEN L
         ELSE [L EXCEPT !.data2[loc] = b, !.length = @ + seqlen(a, b) - 1]
    ELSE IF seqcmp(b, L.data2[loc]) > 0
         THEN [L EXCEPT !.data2[loc] = b,
                        !.length = @ + seqlen(L.data2[loc], b) - 1]
         ELSE L

\* The last cell, from cell i on, that begins before a.
RECURSIVE Before(_, _, _)
Before(L, i, a) ==
    IF L.next[i] # -1 /\ seqcmp(L.data1[L.next[i]], a) < 0
    THEN Before(L, L.next[i], a) ELSE i

\* The cells after loc that its interval reaches become part of it.
RECURSIVE Coalesce(_, _)
Coalesce(L, loc) ==
    LET i == L.next[loc]
        end == L.data2[loc]
    IN IF \/ i = -1 \/ end = -1
          \/ seqcmp(L.data1[i], incseq(end)) > 0
       THEN L
       ELSE LET longer == L.data2[i] # -1 /\ seqcmp(L.data2[i], end) > 0
                next == L.data2[i] = -1 /\ L.data1[i] = incseq(end)
                twice == IF longer
                         THEN IF seqcmp(end, L.data1[i]) >= 0
                              THEN seqlen(L.data1[i], end) ELSE 0
                         ELSE IF L.data2[i] # -1
                              THEN seqlen(L.data1[i], L.data2[i])
                              ELSE IF next THEN 0 ELSE 1
            IN Coalesce([L EXCEPT !.length = @ - twice,
                                  !.data2[loc] = IF longer THEN L.data2[i]
                                                 ELSE IF next THEN L.data1[i]
                                                 ELSE @,
                                  !.data1[i] = -1, !.data2[i] = -1,
                                  !.next[loc] = L.next[i]], loc)

\* [a, b] goes into cell loc; nothing follows if it is there already.
Absorb(L, loc, a, b) ==
    LET M == Extend(L, loc, a, b)
    IN [(IF M = L THEN L ELSE Coalesce(M, loc)) EXCEPT !.lastInsertPos = loc]

insert(L, a, b) ==
    IF L.length = 0
    THEN [NewCell(L, 0, a, b, -1) EXCEPT !.head = 0]
    ELSE LET offset == seqoff(L.data1[L.head], a)
             loc == Cell(L, offset)
             from == IF L.lastInsertPos # -1
                        /\ seqcmp(L.data1[L.lastInsertPos], a) < 0
                     THEN L.lastInsertPos ELSE L.head
             prior == Before(L, from, a)
         IN IF offset < 0
            THEN Coalesce([NewCell(L, loc, a, b, L.head) EXCEPT !.head = loc], loc)
            ELSE IF a = L.data1[loc]
            THEN Absorb(L, loc, a, b)
            ELSE IF L.data2[prior] = -1 \/ seqcmp(L.data2[prior], a) < 0
            THEN Coalesce([NewCell(L, loc, a, b, L.next[prior])
                              EXCEPT !.next[prior] = loc], loc)
            ELSE Absorb(L, prior, a, b)
-----------------------------------------------------------------------------
\* What is left of cell i after its number n moves to the cell `to`.
MoveRest(L, i, to, n) ==
    [L EXCEPT !.data1[to] = incseq(n),
              !.data2[to] = IF seqcmp(L.data2[i], incseq(n)) > 0
                            THEN L.data2[i] ELSE @,
              !.next[to] = L.next[i]]

\* The cells from h up to the new head are emptied.
RECURSIVE DropUpTo(_, _)
DropUpTo(L, h) ==
    IF h = L.head THEN L
    ELSE DropUpTo([L EXCEPT !.length = @ - (IF L.data2[h] # -1
                                            THEN seqlen(L.data1[h], L.data2[h])
                                            ELSE 1),
                            !.data1[h] = -1, !.data2[h] = -1,
                            !.lastInsertPos = IF @ = h THEN -1 ELSE @],
                  L.next[h])

\* The first number leaves the list.
DropFirst(L) ==
    LET h == L.head
        to == (h + 1) % m_iSize
        M == [L EXCEPT !.length = @ - 1,
                       !.lastInsertPos = IF @ = h THEN -1 ELSE @]
    IN IF L.data2[h] = -1
       THEN [M EXCEPT !.data1[h] = -1, !.head = L.next[h]]
       ELSE [MoveRest(M, h, to, L.data1[h])
                EXCEPT !.data1[h] = -1, !.data2[h] = -1, !.head = to]

\* n is in the middle of cell i, at the place of cell loc.
SplitAt(L, i, loc, n) ==
    LET to == (loc + 1) % m_iSize
        M == MoveRest(L, i, to, n)
    IN [M EXCEPT !.data2[i] = n, !.next[i] = to, !.head = to]

\* n is the first of cell loc, which is not the head.
CutFirst(L, loc, n) ==
    IF L.data2[loc] = -1 THEN [L EXCEPT !.head = L.next[loc]]
    ELSE LET to == (loc + 1) % m_iSize
         IN [MoveRest(L, loc, to, n)
                EXCEPT !.head = to, !.next[loc] = to, !.data2[loc] = -1]

\* Every number up to n leaves the list.
remove(L, n) ==
    IF L.length = 0 THEN L
    ELSE LET offset == seqoff(L.data1[L.head], n)
             loc == Cell(L, offset)
             prior == Before(L, L.head, n)
         IN IF offset < 0 THEN L
            ELSE IF offset = 0 THEN DropFirst(L)
            ELSE IF n = L.data1[loc] THEN DropUpTo(CutFirst(L, loc, n), L.head)
            ELSE IF L.data2[prior] # -1 /\ seqcmp(L.data2[prior], n) > 0
            THEN DropUpTo(SplitAt(L, prior, loc, n), L.head)
            ELSE DropUpTo([L EXCEPT !.head = L.next[prior]], L.head)
-----------------------------------------------------------------------------
Init ==
    /\ list = EmptyList
    /\ m_iSndLastAck = ISN
    /\ m_iSndLastDataAck = ISN
    /\ m_iSndCurrSeqNo = decseq(ISN)
    /\ lost = {}

\* packData with nothing to send again: a new packet.
SendNew ==
    /\ list.length = 0
    /\ seqlen(m_iSndLastAck, incseq(m_iSndCurrSeqNo)) <= FlowWindow
    /\ seqlen(ISN, incseq(m_iSndCurrSeqNo)) <= MaxSends
    /\ m_iSndCurrSeqNo' = incseq(m_iSndCurrSeqNo)
    /\ UNCHANGED <<list, m_iSndLastAck, m_iSndLastDataAck, lost>>

\* packData with something to send again: the first lost number.
getLostSeq ==
    /\ list.length # 0
    /\ list' = DropFirst(list)
    /\ lost' = lost \ {list.data1[list.head]}
    /\ UNCHANGED <<m_iSndLastAck, m_iSndLastDataAck, m_iSndCurrSeqNo>>

\* A loss report [a, b]; what has been acknowledged since is not inserted.
LossReport(a, b) ==
    /\ seqcmp(a, b) <= 0
    /\ seqcmp(b, m_iSndCurrSeqNo) <= 0
    /\ seqcmp(b, m_iSndLastAck) >= 0
    /\ LET first == IF seqcmp(a, m_iSndLastAck) >= 0 THEN a ELSE m_iSndLastAck
       IN /\ list' = insert(list, first, b)
          /\ lost' = lost \cup SeqRange(first, b)
    /\ UNCHANGED <<m_iSndLastAck, m_iSndLastDataAck, m_iSndCurrSeqNo>>

\* checkTimers: nothing heard for long, everything unacknowledged is lost.
Expire ==
    /\ incseq(m_iSndCurrSeqNo) # m_iSndLastAck
    /\ list.length = 0
    /\ list' = insert(list, m_iSndLastAck, m_iSndCurrSeqNo)
    /\ lost' = SeqRange(m_iSndLastAck, m_iSndCurrSeqNo)
    /\ UNCHANGED <<m_iSndLastAck, m_iSndLastDataAck, m_iSndCurrSeqNo>>

\* A light acknowledgement leaves the list alone.
LightAck(ack) ==
    /\ seqcmp(ack, m_iSndLastAck) > 0
    /\ m_iSndLastAck' = ack
    /\ UNCHANGED <<list, m_iSndLastDataAck, m_iSndCurrSeqNo, lost>>

\* An acknowledgement of everything before ack.
Ack(ack) ==
    /\ seqoff(m_iSndLastDataAck, ack) > 0
    /\ m_iSndLastAck' = IF seqcmp(ack, m_iSndLastAck) >= 0 THEN ack
                        ELSE m_iSndLastAck
    /\ m_iSndLastDataAck' = ack
    /\ list' = remove(list, decseq(ack))
    /\ lost' = {n \in lost : seqcmp(n, ack) >= 0}
    /\ UNCHANGED m_iSndCurrSeqNo

\* The numbers a peer can name: sent and not acknowledged by a full ACK.
Outstanding == IF incseq(m_iSndCurrSeqNo) = m_iSndLastDataAck THEN {}
               ELSE SeqRange(m_iSndLastDataAck, m_iSndCurrSeqNo)

Next ==
    \/ SendNew
    \/ getLostSeq
    \/ Expire
    \/ \E a, b \in Outstanding : LossReport(a, b)
    \/ \E n \in Outstanding : LightAck(incseq(n)) \/ Ack(incseq(n))
-----------------------------------------------------------------------------
\* The intervals of the list, in the order of its links.
RECURSIVE Intervals(_, _)
Intervals(L, c) ==
    IF c = -1 THEN <<>>
    ELSE <<<<L.data1[c], IF L.data2[c] = -1 THEN L.data1[c] ELSE L.data2[c]>>>>
         \o Intervals(L, L.next[c])

\* The linked cells of CSndLossList are, in order and without overlap, the
\* numbers reported lost and not since sent again or acknowledged; their
\* length is right, no other cell holds anything, and the cell the next search
\* starts from is one of the list (insert, remove and getLostSeq).
SndLossExact ==
    LET I == IF list.length = 0 THEN <<>> ELSE Intervals(list, list.head)
    IN /\ list.length = Cardinality(lost)
       /\ lost = UNION {SeqRange(I[k][1], I[k][2]) : k \in DOMAIN I}
       /\ \A k \in 1..(Len(I) - 1) : seqcmp(I[k][2], I[k + 1][1]) < 0
       /\ Cardinality({c \in Slots : list.data1[c] # -1}) = Len(I)
       /\ \A c \in Slots : list.data1[c] = -1 => list.data2[c] = -1
       /\ list.length # 0 /\ list.lastInsertPos # -1
             => list.data1[list.lastInsertPos] # -1
=============================================================================
