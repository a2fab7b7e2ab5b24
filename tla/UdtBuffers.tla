----------------------------- MODULE UdtBuffers ------------------------------
(***************************************************************************)
(* The buffers between the calls of the program and the packets of one UDT *)
(* connection: the ring of blocks of the sender (CSndBuffer, buffer.cpp),  *)
(* the window of the receiver (CRcvBuffer) and the pool of units the       *)
(* receiving queue reads packets into (CUnitQueue, queue.cpp). Sequence    *)
(* numbers are plain numbers here (SeqNo.tla has their wrap). A packet     *)
(* arrives or is lost; one that was lost is sent again later, and so may   *)
(* be one that was not. No message expires: ttl is -1, the default of      *)
(* sendmsg and the value of send and sendfile.                             *)
(*                                                                         *)
(* Acknowledged blocks of the ring and free units of the pool hold nothing *)
(* of interest and are blank. Bytes are numbered in the order the program  *)
(* sends them. In a stream the program reads any number of bytes;          *)
(* otherwise it reads messages.                                            *)
(***************************************************************************)
EXTENDS Naturals, Integers, Sequences, FiniteSets, SequencesExt, FiniteSetsExt

CONSTANTS MSS,        \* payload of a packet, in bytes
          Lens,       \* lengths of the program's calls
          Bytes,      \* bound on the bytes the program sends
          SndSize,    \* CSndBuffer::m_iSize at the start
          RcvSize,    \* CRcvBuffer::m_iSize
          EntrySize,  \* units of an entry of the pool
          MaxEntries, \* bound on the entries there is memory for
          Ahead       \* bound on the packets sent and not acknowledged

ASSUME BuffersAssumption == RcvSize \in Nat \ {0} /\ EntrySize \in Nat \ {0}

VARIABLES streaming,  \* the type of the socket
          sent,       \* the messages the program sent
          snd,        \* CSndBuffer, and the numbers of the sender
          rcv,        \* CRcvBuffer, and what the receiver has
          pool,       \* CUnitQueue
          got         \* the bytes, or the messages, the program read

buffervars == <<streaming, sent, snd, rcv, pool, got>>

Blank == [bytes |-> <<>>, head |-> FALSE, tail |-> FALSE,
          inorder |-> TRUE]
NoUnit == 0

BuffersInit ==
    /\ streaming \in BOOLEAN
    /\ sent = <<>> /\ got = <<>>
    /\ snd = [ring |-> [i \in 0..(SndSize - 1) |-> Blank], size |-> SndSize,
              first |-> 0, curr |-> 0, last |-> 0, count |-> 0,
              acked |-> 0, top |-> 0]  \* m_iSndLastDataAck, m_iSndCurrSeqNo + 1
    /\ rcv = [unit |-> [i \in 0..(RcvSize - 1) |-> NoUnit], start |-> 0,
              lastack |-> 0, maxpos |-> 0, notch |-> 0,
              acked |-> 0, have |-> {}]
    /\ pool = [flag |-> [u \in 1..EntrySize |-> 0],
               data |-> [u \in 1..EntrySize |-> Blank],
               entry |-> 1, avail |-> 1, count |-> 0]
-----------------------------------------------------------------------------
\* CSndBuffer::increase, as often as needed: blank blocks after the last one.
Shifted(s, p, n) == IF p > s.last THEN p + n ELSE p

increased(s, n) ==
    [s EXCEPT !.ring = [i \in 0..(s.size + n - 1) |->
                          IF i <= s.last THEN s.ring[i]
                          ELSE IF i <= s.last + n THEN Blank
                          ELSE s.ring[i - n]],
              !.size = @ + n,
              !.first = Shifted(s, @, n), !.curr = Shifted(s, @, n)]

\* Mutant: the ring may become full, and looks empty.
RoomFor_Full(s, blocks) ==
    increased(s, SndSize * (CHOOSE k \in 0..(s.count + blocks) :
                              /\ blocks + s.count <= s.size + k * SndSize
                              /\ \A j \in 0..(k - 1) :
                                   blocks + s.count > s.size + j * SndSize))

RoomFor(s, blocks) ==
    increased(s, SndSize * (CHOOSE k \in 0..(s.count + blocks) :
                              /\ blocks + s.count < s.size + k * SndSize
                              /\ \A j \in 0..(k - 1) :
                                   blocks + s.count >= s.size + j * SndSize))

Blocks(len) == (len + MSS - 1) \div MSS
Written == FlattenSeq([i \in DOMAIN sent |-> sent[i].bytes])
Before == Len(Written)

\* The blocks of the next len bytes, of which only have exist.
Pieces(len, have, order) ==
    [i \in 1..Blocks(have) |->
        [bytes |-> [j \in 1..Min({MSS, have - (i - 1) * MSS}) |->
                      Before + (i - 1) * MSS + j],
         head |-> i = 1, tail |-> i = Blocks(len),
         inorder |-> order]]

Filled(s, pieces) ==
    [s EXCEPT !.ring = [i \in 0..(s.size - 1) |->
                          LET k == ((i - s.last) % s.size) + 1
                          IN IF k \in DOMAIN pieces THEN pieces[k] ELSE s.ring[i]],
              !.last = (@ + Len(pieces)) % s.size]

Sends(len, have, order) ==
    LET s == Filled(RoomFor(snd, Blocks(len)), Pieces(len, have, order))
    IN /\ snd' = [s EXCEPT !.count = @ + Blocks(len)]
       /\ sent' = Append(sent, [bytes |-> [j \in 1..have |-> Before + j],
                                 order |-> order])
       /\ UNCHANGED <<streaming, rcv, pool, got>>

\* send and sendmsg.
addBuffer(len, order) ==
    /\ Before + len <= Bytes
    /\ streaming => order
    /\ Sends(len, len, order)

\* sendfile: the file may end early, and the count takes no notice (bound: one
\* such file).
addBufferFromFile(len, have) ==
    /\ streaming /\ Before + len <= Bytes /\ have < len
    /\ snd.count = (snd.last - snd.first) % snd.size
    /\ Sends(len, have, TRUE)

\* The acknowledgement of the receiver reaches the sender.
ackDataSnd ==
    /\ rcv.acked > snd.acked
    /\ LET offset == rcv.acked - snd.acked
       IN snd' = [snd EXCEPT !.ring = [i \in DOMAIN @ |->
                                         IF (i - snd.first) % snd.size < offset
                                         THEN Blank ELSE @[i]],
                             !.first = (@ + offset) % snd.size,
                             !.count = @ - offset, !.acked = rcv.acked]
    /\ UNCHANGED <<streaming, sent, rcv, pool, got>>
-----------------------------------------------------------------------------
UnitsOf(p) == Cardinality(DOMAIN p.flag)
Used(p) == {u \in DOMAIN p.flag : p.flag[u] # 0}

\* CUnitQueue::increase: counts again; a new entry if nine tenths are used.
increase(p) ==
    LET n == UnitsOf(p)
        grows == 10 * Cardinality(Used(p)) >= 9 * n /\ n < EntrySize * MaxEntries
    IN [p EXCEPT !.count = Cardinality(Used(p)),
                 !.flag = IF grows THEN [u \in 1..(n + EntrySize) |->
                                           IF u <= n THEN p.flag[u] ELSE 0]
                          ELSE @,
                 !.data = IF grows THEN [u \in 1..(n + EntrySize) |->
                                           IF u <= n THEN p.data[u] ELSE Blank]
                          ELSE @]

\* The search: the entries in turn from the current one, of each the units from
\* m_pAvailUnit on, but not the last one, and then its first.
Entries(p) == UnitsOf(p) \div EntrySize
FirstOf(e) == (e - 1) * EntrySize + 1
EntryAt(p, k) == ((p.entry - 1 + k) % Entries(p)) + 1
StartAt(p, k) == IF k = 0 THEN p.avail ELSE FirstOf(EntryAt(p, k))

FreeAt(p, k) ==
    {u \in DOMAIN p.flag \ Used(p) :
        \/ u = FirstOf(EntryAt(p, k))
        \/ u \in StartAt(p, k)..(FirstOf(EntryAt(p, k)) + EntrySize - 2)}

NextFree(p, k) ==
    LET ahead == {u \in FreeAt(p, k) : u >= StartAt(p, k)}
    IN Min(IF ahead # {} THEN ahead ELSE FreeAt(p, k))

\* A search in vain ends where it began, and makes room for the next one.
Searched(p) ==
    LET turns == {k \in 0..(Entries(p) - 1) : FreeAt(p, k) # {}}
        k == Min(turns)
    IN IF turns = {}
       THEN [pool |-> increase([p EXCEPT !.avail = FirstOf(p.entry)]), unit |-> NoUnit]
       ELSE [pool |-> [p EXCEPT !.entry = EntryAt(p, k), !.avail = NextFree(p, k)],
             unit |-> NextFree(p, k)]

getNextAvailUnit ==
    LET p == IF pool.count * 10 > UnitsOf(pool) * 9 THEN increase(pool) ELSE pool
    IN IF p.count >= UnitsOf(p) THEN [pool |-> p, unit |-> NoUnit] ELSE Searched(p)
-----------------------------------------------------------------------------
getRcvDataSize(r) == (r.lastack - r.start) % RcvSize
getAvailBufSize(r) == RcvSize - getRcvDataSize(r) - 1

\* The worker and the program count units without a lock: a change may be lost
\* (bound: one, until the units are counted again).
MayLose == {FALSE, pool.count = Cardinality(Used(pool))}

\* The worker reads a packet into a unit, or discards it; processData puts the
\* unit where the packet belongs, or leaves it free.
addData(p, lost) ==
    LET x == getNextAvailUnit
        offset == p.seq - rcv.acked
        pos == (rcv.lastack + offset) % RcvSize
        inside == offset >= 0 /\ offset < getAvailBufSize(rcv)
    IN IF x.unit = NoUnit \/ ~inside
       THEN /\ ~lost
            /\ pool' = x.pool
            /\ UNCHANGED rcv
       ELSE IF rcv.unit[pos] # NoUnit
       THEN /\ ~lost
            /\ pool' = x.pool
            /\ rcv' = [rcv EXCEPT !.maxpos = Max({@, offset})]
       ELSE /\ pool' = [x.pool EXCEPT !.flag[x.unit] = 1, !.data[x.unit] = p.block,
                                    !.count = IF lost THEN @ ELSE @ + 1]
            /\ rcv' = [rcv EXCEPT !.maxpos = Max({@, offset}),
                                  !.unit[pos] = x.unit,
                                  !.have = @ \cup {p.seq}]

\* The packet of a block arrives, or not.
Transmitted(seq, at) ==
    \/ \E lost \in MayLose : addData([seq |-> seq, block |-> snd.ring[at]], lost)
    \/ UNCHANGED <<rcv, pool>>

\* A new packet, and one that was lost, by its offset.
readData ==
    /\ snd.curr # snd.last /\ snd.top - snd.acked < Ahead
    /\ Transmitted(snd.top, snd.curr)
    /\ snd' = [snd EXCEPT !.curr = (@ + 1) % snd.size, !.top = @ + 1]
    /\ UNCHANGED <<streaming, sent, got>>

readDataAt(offset) ==
    /\ offset < snd.top - snd.acked
    /\ Transmitted(snd.acked + offset, (snd.first + offset) % snd.size)
    /\ UNCHANGED <<streaming, sent, snd, got>>

\* sendCtrl acknowledges what is complete.
ackData ==
    /\ \E len \in 1..Cardinality(rcv.have) :
          /\ \A i \in 0..(len - 1) : (rcv.acked + i) \in rcv.have
          /\ (rcv.acked + len) \notin rcv.have
          /\ rcv' = [rcv EXCEPT !.lastack = (@ + len) % RcvSize,
                                !.maxpos = Max({@ - len, 0}),
                                !.acked = @ + len,
                                !.have = {s \in @ : s >= rcv.acked + len}]
    /\ UNCHANGED <<streaming, sent, snd, pool, got>>

At(r, i) == (r.start + i) % RcvSize

\* The first n places of the window.
First(r, n) == {At(r, i) : i \in 0..(n - 1)}

\* Mutant: the units stay in use.
Freed_Kept(p, r, places, lost) ==
    LET out == {r.unit[i] : i \in places} \ {NoUnit}
    IN [p EXCEPT !.count = @ - Cardinality(out) + lost]

\* The units at these places are free again, and the places empty.
Freed(p, r, places, lost) ==
    LET out == {r.unit[i] : i \in places} \ {NoUnit}
    IN [p EXCEPT !.flag = [u \in DOMAIN @ |-> IF u \in out THEN 0 ELSE @[u]],
                 !.data = [u \in DOMAIN @ |-> IF u \in out THEN Blank ELSE @[u]],
                 !.count = @ - Cardinality(out) + lost]

Emptied(r, places, start) ==
    [r EXCEPT !.unit = [i \in DOMAIN @ |-> IF i \in places THEN NoUnit ELSE @[i]],
              !.start = start]

\* recv and recvfile: units that are read to their end are freed, the notch
\* says how much of the next one is.
readBuffer(len, lost) ==
    /\ streaming /\ getRcvDataSize(rcv) > 0
    /\ LET blocks == [i \in 1..getRcvDataSize(rcv) |->
                        pool.data[rcv.unit[At(rcv, i - 1)]].bytes]
           all == FlattenSeq(blocks)
           bytes == SubSeq(all, rcv.notch + 1, Min({rcv.notch + len, Len(all)}))
           upto == rcv.notch + Len(bytes)
           end == [n \in 0..Len(blocks) |-> Len(FlattenSeq(SubSeq(blocks, 1, n)))]
       IN \E n \in 0..Len(blocks) :
            /\ end[n] <= upto /\ \A k \in (n + 1)..Len(blocks) : end[k] > upto
            /\ got' = got \o bytes
            /\ lost => n > 0
            /\ rcv' = [Emptied(rcv, First(rcv, n), At(rcv, n))
                          EXCEPT !.notch = upto - end[n]]
            /\ pool' = Freed(pool, rcv, First(rcv, n), IF lost THEN 1 ELSE 0)
    /\ UNCHANGED <<streaming, sent, snd>>
-----------------------------------------------------------------------------
\* scanMsg. What lies at the start and is not the head of a message that may
\* be whole is skipped ...
Fresh(p, r, i) == r.unit[i] # NoUnit /\ p.flag[r.unit[i]] = 1

Good(p, r, i) ==
    LET n == getRcvDataSize(r)
        end == {k \in i..(n - 1) : Fresh(p, r, At(r, k)) /\ p.data[r.unit[At(r, k)]].tail}
        upto == IF end = {} THEN n - 1 ELSE Min(end)
    IN /\ Fresh(p, r, At(r, i)) /\ p.data[r.unit[At(r, i)]].head
       /\ \A k \in i..upto : Fresh(p, r, At(r, k))

Skipped(p, r) ==
    Min({i \in 0..getRcvDataSize(r) : i = getRcvDataSize(r) \/ Good(p, r, i)})

\* ... then the first message is looked for that is whole and either
\* acknowledged or allowed to overtake: from p to q. Heads are those that
\* reach place i without a gap.
Heads(p, r, i) ==
    {j \in 0..i : /\ \A k \in j..i : Fresh(p, r, At(r, k))
                  /\ p.data[r.unit[At(r, j)]].head}

passack(r, i) == \E j \in 0..i : At(r, j) = r.lastack

Whole(p, r, i) ==
    /\ Heads(p, r, i) # {}
    /\ p.data[r.unit[At(r, i)]].tail
    /\ passack(r, i) => ~p.data[r.unit[At(r, i)]].inorder

\* One that fills the buffer and goes on counts as found: q is then the place
\* before p.
scanMsg(p, r) ==
    LET last == r.maxpos + getRcvDataSize(r)
        whole == {i \in 0..last : Whole(p, r, i)}
        i == IF whole # {} THEN Min(whole) ELSE last
        head == IF Heads(p, r, i) = {} THEN -1 ELSE At(r, Max(Heads(p, r, i)))
    IN IF whole # {}
       THEN [p |-> head, q |-> At(r, i), passack |-> passack(r, i), found |-> TRUE]
       ELSE [p |-> head, q |-> At(r, i + 1), passack |-> passack(r, i + 1),
             found |-> At(r, i + 2) = head]

\* The places from p to q, none if q is the one before p.
FromTo(p, q) == [i \in 0..(((q + 1 - p) % RcvSize) - 1) |-> (p + i) % RcvSize]

\* recvmsg, with room for the message: an acknowledged one leaves the window,
\* one that overtakes is marked as read. Without a message, and with one that
\* is larger than the buffer, only the skipping remains, and recvmsg waits on.
readMsg(lost) ==
    /\ ~streaming
    /\ ~(rcv.start = rcv.lastack /\ rcv.maxpos <= 0)
    /\ LET k == Skipped(pool, rcv)
           r == Emptied(rcv, First(rcv, k), At(rcv, k))
           pl == Freed(pool, rcv, First(rcv, k), 0)
           s == scanMsg(pl, r)
           at == FromTo(s.p, s.q)
           bytes == FlattenSeq([i \in 1..Cardinality(DOMAIN at) |->
                                  pl.data[r.unit[at[i - 1]]].bytes])
           read == IF DOMAIN at = {} THEN got ELSE Append(got, bytes)
       IN \/ /\ ~s.found /\ ~lost /\ k > 0
             /\ rcv' = r /\ pool' = pl /\ UNCHANGED got
          \/ /\ s.found /\ s.passack /\ ~lost
             /\ got' = read
             /\ rcv' = r
             /\ pool' = [pl EXCEPT !.flag = [u \in DOMAIN @ |->
                            IF \E i \in DOMAIN at : r.unit[at[i]] = u
                            THEN 2 ELSE @[u]]]
          \/ /\ s.found /\ ~s.passack
             /\ got' = read
             /\ rcv' = Emptied(r, Range(at), (s.q + 1) % RcvSize)
             /\ pool' = Freed(pl, r, Range(at), IF lost THEN 1 ELSE 0)
    /\ UNCHANGED <<streaming, sent, snd>>

BuffersNext ==
    \/ \E len \in Lens :
          \/ \E order \in BOOLEAN : addBuffer(len, order)
          \/ \E have \in 0..len : addBufferFromFile(len, have)
          \/ \E lost \in MayLose : readBuffer(len, lost)
    \/ readData \/ ackDataSnd \/ ackData
    \/ \E offset \in 0..(Ahead - 1) : readDataAt(offset)
    \/ \E lost \in MayLose : readMsg(lost)

BuffersSpec == BuffersInit /\ [][BuffersNext]_buffervars
-----------------------------------------------------------------------------
\* Whatever is lost, repeated or reordered, however the ring grows, wraps and
\* is filled again and however the program cuts its reads, it reads the bytes
\* of a stream in order and none twice; of messages, each read is one whole
\* message, none comes twice, and one that must not overtake comes after
\* every one sent before it that must not either.
Intact ==
    IF streaming
    THEN IsPrefix(got, Written)
    ELSE \E from \in [DOMAIN got -> DOMAIN sent] :
            /\ \A i \in DOMAIN got : got[i] = sent[from[i]].bytes
            /\ \A i, j \in DOMAIN got :
                  /\ from[i] = from[j] => i = j
                  /\ i < j /\ sent[from[i]].order /\ sent[from[j]].order
                        => from[i] < from[j]

\* A unit is in use exactly while one place of the window holds it: none is
\* handed out again before it was read, none is lost for the pool, although
\* the count of the pool may be wrong.
UnitsAccounted ==
    /\ Used(pool) = Range(rcv.unit) \ {NoUnit}
    /\ \A i, j \in DOMAIN rcv.unit :
          rcv.unit[i] = rcv.unit[j] /\ rcv.unit[i] # NoUnit => i = j
=============================================================================
