------------------------------- MODULE NoVoHT -------------------------------
(***************************************************************************)
(* NoVoHT, the hash table of a ZHT server (common/novoht.cpp): an array of *)
(* chains that doubles when it fills up, and a log file that put appends   *)
(* to, that a removal marks and that is rewritten after magicNumber        *)
(* removals and when the table is closed or opened.                        *)
(*                                                                         *)
(* The file is the sequence of its records; the position of a record is    *)
(* its index.  stdio keeps the last change in its buffer until the next    *)
(* seek: synced is the file as a crash leaves it.                          *)
(***************************************************************************)
EXTENDS Integers, Sequences, SequencesExt, FiniteSetsExt, KeyValues

CONSTANTS
    Hash,           \* hash(key), a natural number for every key
    Size,           \* the number of chains a table is made with
    magicNumber,    \* removals between two rewrites of the file
    Load,           \* resizeNum in tenths
    MaxSize,        \* bound: no put that would double beyond this size
    MaxRecords      \* bound: no put when the file is this long

ASSUME TableAssumption == Hash \in [Keys -> Nat] /\ Size \in Nat \ {0}

VARIABLES
    persistent,     \* FALSE when the file name is "" and dbfile is NULL
    ht,             \* chains, size, numEl and nRem
    file,           \* the records written, also those still in the buffer
    synced,         \* the records on the disk
    content,        \* history: the map since the table was opened, what the
                    \* opening took up and what the callers did to it
    before          \* history: content before the last change, if there was
                    \* one since the table was opened

htvars == <<persistent, ht, file, synced, content, before>>

Nothing == [k \in Keys |-> NoValue]
Slot(k, n) == Hash[k] % n
Chains(n) == [i \in 0..n - 1 |-> <<>>]
NewTable == [chain |-> Chains(Size), size |-> Size,
             numEl |-> 0, nRem |-> 0]

TableInit ==
    /\ persistent \in BOOLEAN
    /\ ht = NewTable
    /\ file = <<>> /\ synced = <<>>
    /\ content = Nothing /\ before = Nothing

\* The places of k in its chain, at most one when the table is in order.
Places(t, k) ==
    LET chain == t.chain[Slot(k, t.size)]
    IN {i \in DOMAIN chain : chain[i].key = k}
get(t, k) ==
    IF Places(t, k) = {} THEN NoValue
    ELSE t.chain[Slot(k, t.size)][Min(Places(t, k))].val

\* The places of the pairs, and the order in which a walk over the chains, one
\* after the other, visits some of them.
Standing(t) == UNION {{s} \X DOMAIN t.chain[s] : s \in 0..t.size - 1}
PairAt(t, p) == t.chain[p[1]][p[2]]
Precedes(p, q) == p[1] < q[1] \/ (p[1] = q[1] /\ p[2] < q[2])
InOrder(S) ==
    CHOOSE q \in [1..Cardinality(S) -> S] :
        \A i, j \in DOMAIN q : i < j => Precedes(q[i], q[j])
PairsAt(t, q) == [n \in DOMAIN q |-> PairAt(t, q[n])]
Pairs(t) == PairsAt(t, InOrder(Standing(t)))

\* resize: every pair moves to the front of its new chain, in the order of the
\* old chains; numEl is cleared and not counted again.
NewSlot_Old(k, old, new) == Slot(k, old)
NewSlot(k, old, new) == Slot(k, new)
resize(t) ==
    LET new == 2 * t.size
        Moved(s) == {p \in Standing(t) : NewSlot(PairAt(t, p).key, t.size, new) = s}
    IN [t EXCEPT !.size = new, !.numEl = 0,
                 !.chain = [s \in 0..new - 1 |->
                     PairsAt(t, Reverse(InOrder(Moved(s))))]]

\* mark and write on a file d: records are overwritten or appended.
Marked_Skipped(d, pos) == d
Marked(d, pos) == [d EXCEPT ![pos].live = FALSE]
Record(k, v) == [key |-> k, val |-> v, live |-> TRUE]

\* put on table t and file d: the new table and file.
Full(t) == 10 * t.numEl >= t.size * Load
put(t0, d, k, v) ==
    LET t == IF Load # 0 /\ Full(t0) THEN resize(t0) ELSE t0
        s == Slot(k, t.size)
        found == Places(t, k)
        i == Min(found)
        marked == IF found = {} \/ ~persistent THEN d ELSE Marked(d, t.chain[s][i].pos)
        pair == [key |-> k, val |-> v, pos |-> Len(d) + 1]
    IN [table |-> IF found = {}
                  THEN [t EXCEPT !.chain[s] = Append(@, pair), !.numEl = @ + 1]
                  ELSE [t EXCEPT !.chain[s] = [j \in DOMAIN @ |-> IF j = i THEN pair ELSE @[j]]],
        seek |-> marked,
        file |-> Append(marked, Record(k, v))]

\* writeFile: the pairs in the order of the chains, at their new positions.
written(t) == [i \in DOMAIN Pairs(t) |-> Record(Pairs(t)[i].key, Pairs(t)[i].val)]
repositioned(t) ==
    LET q == InOrder(Standing(t))
    IN [t EXCEPT !.chain = [s \in 0..t.size - 1 |-> [i \in DOMAIN t.chain[s] |->
           [t.chain[s][i] EXCEPT !.pos = CHOOSE n \in DOMAIN q : q[n] = <<s, i>>]]]]

PutPair(k, v) ==
    /\ Len(file) < MaxRecords
    /\ Full(ht) => 2 * ht.size <= MaxSize
    /\ content' = [content EXCEPT ![k] = v] /\ before' = content
    /\ LET done == put(ht, file, k, v)
       IN /\ ht' = done.table
          /\ IF persistent THEN file' = done.file /\ synced' = done.seek
                           ELSE UNCHANGED <<file, synced>>
    /\ UNCHANGED persistent

(***************************************************************************)
(* remove of a key that is there; otherwise it answers -1 and changes      *)
(* nothing.  The marks wait in the buffer, the rewrite truncates at once.  *)
(***************************************************************************)
RemoveKey(k) ==
    /\ Places(ht, k) # {}
    /\ content' = [content EXCEPT ![k] = NoValue] /\ before' = content
    /\ LET s == Slot(k, ht.size)
           i == Min(Places(ht, k))
           cut == [ht EXCEPT !.chain[s] = RemoveAt(@, i), !.numEl = @ - 1]
           full == ht.nRem + 1 = magicNumber
       IN /\ ht' = IF full /\ persistent
                   THEN [repositioned(cut) EXCEPT !.nRem = 0]
                   ELSE [cut EXCEPT !.nRem = IF full THEN 0 ELSE @ + 1]
          /\ IF ~persistent THEN UNCHANGED <<file, synced>>
             ELSE IF full THEN file' = written(cut) /\ synced' = <<>>
             ELSE file' = Marked(file, ht.chain[s][i].pos) /\ synced' = file
    /\ UNCHANGED persistent

(***************************************************************************)
(* readFile on the records d of a new table: the first live record is put, *)
(* which seeks to the end of the file, so that nothing more is read; then  *)
(* writeFile keeps what was put. Of the map only that pair is left.        *)
(***************************************************************************)
\* Mutant: marked records are read as well.
LiveIn_Marked(d) == DOMAIN d
LiveIn(d) == {i \in DOMAIN d : d[i].live}

Recovered(d) ==
    LET first == d[Min(LiveIn(d))]
    IN IF LiveIn(d) = {} THEN NewTable
       ELSE repositioned(put(NewTable, d, first.key, first.val).table)

\* What callers of an opened table may rely on: the pair of its first live record.
Taken(d) ==
    LET live == {i \in DOMAIN d : d[i].live}
    IN [k \in Keys |-> IF live # {} /\ d[Min(live)].key = k THEN d[Min(live)].val
                       ELSE NoValue]

\* The constructor, on the file a crash or a close leaves behind.
Open(d) ==
    /\ ht' = IF persistent THEN Recovered(d) ELSE NewTable
    /\ IF persistent THEN file' = written(ht') ELSE UNCHANGED file
    /\ synced' = <<>>
    /\ content' = IF persistent THEN Taken(d) ELSE Nothing
    /\ before' = content'
    /\ UNCHANGED persistent
CrashAndOpen == \E buffered \in {synced, file} : Open(buffered)
CloseAndOpen == Open(written(ht))

TableNext ==
    \/ \E k \in Keys, v \in Values : PutPair(k, v)
    \/ \E k \in Keys : RemoveKey(k)
    \/ CrashAndOpen
    \/ CloseAndOpen

TableSpec == TableInit /\ [][TableNext]_htvars

-----------------------------------------------------------------------------
(***************************************************************************)
(* Properties.                                                             *)
(***************************************************************************)

\* From one opening of the table to the next it is the map that the opening took
\* up, with all that its callers put and removed since: every key stands once, in
\* its chain, with its last value, through collisions, resizing and rewrites of
\* the file ("0 success", put and remove of novoht.cpp). What an opening takes up
\* is what readFile leaves of the map, one pair (Taken, OpensCurrent).
TableExact ==
    /\ \A k \in Keys : get(ht, k) = content[k]
    /\ \A s \in DOMAIN ht.chain : \A i, j \in DOMAIN ht.chain[s] :
          /\ Slot(ht.chain[s][i].key, ht.size) = s
          /\ ht.chain[s][i].key = ht.chain[s][j].key => i = j

\* A live record of the file is the current value of its key, and each pair
\* knows its record, so that a mark never hits another key: what was written and
\* flushed brings back no removed key and no old value ("mark line in file for
\* deletion", novoht.cpp).
LogCurrent ==
    persistent =>
        /\ \A i \in DOMAIN file : file[i].live => content[file[i].key] = file[i].val
        /\ \A s \in DOMAIN ht.chain : \A i \in DOMAIN ht.chain[s] :
              LET pair == ht.chain[s][i]
              IN pair.pos \in DOMAIN file /\ file[pair.pos] = Record(pair.key, pair.val)

\* An opening brings back no removed key and no replaced value: what it finds for
\* a key is nothing, or what its callers put last; after a crash it may be what
\* was there before the last change (readFile over the marks, put's buffer).
OpensCurrent ==
    [][/\ CloseAndOpen => \A k \in Keys : get(ht', k) \in {NoValue, content[k]}
       /\ CrashAndOpen => \A k \in Keys : get(ht', k) \in {NoValue, content[k], before[k]}
      ]_htvars
=============================================================================
