# A TLA+ development of FusionFS with its SSD cache

FusionFS is a distributed file system in user space. Every node runs a FUSE
process over a local directory tree, a daemon that serves its files to other
nodes, and a server of a distributed hash table (ZHT) that says where a file is
and what a directory lists. This variant keeps the local tree on an SSD and
moves files that are not in use to a hard disk. The modules here model the parts
of `src/src` that carry this logic, down to the transport library that moves the
files; TLC checks them on small instances, and TLAPS proves the central facts
about the replacement queue, placement and tiers, the name space, the store,
transfers, the UDT connection and its sockets for every size.

Paths below are relative to the repository's `src/` directory (`fusion.c`,
`clock.c`, `util.c`, ...).

## 1. The system

| part | source | state it keeps | operations |
|---|---|---|---|
| FUSE callbacks | `fusion.c` | open descriptors; everything else is in the parts below | getattr, open, write, release, create, unlink, rename, mkdir, rmdir, readdir, main |
| Tiers | `util.c` | the SSD tree, the HDD tree, symbolic links from one to the other | `ssd_is_full`, `move_file_ssd`, `move_file_hdd`, `is_symlink_ssd` |
| Clock queue | `clock.c` | cyclic list of cached files, head, tail, hand, reference bits | `insque_clock`, `remque_clock`, `rmelem_clock` |
| LRU, LFU queues | `util.c` | cyclic lists | as above; not selected by `params.h` |
| ffsnet | `ffsnet/` | a connection and an open file per call | download, upload, remove, mkdir on another node |
| ZHT client | `zht/src/cpp_zhtclient.cpp` | a bounded cache of connections to members | insert, lookup, remove |
| ZHT server | `zht/src/server_general.cpp` | a table, its replicas | the same, from an epoll loop |
| NoVoHT | `zht/src/common/novoht.cpp` | chained table and a log file | put, get, remove, resize, recovery |
| UDT sockets | `udt/src/api.cpp` | tables of sockets and multiplexers | socket, bind, listen, connect, accept, close, the garbage collector |
| UDT connection | `udt/src/core.cpp` | sequence numbers, windows, flags | send, recv, sendfile, recvfile, packets and timers |
| UDT lists, buffers, queues | `udt/src/list.cpp`, `buffer.cpp`, `queue.cpp` | loss lists, rings of blocks and units, the heap of the sending queue | called by the program and by one sending and one receiving worker per port |

How they interact. A callback runs on a thread of the FUSE process. It asks ZHT
for the key of a path: for a file the value is the ip of the node that has it
(its *location*), for `dir/` the value is the list of names. `getattr` comes
before every open, create and unlink; it downloads the file from its location
through ffsnet. A write goes to the local copy; `release` makes the writer's
node the location and has the daemon of the old one remove its copy, and a
reader's `release` removes the local copy. When the SSD is too full, `open`,
`create` and `release` take victims from the queue, move them to the HDD and
leave a link; `open` moves a linked file back.

A ZHT call goes over a cached TCP connection to the member that the hash of the
key names, whose single thread serves all connections and passes an insert on to
a replica. An ffsnet call opens a UDT connection of its own to port 9000 of the
other node, where `ffsnetd` gives it a thread. A UDT socket is used by the
program, the sending worker, the receiving worker and the garbage collector at
once: the program fills the send buffer, the sending worker takes the socket off
a heap when its next packet is due, the receiving worker runs the protocol on
what comes and the timers, the collector destroys what has been closed long
enough.

What is hard about it. No lock spans two calls. Every callback is a chain of
ZHT calls, transfers and changes of the local tree, each of which other threads
and nodes see; `zht_update` is a remove followed by an insert; a move between
tiers is two system calls; list values are read, changed and put back. The
results of most calls are ignored. Below, servers crash with their table in
memory, answers of a shared connection must not be mixed up, packets are lost,
repeated and reordered, numbers wrap, and four threads share a socket with a
lock for each of its parts and none for its flags. `PROJECT.json` lists these hazards with
their lines and the properties that address them.

What makes the parts correct. For the queue: it stays a ring, evicts by second
chance, and its sweeps end. For placement: data that was released is never
lost, the node ZHT names has it, a session sees it. For the name space: a
directory lists exactly the files and directories that exist in it. For the
store below: its clients see one map, but for the entries of a member that
failed. For a transfer: success means the file is there, and every call ends.
For the transport: a byte stream that delivers what it is given unless it is cut,
nothing used after it was freed, nothing kept for ever.

## 2. The modules

| module | models | kind |
|---|---|---|
| `Inodes` | the files, the cells of the heap and the null pointer of the queues | constants |
| `ClockQueue` | `clock.c` | the linked list, pointer by pointer |
| `SecondChance` | what the clock queue promises | abstract specification |
| `CacheProofs` | | theorems about `ClockQueue`, `AgedQueue` and `LocalFiles` |
| `AgedQueue` | the LRU and LFU queues of `util.c` | the linked list, pointer by pointer |
| `AgeOrder` | what they promise | abstract specification |
| `LocalFiles` | names of one node: create, open, unlink, rename, eviction | state machine |
| `Cluster` | the nodes, of `FusionFS` and `Directory` | constants |
| `NameTree` | the tree of names of `Directory` and what is assumed of it | constants |
| `FusionFS` | placement of files on nodes and tiers: `fusion.c`, `util.c` | state machine |
| `Directory` | the name space: `fusion.c` | state machine |
| `FusionFSProofs` | | theorems about `FusionFS`: its types, placement when writers take turns, the tiers when sessions do |
| `DirectoryProofs` | | theorems about `Directory` |
| `ZHT` | client, connection cache, server, replication: `zht/src` | state machine |
| `ZHTProofs` | | theorems about `ZHT` and `NoVoHT` |
| `AtomicMap` | what ZHT promises | abstract specification |
| `NoVoHT` | the table and its log: `novoht.cpp` | state machine |
| `KeyValues` | the keys and values of `ZHT` and `NoVoHT` | constants |
| `Ffsnet` | `ffsnet.cpp`, `ffsnetd.cpp` | state machine |
| `FfsnetProofs` | | a theorem about `Ffsnet` |
| `UdtSockets` | sockets, multiplexers, collector: `api.cpp`, `queue.cpp` | state machine |
| `UdtSocketsProofs` | | a theorem about `UdtSockets` |
| `UdtConnection` | one direction of a connection: `core.cpp` | state machine |
| `UdtConnectionProofs` | | theorems about `UdtConnection` |
| `ByteStream` | what a connection promises | abstract specification |
| `SndLossList`, `RcvLossList` | the loss lists: `list.cpp` | state machines over the arrays |
| `SeqNo` | wrapping numbers: `common.h` | operators |
| `UdtBuffers` | `buffer.cpp`, the units of `queue.cpp` | state machine |
| `SendSchedule` | the heap and the worker of the sending queue: `queue.cpp` | state machine |
| `UdtQueueProofs` | | theorems about `UdtBuffers` and `SendSchedule` |
| `MCStructures`, `MCFusionFS`, `MCDirectory`, `MCFiles`, `MCZHT`, `MCUdtConnection`, `MCTransport` | | instances for TLC |

The layers meet at their promises. `FusionFS` and `Directory` use ZHT as a map
(`AtomicMap`, which `ZHT` implements) and a transfer as one step; `Ffsnet` uses a
connection as two queues of items that may be cut (`ByteStream`, which
`UdtConnection` implements), and `ZHT` a table as a function (`NoVoHT`).
`UdtConnection` in turn has its loss lists as sets, its buffers as positions and
its place on the heap as a flag; the modules of those parts show that they are.

### ClockQueue

The heap is a set of cells with the fields of `inode_t`; `head`, `tail` and
`victim` are the pointers of `FUSION_DATA`. `free` wipes a cell, so that a
pointer kept too long leads to `NULL`. `insque_clock` is `Reference` (a hit) or
`Insert`; `rmelem_clock` unlinks a file; `remque_clock` is `RemqueOnly` for a
queue of one, or `RemqueEnter`, any number of `RemqueSkip` and `RemqueEvict`:
the turns of its loop are steps, so that its end is something to check. `cold`
is a history variable: the files with a clear bit when the sweep began.

`SecondChance` knows no pointers: a line of files with bits, new files at the
end, the front evicted if its bit is clear. `ClockQueue` implements it with the
line read off the ring from the hand on.

### FusionFS

One process runs one session on one file: stat, and then read, write, unlink or
nothing. `pc` is the next step of its callback. `zht[p]` is the value under the
path, `ssd[n][p]` is a content, a link or nothing, `hdd[n][p]` a content or
nothing, `queue[n]` the members of the clock queue (any of them may be the
victim; the order is the matter of `ClockQueue`). A content is the set of writes
it holds. `fd` says which inode a descriptor has: one on the SSD, one on the HDD
or one that has lost its name.

Steps and code: `fusion_getattr` is the lookup and the decision to transfer,
`ffs_recvfile` the transfer and the `lstat`; `move_file_ssd` and `LinkVictim`
are a turn of the eviction loop; `UnlinkSymlink` and `MoveToSsd` are
`move_file_hdd`; `zht_remove` and `zht_insert` are the `zht_update` of a
release, `RemoveOldCopy` the `ffs_rmfile` after it; `Creat` and `InsertCreated`
are the end of `fusion_create`; `LookupOldAddr` to `RemoveLocal` that of
`fusion_unlink`. `stray` holds what the eviction loops write into ZHT: their
key is the path on the SSD, which no lookup uses.

`Coordination` says what applications do. FusionFS promises nothing under
concurrent writers, so the passing runs assume a lock per file for sessions that
write or remove it (`"writers"`: readers and stats come and go) or one session
at a time (`"sessions"`); the violations use the weakest assumption under which
the code's comment should hold.

### Directory

`listing[d]` is the value of the key `d/`: a sequence of names, and whether the
value lacks its leading blank (a value made from a failed lookup does, and
`strstr` then misses its first name). `owner[f]` is the value under a file's
path, `disk[n]` the files and directories on the SSD of a node, which
`getattr` believes when ZHT has no entry. `zht_append` or `zht_delete`,
`remove_list` and `insert_list` are the read, the remove (`zht_remove`) and the
insert (`zht_insert`) of a list; `create_name` and `unlink_name` are
`fusion_create` and `fusion_unlink` as far as the name space goes. `Discipline`
says whether applications take turns at changing a directory.
A failed `strstr` in `zht_delete` ends in undefined behaviour: the process takes
no further step. `Prefixed` is what the command `rm -r path*` of `readdir`
matches.

### AgedQueue, LocalFiles

`AgedQueue` has the list as one record (`next`, `prev`, `freq`, `head`, `tail`),
because a callback that finds a file removes its cell and inserts a new one: the
step is the composition of the two functions. `lfu` is the compile-time mode,
chosen initially. `moved` and `recorded` are the victim that the loop of `open`
moved to the HDD and the one it recorded: after `remque` the code uses the new
head.

`LocalFiles` follows names instead of contents: `ssd[n]` is a file or a link to
the HDD file of a name, `view[n]` the file a user has under the name. Its
callbacks do not overlap; `create` and `open` are a beginning, any number of
`evict` (a pass of the loop each) and an end (`Created`, `Opened`), which
`callback` connects. `AnyRename = FALSE` leaves to `rename` what works,
a queued file and a new name that is not taken.

### ZHT, NoVoHT

A connection is one object with the state of both ends and the packages under
way; its number is the client's descriptor. `cache[m]` is `LRUCache`, the most
recent first. A call is `Call` (find the member, the cached most
recent first. A call is `Call` (find the member, the cached connection, evict
another if need be, or fail to connect), `SendPackage`, `Receive`; the failures of
the last two are actions of their own. A connect that fails leaves a descriptor
(`Unconnected`) that no cache knows. `Call` assumes that the calls of a mount follow
one another. The client does not see to it: FUSE runs callbacks in several threads,
and they share the sockets without a lock, so what `AnswersOwn` and `ImplementsMap`
say is said of a mount with one call at a time. The server is a loop: `EpollWait`, `Accept`, `ReadEnds` with
`dataService` for every package until nothing is left. `AtomicMap` has three
steps per call (start, effect, return); a call on a key whose member has crashed
may return anything, and that is the only exception.

`NoVoHT` is the array of chains and the file as a sequence of records; `synced`
is what a crash leaves of it. FusionFS runs it without a file name (`persistent`
false); the store itself is checked and proved with one, too. `content` is the map
since the table was opened, `before` the one before the last change. An opening
takes up the pair of the first live record and no other (`Taken`), because `put`
moves the position of the file that `readFile` reads: `TableExact` is about the
time between two openings, and `OpensCurrent` says that what an opening finds is
current, not that it is all there was. `resize` and
`writeFile` walk over the chains: `InOrder` is the walk over some places
(`Standing` are all), `PairsAt` the pairs on it. `resize` links in front, so that a new chain is
the reverse of the walk over the pairs that move there.

### Ffsnet

A session is one call and the thread that serves it. `inbox` is what each side
has to read, `up[s]` the sides that do not know the connection to be broken;
`Break` cuts both queues anywhere. `clientConnect` to `recvStatus` are the calls'
steps between two UDT calls, `recvRequest` to `daemonClose` those of
`transfile`. Files are inodes, so that an unlink leaves an open file readable;
`disturbed` remembers that another upload had the same file open. A receiver
that cannot write sends an error packet (`PeerError`) that makes `sendfile`
throw.

### The transport

`UdtConnection` numbers pieces, one per packet, from 0. `snd` and `rcv` are the
two sockets, `net` a set of messages in which repeating means keeping. The
sending worker's two critical moments are steps: `pop` to `packLost`/`packNew`,
after which a packet points to a block of the buffer, and `transmit`, which reads
the block. `waking` is a thread that waits for the list lock to put the socket
on the heap. Timers go off at any time.

`SndLossList` and `RcvLossList` keep the arrays of `list.cpp` and next to them
the set they stand for, computed from the calls alone; `kept` is what a drop request
across the wrap leaves in the receiver's list, its largest number. `UdtBuffers` has the ring
of blocks with its three pointers, the receive window and the units with their
flags; the channel between is packets by number. `SendSchedule` has the heap with
the locations and the worker's states, including the one in which it has found
the heap empty and does not wait yet. `call` is the thread that holds
`m_ListLock`: what it inserts or removes, and every pass of the loops of `insert_`
and `remove_`, is a step, so that the worker's look at `m_iLastEntry`, which takes
only the window lock, may come between any two of them. `UdtSockets` has
the tables, the flags of `CUDT`, and what each receiving worker knows.

## 3. The runs

| run | instance | shows |
|---|---|---|
| `structures` | one data structure at a time, see below | clock queue: `TypeOK`, `ListIntegrity` (the ring is whole), `SweepSound`, `SecondChanceGiven`, `SweepEnds`, `ImplementsSecondChance`; LRU and LFU: `AgedListIntact`, `ImplementsAgeOrder`; names on one node's disks: `Readable`; transport: `SndLossExact`, `RcvLossExact`, `Intact`, `UnitsAccounted`, `WorkerAwake` |
| `files` | *tiers*: 2 nodes, 2 files, SSD for one, sessions in turn; *placement*: 3 nodes, 1 file, 1 write, lock for writers; *names*: 2 nodes, 1 directory, 3 files, turns per directory | tiers: `TypeOK`, `Durable`, `CloseToOpen`, `WriterUpToDate`, `QueueCovers`, `SafeRemoval` with eviction and swap-in; placement: `PlacedDurable`, `PlacedUpToDate`, `PlacedRemovals` (`Durable`, `WriterUpToDate` and `SafeRemoval` of `FusionFS`) while readers, stats and one writer or remover interleave; names: `NamesTyped`, `NamespaceExact`, `DeleteFinds` of `Directory` |
| `zht` | 2 mounts, 2 members, 1 replica, 3 calls, 1 crash; or a table of 3 keys, up to 4 slots and 4 records | `ImplementsMap`, `AnswersOwn`, `ConnectionsCached`, `CallsReturn`; `TableExact`, `LogCurrent`, `OpensCurrent` |
| `connection` | 2 pieces; no faults and a reader with room for 1, or 1 fault and room for 2 | `ImplementsStream`, `Delivered`, `LostAreListed` |
| `transport` | sockets and multiplexers, or ffsnet calls, see below | `Registry`, `Collected`; `TransferExact`, `SessionsEnd` |
| `recreated` | 2 nodes, SSD for none, lock for writers | a file met in the middle of its swap-in is created again, empty |
| `lost_location` | 2 nodes, reader and writer on one | a reader's release removes the copy that has just become the location |
| `old_copy` | 2 nodes, SSD for none, sessions in turn | the HDD copy at the old location survives the take-over |
| `listing_lost` | 2 nodes, no turns | a name is lost from a directory's list |
| `readdir_cleans` | 2 nodes, a file `/ab` beside a directory `/a` | listing `/a` deletes the data of `/ab` |
| `renamed` | 3 names, SSD for one file, any rename | the new name of a swapped file leads to nothing |
| `descriptors_leak` | as `zht` | calls on a member that is down leave descriptors open outside the cache (`DescriptorsBounded`) |

A run of several parts checks parts that do not interact: a variable of the MC
module (`mode`, `part`, `world`) says which part a behaviour is about, and the
others stay in an initial state in which none of their fair actions is enabled.
Safety and liveness of a part share its run, and the instances are as small as
the interesting cases allow: section 4 has the safety properties of most
parts for every size.

Bounds, and why they do. In `structures` three files on four cells give
every queue of up to three elements;
the cases of `ins_Q` and `rem_Q` (only element, head, tail, hand, middle) all
occur there, and the proofs remove the bound. In `files` the three nodes of the placement let
a take-over, a transfer from the old location and a third party's lookup
overlap; a write distinguishes the new version from the empty one a file is
created with. In the tiers
two files and an SSD for one make every open and create of the second evict;
the sessions take turns because a swap-in that overlaps another node's lookup
loses the file (`recreated`). States that differ in `stray` only count as one there
(`VIEW`): no guard reads it, and of the properties only `TypeOK`, which is
proved. In the name space the lists of `/a`
and of `/` have up to two names each; a third node with one file less adds no
behaviour that breaks a property (tried, not kept). `Writes` bounds the number of writes of a
behaviour; `SsdLimit` is the number of files above which the SSD is full.
Symmetry is used over nodes, writes or paths in safety runs only, and never over
a set whose elements a definition tells apart.

The name space assumes that no name begins with the name of a
directory beside it: without that, `readdir_cleans` deletes a file, which is then created again and
listed twice. It also mounts all nodes before the first operation, as
`start_all` does: each mount overwrites the root's list.

In `zht` the cache holds one connection, so that the second member evicts the
first; of the three calls of `MCWorkload` one mount inserts one key and removes
another, which belong to different members, and the other mount looks up the
first: every order of eviction, crash, restart and answer occurs. There are eight
descriptors, enough for each failed connect to keep one. The table has
keys that collide and one that wraps, it grows twice, and its log is rewritten
after two removals.

In `connection` one piece of room makes the second packet find the buffer
full, the flow window of the sender is one more than that as after a handshake; the
instance with a fault loses or doubles one message of any kind and adds light
acknowledgements. The faults are bounded because each adds a factor of ten to the
states; two faults in a row are what `expire` already stands for, which may
happen at any time.

In `structures` the names are four on one node with an SSD for two files. The
loss lists count modulo 16 from 13 (or 12), so that every
interval is cut by the wrap in some behaviour, with a window of 3 at the sender
and 5 cells at the receiver, which makes the cells of the arrays be used again.
The buffers have packets of two bytes and calls of one and three bytes, hence a
block that is not full, a message of two packets, a ring that grows from two
blocks, a window of four and units that grow from two to four. Three sockets are
on the heap.

In `transport` there are three sockets, a peer that asks twice, a backlog
of two: an accepted socket, one still queued and a listener, or a connecting
one, share a multiplexer. `Ffsnet` runs each of the four calls alone and a
download beside an upload that cuts the same file short, with files of no or one
block; the theorem of section 4 covers any number of calls and blocks.

Fairness. `ClockQueue` assumes that a thread inside `remque_clock` runs on.
`FusionFS` states that a callback that has begun runs on; its checked properties
are safety properties and do not use it. `ZHT`: a call and a server that can take
a step take it; neither crashes nor restarts are fair. `UdtConnection`: both
workers run and the timers go off, the reader goes on reading, a message that
stays in the network arrives, and (`SF`) acknowledgements that are sent again and
again arrive once: without that no retransmitting protocol delivers. Losing is
not fair, and is bounded. `UdtSockets`: the workers and the collector run and time
passes, which the code's threads do as long as the process lives; nothing is
assumed of the program or the peers. `Ffsnet`: the two sides run on, and a side
whose peer has gone notices (`Notices`), which is UDT's timeout. No run assumes
that operations are called.

Deadlock is not checked in `structures`, `zht`, `connection` and `transport`, where
the work is bounded and then done, or the program has closed what it had.

## 4. The proofs

| theorem | for every | under | states |
|---|---|---|---|
| `CacheProofs`: `TypeCorrect`, `ListAlwaysWhole`, `SweepAlwaysSound` | set of files and cells | | `TypeOK`, `ListIntegrity`, `SweepSound` |
| `CacheProofs`: `SecondChanceAlways` | set of files and cells | | `SecondChanceGiven`: the victim was cold when `remque_clock` was called, unless nothing was |
| `CacheProofs`: `QueueFollowsPolicy` | set of files and cells | | `Policy!ASafety`: `ClockQueue` implements `SecondChance`, apart from its fairness |
| `CacheProofs`: `AgedListAlwaysIntact` | set of files and cells, `MaxFreq` | | `AgedListIntact` |
| `CacheProofs`: `AgedQueueImplementsAgeOrder` | set of files and cells, `MaxFreq` | | `ImplementsAgeOrder` |
| `CacheProofs`: `NamesLead` | names, files, `Capacity` | `~AnyRename` | `Readable` |
| `FusionFSProofs`: `TypeCorrect` | nodes, paths, processes, writes, `Coordination` | | `TypeOK` of `FusionFS` |
| `FusionFSProofs`: `PlacementInvariants`, `PlacementRemovals` | nodes, paths, processes, writes | `Setting` | `Durable`, `WriterUpToDate`, `QueueCovers`; `SafeRemoval` |
| `FusionFSProofs`: `TieredInvariants`, `TieredRemovalsSafe` | nodes, paths, processes, writes, `SsdLimit` | `TakeTurns` | `Durable`, `CloseToOpen`, `WriterUpToDate`, `QueueCovers`; `SafeRemoval` |
| `DirectoryProofs`: `NameSpaceInvariants` | nodes, directories, files | `TakeTurns` | `NamesTyped`, `NamespaceExact`, `DeleteFinds`, `LocatedListed` |
| `UdtConnectionProofs`: `ConnectionInvariants` | bounds and buffer sizes | | `LostAreListed` |
| `UdtConnectionProofs`: `StreamKept` | bounds and buffer sizes | | `ImplementsStream`: `UdtConnection` implements `ByteStream` |
| `ZHTProofs`: `CacheExact`, `OwnAnswers` | mounts, servers, keys, values, connections, `CacheSize`, `Workload` | one call of a mount at a time | `ConnectionsCached`, `AnswersOwn` |
| `ZHTProofs`: `MapKept` | the same | the same | `ImplementsMap`: `ZHT` implements `AtomicMap` |
| `ZHTProofs`: `TableStaysExact`, `LogStaysCurrent`, `OpeningsCurrent` | keys, values, `Hash`, `Size`, `magicNumber`, `Load`, `MaxSize`, `MaxRecords` | | `TableExact` between two openings, `LogCurrent`, `OpensCurrent` |
| `FfsnetProofs`: `Transfers` | sessions, requests, `Size` | | `TransferExact` |
| `UdtSocketsProofs`: `RegistryAgrees` | `MaxSockets`, `MaxMade`, `Peers`, `Backlog`, `MaxConnects`, `MaxListeners` | | `Registry` |
| `UdtQueueProofs`: `UnitsAlwaysAccounted` | `MSS`, `SndSize`, `RcvSize`, `EntrySize`, `MaxEntries`, calls | | `UnitsAccounted` |
| `UdtQueueProofs`: `WorkerNeverForgotten` | set of sockets, `MaxTime` | | `WorkerAwake` |

Each rests on the named assumptions of the modules it extends (`NullAssumption`,
`SystemAssumption`, `TreeAssumption`, `StoreAssumption`, `TableAssumption`,
`ConnectionAssumption`, `CallsAssumption`, `SocketsAssumption`,
`BuffersAssumption`): they give the constants their types and
keep the values that stand for nothing apart from the others. `StoreAssumption`
says besides that the replica owns no key: a replica is reached at
`PORT_FOR_REPLICA` (50009, `server_general.cpp:28`), where no member of the
membership file listens. TLC evaluates all of them on its
instances. What is in the column "under" is what applications have to do, for
FusionFS promises nothing without it, as the violations of section 3 show:

- `Setting` of `FusionFSProofs`: sessions that write or remove a file have a
  lock for it (`Coordination = "writers"`), no node runs two processes, and an SSD
  has room for all files. Readers, stats and other files are free. The second
  is needed because the local copy belongs to the node, not to the process (the run
  `lost_location` has two on one node); the third because a swap-in that
  overlaps a lookup loses the file (`recreated`).
- `~AnyRename` of `LocalFiles`: only files on the SSD are renamed, and only to names
  that are free. Renaming a swapped file loses it (`renamed`).
- `TakeTurns` of `FusionFSProofs`: one session at a time, on any node, with several
  processes on a node and SSDs of any size.
- One call of a mount at a time, built into `Call` of `ZHT`: a mount with several
  threads shares its sockets among them without a lock, and their answers carry no
  number.
- `TakeTurns` of `DirectoryProofs`: one operation at a time that changes a given
  directory (lookups, listings and other directories are free), and no name
  continues the name of a directory beside it (`readdir_cleans`).

The arguments. Every invariant that a run checks is the consequence of a
stronger one that is inductive; TLC checked each of those on its run's instance
before it was proved.

*Clock queue* (`IInv`): the ring, the anchoring of the pointers, the uniqueness
of names and the state of a sweep. `ListIntegrity` itself is not used as it
stands: it says that a walk from the head visits every cell, which follows from
the ring being one cycle (`WalkIsLive`). Being one cycle is stated by closed sets
(no proper part is closed under `next`), so that no induction along pointers is
needed: `SpliceIn` and `SpliceOut` are the two facts about rings, and every
action uses one of them. Second chance follows from the last conjunct: the cells
a sweep has cleared end at the hand, so that a hand on a cleared cell means the
sweep has been all the way round and nothing was cold.

*Types of FusionFS* (`Typed`): `TypeOK` is not inductive, for `fusion_write`
writes through a descriptor into whatever its path names, so that the file must
still be there; `Typed` says of a descriptor that it is.

*Placement* (`Placed`): of the sessions on a file one at most changes it
(`OneChanger`). `WriterAt` and `RemoverAt` say, for every step of a release and of
an unlink, what the session has established; `FileInv` says where the file is
in between; readers only touch the copy of their own node, and only one that ZHT
does not name. `Moves` bounds what a step may change, and `PlacedStep` leaves two
facts to show of each.

*Tiers* (`Tiered`): the eviction loop may move any file of the node, the one
being opened included. Every file is at rest (`Located`) but for one: the victim
between its move and its link, the file swapped in, the entry between the remove
and the insert of `zht_update`, the file being removed or not queued yet. Close
to open consistency follows, since a session begins with every file at rest.

*Name space* (`Named`): the list and the entries disagree between the three ZHT
calls of an update, in a way that depends on the step; `ListInv` and `ObjectInv`
say which. `DirInv` is the agreement when nobody is at those steps. `FileInv`
adds the disks, because `getattr` believes a local copy where ZHT has no entry.

*Connection* (`Connected`): a packet whose block of the send buffer was used
again before `transmit` read it carries something else, but only under a
number that is acknowledged, which the reader refuses. For this the sockets have to
agree on what is acknowledged: `MsgInv` bounds every acknowledgement under way by the
reader's `m_iRcvLastAck`. The refinement takes `send` to `Write`, `recv` to `Read`,
the first step that breaks a socket to `Cut` and everything else to a stutter.
`LostAreListed` needs the critical moment of `packData`: a lost packet that is
acknowledged while the worker waits for `m_AckLock` leaves a thread behind that
puts the socket back on the list.

*Store* (`ZInv`): a connection belongs to who made it, a descriptor whose connect
failed to nobody's cache. The open connections of a
mount are those of its cache, and an eviction comes between calls, so that the
connection of a call stays open. A call puts one package on it and takes one
answer from it, and gives up only after the server's end has gone, when nothing
comes any more: the next call finds every connection empty. For the map, the
package on the connection of a call is that call's and goes to the owner of its
key, the answer on it is what the service found (`Answering`), and a call
fails only when the server's end went before the client's, which takes a crash
of that member (`Ends`, `Events`). `Call` is mapped to `Invoke`, `dataService` of a
mount's package to `TakeEffect`, the end of a call to `Return`, `Die` to `Fail`; a
package that goes to the replica is a stutter.

*Table* (`TInv`): what counts of a table is the set of pairs it stores (`Stored`).
A resize leaves this set alone, because a walk visits each place once
(`InOrderWalks`, `Resized`); put and remove change the pair of one key, and the
chain of a key is found again, because every pair is in its own (`Ordered`).
`LogCurrent` is not inductive by itself: a mark that hits the right record must also
leave nothing else live for its key, so the live records of the file have to be
the pairs of the table and no others (`Logged`). A rewrite gives each pair the
number of its place in the walk, which is where its record goes (`Repositioned`).
The live records of the file a crash leaves (`synced`) are pairs of `content` or of
`before`, all of the one or all of the other (`Current`): what waits in the buffer is
one change. `readFile` puts the first of them into an empty table and nothing else
(`OpeningIsCurrent`), and what it then writes is current by what has just been said.

*Transfers* (`Transferred`): what a receiver has taken and what lies in its inbox
are together the first items of what the sender sends, the size and then the
blocks. A receiver that has counted as many blocks as the size says has the file.
Files are shared between sessions; `Shared` says that whoever has a file open
together with a writer is marked as disturbed.

*Sockets* (`SInv`): the collector asks only for `m_bOnList` before it destroys a
socket, so whoever is in the new entries, the list or the hash of a worker has to
be marked so and be a user of that worker's multiplexer (`Agrees`); only a connected
socket is entered, and only once (`Staged`). A listener takes what it has
queued along when it goes: its queue holds only its own sockets that nobody has
accepted (`Queued`). It stays opened until the collector closes it, so that `CUDT::close`
has the worker forget it. The count of a multiplexer is the number of live sockets that
name it (`Counted`); it changes by one in `bind`, `connect`, `newConnection`
and `removeSocket`.

*Units* (`BInv`): the two workers count units without a lock, so `m_iCount` may be
wrong for a while. It only says when to look for more memory: a unit is taken by
its flag (`SearchFinds`), and the places that are emptied are those whose units are
freed, whatever `scanMsg` returns, as long as it lies in the window
(`ScanFinds`, `FreeingKeeps`). The window holds a unit at one place only,
hence the units of the other places stay in use.

*Schedule* (`WInv`): between calls the heap and the locations are inverse to each
other. During a call one socket is the exception: the one that rises is on the
heap and has no location yet (`Rising`), the one that is removed has a location
and is not on the heap (`Sinking`); a pass changes places with one neighbour and
keeps that. The order in time is not needed, so `remove_` may leave it broken.
A worker that waits has found the heap empty under the window lock;
who appends to an empty heap holds the list lock until it has signalled (`Woken`).

*Aged list* (`AInv`): some sequence of cells is the list, its files are different
and its counts do not fall. A removal cuts one place out of the sequence, an insertion
adds one (`CutWalks`, `PutWalks`). The walk along `next` from the head is
this sequence: two functions that satisfy the equation of the recursion can have no
first place where they differ (`OneWalk`). Because the counts do not fall, the cells
with a higher count are the end of the sequence, so the first of them, where
`get_pos_lfu` stops, is the place that `AgeOrder` asks for (`PositionFits`).

*Policy of the clock* (`CInv`): the cells from the hand on are a sequence, a turn of
the cycle (`Turn`). Where `ins_Q` links a cell, before the hand or at the tail, is the
end of that sequence (`TurnGrows`); `rem_Q` cuts one place out, and a hand on it has
moved to the next (`TurnShrinks`); a second look is a hand that leaves the first place for
the last (`TurnMoves`). What the cells hold is then the line of `SecondChance`
(`RingIsHeld`), with the same argument about the walk as for the aged list
(`OneWalk`).

*Names of a node* (`NInv`): a name is free, or a file on the SSD and in the queue, or
a link to its own HDD file and not in the queue (`Placed`); the queue has a name
once. An eviction and an open move a name from one case to the other. `rename`
keeps this only for a queued file and a free name: it moves the entry, and writes
the new name into the cell (`Renamed`). The name that `create` is about to take
stays free while it evicts (`Evicting`).

What stays with TLC, and why:

- liveness: `SweepEnds`, `CallsReturn`, `Delivered`, `Collected`, `SessionsEnd`;
- the fairness that `SecondChance` states (`ImplementsSecondChance` is
  `Policy!ASafety`, which is proved, and that a sweep goes on);
- the invariants `SndLossExact`, `RcvLossExact` (the loss lists as the walk over an
  array reads them, with folds): they need induction over data;
- `Intact`: the bytes of a stream are a flattened sequence of blocks, which is a fold.
  The messages of its run fit the window; one that fills it and goes on is never
  given out (section 5).

## 5. Not modelled

- Threads inside the replacement queues: they have no lock, so that any two
  calls at once may break the list; the modules run one call at a time.
- link, symlink, truncate, chmod, chown, utime: they pass one system call on and
  change no ZHT entry and no queue. rename is in `LocalFiles`, without other
  nodes: it changes no ZHT entry, so that the new name is unknown to them.
- A remount over a filled SSD; transfers that a break cuts, in `FusionFS` (they
  are in `Ffsnet`).
- Of ZHT: UDP, the membership file, the length of values and of the buffer they
  travel in; threads of one mount that call at the same time.
- Of UDT: the epoll interface, which FusionFS never calls; congestion control
  (`ccc.cpp`), the measuring of rates (`CPktTimeWindow`), the cache of such
  numbers: they decide when a packet is sent, and `UdtConnection` leaves that
  open; keep-alives, message drop requests and the time to live, which only
  message mode uses; options, select and error reporting; the channel and the
  encoding of packets. `SndLossList` and `UdtBuffers` include the calls of
  message mode where it shares their code. Failures of allocation
  (`newConnection`'s `ERR_ROLLBACK`, `api.cpp:443`).
- The generated package code, logging, permissions, build files and tests.

What the models reach and no run is about. `CRcvLossList::remove` of a range that
wraps stops before the largest number (`list.cpp:640`), which stays in the list:
`RcvLossExact` has it apart, as `kept`. `readMsg` takes a message that fills the
window for an empty one (`buffer.cpp:506`), so that `recvmsg` waits on with a full
window. Both are of message mode, which FusionFS does not use. `NoVoHT` loses all but
one pair when it is opened on a file, after an orderly close as after a crash
(`novoht.cpp:284`, `Recovered`); FusionFS gives its servers no file. `UdtSockets` sets `crashed` when
`accept` uses a socket that the collector has destroyed in between
(`api.cpp:715`); `Ffsnet` has `ffs_rmfile` return 0 for a file that is still
there (`ffsnetd.cpp:280`), which its callers do not look at. The heap of
`SendSchedule` is in order of time with three sockets; `remove_`
(`queue.cpp:403`) moves the last element only down, which takes six to go wrong,
and delays a packet.

## 6. Plan

1. Done: all modules of section 2, with the theorems of section 4.
2. A remount in `FusionFS`; two calls of one mount at a time in `ZHT`.
