-------------------------------- MODULE ZHT ---------------------------------
(***************************************************************************)
(* ZHT: the key-value store behind the directories and file locations      *)
(* (src/zht).  Every mount keeps at most CacheSize connections to members, *)
(* the least recently used one is closed for a new one; a call sends one   *)
(* package and waits for the answer.  A server is one thread around an     *)
(* edge-triggered epoll set; an insert is passed on to a replica without   *)
(* waiting.  Servers crash, lose their table and start again.              *)
(*                                                                         *)
(* A connection is one object with both its ends; its number is the        *)
(* descriptor.  The table of a server is the map that NoVoHT implements.   *)
(*                                                                         *)
(* Assumed: the calls of a mount follow one another.  The client does not  *)
(* see to it: FUSE may run its callbacks in several threads, which share   *)
(* the cache and its sockets without a lock.                               *)
(***************************************************************************)
EXTENDS Integers, Sequences, SequencesExt, FiniteSetsExt, KeyValues

CONSTANTS
    Mounts, Servers,
    Owner,          \* myhash: the member a key belongs to
    Replica,        \* the server at PORT_FOR_REPLICA, Replicas[0] of everyone
    Conns,          \* bound: connections that can exist at a time
    Listener, Killed, None,
    Garbage,        \* an answer read from memory nobody wrote
    CacheSize,      \* CACHE_SIZE
    Workload,       \* bound: the calls <<m, op, k, v>> a mount may make
    MaxCalls,       \* bound: calls of each mount
    MaxCrashes      \* bound: crashes of servers

\* The members of the membership file listen on other ports than the replicas.
ASSUME StoreAssumption ==
    /\ Mounts \cap Servers = {} /\ Replica \in Servers
    /\ Owner \in [Keys -> Servers \ {Replica}]
    /\ Conns \subseteq Nat /\ CacheSize \in Nat \ {0}
    /\ None \notin Mounts \cup Servers \cup Conns /\ {Listener, Killed} \cap Conns = {}
    /\ Workload \subseteq
          Mounts \X {"insert", "lookup", "remove"} \X Keys \X (Values \cup {NoValue})

VARIABLES
    up,             \* servers whose process runs
    table,          \* pmap of every server
    conn,           \* both ends of every connection and what is in flight
    edge,           \* events epoll_wait has not delivered yet
    serving,        \* the descriptor a server handles, None, or Killed by a signal
    replicaSock,    \* Replicas[0].sock of every server
    cache,          \* connectionCache of every mount, most recent first
    call,           \* the call a mount is in
    result,         \* what its last call returned
    found,          \* history: what the server answered to the call
    crashed,        \* history: servers that have crashed
    calls, crashes

network == <<conn, edge>>
server == <<up, table, serving, replicaSock, crashed, crashes>>
mount == <<cache, call, result, calls>>
zhtvars == <<network, server, mount, found>>

Free == [from |-> None, to |-> None, client |-> "none", server |-> "none",
         req |-> <<>>, ans |-> <<>>]
Idle == [pc |-> "idle", op |-> "none", key |-> None, val |-> NoValue, sock |-> None]
Answer(status, v) == [status |-> status, val |-> v]


Init ==
    /\ up = Servers
    /\ table = [h \in Servers |-> [k \in Keys |-> NoValue]]
    /\ conn = [c \in Conns |-> Free]
    /\ edge = [h \in Servers |-> {}]
    /\ serving = [h \in Servers |-> None]
    /\ replicaSock = [h \in Servers |-> None]
    /\ cache = [m \in Mounts |-> <<>>]
    /\ call = [m \in Mounts |-> Idle]
    /\ result = [m \in Mounts |-> Idle]
    /\ found = [m \in Mounts |-> Idle]
    /\ crashed = {} /\ crashes = 0
    /\ calls = [m \in Mounts |-> 0]

-----------------------------------------------------------------------------
(***************************************************************************)
(* The network.  Each operator maps the connections to the connections     *)
(* after a system call; edges follow the state of the server ends.         *)
(***************************************************************************)
Spare == {c \in Conns : conn[c] = Free}
NewConn == Min(Spare)

\* makeClientSocket from x to server h: the listener of h accepts it later.
Connected(cs, c, x, h) ==
    [cs EXCEPT ![c] = [Free EXCEPT !.from = x, !.to = h,
                                   !.client = "open", !.server = "backlog"]]

\* makeClientSocket from x to h fails in connect: the socket is not closed, and
\* whoever asked for it gets -1 instead of its number.
Unconnected(cs, c, x, h) ==
    [cs EXCEPT ![c] = [Free EXCEPT !.from = x, !.to = h,
                                   !.client = "unconnected", !.server = "dead"]]

\* Both ends gone: the number can be used again.
Reaped(cs) ==
    [c \in Conns |-> IF cs[c].client \in {"closed", "reset"} /\ cs[c].server = "dead"
                     THEN Free ELSE cs[c]]

\* A client end closes, with a reset when answers were left unread.
ClosedByClient(cs, S) ==
    Reaped([c \in Conns |->
        IF c \in S THEN [cs[c] EXCEPT !.client =
                            IF cs[c].ans = <<>> THEN "closed" ELSE "reset"]
        ELSE cs[c]])
ClosedByServer(cs, S) ==
    Reaped([c \in Conns |-> IF c \in S THEN [cs[c] EXCEPT !.server = "dead", !.req = <<>>]
                            ELSE cs[c]])

Send(cs, c, package) ==
    IF cs[c].server = "dead" THEN cs ELSE [cs EXCEPT ![c].req = Append(@, package)]

\* The edges a change of the connections from cs to ds raises.
Raised(cs, ds) ==
    [h \in Servers |-> edge[h]
        \cup {c \in Conns : /\ ds[c].to = h /\ ds[c].server = "open"
                            /\ \/ Len(ds[c].req) > Len(cs[c].req)
                               \/ ds[c].client # cs[c].client
                               \/ cs[c].server = "backlog"
                                  /\ (ds[c].req # <<>> \/ ds[c].client # "open")}
        \cup {l \in {Listener} : \E c \in Conns :
                 ds[c].to = h /\ ds[c].server = "backlog" /\ cs[c] = Free}]

-----------------------------------------------------------------------------
(***************************************************************************)
(* The client: insert, lookup and remove of cpp_zhtclient.cpp.             *)
(***************************************************************************)
\* LRUCache::fetch and insert: the entry of a key moves to, or enters at, the
\* front; insert hands back the last one when the cache is over its size.
Entries_Any(m, h) == DOMAIN cache[m]
Entries(m, h) == {i \in DOMAIN cache[m] : cache[m][i].host = h}
Touched(m, i) == <<cache[m][i]>> \o RemoveAt(cache[m], i)
Inserted(m, e) == SubSeq(<<e>> \o cache[m], 1, Min({CacheSize, Len(cache[m]) + 1}))
Evicted_Kept(m) == {}
Evicted(m) ==
    {cache[m][i].sock : i \in {j \in DOMAIN cache[m] : j >= CacheSize}}

\* A call begins with str2SockLRU.  After a failed connect it goes on with -1,
\* and nothing is cached.  Assumed: the mount is in no other call.
str2Host(k) == Owner[k]
Call(m, op, k, v) ==
    LET h == str2Host(k)
        Begin(sock) == call' = [call EXCEPT ![m] =
            [pc |-> "send", op |-> op, key |-> k, val |-> v, sock |-> sock]]
    IN /\ call[m].pc = "idle"
       /\ calls[m] < MaxCalls[m]
       /\ calls' = [calls EXCEPT ![m] = @ + 1]
       /\ \/ \E i \in Entries(m, h) :
                /\ cache' = [cache EXCEPT ![m] = Touched(m, i)]
                /\ Begin(cache[m][i].sock)
                /\ UNCHANGED network
          \/ /\ Entries(m, h) = {} /\ h \in up /\ Spare # {}
             /\ conn' = ClosedByClient(Connected(conn, NewConn, m, h), Evicted(m))
             /\ edge' = Raised(conn, conn')
             /\ cache' = [cache EXCEPT ![m] = Inserted(m, [host |-> h, sock |-> NewConn])]
             /\ Begin(NewConn)
          \/ /\ Entries(m, h) = {} /\ h \notin up /\ Spare # {}
             /\ conn' = Unconnected(conn, NewConn, m, h)
             /\ Begin(None)
             /\ UNCHANGED <<edge, cache>>
       /\ UNCHANGED <<server, result, found>>

Receiving(m) == call' = [call EXCEPT ![m].pc = "receive"]

Finish(m, answer) ==
    /\ call' = [call EXCEPT ![m] = Idle]
    /\ result' = [result EXCEPT ![m] = answer]
    /\ found' = [found EXCEPT ![m] = Idle]

\* generalSendTo.  insert and remove wait for an answer even when nothing was
\* sent; lookup then returns -1.  On a dead connection send fails or is lost.
Package(m) ==
    [op |-> call[m].op, key |-> call[m].key, val |-> call[m].val, from |-> m,
     replicano |-> IF call[m].op = "insert" THEN 5 ELSE 3]
Sendable(m) == call[m].sock # None
SendPackage(m) ==
    /\ call[m].pc = "send"
    /\ Sendable(m)
    /\ conn' = Send(conn, call[m].sock, Package(m))
    /\ edge' = Raised(conn, conn')
    /\ Receiving(m)
    /\ UNCHANGED <<server, cache, result, calls, found>>
SendFails(m) ==
    /\ call[m].pc = "send"
    /\ Sendable(m) => conn[call[m].sock].server = "dead"
    /\ \/ call[m].op = "lookup" /\ Finish(m, Answer(-1, NoValue))
       \/ /\ call[m].op # "lookup"
          /\ Receiving(m)
          /\ UNCHANGED <<result, found>>
    /\ UNCHANGED <<network, server, cache, calls>>

\* generalReceive, without a time limit.
Receive(m) ==
    LET c == call[m].sock
    IN /\ call[m].pc = "receive"
       /\ c # None
       /\ conn[c].ans # <<>>
       /\ conn' = [conn EXCEPT ![c].ans = Tail(@)]
       /\ Finish(m, Head(conn[c].ans))
       /\ UNCHANGED <<edge, server, cache, calls>>

\* Nothing comes: insert and remove return what malloc left in the buffer, a
\* lookup that got an error returns -1.
Broken_Timeout(m) == call[m].pc = "receive"
Broken(m) ==
    /\ call[m].pc = "receive"
    /\ call[m].sock # None =>
          conn[call[m].sock].server = "dead" /\ conn[call[m].sock].ans = <<>>
ReceiveFails(m) ==
    /\ Broken(m)
    /\ Finish(m, IF call[m].op = "lookup" THEN Answer(-1, NoValue) ELSE Garbage)
    /\ UNCHANGED <<network, server, cache, calls>>

\* A lookup that reads the end of the stream dies in substr(2) of an empty
\* string; the mount starts again with an empty cache.
LookupDies(m) ==
    /\ Broken(m)
    /\ call[m].op = "lookup"
    /\ Finish(m, Garbage)
    /\ conn' = ClosedByClient(conn, {c \in Conns : conn[c].from = m})
    /\ edge' = Raised(conn, conn')
    /\ cache' = [cache EXCEPT ![m] = <<>>]
    /\ UNCHANGED <<server, calls>>

-----------------------------------------------------------------------------
(***************************************************************************)
(* The server: the event loop and dataService of server_general.cpp.       *)
(***************************************************************************)
Done(h) == serving' = [serving EXCEPT ![h] = None]

EpollWait(h) ==
    /\ h \in up
    /\ serving[h] = None
    /\ \E fd \in edge[h] \ {Listener} :
          /\ serving' = [serving EXCEPT ![h] = fd]
          /\ edge' = [edge EXCEPT ![h] = @ \ {fd}]
    /\ UNCHANGED <<conn, up, table, replicaSock, crashed, crashes, mount, found>>

\* An event of the listener: the accept loop runs until accept would block.
Accept(h) ==
    /\ h \in up
    /\ serving[h] = None
    /\ Listener \in edge[h]
    /\ conn' = [c \in Conns |-> IF conn[c].to = h /\ conn[c].server = "backlog"
                                THEN [conn[c] EXCEPT !.server = "open"] ELSE conn[c]]
    /\ edge' = [Raised(conn, conn') EXCEPT ![h] = @ \ {Listener}]
    /\ UNCHANGED <<server, mount, found>>

\* One recv can return several packages; the parser merges them into one, in
\* which the last of every field counts.
Merged(ps) ==
    LET valued == {i \in DOMAIN ps : ps[i].val # NoValue}
    IN [Last(ps) EXCEPT !.val = IF valued = {} THEN NoValue
                                ELSE ps[Max(valued)].val]

\* dataService on the table: the new table and the answer.
HB_remove(t, p) == IF t[p.key] = NoValue THEN -2 ELSE 0
HB_lookup(t, p) == Answer(IF t[p.key] = NoValue THEN -2 ELSE 0, t[p.key])
Served(t, p) ==
    CASE p.op = "lookup" -> [tab |-> t, ans |-> HB_lookup(t, p)]
      [] p.op = "insert" -> [tab |-> [t EXCEPT ![p.key] = p.val],
                             ans |-> Answer(0, NoValue)]
      [] p.op = "remove" -> [tab |-> [t EXCEPT ![p.key] = NoValue],
                             ans |-> Answer(HB_remove(t, p), NoValue)]

Replicated(p) == p.replicano = 5 /\ p.op \in {"insert", "remove"}

\* general_replica: on the socket of the first time that connect succeeded,
\* whatever became of it.  A package for a replica that has gone is lost, or
\* SIGPIPE kills the sender.
general_replica(h, cs, p) ==
    LET sock == replicaSock[h]
        copy == [p EXCEPT !.replicano = 3, !.from = h]
    IN \/ /\ sock # None
          /\ conn' = Send(cs, sock, copy)
          /\ \/ UNCHANGED serving
             \/ /\ conn[sock].server = "dead"
                /\ serving' = [serving EXCEPT ![h] = Killed]
          /\ UNCHANGED replicaSock
       \/ /\ sock = None /\ Replica \in up /\ Spare # {}
          /\ conn' = Send(Connected(cs, NewConn, h, Replica), NewConn, copy)
          /\ replicaSock' = [replicaSock EXCEPT ![h] = NewConn]
          /\ UNCHANGED serving
       \/ /\ sock = None /\ Replica \notin up /\ Spare # {}
          /\ conn' = Unconnected(cs, NewConn, h, Replica)
          /\ UNCHANGED <<replicaSock, serving>>

Answered(c, n, ans) ==
    [conn EXCEPT ![c].req = SubSeq(@, n + 1, Len(@)),
                 ![c].ans = IF conn[c].client = "open" THEN Append(@, ans) ELSE @]

dataService(h) ==
    LET c == serving[h]
    IN /\ c \in Conns
       /\ \E n \in 1..Len(conn[c].req) :
             LET p == Merged(SubSeq(conn[c].req, 1, n))
                 done == Served(table[h], p)
             IN /\ table' = [table EXCEPT ![h] = done.tab]
                /\ found' = [m \in Mounts |-> IF m = p.from THEN done.ans ELSE found[m]]
                /\ \/ Replicated(p) /\ general_replica(h, Answered(c, n, done.ans), p)
                   \/ /\ ~Replicated(p)
                      /\ conn' = Answered(c, n, done.ans)
                      /\ UNCHANGED <<replicaSock, serving>>
       /\ edge' = Raised(conn, conn')
       /\ UNCHANGED <<up, crashed, crashes, mount>>

\* recv finds nothing: EAGAIN ends the loop, end of file or an error closes.  A
\* reset closes the descriptor although packages may be waiting.
ReadEnds_Once(c) == TRUE
ReadEnds(c) == conn[c].req = <<>>
Drained(h) ==
    LET c == serving[h]
    IN /\ c \in Conns
       /\ \/ ReadEnds(c) /\ conn[c].client = "open" /\ UNCHANGED network
          \/ /\ conn[c].client = "closed" /\ conn[c].req = <<>>
             /\ conn' = ClosedByServer(conn, {c})
             /\ edge' = [edge EXCEPT ![h] = @ \ {c}]
          \/ /\ conn[c].client = "reset"
             /\ conn' = ClosedByServer(conn, {c})
             /\ edge' = [edge EXCEPT ![h] = @ \ {c}]
       /\ Done(h)
       /\ UNCHANGED <<up, table, replicaSock, crashed, crashes, mount, found>>

(***************************************************************************)
(* A server dies: its table and the packages it had not read are gone, and *)
(* its peers find their connections closed.                                *)
(***************************************************************************)
Die(h) ==
    /\ up' = up \ {h}
    /\ crashed' = crashed \cup {h}
    /\ table' = [table EXCEPT ![h] = [k \in Keys |-> NoValue]]
    /\ serving' = [serving EXCEPT ![h] = None]
    /\ replicaSock' = [replicaSock EXCEPT ![h] = None]
    /\ conn' = ClosedByServer(ClosedByClient(conn, {c \in Conns : conn[c].from = h}),
                              {c \in Conns : conn[c].to = h})
    /\ edge' = [Raised(conn, conn') EXCEPT ![h] = {}]
    /\ UNCHANGED <<mount, found>>

Crash(h) == h \in up /\ crashes < MaxCrashes /\ crashes' = crashes + 1 /\ Die(h)

Sigpipe(h) == serving[h] = Killed /\ Die(h) /\ UNCHANGED crashes

Start(h) ==
    /\ h \notin up
    /\ up' = up \cup {h}
    /\ UNCHANGED <<table, serving, replicaSock, crashed, crashes, network, mount, found>>

-----------------------------------------------------------------------------
MountStep(m) ==
    \/ SendPackage(m) \/ SendFails(m)
    \/ Receive(m) \/ ReceiveFails(m) \/ LookupDies(m)
ServerStep(h) == EpollWait(h) \/ Accept(h) \/ dataService(h) \/ Drained(h) \/ Sigpipe(h)

Next ==
    \/ \E w \in Workload : Call(w[1], w[2], w[3], w[4])
    \/ \E m \in Mounts : MountStep(m)
    \/ \E h \in Servers : ServerStep(h) \/ Crash(h) \/ Start(h)

\* The callback's thread and the server's only thread keep running.
Fairness ==
    /\ \A m \in Mounts : WF_zhtvars(MountStep(m))
    /\ \A h \in Servers : WF_zhtvars(ServerStep(h))

Spec == Init /\ [][Next]_zhtvars /\ Fairness

-----------------------------------------------------------------------------
(***************************************************************************)
(* Properties.                                                             *)
(***************************************************************************)

\* The connections a mount has made and not closed are exactly those in its
\* cache, one per member and at most CacheSize of them: the one that a new entry
\* pushes out is closed, no other is ("close(tobeRemoved)", str2SockLRU). The
\* descriptors that failed connects leave behind are no connections
\* (DescriptorsBounded counts them).
ConnectionsCached ==
    \A m \in Mounts :
        /\ {c \in Conns : conn[c].from = m /\ conn[c].client = "open"}
             = {cache[m][i].sock : i \in DOMAIN cache[m]}
        /\ Len(cache[m]) <= CacheSize
        /\ \A i \in DOMAIN cache[m] : conn[cache[m][i].sock].to = cache[m][i].host
        /\ \A i, j \in DOMAIN cache[m] :
              cache[m][i].host = cache[m][j].host => i = j

\* As long as the calls of a mount follow one another, the answer that a call
\* takes from the shared socket is to the package it has sent, although packages
\* and answers carry no number and a call may return without having read its
\* answer: no earlier answer is left in the stream, and no package waits of a call
\* that is over (a lookup whose send failed, a receive that failed).
AnswersOwn ==
    \A m \in Mounts, c \in Conns : conn[c].from = m =>
        /\ Len(conn[c].req) + Len(conn[c].ans) <= 1
        /\ conn[c].req # <<>> \/ conn[c].ans # <<>> =>
              call[m].pc = "receive" /\ call[m].sock = c

\* A mount has at most CacheSize descriptors open to members, as str2SockLRU says:
\* "This store limited connections in a LRU cache, one item is one host VS one
\* sock" (cpp_zhtclient.cpp:170).
DescriptorsBounded ==
    \A m \in Mounts :
        Cardinality({c \in Conns : /\ conn[c].from = m
                                   /\ conn[c].client \in {"open", "unconnected"}})
            <= CacheSize

\* Every call returns, whatever servers crash: with an answer, an error, or the
\* end of the mount's process. As the calls are bounded, that is that again and
\* again no mount is in one.
CallsReturn == []<>(\A m \in Mounts : call[m].pc = "idle")

\* Over crashes, evictions and replication ZHT behaves as one map.
ZhtMap ==
    INSTANCE AtomicMap WITH
        Client <- Mounts, Key <- Keys, Value <- Values, Member <- Servers,
        NoCall <- Idle, MemberOf <- Owner,
        map <- [k \in Keys |-> table[Owner[k]][k]],
        pending <- [m \in Mounts |->
                      IF call[m].pc = "idle" THEN Idle
                      ELSE [op |-> call[m].op, key |-> call[m].key, val |-> call[m].val]],
        returned <- result, failed <- crashed
ImplementsMap == ZhtMap!MSpec
=============================================================================
