------------------------------ MODULE ZHTProofs ------------------------------
(*****************************************************************************)
(* The connections of a mount are those its cache knows; as long as the      *)
(* calls of a mount follow one another, an answer that it takes is to its    *)
(* own call, and the table behind the calls is one map, for any number of    *)
(* mounts, servers, keys and connections, any cache size, and whatever       *)
(* crashes: the theorems about ZHT and NoVoHT.                               *)
(*                                                                           *)
(* The argument. A connection belongs to who made it (from), and only its    *)
(* owner opens or closes its client end. A mount closes what its cache       *)
(* evicts and nothing else (Cached), and only between calls, so the          *)
(* connection of a call stays open until the call ends (Holds). It sends one *)
(* package and takes one answer, and gives up only when the server's end has *)
(* gone and nothing can come any more (DeadUnread, BrokenFacts), so that at  *)
(* the next call every connection is empty (Own). A server turns packages    *)
(* into at most as many answers, and sends packages of its own only on the   *)
(* link to the replica, which is its own (Linked).                           *)
(*                                                                           *)
(* The map (ImplementsMap). A call takes effect when a server serves its     *)
(* package. The package on the connection of a call is that call's and has   *)
(* gone to the member that owns its key, and the answer on it is what that   *)
(* service found (Answering); nothing but a mount's call changes the entry   *)
(* of a key at its owner (StoreAssumption and Ends: what a server sends goes *)
(* to the replica, which owns no key). A call returns something else only    *)
(* when its connection has gone while it was open, and only a crash of the   *)
(* member does that (Ends, Events).                                          *)
(*                                                                           *)
(* Undisturbed says what a step must leave alone for a mount that takes no   *)
(* part in it, ServerStepKeeps and MountStepKeeps what is then left to show. *)
(*                                                                           *)
(* The tables of the servers (NoVoHT) come last: between two openings what a *)
(* table stores is the map it took up with what its callers did since, and   *)
(* its log is current, through collisions, resizes and rewrites (TInv); an   *)
(* opening takes up no removed key and no replaced value (OpensCurrent).     *)
(*                                                                           *)
(* In the names below m and n are mounts, g and h servers, c, d and k        *)
(* connections, cs, ds and es states of all of them, s and t caches.         *)
(*****************************************************************************)
EXTENDS ZHT, NoVoHT, FiniteSetTheorems, SequenceTheorems, WellFoundedInduction, TLAPS

-----------------------------------------------------------------------------
(*****************************************************************************)
(* The inductive invariant.                                                  *)
(*****************************************************************************)
Ops == {"insert", "lookup", "remove"}
Vals == Values \cup {NoValue}

\* What is sent, by a mount or to the replica, and what is answered.
Packages ==
    [op : Ops, key : Keys, val : Vals, from : Mounts \cup Servers, replicano : {3, 5}]
Answers == [status : Int, val : Vals]

\* The states of a connection.
Links ==
    [from : Mounts \cup Servers \cup {None}, to : Servers \cup {None},
     client : {"none", "open", "closed", "reset", "unconnected"},
     server : {"none", "backlog", "open", "dead"},
     req : Seq(Packages), ans : Seq(Answers)]

\* The calls a mount can be in.
InCall ==
    [pc : {"send", "receive"}, op : Ops, key : Keys, val : Vals, sock : Conns \cup {None}]

CacheEntries == [host : Servers, sock : Conns]

\* The types of the variables the connections depend on.
Typed ==
    /\ conn \in [Conns -> Links]
    /\ cache \in [Mounts -> Seq(CacheEntries)]
    /\ call \in [Mounts -> InCall \cup {Idle}]
    /\ replicaSock \in [Servers -> Conns \cup {None}]
    /\ table \in [Servers -> [Keys -> Vals]]
    /\ edge \in [Servers -> SUBSET (Conns \cup {Listener})]
    /\ serving \in [Servers -> Conns \cup {None, Killed}]
    /\ found \in [Mounts -> Answers \cup {Idle}]
    /\ result \in [Mounts -> Answers \cup {Idle, Garbage}]

\* Nobody will read what is sent to a server end that has gone: it is not kept.
DeadUnread == \A c \in Conns : conn[c].server = "dead" => conn[c].req = <<>>

\* ConnectionsCached of one mount.
Cached(m) ==
    /\ {c \in Conns : conn[c].from = m /\ conn[c].client = "open"}
         = {cache[m][i].sock : i \in DOMAIN cache[m]}
    /\ Len(cache[m]) <= CacheSize
    /\ \A i \in DOMAIN cache[m] : conn[cache[m][i].sock].to = cache[m][i].host
    /\ \A i, j \in DOMAIN cache[m] : cache[m][i].host = cache[m][j].host => i = j

\* AnswersOwn of one mount.
Own(m) ==
    \A c \in Conns : conn[c].from = m =>
        /\ Len(conn[c].req) + Len(conn[c].ans) <= 1
        /\ conn[c].req # <<>> \/ conn[c].ans # <<>> =>
              call[m].pc = "receive" /\ call[m].sock = c

\* The descriptor a call goes on with is open: nothing evicts it meanwhile.
Holds(m) ==
    call[m].sock # None =>
        conn[call[m].sock].from = m /\ conn[call[m].sock].client = "open"

\* What a call in progress can expect: its package to its member or the answer to
\* it, or the member has crashed.
Answering(m) ==
    /\ call[m].pc # "receive" => found[m] = Idle
    /\ call[m].pc # "idle" /\ call[m].sock = None => Owner[call[m].key] \in crashed
    /\ call[m].sock # None =>
         /\ conn[call[m].sock].to = Owner[call[m].key]
         /\ conn[call[m].sock].req # <<>> =>
              conn[call[m].sock].req[1] = Package(m) /\ found[m] = Idle
         /\ conn[call[m].sock].ans # <<>> => conn[call[m].sock].ans[1] = found[m]

\* The two ends: only a crash closes the server's before the client's, and only
\* mounts and servers send, the latter to the replica.
Ends(c) ==
    /\ conn[c].client = "open" /\ conn[c].server = "dead" => conn[c].to \in crashed
    /\ conn[c].from = None => conn[c].req = <<>>
    /\ conn[c].from \in Servers =>
         /\ conn[c].to = Replica
         /\ \A i \in DOMAIN conn[c].req : conn[c].req[i].from \in Servers

\* Events are about connections the server has open.
Events(h) ==
    \A c \in Conns : c \in edge[h] \/ c = serving[h] =>
        conn[c].to = h /\ conn[c].server = "open"

\* The replica's socket of a server is its own and open.
Linked(h) ==
    replicaSock[h] # None =>
        conn[replicaSock[h]].from = h /\ conn[replicaSock[h]].client = "open"

ZInv ==
    /\ Typed /\ DeadUnread
    /\ \A m \in Mounts : Cached(m) /\ Own(m) /\ Holds(m) /\ Answering(m)
    /\ \A h \in Servers : Linked(h) /\ Events(h)
    /\ \A c \in Conns : Ends(c)
    /\ Servers \ up \subseteq crashed

-----------------------------------------------------------------------------
(*****************************************************************************)
(* Facts the steps rest on.                                                  *)
(*****************************************************************************)
\* A set of numbers that is not empty has a least one.
LEMMA LeastFacts ==
    ASSUME NEW S \in SUBSET Nat, S # {}
    PROVE  Min(S) \in S /\ \A k \in S : Min(S) <= k
<1> DEFINE Upto == {0..k : k \in S}
<1>1. Upto \subseteq FiniteSubsetsOf(Nat) /\ Upto # {}
  <2>1. ASSUME NEW k \in S PROVE 0..k \in FiniteSubsetsOf(Nat)
    BY FS_Interval DEF FiniteSubsetsOf
  <2>2. QED
    BY <2>1
<1>2. PICK T \in Upto : \A U \in Upto : <<U, T>> \notin StrictSubsetOrdering(Nat)
  <2>1. IsWellFoundedOn(StrictSubsetOrdering(Nat), FiniteSubsetsOf(Nat))
    BY FS_StrictSubsetOrderingWellFounded
  <2> HIDE DEF Upto
  <2>2. QED
    BY <1>1, <2>1, WFMin
<1>3. PICK x \in S : T = 0..x
  BY <1>2
<1>4. ASSUME NEW k \in S, k < x PROVE FALSE
  <2>1. 0..k \in Upto /\ 0..k \in SUBSET Nat /\ 0..x \in SUBSET Nat
    OBVIOUS
  <2>2. 0..k \subseteq 0..x /\ x \in 0..x /\ x \notin 0..k
    BY <1>4
  <2>3. 0..k # 0..x
    BY <2>2
  <2>4. <<0..k, 0..x>> \in StrictSubsetOrdering(Nat)
    BY <2>1, <2>2, <2>3 DEF StrictSubsetOrdering
  <2>5. QED
    BY <1>2, <1>3, <2>1, <2>4
<1>5. \A k \in S : x <= k
  BY <1>4
<1>6. QED
  BY <1>5 DEF Min

\* A set of numbers with a bound that is not empty has a greatest one.
LEMMA GreatestFacts ==
    ASSUME NEW n \in Nat, NEW S \in SUBSET (1..n), S # {}
    PROVE  Max(S) \in S
<1> DEFINE Below == {n - k : k \in S}
<1>1. Below \in SUBSET Nat /\ Below # {}
  <2>1. \A k \in S : k \in 1..n /\ n - k \in Nat
    OBVIOUS
  <2>2. QED
    BY <2>1
<1>2. Min(Below) \in Below /\ \A k \in Below : Min(Below) <= k
  BY <1>1, LeastFacts
<1>3. PICK x \in S : Min(Below) = n - x
  BY <1>2
<1>4. \A y \in S : n - x <= n - y
  BY <1>2, <1>3
<1>5. \A y \in S : x >= y
  BY <1>4
<1>6. QED
  BY <1>5 DEF Max

\* An unused connection.
LEMMA FreeFacts ==
    /\ Free \in Links
    /\ Free.from = None /\ Free.client = "none" /\ Free.server = "none"
    /\ Free.req = <<>> /\ Free.ans = <<>>
<1>1. <<>> \in Seq(Packages) /\ <<>> \in Seq(Answers)
  BY EmptySeq
<1>2. QED
  BY <1>1 DEF Free, Links

\* A descriptor that is free is free, and belongs to nobody.
LEMMA NewFacts ==
    ASSUME Spare # {}
    PROVE  NewConn \in Conns /\ conn[NewConn] = Free
<1>1. Spare \in SUBSET Nat
  BY StoreAssumption DEF Spare
<1>2. NewConn \in Spare
  BY <1>1, LeastFacts DEF NewConn
<1>3. QED
  BY <1>2 DEF Spare

\* A connection is made.
LEMMA ConnectFacts ==
    ASSUME NEW cs \in [Conns -> Links], NEW c \in Conns,
           NEW x \in Mounts \cup Servers, NEW h \in Servers,
           NEW ds, ds = Connected(cs, c, x, h)
    PROVE  /\ ds \in [Conns -> Links]
           /\ \A d \in Conns \ {c} : ds[d] = cs[d]
           /\ ds[c].from = x /\ ds[c].to = h /\ ds[c].client = "open"
           /\ ds[c].server = "backlog" /\ ds[c].req = <<>> /\ ds[c].ans = <<>>
<1> DEFINE new == [Free EXCEPT !.from = x, !.to = h, !.client = "open", !.server = "backlog"]
<1>1. /\ new \in Links /\ new.from = x /\ new.to = h /\ new.client = "open"
      /\ new.server = "backlog" /\ new.req = <<>> /\ new.ans = <<>>
  BY FreeFacts DEF Links, Free
<1>2. ds = [cs EXCEPT ![c] = new]
  BY DEF Connected
<1> HIDE DEF new
<1>3. QED
  BY <1>1, <1>2

\* A connection is not made, and its descriptor stays open.
LEMMA FailFacts ==
    ASSUME NEW cs \in [Conns -> Links], NEW c \in Conns,
           NEW x \in Mounts \cup Servers, NEW h \in Servers,
           NEW ds, ds = Unconnected(cs, c, x, h)
    PROVE  /\ ds \in [Conns -> Links]
           /\ \A d \in Conns \ {c} : ds[d] = cs[d]
           /\ ds[c].from = x /\ ds[c].to = h /\ ds[c].client = "unconnected"
           /\ ds[c].server = "dead" /\ ds[c].req = <<>> /\ ds[c].ans = <<>>
<1> DEFINE new == [Free EXCEPT !.from = x, !.to = h,
                               !.client = "unconnected", !.server = "dead"]
<1>1. /\ new \in Links /\ new.from = x /\ new.to = h /\ new.client = "unconnected"
      /\ new.server = "dead" /\ new.req = <<>> /\ new.ans = <<>>
  BY FreeFacts DEF Links, Free
<1>2. ds = [cs EXCEPT ![c] = new]
  BY DEF Unconnected
<1> HIDE DEF new
<1>3. QED
  BY <1>1, <1>2

\* A connection of which both ends are gone is free.
LEMMA ReapFacts ==
    ASSUME NEW cs \in [Conns -> Links], NEW ds, ds = Reaped(cs)
    PROVE  /\ ds \in [Conns -> Links]
           /\ \A c \in Conns : \/ ds[c] = cs[c]
                               \/ /\ ds[c] = Free /\ cs[c].client # "open"
                                  /\ cs[c].server = "dead"
BY FreeFacts DEF Reaped

\* Client ends are closed.
LEMMA ClientCloses ==
    ASSUME NEW cs \in [Conns -> Links], NEW S, NEW ds, ds = ClosedByClient(cs, S)
    PROVE  /\ ds \in [Conns -> Links]
           /\ \A c \in Conns :
                \/ /\ ds[c] = Free /\ (c \in S \/ cs[c].client # "open")
                   /\ cs[c].server = "dead"
                \/ c \notin S /\ ds[c] = cs[c]
                \/ /\ c \in S /\ ds[c].client # "open"
                   /\ ds[c].from = cs[c].from /\ ds[c].to = cs[c].to
                   /\ ds[c].server = cs[c].server
                   /\ ds[c].req = cs[c].req /\ ds[c].ans = cs[c].ans
<1> DEFINE es == [c \in Conns |->
                    IF c \in S THEN [cs[c] EXCEPT !.client =
                                        IF cs[c].ans = <<>> THEN "closed" ELSE "reset"]
                    ELSE cs[c]]
<1>1. ASSUME NEW c \in Conns
      PROVE  /\ es[c] \in Links
             /\ c \notin S => es[c] = cs[c]
             /\ c \in S =>
                  /\ es[c].client # "open"
                  /\ es[c].from = cs[c].from /\ es[c].to = cs[c].to
                  /\ es[c].server = cs[c].server
                  /\ es[c].req = cs[c].req /\ es[c].ans = cs[c].ans
  BY DEF Links
<1>2. es \in [Conns -> Links]
  BY <1>1
<1>3. ds = Reaped(es)
  BY DEF ClosedByClient
<1> HIDE DEF es
<1>4. QED
  BY <1>1, <1>2, <1>3, ReapFacts

\* Server ends are closed.
LEMMA ServerCloses ==
    ASSUME NEW cs \in [Conns -> Links], NEW S, NEW ds, ds = ClosedByServer(cs, S)
    PROVE  /\ ds \in [Conns -> Links]
           /\ \A c \in Conns :
                \/ /\ ds[c] = Free /\ cs[c].client # "open"
                   /\ c \in S \/ cs[c].server = "dead"
                \/ c \notin S /\ ds[c] = cs[c]
                \/ /\ c \in S /\ ds[c].client = cs[c].client
                   /\ ds[c].from = cs[c].from /\ ds[c].to = cs[c].to
                   /\ ds[c].req = <<>> /\ ds[c].ans = cs[c].ans
<1> DEFINE es == [c \in Conns |->
                    IF c \in S THEN [cs[c] EXCEPT !.server = "dead", !.req = <<>>]
                    ELSE cs[c]]
<1>1. ASSUME NEW c \in Conns
      PROVE  /\ es[c] \in Links
             /\ c \notin S => es[c] = cs[c]
             /\ c \in S =>
                  /\ es[c].client = cs[c].client
                  /\ es[c].from = cs[c].from /\ es[c].to = cs[c].to
                  /\ es[c].req = <<>> /\ es[c].ans = cs[c].ans
  BY EmptySeq DEF Links
<1>2. es \in [Conns -> Links]
  BY <1>1
<1>3. ds = Reaped(es)
  BY DEF ClosedByServer
<1> HIDE DEF es
<1>4. QED
  BY <1>1, <1>2, <1>3, ReapFacts

\* A package is sent, or lost at an end that has gone.
LEMMA SendFacts ==
    ASSUME NEW cs \in [Conns -> Links], NEW c \in Conns, NEW p \in Packages,
           NEW ds, ds = Send(cs, c, p)
    PROVE  /\ ds \in [Conns -> Links]
           /\ \A d \in Conns \ {c} : ds[d] = cs[d]
           /\ ds[c].from = cs[c].from /\ ds[c].to = cs[c].to
           /\ ds[c].client = cs[c].client /\ ds[c].server = cs[c].server
           /\ ds[c].ans = cs[c].ans
           /\ \/ ds[c].req = cs[c].req
              \/ ds[c].req = Append(cs[c].req, p) /\ cs[c].server # "dead"
           /\ Len(ds[c].req) <= Len(cs[c].req) + 1
<1> DEFINE new == [cs[c] EXCEPT !.req = Append(@, p)]
<1>1. Append(cs[c].req, p) \in Seq(Packages)
      /\ Len(Append(cs[c].req, p)) = Len(cs[c].req) + 1 /\ Len(cs[c].req) \in Nat
  BY AppendProperties, LenProperties DEF Links
<1>2. /\ new \in Links /\ new.from = cs[c].from /\ new.to = cs[c].to
      /\ new.client = cs[c].client /\ new.server = cs[c].server
      /\ new.ans = cs[c].ans /\ Len(new.req) = Len(cs[c].req) + 1
      /\ new.req = Append(cs[c].req, p)
  BY <1>1 DEF Links
<1>3. ds = IF cs[c].server = "dead" THEN cs ELSE [cs EXCEPT ![c] = new]
  BY DEF Send
<1> HIDE DEF new
<1>4. QED
  BY <1>1, <1>2, <1>3

\* A sequence with one more element in front, and the first elements of one.
LEMMA FrontFacts ==
    ASSUME NEW S, NEW e \in S, NEW x \in Seq(S), NEW t, t = <<e>> \o x
    PROVE  /\ t \in Seq(S) /\ Len(x) \in Nat /\ Len(t) = Len(x) + 1 /\ t[1] = e
           /\ \A j \in 2..(Len(x) + 1) : t[j] = x[j - 1]
<1> DEFINE v == <<e>>
<1>1. v \in Seq(S) /\ Len(v) = 1 /\ v[1] = e
  OBVIOUS
<1>2. t = v \o x
  OBVIOUS
<1> HIDE DEF v
<1>3. /\ v \o x \in Seq(S) /\ Len(v \o x) = Len(v) + Len(x)
      /\ \A j \in 1..(Len(v) + Len(x)) :
            (v \o x)[j] = IF j <= Len(v) THEN v[j] ELSE x[j - Len(v)]
  BY <1>1, ConcatProperties
<1>4. Len(x) \in Nat
  BY LenProperties
<1>5. QED
  BY <1>1, <1>2, <1>3, <1>4

LEMMA PrefixFacts ==
    ASSUME NEW S, NEW u \in Seq(S), NEW k \in Nat \ {0}, k <= Len(u),
           NEW t, t = SubSeq(u, 1, k)
    PROVE  t \in Seq(S) /\ Len(t) = k /\ \A j \in 1..k : t[j] = u[j]
<1>1. \A j \in 1..k : u[j] \in S
  BY LenProperties, ElementOfSeq
<1>2. /\ SubSeq(u, 1, k) \in Seq(S)
      /\ Len(SubSeq(u, 1, k)) = IF 1 <= k THEN k - 1 + 1 ELSE 0
      /\ \A j \in 1..(k - 1 + 1) : SubSeq(u, 1, k)[j] = u[1 + j - 1]
  BY <1>1, SubSeqProperties
<1>3. (IF 1 <= k THEN k - 1 + 1 ELSE 0) = k /\ k - 1 + 1 = k /\ \A j \in 1..k : 1 + j - 1 = j
  OBVIOUS
<1>4. QED
  BY <1>2, <1>3

-----------------------------------------------------------------------------
(*****************************************************************************)
(* What is left to show of a step.                                           *)
(*****************************************************************************)
\* A step leaves the client end of connection c alone.
Kept(c) ==
    /\ conn'[c].from = conn[c].from /\ conn'[c].to = conn[c].to
    /\ conn'[c].client = conn[c].client

\* A step in which mount n takes no part: its connections stay, but for those it
\* has closed, and what waits in one stays, or is lost with the server.
Aside(n, c) ==
    \/ conn[c].client # "open" /\ conn'[c].from = None
    \/ /\ Kept(c) /\ conn'[c].ans = conn[c].ans
       /\ conn'[c].req \in {conn[c].req, <<>>}
    \/ conn[c].from # n /\ conn'[c].from # n

\* A server's end that is open stays.
Stays(c) ==
    conn[c].server = "open" => conn'[c].server = "open" /\ conn'[c].to = conn[c].to

\* How much waits in a connection, to be read by either end.
Waiting(l) == Len(l.req) + Len(l.ans)

LEMMA WaitingFacts ==
    ASSUME NEW l \in Links
    PROVE  /\ Len(l.req) \in Nat /\ Len(l.ans) \in Nat /\ Waiting(l) \in Nat
           /\ Waiting(l) = 0 <=> l.req = <<>> /\ l.ans = <<>>
<1>1. /\ Len(l.req) \in Nat /\ Len(l.ans) \in Nat
      /\ Len(l.req) = 0 <=> l.req = <<>>
      /\ Len(l.ans) = 0 <=> l.ans = <<>>
  BY EmptySeq, LenProperties DEF Links
<1>2. Waiting(l) \in Nat /\ (Waiting(l) = 0 <=> Len(l.req) = 0 /\ Len(l.ans) = 0)
  <2>1. \A a, b \in Nat : a + b \in Nat /\ (a + b = 0 <=> a = 0 /\ b = 0)
    OBVIOUS
  <2>2. QED
    BY <1>1, <2>1, Zenon DEF Waiting
<1>3. QED
  BY <1>1, <1>2

\* Taking away what was sent leaves no more.
LEMMA EmptiedFacts ==
    ASSUME NEW l \in Links, NEW k \in Links, k.req \in {l.req, <<>>}, k.ans = l.ans
    PROVE  Waiting(k) <= Waiting(l)
<1>1. Len(l.req) \in Nat /\ Len(l.ans) \in Nat /\ Len(k.req) \in {0, Len(l.req)}
  BY EmptySeq, WaitingFacts
<1>2. \A a, b \in Nat : 0 + b <= a + b /\ a + b <= a + b
  OBVIOUS
<1>3. QED
  BY <1>1, <1>2, Zenon DEF Waiting

\* What is in a cache.
LEMMA EntryFacts ==
    ASSUME NEW s \in Seq(CacheEntries), NEW i \in DOMAIN s
    PROVE  /\ i \in 1..Len(s) /\ Len(s) \in Nat
           /\ s[i] \in CacheEntries /\ s[i].host \in Servers /\ s[i].sock \in Conns
<1>1. i \in 1..Len(s) /\ Len(s) \in Nat
  BY LenProperties
<1>2. s[i] \in CacheEntries
  BY <1>1, ElementOfSeq
<1>3. QED
  BY <1>1, <1>2 DEF CacheEntries

LEMMA Undisturbed ==
    ASSUME ZInv, Typed', NEW n \in Mounts, cache'[n] = cache[n], call'[n] = call[n],
           found'[n] = found[n], crashed \subseteq crashed',
           \A c \in Conns : Aside(n, c)
    PROVE  Cached(n)' /\ Own(n)' /\ Holds(n)' /\ Answering(n)'
<1>1. n # None /\ cache[n] \in Seq(CacheEntries)
  BY StoreAssumption DEF ZInv, Typed
<1>2. \A c \in Conns : conn[c].from = n /\ conn[c].client = "open" =>
         Kept(c) /\ conn'[c].ans = conn[c].ans /\ conn'[c].req \in {conn[c].req, <<>>}
  BY <1>1 DEF Aside
<1>3. ASSUME NEW c \in Conns, conn'[c].from = n
      PROVE  Kept(c) /\ conn'[c].ans = conn[c].ans /\ conn'[c].req \in {conn[c].req, <<>>}
  BY <1>1, <1>3 DEF Aside, Kept
<1>4. {c \in Conns : conn[c].from = n /\ conn[c].client = "open"}
        = {c \in Conns : conn'[c].from = n /\ conn'[c].client = "open"}
  BY <1>2, <1>3 DEF Kept
<1>5. \A i \in DOMAIN cache[n] : cache[n][i].sock \in Conns
  BY <1>1, EntryFacts
<1>6. Cached(n)'
  <2>1. \A i \in DOMAIN cache[n] : conn'[cache[n][i].sock].to = cache[n][i].host
    BY <1>2, <1>5 DEF ZInv, Cached, Kept
  <2>2. QED
    BY <1>4, <2>1 DEF ZInv, Cached
<1>7. Own(n)'
  <2>1. ASSUME NEW c \in Conns, conn'[c].from = n
        PROVE  /\ Waiting(conn'[c]) <= 1
               /\ conn'[c].req # <<>> \/ conn'[c].ans # <<>> =>
                    call[n].pc = "receive" /\ call[n].sock = c
    <3>1. conn[c].from = n
      BY <1>3, <2>1 DEF Kept
    <3>2. /\ conn[c] \in Links /\ conn'[c] \in Links /\ Waiting(conn'[c]) <= Waiting(conn[c])
          /\ conn'[c].ans = conn[c].ans /\ conn'[c].req \in {conn[c].req, <<>>}
      BY <1>3, <2>1, EmptiedFacts DEF ZInv, Typed
    <3>3. /\ Waiting(conn[c]) <= 1
          /\ conn[c].req # <<>> \/ conn[c].ans # <<>> =>
               call[n].pc = "receive" /\ call[n].sock = c
      BY <3>1 DEF ZInv, Own, Waiting
    <3>4. Waiting(conn[c]) \in Nat /\ Waiting(conn'[c]) \in Nat
      BY <3>2, WaitingFacts
    <3>5. QED
      BY <3>2, <3>3, <3>4
  <2>2. QED
    BY <2>1 DEF Own, Waiting
<1>8. call[n].sock \in Conns \cup {None} /\ Holds(n) /\ Answering(n)
  BY DEF ZInv, Typed, InCall, Idle
<1>9. Holds(n)'
  BY <1>2, <1>8 DEF Holds, Kept
<1>10. Answering(n)'
  <2>1. Package(n)' = Package(n)
    BY DEF Package
  <2>2. CASE call[n].sock = None
    BY <1>8, <2>2 DEF Answering
  <2>3. CASE call[n].sock # None
    <3> DEFINE c == call[n].sock
    <3>1. c \in Conns /\ conn'[c].to = conn[c].to /\ conn'[c].ans = conn[c].ans
          /\ conn'[c].req \in {conn[c].req, <<>>}
      BY <1>2, <1>8, <2>3 DEF Holds, Kept
    <3>2. QED
      BY <1>8, <2>1, <2>3, <3>1 DEF Answering
  <2>4. QED
    BY <2>2, <2>3
<1>11. QED
  BY <1>6, <1>7, <1>9, <1>10

\* A server's link to the replica stays while its connections do.
LEMMA LinkKept ==
    ASSUME ZInv, NEW h \in Servers, replicaSock'[h] = replicaSock[h],
           \A c \in Conns : conn[c].from = h /\ conn[c].client = "open" => Kept(c)
    PROVE  Linked(h)'
<1>1. Linked(h) /\ replicaSock[h] \in Conns \cup {None}
  BY DEF ZInv, Typed
<1>2. QED
  BY <1>1 DEF Linked, Kept

\* Edges come from connections the server has open.
LEMMA EventsKept ==
    ASSUME ZInv, NEW h \in Servers, \A c \in Conns : Stays(c),
           \A c \in Conns : c \in edge'[h] \/ c = serving'[h] =>
               c \in edge[h] \/ c = serving[h] \/ c \in Raised(conn, conn')[h]
    PROVE  Events(h)'
<1>1. ASSUME NEW c \in Conns, c \in Raised(conn, conn')[h], c \notin edge[h]
      PROVE  conn'[c].to = h /\ conn'[c].server = "open"
  <2>1. c # Listener
    BY StoreAssumption
  <2>2. QED
    BY <1>1, <2>1 DEF Raised
<1>2. QED
  BY <1>1 DEF ZInv, Events, Stays

\* A step that leaves a mount's open client ends alone leaves its cache right.
LEMMA StillCached ==
    ASSUME ZInv, NEW m \in Mounts, cache'[m] = cache[m],
           \A c \in Conns : \/ Kept(c)
                            \/ /\ conn[c].from # m \/ conn[c].client # "open"
                               /\ conn'[c].from # m \/ conn'[c].client # "open"
    PROVE  Cached(m)'
<1>1. Cached(m)
  BY DEF ZInv
<1>2. {c \in Conns : conn[c].from = m /\ conn[c].client = "open"}
        = {c \in Conns : conn'[c].from = m /\ conn'[c].client = "open"}
  BY DEF Kept
<1>3. \A i \in DOMAIN cache[m] : /\ cache[m][i].sock \in Conns
                                 /\ conn[cache[m][i].sock].from = m
                                 /\ conn[cache[m][i].sock].client = "open"
  <2>1. \A i \in DOMAIN cache[m] : cache[m][i].sock \in Conns
    BY EntryFacts DEF ZInv, Typed
  <2>2. QED
    BY <1>1, <2>1 DEF Cached
<1>4. \A i \in DOMAIN cache[m] : conn'[cache[m][i].sock].to = cache[m][i].host
  BY <1>1, <1>3 DEF Cached, Kept
<1>5. QED
  BY <1>1, <1>2, <1>4 DEF Cached

LEMMA RaisedFacts ==
    ASSUME Typed, NEW cs, NEW ds
    PROVE  Raised(cs, ds) \in [Servers -> SUBSET (Conns \cup {Listener})]
BY DEF Typed, Raised

-----------------------------------------------------------------------------
(*****************************************************************************)
(* The server.                                                               *)
(*****************************************************************************)
\* What a step of a server has to show that does not touch what it answers.
LEMMA ServerStepKeeps ==
    ASSUME ZInv, Typed', DeadUnread', UNCHANGED <<mount, found>>, crashed \subseteq crashed',
           Servers \ up' \subseteq crashed',
           \A n \in Mounts, c \in Conns : Aside(n, c),
           \A h \in Servers : Linked(h)' /\ Events(h)',
           \A c \in Conns : Ends(c)'
    PROVE  ZInv'
BY Undisturbed DEF ZInv, mount

\* Nothing the mounts and the servers share changes.
LEMMA Still ==
    ASSUME ZInv, Typed', UNCHANGED <<conn, replicaSock, table, crashed, mount, found>>,
           Servers \ up' \subseteq crashed, \A h \in Servers : Events(h)'
    PROVE  ZInv'
<1>1. DeadUnread'
  BY DEF ZInv, DeadUnread
<1>2. \A n \in Mounts, c \in Conns : Aside(n, c)
  BY DEF Aside, Kept
<1>3. ASSUME NEW h \in Servers PROVE Linked(h)'
  BY LinkKept DEF Kept
<1>4. ASSUME NEW c \in Conns PROVE Ends(c)'
  <2>1. Ends(c)
    BY DEF ZInv
  <2>2. QED
    BY <2>1 DEF Ends
<1>5. QED
  BY <1>1, <1>2, <1>3, <1>4, ServerStepKeeps

LEMMA EpollWaitKeeps ==
    ASSUME ZInv, NEW h \in Servers, EpollWait(h)
    PROVE  ZInv'
<1>1. PICK fd \in edge[h] \ {Listener} :
          /\ serving' = [serving EXCEPT ![h] = fd]
          /\ edge' = [edge EXCEPT ![h] = @ \ {fd}]
  BY DEF EpollWait
<1>2. UNCHANGED <<conn, up, table, replicaSock, crashed, mount, found>>
  BY DEF EpollWait
<1>3. Typed'
  BY <1>1, <1>2 DEF ZInv, Typed, mount
<1>4. ASSUME NEW g \in Servers PROVE Events(g)'
  <2>1. \A c \in Conns : c \in edge'[g] \/ c = serving'[g] => c \in edge[g] \/ c = serving[g]
    BY <1>1 DEF ZInv, Typed
  <2>2. QED
    BY <1>2, <2>1, EventsKept DEF Stays
<1>5. QED
  BY <1>2, <1>3, <1>4, Still DEF ZInv

LEMMA StartKeeps ==
    ASSUME ZInv, NEW h \in Servers, Start(h)
    PROVE  ZInv'
<1>1. UNCHANGED <<conn, table, replicaSock, crashed, mount, found, edge, serving>>
      /\ up' = up \cup {h}
  BY DEF Start, network
<1>2. Typed'
  BY <1>1 DEF ZInv, Typed, mount
<1>3. ASSUME NEW g \in Servers PROVE Events(g)'
  BY <1>1, EventsKept DEF Stays
<1>4. QED
  BY <1>1, <1>2, <1>3, Still DEF ZInv

LEMMA AcceptKeeps ==
    ASSUME ZInv, NEW h \in Servers, Accept(h)
    PROVE  ZInv'
<1>1. ASSUME NEW c \in Conns
      PROVE  /\ conn'[c] \in Links /\ Kept(c) /\ Stays(c)
             /\ conn'[c].req = conn[c].req /\ conn'[c].ans = conn[c].ans
             /\ conn'[c].server = "dead" => conn[c].server = "dead"
  <2>1. conn[c] \in Links
    BY DEF ZInv, Typed
  <2>2. conn'[c] = conn[c] \/ conn'[c] = [conn[c] EXCEPT !.server = "open"]
    BY DEF Accept
  <2>3. QED
    BY <2>1, <2>2 DEF Links, Kept, Stays
<1>2. conn' \in [Conns -> Links]
  <2>1. conn' = [c \in Conns |-> conn'[c]]
    BY DEF Accept
  <2>2. QED
    BY <1>1, <2>1
<1>3. /\ edge' = [Raised(conn, conn') EXCEPT ![h] = @ \ {Listener}]
      /\ UNCHANGED <<server, mount, found>>
  BY DEF Accept
<1>4. Raised(conn, conn') \in [Servers -> SUBSET (Conns \cup {Listener})]
  BY RaisedFacts DEF ZInv
<1>5. Typed'
  BY <1>2, <1>3, <1>4 DEF ZInv, Typed, server, mount
<1>6. DeadUnread'
  BY <1>1 DEF ZInv, DeadUnread
<1>7. \A n \in Mounts, c \in Conns : Aside(n, c)
  BY <1>1 DEF Aside
<1>8. ASSUME NEW g \in Servers PROVE Linked(g)' /\ Events(g)'
  <2>1. \A c \in Conns : c \in edge'[g] => c \in Raised(conn, conn')[g]
    BY <1>3, <1>4
  <2>2. QED
    BY <1>1, <1>3, <2>1, LinkKept, EventsKept DEF server
<1>9. ASSUME NEW c \in Conns PROVE Ends(c)'
  <2>1. Ends(c) /\ crashed' = crashed
    BY <1>3 DEF ZInv, server
  <2>2. QED
    BY <1>1, <2>1 DEF Ends, Kept
<1>10. QED
  BY <1>3, <1>5, <1>6, <1>7, <1>8, <1>9, ServerStepKeeps DEF server, ZInv

LEMMA DrainedKeeps ==
    ASSUME ZInv, NEW h \in Servers, Drained(h)
    PROVE  ZInv'
<1> DEFINE k == serving[h]
<1>1. /\ UNCHANGED <<up, table, replicaSock, crashed, mount, found>>
      /\ serving' = [serving EXCEPT ![h] = None] /\ k \in Conns
  BY DEF Drained, Done
<1>2. CASE UNCHANGED network
  <2>1. Typed'
    BY <1>1, <1>2 DEF ZInv, Typed, mount, network
  <2>2. ASSUME NEW g \in Servers PROVE Events(g)'
    <3>1. \A c \in Conns : c = serving'[g] => c = serving[g]
      BY <1>1, StoreAssumption DEF ZInv, Typed
    <3>2. QED
      BY <1>2, <3>1, EventsKept DEF Stays, network
  <2>3. QED
    BY <1>1, <1>2, <2>1, <2>2, Still DEF network, ZInv
<1>3. CASE /\ conn' = ClosedByServer(conn, {k}) /\ edge' = [edge EXCEPT ![h] = @ \ {k}]
           /\ conn[k].client # "open"
  <2>1. conn \in [Conns -> Links]
    BY DEF ZInv, Typed
  <2>2. /\ conn' \in [Conns -> Links]
        /\ \A c \in Conns :
             \/ /\ conn'[c] = Free /\ conn[c].client # "open"
                /\ c = k \/ conn[c].server = "dead"
             \/ c # k /\ conn'[c] = conn[c]
             \/ /\ c = k /\ Kept(c)
                /\ conn'[c].req = <<>> /\ conn'[c].ans = conn[c].ans
    <3> HIDE DEF k
    <3>1. QED
      BY <1>3, <2>1, ServerCloses DEF Kept
  <2>3. Typed'
    BY <1>1, <1>3, <2>2 DEF ZInv, Typed, mount
  <2>4. DeadUnread'
    BY <2>2, FreeFacts DEF ZInv, DeadUnread
  <2>5. \A n \in Mounts, c \in Conns : Aside(n, c)
    BY <2>2, FreeFacts DEF Aside, Kept
  <2>6. \A c \in Conns : conn[c].client = "open" => Kept(c)
    BY <2>2 DEF Kept
  <2>7. conn[k].to = h
    BY <1>1 DEF ZInv, Events
  <2>8. ASSUME NEW g \in Servers PROVE Events(g)'
    <3>1. ASSUME NEW c \in Conns, c \in edge'[g] \/ c = serving'[g]
          PROVE  c # k /\ (c \in edge[g] \/ c = serving[g])
      <4>1. c \in edge[g] \/ c = serving[g]
        BY <1>1, <1>3, <3>1, StoreAssumption DEF ZInv, Typed
      <4>2. conn[c].to = g
        BY <4>1 DEF ZInv, Events
      <4>3. CASE g = h
        BY <1>1, <1>3, <3>1, <4>1, <4>3, StoreAssumption DEF ZInv, Typed
      <4>4. QED
        BY <2>7, <4>1, <4>2, <4>3
    <3>2. ASSUME NEW c \in Conns, c # k, conn[c].server = "open"
          PROVE  conn'[c] = conn[c]
      BY <2>2, <3>2
    <3>3. QED
      BY <3>1, <3>2 DEF Events, ZInv
  <2>9. ASSUME NEW c \in Conns PROVE Ends(c)'
    <3>1. CASE conn'[c] = Free
      BY <3>1, FreeFacts, StoreAssumption DEF Ends
    <3>2. CASE conn'[c] = conn[c]
      <4>1. Ends(c)
        BY DEF ZInv
      <4>2. QED
        BY <1>1, <3>2, <4>1 DEF Ends
    <3>3. CASE c = k /\ Kept(c) /\ conn'[c].req = <<>>
      <4>1. Ends(c)
        BY DEF ZInv
      <4>2. DOMAIN conn'[c].req = {}
        BY <3>3
      <4>3. QED
        BY <1>3, <3>3, <4>1, <4>2 DEF Ends, Kept
    <3>4. QED
      BY <2>2, <3>1, <3>2, <3>3
  <2>10. ASSUME NEW g \in Servers PROVE Linked(g)'
    BY <1>1, <2>6, LinkKept
  <2>11. QED
    BY <1>1, <2>3, <2>4, <2>5, <2>8, <2>9, <2>10, ServerStepKeeps DEF ZInv
<1>4. QED
  BY <1>2, <1>3 DEF Drained

\* A server that dies closes both its ends of connections.
LEMMA DieKeeps ==
    ASSUME ZInv, NEW h \in Servers, Die(h)
    PROVE  ZInv'
<1> DEFINE mine == {c \in Conns : conn[c].from = h}
           served == {c \in Conns : conn[c].to = h}
           cs == ClosedByClient(conn, mine)
<1>1. conn \in [Conns -> Links]
  BY DEF ZInv, Typed
<1>2. /\ cs \in [Conns -> Links]
      /\ \A c \in Conns :
           \/ /\ cs[c] = Free /\ (c \in mine \/ conn[c].client # "open")
              /\ conn[c].server = "dead"
           \/ c \notin mine /\ cs[c] = conn[c]
           \/ /\ c \in mine /\ cs[c].client # "open"
              /\ cs[c].from = conn[c].from /\ cs[c].to = conn[c].to
              /\ cs[c].server = conn[c].server
              /\ cs[c].req = conn[c].req /\ cs[c].ans = conn[c].ans
  <2> HIDE DEF mine
  <2>1. QED
    BY <1>1, ClientCloses
<1>3. conn' = ClosedByServer(cs, served)
  BY DEF Die
<1> HIDE DEF cs
<1>4. /\ conn' \in [Conns -> Links]
      /\ \A c \in Conns :
           \/ /\ conn'[c] = Free /\ cs[c].client # "open"
              /\ c \in served \/ cs[c].server = "dead"
           \/ c \notin served /\ conn'[c] = cs[c]
           \/ /\ c \in served /\ conn'[c].client = cs[c].client
              /\ conn'[c].from = cs[c].from /\ conn'[c].to = cs[c].to
              /\ conn'[c].req = <<>> /\ conn'[c].ans = cs[c].ans
  <2> HIDE DEF served
  <2>1. QED
    BY <1>2, <1>3, ServerCloses
<1>5. ASSUME NEW c \in Conns, conn[c].from # h
      PROVE  \/ conn[c].client # "open" /\ conn'[c].from = None
             \/ conn'[c] = conn[c]
             \/ Kept(c) /\ conn'[c].req = <<>> /\ conn'[c].ans = conn[c].ans
  <2>1. cs[c] = conn[c] \/ (cs[c] = Free /\ conn[c].client # "open")
    BY <1>2, <1>5
  <2>2. QED
    BY <1>4, <2>1, FreeFacts DEF Kept
<1>6. ASSUME NEW c \in Conns, conn[c].from = h
      PROVE  conn'[c].from \in {None, h}
  <2>1. cs[c].from \in {None, h}
    BY <1>2, <1>6, FreeFacts
  <2>2. QED
    BY <1>4, <2>1, FreeFacts
<1>7. /\ up' = up \ {h} /\ crashed' = crashed \cup {h}
      /\ table' = [table EXCEPT ![h] = [k \in Keys |-> NoValue]]
      /\ serving' = [serving EXCEPT ![h] = None]
      /\ replicaSock' = [replicaSock EXCEPT ![h] = None]
      /\ edge' = [Raised(conn, conn') EXCEPT ![h] = {}]
      /\ UNCHANGED <<mount, found>>
  BY DEF Die
<1>8. Raised(conn, conn') \in [Servers -> SUBSET (Conns \cup {Listener})]
  BY RaisedFacts DEF ZInv
<1>9. Typed'
  BY <1>4, <1>7, <1>8 DEF ZInv, Typed, Vals, mount
<1>10. DeadUnread'
  <2>1. ASSUME NEW c \in Conns, conn'[c].server = "dead"
        PROVE  conn'[c].req = <<>>
    <3>1. conn'[c].req = <<>> \/ conn'[c] = cs[c]
      BY <1>4, FreeFacts
    <3>2. cs[c].server = "dead" => cs[c].req = <<>>
      BY <1>2, FreeFacts DEF ZInv, DeadUnread
    <3>3. QED
      BY <2>1, <3>1, <3>2
  <2>2. QED
    BY <2>1 DEF DeadUnread
<1>11. ASSUME NEW n \in Mounts, NEW c \in Conns PROVE Aside(n, c)
  <2>1. n # h /\ n # None
    BY StoreAssumption
  <2>2. CASE conn[c].from = h
    BY <1>6, <2>1, <2>2 DEF Aside
  <2>3. CASE conn[c].from # h
    BY <1>5, <2>3 DEF Aside, Kept
  <2>4. QED
    BY <2>2, <2>3
<1>12. ASSUME NEW g \in Servers PROVE Linked(g)'
  <2>1. CASE g = h
    BY <1>7, <2>1 DEF Linked, ZInv, Typed
  <2>2. CASE g # h
    <3>1. replicaSock'[g] = replicaSock[g]
      BY <1>7, <2>2 DEF ZInv, Typed
    <3>2. \A c \in Conns : conn[c].from = g /\ conn[c].client = "open" => Kept(c)
      BY <1>5, <2>2 DEF Kept
    <3>3. QED
      BY <3>1, <3>2, LinkKept
  <2>3. QED
    BY <2>1, <2>2
<1>13. ASSUME NEW g \in Servers PROVE Events(g)'
  <2>1. CASE g = h
    BY <1>7, <1>8, <2>1, StoreAssumption DEF Events, ZInv, Typed
  <2>2. CASE g # h
    <3>1. ASSUME NEW c \in Conns, conn[c].to = g, conn[c].server = "open"
          PROVE  conn'[c].to = g /\ conn'[c].server = "open"
      <4>1. cs[c].to = g /\ cs[c].server = "open" /\ c \notin served
        BY <1>2, <2>2, <3>1
      <4>2. QED
        BY <1>4, <4>1
    <3>2. ASSUME NEW c \in Conns, c \in edge'[g] \/ c = serving'[g]
          PROVE  \/ c \in edge[g] \/ c = serving[g]
                 \/ conn'[c].to = g /\ conn'[c].server = "open"
      <4>1. c \in Raised(conn, conn')[g] \/ c = serving[g]
        BY <1>7, <1>8, <2>2, <3>2 DEF ZInv, Typed
      <4>2. c # Listener
        BY StoreAssumption
      <4>3. QED
        BY <4>1, <4>2 DEF Raised
    <3>3. QED
      BY <3>1, <3>2 DEF Events, ZInv
  <2>3. QED
    BY <2>1, <2>2
<1>14. ASSUME NEW c \in Conns PROVE Ends(c)'
  <2>1. Ends(c)
    BY DEF ZInv
  <2>2. \/ cs[c] = Free
        \/ /\ cs[c].from = conn[c].from /\ cs[c].to = conn[c].to
           /\ cs[c].server = conn[c].server /\ cs[c].req = conn[c].req
           /\ cs[c].client = "open" => conn[c].client = "open"
    BY <1>2
  <2>3. \/ conn'[c] = Free \/ conn'[c] = cs[c]
        \/ /\ c \in served /\ conn'[c].client = cs[c].client
           /\ conn'[c].from = cs[c].from /\ conn'[c].to = cs[c].to
           /\ conn'[c].req = <<>>
    BY <1>4
  <2>4. None \notin Servers
    BY StoreAssumption
  <2>5. CASE conn'[c] = Free
    BY <2>4, <2>5, FreeFacts DEF Ends
  <2>6. CASE conn'[c] = cs[c]
    BY <1>7, <2>1, <2>2, <2>4, <2>6, FreeFacts DEF Ends
  <2>7. CASE /\ c \in served /\ conn'[c].client = cs[c].client
             /\ conn'[c].from = cs[c].from /\ conn'[c].to = cs[c].to
             /\ conn'[c].req = <<>>
    <3>1. DOMAIN conn'[c].req = {}
      BY <2>7
    <3>2. QED
      BY <1>7, <2>1, <2>2, <2>4, <2>7, <3>1, FreeFacts DEF Ends
  <2>8. QED
    BY <2>3, <2>5, <2>6, <2>7
<1>15. Servers \ up' \subseteq crashed' /\ crashed \subseteq crashed'
  BY <1>7 DEF ZInv
<1>16. QED
  BY <1>7, <1>9, <1>10, <1>11, <1>12, <1>13, <1>14, <1>15, ServerStepKeeps

\* Packages that arrive together become one, with the sender of the last.
LEMMA MergedFacts ==
    ASSUME NEW ps \in Seq(Packages), ps # <<>>
    PROVE  /\ Merged(ps) \in Packages
           /\ Merged(ps).from = ps[Len(ps)].from
           /\ Len(ps) = 1 => Merged(ps) = ps[1]
<1> DEFINE valued == {i \in DOMAIN ps : ps[i].val # NoValue}
           value == IF valued = {} THEN NoValue ELSE ps[Max(valued)].val
<1>1. Len(ps) \in Nat /\ Len(ps) # 0 /\ DOMAIN ps = 1..Len(ps)
  BY EmptySeq, LenProperties
<1>2. \A i \in 1..Len(ps) : ps[i] \in Packages
  BY ElementOfSeq
<1>3. Last(ps) = ps[Len(ps)] /\ Last(ps) \in Packages
  BY <1>1, <1>2 DEF Last
<1>4. valued # {} => Max(valued) \in valued /\ ps[Max(valued)].val \in Vals
  <2>1. valued \in SUBSET (1..Len(ps))
    BY <1>1
  <2>2. \A i \in valued : ps[i].val \in Vals
    BY <1>1, <1>2 DEF Packages
  <2> HIDE DEF valued
  <2>3. valued # {} => Max(valued) \in valued
    BY <1>1, <2>1, GreatestFacts
  <2>4. QED
    BY <2>2, <2>3
<1>5. value \in Vals
  <2> HIDE DEF valued
  <2>1. QED
    BY <1>4 DEF Vals
<1>6. Merged(ps) = [Last(ps) EXCEPT !.val = value]
  BY DEF Merged
<1>7. ASSUME Len(ps) = 1 PROVE value = Last(ps).val
  <2>1. CASE valued = {}
    <3>1. 1 \notin valued /\ 1 \in DOMAIN ps
      BY <1>1, <1>7, <2>1
    <3>2. QED
      BY <1>3, <1>7, <2>1, <3>1
  <2>2. CASE valued # {}
    <3>1. Max(valued) \in 1..1
      BY <1>1, <1>4, <1>7, <2>2
    <3> HIDE DEF valued
    <3>2. Max(valued) = 1
      BY <3>1
    <3>3. QED
      BY <1>3, <1>7, <2>2, <3>2
  <2>3. QED
    BY <2>1, <2>2
<1> HIDE DEF value
<1>8. Merged(ps) \in Packages /\ Merged(ps).from = Last(ps).from
  BY <1>3, <1>5, <1>6 DEF Packages
<1>9. value = Last(ps).val => Merged(ps) = Last(ps)
  BY <1>3, <1>6 DEF Packages
<1>10. QED
  BY <1>3, <1>7, <1>8, <1>9

\* What a package does to a table, and its answer.
LEMMA ServedFacts ==
    ASSUME NEW t \in [Keys -> Vals], NEW p \in Packages
    PROVE  Served(t, p).tab \in [Keys -> Vals] /\ Served(t, p).ans \in Answers
<1>1. p.op \in Ops /\ p.key \in Keys /\ p.val \in Vals /\ NoValue \in Vals /\ t[p.key] \in Vals
  BY DEF Packages, Vals
<1>2. CASE p.op = "lookup"
  BY <1>1, <1>2 DEF Served, HB_lookup, Answer, Answers
<1>3. CASE p.op = "insert"
  BY <1>1, <1>3 DEF Served, Answer, Answers
<1>4. CASE p.op = "remove"
  BY <1>1, <1>4 DEF Served, HB_remove, Answer, Answers
<1>5. QED
  BY <1>1, <1>2, <1>3, <1>4 DEF Ops

\* Packages are read and answered with one answer.
LEMMA AnsweredFacts ==
    ASSUME conn \in [Conns -> Links], NEW c \in Conns, NEW n \in 1..Len(conn[c].req),
           NEW a \in Answers, NEW cs, cs = Answered(c, n, a)
    PROVE  /\ cs \in [Conns -> Links]
           /\ \A d \in Conns \ {c} : cs[d] = conn[d]
           /\ cs[c].from = conn[c].from /\ cs[c].to = conn[c].to
           /\ cs[c].client = conn[c].client /\ cs[c].server = conn[c].server
           /\ \A i \in DOMAIN cs[c].req : \E j \in DOMAIN conn[c].req : cs[c].req[i] = conn[c].req[j]
           /\ Len(conn[c].req) = 1 => cs[c].req = <<>>
           /\ conn[c].client = "open" /\ conn[c].ans = <<>> =>
                Len(cs[c].ans) = 1 /\ cs[c].ans[1] = a
           /\ conn[c].req # <<>>
<1> DEFINE l == conn[c]
           req1 == SubSeq(l.req, n + 1, Len(l.req))
           ans1 == IF l.client = "open" THEN Append(l.ans, a) ELSE l.ans
<1>1. l \in Links /\ l.req \in Seq(Packages) /\ l.ans \in Seq(Answers)
  BY DEF Links
<1>2. Len(l.req) \in Nat /\ Len(l.ans) \in Nat /\ n \in Nat \ {0} /\ n <= Len(l.req)
      /\ l.req # <<>> /\ DOMAIN l.req = 1..Len(l.req)
  <2>1. Len(l.req) \in Nat /\ Len(l.ans) \in Nat /\ DOMAIN l.req = 1..Len(l.req)
    BY <1>1, LenProperties
  <2>2. n \in 1..Len(l.req)
    OBVIOUS
  <2> HIDE DEF l
  <2>3. QED
    BY <2>1, <2>2, EmptySeq
<1>3. /\ req1 \in Seq(Packages) /\ Len(req1) = Len(l.req) - n
      /\ \A i \in 1..Len(req1) : req1[i] = l.req[n + i]
  <2>1. \A i \in (n + 1)..Len(l.req) : l.req[i] \in Packages
    BY <1>1, <1>2, ElementOfSeq
  <2> HIDE DEF l
  <2>2. /\ req1 \in Seq(Packages)
        /\ Len(req1) = IF n + 1 <= Len(l.req) THEN Len(l.req) - (n + 1) + 1 ELSE 0
        /\ \A i \in 1..(Len(l.req) - (n + 1) + 1) : req1[i] = l.req[(n + 1) + i - 1]
    BY <1>2, <2>1, SubSeqProperties
  <2> HIDE DEF req1
  <2>3. Len(req1) = Len(l.req) - n /\ Len(l.req) - (n + 1) + 1 = Len(l.req) - n
    BY <1>2, <2>2
  <2>4. \A i \in 1..Len(req1) : (n + 1) + i - 1 = n + i
    BY <1>2, <2>3
  <2>5. QED
    BY <2>2, <2>3, <2>4
<1>4. ans1 \in Seq(Answers)
  <2> HIDE DEF l
  <2>1. QED
    BY <1>1, <1>2, AppendProperties
<1>5. l.client = "open" /\ l.ans = <<>> => Len(ans1) = 1 /\ ans1[1] = a
  <2> HIDE DEF l
  <2>1. Len(<<>>) = 0
    BY EmptySeq
  <2>2. QED
    BY <1>1, <2>1, AppendProperties
<1>6. ASSUME NEW i \in DOMAIN req1 PROVE \E j \in DOMAIN l.req : req1[i] = l.req[j]
  <2>1. i \in 1..Len(req1)
    BY <1>3, LenProperties
  <2> HIDE DEF l, req1
  <2>2. n + i \in 1..Len(l.req)
    BY <1>2, <1>3, <2>1
  <2>3. QED
    BY <1>2, <1>3, <2>1, <2>2
<1>7. Len(l.req) = 1 => req1 = <<>>
  <2> HIDE DEF l, req1
  <2>1. QED
    BY <1>2, <1>3, EmptySeq
<1>8. cs = [conn EXCEPT ![c] = [l EXCEPT !.req = req1, !.ans = ans1]]
  BY DEF Answered
<1> HIDE DEF req1, ans1
<1>9. [l EXCEPT !.req = req1, !.ans = ans1] \in Links
  BY <1>1, <1>3, <1>4 DEF Links
<1>10. /\ cs[c].req = req1 /\ cs[c].ans = ans1 /\ cs \in [Conns -> Links]
       /\ \A d \in Conns \ {c} : cs[d] = conn[d]
       /\ cs[c].from = conn[c].from /\ cs[c].to = conn[c].to
       /\ cs[c].client = conn[c].client /\ cs[c].server = conn[c].server
  BY <1>1, <1>8, <1>9 DEF Links
<1>11. QED
  BY <1>2, <1>5, <1>6, <1>7, <1>10

\* What a server finds to read: the package of a call that waits for the answer, or,
\* at the replica, packages of servers.
LEMMA AskedFacts ==
    ASSUME ZInv, NEW h \in Servers, serving[h] \in Conns, conn[serving[h]].req # <<>>
    PROVE  LET c == serving[h]
               m == conn[c].from
           IN  /\ conn[c].to = h /\ conn[c].server = "open"
               /\ m \in Mounts \cup Servers
               /\ m \in Mounts =>
                    /\ call[m] \in InCall /\ call[m].pc = "receive" /\ call[m].sock = c
                    /\ Owner[call[m].key] = h /\ found[m] = Idle
                    /\ conn[c].client = "open" /\ conn[c].ans = <<>>
                    /\ Len(conn[c].req) = 1 /\ conn[c].req[1] = Package(m)
               /\ m \in Servers =>
                    h = Replica /\ \A i \in DOMAIN conn[c].req : conn[c].req[i].from \in Servers
<1> DEFINE c == serving[h]
           m == conn[c].from
<1>1. conn[c] \in Links /\ conn[c].to = h /\ conn[c].server = "open"
  BY DEF ZInv, Typed, Events
<1>2. m \in Mounts \cup Servers
  BY <1>1 DEF ZInv, Ends, Links
<1>3. ASSUME m \in Mounts
      PROVE  /\ call[m] \in InCall /\ call[m].pc = "receive" /\ call[m].sock = c
             /\ Owner[call[m].key] = h /\ found[m] = Idle
             /\ conn[c].client = "open" /\ conn[c].ans = <<>>
             /\ Len(conn[c].req) = 1 /\ conn[c].req[1] = Package(m)
  <2>1. call[m].pc = "receive" /\ call[m].sock = c /\ Waiting(conn[c]) <= 1
    <3>1. Own(m)
      BY <1>3 DEF ZInv
    <3>2. c \in Conns /\ conn[c].from = m /\ conn[c].req # <<>>
      OBVIOUS
    <3> HIDE DEF c, m
    <3>3. QED
      BY <3>1, <3>2 DEF Own, Waiting
  <2>2. c # None /\ call[m] \in InCall
    BY <1>3, <2>1, StoreAssumption DEF ZInv, Typed, Idle
  <2>3. conn[c].client = "open" /\ Owner[call[m].key] = h
        /\ conn[c].req[1] = Package(m) /\ found[m] = Idle
    BY <1>1, <1>3, <2>1, <2>2 DEF ZInv, Holds, Answering
  <2>4. Len(conn[c].req) \in Nat /\ Len(conn[c].ans) \in Nat /\ Len(conn[c].req) # 0
        /\ (Len(conn[c].ans) = 0 => conn[c].ans = <<>>)
    BY <1>1, WaitingFacts, EmptySeq DEF Links
  <2>5. Len(conn[c].req) = 1 /\ Len(conn[c].ans) = 0
    <3>1. \A a, b \in Nat : a + b <= 1 /\ a # 0 => a = 1 /\ b = 0
      OBVIOUS
    <3>2. QED
      BY <2>1, <2>4, <3>1, Zenon DEF Waiting
  <2>6. QED
    BY <2>1, <2>2, <2>3, <2>4, <2>5
<1>4. ASSUME m \in Servers
      PROVE  h = Replica /\ \A i \in DOMAIN conn[c].req : conn[c].req[i].from \in Servers
  <2>1. Ends(c)
    BY DEF ZInv
  <2>2. QED
    BY <1>1, <1>4, <2>1 DEF Ends
<1>5. QED
  BY <1>1, <1>2, <1>3, <1>4

\* What dataService does, before the replica is told: it reads packages as p, which
\* leaves the connections as cs.
LEMMA ServiceFacts ==
    ASSUME ZInv, NEW h \in Servers, dataService(h)
    PROVE  LET c == serving[h]
               m == conn[c].from
           IN  /\ c \in Conns /\ conn[c].req # <<>>
               /\ edge' = Raised(conn, conn') /\ UNCHANGED <<up, crashed, mount>>
               /\ \E p \in Packages, cs \in [Conns -> Links], a \in Answers :
                    /\ Served(table[h], p).tab \in [Keys -> Vals] /\ a = Served(table[h], p).ans
                    /\ table' = [table EXCEPT ![h] = Served(table[h], p).tab]
                    /\ found' = [n \in Mounts |-> IF n = p.from THEN a ELSE found[n]]
                    /\ m \in Mounts => /\ p = Package(m) /\ cs[c].req = <<>>
                                       /\ Len(cs[c].ans) = 1 /\ cs[c].ans[1] = a
                    /\ m \in Servers => /\ p.from \in Servers
                                        /\ \A i \in DOMAIN cs[c].req : cs[c].req[i].from \in Servers
                    /\ \A d \in Conns \ {c} : cs[d] = conn[d]
                    /\ cs[c].from = m /\ cs[c].to = conn[c].to
                    /\ cs[c].client = conn[c].client /\ cs[c].server = conn[c].server
                    /\ \/ general_replica(h, cs, p)
                       \/ conn' = cs /\ UNCHANGED <<replicaSock, serving>>
<1> DEFINE c == serving[h]
           m == conn[c].from
<1>1. /\ c \in Conns /\ conn \in [Conns -> Links] /\ conn[c] \in Links
      /\ edge' = Raised(conn, conn') /\ UNCHANGED <<up, crashed, mount>>
  BY DEF dataService, ZInv, Typed
<1>2. PICK n \in 1..Len(conn[c].req) :
        LET p == Merged(SubSeq(conn[c].req, 1, n))
            done == Served(table[h], p)
        IN /\ table' = [table EXCEPT ![h] = done.tab]
           /\ found' = [x \in Mounts |-> IF x = p.from THEN done.ans ELSE found[x]]
           /\ \/ general_replica(h, Answered(c, n, done.ans), p)
              \/ conn' = Answered(c, n, done.ans) /\ UNCHANGED <<replicaSock, serving>>
  BY DEF dataService
<1> DEFINE ps == SubSeq(conn[c].req, 1, n)
           p == Merged(ps)
           done == Served(table[h], p)
           cs == Answered(c, n, done.ans)
<1>3. /\ conn[c].req \in Seq(Packages) /\ DOMAIN conn[c].req = 1..Len(conn[c].req)
      /\ Len(conn[c].req) \in Nat /\ n \in Nat \ {0} /\ n <= Len(conn[c].req)
  <2>1. conn[c].req \in Seq(Packages)
    BY <1>1 DEF Links
  <2>2. QED
    BY <2>1, LenProperties
<1>4. ps \in Seq(Packages) /\ Len(ps) = n /\ \A i \in 1..n : ps[i] = conn[c].req[i]
  BY <1>3, PrefixFacts
<1> HIDE DEF ps
<1>5. /\ p \in Packages /\ p.from = conn[c].req[n].from
      /\ n = 1 => p = conn[c].req[1]
  <2>1. ps # <<>>
    BY <1>3, <1>4, EmptySeq
  <2>2. p \in Packages /\ p.from = ps[n].from /\ (n = 1 => p = ps[1])
    BY <1>4, <2>1, MergedFacts
  <2>3. n \in 1..n /\ (n = 1 => 1 \in 1..n)
    BY <1>3
  <2> HIDE DEF p
  <2>4. QED
    BY <1>4, <2>2, <2>3
<1>6. done.tab \in [Keys -> Vals] /\ done.ans \in Answers
  <2>1. table[h] \in [Keys -> Vals]
    BY DEF ZInv, Typed
  <2> HIDE DEF p
  <2>2. QED
    BY <1>5, <2>1, ServedFacts
<1> DEFINE a == done.ans
<1> HIDE DEF p, a
<1>7. /\ cs \in [Conns -> Links]
      /\ \A d \in Conns \ {c} : cs[d] = conn[d]
      /\ cs[c].from = conn[c].from /\ cs[c].to = conn[c].to
      /\ cs[c].client = conn[c].client /\ cs[c].server = conn[c].server
      /\ \A i \in DOMAIN cs[c].req : \E j \in DOMAIN conn[c].req : cs[c].req[i] = conn[c].req[j]
      /\ Len(conn[c].req) = 1 => cs[c].req = <<>>
      /\ conn[c].client = "open" /\ conn[c].ans = <<>> =>
           Len(cs[c].ans) = 1 /\ cs[c].ans[1] = a
      /\ conn[c].req # <<>>
  <2> HIDE DEF done
  <2>1. cs = Answered(c, n, a) /\ a \in Answers
    BY <1>6 DEF a
  <2> HIDE DEF cs, c
  <2>2. QED
    BY <1>1, <2>1, AnsweredFacts
<1> HIDE DEF cs
<1>8. ASSUME m \in Mounts
      PROVE  p = Package(m) /\ cs[c].req = <<>> /\ Len(cs[c].ans) = 1 /\ cs[c].ans[1] = a
  <2>1. /\ conn[c].client = "open" /\ conn[c].ans = <<>>
        /\ Len(conn[c].req) = 1 /\ conn[c].req[1] = Package(m)
    BY <1>1, <1>7, <1>8, AskedFacts
  <2>2. n = 1
    BY <1>3, <2>1
  <2>3. QED
    BY <1>5, <1>7, <2>1, <2>2
<1>9. ASSUME m \in Servers
      PROVE  p.from \in Servers /\ \A i \in DOMAIN cs[c].req : cs[c].req[i].from \in Servers
  <2>1. \A i \in DOMAIN conn[c].req : conn[c].req[i].from \in Servers
    BY <1>1, <1>7, <1>9, AskedFacts
  <2>2. n \in DOMAIN conn[c].req
    BY <1>3
  <2>3. QED
    BY <1>5, <1>7, <2>1, <2>2
<1>10. /\ table' = [table EXCEPT ![h] = done.tab]
       /\ found' = [x \in Mounts |-> IF x = p.from THEN a ELSE found[x]]
       /\ \/ general_replica(h, cs, p)
          \/ conn' = cs /\ UNCHANGED <<replicaSock, serving>>
       /\ a \in Answers /\ a = done.ans
  BY <1>2, <1>6 DEF cs, p, a, ps
<1>11. QED
  BY <1>1, <1>5, <1>6, <1>7, <1>8, <1>9, <1>10

\* A descriptor is taken, for a connection or for one that fails.
Fresh(d) ==
    \/ conn'[d].client = "open" /\ conn'[d].server = "backlog"
    \/ conn'[d].client = "unconnected" /\ conn'[d].server = "dead"

\* Nothing is sent to an end that is not there.
Unsent(d, cs) ==
    conn'[d].req = <<>> \/ (conn[d].server = "dead" /\ conn'[d].req = cs[d].req)

\* What general_replica does to the connections: it sends on the server's own link,
\* which it may have to make, or leaves a descriptor behind.
LEMMA ReplicaFacts ==
    ASSUME ZInv, NEW h \in Servers, NEW p \in Packages, NEW cs \in [Conns -> Links],
           \A d \in Conns : /\ cs[d].from = conn[d].from /\ cs[d].to = conn[d].to
                            /\ cs[d].client = conn[d].client /\ cs[d].server = conn[d].server,
           \/ general_replica(h, cs, p)
           \/ conn' = cs /\ UNCHANGED <<replicaSock, serving>>
    PROVE  /\ conn' \in [Conns -> Links] /\ replicaSock' \in [Servers -> Conns \cup {None}]
           /\ serving' \in [Servers -> Conns \cup {None, Killed}]
           /\ \A g \in Servers \ {h} : replicaSock'[g] = replicaSock[g]
           /\ Linked(h)'
           /\ \A g \in Servers, d \in Conns : d = serving'[g] => d = serving[g]
           /\ \A d \in Conns :
                \/ conn'[d] = cs[d]
                \/ /\ conn'[d].from = h /\ conn'[d].to = Replica
                   /\ \/ conn[d] = Free /\ Fresh(d)
                      \/ Kept(d) /\ conn'[d].server = conn[d].server
                   /\ conn'[d].server = "dead" => Unsent(d, cs)
                   /\ \A i \in DOMAIN conn'[d].req :
                        \/ conn'[d].req[i].from = h
                        \/ \E j \in DOMAIN cs[d].req : conn'[d].req[i] = cs[d].req[j]
<1> DEFINE copy == [p EXCEPT !.replicano = 3, !.from = h]
<1>1. copy \in Packages /\ copy.from = h
  BY DEF Packages
<1> HIDE DEF copy
<1>2. replicaSock \in [Servers -> Conns \cup {None}] /\ Linked(h) /\ None \notin Conns
      /\ serving \in [Servers -> Conns \cup {None, Killed}] /\ Killed \notin Conns
  BY StoreAssumption DEF ZInv, Typed
\* What is appended is the copy.
<1>3. ASSUME NEW s \in Seq(Packages), NEW i \in DOMAIN Append(s, copy)
      PROVE  Append(s, copy)[i].from = h \/ \E j \in DOMAIN s : Append(s, copy)[i] = s[j]
  <2>1. /\ Len(s) \in Nat /\ DOMAIN s = 1..Len(s)
        /\ DOMAIN Append(s, copy) = 1..(Len(s) + 1)
        /\ \A j \in 1..Len(s) : Append(s, copy)[j] = s[j]
        /\ Append(s, copy)[Len(s) + 1] = copy
    BY <1>1, AppendProperties, LenProperties
  <2>2. i \in 1..Len(s) \/ i = Len(s) + 1
    BY <1>3, <2>1
  <2>3. QED
    BY <1>1, <2>1, <2>2
<1>4. CASE conn' = cs /\ UNCHANGED <<replicaSock, serving>>
  <2>1. Linked(h)'
    BY <1>2, <1>4 DEF Linked
  <2>2. QED
    BY <1>2, <1>4, <2>1
<1>5. CASE /\ replicaSock[h] # None /\ conn' = Send(cs, replicaSock[h], copy)
           /\ UNCHANGED replicaSock
           /\ UNCHANGED serving \/ serving' = [serving EXCEPT ![h] = Killed]
  <2> DEFINE k == replicaSock[h]
  <2>1. k \in Conns /\ conn[k].from = h /\ conn[k].client = "open"
    BY <1>2, <1>5 DEF Linked
  <2>2. conn[k].to = Replica
    BY <2>1 DEF ZInv, Ends
  <2> HIDE DEF k
  <2>3. /\ conn' \in [Conns -> Links]
        /\ \A d \in Conns \ {k} : conn'[d] = cs[d]
        /\ conn'[k].from = cs[k].from /\ conn'[k].to = cs[k].to
        /\ conn'[k].client = cs[k].client /\ conn'[k].server = cs[k].server
        /\ \/ conn'[k].req = cs[k].req
           \/ conn'[k].req = Append(cs[k].req, copy) /\ cs[k].server # "dead"
    BY <1>1, <1>5, <2>1, SendFacts DEF k
  <2>4. \A i \in DOMAIN conn'[k].req :
           \/ conn'[k].req[i].from = h
           \/ \E j \in DOMAIN cs[k].req : conn'[k].req[i] = cs[k].req[j]
    <3>1. cs[k].req \in Seq(Packages)
      BY <2>1 DEF Links
    <3>2. CASE conn'[k].req = cs[k].req
      BY <3>2
    <3>3. CASE conn'[k].req = Append(cs[k].req, copy)
      BY <1>3, <3>1, <3>3
    <3>4. QED
      BY <2>3, <3>2, <3>3
  <2>5. Linked(h)'
    BY <1>5, <2>1, <2>3 DEF Linked, k
  <2>6. serving' \in [Servers -> Conns \cup {None, Killed}]
        /\ \A g \in Servers, d \in Conns : d = serving'[g] => d = serving[g]
    BY <1>2, <1>5
  <2>7. Kept(k) /\ conn'[k].server = conn[k].server
        /\ conn'[k].from = h /\ conn'[k].to = Replica
        /\ (conn'[k].server = "dead" => Unsent(k, cs))
    BY <2>1, <2>2, <2>3 DEF Kept, Unsent
  <2>8. QED
    BY <1>2, <1>5, <2>3, <2>4, <2>5, <2>6, <2>7
<1>6. CASE /\ Spare # {} /\ UNCHANGED serving
           /\ conn' = Send(Connected(cs, NewConn, h, Replica), NewConn, copy)
           /\ replicaSock' = [replicaSock EXCEPT ![h] = NewConn]
  <2> DEFINE k == NewConn
             es == Connected(cs, k, h, Replica)
  <2>1. k \in Conns /\ conn[k] = Free
    BY <1>6, NewFacts
  <2> HIDE DEF k
  <2>2. /\ es \in [Conns -> Links]
        /\ \A d \in Conns \ {k} : es[d] = cs[d]
        /\ es[k].from = h /\ es[k].to = Replica /\ es[k].client = "open"
        /\ es[k].server = "backlog" /\ es[k].req = <<>> /\ es[k].ans = <<>>
    BY <2>1, ConnectFacts, StoreAssumption
  <2>3. conn' = Send(es, k, copy) /\ replicaSock' = [replicaSock EXCEPT ![h] = k]
    BY <1>6 DEF k
  <2> HIDE DEF es
  <2>4. /\ conn' \in [Conns -> Links]
        /\ \A d \in Conns \ {k} : conn'[d] = cs[d]
        /\ conn'[k].from = h /\ conn'[k].to = Replica
        /\ conn'[k].client = "open" /\ conn'[k].server = "backlog"
        /\ \/ conn'[k].req = es[k].req
           \/ conn'[k].req = Append(es[k].req, copy) /\ es[k].server # "dead"
    BY <1>1, <2>1, <2>2, <2>3, SendFacts
  <2>5. \A i \in DOMAIN conn'[k].req : conn'[k].req[i].from = h
    <3>1. es[k].req \in Seq(Packages) /\ DOMAIN es[k].req = {}
      BY <2>1, <2>2 DEF Links
    <3>2. QED
      BY <1>3, <2>4, <3>1
  <2>6. Linked(h)'
    BY <1>2, <2>3, <2>4 DEF Linked
  <2>7. conn'[k].server # "dead" /\ Fresh(k)
    BY <2>4 DEF Fresh
  <2>8. QED
    BY <1>2, <1>6, <2>1, <2>3, <2>4, <2>5, <2>6, <2>7
<1>7. CASE /\ replicaSock[h] = None /\ Spare # {}
           /\ conn' = Unconnected(cs, NewConn, h, Replica)
           /\ UNCHANGED <<replicaSock, serving>>
  <2> DEFINE k == NewConn
  <2>1. k \in Conns /\ conn[k] = Free
    BY <1>7, NewFacts
  <2>2. conn' = Unconnected(cs, k, h, Replica)
    BY <1>7
  <2> HIDE DEF k
  <2>3. /\ conn' \in [Conns -> Links]
        /\ \A d \in Conns \ {k} : conn'[d] = cs[d]
        /\ conn'[k].from = h /\ conn'[k].to = Replica
        /\ conn'[k].client = "unconnected" /\ conn'[k].server = "dead"
        /\ conn'[k].req = <<>>
    BY <2>1, <2>2, FailFacts, StoreAssumption
  <2>4. Fresh(k) /\ Unsent(k, cs) /\ DOMAIN conn'[k].req = {}
    BY <2>3 DEF Fresh, Unsent
  <2>5. Linked(h)'
    BY <1>7 DEF Linked
  <2>6. QED
    BY <1>2, <1>7, <2>1, <2>3, <2>4, <2>5
<1>8. QED
  BY <1>4, <1>5, <1>6, <1>7 DEF general_replica, copy

LEMMA DataServiceKeeps ==
    ASSUME ZInv, NEW h \in Servers, dataService(h)
    PROVE  ZInv'
<1> DEFINE c == serving[h]
           m == conn[c].from
<1>1. /\ c \in Conns /\ conn[c].req # <<>>
      /\ edge' = Raised(conn, conn') /\ UNCHANGED <<up, crashed, mount>>
  BY ServiceFacts
<1>2. PICK p \in Packages, cs \in [Conns -> Links], a \in Answers :
        /\ Served(table[h], p).tab \in [Keys -> Vals]
        /\ table' = [table EXCEPT ![h] = Served(table[h], p).tab]
        /\ found' = [n \in Mounts |-> IF n = p.from THEN a ELSE found[n]]
        /\ m \in Mounts => /\ p = Package(m) /\ cs[c].req = <<>>
                           /\ Len(cs[c].ans) = 1 /\ cs[c].ans[1] = a
        /\ m \in Servers => /\ p.from \in Servers
                            /\ \A i \in DOMAIN cs[c].req : cs[c].req[i].from \in Servers
        /\ \A d \in Conns \ {c} : cs[d] = conn[d]
        /\ cs[c].from = m /\ cs[c].to = conn[c].to
        /\ cs[c].client = conn[c].client /\ cs[c].server = conn[c].server
        /\ \/ general_replica(h, cs, p)
           \/ conn' = cs /\ UNCHANGED <<replicaSock, serving>>
  BY ServiceFacts, SMTT(30)
<1>3. /\ conn[c].to = h /\ conn[c].server = "open" /\ m \in Mounts \cup Servers
      /\ m \in Mounts => call[m].pc = "receive" /\ call[m].sock = c
                         /\ Owner[call[m].key] = h
      /\ m \in Servers => h = Replica
  BY <1>1, AskedFacts
<1>4. h \notin Mounts /\ h # None /\ None \notin Mounts \cup Servers \cup Conns
      /\ Mounts \cap Servers = {}
  BY StoreAssumption
<1>5. \A d \in Conns : /\ cs[d].from = conn[d].from /\ cs[d].to = conn[d].to
                       /\ cs[d].client = conn[d].client /\ cs[d].server = conn[d].server
  BY <1>2
<1>6. /\ conn' \in [Conns -> Links] /\ replicaSock' \in [Servers -> Conns \cup {None}]
      /\ serving' \in [Servers -> Conns \cup {None, Killed}]
      /\ \A g \in Servers \ {h} : replicaSock'[g] = replicaSock[g]
      /\ Linked(h)'
      /\ \A g \in Servers, d \in Conns : d = serving'[g] => d = serving[g]
      /\ \A d \in Conns :
           \/ conn'[d] = cs[d]
           \/ /\ conn'[d].from = h /\ conn'[d].to = Replica
              /\ \/ conn[d] = Free /\ Fresh(d)
                 \/ Kept(d) /\ conn'[d].server = conn[d].server
              /\ conn'[d].server = "dead" => Unsent(d, cs)
              /\ \A i \in DOMAIN conn'[d].req :
                   \/ conn'[d].req[i].from = h
                   \/ \E j \in DOMAIN cs[d].req : conn'[d].req[i] = cs[d].req[j]
  BY <1>2, <1>5, ReplicaFacts
<1> HIDE DEF c
<1>7. found' \in [Mounts -> Answers \cup {Idle}]
      /\ \A n \in Mounts : n # m => found'[n] = found[n]
  <2>1. found \in [Mounts -> Answers \cup {Idle}]
    BY DEF ZInv, Typed
  <2>2. m \in Mounts => p.from = m
    BY <1>2 DEF Package
  <2>3. QED
    BY <1>2, <1>3, <1>4, <2>1, <2>2
<1>8. Typed'
  <2>1. table' \in [Servers -> [Keys -> Vals]]
    BY <1>2 DEF ZInv, Typed
  <2>2. edge' \in [Servers -> SUBSET (Conns \cup {Listener})]
    BY <1>1, RaisedFacts DEF ZInv
  <2>3. QED
    BY <1>1, <1>6, <1>7, <2>1, <2>2 DEF ZInv, Typed, mount
\* Connections of others are as they were.
<1>9. ASSUME NEW d \in Conns, d # c, conn'[d].from # h PROVE conn'[d] = conn[d]
  BY <1>2, <1>6, <1>9
<1>10. ASSUME NEW d \in Conns, conn[d].from # None PROVE Kept(d)
  BY <1>5, <1>6, <1>10, FreeFacts DEF Kept
<1>11. ASSUME NEW d \in Conns, conn[d].from = None
       PROVE  conn'[d] = conn[d] \/ conn'[d].from = h
  BY <1>2, <1>3, <1>4, <1>6, <1>11
<1>12. DeadUnread'
  <2>1. ASSUME NEW d \in Conns, conn'[d].server = "dead" PROVE conn'[d].req = <<>>
    <3>1. \/ conn'[d].req = <<>>
          \/ conn'[d].req = cs[d].req /\ conn[d].server = "dead"
      BY <1>5, <1>6, <2>1 DEF Unsent
    <3>2. conn[d].server = "dead" => d # c
      BY <1>3
    <3>3. QED
      BY <1>2, <3>1, <3>2 DEF ZInv, DeadUnread
  <2>2. QED
    BY <2>1 DEF DeadUnread
<1>13. ASSUME NEW d \in Conns PROVE Stays(d)
  BY <1>5, <1>6, FreeFacts DEF Stays, Kept
<1>14. ASSUME NEW g \in Servers PROVE Linked(g)' /\ Events(g)'
  <2>1. Events(g)'
    BY <1>1, <1>6, <1>13, EventsKept
  <2>2. CASE g # h
    <3>1. \A d \in Conns : conn[d].from = g => Kept(d)
      BY <1>4, <1>10
    <3>2. QED
      BY <1>6, <2>1, <2>2, <3>1, LinkKept
  <2>3. QED
    BY <1>6, <2>1, <2>2
<1>15. ASSUME NEW d \in Conns PROVE Ends(d)'
  <2>1. Ends(d) /\ crashed' = crashed
    BY <1>1 DEF ZInv
  <2>2. /\ conn[d].from = None => cs[d].req = <<>>
        /\ conn[d].from \in Servers => \A i \in DOMAIN cs[d].req : cs[d].req[i].from \in Servers
    BY <1>2, <1>3, <1>4, <2>1 DEF Ends
  <2>3. CASE conn'[d] = cs[d]
    BY <1>5, <2>1, <2>2, <2>3 DEF Ends
  <2>4. CASE /\ conn'[d].from = h /\ conn'[d].to = Replica
             /\ \/ conn[d] = Free /\ Fresh(d)
                \/ Kept(d) /\ conn'[d].server = conn[d].server
             /\ \A i \in DOMAIN conn'[d].req :
                  \/ conn'[d].req[i].from = h
                  \/ \E j \in DOMAIN cs[d].req : conn'[d].req[i] = cs[d].req[j]
    <3>1. conn'[d].client = "open" /\ conn'[d].server = "dead" => conn'[d].to \in crashed'
      BY <2>1, <2>4 DEF Ends, Kept, Fresh
    <3>2. \A i \in DOMAIN cs[d].req : cs[d].req[i].from \in Servers
      <4>1. CASE conn[d] = Free
        <5>1. cs[d].req = <<>>
          BY <2>2, <4>1, FreeFacts
        <5>2. QED
          BY <5>1
      <4>2. CASE Kept(d)
        BY <2>2, <2>4, <4>2 DEF Kept
      <4>3. QED
        BY <2>4, <4>1, <4>2
    <3>3. \A i \in DOMAIN conn'[d].req : conn'[d].req[i].from \in Servers
      BY <2>4, <3>2
    <3>4. QED
      BY <1>4, <2>4, <3>1, <3>3 DEF Ends
  <2>5. QED
    BY <1>6, <2>3, <2>4
<1>16. ASSUME NEW n \in Mounts, n # m PROVE Cached(n)' /\ Own(n)' /\ Holds(n)' /\ Answering(n)'
  <2>1. ASSUME NEW d \in Conns PROVE Aside(n, d)
    <3>1. CASE d = c
      BY <1>4, <1>2, <1>3, <1>6, <1>10, <1>16, <3>1 DEF Aside, Kept
    <3>2. CASE d # c /\ conn'[d].from # h
      BY <1>9, <3>2 DEF Aside, Kept
    <3>3. CASE d # c /\ conn'[d].from = h
      BY <1>4, <1>6, <1>2, <1>10, <1>16, <3>3, FreeFacts DEF Aside, Kept
    <3>4. QED
      BY <3>1, <3>2, <3>3
  <2>2. cache'[n] = cache[n] /\ call'[n] = call[n] /\ found'[n] = found[n]
        /\ crashed \subseteq crashed'
    BY <1>1, <1>7, <1>16 DEF mount
  <2>3. QED
    BY <1>8, <2>1, <2>2, Undisturbed
<1>17. ASSUME NEW n \in Mounts, n = m PROVE Cached(n)' /\ Own(n)' /\ Holds(n)' /\ Answering(n)'
  <2>1. /\ call' = call /\ cache' = cache /\ found'[n] = a
        /\ call[n].pc = "receive" /\ call[n].sock = c /\ Owner[call[n].key] = h
    BY <1>1, <1>2, <1>3, <1>17 DEF mount, Package
  <2>2. conn'[c] = cs[c]
    BY <1>1, <1>4, <1>6, <1>10, <1>17 DEF Kept
  <2>3. Cached(n)'
    BY <1>4, <1>10, <1>11, <1>17, <2>1, StillCached
  <2>4. ASSUME NEW d \in Conns, conn'[d].from = n
        PROVE  /\ Len(conn'[d].req) + Len(conn'[d].ans) <= 1
               /\ conn'[d].req # <<>> \/ conn'[d].ans # <<>> => c = d
    <3>1. CASE d = c
      <4>1. Len(conn'[c].req) = 0 /\ Len(conn'[c].ans) = 1
        BY <1>2, <1>17, <2>2, EmptySeq
      <4>2. QED
        BY <3>1, <4>1
    <3>2. CASE d # c
      <4>1. n # h
        BY <1>4
      <4>2. conn'[d] = conn[d] /\ conn[d].from = n
        BY <1>9, <2>4, <3>2, <4>1
      <4>3. Own(n)
        BY DEF ZInv
      <4>4. QED
        BY <2>1, <4>2, <4>3 DEF Own
    <3>3. QED
      BY <3>1, <3>2
  <2>5. Own(n)'
    BY <2>1, <2>4 DEF Own
  <2>6. Holds(n)'
    <3>1. Holds(n) /\ c # None
      BY <1>1, <1>4, <1>17 DEF ZInv
    <3>2. QED
      BY <1>2, <2>1, <2>2, <3>1 DEF Holds
  <2>7. Answering(n)'
    <3>1. c # None
      BY <1>1, <1>4
    <3>2. QED
      BY <1>2, <1>3, <1>17, <2>1, <2>2, <3>1 DEF Answering
  <2>8. QED
    BY <2>3, <2>5, <2>6, <2>7
<1>18. ASSUME NEW n \in Mounts PROVE Cached(n)' /\ Own(n)' /\ Holds(n)' /\ Answering(n)'
  BY <1>16, <1>17
<1>19. Servers \ up' \subseteq crashed'
  BY <1>1 DEF ZInv
<1>20. QED
  BY <1>8, <1>12, <1>14, <1>15, <1>18, <1>19 DEF ZInv

-----------------------------------------------------------------------------
(*****************************************************************************)
(* The client.                                                               *)
(*****************************************************************************)
\* A step of mount m changes connections of its own, takes an unused one, and
\* lets closed ones go.
Touches(m, c) ==
    \/ conn[c].from # m /\ conn'[c] = conn[c]
    \/ /\ conn'[c] = Free /\ conn[c].server # "open"
       /\ conn[c].client # "open" \/ conn[c].from = m
    \/ conn[c] = Free /\ conn'[c].from = m /\ Fresh(c)
    \/ /\ conn[c].from = m /\ conn'[c].from = m
       /\ conn'[c].to = conn[c].to /\ conn'[c].server = conn[c].server
       /\ conn'[c].client = "open" => conn[c].client = "open"

\* What a step of a mount has to show.
LEMMA MountStepKeeps ==
    ASSUME ZInv, Typed', DeadUnread', NEW m \in Mounts, UNCHANGED server,
           edge' \in {edge, Raised(conn, conn')},
           \A n \in Mounts \ {m} :
               cache'[n] = cache[n] /\ call'[n] = call[n] /\ found'[n] = found[n],
           \A c \in Conns : Touches(m, c),
           Cached(m)', Own(m)', Holds(m)', Answering(m)'
    PROVE  ZInv'
<1>1. \A g \in Servers : g # m /\ g # None
  BY StoreAssumption
<1>2. m # None /\ m \notin Servers
  BY StoreAssumption
<1>3. UNCHANGED <<up, serving, replicaSock, crashed>>
  BY DEF server
<1>4. ASSUME NEW n \in Mounts \ {m}
      PROVE  Cached(n)' /\ Own(n)' /\ Holds(n)' /\ Answering(n)'
  <2>1. n # m /\ n # None
    BY StoreAssumption
  <2>2. ASSUME NEW c \in Conns PROVE Aside(n, c)
    BY <1>2, <2>1, FreeFacts DEF Touches, Aside, Kept
  <2>3. QED
    BY <1>3, <2>2, Undisturbed
<1>5. ASSUME NEW c \in Conns PROVE Stays(c)
  BY FreeFacts DEF Touches, Stays
<1>6. ASSUME NEW c \in Conns PROVE Ends(c)'
  <2>1. Touches(m, c) /\ Ends(c)
    BY DEF ZInv
  <2>2. CASE conn'[c] = conn[c]
    BY <1>3, <2>1, <2>2 DEF Ends
  <2>3. CASE conn'[c] = Free
    BY <2>3, FreeFacts, StoreAssumption DEF Ends
  <2>4. CASE conn'[c].from = m
    BY <1>2, <1>3, <2>1, <2>4, FreeFacts DEF Ends, Touches, Fresh
  <2>5. QED
    BY <2>1, <2>2, <2>3, <2>4 DEF Touches
<1>7. ASSUME NEW g \in Servers PROVE Linked(g)' /\ Events(g)'
  <2>1. \A c \in Conns : conn[c].from = g /\ conn[c].client = "open" => Kept(c)
    BY <1>1, FreeFacts DEF Touches, Kept
  <2>2. Linked(g)'
    BY <1>3, <2>1, LinkKept
  <2>3. Events(g)'
    BY <1>3, <1>5, EventsKept
  <2>4. QED
    BY <2>2, <2>3
<1>8. Servers \ up' \subseteq crashed'
  BY <1>3 DEF ZInv
<1>9. QED
  BY <1>4, <1>6, <1>7, <1>8 DEF ZInv

\* Before an answer is awaited nothing waits.
LEMMA NothingWaits ==
    ASSUME ZInv, NEW m \in Mounts, NEW c \in Conns, conn[c].from = m,
           call[m].pc = "receive" => call[m].sock # c
    PROVE  conn[c].req = <<>> /\ conn[c].ans = <<>>
BY DEF ZInv, Own

\* A mount of which nothing waits takes no wrong answer.
LEMMA EmptyOwn ==
    ASSUME NEW m \in Mounts,
           \A c \in Conns : conn'[c].from = m => conn'[c].req = <<>> /\ conn'[c].ans = <<>>
    PROVE  Own(m)'
<1>1. ASSUME NEW c \in Conns, conn'[c].from = m
      PROVE  Len(conn'[c].req) + Len(conn'[c].ans) <= 1
  <2>1. Len(conn'[c].req) = 0 /\ Len(conn'[c].ans) = 0
    BY <1>1, EmptySeq
  <2>2. QED
    BY <2>1
<1>2. QED
  BY <1>1 DEF Own

\* A mount in no call expects nothing.
LEMMA IdleAnswering ==
    ASSUME NEW m \in Mounts, call'[m] = Idle, found'[m] = Idle
    PROVE  Answering(m)' /\ Holds(m)'
<1>1. Idle.pc = "idle" /\ Idle.sock = None
  BY DEF Idle
<1>2. QED
  BY <1>1 DEF Answering, Holds

\* The call of a mount begins, ends, or goes on with nothing sent: what was open
\* stays, and nothing is left of it in the connections.
LEMMA CallChanges ==
    ASSUME ZInv, NEW m \in Mounts, UNCHANGED <<network, server, cache>>,
           NEW to \in InCall \cup {Idle}, call' = [call EXCEPT ![m] = to],
           found' \in {found, [found EXCEPT ![m] = Idle]},
           result' \in [Mounts -> Answers \cup {Idle, Garbage}],
           to.sock = None \/ to.sock = call[m].sock, Answering(m)',
           \A c \in Conns : conn[c].from = m => conn[c].req = <<>> /\ conn[c].ans = <<>>
    PROVE  ZInv'
<1>1. UNCHANGED <<conn, edge, replicaSock, table, serving>>
  BY DEF network, server
<1>2. Typed' /\ DeadUnread'
  BY <1>1 DEF ZInv, Typed, DeadUnread
<1>3. /\ call'[m] = to
      /\ \A n \in Mounts \ {m} : call'[n] = call[n] /\ found'[n] = found[n]
  BY DEF ZInv, Typed
<1>4. \A c \in Conns : Touches(m, c)
  BY <1>1 DEF Touches
<1>5. Cached(m)'
  BY <1>1, StillCached DEF Kept
<1>6. Own(m)'
  BY <1>1, EmptyOwn
<1>7. Holds(m)'
  <2>1. Holds(m)
    BY DEF ZInv
  <2>2. QED
    BY <1>1, <1>3, <2>1 DEF Holds
<1>8. QED
  BY <1>1, <1>2, <1>3, <1>4, <1>5, <1>6, <1>7, MountStepKeeps

LEMMA SendPackageKeeps ==
    ASSUME ZInv, NEW m \in Mounts, SendPackage(m)
    PROVE  ZInv'
<1> DEFINE k == call[m].sock
           to == [call[m] EXCEPT !.pc = "receive"]
<1>1. call[m] \in InCall /\ conn \in [Conns -> Links]
  BY DEF ZInv, Typed, SendPackage, Idle
<1>2. k \in Conns /\ k # None /\ conn[k].from = m /\ conn[k].client = "open"
  BY <1>1 DEF SendPackage, Sendable, InCall, ZInv, Holds
<1>3. Package(m) \in Packages
  BY <1>1 DEF Package, Packages, InCall
<1>4. /\ to \in InCall /\ to.pc = "receive" /\ to.sock = k /\ to.key = call[m].key
      /\ to.op = call[m].op /\ to.val = call[m].val
  BY <1>1 DEF InCall
<1>5. call' = [call EXCEPT ![m] = to] /\ edge' = Raised(conn, conn')
      /\ UNCHANGED <<server, cache, result, found>>
  BY DEF SendPackage, Receiving
<1> HIDE DEF to, k
<1>6. /\ conn' \in [Conns -> Links]
      /\ \A d \in Conns \ {k} : conn'[d] = conn[d]
      /\ conn'[k].from = m /\ conn'[k].to = conn[k].to
      /\ conn'[k].client = "open" /\ conn'[k].server = conn[k].server
      /\ conn'[k].ans = conn[k].ans
      /\ \/ conn'[k].req = conn[k].req
         \/ conn'[k].req = Append(conn[k].req, Package(m)) /\ conn[k].server # "dead"
  <2>1. conn' = Send(conn, k, Package(m))
    BY DEF SendPackage, k
  <2>2. QED
    BY <1>1, <1>2, <1>3, <2>1, SendFacts
<1>7. \A c \in Conns : conn[c].from = m => conn[c].req = <<>> /\ conn[c].ans = <<>>
  BY NothingWaits DEF SendPackage
<1>8. /\ conn'[k].req = <<>> \/ (Len(conn'[k].req) = 1 /\ conn'[k].req[1] = Package(m))
      /\ conn'[k].ans = <<>>
  <2>1. conn[k].req = <<>> /\ conn[k].req \in Seq(Packages) /\ Len(conn[k].req) = 0
        /\ conn[k].ans = <<>>
    BY <1>1, <1>2, <1>7, EmptySeq DEF Links
  <2>2. /\ Len(Append(conn[k].req, Package(m))) = 1
        /\ Append(conn[k].req, Package(m))[1] = Package(m)
    BY <1>3, <2>1, AppendProperties
  <2>3. QED
    BY <1>6, <2>1, <2>2
<1>9. /\ call'[m] = to
      /\ \A n \in Mounts \ {m} : call'[n] = call[n]
  BY <1>5 DEF ZInv, Typed
<1>10. Typed'
  <2>1. edge' \in [Servers -> SUBSET (Conns \cup {Listener})]
    BY <1>5, RaisedFacts DEF ZInv
  <2>2. QED
    BY <1>4, <1>5, <1>6, <2>1 DEF ZInv, Typed, server
<1>11. DeadUnread'
  BY <1>6 DEF ZInv, DeadUnread
<1>12. \A c \in Conns : Kept(c) /\ Touches(m, c)
  BY <1>2, <1>6 DEF Kept, Touches
<1>13. Cached(m)'
  BY <1>5, <1>12, StillCached
<1>14. Own(m)'
  <2>1. Len(<<>>) = 0
    BY EmptySeq
  <2>2. ASSUME NEW c \in Conns, conn'[c].from = m
        PROVE  /\ Len(conn'[c].req) + Len(conn'[c].ans) <= 1
               /\ conn'[c].req # <<>> \/ conn'[c].ans # <<>> => c = k
    <3>1. CASE c = k
      <4>1. Len(conn'[c].req) = 0 \/ Len(conn'[c].req) = 1
        BY <1>8, <2>1, <3>1
      <4>2. Len(conn'[c].ans) = 0
        BY <1>8, <2>1, <3>1
      <4>3. Len(conn'[c].req) + Len(conn'[c].ans) <= 1
        <5>1. 0 + 0 <= 1 /\ 1 + 0 <= 1
          OBVIOUS
        <5>2. QED
          BY <4>1, <4>2, <5>1, Zenon
      <4>4. QED
        BY <3>1, <4>3
    <3>2. CASE c # k
      <4>1. conn'[c] = conn[c] /\ conn[c].req = <<>> /\ conn[c].ans = <<>>
        BY <1>6, <1>7, <2>2, <3>2
      <4>2. Len(conn'[c].req) = 0 /\ Len(conn'[c].ans) = 0
        BY <2>1, <4>1
      <4>3. QED
        BY <4>1, <4>2
    <3>3. QED
      BY <3>1, <3>2
  <2>3. QED
    BY <1>4, <1>9, <2>2 DEF Own
<1>15. Holds(m)'
  BY <1>4, <1>6, <1>9 DEF Holds
<1>16. Answering(m)'
  <2>1. Answering(m) /\ call[m].pc = "send"
    BY DEF ZInv, SendPackage
  <2>2. Package(m)' = Package(m)
    BY <1>4, <1>9 DEF Package
  <2>3. found'[m] = Idle /\ conn'[k].to = Owner[to.key]
    BY <1>2, <1>4, <1>5, <1>6, <2>1 DEF Answering, k
  <2>4. QED
    BY <1>2, <1>4, <1>8, <1>9, <2>2, <2>3 DEF Answering
<1>17. QED
  BY <1>5, <1>9, <1>10, <1>11, <1>12, <1>13, <1>14, <1>15, <1>16, MountStepKeeps

LEMMA SendFailsKeeps ==
    ASSUME ZInv, NEW m \in Mounts, SendFails(m)
    PROVE  ZInv'
<1>1. call[m] \in InCall /\ call[m].pc = "send"
  BY DEF ZInv, Typed, SendFails, Idle
<1>2. \A c \in Conns : conn[c].from = m => conn[c].req = <<>> /\ conn[c].ans = <<>>
  BY NothingWaits DEF SendFails
<1>3. UNCHANGED <<network, server, cache>>
  BY DEF SendFails
<1>4. CASE Finish(m, Answer(-1, NoValue))
  <2>1. Idle.sock = None /\ Answer(-1, NoValue) \in Answers
    BY DEF Idle, Answer, Answers, Vals
  <2>2. /\ call' = [call EXCEPT ![m] = Idle] /\ found' = [found EXCEPT ![m] = Idle]
        /\ result' = [result EXCEPT ![m] = Answer(-1, NoValue)]
    BY <1>4 DEF Finish
  <2>3. call'[m] = Idle /\ found'[m] = Idle
    BY <2>2 DEF ZInv, Typed
  <2>4. Answering(m)'
    BY <2>3, IdleAnswering
  <2>5. result' \in [Mounts -> Answers \cup {Idle, Garbage}]
    BY <2>1, <2>2 DEF ZInv, Typed
  <2> HIDE DEF Idle
  <2>6. QED
    BY <1>2, <1>3, <2>1, <2>2, <2>4, <2>5, CallChanges
<1>5. CASE Receiving(m) /\ UNCHANGED <<result, found>>
  <2> DEFINE to == [call[m] EXCEPT !.pc = "receive"]
  <2>1. /\ to \in InCall /\ to.sock = call[m].sock /\ to.key = call[m].key
        /\ to.pc = "receive" /\ call' = [call EXCEPT ![m] = to]
    BY <1>1, <1>5 DEF InCall, Receiving
  <2> HIDE DEF to
  <2>2. call'[m] = to /\ result' \in [Mounts -> Answers \cup {Idle, Garbage}]
    BY <1>5, <2>1 DEF ZInv, Typed
  <2>3. Answering(m)'
    <3>1. Answering(m) /\ Holds(m) /\ call[m].sock \in Conns \cup {None}
      BY <1>1 DEF ZInv, InCall
    <3>2. UNCHANGED <<conn, crashed>>
      BY <1>3 DEF network, server
    <3>3. call[m].sock # None =>
            conn[call[m].sock].req = <<>> /\ conn[call[m].sock].ans = <<>>
      BY <1>2, <3>1 DEF Holds
    <3>4. QED
      BY <1>1, <2>1, <2>2, <3>1, <3>2, <3>3 DEF Answering
  <2>4. QED
    BY <1>2, <1>3, <1>5, <2>1, <2>2, <2>3, CallChanges
<1>6. QED
  BY <1>4, <1>5 DEF SendFails

\* Nothing waits for a call whose connection has gone.
LEMMA BrokenFacts ==
    ASSUME ZInv, NEW m \in Mounts, Broken(m), NEW c \in Conns, conn[c].from = m
    PROVE  conn[c].req = <<>> /\ conn[c].ans = <<>>
<1>1. CASE call[m].sock = c
  <2>1. c # None
    BY StoreAssumption
  <2>2. QED
    BY <1>1, <2>1 DEF Broken, ZInv, DeadUnread
<1>2. QED
  BY <1>1, NothingWaits

LEMMA ReceiveFailsKeeps ==
    ASSUME ZInv, NEW m \in Mounts, ReceiveFails(m)
    PROVE  ZInv'
<1> DEFINE answer == IF call[m].op = "lookup" THEN Answer(-1, NoValue) ELSE Garbage
<1>1. /\ Broken(m) /\ call' = [call EXCEPT ![m] = Idle] /\ found' = [found EXCEPT ![m] = Idle]
      /\ result' = [result EXCEPT ![m] = answer]
      /\ UNCHANGED <<network, server, cache>>
  BY DEF ReceiveFails, Finish
<1>2. Idle.sock = None /\ answer \in Answers \cup {Idle, Garbage}
  BY DEF Idle, Answer, Answers, Vals
<1> HIDE DEF answer
<1>3. \A c \in Conns : conn[c].from = m => conn[c].req = <<>> /\ conn[c].ans = <<>>
  BY <1>1, BrokenFacts
<1>4. Answering(m)'
  BY <1>1, IdleAnswering DEF ZInv, Typed
<1>5. result' \in [Mounts -> Answers \cup {Idle, Garbage}]
  BY <1>1, <1>2 DEF ZInv, Typed
<1>6. QED
  BY <1>1, <1>2, <1>3, <1>4, <1>5, CallChanges

LEMMA ReceiveKeeps ==
    ASSUME ZInv, NEW m \in Mounts, Receive(m)
    PROVE  ZInv'
<1> DEFINE k == call[m].sock
           l == conn[k]
           new == [l EXCEPT !.ans = Tail(@)]
<1>1. call[m] \in InCall /\ conn \in [Conns -> Links] /\ k # None /\ l.ans # <<>>
  BY DEF ZInv, Typed, Receive, Idle
<1>2. k \in Conns /\ conn[k].from = m /\ conn[k].client = "open"
  BY <1>1 DEF InCall, ZInv, Holds
<1>3. l \in Links /\ l.ans \in Seq(Answers) /\ Len(l.req) + Len(l.ans) <= 1
  BY <1>1, <1>2 DEF Links, ZInv, Own
<1> HIDE DEF l
<1>4. Tail(l.ans) \in Seq(Answers) /\ Tail(l.ans) = <<>> /\ l.req = <<>>
  <2>1. Len(l.ans) \in Nat /\ Len(l.req) \in Nat /\ Len(l.ans) # 0
    BY <1>1, <1>3, WaitingFacts, EmptySeq
  <2>2. Len(l.ans) = 1 /\ Len(l.req) = 0
    <3>1. \A a, b \in Nat : a + b <= 1 /\ b # 0 => b = 1 /\ a = 0
      OBVIOUS
    <3>2. QED
      BY <1>3, <2>1, <3>1, Zenon
  <2>3. Tail(l.ans) \in Seq(Answers) /\ Len(Tail(l.ans)) = 0
    BY <1>1, <1>3, <2>2, HeadTailProperties
  <2>4. l.req \in Seq(Packages)
    BY <1>3 DEF Links
  <2>5. QED
    BY <2>2, <2>3, <2>4, EmptySeq
<1>5. /\ new \in Links /\ new.from = l.from /\ new.to = l.to /\ new.client = l.client
      /\ new.server = l.server /\ new.req = <<>> /\ new.ans = <<>>
  BY <1>3, <1>4 DEF Links
<1>6. conn' = [conn EXCEPT ![k] = new]
  BY DEF Receive, l
<1> HIDE DEF new, k
<1>7. /\ conn' \in [Conns -> Links] /\ conn'[k] = new
      /\ \A d \in Conns \ {k} : conn'[d] = conn[d]
  BY <1>1, <1>2, <1>5, <1>6
<1>8. /\ call' = [call EXCEPT ![m] = Idle] /\ found' = [found EXCEPT ![m] = Idle]
      /\ result' = [result EXCEPT ![m] = Head(l.ans)]
      /\ UNCHANGED <<edge, server, cache>>
  BY DEF Receive, Finish, l, k
<1>9. /\ call'[m] = Idle /\ found'[m] = Idle
      /\ \A n \in Mounts \ {m} : call'[n] = call[n] /\ found'[n] = found[n]
  BY <1>8 DEF ZInv, Typed
<1>10. Typed'
  <2>1. Head(l.ans) \in Answers
    BY <1>1, <1>3, HeadTailProperties
  <2>2. QED
    BY <1>7, <1>8, <2>1 DEF ZInv, Typed, server
<1>11. DeadUnread'
  BY <1>5, <1>7 DEF ZInv, DeadUnread
<1>12. \A c \in Conns : Kept(c) /\ Touches(m, c)
  BY <1>2, <1>5, <1>7 DEF Kept, Touches, l
<1>13. Cached(m)'
  BY <1>8, <1>12, StillCached
<1>14. Own(m)'
  <2>1. ASSUME NEW c \in Conns, conn'[c].from = m
        PROVE  conn'[c].req = <<>> /\ conn'[c].ans = <<>>
    <3>1. c # k => conn[c].req = <<>> /\ conn[c].ans = <<>>
      BY <1>12, <2>1, NothingWaits DEF k, Kept
    <3>2. QED
      BY <1>5, <1>7, <3>1
  <2>2. QED
    BY <2>1, EmptyOwn
<1>15. Answering(m)' /\ Holds(m)'
  BY <1>9, IdleAnswering
<1>16. QED
  BY <1>8, <1>9, <1>10, <1>11, <1>12, <1>13, <1>14, <1>15, MountStepKeeps

\* A mount that starts again has closed everything.
LEMMA LookupDiesKeeps ==
    ASSUME ZInv, NEW m \in Mounts, LookupDies(m)
    PROVE  ZInv'
<1> DEFINE mine == {c \in Conns : conn[c].from = m}
<1>1. /\ conn' = ClosedByClient(conn, mine) /\ cache' = [cache EXCEPT ![m] = <<>>]
      /\ call' = [call EXCEPT ![m] = Idle] /\ found' = [found EXCEPT ![m] = Idle]
      /\ result' = [result EXCEPT ![m] = Garbage] /\ Broken(m)
      /\ edge' = Raised(conn, conn') /\ UNCHANGED server
  BY DEF LookupDies, Finish
<1>2. /\ conn' \in [Conns -> Links]
      /\ \A c \in Conns :
           \/ /\ conn'[c] = Free /\ (c \in mine \/ conn[c].client # "open")
              /\ conn[c].server = "dead"
           \/ c \notin mine /\ conn'[c] = conn[c]
           \/ /\ c \in mine /\ conn'[c].client # "open"
              /\ conn'[c].from = conn[c].from /\ conn'[c].to = conn[c].to
              /\ conn'[c].server = conn[c].server
              /\ conn'[c].req = conn[c].req /\ conn'[c].ans = conn[c].ans
  <2> HIDE DEF mine
  <2>1. conn \in [Conns -> Links]
    BY DEF ZInv, Typed
  <2>2. QED
    BY <1>1, <2>1, ClientCloses
<1>3. /\ call'[m] = Idle /\ found'[m] = Idle /\ cache'[m] = <<>> /\ m # None
      /\ \A n \in Mounts \ {m} :
            cache'[n] = cache[n] /\ call'[n] = call[n] /\ found'[n] = found[n]
  BY <1>1, StoreAssumption DEF ZInv, Typed
<1>4. Typed'
  <2>1. <<>> \in Seq(CacheEntries)
    BY EmptySeq
  <2>2. edge' \in [Servers -> SUBSET (Conns \cup {Listener})]
    BY <1>1, RaisedFacts DEF ZInv
  <2>3. QED
    BY <1>1, <1>2, <2>1, <2>2 DEF ZInv, Typed, server
<1>5. DeadUnread'
  BY <1>2, FreeFacts DEF ZInv, DeadUnread
<1>6. \A c \in Conns : Touches(m, c)
  BY <1>2, FreeFacts DEF Touches
<1>7. ASSUME NEW c \in Conns, conn'[c].from = m
      PROVE  conn'[c].client # "open" /\ conn'[c].req = <<>> /\ conn'[c].ans = <<>>
  <2>1. c \in mine /\ conn'[c].client # "open"
        /\ conn'[c].req = conn[c].req /\ conn'[c].ans = conn[c].ans
    BY <1>2, <1>3, <1>7, FreeFacts
  <2>2. QED
    BY <1>1, <2>1, BrokenFacts
<1>8. Cached(m)'
  <2>1. DOMAIN cache'[m] = {} /\ Len(cache'[m]) = 0
    BY <1>3, EmptySeq
  <2>2. 0 <= CacheSize
    BY StoreAssumption
  <2>3. QED
    BY <1>7, <2>1, <2>2 DEF Cached
<1>9. Own(m)'
  BY <1>7, EmptyOwn
<1>10. Answering(m)' /\ Holds(m)'
  BY <1>3, IdleAnswering
<1>11. QED
  BY <1>1, <1>3, <1>4, <1>5, <1>6, <1>8, <1>9, <1>10, MountStepKeeps

\* LRUCache::fetch changes the order of the entries and nothing else.
LEMMA TouchedFacts ==
    ASSUME NEW m, cache[m] \in Seq(CacheEntries), NEW i \in DOMAIN cache[m]
    PROVE  LET s == cache[m]
               t == Touched(m, i)
           IN  /\ t \in Seq(CacheEntries) /\ Len(t) = Len(s)
               /\ \A j \in DOMAIN t : \E k \in DOMAIN s : t[j] = s[k]
               /\ \A k \in DOMAIN s : \E j \in DOMAIN t : t[j] = s[k]
               /\ (\A a, b \in DOMAIN s : s[a].host = s[b].host => a = b) =>
                     \A a, b \in DOMAIN t : t[a].host = t[b].host => a = b
<1> DEFINE s == cache[m]
           t == Touched(m, i)
           n == Len(s)
           u == SubSeq(s, 1, i - 1)
           w == SubSeq(s, i + 1, n)
<1>1. n \in Nat /\ i \in 1..n /\ DOMAIN s = 1..n /\ \A k \in 1..n : s[k] \in CacheEntries
  BY EntryFacts, LenProperties
<1> HIDE DEF n
<1>2. /\ u \in Seq(CacheEntries) /\ Len(u) = i - 1
      /\ \A k \in 1..(i - 1) : u[k] = s[k]
  <2>1. /\ 1 \in Int /\ i - 1 \in Int
        /\ \A k \in 1..(i - 1) : s[k] \in CacheEntries
        /\ (IF 1 <= i - 1 THEN (i - 1) - 1 + 1 ELSE 0) = i - 1
    BY <1>1
  <2>2. /\ u \in Seq(CacheEntries)
        /\ Len(u) = IF 1 <= i - 1 THEN (i - 1) - 1 + 1 ELSE 0
        /\ \A k \in 1..((i - 1) - 1 + 1) : u[k] = s[1 + k - 1]
    BY <2>1, SubSeqProperties
  <2> HIDE DEF u, t
  <2>3. QED
    BY <1>1, <2>1, <2>2
<1>3. /\ w \in Seq(CacheEntries) /\ Len(w) = n - i
      /\ \A k \in 1..(n - i) : w[k] = s[i + k]
  <2>1. /\ i + 1 \in Int /\ n \in Int
        /\ \A k \in (i + 1)..n : s[k] \in CacheEntries
        /\ (IF i + 1 <= n THEN n - (i + 1) + 1 ELSE 0) = n - i
    BY <1>1
  <2> HIDE DEF s, t, u
  <2>2. /\ w \in Seq(CacheEntries)
        /\ Len(w) = IF i + 1 <= n THEN n - (i + 1) + 1 ELSE 0
        /\ \A k \in 1..(n - (i + 1) + 1) : w[k] = s[(i + 1) + k - 1]
    BY <2>1, SubSeqProperties, SMTT(30)
  <2> HIDE DEF w
  <2>3. n - (i + 1) + 1 = n - i
    BY <1>1
  <2>4. ASSUME NEW k \in 1..(n - i) PROVE (i + 1) + k - 1 = i + k
    BY <1>1
  <2>5. QED
    BY <2>1, <2>2, <2>3, <2>4
<1>4. t = <<s[i]>> \o (u \o w)
  BY DEF Touched, RemoveAt, n
<1> HIDE DEF t, u, w, s
<1>5. /\ u \o w \in Seq(CacheEntries) /\ Len(u \o w) = n - 1
      /\ \A k \in 1..(n - 1) : (u \o w)[k] = IF k < i THEN s[k] ELSE s[k + 1]
  <2>1. /\ u \o w \in Seq(CacheEntries) /\ Len(u \o w) = Len(u) + Len(w)
        /\ \A k \in 1..(Len(u) + Len(w)) :
              (u \o w)[k] = IF k <= Len(u) THEN u[k] ELSE w[k - Len(u)]
    BY <1>2, <1>3, ConcatProperties
  <2>2. Len(u) + Len(w) = n - 1
    BY <1>1, <1>2, <1>3
  <2>3. ASSUME NEW k \in 1..(n - 1)
        PROVE  (u \o w)[k] = IF k < i THEN s[k] ELSE s[k + 1]
    <3>1. CASE k < i
      BY <1>1, <1>2, <2>1, <2>2, <3>1
    <3>2. CASE ~(k < i)
      <4>1. (u \o w)[k] = w[k - (i - 1)]
        BY <1>1, <1>2, <2>1, <2>2, <3>2
      <4>2. k - (i - 1) \in 1..(n - i) /\ i + (k - (i - 1)) = k + 1
        BY <1>1, <3>2
      <4>3. QED
        BY <1>3, <3>2, <4>1, <4>2
    <3>3. QED
      BY <3>1, <3>2
  <2>4. QED
    BY <2>1, <2>2, <2>3
<1>6. /\ t \in Seq(CacheEntries) /\ Len(t) = n
      /\ \A j \in 1..n : t[j] = s[IF j = 1 THEN i ELSE IF j <= i THEN j - 1 ELSE j]
  <2> DEFINE x == u \o w
  <2>1. x \in Seq(CacheEntries) /\ Len(x) = n - 1 /\ t = <<s[i]>> \o x /\ s[i] \in CacheEntries
    BY <1>1, <1>4, <1>5
  <2> HIDE DEF x
  <2>2. /\ t \in Seq(CacheEntries) /\ Len(t) = (n - 1) + 1 /\ t[1] = s[i]
        /\ \A j \in 2..((n - 1) + 1) : t[j] = x[j - 1]
    BY <2>1, FrontFacts
  <2>3. ASSUME NEW j \in 1..n, j # 1
        PROVE  t[j] = s[IF j <= i THEN j - 1 ELSE j]
    <3>1. j - 1 \in 1..(n - 1) /\ j \in 2..((n - 1) + 1) /\ t[j] = (u \o w)[j - 1]
      <4>1. j - 1 \in 1..(n - 1) /\ j \in 2..((n - 1) + 1)
        BY <1>1, <2>3
      <4>2. t[j] = x[j - 1]
        BY <2>2, <4>1
      <4>3. QED
        BY <4>1, <4>2, Zenon DEF x
    <3>2. (u \o w)[j - 1] = IF j - 1 < i THEN s[j - 1] ELSE s[j - 1 + 1]
      BY <1>5, <3>1
    <3>3. j - 1 < i <=> j <= i
      BY <1>1
    <3>4. j - 1 + 1 = j
      OBVIOUS
    <3>5. QED
      BY <3>1, <3>2, <3>3, <3>4
  <2>4. (n - 1) + 1 = n
    BY <1>1
  <2>5. QED
    BY <2>2, <2>3, <2>4
<1> DEFINE at(j) == IF j = 1 THEN i ELSE IF j <= i THEN j - 1 ELSE j
<1>7. DOMAIN t = 1..n
  BY <1>6, LenProperties
<1>8. \A j \in 1..n : at(j) \in 1..n /\ t[j] = s[at(j)]
  BY <1>1, <1>6
<1>9. \A a, b \in 1..n : at(a) = at(b) => a = b
  BY <1>1
<1>10. ASSUME NEW k \in 1..n PROVE \E j \in 1..n : at(j) = k
  <2>1. CASE k = i
    <3>1. at(1) = k /\ 1 \in 1..n
      BY <1>1, <2>1
    <3>2. QED
      BY <3>1
  <2>2. CASE k < i
    <3>1. at(k + 1) = k /\ k + 1 \in 1..n
      BY <1>1, <2>2
    <3>2. QED
      BY <3>1
  <2>3. CASE k > i
    <3>1. at(k) = k
      BY <1>1, <2>3
    <3>2. QED
      BY <3>1
  <2>4. QED
    BY <1>1, <2>1, <2>2, <2>3
<1> HIDE DEF at
<1>11. \A k \in 1..n : \E j \in 1..n : t[j] = s[k]
  BY <1>8, <1>10
<1>12. ASSUME \A a, b \in 1..n : s[a].host = s[b].host => a = b,
              NEW a \in 1..n, NEW b \in 1..n, t[a].host = t[b].host
       PROVE  a = b
  BY <1>8, <1>9, <1>12
<1>13. DOMAIN s = 1..n /\ Len(t) = n
  BY <1>1, <1>6
<1>14. QED
  <2>1. t \in Seq(CacheEntries) /\ Len(t) = Len(s)
    BY <1>6 DEF n
  <2>2. \A j \in 1..n : \E k \in 1..n : t[j] = s[k]
    BY <1>8
  <2>3. (\A a, b \in 1..n : s[a].host = s[b].host => a = b) =>
           \A a, b \in 1..n : t[a].host = t[b].host => a = b
    BY <1>12
  <2>4. QED
    BY <1>7, <1>11, <1>13, <2>1, <2>2, <2>3, Zenon DEF s, t

\* LRUCache::insert puts an entry in front and drops what is then too much.
LEMMA InsertedFacts ==
    ASSUME NEW m, cache[m] \in Seq(CacheEntries), Len(cache[m]) <= CacheSize,
           NEW e \in CacheEntries
    PROVE  LET s == cache[m]
               t == Inserted(m, e)
           IN  /\ t \in Seq(CacheEntries) /\ Len(t) \in Nat \ {0} /\ Len(t) <= CacheSize
               /\ t[1] = e /\ Len(t) <= Len(s) + 1
               /\ \A j \in 2..Len(t) : t[j] = s[j - 1]
               /\ \A j \in 1..Len(s) : j <= Len(t) - 1 <=> j < CacheSize
<1> DEFINE s == cache[m]
           t == Inserted(m, e)
           n == Len(s)
           k == Min({CacheSize, n + 1})
           u == <<e>> \o s
<1>1. n \in Nat /\ CacheSize \in Nat \ {0} /\ n <= CacheSize
  BY LenProperties, StoreAssumption
<1>2. k \in {CacheSize, n + 1} /\ k <= CacheSize /\ k <= n + 1
  <2>1. {CacheSize, n + 1} \in SUBSET Nat /\ {CacheSize, n + 1} # {}
    BY <1>1
  <2>2. QED
    BY <2>1, LeastFacts
<1>3. u \in Seq(CacheEntries) /\ Len(u) = n + 1 /\ u[1] = e
      /\ \A j \in 2..(n + 1) : u[j] = s[j - 1]
  <2>1. u = <<e>> \o s
    OBVIOUS
  <2> HIDE DEF u
  <2>2. QED
    BY <2>1, FrontFacts
<1>4. t = SubSeq(u, 1, k)
  BY DEF Inserted
<1> HIDE DEF n, k, u, t, s
<1>5. k \in Nat \ {0}
  BY <1>1, <1>2
<1>6. t \in Seq(CacheEntries) /\ Len(t) = k /\ \A j \in 1..k : t[j] = u[j]
  BY <1>2, <1>3, <1>4, <1>5, PrefixFacts
<1>7. \A j \in 1..n : j <= k - 1 <=> j < CacheSize
  BY <1>1, <1>2
<1>8. t[1] = e /\ \A j \in 2..k : t[j] = s[j - 1]
  <2>1. 1 \in 1..k /\ \A j \in 2..k : j \in 1..k /\ j \in 2..(n + 1)
    BY <1>1, <1>2, <1>5
  <2>2. QED
    BY <1>3, <1>6, <2>1
<1>9. QED
  <2>1. /\ t \in Seq(CacheEntries) /\ Len(t) \in Nat \ {0} /\ Len(t) <= CacheSize
        /\ t[1] = e /\ Len(t) <= n + 1
        /\ \A j \in 2..Len(t) : t[j] = s[j - 1]
        /\ \A j \in 1..n : j <= Len(t) - 1 <=> j < CacheSize
    BY <1>2, <1>5, <1>6, <1>7, <1>8
  <2>2. QED
    BY <2>1, Zenon DEF t, n, s

\* A call on the connection of the cache.
LEMMA CallCachedKeeps ==
    ASSUME ZInv, NEW m \in Mounts, NEW h \in Servers, call[m].pc = "idle",
           NEW i \in Entries(m, h), cache' = [cache EXCEPT ![m] = Touched(m, i)],
           NEW to \in InCall, to.sock = cache[m][i].sock, to.pc = "send",
           Owner[to.key] = h, call' = [call EXCEPT ![m] = to],
           UNCHANGED <<network, server, result, found>>
    PROVE  ZInv'
<1> DEFINE s == cache[m]
           t == Touched(m, i)
<1>1. s \in Seq(CacheEntries) /\ i \in DOMAIN s /\ Cached(m)
  BY DEF Entries, ZInv, Typed
<1> USE DEF network, server
<1>2. /\ t \in Seq(CacheEntries) /\ Len(t) = Len(s)
      /\ \A j \in DOMAIN t : \E k \in DOMAIN s : t[j] = s[k]
      /\ \A k \in DOMAIN s : \E j \in DOMAIN t : t[j] = s[k]
      /\ (\A a, b \in DOMAIN s : s[a].host = s[b].host => a = b) =>
            \A a, b \in DOMAIN t : t[a].host = t[b].host => a = b
  BY <1>1, TouchedFacts
<1> HIDE DEF t
<1>3. /\ cache'[m] = t /\ call'[m] = to
      /\ \A n \in Mounts \ {m} :
            cache'[n] = cache[n] /\ call'[n] = call[n] /\ found'[n] = found[n]
  BY DEF ZInv, Typed, t
<1>4. Typed' /\ DeadUnread'
  BY <1>2 DEF ZInv, Typed, DeadUnread, t
<1>5. \A c \in Conns : Touches(m, c)
  BY DEF Touches
<1>6. Cached(m)'
  <2>1. /\ {c \in Conns : conn[c].from = m /\ conn[c].client = "open"}
             = {s[k].sock : k \in DOMAIN s}
        /\ Len(s) <= CacheSize
        /\ \A k \in DOMAIN s : conn[s[k].sock].to = s[k].host
        /\ \A a, b \in DOMAIN s : s[a].host = s[b].host => a = b
    BY <1>1 DEF Cached
  <2> HIDE DEF s
  <2>2. {s[k].sock : k \in DOMAIN s} = {t[j].sock : j \in DOMAIN t}
    <3>1. ASSUME NEW k \in DOMAIN s PROVE s[k].sock \in {t[j].sock : j \in DOMAIN t}
      <4>1. PICK j \in DOMAIN t : t[j] = s[k]
        BY <1>2
      <4>2. QED
        BY <4>1
    <3>2. ASSUME NEW j \in DOMAIN t PROVE t[j].sock \in {s[k].sock : k \in DOMAIN s}
      <4>1. PICK k \in DOMAIN s : t[j] = s[k]
        BY <1>2
      <4>2. QED
        BY <4>1
    <3>3. QED
      BY <3>1, <3>2
  <2>3. \A j \in DOMAIN t : conn[t[j].sock].to = t[j].host
    BY <1>2, <2>1
  <2>4. /\ {c \in Conns : conn'[c].from = m /\ conn'[c].client = "open"}
             = {t[j].sock : j \in DOMAIN t}
        /\ Len(t) <= CacheSize
        /\ \A j \in DOMAIN t : conn'[t[j].sock].to = t[j].host
        /\ \A a, b \in DOMAIN t : t[a].host = t[b].host => a = b
    BY <1>2, <2>1, <2>2, <2>3
  <2>5. QED
    BY <1>3, <2>4 DEF Cached
<1>7. Own(m)'
  BY NothingWaits, EmptyOwn
<1>8. Holds(m)'
  <2>1. conn[s[i].sock].from = m /\ conn[s[i].sock].client = "open"
    BY <1>1 DEF Cached
  <2>2. QED
    BY <1>3, <2>1 DEF Holds
<1>9. Answering(m)'
  <2>1. /\ s[i].sock \in Conns /\ s[i].host = h
        /\ conn[s[i].sock].from = m /\ conn[s[i].sock].to = s[i].host
    BY <1>1, EntryFacts DEF Cached, Entries
  <2>2. conn[s[i].sock].req = <<>> /\ conn[s[i].sock].ans = <<>> /\ found[m] = Idle
    BY <2>1, NothingWaits DEF ZInv, Answering
  <2>3. /\ call'[m].sock = s[i].sock /\ call'[m].pc = "send" /\ call'[m].key = to.key
        /\ s[i].sock # None
    BY <1>3, <2>1, StoreAssumption
  <2> HIDE DEF s
  <2>4. QED
    BY <2>1, <2>2, <2>3 DEF Answering
<1>10. QED
  BY <1>3, <1>4, <1>5, <1>6, <1>7, <1>8, <1>9, MountStepKeeps

\* A call that connects, and closes the connection the cache gives up for it.
LEMMA CallConnectsKeeps ==
    ASSUME ZInv, NEW m \in Mounts, NEW h \in Servers, call[m].pc = "idle",
           Entries(m, h) = {}, Spare # {},
           conn' = ClosedByClient(Connected(conn, NewConn, m, h), Evicted(m)),
           edge' = Raised(conn, conn'),
           cache' = [cache EXCEPT ![m] = Inserted(m, [host |-> h, sock |-> NewConn])],
           NEW to \in InCall, to.sock = NewConn, to.pc = "send", Owner[to.key] = h,
           call' = [call EXCEPT ![m] = to], UNCHANGED <<server, result, found>>
    PROVE  ZInv'
<1> DEFINE s == cache[m]
           k == NewConn
           cs == Connected(conn, k, m, h)
           t == Inserted(m, [host |-> h, sock |-> k])
           gone == Evicted(m)
<1>1. k \in Conns /\ conn[k] = Free /\ conn \in [Conns -> Links] /\ m # None
  BY NewFacts, StoreAssumption DEF ZInv, Typed
<1>2. s \in Seq(CacheEntries) /\ Cached(m)
  BY DEF ZInv, Typed
<1>3. /\ DOMAIN s = 1..Len(s) /\ Len(s) \in Nat /\ Len(s) <= CacheSize
      /\ \A j \in 1..Len(s) : s[j].sock \in Conns
      /\ \A a, b \in 1..Len(s) : s[a].host = s[b].host => a = b
      /\ \A j \in 1..Len(s) : conn[s[j].sock].to = s[j].host /\ s[j].host # h
      /\ {c \in Conns : conn[c].from = m /\ conn[c].client = "open"}
           = {s[j].sock : j \in 1..Len(s)}
  BY <1>2, LenProperties, EntryFacts DEF Cached, Entries
<1>4. gone = {s[j].sock : j \in {j \in 1..Len(s) : j >= CacheSize}}
  BY <1>3 DEF Evicted
<1>5. /\ t \in Seq(CacheEntries) /\ Len(t) \in Nat \ {0} /\ Len(t) <= CacheSize
      /\ t[1] = [host |-> h, sock |-> k] /\ Len(t) <= Len(s) + 1
      /\ \A j \in 2..Len(t) : t[j] = s[j - 1]
      /\ \A j \in 1..Len(s) : j <= Len(t) - 1 <=> j < CacheSize
  <2> DEFINE e == [host |-> h, sock |-> k]
  <2>1. e \in CacheEntries
    BY <1>1 DEF CacheEntries
  <2> DEFINE x == Inserted(m, e)
  <2>2. /\ x \in Seq(CacheEntries) /\ Len(x) \in Nat \ {0} /\ Len(x) <= CacheSize
        /\ x[1] = e /\ Len(x) <= Len(s) + 1
        /\ \A j \in 2..Len(x) : x[j] = s[j - 1]
        /\ \A j \in 1..Len(s) : j <= Len(x) - 1 <=> j < CacheSize
    <3> HIDE DEF e
    <3>1. QED
      BY <1>2, <1>3, <2>1, InsertedFacts
  <2>3. x = t
    BY DEF e
  <2> HIDE DEF x, t, s
  <2>4. QED
    BY <2>2, <2>3 DEF e
<1>6. /\ cache' = [cache EXCEPT ![m] = t] /\ conn' = ClosedByClient(cs, gone)
      /\ to.sock = k
  OBVIOUS
<1> HIDE DEF t, gone, k
<1>7. /\ cs \in [Conns -> Links]
      /\ \A d \in Conns \ {k} : cs[d] = conn[d]
      /\ cs[k].from = m /\ cs[k].to = h /\ cs[k].client = "open"
      /\ cs[k].server = "backlog" /\ cs[k].req = <<>> /\ cs[k].ans = <<>>
  <2> HIDE DEF cs
  <2>1. cs = Connected(conn, k, m, h)
    BY DEF cs
  <2>2. QED
    BY <1>1, <2>1, ConnectFacts
<1> HIDE DEF cs
<1>8. \A c \in gone : c \in Conns /\ conn[c].from = m
  BY <1>3, <1>4
<1>9. k \notin gone
  BY <1>1, <1>8, FreeFacts
<1>10. /\ conn' \in [Conns -> Links]
       /\ \A c \in Conns :
            \/ /\ conn'[c] = Free /\ (c \in gone \/ cs[c].client # "open")
               /\ cs[c].server = "dead"
            \/ c \notin gone /\ conn'[c] = cs[c]
            \/ /\ c \in gone /\ conn'[c].client # "open"
               /\ conn'[c].from = cs[c].from /\ conn'[c].to = cs[c].to
               /\ conn'[c].server = cs[c].server
               /\ conn'[c].req = cs[c].req /\ conn'[c].ans = cs[c].ans
  BY <1>6, <1>7, ClientCloses
<1>11. conn'[k] = cs[k]
  BY <1>1, <1>7, <1>9, <1>10
<1>12. ASSUME NEW c \in Conns \ {k}
       PROVE  /\ \/ /\ conn'[c] = Free /\ (c \in gone \/ conn[c].client # "open")
                    /\ conn[c].server = "dead"
                    /\ conn'[c].from = None
                    /\ conn'[c].client # "open" /\ conn'[c].server = "none"
                 \/ c \notin gone /\ conn'[c] = conn[c]
                 \/ /\ c \in gone /\ conn'[c].client # "open"
                    /\ conn'[c].from = m /\ conn'[c].to = conn[c].to
                    /\ conn'[c].server = conn[c].server
                    /\ conn'[c].req = conn[c].req /\ conn'[c].ans = conn[c].ans
  BY <1>7, <1>8, <1>10, FreeFacts
<1>13. /\ cache'[m] = t /\ call'[m] = to
       /\ \A n \in Mounts \ {m} :
             cache'[n] = cache[n] /\ call'[n] = call[n] /\ found'[n] = found[n]
  BY <1>6 DEF ZInv, Typed
<1>14. Typed'
  <2>1. edge' \in [Servers -> SUBSET (Conns \cup {Listener})]
    BY RaisedFacts DEF ZInv
  <2>2. QED
    BY <1>5, <1>6, <1>10, <2>1 DEF ZInv, Typed, server
<1>15. DeadUnread'
  <2>1. ASSUME NEW c \in Conns, conn'[c].server = "dead" PROVE conn'[c].req = <<>>
    <3>1. c # k
      BY <1>7, <1>11, <2>1
    <3>2. QED
      BY <1>12, <2>1, <3>1 DEF ZInv, DeadUnread
  <2>2. QED
    BY <2>1 DEF DeadUnread
<1>16. ASSUME NEW c \in Conns PROVE Touches(m, c)
  <2>1. CASE c = k
    BY <1>1, <1>7, <1>11, <2>1, FreeFacts DEF Touches, Fresh
  <2>2. CASE c # k
    BY <1>8, <1>12, <2>2 DEF Touches
  <2>3. QED
    BY <2>1, <2>2
<1> HIDE DEF s
<1>17. Cached(m)'
  <2>1. DOMAIN t = 1..Len(t) /\ Len(t) \in Nat \ {0}
    BY <1>5, LenProperties
  <2>2. ASSUME NEW j \in 2..Len(t)
        PROVE  /\ j - 1 \in 1..Len(s) /\ j - 1 < CacheSize
               /\ t[j] = s[j - 1] /\ s[j - 1].sock \in Conns
               /\ s[j - 1].sock \notin gone /\ s[j - 1].sock # k
    <3>1. j - 1 \in 1..Len(s) /\ j - 1 <= Len(t) - 1
      BY <1>3, <1>5, <2>2
    <3>2. j - 1 < CacheSize /\ t[j] = s[j - 1] /\ s[j - 1].sock \in Conns
      BY <1>3, <1>5, <3>1
    <3>3. ASSUME NEW i \in 1..Len(s), i >= CacheSize, s[j - 1].sock = s[i].sock
          PROVE  FALSE
      <4>1. s[j - 1].host = s[i].host
        BY <1>3, <3>1, <3>3
      <4>2. j - 1 = i
        BY <1>3, <3>1, <4>1
      <4>3. QED
        BY <3>2, <3>3, <4>2, StoreAssumption
    <3>4. s[j - 1].sock # k
      BY <1>1, <1>3, <3>1, FreeFacts
    <3>5. QED
      BY <1>4, <3>1, <3>2, <3>3, <3>4
  <2>3. ASSUME NEW i \in 1..Len(s), s[i].sock \notin gone
        PROVE  i + 1 \in 2..Len(t) /\ t[i + 1] = s[i]
    <3>1. i < CacheSize
      BY <1>3, <1>4, <2>3, StoreAssumption
    <3>2. i <= Len(t) - 1
      BY <1>5, <3>1
    <3>3. i + 1 \in 2..Len(t) /\ (i + 1) - 1 = i
      BY <2>1, <3>2
    <3>4. t[i + 1] = s[(i + 1) - 1]
      BY <1>5, <3>3
    <3>5. QED
      BY <3>3, <3>4
  <2>4. t[1].sock = k /\ t[1].host = h
    BY <1>5
  <2>5. {t[j].sock : j \in 1..Len(t)} = {k} \cup {t[j].sock : j \in 2..Len(t)}
    <3>1. 1..Len(t) = {1} \cup 2..Len(t)
      BY <2>1
    <3>2. QED
      BY <2>4, <3>1
  <2>6. {t[j].sock : j \in 2..Len(t)} = {s[i].sock : i \in 1..Len(s)} \ gone
    <3>1. ASSUME NEW j \in 2..Len(t)
          PROVE  t[j].sock \in {s[i].sock : i \in 1..Len(s)} \ gone
      BY <2>2
    <3>2. ASSUME NEW i \in 1..Len(s), s[i].sock \notin gone
          PROVE  s[i].sock \in {t[j].sock : j \in 2..Len(t)}
      BY <2>3, <3>2
    <3>3. QED
      BY <3>1, <3>2
  <2>7. ASSUME NEW c \in Conns
        PROVE  conn'[c].from = m /\ conn'[c].client = "open" <=>
                 c = k \/ (conn[c].from = m /\ conn[c].client = "open" /\ c \notin gone)
    <3>1. CASE c = k
      BY <1>7, <1>11, <3>1
    <3>2. CASE c # k
      BY <1>1, <1>12, <3>2
    <3>3. QED
      BY <3>1, <3>2
  <2>8. {c \in Conns : conn'[c].from = m /\ conn'[c].client = "open"}
          = {t[j].sock : j \in 1..Len(t)}
    <3>1. {c \in Conns : conn'[c].from = m /\ conn'[c].client = "open"}
            = {k} \cup ({c \in Conns : conn[c].from = m /\ conn[c].client = "open"} \ gone)
      BY <1>1, <2>7
    <3>2. QED
      BY <1>3, <2>5, <2>6, <3>1
  <2>9. ASSUME NEW j \in 1..Len(t) PROVE conn'[t[j].sock].to = t[j].host
    <3>1. CASE j = 1
      BY <1>7, <1>11, <2>4, <3>1
    <3>2. CASE j # 1
      <4>1. j \in 2..Len(t)
        BY <2>1, <3>2
      <4>2. conn'[t[j].sock] = conn[t[j].sock]
        <5>1. /\ t[j].sock \in Conns \ {k} /\ t[j].sock \notin gone
              /\ t[j].sock \in {s[i].sock : i \in 1..Len(s)}
          BY <2>2, <4>1
        <5>2. conn[t[j].sock].client = "open"
          BY <1>3, <5>1
        <5>3. QED
          BY <1>12, <5>1, <5>2
      <4>3. QED
        BY <1>3, <2>2, <4>1, <4>2
    <3>3. QED
      BY <3>1, <3>2
  <2>10. ASSUME NEW a \in 1..Len(t), NEW b \in 1..Len(t), t[a].host = t[b].host
         PROVE  a = b
    <3>1. \A j \in 2..Len(t) : t[j].host # h
      BY <1>3, <2>2
    <3>2. CASE a = 1 \/ b = 1
      BY <2>1, <2>4, <2>10, <3>1, <3>2
    <3>3. CASE a # 1 /\ b # 1
      <4>1. a \in 2..Len(t) /\ b \in 2..Len(t)
        BY <2>1, <3>3
      <4>2. a - 1 = b - 1
        BY <1>3, <2>2, <2>10, <4>1
      <4>3. QED
        BY <4>1, <4>2
    <3>4. QED
      BY <3>2, <3>3
  <2>11. Len(t) <= CacheSize
    BY <1>5
  <2>12. QED
    BY <1>13, <2>1, <2>8, <2>9, <2>10, <2>11 DEF Cached
<1>18. Own(m)'
  <2>1. ASSUME NEW c \in Conns, conn'[c].from = m
        PROVE  conn'[c].req = <<>> /\ conn'[c].ans = <<>>
    <3>1. CASE c = k
      BY <1>7, <1>11, <3>1
    <3>2. CASE c # k
      <4>1. conn[c].from = m
        BY <1>1, <1>8, <1>12, <2>1, <3>2
      <4>2. conn[c].req = <<>> /\ conn[c].ans = <<>>
        BY <4>1, NothingWaits
      <4>3. QED
        BY <1>1, <1>12, <2>1, <3>2, <4>2
    <3>3. QED
      BY <3>1, <3>2
  <2>2. QED
    BY <2>1, EmptyOwn
<1>19. Holds(m)'
  BY <1>6, <1>7, <1>11, <1>13 DEF Holds
<1>20. Answering(m)'
  <2>1. found[m] = Idle
    BY DEF ZInv, Answering
  <2>2. /\ call'[m].sock = k /\ k # None /\ call'[m].pc = "send"
        /\ Owner[call'[m].key] = h /\ conn'[k].to = h
        /\ conn'[k].req = <<>> /\ conn'[k].ans = <<>>
    BY <1>1, <1>6, <1>7, <1>11, <1>13, StoreAssumption
  <2>3. QED
    BY <2>1, <2>2 DEF Answering
<1>21. QED
  BY <1>13, <1>14, <1>15, <1>16, <1>17, <1>18, <1>19, <1>20, MountStepKeeps

\* A call whose connect fails leaves a descriptor behind and has none.
LEMMA CallFailsKeeps ==
    ASSUME ZInv, NEW m \in Mounts, NEW h \in Servers, call[m].pc = "idle",
           h \notin up, Spare # {}, conn' = Unconnected(conn, NewConn, m, h),
           NEW to \in InCall, to.sock = None, to.pc = "send", Owner[to.key] = h,
           call' = [call EXCEPT ![m] = to],
           UNCHANGED <<edge, cache, server, result, found>>
    PROVE  ZInv'
<1> DEFINE k == NewConn
<1>1. k \in Conns /\ conn[k] = Free /\ conn \in [Conns -> Links] /\ m # None
  BY NewFacts, StoreAssumption DEF ZInv, Typed
<1>2. conn' = Unconnected(conn, k, m, h)
  OBVIOUS
<1> HIDE DEF k
<1>3. /\ conn' \in [Conns -> Links]
      /\ \A d \in Conns \ {k} : conn'[d] = conn[d]
      /\ conn'[k].from = m /\ conn'[k].to = h /\ conn'[k].client = "unconnected"
      /\ conn'[k].server = "dead" /\ conn'[k].req = <<>> /\ conn'[k].ans = <<>>
  BY <1>1, <1>2, FailFacts
<1>4. /\ call'[m] = to
      /\ \A n \in Mounts \ {m} :
            cache'[n] = cache[n] /\ call'[n] = call[n] /\ found'[n] = found[n]
  BY DEF ZInv, Typed
<1>5. Typed'
  BY <1>3 DEF ZInv, Typed, server
<1>6. DeadUnread'
  BY <1>1, <1>3 DEF ZInv, DeadUnread
<1>7. ASSUME NEW c \in Conns PROVE Touches(m, c)
  BY <1>1, <1>3 DEF Touches, Fresh
<1>8. Cached(m)'
  <2>1. \A c \in Conns \ {k} : Kept(c)
    BY <1>3 DEF Kept
  <2>2. QED
    BY <1>1, <1>3, <2>1, FreeFacts, StillCached
<1>9. Own(m)'
  <2>1. ASSUME NEW c \in Conns, conn'[c].from = m
        PROVE  conn'[c].req = <<>> /\ conn'[c].ans = <<>>
    <3>1. CASE c = k
      BY <1>3, <3>1
    <3>2. CASE c # k
      BY <1>3, <2>1, <3>2, NothingWaits
    <3>3. QED
      BY <3>1, <3>2
  <2>2. QED
    BY <2>1, EmptyOwn
<1>10. Holds(m)' /\ Answering(m)'
  <2>1. found[m] = Idle /\ h \in crashed
    BY DEF ZInv, Answering, server
  <2>2. h \in crashed' /\ found'[m] = Idle
    BY <2>1 DEF server
  <2>3. QED
    BY <1>4, <2>2 DEF Holds, Answering
<1>11. QED
  BY <1>4, <1>5, <1>6, <1>7, <1>8, <1>9, <1>10, MountStepKeeps

LEMMA CallKeeps ==
    ASSUME ZInv, NEW m \in Mounts, NEW op \in Ops, NEW k \in Keys, NEW v \in Vals,
           Call(m, op, k, v)
    PROVE  ZInv'
<1> DEFINE h == str2Host(k)
           Begun(sock) == [pc |-> "send", op |-> op, key |-> k, val |-> v, sock |-> sock]
<1>1. h \in Servers /\ call[m].pc = "idle" /\ UNCHANGED <<server, result, found>>
  BY StoreAssumption DEF str2Host, Call
<1>2. \A sock \in Conns \cup {None} :
         /\ Begun(sock) \in InCall /\ Begun(sock).sock = sock
         /\ Begun(sock).pc = "send" /\ Begun(sock).key = k /\ Owner[k] = h
  BY DEF InCall, str2Host
<1>3. CASE \E i \in Entries(m, h) :
             /\ cache' = [cache EXCEPT ![m] = Touched(m, i)]
             /\ call' = [call EXCEPT ![m] = Begun(cache[m][i].sock)]
             /\ UNCHANGED network
  <2>1. PICK i \in Entries(m, h) :
             /\ cache' = [cache EXCEPT ![m] = Touched(m, i)]
             /\ call' = [call EXCEPT ![m] = Begun(cache[m][i].sock)]
             /\ UNCHANGED network
    BY <1>3
  <2>2. cache[m][i].sock \in Conns
    BY EntryFacts DEF Entries, ZInv, Typed
  <2> DEFINE to == Begun(cache[m][i].sock)
  <2>3. /\ to \in InCall /\ to.sock = cache[m][i].sock /\ to.pc = "send"
        /\ Owner[to.key] = h
    BY <1>2, <2>2
  <2>4. call' = [call EXCEPT ![m] = to]
    BY <2>1
  <2>5. UNCHANGED <<network, server, result, found>>
    BY <1>1, <2>1
  <2>6. i \in Entries(m, h) /\ cache' = [cache EXCEPT ![m] = Touched(m, i)]
    BY <2>1
  <2> HIDE DEF Begun, h, to
  <2>7. QED
    BY <1>1, <2>3, <2>4, <2>5, <2>6, CallCachedKeeps
<1>4. CASE /\ Entries(m, h) = {} /\ Spare # {}
           /\ conn' = ClosedByClient(Connected(conn, NewConn, m, h), Evicted(m))
           /\ cache' = [cache EXCEPT ![m] = Inserted(m, [host |-> h, sock |-> NewConn])]
           /\ call' = [call EXCEPT ![m] = Begun(NewConn)]
           /\ edge' = Raised(conn, conn')
  <2>1. NewConn \in Conns
    BY <1>4, NewFacts
  <2> HIDE DEF Begun, h
  <2>2. QED
    BY <1>1, <1>2, <1>4, <2>1, CallConnectsKeeps, ZenonT(40)
<1>5. CASE /\ h \notin up /\ Spare # {} /\ conn' = Unconnected(conn, NewConn, m, h)
           /\ call' = [call EXCEPT ![m] = Begun(None)] /\ UNCHANGED <<edge, cache>>
  <2> HIDE DEF Begun, h
  <2>1. /\ Begun(None) \in InCall /\ Begun(None).sock = None
        /\ Begun(None).pc = "send" /\ Begun(None).key = k /\ Owner[k] = h
    BY <1>2
  <2>2. UNCHANGED <<edge, cache, server, result, found>>
    BY <1>1, <1>5
  <2>3. QED
    BY <1>1, <1>5, <2>1, <2>2, CallFailsKeeps
<1>6. QED
  BY <1>3, <1>4, <1>5 DEF Call

-----------------------------------------------------------------------------
(*****************************************************************************)
(* The theorems.                                                             *)
(*****************************************************************************)
LEMMA ZInit ==
    ASSUME Init
    PROVE  ZInv
<1>1. Typed
  <2>1. <<>> \in Seq(CacheEntries)
    BY EmptySeq
  <2>2. QED
    BY <2>1, FreeFacts DEF Init, Typed, Vals
<1>2. \A c \in Conns : conn[c] = Free
  BY DEF Init
<1>3. DeadUnread
  BY <1>2, FreeFacts DEF DeadUnread
<1>4. ASSUME NEW m \in Mounts PROVE Cached(m) /\ Own(m) /\ Holds(m) /\ Answering(m)
  <2>1. m # None /\ 0 <= CacheSize
    BY StoreAssumption
  <2>2. cache[m] = <<>> /\ DOMAIN cache[m] = {} /\ Len(cache[m]) = 0
    BY EmptySeq DEF Init
  <2>3. Len(<<>>) + Len(<<>>) <= 1
    BY EmptySeq
  <2>4. call[m].pc = "idle" /\ call[m].sock = None /\ found[m] = Idle
    BY DEF Init, Idle
  <2>5. Cached(m)
    BY <1>2, <2>1, <2>2, FreeFacts DEF Cached
  <2>6. Own(m)
    BY <1>2, <2>3, FreeFacts DEF Own
  <2>7. QED
    BY <2>4, <2>5, <2>6 DEF Holds, Answering
<1>5. ASSUME NEW h \in Servers PROVE Linked(h) /\ Events(h)
  <2>1. None \notin Conns
    BY StoreAssumption
  <2>2. QED
    BY <2>1 DEF Init, Linked, Events
<1>6. \A c \in Conns : Ends(c)
  BY <1>2, FreeFacts, StoreAssumption DEF Ends
<1>7. Servers \ up \subseteq crashed
  BY DEF Init
<1>8. QED
  BY <1>1, <1>3, <1>4, <1>5, <1>6, <1>7 DEF ZInv

LEMMA ZNext ==
    ASSUME ZInv, [Next]_zhtvars
    PROVE  ZInv'
<1>1. ASSUME NEW w \in Workload, Call(w[1], w[2], w[3], w[4]) PROVE ZInv'
  <2>1. w[1] \in Mounts /\ w[2] \in Ops /\ w[3] \in Keys /\ w[4] \in Vals
    BY StoreAssumption DEF Ops, Vals
  <2>2. QED
    BY <1>1, <2>1, CallKeeps
<1>2. ASSUME NEW m \in Mounts, MountStep(m) PROVE ZInv'
  BY <1>2, SendPackageKeeps, SendFailsKeeps, ReceiveKeeps, ReceiveFailsKeeps, LookupDiesKeeps
     DEF MountStep
<1>3. ASSUME NEW h \in Servers, ServerStep(h) \/ Crash(h) \/ Start(h) PROVE ZInv'
  <2>1. CASE EpollWait(h)
    BY <2>1, EpollWaitKeeps
  <2>2. CASE Start(h)
    BY <2>2, StartKeeps
  <2>3. CASE Accept(h)
    BY <2>3, AcceptKeeps
  <2>4. CASE dataService(h)
    BY <2>4, DataServiceKeeps
  <2>5. CASE Drained(h)
    BY <2>5, DrainedKeeps
  <2>6. CASE Die(h)
    BY <2>6, DieKeeps
  <2>7. QED
    BY <1>3, <2>1, <2>2, <2>3, <2>4, <2>5, <2>6 DEF ServerStep, Sigpipe, Crash
<1>4. CASE UNCHANGED zhtvars
  <2>1. UNCHANGED <<conn, edge, replicaSock, table, crashed, up, serving, mount, found>>
    BY <1>4 DEF zhtvars, network, server
  <2>2. Typed' /\ \A h \in Servers : Events(h)'
    BY <2>1 DEF ZInv, Typed, Events, mount
  <2>3. QED
    BY <2>1, <2>2, Still DEF ZInv
<1>5. QED
  BY <1>1, <1>2, <1>3, <1>4 DEF Next

\* The invariant holds in every state: the tables, sockets, caches and calls keep
\* their types, and a connection belongs to the mount or server that uses it.
THEOREM Connections == Spec => []ZInv
<1>1. Init => ZInv
  BY ZInit
<1>2. ZInv /\ [Next]_zhtvars => ZInv'
  BY ZNext
<1>3. QED
  BY <1>1, <1>2, PTL DEF Spec

\* The connections a mount has made and not closed are those in its cache, one per
\* member and at most CACHE_SIZE of them: str2SockLRU closes what it evicts, and
\* nothing else. (What a failed connect leaves open is not a connection.)
THEOREM CacheExact == Spec => []ConnectionsCached
<1>1. ZInv => ConnectionsCached
  BY DEF ZInv, Cached, ConnectionsCached
<1>2. QED
  BY <1>1, Connections, PTL

\* As long as the calls of a mount follow one another, the answer a call receives
\* is to the package it sent: nothing is left in the connection of a call that gave
\* up, whatever crashed or was evicted before.
THEOREM OwnAnswers == Spec => []AnswersOwn
<1>1. ZInv => AnswersOwn
  BY DEF ZInv, Own, AnswersOwn
<1>2. QED
  BY <1>1, Connections, PTL

-----------------------------------------------------------------------------
(*****************************************************************************)
(* The refinement of AtomicMap.  A call is invoked when it begins, takes     *)
(* effect when dataService serves its package, and returns when it finishes; *)
(* a member fails when its process dies.                                     *)
(*****************************************************************************)
Map == [k \in Keys |-> table[Owner[k]][k]]
Asked(op, k, v) == [op |-> op, key |-> k, val |-> v]
Pending == [m \in Mounts |-> IF call[m].pc = "idle" THEN Idle
                             ELSE Asked(call[m].op, call[m].key, call[m].val)]

\* What is asked and what is answered is not taken for no call.
LEMMA IdleDiffers ==
    /\ Idle.pc = "idle" /\ Idle.sock = None
    /\ \A op, k, v : Asked(op, k, v) # Idle
    /\ \A a \in Answers : a # Idle
<1>1. DOMAIN Idle = {"pc", "op", "key", "val", "sock"}
  BY DEF Idle
<1>2. \A op, k, v : DOMAIN Asked(op, k, v) = {"op", "key", "val"}
  BY DEF Asked
<1>3. \A a \in Answers : DOMAIN a = {"status", "val"}
  BY DEF Answers
<1>4. "pc" \notin {"op", "key", "val"} /\ "pc" \notin {"status", "val"}
  OBVIOUS
<1>5. Idle.pc = "idle" /\ Idle.sock = None
  BY DEF Idle
<1> HIDE DEF Idle
<1>6. QED
  BY <1>1, <1>2, <1>3, <1>4, <1>5

\* A mount is in a call in AtomicMap as long as it is in one.
LEMMA PendingFacts ==
    ASSUME ZInv, NEW m \in Mounts
    PROVE  /\ call[m].pc = "idle" => Pending[m] = Idle /\ call[m] = Idle
           /\ call[m].pc # "idle" =>
                /\ call[m] \in InCall /\ Pending[m] # Idle
                /\ Pending[m] = Asked(call[m].op, call[m].key, call[m].val)
<1>1. call[m] \in InCall \cup {Idle}
  BY DEF ZInv, Typed
<1>2. call[m] \in InCall => call[m].pc # "idle"
  BY DEF InCall
<1>3. QED
  BY <1>1, <1>2, IdleDiffers DEF Pending

\* The call of one mount changes.
LEMMA PendingChanges ==
    ASSUME ZInv, NEW m \in Mounts, NEW to, call' = [call EXCEPT ![m] = to]
    PROVE  /\ to.pc = "idle" => Pending' = [Pending EXCEPT ![m] = Idle]
           /\ to.pc # "idle" =>
                Pending' = [Pending EXCEPT ![m] = Asked(to.op, to.key, to.val)]
<1> DEFINE asked == IF to.pc = "idle" THEN Idle ELSE Asked(to.op, to.key, to.val)
           view(n) == IF call[n].pc = "idle" THEN Idle
                      ELSE Asked(call[n].op, call[n].key, call[n].val)
<1>1. call'[m] = to /\ \A n \in Mounts \ {m} : call'[n] = call[n]
  BY DEF ZInv, Typed
<1>2. Pending = [n \in Mounts |-> view(n)] /\ Pending' = [n \in Mounts |-> view(n)']
  BY DEF Pending
<1>3. view(m)' = asked
  BY <1>1
<1>4. \A n \in Mounts \ {m} : view(n)' = view(n)
  BY <1>1
<1> HIDE DEF asked, view, Pending
<1>5. Pending' = [Pending EXCEPT ![m] = asked]
  BY <1>2, <1>3, <1>4
<1>6. QED
  BY <1>5 DEF asked

\* A step that leaves calls, tables and crashes alone is none of AtomicMap.
LEMMA MapStutters ==
    ASSUME Map' = Map, Pending' = Pending, UNCHANGED <<found, result, crashed>>
    PROVE  UNCHANGED ZhtMap!mvars
BY DEF ZhtMap!mvars, Map, Pending, Asked

\* A call finishes with what it has found, or its member has crashed.
LEMMA Returns ==
    ASSUME ZInv, NEW m \in Mounts, call[m].pc # "idle", NEW answer, Finish(m, answer),
           UNCHANGED <<table, crashed>>,
           \/ found[m] # Idle /\ answer = found[m]
           \/ Owner[call[m].key] \in crashed
    PROVE  ZhtMap!Return(m)
<1>1. /\ call' = [call EXCEPT ![m] = Idle] /\ found' = [found EXCEPT ![m] = Idle]
      /\ result' = [result EXCEPT ![m] = answer]
  BY DEF Finish
<1>2. Pending' = [Pending EXCEPT ![m] = Idle]
  BY <1>1, PendingChanges, IdleDiffers
<1>3. Pending[m] # Idle /\ Pending[m] = Asked(call[m].op, call[m].key, call[m].val)
  BY PendingFacts
<1>4. Pending[m].key = call[m].key
  BY <1>3 DEF Asked
<1>5. Map' = Map
  BY DEF Map
<1>6. \/ found[m] # Idle /\ result' = [result EXCEPT ![m] = found[m]]
      \/ /\ Owner[Pending[m].key] \in crashed
         /\ \A n \in Mounts \ {m} : result'[n] = result[n]
  BY <1>1, <1>4 DEF ZInv, Typed
<1> HIDE DEF Idle
<1>7. QED
  BY <1>1, <1>2, <1>3, <1>5, <1>6 DEF ZhtMap!Return, Pending, Map, Asked

\* A call begins.
LEMMA CallInvokes ==
    ASSUME ZInv, NEW m \in Mounts, NEW op \in Ops, NEW k \in Keys, NEW v \in Vals,
           Call(m, op, k, v)
    PROVE  ZhtMap!Invoke(m)
<1>1. PICK sock : call' = [call EXCEPT ![m] =
            [pc |-> "send", op |-> op, key |-> k, val |-> v, sock |-> sock]]
  BY DEF Call
<1> DEFINE to == [pc |-> "send", op |-> op, key |-> k, val |-> v, sock |-> sock]
<1>2. to.pc = "send" /\ to.op = op /\ to.key = k /\ to.val = v
  OBVIOUS
<1>3. call' = [call EXCEPT ![m] = to]
  BY <1>1
<1> HIDE DEF to
<1>4. Pending' = [Pending EXCEPT ![m] = Asked(op, k, v)]
  BY <1>2, <1>3, PendingChanges
<1>5. Pending[m] = Idle
  BY PendingFacts DEF Call
<1>6. Map' = Map /\ UNCHANGED <<found, result, crashed>>
  BY DEF Call, server, Map
<1>7. \E o \in {"insert", "lookup", "remove"}, i \in Keys, u \in Values \cup {NoValue} :
         Pending' = [Pending EXCEPT ![m] = [op |-> o, key |-> i, val |-> u]]
  BY <1>4 DEF Asked, Ops, Vals
<1> HIDE DEF Idle
<1>8. QED
  BY <1>5, <1>6, <1>7 DEF ZhtMap!Invoke, Pending, Map, Asked

\* A call whose connection has no server any more concerns a member that crashed.
LEMMA GoneFacts ==
    ASSUME ZInv, NEW m \in Mounts, call[m].pc # "idle",
           call[m].sock # None => conn[call[m].sock].server = "dead"
    PROVE  Owner[call[m].key] \in crashed
<1>1. Answering(m) /\ Holds(m)
  BY DEF ZInv
<1>2. call[m].sock # None => call[m].sock \in Conns
  BY PendingFacts DEF InCall
<1>3. call[m].sock # None => Ends(call[m].sock)
  BY <1>2 DEF ZInv
<1>4. QED
  BY <1>1, <1>3 DEF Answering, Holds, Ends

\* The steps of a mount in a call.
LEMMA MountSteps ==
    ASSUME ZInv, NEW m \in Mounts, MountStep(m)
    PROVE  ZhtMap!Return(m) \/ UNCHANGED ZhtMap!mvars
<1>1. CASE SendPackage(m) \/ (SendFails(m) /\ Receiving(m) /\ UNCHANGED <<result, found>>)
  <2>1. /\ call' = [call EXCEPT ![m].pc = "receive"] /\ call[m].pc = "send"
        /\ UNCHANGED <<table, crashed, found, result>>
    BY <1>1 DEF SendPackage, SendFails, Receiving, server
  <2> DEFINE to == [call[m] EXCEPT !.pc = "receive"]
  <2>2. call[m] \in InCall /\ Pending[m] = Asked(call[m].op, call[m].key, call[m].val)
    BY <2>1, PendingFacts
  <2>3. /\ call' = [call EXCEPT ![m] = to] /\ to.pc = "receive" /\ to.op = call[m].op
        /\ to.key = call[m].key /\ to.val = call[m].val
    BY <2>1, <2>2 DEF InCall
  <2> HIDE DEF to
  <2>4. Pending' = [Pending EXCEPT ![m] = Pending[m]]
    <3>1. Asked(to.op, to.key, to.val) = Pending[m] /\ to.pc # "idle"
      BY <2>2, <2>3
    <3>2. Pending' = [Pending EXCEPT ![m] = Asked(to.op, to.key, to.val)]
      BY <2>3, <3>1, PendingChanges
    <3>3. QED
      BY <3>1, <3>2
  <2>5. Pending' = Pending
    BY <2>4 DEF Pending
  <2>6. Map' = Map
    BY <2>1 DEF Map
  <2>7. QED
    BY <2>1, <2>5, <2>6, MapStutters
<1>2. CASE SendFails(m) /\ Finish(m, Answer(-1, NoValue))
  <2>1. /\ call[m].pc # "idle" /\ UNCHANGED <<table, crashed>>
        /\ call[m].sock # None => conn[call[m].sock].server = "dead"
    BY <1>2 DEF SendFails, Sendable, server
  <2>2. Owner[call[m].key] \in crashed
    BY <2>1, GoneFacts
  <2>3. QED
    BY <1>2, <2>1, <2>2, Returns
<1>3. CASE Receive(m)
  <2> DEFINE k == call[m].sock
  <2>1. /\ call[m].pc = "receive" /\ k # None /\ conn[k].ans # <<>>
        /\ Finish(m, Head(conn[k].ans)) /\ UNCHANGED <<table, crashed>>
    BY <1>3 DEF Receive, server
  <2>2. call[m] \in InCall /\ k \in Conns /\ conn[k].ans \in Seq(Answers)
    <3>1. call[m] \in InCall /\ k \in Conns
      BY <2>1, PendingFacts DEF InCall
    <3>2. QED
      BY <3>1 DEF ZInv, Typed, Links
  <2>3. Head(conn[k].ans) = conn[k].ans[1] /\ Head(conn[k].ans) \in Answers
    BY <2>1, <2>2, HeadTailProperties
  <2>4. conn[k].ans[1] = found[m]
    BY <2>1 DEF ZInv, Answering
  <2>5. found[m] # Idle
    BY <2>3, <2>4, IdleDiffers
  <2>6. QED
    BY <2>1, <2>3, <2>4, <2>5, Returns
<1>4. CASE ReceiveFails(m) \/ LookupDies(m)
  <2>1. /\ Broken(m) /\ UNCHANGED <<table, crashed>>
        /\ \E answer : Finish(m, answer)
    BY <1>4 DEF ReceiveFails, LookupDies, server
  <2>2. call[m].pc # "idle" /\ Owner[call[m].key] \in crashed
    BY <2>1, GoneFacts DEF Broken
  <2>3. QED
    BY <2>1, <2>2, Returns
<1>5. QED
  BY <1>1, <1>2, <1>3, <1>4 DEF MountStep, SendFails

\* A package is served: the call of its mount takes effect.  What comes from
\* another server, for the replica, concerns no key of the map.
LEMMA ServiceTakes ==
    ASSUME ZInv, NEW h \in Servers, dataService(h)
    PROVE  [ZhtMap!MNext]_ZhtMap!mvars
<1> DEFINE c == serving[h]
           n == conn[c].from
<1>1. c \in Conns /\ conn[c].req # <<>> /\ UNCHANGED <<crashed, mount>>
  BY ServiceFacts
<1>2. PICK p \in Packages, a \in Answers :
         /\ a = Served(table[h], p).ans
         /\ table' = [table EXCEPT ![h] = Served(table[h], p).tab]
         /\ found' = [m \in Mounts |-> IF m = p.from THEN a ELSE found[m]]
         /\ n \in Mounts => p = Package(n)
         /\ n \in Servers => p.from \in Servers
  BY ServiceFacts
<1>3. /\ n \in Mounts \cup Servers
      /\ n \in Mounts => /\ call[n] \in InCall /\ call[n].pc = "receive"
                         /\ Owner[call[n].key] = h /\ found[n] = Idle
      /\ n \in Servers => h = Replica
  BY <1>1, AskedFacts
<1>4. /\ Pending' = Pending /\ UNCHANGED <<result, crashed>>
      /\ found \in [Mounts -> Answers \cup {Idle}]
      /\ table \in [Servers -> [Keys -> Vals]]
  BY <1>1 DEF mount, Pending, ZInv, Typed
<1> HIDE DEF n, c
<1>5. CASE n \in Servers
  <2>1. found' = found
    BY <1>2, <1>4, <1>5, StoreAssumption
  <2>2. \A k \in Keys : Owner[k] \in Servers /\ Owner[k] # h
    BY <1>3, <1>5, StoreAssumption
  <2>3. Map' = Map
    BY <1>2, <1>4, <2>2 DEF Map
  <2>4. QED
    BY <1>4, <2>1, <2>3, MapStutters
<1>6. ASSUME NEW m \in Mounts, n = m
      PROVE  [ZhtMap!MNext]_ZhtMap!mvars
  <2> DEFINE k == call[m].key
             t == table[h]
  <2>1. p.op = call[m].op /\ p.key = k /\ p.val = call[m].val /\ p.from = m /\ k \in Keys
        /\ call[m].op \in Ops /\ call[m].val \in Vals
    BY <1>2, <1>3, <1>6 DEF Package, InCall
  <2>2. found' = [found EXCEPT ![m] = a]
    BY <1>2, <1>4, <2>1
  <2>3. Pending[m] # Idle /\ Pending[m] = Asked(call[m].op, k, call[m].val) /\ found[m] = Idle
    BY <1>3, <1>6, PendingFacts
  <2>4. Map[k] = t[k] /\ t \in [Keys -> Vals]
    BY <1>3, <1>4, <1>6, <2>1 DEF Map
  <2>5. ASSUME call[m].op = "lookup"
       PROVE  ZhtMap!TakeEffect(m)
    <3>1. a = Answer(IF t[k] = NoValue THEN -2 ELSE 0, t[k])
          /\ Served(t, p).tab = t
      BY <1>2, <2>1, <2>5 DEF Served, HB_lookup
    <3>2. Map' = Map
      BY <1>2, <1>4, <3>1 DEF Map
    <3>3. QED
      <4> HIDE DEF t, k
      <4>1. found' = [found EXCEPT ![m] =
                        [status |-> IF Map[k] = NoValue THEN -2 ELSE 0, val |-> Map[k]]]
        BY <2>2, <2>4, <3>1 DEF Answer
      <4>2. Pending[m].key = k /\ Pending[m].op = "lookup"
        BY <2>3, <2>5 DEF Asked
      <4> HIDE DEF Idle
      <4>3. QED
        BY <1>4, <2>3, <3>2, <4>1, <4>2
           DEF ZhtMap!TakeEffect, ZhtMap!Answer, Pending, Map, Asked
  <2>6. ASSUME call[m].op = "insert"
       PROVE  ZhtMap!TakeEffect(m)
    <3>1. a = Answer(0, NoValue) /\ Served(t, p).tab = [t EXCEPT ![k] = call[m].val]
      BY <1>2, <2>1, <2>6 DEF Served
    <3>2. Map' = [Map EXCEPT ![k] = call[m].val]
      BY <1>2, <1>3, <1>4, <1>6, <2>1, <2>4, <3>1, StoreAssumption DEF Map
    <3>3. QED
      <4> HIDE DEF t, k
      <4>1. found' = [found EXCEPT ![m] = [status |-> 0, val |-> NoValue]]
        BY <2>2, <3>1 DEF Answer
      <4>2. Pending[m].key = k /\ Pending[m].op = "insert" /\ Pending[m].val = call[m].val
        BY <2>3, <2>6 DEF Asked
      <4> HIDE DEF Idle
      <4>3. QED
        BY <1>4, <2>3, <3>2, <4>1, <4>2
           DEF ZhtMap!TakeEffect, ZhtMap!Answer, Pending, Map, Asked
  <2>7. ASSUME call[m].op = "remove"
       PROVE  ZhtMap!TakeEffect(m)
    <3>1. a = Answer(IF t[k] = NoValue THEN -2 ELSE 0, NoValue)
          /\ Served(t, p).tab = [t EXCEPT ![k] = NoValue]
      BY <1>2, <2>1, <2>7 DEF Served, HB_remove
    <3>2. Map' = [Map EXCEPT ![k] = NoValue]
      BY <1>2, <1>3, <1>4, <1>6, <2>1, <2>4, <3>1, StoreAssumption DEF Map
    <3>3. QED
      <4> HIDE DEF t, k
      <4>1. found' = [found EXCEPT ![m] =
                        [status |-> IF Map[k] = NoValue THEN -2 ELSE 0, val |-> NoValue]]
        BY <2>2, <2>4, <3>1 DEF Answer
      <4>2. Pending[m].key = k /\ Pending[m].op = "remove"
        BY <2>3, <2>7 DEF Asked
      <4> HIDE DEF Idle
      <4>3. QED
        BY <1>4, <2>3, <3>2, <4>1, <4>2
           DEF ZhtMap!TakeEffect, ZhtMap!Answer, Pending, Map, Asked
  <2>8. ZhtMap!TakeEffect(m)
    BY <2>1, <2>5, <2>6, <2>7 DEF Ops
  <2>9. QED
    BY <1>6, <2>8 DEF ZhtMap!MNext
<1>7. QED
  BY <1>3, <1>5, <1>6

\* A member fails.
LEMMA DieFails ==
    ASSUME ZInv, NEW h \in Servers, Die(h)
    PROVE  ZhtMap!Fail(h)
<1>1. /\ crashed' = crashed \cup {h} /\ UNCHANGED <<mount, found>>
      /\ table' = [table EXCEPT ![h] = [k \in Keys |-> NoValue]]
  BY DEF Die
<1>2. Pending' = Pending /\ UNCHANGED <<found, result>>
  BY <1>1 DEF mount, Pending
<1>3. Map' = [k \in Keys |-> IF Owner[k] = h THEN NoValue ELSE Map[k]]
  BY <1>1, StoreAssumption DEF Map, ZInv, Typed
<1>4. QED
  BY <1>1, <1>2, <1>3 DEF ZhtMap!Fail, Pending, Map, Asked

\* Every step is one of AtomicMap, or none.
LEMMA MapStep ==
    ASSUME ZInv, [Next]_zhtvars
    PROVE  [ZhtMap!MNext]_ZhtMap!mvars
<1> USE DEF ZhtMap!MNext
<1>1. ASSUME NEW w \in Workload, Call(w[1], w[2], w[3], w[4])
      PROVE  [ZhtMap!MNext]_ZhtMap!mvars
  <2>1. w[1] \in Mounts /\ w[2] \in Ops /\ w[3] \in Keys /\ w[4] \in Vals
    BY StoreAssumption DEF Ops, Vals
  <2>2. ZhtMap!Invoke(w[1])
    BY <1>1, <2>1, CallInvokes
  <2>3. QED
    BY <2>1, <2>2
<1>2. ASSUME NEW m \in Mounts, MountStep(m)
      PROVE  [ZhtMap!MNext]_ZhtMap!mvars
  BY <1>2, MountSteps
<1>3. ASSUME NEW h \in Servers, ServerStep(h) \/ Crash(h) \/ Start(h)
      PROVE  [ZhtMap!MNext]_ZhtMap!mvars
  <2>1. CASE dataService(h)
    BY <2>1, ServiceTakes
  <2>2. CASE Die(h)
    BY <2>2, DieFails
  <2>3. CASE EpollWait(h) \/ Accept(h) \/ Drained(h) \/ Start(h)
    <3>1. UNCHANGED <<table, crashed, mount, found>>
      BY <2>3 DEF EpollWait, Accept, Drained, Start, server
    <3>2. Map' = Map /\ Pending' = Pending /\ UNCHANGED <<found, result, crashed>>
      BY <3>1 DEF Map, Pending, mount
    <3>3. QED
      BY <3>2, MapStutters
  <2>4. QED
    BY <1>3, <2>1, <2>2, <2>3 DEF ServerStep, Sigpipe, Crash
<1>4. CASE UNCHANGED zhtvars
  <2>1. Map' = Map /\ Pending' = Pending /\ UNCHANGED <<found, result, crashed>>
    BY <1>4 DEF zhtvars, Map, Pending, mount, server
  <2>2. QED
    BY <2>1, MapStutters
<1>5. QED
  BY <1>1, <1>2, <1>3, <1>4 DEF Next

\* ZHT starts as the map does.
LEMMA MapInit ==
    ASSUME Init
    PROVE  ZhtMap!MInit
<1>1. /\ table = [h \in Servers |-> [k \in Keys |-> NoValue]]
      /\ call = [m \in Mounts |-> Idle] /\ crashed = {}
      /\ result = [m \in Mounts |-> Idle] /\ found = [m \in Mounts |-> Idle]
  BY DEF Init
<1>2. Map = [k \in Keys |-> NoValue]
  BY <1>1, StoreAssumption DEF Map
<1>3. Pending = [m \in Mounts |-> Idle]
  BY <1>1, IdleDiffers DEF Pending
<1> HIDE DEF Idle
<1>4. QED
  BY <1>1, <1>2, <1>3 DEF ZhtMap!MInit, Map, Pending, Asked

\* As long as the calls of a mount follow one another ZHT implements AtomicMap:
\* insert, lookup and remove take effect once, in one order for all mounts, and
\* return what they found, whatever is evicted, sent
\* again to a closed connection, replicated or crashes; only the entries of a
\* member that crashed are lost, and only calls on its keys return otherwise.
THEOREM MapKept == Spec => ImplementsMap
<1>1. Init => ZhtMap!MInit
  BY MapInit
<1>2. ZInv /\ [Next]_zhtvars => [ZhtMap!MNext]_ZhtMap!mvars
  BY MapStep
<1>3. QED
  BY <1>1, <1>2, Connections, PTL DEF Spec, ImplementsMap, ZhtMap!MSpec

-----------------------------------------------------------------------------
(*****************************************************************************)
(* NoVoHT: the table of a server and its log, for any keys, values, hash and *)
(* sizes. What counts is the set of pairs a table stores (Stored): a resize  *)
(* leaves it alone, put and remove change the pair of one key, and writing   *)
(* the file again only gives the pairs new positions.                        *)
(*****************************************************************************)
TablePairs == [key : Keys, val : Values, pos : Nat \ {0}]
Records == [key : Keys, val : Values, live : BOOLEAN]
Chainings == UNION {[0..n - 1 -> Seq(TablePairs)] : n \in Nat}
Tables == [chain : Chainings, size : Nat \ {0}, numEl : Int, nRem : Int]

\* The chains are in order: a pair is in the chain of its key, which has no
\* other with this key.
Ordered(t) ==
    /\ t \in Tables
    /\ t.chain \in [0..t.size - 1 -> Seq(TablePairs)]
    /\ \A s \in 0..t.size - 1 : \A i, j \in 1..Len(t.chain[s]) :
          /\ Slot(t.chain[s][i].key, t.size) = s
          /\ t.chain[s][i].key = t.chain[s][j].key => i = j

\* The pairs the table stores.
Stored(t) == {PairAt(t, p) : p \in Standing(t)}

\* The numbers that order the places up to p.
Below(S, p) == {q \in S : q = p \/ Precedes(q, p)}

LEMMA PrecedesFacts ==
    ASSUME NEW p \in Nat \X Nat, NEW q \in Nat \X Nat, NEW x \in Nat \X Nat
    PROVE  /\ ~Precedes(p, p)
           /\ Precedes(p, q) => ~Precedes(q, p) /\ p # q
           /\ Precedes(p, q) /\ Precedes(q, x) => Precedes(p, x)
           /\ p # q => Precedes(p, q) \/ Precedes(q, p)
  BY DEF Precedes

\* A sequence of n that has each of S once.
Visits(q, n, S) ==
    /\ n \in Nat /\ q \in [1..n -> S]
    /\ \A i, j \in 1..n : q[i] = q[j] => i = j
    /\ \A p \in S : \E i \in 1..n : q[i] = p

\* A walk visits each of a finite set of places once.
LEMMA InOrderWalks ==
    ASSUME NEW S \in SUBSET (Nat \X Nat), IsFiniteSet(S)
    PROVE  Visits(InOrder(S), Cardinality(S), S)
<1> DEFINE n == Cardinality(S)
           rank == [p \in S |-> Cardinality(Below(S, p))]
<1>1. n \in Nat
  BY FS_CardinalityType
<1>2. ASSUME NEW p \in S
      PROVE  IsFiniteSet(Below(S, p)) /\ rank[p] \in 1..n /\ rank[p] = Cardinality(Below(S, p))
  <2>1. Below(S, p) \in SUBSET S /\ p \in Below(S, p)
    BY DEF Below
  <2>2. IsFiniteSet(Below(S, p)) /\ Cardinality(Below(S, p)) <= n
    BY <2>1, FS_Subset
  <2>3. Cardinality(Below(S, p)) \in Nat /\ Cardinality(Below(S, p)) # 0
    BY <2>1, <2>2, FS_CardinalityType, FS_EmptySet
  <2>4. QED
    BY <1>1, <2>2, <2>3
<1>3. ASSUME NEW p \in S, NEW q \in S, Precedes(p, q)
      PROVE  rank[p] < rank[q]
  <2>1. Below(S, p) \in SUBSET Below(S, q)
    BY <1>3, PrecedesFacts DEF Below
  <2>2. q \in Below(S, q) /\ q \notin Below(S, p)
    BY <1>3, PrecedesFacts DEF Below
  <2>3. Cardinality(Below(S, p)) <= Cardinality(Below(S, q))
        /\ Cardinality(Below(S, p)) # Cardinality(Below(S, q))
    BY <1>2, <2>1, <2>2, FS_Subset
  <2>4. QED
    BY <1>1, <1>2, <2>3
<1>4. rank \in Injection(S, 1..n)
  <2>1. rank \in [S -> 1..n]
    BY <1>2
  <2>2. \A p, q \in S : rank[p] = rank[q] => p = q
    BY <1>1, <1>2, <1>3, PrecedesFacts
  <2>3. QED
    BY <2>1, <2>2 DEF Injection, IsInjective
<1>5. rank \in Surjection(S, 1..n)
  <2>1. IsFiniteSet(1..n) /\ Cardinality(1..n) = n
    BY <1>1, FS_Interval
  <2>2. QED
    BY <1>4, <2>1, FS_Injection
<1>6. PICK q \in [1..n -> S] : \A i \in 1..n : rank[q[i]] = i
  <2>1. \A i \in 1..n : \E p \in S : rank[p] = i
    BY <1>5 DEF Surjection
  <2>2. [i \in 1..n |-> CHOOSE p \in S : rank[p] = i] \in [1..n -> S]
        /\ \A i \in 1..n : rank[CHOOSE p \in S : rank[p] = i] = i
    BY <2>1
  <2>3. QED
    BY <2>2
<1> HIDE DEF rank
<1>7. \A i, j \in DOMAIN q : i < j => Precedes(q[i], q[j])
  BY <1>1, <1>2, <1>3, <1>6, PrecedesFacts, SMTT(30)
<1>8. /\ InOrder(S) \in [1..n -> S]
      /\ \A i, j \in DOMAIN InOrder(S) : i < j => Precedes(InOrder(S)[i], InOrder(S)[j])
  <2>1. \E y \in [1..n -> S] : \A i, j \in DOMAIN y : i < j => Precedes(y[i], y[j])
    BY <1>7
  <2>2. QED
    BY <2>1 DEF InOrder
<1>9. \A i, j \in 1..n : InOrder(S)[i] = InOrder(S)[j] => i = j
  BY <1>1, <1>8, PrecedesFacts
<1>10. \A p \in S : \E i \in 1..n : InOrder(S)[i] = p
  <2>1. InOrder(S) \in Injection(1..n, S)
    BY <1>8, <1>9 DEF Injection, IsInjective
  <2>2. InOrder(S) \in Surjection(1..n, S)
    <3>1. IsFiniteSet(1..n) /\ Cardinality(1..n) = n
      BY <1>1, FS_Interval
    <3>2. QED
      BY <2>1, <3>1, FS_Injection
  <2>3. QED
    BY <2>2 DEF Surjection
<1>11. QED
  BY <1>1, <1>8, <1>9, <1>10 DEF Visits

\* The places of a table in order.
LEMMA StandingFacts ==
    ASSUME NEW t, Ordered(t)
    PROVE  /\ \A p : p \in Standing(t) <=>
                 \E s \in 0..t.size - 1 : \E i \in 1..Len(t.chain[s]) : p = <<s, i>>
           /\ Standing(t) \in SUBSET (Nat \X Nat)
           /\ IsFiniteSet(Standing(t))
<1>1. t.size \in Nat \ {0}
  BY DEF Ordered, Tables
<1>2. ASSUME NEW s \in 0..t.size - 1
      PROVE  t.chain[s] \in Seq(TablePairs) /\ Len(t.chain[s]) \in Nat
             /\ DOMAIN t.chain[s] = 1..Len(t.chain[s])
  <2>1. t.chain[s] \in Seq(TablePairs)
    BY DEF Ordered, Tables
  <2>2. QED
    BY <2>1, LenProperties
<1>3. \A p : p \in Standing(t) <=>
          \E s \in 0..t.size - 1 : \E i \in 1..Len(t.chain[s]) : p = <<s, i>>
  BY <1>2 DEF Standing
<1>4. Standing(t) \in SUBSET (Nat \X Nat)
  BY <1>1, <1>2, <1>3
<1>5. IsFiniteSet(Standing(t))
  <2> DEFINE f == [s \in 0..t.size - 1 |-> {s} \X DOMAIN t.chain[s]]
             T == {{s} \X DOMAIN t.chain[s] : s \in 0..t.size - 1}
  <2>1. f \in Surjection(0..t.size - 1, T)
    BY DEF Surjection
  <2>2. IsFiniteSet(0..t.size - 1)
    BY <1>1, FS_Interval
  <2>3. IsFiniteSet(T)
    BY <2>1, <2>2, FS_Surjection
  <2>4. ASSUME NEW s \in 0..t.size - 1 PROVE IsFiniteSet({s} \X DOMAIN t.chain[s])
    <3>1. IsFiniteSet({s})
      BY FS_Singleton
    <3>2. Len(t.chain[s]) \in Int /\ 1 \in Int
      BY <1>2
    <3>3. IsFiniteSet(1..Len(t.chain[s]))
      BY <3>2, FS_Interval
    <3>4. QED
      BY <1>2, <3>1, <3>3, FS_Product
  <2>5. \A U \in T : IsFiniteSet(U)
    BY <2>4
  <2> HIDE DEF T
  <2>6. IsFiniteSet(UNION T)
    BY <2>3, <2>5, FS_UNION
  <2>7. QED
    BY <2>6 DEF Standing, T
<1>6. QED
  BY <1>3, <1>4, <1>5

LEMMA StoredFacts ==
    ASSUME NEW t, Ordered(t)
    PROVE  /\ \A x : x \in Stored(t) <=>
                 \E s \in 0..t.size - 1 : \E i \in 1..Len(t.chain[s]) : x = t.chain[s][i]
           /\ Stored(t) \in SUBSET TablePairs
           /\ \A p, q \in Standing(t) : PairAt(t, p).key = PairAt(t, q).key => p = q
           /\ \A x, y \in Stored(t) : x.key = y.key => x = y
<1>1. ASSUME NEW s \in 0..t.size - 1, NEW i \in 1..Len(t.chain[s])
      PROVE  t.chain[s][i] \in TablePairs /\ PairAt(t, <<s, i>>) = t.chain[s][i]
             /\ <<s, i>> \in Standing(t)
  <2>1. t.chain[s] \in Seq(TablePairs)
    BY DEF Ordered, Tables
  <2>2. QED
    BY <2>1, ElementOfSeq, StandingFacts DEF PairAt
<1>2. \A x : x \in Stored(t) <=>
          \E s \in 0..t.size - 1 : \E i \in 1..Len(t.chain[s]) : x = t.chain[s][i]
  <2>1. ASSUME NEW x \in Stored(t)
        PROVE  \E s \in 0..t.size - 1 : \E i \in 1..Len(t.chain[s]) : x = t.chain[s][i]
    <3>1. PICK p \in Standing(t) : x = PairAt(t, p)
      BY DEF Stored
    <3>2. PICK s \in 0..t.size - 1 : \E i \in 1..Len(t.chain[s]) : p = <<s, i>>
      BY StandingFacts
    <3>3. PICK i \in 1..Len(t.chain[s]) : p = <<s, i>>
      BY <3>2
    <3>4. QED
      BY <1>1, <3>1, <3>3
  <2>2. ASSUME NEW s \in 0..t.size - 1, NEW i \in 1..Len(t.chain[s])
        PROVE  t.chain[s][i] \in Stored(t)
    BY <1>1 DEF Stored
  <2>3. QED
    BY <2>1, <2>2
<1>3. Stored(t) \in SUBSET TablePairs
  <2>1. ASSUME NEW x \in Stored(t) PROVE x \in TablePairs
    <3>1. PICK s \in 0..t.size - 1 : \E i \in 1..Len(t.chain[s]) : x = t.chain[s][i]
      BY <1>2
    <3>2. QED
      BY <1>1, <3>1
  <2>2. QED
    BY <2>1
<1>4. ASSUME NEW p \in Standing(t), NEW q \in Standing(t), PairAt(t, p).key = PairAt(t, q).key
      PROVE  p = q
  <2>1. PICK s \in 0..t.size - 1 : \E i \in 1..Len(t.chain[s]) : p = <<s, i>>
    BY StandingFacts
  <2>2. PICK i \in 1..Len(t.chain[s]) : p = <<s, i>>
    BY <2>1
  <2>3. PICK u \in 0..t.size - 1 : \E j \in 1..Len(t.chain[u]) : q = <<u, j>>
    BY StandingFacts
  <2>4. PICK j \in 1..Len(t.chain[u]) : q = <<u, j>>
    BY <2>3
  <2>5. t.chain[s][i].key = t.chain[u][j].key
    BY <1>1, <1>4, <2>2, <2>4
  <2>6. s = u
    BY <2>5 DEF Ordered, Tables
  <2>7. i = j
    BY <2>5, <2>6 DEF Ordered, Tables
  <2>8. QED
    BY <2>6, <2>7, <2>2, <2>4
<1>5. \A x, y \in Stored(t) : x.key = y.key => x = y
  BY <1>4 DEF Stored
<1>6. QED
  BY <1>2, <1>3, <1>4, <1>5

LEMMA SlotFacts ==
    ASSUME NEW k \in Keys, NEW n \in Nat \ {0}
    PROVE  Slot(k, n) \in 0..n - 1
<1>1. Hash[k] \in Nat
  BY TableAssumption
<1>2. QED
  BY <1>1 DEF Slot

\* A chain of a table.
LEMMA ChainFacts ==
    ASSUME NEW t, Ordered(t), NEW s \in 0..t.size - 1
    PROVE  /\ t.size \in Nat \ {0}
           /\ t.chain[s] \in Seq(TablePairs) /\ Len(t.chain[s]) \in Nat
           /\ DOMAIN t.chain[s] = 1..Len(t.chain[s])
           /\ \A i \in 1..Len(t.chain[s]) :
                 /\ t.chain[s][i] \in TablePairs /\ t.chain[s][i] \in Stored(t)
                 /\ Slot(t.chain[s][i].key, t.size) = s
           /\ \A i, j \in 1..Len(t.chain[s]) :
                 t.chain[s][i].key = t.chain[s][j].key => i = j
<1>1. t.size \in Nat \ {0} /\ t.chain[s] \in Seq(TablePairs)
  BY DEF Ordered, Tables
<1>2. Len(t.chain[s]) \in Nat /\ DOMAIN t.chain[s] = 1..Len(t.chain[s])
      /\ \A i \in 1..Len(t.chain[s]) : t.chain[s][i] \in TablePairs
  BY <1>1, LenProperties, ElementOfSeq
<1>3. \A i \in 1..Len(t.chain[s]) : t.chain[s][i] \in Stored(t)
  BY StoredFacts
<1>4. QED
  BY <1>1, <1>2, <1>3 DEF Ordered, Tables

\* What is found under a key.
LEMMA PlacesFacts ==
    ASSUME NEW t, Ordered(t), NEW k \in Keys
    PROVE  LET s == Slot(k, t.size)
               i == Min(Places(t, k))
           IN  /\ s \in 0..t.size - 1
               /\ Places(t, k) = {} => /\ \A x \in Stored(t) : x.key # k
                                       /\ get(t, k) = NoValue
               /\ Places(t, k) # {} => /\ i \in 1..Len(t.chain[s])
                                       /\ t.chain[s][i].key = k
                                       /\ get(t, k) = t.chain[s][i].val
<1> DEFINE s == Slot(k, t.size)
           i == Min(Places(t, k))
<1>1. t.size \in Nat \ {0} /\ s \in 0..t.size - 1
  BY SlotFacts DEF Ordered, Tables
<1>2. /\ Len(t.chain[s]) \in Nat /\ DOMAIN t.chain[s] = 1..Len(t.chain[s])
      /\ \A a, b \in 1..Len(t.chain[s]) : t.chain[s][a].key = t.chain[s][b].key => a = b
  BY <1>1, ChainFacts
<1>3. Places(t, k) = {a \in 1..Len(t.chain[s]) : t.chain[s][a].key = k}
  BY <1>2 DEF Places
<1>4. ASSUME Places(t, k) = {}
      PROVE  (\A x \in Stored(t) : x.key # k) /\ get(t, k) = NoValue
  <2>1. ASSUME NEW x \in Stored(t), x.key = k PROVE FALSE
    <3>1. PICK u \in 0..t.size - 1 : \E a \in 1..Len(t.chain[u]) : x = t.chain[u][a]
      BY StoredFacts
    <3>2. PICK a \in 1..Len(t.chain[u]) : x = t.chain[u][a]
      BY <3>1
    <3>3. u = s
      BY <2>1, <3>2, ChainFacts
    <3>4. QED
      BY <1>3, <1>4, <2>1, <3>2, <3>3
  <2>2. QED
    BY <1>4, <2>1 DEF get
<1>5. ASSUME Places(t, k) # {}
      PROVE  i \in 1..Len(t.chain[s]) /\ t.chain[s][i].key = k
             /\ get(t, k) = t.chain[s][i].val
  <2>1. PICK a \in Places(t, k) : TRUE
    BY <1>5
  <2>2. \A b \in Places(t, k) : a <= b
    BY <1>2, <1>3, <2>1
  <2>3. i \in Places(t, k)
    BY <2>1, <2>2 DEF Min
  <2>4. QED
    BY <1>3, <1>5, <2>3 DEF get
<1>6. QED
  BY <1>1, <1>4, <1>5

\* A table with another chain in place of one.
Rechain(t, s, c) == [t.chain EXCEPT ![s] = c]
Fills(c, s, n) ==
    /\ c \in Seq(TablePairs)
    /\ \A i, j \in 1..Len(c) : /\ Slot(c[i].key, n) = s
                               /\ c[i].key = c[j].key => i = j

LEMMA Rechained ==
    ASSUME NEW t, Ordered(t), NEW s \in 0..t.size - 1, NEW c, Fills(c, s, t.size),
           NEW u, u \in Tables,
           u.size = t.size, u.chain = Rechain(t, s, c)
    PROVE  /\ Ordered(u)
           /\ \A x : x \in Stored(u) <=>
                 \/ \E i \in 1..Len(c) : x = c[i]
                 \/ x \in Stored(t) /\ Slot(x.key, t.size) # s
<1>1. t.chain \in [0..t.size - 1 -> Seq(TablePairs)]
  BY DEF Ordered, Tables
<1>2. /\ u.chain \in [0..u.size - 1 -> Seq(TablePairs)]
      /\ u.chain[s] = c
      /\ \A v \in 0..t.size - 1 : v # s => u.chain[v] = t.chain[v]
  BY <1>1 DEF Rechain, Fills
<1>3. Ordered(u)
  <2>1. ASSUME NEW v \in 0..u.size - 1, NEW i \in 1..Len(u.chain[v]), NEW j \in 1..Len(u.chain[v])
        PROVE  /\ Slot(u.chain[v][i].key, u.size) = v
               /\ u.chain[v][i].key = u.chain[v][j].key => i = j
    <3>1. CASE v = s
      BY <1>2, <3>1 DEF Fills
    <3>2. CASE v # s
      BY <1>2, <3>2, SMTT(30) DEF Ordered, Tables
    <3>3. QED
      BY <3>1, <3>2
  <2>2. QED
    BY <1>2, <2>1 DEF Ordered, Tables
<1>4. ASSUME NEW x \in Stored(u)
      PROVE  \/ \E i \in 1..Len(c) : x = c[i]
             \/ x \in Stored(t) /\ Slot(x.key, t.size) # s
  <2>1. PICK v \in 0..u.size - 1 : \E i \in 1..Len(u.chain[v]) : x = u.chain[v][i]
    BY <1>3, StoredFacts
  <2>2. CASE v = s
    BY <1>2, <2>1, <2>2
  <2>3. CASE v # s
    <3>1. PICK i \in 1..Len(t.chain[v]) : x = t.chain[v][i]
      BY <1>2, <2>1, <2>3
    <3>2. QED
      BY <2>3, <3>1, ChainFacts
  <2>4. QED
    BY <2>2, <2>3
<1>5. ASSUME NEW i \in 1..Len(c) PROVE c[i] \in Stored(u)
  BY <1>2, <1>3, StoredFacts
<1>6. ASSUME NEW x \in Stored(t), Slot(x.key, t.size) # s PROVE x \in Stored(u)
  <2>1. PICK v \in 0..t.size - 1 : \E j \in 1..Len(t.chain[v]) : x = t.chain[v][j]
    BY StoredFacts
  <2>2. PICK j \in 1..Len(t.chain[v]) : x = t.chain[v][j]
    BY <2>1
  <2>3. v # s
    BY <1>6, <2>2, ChainFacts
  <2>4. u.chain[v] = t.chain[v] /\ v \in 0..u.size - 1
    BY <1>2, <2>3
  <2>5. QED
    BY <1>3, <2>2, <2>4, StoredFacts
<1>7. QED
  BY <1>3, <1>4, <1>5, <1>6

LEMMA ReverseVisits ==
    ASSUME NEW S, NEW n, NEW q, Visits(q, n, S)
    PROVE  Visits(Reverse(q), n, S)
<1>1. n \in Nat /\ q \in [1..n -> S] /\ q \in Seq(S) /\ Len(q) = n
  BY DEF Visits
<1>2. Reverse(q) = [i \in 1..n |-> q[(n - i) + 1]]
  BY <1>1 DEF Reverse
<1>3. \A i \in 1..n : (n - i) + 1 \in 1..n /\ (n - ((n - i) + 1)) + 1 = i
  BY <1>1
<1>4. Reverse(q) \in [1..n -> S] /\ \A i \in 1..n : Reverse(q)[i] = q[(n - i) + 1]
  BY <1>1, <1>2, <1>3
<1>5. ASSUME NEW i \in 1..n, NEW j \in 1..n, Reverse(q)[i] = Reverse(q)[j]
      PROVE  i = j
  <2>1. q[(n - i) + 1] = q[(n - j) + 1]
    BY <1>4, <1>5
  <2>2. (n - i) + 1 = (n - j) + 1
    BY <1>3, <2>1 DEF Visits
  <2>3. QED
    BY <1>1, <2>2
<1>6. ASSUME NEW p \in S PROVE \E i \in 1..n : Reverse(q)[i] = p
  <2>1. PICK i \in 1..n : q[i] = p
    BY DEF Visits
  <2>2. (n - i) + 1 \in 1..n /\ Reverse(q)[(n - i) + 1] = q[i]
    BY <1>3, <1>4
  <2>3. QED
    BY <2>1, <2>2
<1>7. QED
  BY <1>1, <1>4, <1>5, <1>6 DEF Visits

\* The pairs at the places S, in some order.
LaysOut(c, t, S) ==
    /\ c \in Seq(TablePairs)
    /\ \A i \in 1..Len(c) : \E p \in S : c[i] = PairAt(t, p)
    /\ \A i, j \in 1..Len(c) : c[i].key = c[j].key => i = j
    /\ \A p \in S : \E i \in 1..Len(c) : c[i] = PairAt(t, p)

\* The pairs at the n places of q.
Along(c, t, q, n) == Len(c) = n /\ \A i \in 1..n : c[i] = PairAt(t, q[i])

\* The pairs at some places, in any order, make a sequence without a key twice.
LEMMA LaidOut ==
    ASSUME NEW t, Ordered(t), NEW S \in SUBSET Standing(t),
           NEW n, NEW q, Visits(q, n, S)
    PROVE  LaysOut(PairsAt(t, q), t, S) /\ Along(PairsAt(t, q), t, q, n)
<1> DEFINE c == PairsAt(t, q)
<1>1. n \in Nat /\ q \in [1..n -> S]
  BY DEF Visits
<1>2. \A p \in S : PairAt(t, p) \in TablePairs
  BY StoredFacts DEF Stored
<1>3. c = [i \in 1..n |-> PairAt(t, q[i])]
  BY <1>1 DEF PairsAt
<1> HIDE DEF c
<1>4. \A i \in 1..n : c[i] = PairAt(t, q[i]) /\ q[i] \in S
  BY <1>1, <1>3
<1>5. c \in [1..n -> TablePairs]
  BY <1>1, <1>2, <1>3
<1>6. c \in Seq(TablePairs) /\ Len(c) = n
  BY <1>1, <1>5
<1>7. ASSUME NEW i \in 1..n, NEW j \in 1..n, c[i].key = c[j].key
      PROVE  i = j
  <2>1. q[i] \in Standing(t) /\ q[j] \in Standing(t)
        /\ PairAt(t, q[i]).key = PairAt(t, q[j]).key
    BY <1>4, <1>7
  <2>2. q[i] = q[j]
    BY <2>1, StoredFacts
  <2>3. QED
    BY <2>2 DEF Visits
<1>8. \A p \in S : \E i \in 1..n : c[i] = PairAt(t, p)
  BY <1>4 DEF Visits
<1>9. LaysOut(c, t, S)
  BY <1>4, <1>6, <1>7, <1>8 DEF LaysOut
<1>10. QED
  BY <1>4, <1>6, <1>9 DEF c, Along

\* A resize moves the pairs and keeps them.
LEMMA Resized ==
    ASSUME NEW t, Ordered(t)
    PROVE  Ordered(resize(t)) /\ Stored(resize(t)) = Stored(t)
<1> DEFINE u == resize(t)
           new == 2 * t.size
           M(s) == {p \in Standing(t) : NewSlot(PairAt(t, p).key, t.size, new) = s}
           ch == [s \in 0..new - 1 |-> PairsAt(t, Reverse(InOrder(M(s))))]
<1>1. /\ new \in Nat \ {0} /\ t.size \in Nat \ {0}
      /\ t \in Tables
  BY DEF Ordered, Tables
<1>2. u = [t EXCEPT !.size = new, !.numEl = 0, !.chain = ch]
  BY DEF resize
<1>3. ASSUME NEW p \in Standing(t)
      PROVE  /\ PairAt(t, p) \in TablePairs
             /\ Slot(PairAt(t, p).key, new) \in 0..new - 1
             /\ \A s : p \in M(s) <=> Slot(PairAt(t, p).key, new) = s
  <2>1. PairAt(t, p) \in TablePairs
    BY StoredFacts DEF Stored
  <2>2. PairAt(t, p).key \in Keys
    BY <2>1 DEF TablePairs
  <2>3. QED
    BY <1>1, <2>1, <2>2, SlotFacts DEF NewSlot
<1>4. \A s : M(s) \in SUBSET Standing(t)
  OBVIOUS
<1> HIDE DEF u, new, M
<1>5. ASSUME NEW s \in 0..new - 1
      PROVE  LaysOut(ch[s], t, M(s))
  <2> DEFINE n == Cardinality(M(s))
             r == Reverse(InOrder(M(s)))
  <2>1. M(s) \in SUBSET Standing(t)
    BY <1>4
  <2>2. M(s) \in SUBSET (Nat \X Nat) /\ IsFiniteSet(M(s))
    BY <2>1, StandingFacts, FS_Subset
  <2>3. Visits(r, n, M(s))
    BY <2>2, InOrderWalks, ReverseVisits
  <2>4. ch[s] = PairsAt(t, r)
    OBVIOUS
  <2> HIDE DEF n, r, ch
  <2>5. LaysOut(PairsAt(t, r), t, M(s))
    BY <2>1, <2>3, LaidOut
  <2>6. QED
    BY <2>4, <2>5
<1>6. /\ ch \in [0..new - 1 -> Seq(TablePairs)]
      /\ u \in Tables
      /\ u.chain = ch /\ u.size = new
  <2>1. ch \in [0..new - 1 -> Seq(TablePairs)]
    BY <1>5 DEF LaysOut
  <2> HIDE DEF ch
  <2>2. ch \in Chainings
    BY <1>1, <2>1 DEF Chainings
  <2>3. u.chain = ch /\ u.size = new /\ u.numEl = 0 /\ u.nRem = t.nRem
        /\ u = [chain |-> u.chain, size |-> u.size, numEl |-> u.numEl, nRem |-> u.nRem]
    BY <1>1, <1>2 DEF Tables
  <2>4. QED
    BY <1>1, <2>1, <2>2, <2>3 DEF Tables
<1> HIDE DEF ch
<1>7. Ordered(u)
  <2>1. ASSUME NEW s \in 0..new - 1, NEW i \in 1..Len(ch[s])
        PROVE  Slot(ch[s][i].key, new) = s
    <3>1. PICK p \in M(s) : ch[s][i] = PairAt(t, p)
      BY <1>5 DEF LaysOut
    <3>2. p \in Standing(t)
      BY <1>4
    <3>3. QED
      BY <1>3, <3>1, <3>2
  <2>2. QED
    BY <1>5, <1>6, <2>1 DEF Ordered, Tables, LaysOut
<1>8. Stored(u) = Stored(t)
  <2>1. ASSUME NEW x \in Stored(u) PROVE x \in Stored(t)
    <3>1. \E s \in 0..u.size - 1 : \E i \in 1..Len(u.chain[s]) : x = u.chain[s][i]
      BY <1>7, StoredFacts
    <3>2. PICK s \in 0..new - 1 : \E i \in 1..Len(ch[s]) : x = ch[s][i]
      BY <1>6, <3>1
    <3>3. PICK i \in 1..Len(ch[s]) : x = ch[s][i]
      BY <3>2
    <3>4. PICK p \in M(s) : ch[s][i] = PairAt(t, p)
      BY <1>5 DEF LaysOut
    <3>5. QED
      BY <1>4, <3>3, <3>4 DEF Stored
  <2>2. ASSUME NEW x \in Stored(t) PROVE x \in Stored(u)
    <3>1. PICK p \in Standing(t) : x = PairAt(t, p)
      BY DEF Stored
    <3>2. PICK s \in 0..new - 1 : p \in M(s)
      BY <1>3
    <3>3. PICK i \in 1..Len(ch[s]) : ch[s][i] = PairAt(t, p)
      BY <1>5, <3>2 DEF LaysOut
    <3>4. s \in 0..u.size - 1 /\ i \in 1..Len(u.chain[s]) /\ x = u.chain[s][i]
      BY <1>6, <3>1, <3>3
    <3>5. QED
      BY <1>7, <3>4, StoredFacts
  <2>3. QED
    BY <2>1, <2>2
<1>9. QED
  BY <1>7, <1>8 DEF u
\* The record of a table with another chain.
Altered(t, s, c, e, r) ==
    [t EXCEPT !.chain = Rechain(t, s, c), !.numEl = e, !.nRem = r]

LEMMA Chained ==
    ASSUME NEW t, Ordered(t), NEW s \in 0..t.size - 1, NEW c \in Seq(TablePairs),
           NEW e \in Int, NEW r \in Int,
           NEW u, u = Altered(t, s, c, e, r)
    PROVE  /\ u \in Tables
           /\ u.size = t.size /\ u.chain = Rechain(t, s, c)
<1> DEFINE h == Rechain(t, s, c)
<1>1. /\ t \in Tables
      /\ t.chain \in [0..t.size - 1 -> Seq(TablePairs)] /\ t.size \in Nat \ {0}
  BY DEF Ordered, Tables
<1>2. h \in [0..t.size - 1 -> Seq(TablePairs)]
  BY <1>1 DEF Rechain
<1>3. u = [t EXCEPT !.chain = h, !.numEl = e, !.nRem = r]
  BY DEF Altered
<1>4. h = Rechain(t, s, c)
  OBVIOUS
<1> HIDE DEF h
<1>5. h \in Chainings
  BY <1>1, <1>2 DEF Chainings
<1>6. /\ u.chain = h /\ u.size = t.size /\ u.numEl = e /\ u.nRem = r
      /\ u = [chain |-> u.chain, size |-> u.size, numEl |-> u.numEl, nRem |-> u.nRem]
  BY <1>1, <1>3 DEF Tables
<1>7. QED
  BY <1>1, <1>4, <1>5, <1>6 DEF Tables
\* The chain of k gets other pairs under k, and keeps the rest.
Rekeys(c, b, k, E) ==
    /\ c \in Seq(TablePairs)
    /\ \A i, j \in 1..Len(c) : c[i].key = c[j].key => i = j
    /\ \A i \in 1..Len(c) : c[i] \in E \/ (c[i].key # k /\ \E j \in 1..Len(b) : c[i] = b[j])
    /\ \A j \in 1..Len(b) : b[j].key # k => \E i \in 1..Len(c) : c[i] = b[j]
    /\ \A x \in E : x.key = k /\ \E i \in 1..Len(c) : c[i] = x

\* The pairs under other keys.
But(S, k) == {y \in S : y.key # k}

Rewrites(u, t, k, E) ==
    \E c \in Seq(TablePairs) : \E e, r \in Int :
        /\ Rekeys(c, t.chain[Slot(k, t.size)], k, E)
        /\ u = Altered(t, Slot(k, t.size), c, e, r)

LEMMA Rekeyed ==
    ASSUME NEW t, Ordered(t), NEW k \in Keys, NEW u, NEW E, Rewrites(u, t, k, E)
    PROVE  Ordered(u) /\ Stored(u) = But(Stored(t), k) \cup E
<1> DEFINE s == Slot(k, t.size)
           b == t.chain[s]
<1>1. PICK c \in Seq(TablePairs), e \in Int, r \in Int :
          Rekeys(c, b, k, E) /\ u = Altered(t, s, c, e, r)
  BY DEF Rewrites
<1>2. t.size \in Nat \ {0} /\ s \in 0..t.size - 1
  BY SlotFacts DEF Ordered, Tables
<1>3. Slot(k, t.size) = s
  OBVIOUS
<1> HIDE DEF s, b
<1>4. /\ c \in Seq(TablePairs)
      /\ \A i, j \in 1..Len(c) : c[i].key = c[j].key => i = j
      /\ \A i \in 1..Len(c) : c[i] \in E \/ (c[i].key # k /\ \E j \in 1..Len(b) : c[i] = b[j])
      /\ \A j \in 1..Len(b) : b[j].key # k => \E i \in 1..Len(c) : c[i] = b[j]
      /\ \A x \in E : x.key = k /\ \E i \in 1..Len(c) : c[i] = x
  BY <1>1 DEF Rekeys
<1>5. \A j \in 1..Len(b) : b[j] \in Stored(t) /\ Slot(b[j].key, t.size) = s
  BY <1>2, ChainFacts DEF b
<1>6. ASSUME NEW i \in 1..Len(c) PROVE Slot(c[i].key, t.size) = s
  <2>1. CASE c[i] \in E
    <3>1. c[i].key = k
      BY <1>4, <2>1
    <3>2. QED
      BY <1>3, <3>1
  <2>2. CASE c[i] \notin E
    BY <1>4, <1>5, <2>2
  <2>3. QED
    BY <2>1, <2>2
<1>7. /\ Ordered(u)
      /\ \A x : x \in Stored(u) <=> \/ \E i \in 1..Len(c) : x = c[i]
                                    \/ x \in Stored(t) /\ Slot(x.key, t.size) # s
  <2>1. u \in Tables /\ u.size = t.size /\ u.chain = Rechain(t, s, c)
    BY <1>1, <1>2, <1>4, Chained
  <2>2. Fills(c, s, t.size)
    BY <1>4, <1>6 DEF Fills
  <2>3. QED
    BY <1>2, <2>1, <2>2, Rechained
<1>8. ASSUME NEW x \in Stored(t), Slot(x.key, t.size) = s
      PROVE  \E j \in 1..Len(b) : x = b[j]
  <2>1. PICK v \in 0..t.size - 1 : \E j \in 1..Len(t.chain[v]) : x = t.chain[v][j]
    BY StoredFacts
  <2>2. PICK j \in 1..Len(t.chain[v]) : x = t.chain[v][j]
    BY <2>1
  <2>3. v = s
    BY <1>8, <2>2, ChainFacts
  <2>4. QED
    BY <2>2, <2>3 DEF b
<1>9. ASSUME NEW x \in Stored(u) PROVE x \in {y \in Stored(t) : y.key # k} \cup E
  <2>1. CASE \E i \in 1..Len(c) : x = c[i]
    <3>1. PICK i \in 1..Len(c) : x = c[i]
      BY <2>1
    <3>2. CASE c[i] \in E
      BY <3>1, <3>2
    <3>3. CASE c[i] \notin E
      <4>1. c[i].key # k /\ \E j \in 1..Len(b) : c[i] = b[j]
        BY <1>4, <3>3
      <4>2. QED
        BY <1>5, <3>1, <4>1
    <3>4. QED
      BY <3>2, <3>3
  <2>2. CASE x \in Stored(t) /\ Slot(x.key, t.size) # s
    <3>1. x.key # k
      BY <1>3, <2>2
    <3>2. QED
      BY <2>2, <3>1
  <2>3. QED
    BY <1>7, <2>1, <2>2
<1>10. ASSUME NEW x \in Stored(t), x.key # k PROVE x \in Stored(u)
  <2>1. CASE Slot(x.key, t.size) = s
    <3>1. PICK j \in 1..Len(b) : x = b[j]
      BY <1>8, <2>1
    <3>2. QED
      BY <1>4, <1>7, <1>10, <3>1
  <2>2. CASE Slot(x.key, t.size) # s
    BY <1>7, <2>2
  <2>3. QED
    BY <2>1, <2>2
<1>11. \A x \in E : x \in Stored(u)
  BY <1>4, <1>7
<1>12. QED
  BY <1>7, <1>9, <1>10, <1>11 DEF But

Pair(k, v, n) == [key |-> k, val |-> v, pos |-> n]

LEMMA PutStored ==
    ASSUME NEW t0, Ordered(t0), NEW d \in Seq(Records), NEW k \in Keys, NEW v \in Values
    PROVE  LET u == put(t0, d, k, v).table
           IN  /\ Ordered(u)
               /\ Stored(u) = But(Stored(t0), k) \cup {Pair(k, v, Len(d) + 1)}
<1> DEFINE u == put(t0, d, k, v).table
           t == IF Load # 0 /\ Full(t0) THEN resize(t0) ELSE t0
           s == Slot(k, t.size)
           b == t.chain[s]
           i == Min(Places(t, k))
           pair == Pair(k, v, Len(d) + 1)
           c == IF Places(t, k) = {} THEN Append(b, pair)
                ELSE [j \in DOMAIN b |-> IF j = i THEN pair ELSE b[j]]
           e == IF Places(t, k) = {} THEN t.numEl + 1 ELSE t.numEl
<1>1. Ordered(t) /\ Stored(t) = Stored(t0)
  BY Resized
<1>2. pair \in TablePairs /\ pair.key = k
  <2>1. Len(d) + 1 \in Nat \ {0}
    BY LenProperties
  <2>2. QED
    BY <2>1 DEF Pair, TablePairs
<1>3. u = IF Places(t, k) = {}
          THEN [t EXCEPT !.chain[s] = Append(@, pair), !.numEl = @ + 1]
          ELSE [t EXCEPT !.chain[s] = [j \in DOMAIN @ |-> IF j = i THEN pair ELSE @[j]]]
  BY DEF put, Pair
<1> HIDE DEF u, t, pair
<1>4. /\ s \in 0..t.size - 1
      /\ t \in Tables
  BY <1>1, PlacesFacts DEF Ordered, Tables
<1>5. u = Altered(t, s, c, e, t.nRem)
  <2>1. CASE Places(t, k) = {}
    BY <1>3, <1>4, <2>1 DEF Altered, Rechain
  <2>2. CASE Places(t, k) # {}
    BY <1>3, <1>4, <2>2 DEF Altered, Rechain
  <2>3. QED
    BY <2>1, <2>2
<1> HIDE DEF s
<1>6. /\ b \in Seq(TablePairs) /\ Len(b) \in Nat /\ DOMAIN b = 1..Len(b)
      /\ \A j \in 1..Len(b) : b[j] \in TablePairs /\ b[j] \in Stored(t)
      /\ \A j, l \in 1..Len(b) : b[j].key = b[l].key => j = l
  BY <1>1, <1>4, ChainFacts
<1> HIDE DEF b
<1>7. Rekeys(c, b, k, {pair})
  <2>1. CASE Places(t, k) = {}
    <3>1. \A j \in 1..Len(b) : b[j].key # k
      BY <1>1, <1>6, <2>1, PlacesFacts
    <3>2. /\ c \in Seq(TablePairs) /\ Len(c) = Len(b) + 1
          /\ c[Len(b) + 1] = pair /\ \A j \in 1..Len(b) : c[j] = b[j]
      BY <1>2, <1>6, <2>1, AppendProperties
    <3> HIDE DEF c
    <3>3. \A j \in 1..Len(c) : j \in 1..Len(b) \/ j = Len(b) + 1
      BY <1>6, <3>2
    <3>4. QED
      BY <1>2, <1>6, <3>1, <3>2, <3>3 DEF Rekeys
  <2>2. CASE Places(t, k) # {}
    <3>1. i \in 1..Len(b) /\ b[i].key = k
      BY <1>1, <2>2, PlacesFacts DEF b, s
    <3> HIDE DEF i
    <3>2. c = [j \in 1..Len(b) |-> IF j = i THEN pair ELSE b[j]]
      BY <1>6, <2>2, ZenonT(30)
    <3>3. c \in [1..Len(b) -> TablePairs]
      BY <1>2, <1>6, <3>2
    <3> HIDE DEF c
    <3>4. c \in Seq(TablePairs) /\ Len(c) = Len(b)
      BY <1>6, <3>3
    <3>5. c[i] = pair /\ \A j \in 1..Len(b) : j # i => c[j] = b[j]
      BY <3>1, <3>2
    <3>6. \A j \in 1..Len(b) : j # i => b[j].key # k
      BY <1>6, <3>1
    <3>7. QED
      BY <1>2, <1>6, <3>1, <3>4, <3>5, <3>6, SMTT(30) DEF Rekeys
  <2>3. QED
    BY <2>1, <2>2
<1>8. c \in Seq(TablePairs) /\ e \in Int
  BY <1>4, <1>7 DEF Rekeys, Tables
<1> HIDE DEF c, e, i
<1>9. Ordered(u) /\ Stored(u) = But(Stored(t), k) \cup {pair}
  <2>1. t.nRem \in Int
    BY <1>4 DEF Tables
  <2>2. s = Slot(k, t.size) /\ b = t.chain[s]
    BY DEF s, b
  <2>3. Rewrites(u, t, k, {pair})
    BY <1>5, <1>7, <1>8, <2>1, <2>2 DEF Rewrites
  <2>4. QED
    BY <1>1, <2>3, Rekeyed
<1>10. QED
  BY <1>1, <1>9 DEF u, pair
LEMMA DroppedFacts ==
    ASSUME NEW S, NEW b \in Seq(S), NEW i \in 1..Len(b)
    PROVE  /\ RemoveAt(b, i) \in Seq(S) /\ Len(RemoveAt(b, i)) = Len(b) - 1
           /\ \A j \in 1..Len(b) - 1 :
                 RemoveAt(b, i)[j] = IF j < i THEN b[j] ELSE b[j + 1]
<1> DEFINE n == Len(b)
           a == SubSeq(b, 1, i - 1)
           z == SubSeq(b, i + 1, n)
           r == RemoveAt(b, i)
<1>1. n \in Nat /\ i \in 1..n
  BY LenProperties
<1>2. a \in Seq(S) /\ Len(a) = i - 1 /\ \A j \in 1..(i - 1) : a[j] = b[j]
  BY <1>1, SubSeqProperties
<1>3. z \in Seq(S) /\ Len(z) = n - i /\ \A j \in 1..(n - i) : z[j] = b[i + j]
  <2>1. i + 1 \in 1..(n + 1) /\ n \in i..n
    BY <1>1
  <2>2. /\ z \in Seq(S)
        /\ Len(z) = IF i + 1 <= n THEN n - (i + 1) + 1 ELSE 0
        /\ \A j \in 1..(n - (i + 1) + 1) : z[j] = b[i + 1 + j - 1]
    BY <1>1, <2>1, SubSeqProperties
  <2> HIDE DEF z, n
  <2>3. QED
    BY <1>1, <2>2
<1>4. r = a \o z
  BY DEF RemoveAt
<1> HIDE DEF a, z, r
<1>5. r \in Seq(S) /\ Len(r) = n - 1
  <2>1. r \in Seq(S) /\ Len(r) = Len(a) + Len(z)
    BY <1>2, <1>3, <1>4, ConcatProperties
  <2> HIDE DEF n
  <2>2. QED
    BY <2>1, <1>1, <1>2, <1>3
<1>6. ASSUME NEW j \in 1..(n - 1)
      PROVE  r[j] = IF j < i THEN b[j] ELSE b[j + 1]
  <2>1. CASE j < i
    BY <2>1, <1>1, <1>2, <1>3, <1>4
  <2>2. CASE j >= i
    <3>1. r[j] = z[j - (i - 1)] /\ j - (i - 1) \in 1..(n - i)
      BY <2>2, <1>1, <1>2, <1>3, <1>4
    <3>2. i + (j - (i - 1)) = j + 1
      BY <1>1
    <3>3. QED
      BY <2>2, <3>1, <3>2, <1>3, <1>1
  <2>3. QED
    BY <2>1, <2>2, <1>1
<1>7. QED
  BY <1>5, <1>6 DEF r

\* The pair of k leaves.
LEMMA RemoveStored ==
    ASSUME NEW t, Ordered(t), NEW k \in Keys, Places(t, k) # {}
    PROVE  LET u == [t EXCEPT !.chain[Slot(k, t.size)] = RemoveAt(@, Min(Places(t, k))),
                              !.numEl = @ - 1]
           IN  Ordered(u) /\ Stored(u) = But(Stored(t), k)
<1> DEFINE s == Slot(k, t.size)
           b == t.chain[s]
           i == Min(Places(t, k))
           c == RemoveAt(b, i)
           u == [t EXCEPT !.chain[s] = RemoveAt(@, i), !.numEl = @ - 1]
<1>1. s \in 0..t.size - 1 /\ t \in Tables /\ t.numEl \in Int /\ t.nRem \in Int
  BY PlacesFacts DEF Ordered, Tables
<1>2. i \in 1..Len(b) /\ b[i].key = k
  BY PlacesFacts
<1>3. u = Altered(t, s, c, t.numEl - 1, t.nRem)
  BY <1>1 DEF Altered, Rechain, Tables
<1>4. /\ b \in Seq(TablePairs) /\ Len(b) \in Nat
      /\ \A j, l \in 1..Len(b) : b[j].key = b[l].key => j = l
  BY <1>1, ChainFacts
<1>5. s = Slot(k, t.size) /\ b = t.chain[s]
  OBVIOUS
<1> HIDE DEF u, s, b, i
<1>6. /\ c \in Seq(TablePairs) /\ Len(c) = Len(b) - 1
      /\ \A j \in 1..Len(b) - 1 : c[j] = IF j < i THEN b[j] ELSE b[j + 1]
  BY <1>2, <1>4, DroppedFacts
<1> HIDE DEF c
<1>7. Rekeys(c, b, k, {})
  <2>1. \A j \in 1..Len(b) : j # i => b[j].key # k
    BY <1>2, <1>4
  <2>2. \A j \in 1..Len(c) : \E l \in 1..Len(b) :
            /\ l # i /\ c[j] = b[l]
            /\ l = IF j < i THEN j ELSE j + 1
    BY <1>2, <1>4, <1>6, SMTT(30)
  <2>3. ASSUME NEW j \in 1..Len(b), b[j].key # k PROVE \E l \in 1..Len(c) : c[l] = b[j]
    <3>1. CASE j < i
      BY <1>2, <1>4, <1>6, <3>1
    <3>2. CASE j >= i
      <4>1. j - 1 \in 1..Len(c) /\ c[j - 1] = b[(j - 1) + 1] /\ (j - 1) + 1 = j
        BY <1>2, <1>4, <1>6, <2>3, <3>2
      <4>2. QED
        BY <4>1
    <3>3. QED
      BY <1>2, <1>4, <3>1, <3>2
  <2>4. ASSUME NEW j \in 1..Len(c), NEW l \in 1..Len(c), c[j].key = c[l].key
        PROVE  j = l
    <3>1. PICK m \in 1..Len(b) : c[j] = b[m] /\ m = IF j < i THEN j ELSE j + 1
      BY <2>2
    <3>2. PICK n \in 1..Len(b) : c[l] = b[n] /\ n = IF l < i THEN l ELSE l + 1
      BY <2>2
    <3>3. m = n
      BY <1>4, <2>4, <3>1, <3>2
    <3>4. QED
      BY <1>2, <1>6, <3>1, <3>2, <3>3
  <2>5. QED
    BY <1>6, <2>1, <2>2, <2>3, <2>4, SMTT(30) DEF Rekeys
<1>8. Rewrites(u, t, k, {})
  <2>1. t.numEl - 1 \in Int
    BY <1>1
  <2>2. QED
    BY <1>1, <1>3, <1>5, <1>6, <1>7, <2>1 DEF Rewrites
<1>9. Ordered(u) /\ Stored(u) = But(Stored(t), k) \cup {}
  BY <1>8, Rekeyed
<1>10. QED
  BY <1>9 DEF u, s, i

\* The count of removals is not part of what is stored.
Counted(t, r) == [t EXCEPT !.nRem = r]

LEMMA CountedFacts ==
    ASSUME NEW t, Ordered(t), NEW r \in Int
    PROVE  Ordered(Counted(t, r)) /\ Stored(Counted(t, r)) = Stored(t)
<1> DEFINE u == Counted(t, r)
<1>1. u \in Tables /\ u.chain = t.chain /\ u.size = t.size
  BY DEF Ordered, Tables, Counted
<1> HIDE DEF u
<1>2. Ordered(u)
  BY <1>1 DEF Ordered
<1>3. Stored(u) = Stored(t)
  BY <1>1 DEF Stored, Standing, PairAt
<1>4. QED
  BY <1>2, <1>3 DEF u

\* The file of a table: each pair knows its record, and only these are live.
Logged(S, f) ==
    /\ f \in Seq(Records)
    /\ \A x \in S : x.pos \in 1..Len(f) /\ f[x.pos] = Record(x.key, x.val)
    /\ \A n \in 1..Len(f) : f[n].live => \E x \in S : x.pos = n

\* The map a table is.
Tabulates(S, m) ==
    /\ m \in [Keys -> Values \cup {NoValue}]
    /\ \A x \in S : m[x.key] = x.val
    /\ \A k \in Keys : m[k] # NoValue => \E x \in S : x.key = k

LEMMA RecordFacts ==
    ASSUME NEW k \in Keys, NEW v \in Values
    PROVE  /\ Record(k, v) \in Records
           /\ Record(k, v).key = k /\ Record(k, v).val = v /\ Record(k, v).live
<1>1. TRUE \in BOOLEAN
  OBVIOUS
<1>2. QED
  BY <1>1 DEF Record, Records

\* What writing a file again writes.
LEMMA WrittenFacts ==
    ASSUME NEW t, Ordered(t)
    PROVE  LET S == Standing(t)
               q == InOrder(S)
               n == Cardinality(S)
           IN  /\ Visits(q, n, S)
               /\ written(t) \in Seq(Records) /\ Len(written(t)) = n
               /\ \A i \in 1..n :
                     written(t)[i] = Record(PairAt(t, q[i]).key, PairAt(t, q[i]).val)
<1> DEFINE S == Standing(t)
           q == InOrder(S)
           n == Cardinality(S)
           c == Pairs(t)
<1>1. Visits(q, n, S)
  BY StandingFacts, InOrderWalks
<1>2. c = PairsAt(t, q) /\ S \in SUBSET Standing(t)
  BY DEF Pairs
<1> HIDE DEF S, q, n, c
<1>3. LaysOut(c, t, S) /\ Len(c) = n /\ \A i \in 1..n : c[i] = PairAt(t, q[i])
  <2>1. LaysOut(PairsAt(t, q), t, S) /\ Along(PairsAt(t, q), t, q, n)
    BY <1>1, <1>2, LaidOut
  <2>2. QED
    BY <1>2, <2>1 DEF Along
<1>4. c \in Seq(TablePairs) /\ n \in Nat
  BY <1>1, <1>3 DEF LaysOut, Visits
<1>5. written(t) = [i \in 1..n |-> Record(c[i].key, c[i].val)]
  BY <1>3, <1>4 DEF written, c
<1>6. \A i \in 1..n : Record(c[i].key, c[i].val) \in Records
  <2>1. ASSUME NEW i \in 1..n PROVE c[i].key \in Keys /\ c[i].val \in Values
    <3>1. c[i] \in TablePairs
      BY <1>3, <1>4
    <3>2. QED
      BY <3>1 DEF TablePairs
  <2>2. QED
    BY <2>1, RecordFacts
<1>7. written(t) \in [1..n -> Records]
  BY <1>5, <1>6
<1>8. written(t) \in Seq(Records) /\ Len(written(t)) = n
  BY <1>4, <1>7
<1>9. \A i \in 1..n : written(t)[i] = Record(PairAt(t, q[i]).key, PairAt(t, q[i]).val)
  BY <1>3, <1>5
<1>10. QED
  BY <1>1, <1>8, <1>9 DEF S, q, n
\* The pairs of one set are those of the other at other positions.
SamePairs(S, T) ==
    /\ \A x \in S : \E y \in T : x.key = y.key /\ x.val = y.val
    /\ \A y \in T : \E x \in S : x.key = y.key /\ x.val = y.val

\* After a rewrite the table knows where its records are.
LEMMA Repositioned ==
    ASSUME NEW t, Ordered(t)
    PROVE  /\ Ordered(repositioned(t))
           /\ SamePairs(Stored(repositioned(t)), Stored(t))
           /\ Logged(Stored(repositioned(t)), written(t))
           /\ written(repositioned(t)) = written(t)
<1> DEFINE r == repositioned(t)
           S == Standing(t)
           q == InOrder(S)
           n == Cardinality(S)
           at(s, i) == CHOOSE m \in DOMAIN q : q[m] = <<s, i>>
           h == [s \in 0..t.size - 1 |-> [i \in DOMAIN t.chain[s] |->
                    [t.chain[s][i] EXCEPT !.pos = at(s, i)]]]
<1>1. /\ Visits(q, n, S)
      /\ written(t) \in Seq(Records) /\ Len(written(t)) = n
      /\ \A i \in 1..n : written(t)[i] = Record(PairAt(t, q[i]).key, PairAt(t, q[i]).val)
  BY WrittenFacts
<1>2. r = [t EXCEPT !.chain = h]
  BY DEF repositioned
<1>3. ASSUME NEW s \in 0..t.size - 1, NEW i \in 1..Len(t.chain[s])
      PROVE  at(s, i) \in 1..n /\ q[at(s, i)] = <<s, i>> /\ at(s, i) \in Nat \ {0}
  <2>1. <<s, i>> \in S
    BY StandingFacts
  <2> HIDE DEF S, q, n
  <2>2. DOMAIN q = 1..n /\ n \in Nat /\ \E m \in 1..n : q[m] = <<s, i>>
    BY <1>1, <2>1 DEF Visits
  <2>3. at(s, i) \in 1..n /\ q[at(s, i)] = <<s, i>>
    BY <2>2
  <2> HIDE DEF at
  <2>4. QED
    BY <2>2, <2>3
<1> HIDE DEF r, S, q, n, at
<1>4. ASSUME NEW s \in 0..t.size - 1
      PROVE  /\ h[s] \in Seq(TablePairs) /\ Len(h[s]) = Len(t.chain[s])
             /\ \A i \in 1..Len(t.chain[s]) :
                   /\ h[s][i].key = t.chain[s][i].key
                   /\ h[s][i].val = t.chain[s][i].val
                   /\ h[s][i].pos = at(s, i)
  <2> DEFINE b == t.chain[s]
             c == [i \in DOMAIN b |-> [b[i] EXCEPT !.pos = at(s, i)]]
  <2>1. /\ b \in Seq(TablePairs) /\ Len(b) \in Nat /\ DOMAIN b = 1..Len(b)
        /\ \A i \in 1..Len(b) : b[i] \in TablePairs
    BY ChainFacts
  <2>2. h[s] = c
    OBVIOUS
  <2>3. \A i \in 1..Len(b) : at(s, i) \in Nat \ {0}
    BY <1>3
  <2> HIDE DEF b, h
  <2>4. ASSUME NEW i \in 1..Len(b)
        PROVE  /\ c[i] \in TablePairs /\ c[i].key = b[i].key
               /\ c[i].val = b[i].val /\ c[i].pos = at(s, i)
    <3>1. b[i] \in TablePairs /\ at(s, i) \in Nat \ {0} /\ c[i] = [b[i] EXCEPT !.pos = at(s, i)]
      BY <2>1, <2>3
    <3> HIDE DEF c
    <3>2. QED
      BY <3>1 DEF TablePairs
  <2>5. c \in [1..Len(b) -> TablePairs]
    BY <2>1, <2>4
  <2> HIDE DEF c
  <2>6. c \in Seq(TablePairs) /\ Len(c) = Len(b)
    BY <2>1, <2>5
  <2>7. QED
    BY <2>2, <2>4, <2>6 DEF b
<1>5. r \in Tables /\ r.chain = h /\ r.size = t.size
  <2>1. h \in [0..t.size - 1 -> Seq(TablePairs)]
    BY <1>4
  <2> HIDE DEF h
  <2>2. h \in Chainings
    BY <2>1 DEF Chainings, Ordered, Tables
  <2>3. QED
    BY <1>2, <2>2 DEF Ordered, Tables
<1>6. h \in [0..t.size - 1 -> Seq(TablePairs)]
  BY <1>4
<1> HIDE DEF h
<1>7. Ordered(r)
  <2>1. ASSUME NEW s \in 0..t.size - 1, NEW i \in 1..Len(h[s]), NEW j \in 1..Len(h[s])
        PROVE  Slot(h[s][i].key, t.size) = s /\ (h[s][i].key = h[s][j].key => i = j)
    <3>1. i \in 1..Len(t.chain[s]) /\ j \in 1..Len(t.chain[s])
          /\ h[s][i].key = t.chain[s][i].key /\ h[s][j].key = t.chain[s][j].key
      BY <1>4
    <3>2. QED
      BY <3>1 DEF Ordered
  <2>2. QED
    BY <1>5, <1>6, <2>1 DEF Ordered
<1>8. ASSUME NEW s \in 0..t.size - 1, NEW i \in 1..Len(t.chain[s])
      PROVE  /\ PairAt(r, <<s, i>>) = h[s][i] /\ PairAt(t, <<s, i>>) = t.chain[s][i]
             /\ h[s][i] \in Stored(r) /\ t.chain[s][i] \in Stored(t)
             /\ h[s][i].key = t.chain[s][i].key /\ h[s][i].val = t.chain[s][i].val
             /\ h[s][i].pos = at(s, i) /\ i \in 1..Len(h[s]) /\ s \in 0..r.size - 1
  BY <1>4, <1>5, <1>7, StoredFacts DEF PairAt
<1>9. \A p : p \in S <=> \E s \in 0..t.size - 1 : \E i \in 1..Len(t.chain[s]) : p = <<s, i>>
  BY StandingFacts DEF S
<1>10. Standing(r) = S
  <2>1. \A p : p \in Standing(r) <=>
            \E s \in 0..r.size - 1 : \E i \in 1..Len(r.chain[s]) : p = <<s, i>>
    BY <1>7, StandingFacts
  <2>2. \A s \in 0..t.size - 1 : r.chain[s] = h[s] /\ Len(h[s]) = Len(t.chain[s])
    BY <1>4, <1>5
  <2>3. \A p : p \in Standing(r) => p \in S
    BY <1>5, <1>9, <2>1, <2>2
  <2>4. \A p : p \in S => p \in Standing(r)
    BY <1>5, <1>9, <2>1, <2>2
  <2>5. QED
    BY <2>3, <2>4
<1>11. ASSUME NEW p \in S
       PROVE  PairAt(r, p).key = PairAt(t, p).key /\ PairAt(r, p).val = PairAt(t, p).val
  BY <1>8, <1>9
<1>12. SamePairs(Stored(r), Stored(t))
  BY <1>10, <1>11 DEF SamePairs, Stored, S
<1>13. Logged(Stored(r), written(t))
  <2>1. ASSUME NEW x \in Stored(r)
        PROVE  x.pos \in 1..n /\ written(t)[x.pos] = Record(x.key, x.val) /\ PairAt(r, q[x.pos]) = x
    <3>1. PICK p \in S : x = PairAt(r, p)
      BY <1>10 DEF Stored
    <3>2. PICK s \in 0..t.size - 1 : \E i \in 1..Len(t.chain[s]) : p = <<s, i>>
      BY <1>9
    <3>3. PICK i \in 1..Len(t.chain[s]) : p = <<s, i>>
      BY <3>2
    <3>4. x.pos = at(s, i) /\ at(s, i) \in 1..n /\ q[at(s, i)] = p
      BY <1>3, <1>8, <3>1, <3>3
    <3>5. written(t)[x.pos] = Record(PairAt(t, p).key, PairAt(t, p).val)
      BY <1>1, <3>4
    <3>6. QED
      BY <1>11, <3>1, <3>4, <3>5
  <2>2. ASSUME NEW m \in 1..n PROVE \E x \in Stored(r) : x.pos = m
    <3>1. q[m] \in S
      BY <1>1 DEF Visits
    <3>2. PICK s \in 0..t.size - 1 : \E i \in 1..Len(t.chain[s]) : q[m] = <<s, i>>
      BY <1>9, <3>1
    <3>3. PICK i \in 1..Len(t.chain[s]) : q[m] = <<s, i>>
      BY <3>2
    <3>4. at(s, i) \in 1..n /\ q[at(s, i)] = q[m]
      BY <1>3, <3>3
    <3>5. at(s, i) = m
      BY <1>1, <3>4 DEF Visits
    <3>6. QED
      BY <1>8, <3>5
  <2>3. QED
    BY <1>1, <2>1, <2>2 DEF Logged
<1>14. written(r) = written(t)
  <2>1. /\ written(r) \in Seq(Records) /\ Len(written(r)) = n
        /\ \A i \in 1..n : written(r)[i] = Record(PairAt(r, q[i]).key, PairAt(r, q[i]).val)
    BY <1>7, <1>10, WrittenFacts DEF q, n, S
  <2>2. \A i \in 1..n : q[i] \in S
    BY <1>1 DEF Visits
  <2>3. \A i \in 1..n : written(r)[i] = written(t)[i]
    BY <1>1, <1>11, <2>1, <2>2
  <2>4. QED
    BY <1>1, <2>1, <2>3, SeqEqual
<1>15. QED
  BY <1>7, <1>12, <1>13, <1>14 DEF r
\* A removal marks the record of its pair and no other.
LEMMA MarkedFile ==
    ASSUME NEW S \in SUBSET TablePairs, \A x, y \in S : x.key = y.key => x = y,
           NEW f, Logged(S, f), NEW x \in S
    PROVE  /\ Logged(But(S, x.key), Marked(f, x.pos))
           /\ Len(Marked(f, x.pos)) = Len(f)
<1> DEFINE m == Marked(f, x.pos)
           T == But(S, x.key)
           e == [f[x.pos] EXCEPT !.live = FALSE]
<1>1. /\ f \in Seq(Records) /\ Len(f) \in Nat /\ DOMAIN f = 1..Len(f)
      /\ \A n \in 1..Len(f) : f[n] \in Records
  BY DEF Logged
<1>2. x.pos \in 1..Len(f)
  BY DEF Logged
<1>3. m = [f EXCEPT ![x.pos] = e]
  BY DEF Marked
<1>4. e \in Records /\ ~e.live
  <2>1. FALSE \in BOOLEAN
    OBVIOUS
  <2>2. QED
    BY <1>1, <1>2, <2>1 DEF Records
<1> HIDE DEF e, m, T
<1>5. /\ m \in Seq(Records) /\ Len(m) = Len(f) /\ m[x.pos] = e
      /\ \A n \in 1..Len(f) : n # x.pos => m[n] = f[n]
  BY <1>1, <1>2, <1>3, <1>4, ExceptSeq
<1>6. ASSUME NEW y \in T PROVE y \in S /\ y.key # x.key /\ y.pos # x.pos
  <2>1. y \in S /\ y.key # x.key
    BY DEF T, But
  <2>2. x \in TablePairs /\ y \in TablePairs
    BY <2>1
  <2>3. f[y.pos] = Record(y.key, y.val) /\ f[x.pos] = Record(x.key, x.val)
    BY <2>1 DEF Logged
  <2>4. Record(y.key, y.val).key = y.key /\ Record(x.key, x.val).key = x.key
    BY <2>2, RecordFacts DEF TablePairs
  <2>5. QED
    BY <2>1, <2>3, <2>4
<1>7. ASSUME NEW y \in T PROVE y.pos \in 1..Len(m) /\ m[y.pos] = Record(y.key, y.val)
  BY <1>5, <1>6 DEF Logged
<1>8. ASSUME NEW n \in 1..Len(m), m[n].live PROVE \E y \in T : y.pos = n
  <2>1. n # x.pos /\ f[n].live /\ n \in 1..Len(f)
    BY <1>4, <1>5, <1>8
  <2>2. PICK y \in S : y.pos = n
    BY <2>1 DEF Logged
  <2>3. y.key # x.key
    BY <2>1, <2>2
  <2>4. QED
    BY <2>2, <2>3 DEF T, But
<1>9. QED
  BY <1>5, <1>7, <1>8 DEF Logged, m, T

\* A put appends the record of its pair.
LEMMA AppendedFile ==
    ASSUME NEW S \in SUBSET TablePairs, NEW f, Logged(S, f),
           NEW k \in Keys, NEW v \in Values
    PROVE  Logged(S \cup {Pair(k, v, Len(f) + 1)}, Append(f, Record(k, v)))
<1> DEFINE g == Append(f, Record(k, v))
           p == Pair(k, v, Len(f) + 1)
<1>1. f \in Seq(Records) /\ Len(f) \in Nat /\ Record(k, v) \in Records
  BY RecordFacts DEF Logged
<1>2. /\ g \in Seq(Records) /\ Len(g) = Len(f) + 1 /\ g[Len(f) + 1] = Record(k, v)
      /\ \A n \in 1..Len(f) : g[n] = f[n]
  BY <1>1, AppendProperties
<1>3. p.pos = Len(f) + 1 /\ p.key = k /\ p.val = v
  BY DEF Pair
<1> HIDE DEF g, p
<1>4. ASSUME NEW x \in S \cup {p} PROVE x.pos \in 1..Len(g) /\ g[x.pos] = Record(x.key, x.val)
  <2>1. CASE x \in S
    BY <1>1, <1>2, <2>1 DEF Logged
  <2>2. CASE x = p
    BY <1>1, <1>2, <1>3, <2>2
  <2>3. QED
    BY <2>1, <2>2
<1>5. ASSUME NEW n \in 1..Len(g), g[n].live PROVE \E x \in S \cup {p} : x.pos = n
  <2>1. CASE n \in 1..Len(f)
    BY <1>2, <1>5, <2>1 DEF Logged
  <2>2. CASE n = Len(f) + 1
    BY <1>3, <2>2
  <2>3. QED
    BY <1>1, <1>2, <2>1, <2>2
<1>6. QED
  BY <1>2, <1>4, <1>5 DEF Logged, g, p

LEMMA ButNothing ==
    ASSUME NEW S, NEW k, \A x \in S : x.key # k
    PROVE  But(S, k) = S
  BY DEF But

\* What put does to the file.
LEMMA PutLogged ==
    ASSUME persistent, NEW t0, Ordered(t0), NEW d, Logged(Stored(t0), d),
           NEW k \in Keys, NEW v \in Values
    PROVE  /\ Logged(Stored(put(t0, d, k, v).table), put(t0, d, k, v).file)
           /\ Logged(But(Stored(t0), k), put(t0, d, k, v).seek)
<1> DEFINE t == IF Load # 0 /\ Full(t0) THEN resize(t0) ELSE t0
           i == Min(Places(t, k))
           x == t.chain[Slot(k, t.size)][i]
           m == IF Places(t, k) = {} THEN d ELSE Marked(d, x.pos)
<1>1. Ordered(t) /\ Stored(t) = Stored(t0)
  BY Resized, SMTT(30)
<1>2. put(t0, d, k, v).seek = m /\ put(t0, d, k, v).file = Append(m, Record(k, v))
  BY DEF put
<1> HIDE DEF t, i, x, m
<1>3. Logged(But(Stored(t0), k), m) /\ Len(m) = Len(d)
  <2>1. CASE Places(t, k) = {}
    <3>1. \A y \in Stored(t0) : y.key # k
      BY <1>1, <2>1, PlacesFacts
    <3>2. But(Stored(t0), k) = Stored(t0)
      BY <3>1, ButNothing
    <3>3. QED
      BY <2>1, <3>2 DEF m
  <2>2. CASE Places(t, k) # {}
    <3>1. /\ Slot(k, t.size) \in 0..t.size - 1
          /\ i \in 1..Len(t.chain[Slot(k, t.size)]) /\ x.key = k
      BY <1>1, <2>2, PlacesFacts DEF i, x
    <3>2. x \in Stored(t0)
      BY <1>1, <3>1, ChainFacts DEF x
    <3>3. /\ Stored(t0) \in SUBSET TablePairs
          /\ \A y, z \in Stored(t0) : y.key = z.key => y = z
      BY StoredFacts
    <3>4. Logged(But(Stored(t0), x.key), Marked(d, x.pos)) /\ Len(Marked(d, x.pos)) = Len(d)
      BY <3>2, <3>3, MarkedFile
    <3>5. QED
      BY <2>2, <3>1, <3>4 DEF m
  <2>3. QED
    BY <2>1, <2>2
<1>4. But(Stored(t0), k) \in SUBSET TablePairs
  BY StoredFacts DEF But
<1>5. Logged(But(Stored(t0), k) \cup {Pair(k, v, Len(m) + 1)}, Append(m, Record(k, v)))
  BY <1>3, <1>4, AppendedFile
<1>6. d \in Seq(Records) /\ m \in Seq(Records)
  BY <1>3 DEF Logged
<1>7. Stored(put(t0, d, k, v).table) = But(Stored(t0), k) \cup {Pair(k, v, Len(d) + 1)}
  BY <1>6, PutStored
<1>8. QED
  BY <1>2, <1>3, <1>5, <1>6, <1>7
-----------------------------------------------------------------------------
\* The map the callers have built.
LEMMA PutTabulates ==
    ASSUME NEW S \in SUBSET TablePairs, NEW m, Tabulates(S, m),
           NEW k \in Keys, NEW v \in Values, NEW n
    PROVE  Tabulates(But(S, k) \cup {Pair(k, v, n)}, [m EXCEPT ![k] = v])
<1> DEFINE c == [m EXCEPT ![k] = v]
           p == Pair(k, v, n)
<1>1. /\ c \in [Keys -> Values \cup {NoValue}] /\ c[k] = v
      /\ \A j \in Keys : j # k => c[j] = m[j]
  BY DEF Tabulates
<1>2. p.key = k /\ p.val = v
  BY DEF Pair
<1> HIDE DEF c, p
<1>3. ASSUME NEW j \in Keys, c[j] # NoValue PROVE \E x \in But(S, k) \cup {p} : x.key = j
  <2>1. CASE j = k
    BY <1>2, <2>1
  <2>2. CASE j # k
    BY <1>1, <1>3, <2>2 DEF Tabulates, But
  <2>3. QED
    BY <2>1, <2>2
<1>4. ASSUME NEW x \in But(S, k) PROVE c[x.key] = x.val
  <2>1. x \in S /\ x.key # k /\ x.key \in Keys
    BY DEF But, TablePairs
  <2>2. QED
    BY <1>1, <2>1 DEF Tabulates
<1>5. \A x \in But(S, k) \cup {p} : c[x.key] = x.val
  BY <1>1, <1>2, <1>4
<1>6. Tabulates(But(S, k) \cup {p}, c)
  BY <1>1, <1>3, <1>5 DEF Tabulates
<1>7. QED
  BY <1>6 DEF c, p

LEMMA CutTabulates ==
    ASSUME NEW S \in SUBSET TablePairs, NEW m, Tabulates(S, m), NEW k \in Keys
    PROVE  Tabulates(But(S, k), [m EXCEPT ![k] = NoValue])
<1> DEFINE c == [m EXCEPT ![k] = NoValue]
<1>1. /\ c \in [Keys -> Values \cup {NoValue}] /\ c[k] = NoValue
      /\ \A j \in Keys : j # k => c[j] = m[j]
  BY DEF Tabulates
<1> HIDE DEF c
<1>2. ASSUME NEW j \in Keys, c[j] # NoValue PROVE \E x \in But(S, k) : x.key = j
  BY <1>1, <1>2 DEF Tabulates, But
<1>3. ASSUME NEW x \in But(S, k) PROVE c[x.key] = x.val
  <2>1. x \in S /\ x.key # k /\ x.key \in Keys
    BY DEF But, TablePairs
  <2>2. QED
    BY <1>1, <2>1 DEF Tabulates
<1>4. Tabulates(But(S, k), c)
  BY <1>1, <1>2, <1>3 DEF Tabulates
<1>5. QED
  BY <1>4 DEF c

LEMMA SameTabulates ==
    ASSUME NEW S \in SUBSET TablePairs, NEW T \in SUBSET TablePairs,
           SamePairs(T, S), NEW m, Tabulates(S, m)
    PROVE  Tabulates(T, m)
<1>1. \A x \in T : m[x.key] = x.val
  BY DEF SamePairs, Tabulates
<1>2. \A k \in Keys : m[k] # NoValue => \E x \in T : x.key = k
  BY DEF SamePairs, Tabulates
<1>3. QED
  BY <1>1, <1>2 DEF Tabulates

\* A table tabulates what get finds in it, and nothing else.
LEMMA FoundUnderKey ==
    ASSUME NEW t, Ordered(t)
    PROVE  \A k \in Keys : \/ get(t, k) = NoValue /\ \A x \in Stored(t) : x.key # k
                           \/ \E x \in Stored(t) : x.key = k /\ get(t, k) = x.val
<1> SUFFICES ASSUME NEW k \in Keys
             PROVE  \/ get(t, k) = NoValue /\ \A x \in Stored(t) : x.key # k
                    \/ \E x \in Stored(t) : x.key = k /\ get(t, k) = x.val
  OBVIOUS
<1>1. CASE Places(t, k) = {}
  BY <1>1, PlacesFacts
<1>2. CASE Places(t, k) # {}
  <2> DEFINE s == Slot(k, t.size)
             i == Min(Places(t, k))
  <2>1. /\ s \in 0..t.size - 1 /\ i \in 1..Len(t.chain[s])
        /\ t.chain[s][i].key = k /\ get(t, k) = t.chain[s][i].val
    BY <1>2, PlacesFacts
  <2> HIDE DEF s, i
  <2>2. QED
    BY <2>1, ChainFacts
<1>3. QED
  BY <1>1, <1>2

LEMMA TabulatesGet ==
    ASSUME NEW t, Ordered(t), NEW m, Tabulates(Stored(t), m), NEW k \in Keys
    PROVE  get(t, k) = m[k]
  BY FoundUnderKey DEF Tabulates

-----------------------------------------------------------------------------
LEMMA EmptyTable ==
    /\ Ordered(NewTable) /\ Stored(NewTable) = {}
    /\ written(NewTable) = <<>> /\ Logged({}, <<>>)
<1>1. Size \in Nat \ {0}
  BY TableAssumption
<1>2. Chains(Size) \in [0..Size - 1 -> Seq(TablePairs)]
  BY DEF Chains
<1>3. Chains(Size) \in Chainings
  BY <1>1, <1>2 DEF Chainings
<1>4. /\ NewTable \in Tables /\ NewTable.size = Size /\ NewTable.chain = Chains(Size)
  BY <1>1, <1>3 DEF NewTable, Tables
<1>5. \A s \in 0..Size - 1 : NewTable.chain[s] = <<>>
  BY <1>4 DEF Chains
<1>6. Ordered(NewTable)
  BY <1>2, <1>4, <1>5 DEF Ordered
<1>7. Standing(NewTable) = {} /\ Stored(NewTable) = {}
  <2>1. \A p : p \notin Standing(NewTable)
    BY <1>4, <1>5, <1>6, StandingFacts
  <2>2. \A x : x \notin Stored(NewTable)
    BY <1>4, <1>5, <1>6, StoredFacts
  <2>3. QED
    BY <2>1, <2>2
<1>8. written(NewTable) \in Seq(Records) /\ Len(written(NewTable)) = 0
  BY <1>6, <1>7, WrittenFacts, FS_EmptySet
<1>9. written(NewTable) = <<>>
  BY <1>8
<1>10. Logged({}, <<>>)
  BY DEF Logged
<1>11. QED
  BY <1>6, <1>7, <1>9, <1>10

\* The live records of file f are pairs of map m.
Current(f, m) == \A n \in DOMAIN f : f[n].live => f[n].val = m[f[n].key]

LEMMA LiveIsCurrent ==
    ASSUME NEW S, NEW f, Logged(S, f), NEW m, \A x \in S : m[x.key] = x.val
    PROVE  Current(f, m)
<1>1. ASSUME NEW n \in DOMAIN f, f[n].live PROVE f[n].val = m[f[n].key]
  <2>1. n \in 1..Len(f)
    BY DEF Logged
  <2>2. PICK x \in S : x.pos = n
    BY <1>1, <2>1 DEF Logged
  <2>3. f[n] = Record(x.key, x.val) /\ m[x.key] = x.val
    BY <2>2 DEF Logged
  <2>4. QED
    BY <2>3 DEF Record
<1>2. QED
  BY <1>1 DEF Current

\* The first put into a new table.
LEMMA FirstPut ==
    ASSUME NEW d \in Seq(Records), NEW k \in Keys, NEW v \in Values
    PROVE  LET u == put(NewTable, d, k, v).table
           IN  Ordered(u) /\ Tabulates(Stored(u), [Nothing EXCEPT ![k] = v])
<1> DEFINE u == put(NewTable, d, k, v).table
<1>1. Ordered(NewTable) /\ Stored(NewTable) = {}
  BY EmptyTable
<1>2. Ordered(u) /\ Stored(u) = But(Stored(NewTable), k) \cup {Pair(k, v, Len(d) + 1)}
  <2>1. ASSUME NEW t0, Ordered(t0)
        PROVE  /\ Ordered(put(t0, d, k, v).table)
               /\ Stored(put(t0, d, k, v).table)
                   = But(Stored(t0), k) \cup {Pair(k, v, Len(d) + 1)}
    BY <2>1, PutStored
  <2>2. Ordered(NewTable)
    BY <1>1
  <2>3. QED
    BY <2>1, <2>2
<1> HIDE DEF u
<1>3. Tabulates({}, Nothing) /\ {} \in SUBSET TablePairs
  BY DEF Tabulates, Nothing
<1>4. Tabulates(But({}, k) \cup {Pair(k, v, Len(d) + 1)}, [Nothing EXCEPT ![k] = v])
  BY <1>3, PutTabulates
<1>5. QED
  BY <1>1, <1>2, <1>4 DEF u

\* What the constructor makes of any file.
LEMMA RecoveredFacts ==
    ASSUME NEW d \in Seq(Records)
    PROVE  /\ Ordered(Recovered(d))
           /\ Logged(Stored(Recovered(d)), written(Recovered(d)))
           /\ Tabulates(Stored(Recovered(d)), Taken(d))
<1> DEFINE live == {i \in DOMAIN d : d[i].live}
           first == d[Min(live)]
           u == put(NewTable, d, first.key, first.val).table
<1>1. CASE live = {}
  <2>1. Recovered(d) = NewTable
    BY <1>1 DEF Recovered, LiveIn
  <2>2. Taken(d) = [k \in Keys |-> NoValue]
    BY <1>1 DEF Taken
  <2>3. Tabulates({}, Taken(d))
    BY <2>2 DEF Tabulates
  <2>4. QED
    BY <2>1, <2>3, EmptyTable
<1>2. CASE live # {}
  <2>1. live \in SUBSET Nat
    OBVIOUS
  <2>2. Min(live) \in live
    BY <1>2, <2>1, LeastFacts
  <2>3. first \in Records
    BY <2>2
  <2>4. first.key \in Keys /\ first.val \in Values
    BY <2>3 DEF Records
  <2>5. Recovered(d) = repositioned(u)
    BY <1>2 DEF Recovered, LiveIn
  <2>6. Taken(d) = [k \in Keys |-> IF first.key = k THEN first.val ELSE NoValue]
    BY <1>2 DEF Taken
  <2> HIDE DEF live, first
  <2>7. Ordered(u) /\ Tabulates(Stored(u), [Nothing EXCEPT ![first.key] = first.val])
    BY <2>4, FirstPut
  <2> HIDE DEF u
  <2>8. /\ Ordered(repositioned(u)) /\ SamePairs(Stored(repositioned(u)), Stored(u))
        /\ Logged(Stored(repositioned(u)), written(u))
    BY <2>7, Repositioned
  <2>9. [Nothing EXCEPT ![first.key] = first.val] = Taken(d)
    BY <2>4, <2>6 DEF Nothing
  <2>10. Tabulates(Stored(u), Taken(d))
    BY <2>7, <2>9
  <2>11. Stored(u) \in SUBSET TablePairs /\ Stored(repositioned(u)) \in SUBSET TablePairs
    BY <2>7, <2>8, StoredFacts
  <2>12. Tabulates(Stored(repositioned(u)), Taken(d))
    BY <2>8, <2>10, <2>11, SameTabulates
  <2>13. Logged(Stored(repositioned(u)), written(repositioned(u)))
    BY <2>7, Repositioned
  <2>14. QED
    BY <2>5, <2>8, <2>12, <2>13
<1>3. QED
  BY <1>1, <1>2

-----------------------------------------------------------------------------
(*****************************************************************************)
(* The inductive invariant: the table is in order and stores what it took    *)
(* up and what its callers did since, and the live records of its file are   *)
(* its pairs. Those of the file as a crash leaves it (synced) are pairs of   *)
(* the map as it is or as it was before the last change.                     *)
(*****************************************************************************)
TInv ==
    /\ persistent \in BOOLEAN
    /\ Ordered(ht)
    /\ file \in Seq(Records) /\ synced \in Seq(Records)
    /\ Tabulates(Stored(ht), content)
    /\ persistent => /\ Logged(Stored(ht), file)
                     /\ Current(synced, content) \/ Current(synced, before)

\* The file of a table that is in order.
LEMMA FileIsCurrent ==
    ASSUME TInv, persistent
    PROVE  Current(file, content)
<1>1. Logged(Stored(ht), file) /\ \A x \in Stored(ht) : content[x.key] = x.val
  BY DEF TInv, Tabulates
<1>2. QED
  BY <1>1, LiveIsCurrent

LEMMA TableStarts == ASSUME TableInit PROVE TInv
<1>1. ht = NewTable /\ file = <<>> /\ synced = <<>> /\ content = Nothing /\ persistent \in BOOLEAN
  BY DEF TableInit
<1>2. Tabulates({}, Nothing)
  BY DEF Tabulates, Nothing
<1>3. <<>> \in Seq(Records) /\ Current(<<>>, content)
  BY DEF Current
<1>4. QED
  BY <1>1, <1>2, <1>3, EmptyTable DEF TInv

LEMMA PutKeeps ==
    ASSUME TInv, NEW k \in Keys, NEW v \in Values, PutPair(k, v)
    PROVE  TInv'
<1> DEFINE done == put(ht, file, k, v)
<1>1. /\ ht' = done.table /\ persistent' = persistent
      /\ content' = [content EXCEPT ![k] = v]
  BY DEF PutPair
<1>2. IF persistent THEN file' = done.file /\ synced' = done.seek
                    ELSE file' = file /\ synced' = synced
  BY DEF PutPair
<1>3. /\ Ordered(ht) /\ file \in Seq(Records) /\ synced \in Seq(Records)
      /\ persistent \in BOOLEAN /\ Tabulates(Stored(ht), content)
      /\ persistent => Logged(Stored(ht), file)
  BY DEF TInv
<1>4. /\ Ordered(done.table)
      /\ Stored(done.table) = But(Stored(ht), k) \cup {Pair(k, v, Len(file) + 1)}
  BY <1>3, PutStored
<1>5. Tabulates(Stored(done.table), [content EXCEPT ![k] = v])
  <2> HIDE DEF done
  <2>1. Stored(ht) \in SUBSET TablePairs
    BY <1>3, StoredFacts
  <2>2. Tabulates(But(Stored(ht), k) \cup {Pair(k, v, Len(file) + 1)},
                  [content EXCEPT ![k] = v])
    BY <1>3, <2>1, PutTabulates
  <2>3. QED
    BY <1>4, <2>2
<1>6. CASE persistent
  <2>1. Logged(Stored(done.table), done.file) /\ Logged(But(Stored(ht), k), done.seek)
    BY <1>3, <1>6, PutLogged
  <2> HIDE DEF done
  <2>2. done.file \in Seq(Records) /\ done.seek \in Seq(Records)
    BY <2>1 DEF Logged
  <2>3. \A x \in But(Stored(ht), k) : content[x.key] = x.val
    BY <1>3 DEF Tabulates, But
  <2>4. Current(done.seek, content)
    BY <2>1, <2>3, LiveIsCurrent
  <2>5. Current(synced', before')
    BY <1>1, <1>2, <1>6, <2>4 DEF PutPair
  <2>6. QED
    BY <1>1, <1>2, <1>3, <1>4, <1>5, <1>6, <2>1, <2>2, <2>5 DEF TInv
<1>7. CASE ~persistent
  <2> HIDE DEF done
  <2>1. QED
    BY <1>1, <1>2, <1>3, <1>4, <1>5, <1>7 DEF TInv
<1>8. QED
  BY <1>6, <1>7

LEMMA RemoveKeeps ==
    ASSUME TInv, NEW k \in Keys, RemoveKey(k)
    PROVE  TInv'
<1> DEFINE s == Slot(k, ht.size)
           i == Min(Places(ht, k))
           x == ht.chain[s][i]
           cut == [ht EXCEPT !.chain[s] = RemoveAt(@, i), !.numEl = @ - 1]
           full == ht.nRem + 1 = magicNumber
           u == repositioned(cut)
<1>1. /\ Places(ht, k) # {} /\ persistent' = persistent
      /\ content' = [content EXCEPT ![k] = NoValue]
  BY DEF RemoveKey
<1>2. ht' = IF full /\ persistent THEN [u EXCEPT !.nRem = 0]
                                  ELSE [cut EXCEPT !.nRem = IF full THEN 0 ELSE @ + 1]
  BY DEF RemoveKey
<1>3. IF ~persistent THEN file' = file /\ synced' = synced
      ELSE IF full THEN file' = written(cut) /\ synced' = <<>>
      ELSE file' = Marked(file, x.pos) /\ synced' = file
  BY DEF RemoveKey
<1>4. /\ Ordered(ht) /\ file \in Seq(Records) /\ synced \in Seq(Records)
      /\ persistent \in BOOLEAN /\ Tabulates(Stored(ht), content)
      /\ persistent => Logged(Stored(ht), file)
  BY DEF TInv
<1>5. Ordered(cut) /\ Stored(cut) = But(Stored(ht), k)
  BY <1>1, <1>4, RemoveStored
<1>6. Tabulates(Stored(cut), [content EXCEPT ![k] = NoValue])
  BY <1>4, <1>5, StoredFacts, CutTabulates
<1>7. x \in Stored(ht) /\ x.key = k
  <2>1. s \in 0..ht.size - 1 /\ i \in 1..Len(ht.chain[s]) /\ ht.chain[s][i].key = k
    BY <1>1, <1>4, PlacesFacts
  <2> HIDE DEF s, i
  <2>2. QED
    BY <1>4, <2>1, ChainFacts
<1>8. ht.nRem \in Int /\ cut.nRem = ht.nRem
  BY <1>4 DEF Ordered, Tables
<1> HIDE DEF cut, x, s, i
<1>9. CASE persistent /\ full
  <2>1. /\ Ordered(u) /\ SamePairs(Stored(u), Stored(cut)) /\ Logged(Stored(u), written(cut))
    BY <1>5, Repositioned
  <2> HIDE DEF u
  <2>2. Stored(u) \in SUBSET TablePairs /\ Stored(cut) \in SUBSET TablePairs
    BY <1>5, <2>1, StoredFacts
  <2>3. Tabulates(Stored(u), content')
    BY <1>1, <1>6, <2>1, <2>2, SameTabulates
  <2>4. ht' = [u EXCEPT !.nRem = 0] /\ file' = written(cut) /\ synced' = <<>>
    BY <1>2, <1>3, <1>9
  <2>5. Ordered(ht') /\ Stored(ht') = Stored(u)
    <3>1. ht' = Counted(u, 0)
      BY <2>4 DEF Counted
    <3>2. QED
      BY <2>1, <3>1, CountedFacts
  <2>6. file' \in Seq(Records) /\ synced' \in Seq(Records) /\ Current(synced', content')
    BY <2>1, <2>4 DEF Logged, Current
  <2>7. QED
    BY <1>1, <1>4, <2>1, <2>3, <2>4, <2>5, <2>6 DEF TInv
<1>10. CASE ~(persistent /\ full)
  <2>1. PICK r \in Int : ht' = Counted(cut, r)
    <3>1. CASE full
      <4>1. ht' = Counted(cut, 0)
        BY <1>2, <1>10, <3>1 DEF Counted
      <4>2. QED
        BY <4>1
    <3>2. CASE ~full
      <4>1. ht' = Counted(cut, cut.nRem + 1)
        BY <1>2, <1>10, <3>2 DEF Counted
      <4>2. QED
        BY <1>8, <4>1
    <3>3. QED
      BY <3>1, <3>2
  <2>2. Ordered(ht') /\ Stored(ht') = Stored(cut)
    BY <1>5, <2>1, CountedFacts
  <2>3. CASE persistent
    <3>1. file' = Marked(file, x.pos) /\ synced' = file
      BY <1>3, <1>10, <2>3
    <3>2. Stored(ht) \in SUBSET TablePairs /\ \A y, z \in Stored(ht) : y.key = z.key => y = z
      BY <1>4, StoredFacts
    <3>3. Logged(Stored(ht), file)
      BY <1>4, <2>3
    <3>4. Logged(But(Stored(ht), k), Marked(file, x.pos))
      BY <1>7, <3>2, <3>3, MarkedFile
    <3>5. Logged(Stored(ht'), file')
      BY <1>5, <2>2, <3>1, <3>4
    <3>6. file' \in Seq(Records) /\ synced' \in Seq(Records)
      BY <1>4, <3>1, <3>5 DEF Logged
    <3>7. Current(synced', before')
      BY <2>3, <3>1, FileIsCurrent DEF RemoveKey
    <3>8. QED
      BY <1>1, <1>4, <1>6, <2>2, <3>5, <3>6, <3>7 DEF TInv
  <2>4. CASE ~persistent
    BY <1>1, <1>3, <1>4, <1>6, <2>2, <2>4 DEF TInv
  <2>5. QED
    BY <1>4, <2>3, <2>4
<1>11. QED
  BY <1>9, <1>10

\* Opening the table takes it over from any file.
LEMMA OpenKeeps ==
    ASSUME TInv, NEW d \in Seq(Records), Open(d)
    PROVE  TInv'
<1>1. /\ ht' = IF persistent THEN Recovered(d) ELSE NewTable
      /\ IF persistent THEN file' = written(ht') ELSE file' = file
      /\ synced' = <<>> /\ persistent' = persistent
      /\ content' = IF persistent THEN Taken(d) ELSE Nothing
  BY DEF Open
<1>2. persistent \in BOOLEAN /\ file \in Seq(Records)
  BY DEF TInv
<1>3. Ordered(ht')
  BY <1>1, RecoveredFacts, EmptyTable
<1>4. Tabulates(Stored(ht'), content')
  <2>1. CASE persistent
    BY <1>1, <2>1, RecoveredFacts
  <2>2. CASE ~persistent
    <3>1. ht' = NewTable /\ content' = Nothing
      BY <1>1, <2>2
    <3>2. Tabulates({}, Nothing)
      BY DEF Tabulates, Nothing
    <3>3. QED
      BY <3>1, <3>2, EmptyTable
  <2>3. QED
    BY <2>1, <2>2
<1>5. CASE persistent
  <2>1. Logged(Stored(ht'), file')
    BY <1>1, <1>5, RecoveredFacts
  <2>2. file' \in Seq(Records) /\ Current(synced', content')
    BY <1>1, <2>1 DEF Logged, Current
  <2>3. QED
    BY <1>1, <1>2, <1>3, <1>4, <2>1, <2>2 DEF TInv
<1>6. CASE ~persistent
  BY <1>1, <1>2, <1>3, <1>4, <1>6 DEF TInv
<1>7. QED
  BY <1>2, <1>5, <1>6

LEMMA TableKeeps == ASSUME TInv, [TableNext]_htvars PROVE TInv'
<1>1. Ordered(ht) /\ file \in Seq(Records) /\ synced \in Seq(Records)
  BY DEF TInv
<1>2. ASSUME NEW k \in Keys, NEW v \in Values, PutPair(k, v) PROVE TInv'
  BY <1>2, PutKeeps
<1>3. ASSUME NEW k \in Keys, RemoveKey(k) PROVE TInv'
  BY <1>3, RemoveKeeps
<1>4. CASE CrashAndOpen
  BY <1>1, <1>4, OpenKeeps DEF CrashAndOpen
<1>5. CASE CloseAndOpen
  <2>1. written(ht) \in Seq(Records)
    BY <1>1, WrittenFacts
  <2>2. QED
    BY <1>5, <2>1, OpenKeeps DEF CloseAndOpen
<1>6. CASE UNCHANGED htvars
  BY <1>6 DEF TInv, htvars
<1>7. QED
  BY <1>2, <1>3, <1>4, <1>5, <1>6 DEF TableNext

LEMMA TableInductive == TableSpec => []TInv
<1>1. TableInit => TInv
  BY TableStarts
<1>2. TInv /\ [TableNext]_htvars => TInv'
  BY TableKeeps
<1>3. QED
  BY <1>1, <1>2, PTL DEF TableSpec

LEMMA TableIsExact == ASSUME TInv PROVE TableExact
<1>1. Ordered(ht) /\ Tabulates(Stored(ht), content)
  BY DEF TInv
<1>2. \A k \in Keys : get(ht, k) = content[k]
  BY <1>1, TabulatesGet
<1>3. DOMAIN ht.chain = 0..ht.size - 1
  BY <1>1 DEF Ordered
<1>4. ASSUME NEW s \in 0..ht.size - 1
      PROVE  \A i, j \in DOMAIN ht.chain[s] :
                /\ Slot(ht.chain[s][i].key, ht.size) = s
                /\ ht.chain[s][i].key = ht.chain[s][j].key => i = j
  <2>1. /\ DOMAIN ht.chain[s] = 1..Len(ht.chain[s])
        /\ \A i \in 1..Len(ht.chain[s]) : Slot(ht.chain[s][i].key, ht.size) = s
        /\ \A i, j \in 1..Len(ht.chain[s]) :
              ht.chain[s][i].key = ht.chain[s][j].key => i = j
    BY <1>1, ChainFacts
  <2>2. QED
    BY <2>1
<1>5. QED
  BY <1>2, <1>3, <1>4 DEF TableExact

LEMMA LogIsCurrent == ASSUME TInv PROVE LogCurrent
<1> SUFFICES ASSUME persistent PROVE LogCurrent
  BY DEF LogCurrent
<1>1. /\ Ordered(ht) /\ file \in Seq(Records)
      /\ Tabulates(Stored(ht), content) /\ Logged(Stored(ht), file)
  BY DEF TInv
<1>2. DOMAIN ht.chain = 0..ht.size - 1
  BY <1>1 DEF Ordered
<1>3. \A n \in DOMAIN file : file[n].live => content[file[n].key] = file[n].val
  BY FileIsCurrent DEF Current
<1>4. ASSUME NEW s \in 0..ht.size - 1, NEW i \in DOMAIN ht.chain[s]
      PROVE  LET pair == ht.chain[s][i]
             IN  pair.pos \in DOMAIN file /\ file[pair.pos] = Record(pair.key, pair.val)
  <2>1. ht.chain[s][i] \in Stored(ht)
    BY <1>1, ChainFacts
  <2>2. QED
    BY <1>1, <2>1 DEF Logged
<1>5. QED
  BY <1>2, <1>3, <1>4 DEF LogCurrent

\* What a file brings back are pairs of the map its live records are of.
LEMMA TakenIsCurrent ==
    ASSUME NEW d \in Seq(Records), NEW m, Current(d, m), NEW k \in Keys
    PROVE  Taken(d)[k] \in {NoValue, m[k]}
<1> DEFINE live == {i \in DOMAIN d : d[i].live}
<1>1. CASE live # {} /\ d[Min(live)].key = k
  <2>1. live \in SUBSET Nat
    OBVIOUS
  <2>2. Min(live) \in live
    BY <1>1, <2>1, LeastFacts
  <2>3. d[Min(live)].val = m[k]
    BY <1>1, <2>2 DEF Current
  <2>4. Taken(d)[k] = d[Min(live)].val
    BY <1>1 DEF Taken
  <2>5. QED
    BY <2>3, <2>4
<1>2. CASE ~(live # {} /\ d[Min(live)].key = k)
  BY <1>2 DEF Taken
<1>3. QED
  BY <1>1, <1>2

\* An opened table finds what it took up.
LEMMA OpenFinds ==
    ASSUME TInv, NEW d \in Seq(Records), Open(d), NEW m, persistent => Current(d, m),
           NEW k \in Keys
    PROVE  get(ht', k) \in {NoValue, m[k]}
<1>1. Ordered(ht') /\ Tabulates(Stored(ht'), content')
  BY OpenKeeps DEF TInv
<1>2. get(ht', k) = content'[k]
  BY <1>1, TabulatesGet
<1>3. content' = IF persistent THEN Taken(d) ELSE Nothing
  BY DEF Open
<1>4. QED
  BY <1>2, <1>3, TakenIsCurrent DEF Nothing

LEMMA OpeningIsCurrent ==
    ASSUME TInv, NEW k \in Keys
    PROVE  /\ CloseAndOpen => get(ht', k) \in {NoValue, content[k]}
           /\ CrashAndOpen => get(ht', k) \in {NoValue, content[k], before[k]}
<1>1. Ordered(ht) /\ file \in Seq(Records) /\ synced \in Seq(Records)
  BY DEF TInv
<1>2. CASE CloseAndOpen
  <2>1. written(ht) \in Seq(Records)
    BY <1>1, WrittenFacts
  <2>2. Current(written(ht), content)
    <3> DEFINE S == Stored(repositioned(ht))
    <3>1. SamePairs(S, Stored(ht)) /\ Logged(S, written(ht))
      BY <1>1, Repositioned
    <3>2. \A x \in S : content[x.key] = x.val
      BY <3>1 DEF SamePairs, TInv, Tabulates
    <3> HIDE DEF S
    <3>3. QED
      BY <3>1, <3>2, LiveIsCurrent
  <2>3. get(ht', k) \in {NoValue, content[k]}
    BY <1>2, <2>1, <2>2, OpenFinds DEF CloseAndOpen
  <2>4. QED
    BY <2>3
<1>3. CASE CrashAndOpen
  <2>1. PICK d \in {synced, file} : Open(d)
    BY <1>3 DEF CrashAndOpen
  <2>2. d \in Seq(Records)
    BY <1>1
  <2>3. CASE persistent => Current(d, content)
    <3>1. get(ht', k) \in {NoValue, content[k]}
      BY <2>1, <2>2, <2>3, OpenFinds
    <3>2. QED
      BY <1>2, <3>1
  <2>4. CASE persistent => Current(d, before)
    <3>1. get(ht', k) \in {NoValue, before[k]}
      BY <2>1, <2>2, <2>4, OpenFinds
    <3>2. QED
      BY <1>2, <3>1
  <2>5. QED
    BY <2>1, <2>3, <2>4, FileIsCurrent DEF TInv
<1>4. QED
  BY <1>2, <1>3

\* Between two openings the table of a server is the map it took up with all that
\* was put and removed since: put, remove, a resize and a rewrite of the log keep
\* every key once, in its chain, with its last value.
THEOREM TableStaysExact == TableSpec => []TableExact
  BY TableInductive, TableIsExact, PTL

\* What is flushed of the log brings back no removed key and no old value, and
\* a mark never hits the record of another key.
THEOREM LogStaysCurrent == TableSpec => []LogCurrent
  BY TableInductive, LogIsCurrent, PTL

\* What readFile takes up was in the map when the table was closed, and after a
\* crash at the latest before the last change: marked records stay away.
THEOREM OpeningsCurrent == TableSpec => OpensCurrent
<1>1. TInv /\ [TableNext]_htvars =>
        [/\ CloseAndOpen => \A k \in Keys : get(ht', k) \in {NoValue, content[k]}
         /\ CrashAndOpen => \A k \in Keys : get(ht', k) \in {NoValue, content[k], before[k]}
        ]_htvars
  BY OpeningIsCurrent
<1>2. QED
  BY <1>1, TableInductive, PTL DEF TableSpec, OpensCurrent
=============================================================================
