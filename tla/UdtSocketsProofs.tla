--------------------------- MODULE UdtSocketsProofs ---------------------------
(*****************************************************************************)
(* The tables of the sockets and the lists of the workers agree, for any     *)
(* number of sockets, peers and listeners: the theorem about UdtSockets.     *)
(*                                                                           *)
(* The argument. Registry alone is not inductive, for three reasons.         *)
(* removeSocket looks only at m_bOnList before it destroys a socket, so who  *)
(* is in the new entries, the hash or the list of a worker must be marked so *)
(* and be a user of that worker's multiplexer (Agrees), which in turn needs  *)
(* that only a connected socket is entered, and only once (Staged). A        *)
(* listener takes its queue along, so the queue must hold only sockets of    *)
(* that listener that nobody has accepted (Queued): they are then in no      *)
(* other queue, and the program cannot have closed them. And a listener must *)
(* still be opened when the collector closes it, or CUDT::close does not     *)
(* have its worker forget it (Agrees). Counted is the count itself; it       *)
(* changes by one where a socket comes to use a multiplexer (bind, connect,  *)
(* newConnection) or is destroyed (removeSocket). SInv joins them.           *)
(*                                                                           *)
(* A step that changes one socket and no multiplexer is SocketStep, or       *)
(* AlikeStep if it changes nothing the invariant speaks of; one that changes *)
(* one socket and one multiplexer is MuxStep. What closing does to many at   *)
(* once is in Closing and Forgotten.                                         *)
(*****************************************************************************)
EXTENDS UdtSockets, FiniteSetTheorems, SequenceTheorems, TLAPS

-----------------------------------------------------------------------------
\* The values the fields of a socket take.
Statuses == {"INIT", "OPENED", "LISTENING", "CONNECTING", "CONNECTED", "CLOSED"}
Places == {"none", "sockets", "closed", "gone"}

SocketRecords ==
    [where : Places, status : Statuses, opened : BOOLEAN, connecting : BOOLEAN,
     connected : BOOLEAN, broken : BOOLEAN, closing : BOOLEAN, unread : BOOLEAN,
     onList : BOOLEAN, old : BOOLEAN, mux : Sockets \cup {None},
     peer : Peers \cup {None}, listen : Sockets \cup {None},
     queued : SUBSET Sockets, owned : BOOLEAN, leaving : BOOLEAN, connects : Nat]

\* A multiplexer. What is in its connectors does not matter here.
MuxRecord(x) ==
    /\ x = [refs |-> x.refs, listener |-> x.listener, hash |-> x.hash,
            timers |-> x.timers, new |-> x.new, connectors |-> x.connectors]
    /\ x.refs \in Nat /\ x.listener \in Sockets \cup {None}
    /\ x.hash \subseteq Sockets /\ x.timers \subseteq Sockets /\ x.new \in Seq(Sockets)

Typed ==
    /\ sock \in [Sockets -> SocketRecords]
    /\ DOMAIN mux = Sockets /\ mux = [m \in Sockets |-> mux[m]]
    /\ \A m \in Sockets : MuxRecord(mux[m])
    /\ accepting \in Sockets \cup {None}

\* What has no place has nothing else.
Placeless(u) == ~Live(u) => sock[u] = [NoSocket EXCEPT !.where = sock[u].where]

\* A socket has a multiplexer once it is bound, opened or on the list of timers;
\* it is opened while it is bound and nobody closes it; and it is on the list of
\* timers only when it has been connected.
Staged(u) ==
    /\ sock[u].status = "INIT" => sock[u].mux = None
    /\ sock[u].mux = None =>
          /\ sock[u].status \notin {"OPENED", "LISTENING", "CONNECTING"}
          /\ ~sock[u].opened /\ ~sock[u].onList
    /\ sock[u].status = "CONNECTING" =>
          sock[u].where = "sockets" /\ ~sock[u].connected /\ ~sock[u].leaving
    /\ Located(u) /\ sock[u].status \in {"OPENED", "CONNECTING"} =>
          sock[u].opened \/ sock[u].leaving
    /\ Located(u) /\ sock[u].status \in {"INIT", "OPENED", "CONNECTING"} =>
          sock[u].connected \/ sock[u].leaving \/ ~sock[u].onList
    /\ sock[u].leaving => sock[u].owned

\* A listener's queue holds its own sockets that nobody has accepted.
Queued(l) ==
    \A u \in sock[l].queued :
        /\ sock[u].where = "sockets" /\ sock[u].listen = l
        /\ ~sock[u].owned /\ u # accepting

\* The sockets that use a multiplexer.
UserOf(u, m) == Live(u) /\ sock[u].mux = m
Users(m) == {u \in Sockets : UserOf(u, m)}

Entered(m) == mux[m].timers \cup {mux[m].new[i] : i \in DOMAIN mux[m].new}

\* What a multiplexer and its worker know.
Agrees(m) ==
    /\ mux[m].refs = 0 => mux[m] = NoMux
    /\ mux[m].listener # None =>
         /\ UserOf(mux[m].listener, m)
         /\ sock[mux[m].listener].opened
         /\ sock[mux[m].listener].status \in {"LISTENING", "CLOSED"}
    /\ mux[m].hash \subseteq mux[m].timers
    /\ \A u \in Entered(m) : UserOf(u, m) /\ sock[u].onList
    /\ \A i \in DOMAIN mux[m].new : mux[m].new[i] \notin mux[m].timers
    /\ \A i, j \in DOMAIN mux[m].new : mux[m].new[i] = mux[m].new[j] => i = j

Counted(m) == mux[m].refs = Cardinality(Users(m))

SInv ==
    /\ Typed
    /\ \A u \in Sockets : Placeless(u) /\ Staged(u) /\ Queued(u)
    /\ \A m \in Sockets : Agrees(m) /\ Counted(m)
    /\ accepting # None => sock[accepting].where # "none"

-----------------------------------------------------------------------------
(*****************************************************************************)
(* What a step that changes one socket leaves to show.                       *)
(*****************************************************************************)
\* Only u changes, and no queue grows.
OnlyChanges(u) ==
    /\ \A v \in Sockets \ {u} : sock'[v] = sock[v]
    /\ sock'[u].queued \subseteq sock[u].queued

\* Whoever is in a queue stays what it is there.
StaysQueued(u) ==
    (\E l \in Sockets : u \in sock[l].queued) =>
        /\ sock'[u].where = "sockets" /\ sock'[u].listen = sock[u].listen
        /\ ~sock'[u].owned

\* A multiplexer that u uses stays in use by it.
StaysUser(u) ==
    /\ \A m \in Sockets : UserOf(u, m)' <=> UserOf(u, m)
    /\ sock'[u].where = "none" => sock[u].where = "none"
    /\ sock[u].onList => sock'[u].onList
    /\ \A m \in Sockets : mux[m].listener = u =>
         sock'[u].opened /\ sock'[u].status \in {"LISTENING", "CLOSED"}

LEMMA SocketKept ==
    ASSUME SInv, NEW u \in Sockets, OnlyChanges(u), StaysQueued(u),
           Placeless(u)', Staged(u)', accepting' \in {accepting, None}
    PROVE  \A v \in Sockets : Placeless(v)' /\ Staged(v)' /\ Queued(v)'
<1>1. ASSUME NEW v \in Sockets PROVE Placeless(v)' /\ Staged(v)'
  <2>1. CASE v = u
    BY <2>1
  <2>2. CASE v # u
    <3>1. sock'[v] = sock[v] /\ Placeless(v) /\ Staged(v)
      BY <2>2 DEF OnlyChanges, SInv
    <3>2. QED
      BY <3>1 DEF Placeless, Staged, Live, Located
  <2>3. QED
    BY <2>1, <2>2
<1>2. ASSUME NEW l \in Sockets, NEW v \in sock'[l].queued
      PROVE  sock'[v].where = "sockets" /\ sock'[v].listen = l
             /\ ~sock'[v].owned /\ v # accepting'
  <2>1. v \in sock[l].queued
    BY <1>2 DEF OnlyChanges
  <2>2. /\ sock[v].where = "sockets" /\ sock[v].listen = l
        /\ ~sock[v].owned /\ v # accepting /\ v \in Sockets
    BY <2>1 DEF SInv, Queued, Typed, SocketRecords
  <2>3. CASE v = u
    BY <2>1, <2>2, <2>3 DEF StaysQueued, None, Sockets
  <2>4. CASE v # u
    BY <2>2, <2>4 DEF OnlyChanges, None, Sockets
  <2>5. QED
    BY <2>3, <2>4
<1>3. QED
  BY <1>1, <1>2 DEF Queued

\* A multiplexer that does not change, and whose users stay.
LEMMA MuxStays ==
    ASSUME SInv, NEW m \in Sockets, mux'[m] = mux[m],
           \A u \in Sockets : sock'[u] = sock[u] \/ StaysUser(u)
    PROVE  Agrees(m)' /\ Counted(m)'
<1>1. ASSUME NEW u \in Sockets
      PROVE  /\ UserOf(u, m)' <=> UserOf(u, m)
             /\ sock[u].onList => sock'[u].onList
             /\ mux[m].listener = u =>
                  sock'[u].opened /\ sock'[u].status \in {"LISTENING", "CLOSED"}
  BY DEF StaysUser, UserOf, Live, SInv, Agrees, None, Sockets
<1>2. Users(m)' = Users(m)
  BY <1>1 DEF Users
<1>3. Counted(m)'
  BY <1>2 DEF Counted, SInv
<1>4. Agrees(m) /\ MuxRecord(mux[m])
  BY DEF SInv, Typed
<1>5. Entered(m)' = Entered(m) /\ Entered(m) \subseteq Sockets
  BY <1>4, ElementOfSeq DEF Entered, MuxRecord
<1>6. Agrees(m)'
  BY <1>1, <1>4, <1>5 DEF Agrees, MuxRecord, UserOf, Live
<1>7. QED
  BY <1>3, <1>6

\* A step of one socket that changes no multiplexer.
LEMMA SocketStep ==
    ASSUME SInv, NEW u \in Sockets, OnlyChanges(u), StaysQueued(u), StaysUser(u),
           Placeless(u)', Staged(u)', Typed',
           UNCHANGED mux, accepting' \in {accepting, None}
    PROVE  SInv'
<1>1. \A v \in Sockets : Placeless(v)' /\ Staged(v)' /\ Queued(v)'
  BY SocketKept
<1>2. ASSUME NEW m \in Sockets PROVE Agrees(m)' /\ Counted(m)'
  BY MuxStays DEF OnlyChanges
<1>3. accepting' # None => sock'[accepting'].where # "none"
  BY DEF SInv, OnlyChanges, StaysUser, Typed
<1>4. QED
  BY <1>1, <1>2, <1>3 DEF SInv

\* A socket that has no place.
LEMMA NoSocketFacts ==
    /\ NoSocket \in SocketRecords
    /\ NoSocket.where = "none" /\ NoSocket.status = "INIT" /\ NoSocket.mux = None
    /\ NoSocket.listen = None /\ NoSocket.queued = {}
    /\ ~NoSocket.opened /\ ~NoSocket.connected /\ ~NoSocket.onList
    /\ ~NoSocket.owned /\ ~NoSocket.leaving
BY DEF NoSocket, SocketRecords, Statuses, Places

LEMMA PlacelessFacts ==
    ASSUME SInv, NEW u \in Sockets, ~Live(u)
    PROVE  /\ sock[u].status = "INIT" /\ sock[u].mux = None
           /\ sock[u].listen = None /\ sock[u].queued = {}
           /\ ~sock[u].opened /\ ~sock[u].connected /\ ~sock[u].onList
           /\ ~sock[u].owned /\ ~sock[u].leaving
BY NoSocketFacts DEF SInv, Placeless, SocketRecords

\* What the invariant says of a socket is the same of x and y.
Alike(x, y) ==
    /\ x.where = y.where /\ x.status = y.status /\ x.opened = y.opened
    /\ x.connected = y.connected /\ x.onList = y.onList /\ x.mux = y.mux
    /\ x.listen = y.listen /\ x.queued = y.queued /\ x.owned = y.owned
    /\ x.leaving = y.leaving

LEMMA AlikeStep ==
    ASSUME SInv, NEW u \in Sockets, Live(u), NEW x \in SocketRecords,
           sock' = [sock EXCEPT ![u] = x], Alike(x, sock[u]),
           UNCHANGED <<mux, accepting>>
    PROVE  SInv'
<1>1. sock \in [Sockets -> SocketRecords]
  BY DEF SInv, Typed
<1>2. /\ sock' \in [Sockets -> SocketRecords] /\ sock'[u] = x
      /\ \A v \in Sockets \ {u} : sock'[v] = sock[v]
  BY <1>1
<1>3. Typed'
  BY <1>2 DEF SInv, Typed
<1>4. OnlyChanges(u) /\ Live(u)'
  BY <1>2 DEF OnlyChanges, Alike, Live
<1>5. StaysQueued(u)
  BY <1>2 DEF StaysQueued, SInv, Queued, Alike
<1>6. StaysUser(u)
  BY <1>2 DEF StaysUser, SInv, Agrees, Alike, UserOf, Live, None, Sockets
<1>7. Placeless(u)' /\ Staged(u)'
  BY <1>2, <1>4 DEF Placeless, SInv, Staged, Alike, Located
<1>8. QED
  BY <1>3, <1>4, <1>5, <1>6, <1>7, SocketStep

LEMMA Unchanged ==
    ASSUME SInv, UNCHANGED <<sock, mux, accepting>>
    PROVE  SInv'
BY DEF SInv, Typed, Placeless, Staged, Queued, Agrees, Counted, Users, UserOf,
       Entered, Live, Located

-----------------------------------------------------------------------------
(*****************************************************************************)
(* The steps.                                                                *)
(*****************************************************************************)
LEMMA KeptRecv ==
    ASSUME SInv, NEW u \in Sockets, recv(u)
    PROVE  SInv'
<1> DEFINE x == [sock[u] EXCEPT !.unread = FALSE]
<1>1. sock' = [sock EXCEPT ![u] = x] /\ Live(u) /\ UNCHANGED <<mux, accepting>>
  BY DEF recv, Located, Live
<1>2. sock[u] \in SocketRecords
  BY DEF SInv, Typed
<1>3. x \in SocketRecords /\ Alike(x, sock[u])
  BY <1>2 DEF SocketRecords, Alike
<1>4. QED
  BY <1>1, <1>3, AlikeStep

LEMMA KeptElapse ==
    ASSUME SInv, NEW u \in Sockets, Elapse(u)
    PROVE  SInv'
<1> DEFINE x == [sock[u] EXCEPT !.old = TRUE]
<1>1. /\ sock' = [sock EXCEPT ![u] = x] /\ UNCHANGED <<mux, accepting>>
      /\ sock[u].where = "closed" \/ sock[u].broken
  BY DEF Elapse
<1>2. sock[u] \in SocketRecords /\ Placeless(u)
  BY DEF SInv, Typed
<1>3. x \in SocketRecords /\ Alike(x, sock[u])
  BY <1>2 DEF SocketRecords, Alike
<1>4. Live(u)
  BY <1>1, <1>2 DEF Placeless, Live, NoSocket
<1>5. QED
  BY <1>1, <1>3, <1>4, AlikeStep

LEMMA KeptArrives ==
    ASSUME SInv, NEW m \in Sockets, NEW u \in Sockets, arrives(m, u)
    PROVE  SInv'
<1>1. sock[u] \in SocketRecords /\ Live(u)
  BY DEF SInv, Typed, arrives, Agrees, Entered, UserOf
<1>2. CASE sock' = [sock EXCEPT ![u].unread = TRUE]
  <2> DEFINE x == [sock[u] EXCEPT !.unread = TRUE]
  <2>1. sock' = [sock EXCEPT ![u] = x] /\ UNCHANGED <<mux, accepting>>
    BY <1>2 DEF arrives
  <2>2. x \in SocketRecords /\ Alike(x, sock[u])
    BY <1>1 DEF SocketRecords, Alike
  <2>3. QED
    BY <1>1, <2>1, <2>2, AlikeStep
<1>3. CASE sock' = [sock EXCEPT ![u].broken = TRUE, ![u].closing = TRUE]
  <2> DEFINE x == [sock[u] EXCEPT !.broken = TRUE, !.closing = TRUE]
  <2>1. sock' = [sock EXCEPT ![u] = x] /\ UNCHANGED <<mux, accepting>>
    BY <1>1, <1>3 DEF arrives, SInv, Typed
  <2>2. x \in SocketRecords /\ Alike(x, sock[u])
    BY <1>1 DEF SocketRecords, Alike
  <2>3. QED
    BY <1>1, <2>1, <2>2, AlikeStep
<1>4. QED
  BY <1>2, <1>3 DEF arrives

LEMMA KeptUpdate ==
    ASSUME SInv, NEW m \in Sockets, updateConnStatus(m)
    PROVE  SInv'
<1>1. UNCHANGED <<mux, accepting>>
  BY DEF updateConnStatus
<1>2. PICK u \in Range(mux[m].connectors) :
          \/ /\ Live(u) /\ sock[u].connecting
             /\ sock' = [sock EXCEPT ![u].connecting = FALSE]
          \/ UNCHANGED sock
  BY DEF updateConnStatus
<1>3. CASE UNCHANGED sock
  BY <1>1, <1>3, Unchanged
<1>4. CASE /\ Live(u) /\ sock[u].connecting
           /\ sock' = [sock EXCEPT ![u].connecting = FALSE]
  <2> DEFINE x == [sock[u] EXCEPT !.connecting = FALSE]
  <2>1. CASE u \notin Sockets
    <3>1. UNCHANGED sock
      BY <1>4, <2>1 DEF SInv, Typed
    <3>2. QED
      BY <1>1, <3>1, Unchanged
  <2>2. CASE u \in Sockets
    <3>1. sock[u] \in SocketRecords
      BY <2>2 DEF SInv, Typed
    <3>2. x \in SocketRecords /\ Alike(x, sock[u])
      BY <3>1 DEF SocketRecords, Alike
    <3>3. sock' = [sock EXCEPT ![u] = x]
      BY <1>4
    <3>4. QED
      BY <1>1, <1>4, <2>2, <3>2, <3>3, AlikeStep
  <2>3. QED
    BY <2>1, <2>2
<1>5. QED
  BY <1>2, <1>3, <1>4

LEMMA KeptCloseListener ==
    ASSUME SInv, NEW u \in Sockets, closeListener(u)
    PROVE  SInv'
<1> DEFINE x == [sock[u] EXCEPT !.broken = TRUE, !.old = FALSE]
<1>1. Live(u) /\ UNCHANGED <<mux, accepting>>
  BY DEF closeListener, Located, Live
<1>2. sock[u] \in SocketRecords
  BY DEF SInv, Typed
<1>3. sock' = [sock EXCEPT ![u] = x]
  BY DEF closeListener, SInv, Typed
<1>4. x \in SocketRecords /\ Alike(x, sock[u])
  BY <1>2 DEF SocketRecords, Alike
<1>5. QED
  BY <1>1, <1>3, <1>4, AlikeStep

LEMMA KeptNewSocket ==
    ASSUME SInv, NEW u \in Sockets, newSocket(u)
    PROVE  SInv'
<1> DEFINE x == [sock[u] EXCEPT !.where = "sockets", !.owned = TRUE]
<1>1. /\ sock[u].where = "none" /\ UNCHANGED <<mux, accepting>>
  BY DEF newSocket, Fresh
<1>2. sock[u] \in SocketRecords /\ ~Live(u) /\ sock[u] = NoSocket
  BY <1>1 DEF SInv, Typed, Placeless, Live, NoSocket
<1>3. sock' = [sock EXCEPT ![u] = x]
  BY DEF newSocket, SInv, Typed
<1>4. /\ x \in SocketRecords /\ x.where = "sockets" /\ x.status = "INIT"
      /\ ~x.opened /\ ~x.onList /\ x.mux = None /\ x.queued = {} /\ ~x.leaving
  BY <1>2, NoSocketFacts DEF SocketRecords, Places
<1> HIDE DEF x
<1>5. /\ sock' \in [Sockets -> SocketRecords] /\ sock'[u] = x
      /\ \A v \in Sockets \ {u} : sock'[v] = sock[v]
  BY <1>3, <1>4 DEF SInv, Typed
<1>6. Typed'
  BY <1>1, <1>5 DEF SInv, Typed
<1>7. OnlyChanges(u)
  BY <1>4, <1>5 DEF OnlyChanges
<1>8. StaysQueued(u)
  BY <1>1 DEF StaysQueued, SInv, Queued
<1>9. StaysUser(u)
  BY <1>1, <1>2, <1>4, <1>5, NoSocketFacts DEF StaysUser, SInv, Agrees, UserOf, Live, None, Sockets
<1>10. Placeless(u)' /\ Staged(u)'
  BY <1>4, <1>5 DEF Placeless, Live, Staged
<1>11. QED
  BY <1>1, <1>6, <1>7, <1>8, <1>9, <1>10, SocketStep

LEMMA KeptTimesOut ==
    ASSUME SInv, NEW u \in Sockets, connectTimesOut(u)
    PROVE  SInv'
<1> DEFINE x == [sock[u] EXCEPT !.status = "OPENED"]
<1>1. /\ sock[u].status = "CONNECTING" /\ UNCHANGED <<mux, accepting>>
      /\ sock' = [sock EXCEPT ![u] = x]
  BY DEF connectTimesOut
<1>2. sock[u] \in SocketRecords
  BY DEF SInv, Typed
<1>3. /\ x \in SocketRecords /\ x.where = sock[u].where /\ x.status = "OPENED"
      /\ x.opened = sock[u].opened /\ x.onList = sock[u].onList
      /\ x.mux = sock[u].mux /\ x.queued = sock[u].queued
      /\ x.leaving = sock[u].leaving /\ x.connected = sock[u].connected
      /\ x.listen = sock[u].listen /\ x.owned = sock[u].owned
  BY <1>2 DEF SocketRecords, Statuses
<1> HIDE DEF x
<1>4. /\ sock' \in [Sockets -> SocketRecords] /\ sock'[u] = x
      /\ \A v \in Sockets \ {u} : sock'[v] = sock[v]
  BY <1>1, <1>3 DEF SInv, Typed
<1>5. Typed'
  BY <1>1, <1>4 DEF SInv, Typed
<1>6. OnlyChanges(u)
  BY <1>3, <1>4 DEF OnlyChanges
<1>7. StaysQueued(u)
  BY <1>3, <1>4 DEF StaysQueued, SInv, Queued
<1>8. StaysUser(u)
  BY <1>1, <1>3, <1>4 DEF StaysUser, SInv, Agrees, UserOf, Live, None, Sockets
<1>9. Placeless(u)' /\ Staged(u)'
  BY <1>1, <1>3, <1>4 DEF SInv, Placeless, Live, Staged, Located, NoSocket
<1>10. QED
  BY <1>1, <1>5, <1>6, <1>7, <1>8, <1>9, SocketStep

LEMMA KeptCloseMoves ==
    ASSUME SInv, NEW u \in Sockets, closeMoves(u)
    PROVE  SInv'
<1> DEFINE x == IF Located(u)
                THEN [sock[u] EXCEPT !.leaving = FALSE, !.status = "CLOSED",
                                     !.old = FALSE, !.where = "closed"]
                ELSE [sock[u] EXCEPT !.leaving = FALSE]
<1>1. /\ sock[u].leaving /\ UNCHANGED <<mux, accepting>>
      /\ sock' = [sock EXCEPT ![u] = x]
  BY DEF closeMoves
<1>2. sock[u] \in SocketRecords
  BY DEF SInv, Typed
<1>3. /\ x \in SocketRecords /\ (x.opened <=> sock[u].opened) /\ (x.onList <=> sock[u].onList)
      /\ x.mux = sock[u].mux /\ x.queued = sock[u].queued
      /\ ~x.leaving /\ x.connected = sock[u].connected
      /\ x.listen = sock[u].listen /\ x.owned = sock[u].owned
      /\ \/ Located(u) /\ x.where = "closed" /\ x.status = "CLOSED"
         \/ ~Located(u) /\ x.where = sock[u].where /\ x.status = sock[u].status
  BY <1>2 DEF SocketRecords, Statuses, Places
<1> HIDE DEF x
<1>4. /\ sock' \in [Sockets -> SocketRecords] /\ sock'[u] = x
      /\ \A v \in Sockets \ {u} : sock'[v] = sock[v]
  BY <1>1, <1>3 DEF SInv, Typed
<1>5. Typed'
  BY <1>1, <1>4 DEF SInv, Typed
<1>6. OnlyChanges(u)
  BY <1>3, <1>4 DEF OnlyChanges
<1>7. StaysQueued(u)
  BY <1>1 DEF StaysQueued, SInv, Queued, Staged
<1>8. StaysUser(u)
  BY <1>1, <1>3, <1>4 DEF StaysUser, SInv, Agrees, UserOf, Live, Located, None, Sockets
<1>9. Placeless(u)' /\ Staged(u)'
  <2>1. Live(u)
    BY <1>1, PlacelessFacts
  <2>2. Live(u)' /\ Staged(u)
    BY <1>3, <1>4, <2>1 DEF SInv, Live
  <2>3. Placeless(u)'
    BY <2>2 DEF Placeless
  <2>4. Staged(u)'
    <3>1. sock'[u] = x
      BY <1>4
    <3>2. CASE Located(u)
      <4>1. /\ sock'[u].where = "closed" /\ sock'[u].status = "CLOSED"
            /\ ~sock'[u].leaving
        BY <1>3, <3>1, <3>2
      <4>2. sock'[u].opened \/ sock'[u].onList => sock'[u].mux # None
        BY <1>3, <2>2, <3>1 DEF Staged
      <4>3. QED
        BY <4>1, <4>2 DEF Staged, Located
    <3>3. CASE ~Located(u)
      BY <1>1, <1>3, <2>2, <3>1, <3>3 DEF Staged, Located
    <3>4. QED
      BY <3>2, <3>3
  <2>5. QED
    BY <2>3, <2>4
<1>10. QED
  BY <1>1, <1>5, <1>6, <1>7, <1>8, <1>9, SocketStep

LEMMA KeptAcceptLocates ==
    ASSUME SInv, acceptLocates
    PROVE  SInv'
<1>1. PICK u \in Sockets : accepting = u
  BY DEF acceptLocates, SInv, Typed
<1>2. accepting' = None /\ UNCHANGED mux
  BY DEF acceptLocates
<1> DEFINE x == [sock[u] EXCEPT !.owned = TRUE]
<1>3. CASE Located(u)
  <2>1. sock' = [sock EXCEPT ![u] = x]
    BY <1>1, <1>3 DEF acceptLocates
  <2>2. sock[u] \in SocketRecords
    BY <1>1 DEF SInv, Typed
  <2>3. /\ x \in SocketRecords /\ x.where = sock[u].where /\ x.status = sock[u].status
        /\ x.opened = sock[u].opened /\ x.onList = sock[u].onList
        /\ x.mux = sock[u].mux /\ x.queued = sock[u].queued
        /\ x.leaving = sock[u].leaving /\ x.connected = sock[u].connected
        /\ x.listen = sock[u].listen /\ x.owned
    BY <2>2 DEF SocketRecords
  <2> HIDE DEF x
  <2>4. /\ sock' \in [Sockets -> SocketRecords] /\ sock'[u] = x
        /\ \A v \in Sockets \ {u} : sock'[v] = sock[v]
    BY <1>1, <2>1, <2>3 DEF SInv, Typed
  <2>5. Typed'
    BY <1>2, <2>4 DEF SInv, Typed
  <2>6. OnlyChanges(u)
    BY <2>3, <2>4 DEF OnlyChanges
  <2>7. StaysQueued(u)
    BY <1>1 DEF StaysQueued, SInv, Queued
  <2>8. StaysUser(u)
    BY <2>3, <2>4 DEF StaysUser, SInv, Agrees, UserOf, Live, None, Sockets
  <2>9. Placeless(u)' /\ Staged(u)'
    BY <1>3, <2>3, <2>4 DEF SInv, Placeless, Live, Staged, Located
  <2>10. QED
    BY <1>2, <2>5, <2>6, <2>7, <2>8, <2>9, SocketStep
<1>4. CASE ~Located(u)
  <2>1. UNCHANGED sock
    BY <1>1, <1>4 DEF acceptLocates
  <2>2. OnlyChanges(u) /\ StaysQueued(u)
    BY <2>1 DEF OnlyChanges, StaysQueued, SInv, Queued
  <2>3. StaysUser(u)
    BY <2>1 DEF StaysUser, SInv, Agrees, UserOf, Live, None, Sockets
  <2>6. Placeless(u)' /\ Staged(u)'
    BY <2>1 DEF SInv, Placeless, Staged, Located, Live
  <2>4. Typed'
    BY <1>2, <2>1 DEF SInv, Typed
  <2>5. QED
    BY <1>2, <2>2, <2>3, <2>4, <2>6, SocketStep
<1>5. QED
  BY <1>3, <1>4

-----------------------------------------------------------------------------
(*****************************************************************************)
(* Steps that change a multiplexer.                                          *)
(*****************************************************************************)
\* The sockets of a multiplexer can be counted.
LEMMA UsersFinite ==
    ASSUME MaxSockets \in Nat, NEW m
    PROVE  IsFiniteSet(Users(m))
<1>1. IsFiniteSet(Sockets)
  BY FS_Interval DEF Sockets
<1>2. QED
  BY <1>1, FS_Subset DEF Users

\* A multiplexer somebody uses has a count.
LEMMA UsedIsCounted ==
    ASSUME MaxSockets \in Nat, SInv, NEW m \in Sockets, NEW u \in Users(m)
    PROVE  mux[m].refs \in Nat \ {0}
<1>1. IsFiniteSet(Users(m)) /\ mux[m].refs = Cardinality(Users(m))
  BY UsersFinite DEF SInv, Counted
<1>2. Cardinality(Users(m)) \in Nat /\ Cardinality(Users(m)) # 0
  BY <1>1, FS_CardinalityType, FS_EmptySet
<1>3. QED
  BY <1>1, <1>2

LEMMA OneMoreUser ==
    ASSUME MaxSockets \in Nat, SInv, NEW m \in Sockets, NEW u,
           u \notin Users(m), Users(m)' = Users(m) \cup {u},
           mux'[m].refs = mux[m].refs + 1
    PROVE  Counted(m)' /\ mux'[m].refs # 0
<1>1. IsFiniteSet(Users(m)) /\ mux[m].refs = Cardinality(Users(m))
  BY UsersFinite DEF SInv, Counted
<1>2. Cardinality(Users(m) \cup {u}) = Cardinality(Users(m)) + 1
  BY <1>1, FS_AddElement
<1>3. Counted(m)'
  BY <1>1, <1>2 DEF Counted
<1>4. mux[m].refs \in Nat
  BY <1>1, FS_CardinalityType
<1>5. QED
  BY <1>3, <1>4

LEMMA OneUserLess ==
    ASSUME MaxSockets \in Nat, SInv, NEW m \in Sockets, NEW u \in Users(m)
    PROVE  /\ Cardinality(Users(m) \ {u}) = mux[m].refs - 1
           /\ mux[m].refs \in Nat \ {0}
<1>1. IsFiniteSet(Users(m)) /\ mux[m].refs = Cardinality(Users(m))
  BY UsersFinite DEF SInv, Counted
<1>2. Cardinality(Users(m) \ {u}) = Cardinality(Users(m)) - 1
  BY <1>1, FS_RemoveElement
<1>3. QED
  BY <1>1, <1>2, UsedIsCounted

\* A step that changes one socket and one multiplexer.
LEMMA MuxStep ==
    ASSUME SInv, NEW u \in Sockets, NEW m \in Sockets,
           OnlyChanges(u), StaysQueued(u), accepting' = accepting,
           Placeless(u)', Staged(u)', Typed',
           sock'[u].where = "none" => sock[u].where = "none",
           \A n \in Sockets \ {m} :
               /\ mux'[n] = mux[n]
               /\ StaysUser(u) \/ (Agrees(n)' /\ Counted(n)'),
           Agrees(m)', Counted(m)'
    PROVE  SInv'
<1>1. \A v \in Sockets : Placeless(v)' /\ Staged(v)' /\ Queued(v)'
  BY SocketKept
<1>2. ASSUME NEW n \in Sockets PROVE Agrees(n)' /\ Counted(n)'
  <2>1. CASE n = m
    BY <2>1
  <2>2. CASE n # m
    <3>1. mux'[n] = mux[n] /\ (StaysUser(u) \/ (Agrees(n)' /\ Counted(n)'))
      BY <2>2
    <3>2. QED
      BY <3>1, MuxStays DEF OnlyChanges
  <2>3. QED
    BY <2>1, <2>2
<1>3. accepting' # None => sock'[accepting'].where # "none"
  BY DEF SInv, OnlyChanges, Typed
<1>4. QED
  BY <1>1, <1>2, <1>3 DEF SInv

\* The multiplexers u neither uses nor comes to use do not notice.
LEMMA OtherMuxes ==
    ASSUME SInv, NEW u \in Sockets, NEW n \in Sockets, OnlyChanges(u),
           mux'[n] = mux[n], ~UserOf(u, n), ~UserOf(u, n)'
    PROVE  Agrees(n)' /\ Counted(n)'
<1>1. \A v \in Sockets : UserOf(v, n)' <=> UserOf(v, n)
  BY DEF OnlyChanges, UserOf, Live
<1>2. Users(n)' = Users(n)
  BY <1>1 DEF Users
<1>3. Agrees(n) /\ MuxRecord(mux[n]) /\ Counted(n)
  BY DEF SInv, Typed
<1>4. Entered(n)' = Entered(n) /\ Entered(n) \subseteq Sockets
  BY <1>3, ElementOfSeq DEF Entered, MuxRecord
<1>5. \A v \in Entered(n) : UserOf(v, n) /\ v # u
  BY <1>3 DEF Agrees
<1>6. mux[n].listener # None =>
        mux[n].listener \in Sockets /\ mux[n].listener # u
  BY <1>3 DEF Agrees, MuxRecord
<1>7. Agrees(n)'
  BY <1>1, <1>3, <1>4, <1>5, <1>6 DEF Agrees, OnlyChanges
<1>8. QED
  BY <1>2, <1>3, <1>7 DEF Counted

LEMMA KeptBind ==
    ASSUME MaxSockets \in Nat, SInv, NEW u \in Sockets, bind(u)
    PROVE  SInv'
<1>1. PICK m \in Muxes(u) :
          /\ mux' = [mux EXCEPT ![m].refs = @ + 1]
          /\ sock' = [sock EXCEPT ![u].mux = m, ![u].opened = TRUE,
                                  ![u].status = "OPENED"]
  BY DEF bind
<1>2. /\ m \in Sockets /\ Located(u) /\ Live(u) /\ sock[u].status = "INIT"
      /\ ~sock[u].leaving /\ sock[u].owned /\ accepting' = accepting
  BY DEF bind, Muxes, Calls, Located, Live
<1>3. /\ sock[u] \in SocketRecords /\ MuxRecord(mux[m])
      /\ Staged(u) /\ Placeless(u) /\ Agrees(m)
  BY <1>2 DEF SInv, Typed
<1> DEFINE x == [sock[u] EXCEPT !.mux = m, !.opened = TRUE, !.status = "OPENED"]
           y == [mux[m] EXCEPT !.refs = @ + 1]
<1>4. sock' = [sock EXCEPT ![u] = x] /\ mux' = [mux EXCEPT ![m] = y]
  BY <1>1, <1>2 DEF SInv, Typed
<1>5. /\ x \in SocketRecords /\ x.where = sock[u].where /\ x.status = "OPENED"
      /\ x.opened /\ (x.onList <=> sock[u].onList)
      /\ x.mux = m /\ x.queued = sock[u].queued
      /\ ~x.leaving /\ (x.connected <=> sock[u].connected)
      /\ x.listen = sock[u].listen /\ x.owned
  BY <1>2, <1>3 DEF SocketRecords, Statuses
<1>6. /\ MuxRecord(y) /\ y.refs = mux[m].refs + 1 /\ y.listener = mux[m].listener
      /\ y.hash = mux[m].hash /\ y.timers = mux[m].timers /\ y.new = mux[m].new
  BY <1>3 DEF MuxRecord
<1> HIDE DEF x, y
<1>7. /\ sock' \in [Sockets -> SocketRecords] /\ sock'[u] = x
      /\ \A v \in Sockets \ {u} : sock'[v] = sock[v]
  BY <1>4, <1>5 DEF SInv, Typed
<1>8. /\ DOMAIN mux' = Sockets /\ mux' = [n \in Sockets |-> mux'[n]] /\ mux'[m] = y
      /\ \A n \in Sockets \ {m} : mux'[n] = mux[n]
  BY <1>2, <1>4 DEF SInv, Typed
<1>9. Typed'
  BY <1>2, <1>6, <1>7, <1>8 DEF SInv, Typed
<1>10. OnlyChanges(u)
  BY <1>5, <1>7 DEF OnlyChanges
<1>11. StaysQueued(u)
  BY <1>2 DEF StaysQueued, SInv, Queued
<1>12. sock[u].mux = None /\ m # None
  BY <1>2, <1>3 DEF Staged, None, Sockets
<1>13. Live(u)' /\ UserOf(u, m)'
  BY <1>2, <1>5, <1>7 DEF UserOf, Live
<1>14. Placeless(u)'
  BY <1>13 DEF Placeless
<1>15. Staged(u)'
  BY <1>2, <1>3, <1>5, <1>7, <1>12 DEF Staged, Located
<1>16. \A v \in Sockets : ~UserOf(u, v)
  BY <1>12 DEF UserOf, None, Sockets
<1>17. ASSUME NEW n \in Sockets \ {m}
       PROVE  mux'[n] = mux[n] /\ Agrees(n)' /\ Counted(n)'
  <2>1. ~UserOf(u, n)'
    BY <1>5, <1>7 DEF UserOf
  <2>2. QED
    BY <1>8, <1>10, <1>16, <2>1, OtherMuxes
<1>18. \A v \in Sockets \ {u} : UserOf(v, m)' <=> UserOf(v, m)
  BY <1>7 DEF UserOf, Live
<1>19. Users(m)' = Users(m) \cup {u} /\ u \notin Users(m)
  BY <1>13, <1>16, <1>18, <1>2 DEF Users
<1>20. Counted(m)' /\ mux'[m].refs # 0
  BY <1>2, <1>6, <1>8, <1>19, OneMoreUser
<1>21. Agrees(m)'
  <2>1. Entered(m)' = Entered(m) /\ Entered(m) \subseteq Sockets
    BY <1>3, <1>6, <1>8, ElementOfSeq DEF Entered, MuxRecord
  <2>2. \A v \in Entered(m) : v # u /\ UserOf(v, m) /\ sock[v].onList
    BY <1>2, <1>3, <1>16 DEF Agrees
  <2>3. mux[m].listener # None =>
          mux[m].listener \in Sockets /\ mux[m].listener # u
    BY <1>2, <1>3, <1>16 DEF Agrees, MuxRecord
  <2>4. QED
    BY <1>3, <1>6, <1>7, <1>8, <1>18, <1>20, <2>1, <2>2, <2>3 DEF Agrees
<1>22. QED
  BY <1>2, <1>5, <1>7, <1>9, <1>10, <1>11, <1>14, <1>15, <1>17, <1>20, <1>21, MuxStep
     DEF Located

LEMMA KeptListen ==
    ASSUME MaxSockets \in Nat, SInv, NEW u \in Sockets, listen(u)
    PROVE  SInv'
<1>1. PICK m : m = sock[u].mux
  OBVIOUS
<1>2. /\ sock[u] \in SocketRecords /\ Staged(u) /\ Placeless(u)
      /\ Located(u) /\ Live(u) /\ sock[u].status = "OPENED"
      /\ ~sock[u].leaving /\ sock[u].owned /\ accepting' = accepting
  BY DEF listen, Calls, Located, Live, SInv, Typed
<1>3. m \in Sockets /\ UserOf(u, m) /\ sock[u].opened
  BY <1>1, <1>2 DEF Staged, UserOf, SocketRecords
<1>4. MuxRecord(mux[m]) /\ Agrees(m)
  BY <1>3 DEF SInv, Typed
<1> DEFINE x == [sock[u] EXCEPT !.status = "LISTENING"]
           y == [mux[m] EXCEPT !.listener = u]
<1>5. sock' = [sock EXCEPT ![u] = x] /\ mux' = [mux EXCEPT ![m] = y]
  BY <1>1 DEF listen
<1>6. /\ x \in SocketRecords /\ x.where = sock[u].where /\ x.status = "LISTENING"
      /\ x.opened /\ (x.onList <=> sock[u].onList)
      /\ x.mux = m /\ x.queued = sock[u].queued
      /\ ~x.leaving /\ (x.connected <=> sock[u].connected)
      /\ x.listen = sock[u].listen /\ x.owned
  BY <1>1, <1>2, <1>3 DEF SocketRecords, Statuses
<1>7. /\ MuxRecord(y) /\ y.refs = mux[m].refs /\ y.listener = u
      /\ y.hash = mux[m].hash /\ y.timers = mux[m].timers /\ y.new = mux[m].new
  BY <1>4 DEF MuxRecord
<1> HIDE DEF x, y
<1>8. /\ sock' \in [Sockets -> SocketRecords] /\ sock'[u] = x
      /\ \A v \in Sockets \ {u} : sock'[v] = sock[v]
  BY <1>5, <1>6 DEF SInv, Typed
<1>9. /\ DOMAIN mux' = Sockets /\ mux' = [n \in Sockets |-> mux'[n]] /\ mux'[m] = y
      /\ \A n \in Sockets \ {m} : mux'[n] = mux[n]
  BY <1>3, <1>5 DEF SInv, Typed
<1>10. Typed'
  BY <1>2, <1>7, <1>8, <1>9 DEF SInv, Typed
<1>11. OnlyChanges(u)
  BY <1>6, <1>8 DEF OnlyChanges
<1>12. StaysQueued(u)
  BY <1>2 DEF StaysQueued, SInv, Queued
<1>13. Live(u)' /\ UserOf(u, m)' /\ Placeless(u)'
  BY <1>2, <1>6, <1>8 DEF UserOf, Live, Placeless
<1>14. Staged(u)'
  BY <1>3, <1>6, <1>8 DEF Staged, Located, None, Sockets
<1>15. ASSUME NEW n \in Sockets \ {m}
       PROVE  mux'[n] = mux[n] /\ Agrees(n)' /\ Counted(n)'
  <2>1. ~UserOf(u, n)' /\ ~UserOf(u, n)
    BY <1>1, <1>6, <1>8 DEF UserOf
  <2>2. QED
    BY <1>9, <1>11, <2>1, OtherMuxes
<1>16. \A v \in Sockets : UserOf(v, m)' <=> UserOf(v, m)
  BY <1>3, <1>8, <1>13 DEF UserOf, Live
<1>17. Users(m)' = Users(m) /\ Counted(m)'
  BY <1>3, <1>7, <1>9, <1>16 DEF Users, Counted, SInv
<1>18. mux'[m].refs # 0
  BY <1>3, <1>7, <1>9, UsedIsCounted DEF Users
<1>19. Agrees(m)'
  <2>1. Entered(m)' = Entered(m) /\ Entered(m) \subseteq Sockets
    BY <1>4, <1>7, <1>9, ElementOfSeq DEF Entered, MuxRecord
  <2>2. \A v \in Entered(m) : UserOf(v, m) /\ sock[v].onList
    BY <1>4 DEF Agrees
  <2>3. \A v \in Entered(m) : UserOf(v, m)' /\ sock'[v].onList
    BY <1>6, <1>8, <1>16, <2>1, <2>2
  <2>4. QED
    BY <1>4, <1>6, <1>7, <1>8, <1>9, <1>13, <1>18, <2>1, <2>3 DEF Agrees
<1>20. QED
  BY <1>2, <1>3, <1>6, <1>8, <1>10, <1>11, <1>12, <1>13, <1>14, <1>15, <1>17, <1>19, MuxStep
     DEF Located

LEMMA KeptConnect ==
    ASSUME MaxSockets \in Nat, SInv, NEW u \in Sockets, connect(u)
    PROVE  SInv'
<1>1. PICK m : m = IF sock[u].status = "INIT" THEN u ELSE sock[u].mux
  OBVIOUS
<1>2. /\ sock[u] \in SocketRecords /\ Staged(u) /\ Placeless(u)
      /\ Located(u) /\ Live(u) /\ sock[u].status \in {"INIT", "OPENED"}
      /\ ~sock[u].connected /\ sock[u].where = "sockets"
      /\ ~sock[u].leaving /\ sock[u].owned /\ accepting' = accepting
  BY DEF connect, Calls, Located, Live, SInv, Typed
<1>3. /\ m \in Sockets /\ ~sock[u].onList
      /\ sock[u].status = "INIT" => sock[u].mux = None
      /\ sock[u].status # "INIT" => sock[u].mux = m
  BY <1>1, <1>2 DEF Staged, SocketRecords
<1>4. MuxRecord(mux[m]) /\ Agrees(m)
  BY <1>3 DEF SInv, Typed
<1>5. PICK r : r = IF sock[u].status = "INIT" THEN mux[m].refs + 1 ELSE mux[m].refs
  OBVIOUS
<1>5a. r \in Nat /\ sock[u].connects \in Nat
  BY <1>2, <1>4, <1>5 DEF MuxRecord, SocketRecords
<1>5b. PICK c : c = sock[u].connects + 1
  OBVIOUS
<1>5c. PICK q : q = Append(mux[m].connectors, u)
  OBVIOUS
<1>5d. PICK x : x = [sock[u] EXCEPT !.mux = m, !.opened = TRUE, !.connecting = TRUE,
                                    !.connects = c, !.status = "CONNECTING"]
  OBVIOUS
<1>5e. PICK y : y = [mux[m] EXCEPT !.refs = r, !.connectors = q]
  OBVIOUS
<1>6. sock' = [sock EXCEPT ![u] = x]
  BY <1>1, <1>2, <1>5b, <1>5d DEF connect, SInv, Typed
<1>7. mux' = [mux EXCEPT ![m] = y]
  <2>1. mux' = [mux EXCEPT ![m].refs = IF sock[u].status = "INIT" THEN @ + 1 ELSE @,
                           ![m].connectors = Append(@, u)]
    BY <1>1 DEF connect
  <2>2. QED
    BY <1>3, <1>5, <1>5c, <1>5e, <2>1 DEF SInv, Typed
<1>8. /\ x \in SocketRecords /\ x.where = sock[u].where /\ x.status = "CONNECTING"
      /\ x.opened /\ (x.onList <=> sock[u].onList)
      /\ x.mux = m /\ x.queued = sock[u].queued
      /\ (x.leaving <=> sock[u].leaving) /\ (x.connected <=> sock[u].connected)
      /\ x.listen = sock[u].listen /\ (x.owned <=> sock[u].owned)
  <2>1. c \in Nat
    BY <1>5a, <1>5b
  <2>2. PICK z \in SocketRecords : z = sock[u]
    BY <1>2
  <2>3. m \in Sockets
    BY <1>3
  <2>4. x = [z EXCEPT !.mux = m, !.opened = TRUE, !.connecting = TRUE,
                      !.connects = c, !.status = "CONNECTING"]
    BY <1>5d, <2>2
  <2>5. /\ x \in SocketRecords /\ x.where = z.where /\ x.status = "CONNECTING"
        /\ x.opened /\ (x.onList <=> z.onList)
        /\ x.mux = m /\ x.queued = z.queued
        /\ (x.leaving <=> z.leaving) /\ (x.connected <=> z.connected)
        /\ x.listen = z.listen /\ (x.owned <=> z.owned)
    BY <2>1, <2>2, <2>3, <2>4 DEF SocketRecords, Statuses
  <2>6. QED
    BY <2>2, <2>5
<1>9. /\ MuxRecord(y) /\ y.refs = r /\ y.listener = mux[m].listener
      /\ y.hash = mux[m].hash /\ y.timers = mux[m].timers /\ y.new = mux[m].new
  <2> DEFINE R == [refs : Nat, listener : Sockets \cup {None}, hash : SUBSET Sockets,
                  timers : SUBSET Sockets, new : Seq(Sockets),
                  connectors : {mux[m].connectors, q}]
  <2>1. mux[m] \in R
    BY <1>4 DEF MuxRecord
  <2>2. /\ y \in R /\ y.refs = r /\ y.listener = mux[m].listener
        /\ y.hash = mux[m].hash /\ y.timers = mux[m].timers /\ y.new = mux[m].new
    BY <1>5a, <1>5e, <2>1
  <2>3. MuxRecord(y)
    BY <2>2 DEF MuxRecord
  <2>4. QED
    BY <2>2, <2>3
<1>10. /\ sock' \in [Sockets -> SocketRecords] /\ sock'[u] = x
       /\ \A v \in Sockets \ {u} : sock'[v] = sock[v]
  BY <1>6, <1>8 DEF SInv, Typed
<1>11. /\ DOMAIN mux' = Sockets /\ mux' = [n \in Sockets |-> mux'[n]] /\ mux'[m] = y
       /\ \A n \in Sockets \ {m} : mux'[n] = mux[n]
  BY <1>3, <1>7 DEF SInv, Typed
<1>12. Typed'
  BY <1>2, <1>9, <1>10, <1>11 DEF SInv, Typed
<1>13. OnlyChanges(u)
  BY <1>8, <1>10 DEF OnlyChanges
<1>14. StaysQueued(u)
  BY <1>2 DEF StaysQueued, SInv, Queued
<1>15. Live(u)' /\ UserOf(u, m)' /\ Placeless(u)'
  BY <1>2, <1>8, <1>10 DEF UserOf, Live, Placeless
<1>16. Staged(u)'
  BY <1>2, <1>3, <1>8, <1>10 DEF Staged, Located, None, Sockets
<1>17. ASSUME NEW n \in Sockets \ {m}
       PROVE  mux'[n] = mux[n] /\ Agrees(n)' /\ Counted(n)'
  <2>1. ~UserOf(u, n)' /\ ~UserOf(u, n)
    BY <1>3, <1>8, <1>10 DEF UserOf, None, Sockets
  <2>2. QED
    BY <1>11, <1>13, <2>1, OtherMuxes
<1>18. \A v \in Sockets \ {u} : UserOf(v, m)' <=> UserOf(v, m)
  BY <1>10 DEF UserOf, Live
<1>19. Counted(m)' /\ mux'[m].refs # 0
  <2>1. CASE sock[u].status = "INIT"
    <3>1. Users(m)' = Users(m) \cup {u} /\ u \notin Users(m)
      BY <1>3, <1>15, <1>18, <2>1 DEF Users, UserOf, None, Sockets
    <3>2. mux'[m].refs = mux[m].refs + 1
      BY <1>5, <1>9, <1>11, <2>1
    <3>3. QED
      BY <1>3, <3>1, <3>2, OneMoreUser
  <2>2. CASE sock[u].status # "INIT"
    <3>1. UserOf(u, m)
      BY <1>2, <1>3, <2>2 DEF UserOf
    <3>2. Users(m)' = Users(m) /\ u \in Users(m)
      BY <1>15, <1>18, <3>1 DEF Users
    <3>3. mux'[m].refs = mux[m].refs
      BY <1>5, <1>9, <1>11, <2>2
    <3>4. QED
      BY <1>3, <3>2, <3>3, UsedIsCounted DEF Counted, SInv
  <2>3. QED
    BY <2>1, <2>2
<1>20. Agrees(m)'
  <2>1. Entered(m)' = Entered(m) /\ Entered(m) \subseteq Sockets
    BY <1>4, <1>9, <1>11, ElementOfSeq DEF Entered, MuxRecord
  <2>2. \A v \in Entered(m) : v # u /\ UserOf(v, m) /\ sock[v].onList
    BY <1>3, <1>4 DEF Agrees
  <2>3. mux[m].listener # None =>
          mux[m].listener \in Sockets /\ mux[m].listener # u
    BY <1>2, <1>4 DEF Agrees, MuxRecord
  <2>4. QED
    BY <1>4, <1>9, <1>10, <1>11, <1>18, <1>19, <2>1, <2>2, <2>3 DEF Agrees
<1>21. QED
  BY <1>2, <1>3, <1>8, <1>10, <1>12, <1>13, <1>14, <1>15, <1>16, <1>17, <1>19, <1>20, MuxStep
     DEF Located

\* A multiplexer whose entries stay, and that may forget its listener.
LEMMA AgreesStays ==
    ASSUME SInv, NEW m \in Sockets,
           mux'[m].hash = mux[m].hash, mux'[m].timers = mux[m].timers,
           mux'[m].new = mux[m].new, mux'[m].refs = 0 => mux'[m] = NoMux,
           \A u \in Entered(m) : UserOf(u, m)' /\ sock'[u].onList,
           mux'[m].listener # None =>
             /\ mux'[m].listener = mux[m].listener
             /\ UserOf(mux[m].listener, m)'
             /\ sock'[mux[m].listener].opened
             /\ sock'[mux[m].listener].status \in {"LISTENING", "CLOSED"}
    PROVE  Agrees(m)'
<1>1. Agrees(m)
  BY DEF SInv
<1>2. Entered(m)' = Entered(m)
  BY DEF Entered
<1>4. mux'[m].listener # None =>
        /\ UserOf(mux[m].listener, m)'
        /\ sock'[mux'[m].listener].opened
        /\ sock'[mux'[m].listener].status \in {"LISTENING", "CLOSED"}
  OBVIOUS
<1>5. QED
  BY <1>1, <1>2, <1>4 DEF Agrees

\* What ForgottenBy makes of a multiplexer.
LEMMA Forgotten ==
    ASSUME MaxSockets \in Nat, SInv, NEW U \in SUBSET Sockets,
           NEW f, f = ForgottenBy(mux, U)
    PROVE  /\ DOMAIN f = Sockets /\ f = [m \in Sockets |-> f[m]]
           /\ \A m \in Sockets :
                /\ MuxRecord(f[m])
                /\ f[m].refs = mux[m].refs /\ f[m].hash = mux[m].hash
                /\ f[m].timers = mux[m].timers /\ f[m].new = mux[m].new
                /\ f[m].listener # None =>
                     /\ f[m].listener = mux[m].listener
                     /\ f[m].listener \notin U
                /\ mux[m].refs = 0 => f[m] = NoMux
<1>1. DOMAIN f = Sockets /\ f = [m \in Sockets |-> f[m]]
  BY DEF ForgottenBy
<1>2. ASSUME NEW m \in Sockets
      PROVE  /\ MuxRecord(f[m])
             /\ f[m].refs = mux[m].refs /\ f[m].hash = mux[m].hash
             /\ f[m].timers = mux[m].timers /\ f[m].new = mux[m].new
             /\ f[m].listener # None =>
                  /\ f[m].listener = mux[m].listener
                  /\ f[m].listener \notin U
             /\ mux[m].refs = 0 => f[m] = NoMux
  <2>1. PICK V : V = {u \in U : sock[u].opened /\ sock[u].mux = m}
    OBVIOUS
  <2>2. PICK l, c : /\ l = IF mux[m].listener \in V THEN None ELSE mux[m].listener
                    /\ c = UnregisteredAll(mux[m].connectors, V \ {mux[m].listener})
    OBVIOUS
  <2>3. f[m] = IF V = {} THEN mux[m]
               ELSE [mux[m] EXCEPT !.listener = l, !.connectors = c]
    <3>1. f[m] = IF V = {} THEN mux[m]
                 ELSE [mux[m] EXCEPT
                        !.listener = IF @ \in V THEN None ELSE @,
                        !.connectors = UnregisteredAll(@, V \ {mux[m].listener})]
      BY <2>1 DEF ForgottenBy
    <3>2. QED
      BY <2>2, <3>1
  <2>4. MuxRecord(mux[m]) /\ Agrees(m) /\ Counted(m)
    BY DEF SInv, Typed
  <2>5. l \in Sockets \cup {None}
    BY <2>2, <2>4 DEF MuxRecord
  <2>6. mux[m].refs = 0 => V = {} /\ mux[m] = NoMux
    <3>1. SUFFICES ASSUME mux[m].refs = 0 PROVE V = {} /\ mux[m] = NoMux
      OBVIOUS
    <3>2. mux[m] = NoMux
      BY <2>4, <3>1 DEF Agrees
    <3>3. ASSUME NEW u \in V PROVE FALSE
      <4>1. u \in Users(m)
        BY <2>1, PlacelessFacts DEF Users, UserOf
      <4>2. QED
        BY <3>1, <4>1, UsedIsCounted
    <3>4. QED
      BY <3>2, <3>3
  <2>7. l # None => l = mux[m].listener /\ l \notin U
    BY <2>1, <2>2, <2>4 DEF Agrees, UserOf
  <2>8. CASE V = {}
    BY <2>2, <2>3, <2>4, <2>6, <2>7, <2>8
  <2>9. CASE V # {}
    <3> DEFINE R == [refs : Nat, listener : Sockets \cup {None}, hash : SUBSET Sockets,
                    timers : SUBSET Sockets, new : Seq(Sockets),
                    connectors : {mux[m].connectors, c}]
    <3>1. mux[m] \in R
      BY <2>4 DEF MuxRecord
    <3>2. /\ f[m] \in R /\ f[m].refs = mux[m].refs /\ f[m].listener = l
          /\ f[m].hash = mux[m].hash /\ f[m].timers = mux[m].timers
          /\ f[m].new = mux[m].new
      BY <2>3, <2>5, <2>9, <3>1
    <3>3. MuxRecord(f[m])
      BY <3>2 DEF MuxRecord
    <3>4. QED
      BY <2>6, <2>7, <2>9, <3>2, <3>3
  <2>10. QED
    BY <2>8, <2>9
<1>3. QED
  BY <1>1, <1>2

\* What CUDT::close makes of a socket.
LEMMA Closing ==
    ASSUME SInv, NEW U \in SUBSET Sockets, NEW s, s = ClosedUDT(sock, U)
    PROVE  /\ s \in [Sockets -> SocketRecords]
           /\ \A v \in Sockets :
                /\ s[v].where = sock[v].where /\ s[v].status = sock[v].status
                /\ s[v].onList = sock[v].onList /\ s[v].mux = sock[v].mux
                /\ s[v].listen = sock[v].listen /\ s[v].queued = sock[v].queued
                /\ s[v].owned = sock[v].owned /\ s[v].leaving = sock[v].leaving
                /\ IF v \in U THEN ~s[v].opened ELSE s[v] = sock[v]
<1>1. ASSUME NEW v \in Sockets
      PROVE  /\ s[v] \in SocketRecords
             /\ s[v].where = sock[v].where /\ s[v].status = sock[v].status
             /\ s[v].onList = sock[v].onList /\ s[v].mux = sock[v].mux
             /\ s[v].listen = sock[v].listen /\ s[v].queued = sock[v].queued
             /\ s[v].owned = sock[v].owned /\ s[v].leaving = sock[v].leaving
             /\ IF v \in U THEN ~s[v].opened ELSE s[v] = sock[v]
  <2>1. PICK z \in SocketRecords : z = sock[v]
    BY DEF SInv, Typed
  <2>2. s[v] = IF v \in U /\ z.opened
               THEN [z EXCEPT !.closing = TRUE, !.connected = FALSE, !.opened = FALSE]
               ELSE z
    BY <2>1 DEF ClosedUDT
  <2>3. CASE v \in U /\ z.opened
    <3>1. s[v] = [z EXCEPT !.closing = TRUE, !.connected = FALSE, !.opened = FALSE]
      BY <2>2, <2>3
    <3>2. /\ s[v] \in SocketRecords
          /\ s[v].where = z.where /\ s[v].status = z.status
          /\ s[v].onList = z.onList /\ s[v].mux = z.mux
          /\ s[v].listen = z.listen /\ s[v].queued = z.queued
          /\ s[v].owned = z.owned /\ s[v].leaving = z.leaving
          /\ ~s[v].opened
      BY <3>1, <2>1 DEF SocketRecords
    <3>3. QED
      BY <2>1, <2>3, <3>2
  <2>4. CASE ~(v \in U /\ z.opened)
    BY <2>1, <2>2, <2>4
  <2>5. QED
    BY <2>3, <2>4
<1>2. s = [v \in Sockets |-> s[v]]
  BY DEF ClosedUDT
<1>3. QED
  BY <1>1, <1>2

LEMMA KeptClose ==
    ASSUME MaxSockets \in Nat, SInv, NEW u \in Sockets, close(u)
    PROVE  SInv'
<1>1. PICK s, f : s = ClosedUDT(sock, {u}) /\ f = ForgottenBy(mux, {u})
  OBVIOUS
<1>2. /\ Located(u) /\ Live(u) /\ sock[u].owned /\ accepting' = accepting
      /\ sock[u].status \notin {"LISTENING", "CONNECTING", "CLOSED"}
      /\ sock' = [s EXCEPT ![u].leaving = TRUE] /\ mux' = f
  BY <1>1 DEF close, Calls, Located, Live
<1>3. /\ s \in [Sockets -> SocketRecords]
      /\ s[u].where = sock[u].where /\ s[u].status = sock[u].status
      /\ s[u].onList = sock[u].onList /\ s[u].mux = sock[u].mux
      /\ s[u].listen = sock[u].listen /\ s[u].queued = sock[u].queued
      /\ s[u].owned = sock[u].owned /\ ~s[u].opened
      /\ \A v \in Sockets \ {u} : s[v] = sock[v]
  BY <1>1, Closing
<1>4. /\ DOMAIN f = Sockets /\ f = [m \in Sockets |-> f[m]]
      /\ \A m \in Sockets :
           /\ MuxRecord(f[m])
           /\ f[m].refs = mux[m].refs /\ f[m].hash = mux[m].hash
           /\ f[m].timers = mux[m].timers /\ f[m].new = mux[m].new
           /\ f[m].listener # None =>
                /\ f[m].listener = mux[m].listener
                /\ f[m].listener \notin {u}
           /\ mux[m].refs = 0 => f[m] = NoMux
  <2>1. PICK U \in SUBSET Sockets : U = {u}
    OBVIOUS
  <2>2. f = ForgottenBy(mux, U)
    BY <1>1, <2>1
  <2>3. /\ DOMAIN f = Sockets /\ f = [m \in Sockets |-> f[m]]
        /\ \A m \in Sockets :
             /\ MuxRecord(f[m])
             /\ f[m].refs = mux[m].refs /\ f[m].hash = mux[m].hash
             /\ f[m].timers = mux[m].timers /\ f[m].new = mux[m].new
             /\ f[m].listener # None =>
                  /\ f[m].listener = mux[m].listener
                  /\ f[m].listener \notin U
             /\ mux[m].refs = 0 => f[m] = NoMux
    BY <2>2, Forgotten
  <2>4. QED
    BY <2>1, <2>3
<1>5. PICK x : x = [s[u] EXCEPT !.leaving = TRUE]
  OBVIOUS
<1>6. /\ x \in SocketRecords /\ x.where = sock[u].where /\ x.status = sock[u].status
      /\ x.onList = sock[u].onList /\ x.mux = sock[u].mux
      /\ x.listen = sock[u].listen /\ x.queued = sock[u].queued
      /\ x.owned = sock[u].owned /\ ~x.opened /\ x.leaving
  <2>1. PICK z \in SocketRecords : z = s[u]
    BY <1>3
  <2>2. x = [z EXCEPT !.leaving = TRUE]
    BY <1>5, <2>1
  <2>3. /\ x \in SocketRecords /\ x.where = z.where /\ x.status = z.status
        /\ x.onList = z.onList /\ x.mux = z.mux
        /\ x.listen = z.listen /\ x.queued = z.queued
        /\ x.owned = z.owned /\ x.opened = z.opened /\ x.leaving
    BY <2>1, <2>2 DEF SocketRecords
  <2>4. QED
    BY <1>3, <2>1, <2>3
<1>7. /\ sock' \in [Sockets -> SocketRecords] /\ sock'[u] = x
      /\ \A v \in Sockets \ {u} : sock'[v] = sock[v]
  BY <1>2, <1>3, <1>5, <1>6
<1>8. Typed'
  BY <1>2, <1>4, <1>7 DEF SInv, Typed
<1>9. OnlyChanges(u)
  BY <1>6, <1>7 DEF OnlyChanges
<1>10. StaysQueued(u)
  BY <1>2 DEF StaysQueued, SInv, Queued
<1>11. Placeless(u)'
  BY <1>2, <1>6, <1>7 DEF Placeless, Live
<1>12. Staged(u)'
  BY <1>2, <1>6, <1>7 DEF SInv, Staged, Located
<1>13. \A v \in Sockets : Placeless(v)' /\ Staged(v)' /\ Queued(v)'
  BY <1>2, <1>9, <1>10, <1>11, <1>12, SocketKept
<1>14. \A v \in Sockets : /\ \A m \in Sockets : UserOf(v, m)' <=> UserOf(v, m)
                          /\ sock'[v].onList = sock[v].onList
  BY <1>6, <1>7 DEF UserOf, Live
<1>15. ASSUME NEW m \in Sockets PROVE Agrees(m)' /\ Counted(m)'
  <2>1. Users(m)' = Users(m)
    BY <1>14 DEF Users
  <2>2. Counted(m)'
    BY <1>2, <1>4, <2>1 DEF Counted, SInv
  <2>3. Agrees(m) /\ MuxRecord(mux[m])
    BY DEF SInv, Typed
  <2>4. Entered(m) \subseteq Sockets
    BY <2>3, ElementOfSeq DEF Entered, MuxRecord
  <2>5. \A v \in Entered(m) : UserOf(v, m)' /\ sock'[v].onList
    BY <1>14, <2>3, <2>4 DEF Agrees
  <2>6. mux'[m].listener # None =>
          /\ mux'[m].listener = mux[m].listener /\ mux[m].listener # u
          /\ mux[m].listener \in Sockets
    BY <1>2, <1>4, <2>3 DEF MuxRecord
  <2>7. mux'[m].listener # None => UserOf(mux[m].listener, m)'
    <3>1. PICK l : l = mux[m].listener
      OBVIOUS
    <3>2. mux'[m].listener # None => UserOf(l, m)'
      BY <1>14, <2>3, <2>6, <3>1 DEF Agrees
    <3>3. QED
      BY <2>6, <3>1, <3>2 DEF UserOf, Live
  <2>8. mux'[m].listener # None =>
          /\ sock'[mux[m].listener].opened
          /\ sock'[mux[m].listener].status \in {"LISTENING", "CLOSED"}
    BY <1>7, <2>3, <2>6 DEF Agrees
  <2>9. Agrees(m)'
    BY <1>2, <1>4, <2>5, <2>6, <2>7, <2>8, AgreesStays
  <2>10. QED
    BY <2>2, <2>9
<1>16. accepting' # None => sock'[accepting'].where # "none"
  BY <1>2, <1>6, <1>7 DEF SInv, Typed
<1>17. QED
  BY <1>8, <1>13, <1>15, <1>16 DEF SInv

LEMMA KeptAccept ==
    ASSUME MaxSockets \in Nat, SInv, NEW l \in Sockets, accept(l)
    PROVE  SInv'
<1>1. PICK u \in sock[l].queued :
          accepting' = u /\ sock' = [sock EXCEPT ![l].queued = @ \ {u}]
  BY DEF accept
<1>2. accepting = None /\ UNCHANGED mux /\ sock[l] \in SocketRecords
  BY DEF accept, SInv, Typed
<1>3. u \in Sockets /\ sock[u].where = "sockets" /\ sock[u].listen = l
  BY <1>1, <1>2 DEF SInv, Queued, SocketRecords
<1>4. PICK x : x = [sock[l] EXCEPT !.queued = @ \ {u}]
  OBVIOUS
<1>5. x \in SocketRecords /\ x.queued = sock[l].queued \ {u}
      /\ x.where = sock[l].where /\ x.status = sock[l].status /\ x.opened = sock[l].opened
      /\ x.connected = sock[l].connected /\ x.onList = sock[l].onList /\ x.mux = sock[l].mux
      /\ x.listen = sock[l].listen /\ x.owned = sock[l].owned
      /\ x.leaving = sock[l].leaving
  BY <1>2, <1>4 DEF SocketRecords
<1>6. /\ sock' \in [Sockets -> SocketRecords] /\ sock'[l] = x
      /\ \A v \in Sockets \ {l} : sock'[v] = sock[v]
  BY <1>1, <1>4, <1>5 DEF SInv, Typed
<1>7. Typed'
  BY <1>1, <1>2, <1>3, <1>6 DEF SInv, Typed
<1>8. \A v \in Sockets :
        /\ sock'[v].where = sock[v].where /\ sock'[v].status = sock[v].status
        /\ (sock'[v].opened <=> sock[v].opened) /\ (sock'[v].connected <=> sock[v].connected)
        /\ (sock'[v].onList <=> sock[v].onList) /\ sock'[v].mux = sock[v].mux
        /\ sock'[v].listen = sock[v].listen /\ (sock'[v].owned <=> sock[v].owned)
        /\ (sock'[v].leaving <=> sock[v].leaving)
        /\ sock'[v].queued = IF v = l THEN sock[v].queued \ {u} ELSE sock[v].queued
  BY <1>5, <1>6
<1>9. ASSUME NEW v \in Sockets PROVE Placeless(v)'
  <2>1. CASE v = l
    BY <1>1, <1>2, <1>8, <2>1, PlacelessFacts DEF Placeless, Live
  <2>2. CASE v # l
    BY <1>6, <2>2 DEF Placeless, Live, SInv
  <2>3. QED
    BY <2>1, <2>2
<1>10. ASSUME NEW v \in Sockets PROVE Staged(v)'
  <2>1. /\ sock'[v].where = sock[v].where /\ sock'[v].status = sock[v].status
        /\ (sock'[v].opened <=> sock[v].opened)
        /\ (sock'[v].connected <=> sock[v].connected)
        /\ (sock'[v].onList <=> sock[v].onList) /\ sock'[v].mux = sock[v].mux
        /\ (sock'[v].owned <=> sock[v].owned)
        /\ (sock'[v].leaving <=> sock[v].leaving)
    BY <1>8
  <2>2. Staged(v)
    BY DEF SInv
  <2>3. QED
    BY <2>1, <2>2 DEF Staged, Located
<1>11. ASSUME NEW k \in Sockets, NEW v \in sock'[k].queued
       PROVE  sock'[v].where = "sockets" /\ sock'[v].listen = k
              /\ ~sock'[v].owned /\ v # accepting'
  <2>1. v \in sock[k].queued /\ v \in Sockets
    BY <1>8, <1>11 DEF SInv, Typed, SocketRecords
  <2>2. sock[v].where = "sockets" /\ sock[v].listen = k /\ ~sock[v].owned
    BY <2>1 DEF SInv, Queued
  <2>3. v # u
    BY <1>3, <1>8, <1>11, <2>2
  <2>4. QED
    BY <1>1, <1>8, <2>1, <2>2, <2>3
<1>12. ASSUME NEW m \in Sockets PROVE Agrees(m)' /\ Counted(m)'
  <2>1. ASSUME NEW v \in Sockets PROVE StaysUser(v)
    <3>1. /\ sock'[v].where = sock[v].where /\ sock'[v].status = sock[v].status
          /\ (sock'[v].opened <=> sock[v].opened)
          /\ (sock'[v].onList <=> sock[v].onList) /\ sock'[v].mux = sock[v].mux
      BY <1>8
    <3>2. \A n \in Sockets : mux[n].listener = v =>
            sock[v].opened /\ sock[v].status \in {"LISTENING", "CLOSED"}
      BY DEF SInv, Agrees, None, Sockets
    <3>3. QED
      BY <3>1, <3>2 DEF StaysUser, UserOf, Live
  <2>2. QED
    BY <1>2, <2>1, MuxStays
<1>13. sock'[accepting'].where # "none"
  BY <1>1, <1>3, <1>8
<1>14. QED
  BY <1>7, <1>9, <1>10, <1>11, <1>12, <1>13 DEF SInv, Queued

\* What every socket but its queue keeps.
SameButQueue(x, y) ==
    /\ x.where = y.where /\ x.status = y.status /\ (x.opened <=> y.opened)
    /\ (x.connected <=> y.connected) /\ (x.onList <=> y.onList) /\ x.mux = y.mux
    /\ x.listen = y.listen /\ (x.owned <=> y.owned) /\ (x.leaving <=> y.leaving)

LEMMA Dequeue ==
    ASSUME NEW s \in [Sockets -> SocketRecords], NEW u \in Sockets,
           NEW t, t = Dequeued(s, u)
    PROVE  /\ t \in [Sockets -> SocketRecords]
           /\ \A v \in Sockets :
                /\ SameButQueue(t[v], s[v]) /\ t[v].queued \subseteq s[v].queued
                /\ s[v].queued = {} => t[v] = s[v]
                /\ s[u].listen = v => u \notin t[v].queued
<1>1. PICK l \in Sockets \cup {None} : l = s[u].listen
  BY DEF SocketRecords
<1>2. CASE l = None
  <2>1. t = s
    BY <1>1, <1>2 DEF Dequeued
  <2>2. \A v \in Sockets : s[u].listen # v
    BY <1>1, <1>2 DEF None, Sockets
  <2>3. QED
    BY <2>1, <2>2 DEF SameButQueue
<1>3. CASE l # None
  <2>1. PICK z \in SocketRecords : z = s[l]
    BY <1>1, <1>3
  <2>2. PICK x : x = [z EXCEPT !.queued = @ \ {u}]
    OBVIOUS
  <2>3. x \in SocketRecords /\ SameButQueue(x, z) /\ x.queued = z.queued \ {u}
    BY <2>1, <2>2 DEF SocketRecords, SameButQueue
  <2>4. z.queued = {} => x = z
    BY <2>1, <2>2 DEF SocketRecords
  <2>5. t = [s EXCEPT ![l] = x]
    BY <1>1, <1>3, <2>1, <2>2 DEF Dequeued
  <2>6. /\ t \in [Sockets -> SocketRecords] /\ t[l] = x
        /\ \A v \in Sockets \ {l} : t[v] = s[v]
    BY <1>1, <1>3, <2>3, <2>5
  <2>7. \A v \in Sockets : SameButQueue(s[v], s[v])
    BY DEF SameButQueue
  <2>8. ASSUME NEW v \in Sockets
        PROVE  /\ SameButQueue(t[v], s[v]) /\ t[v].queued \subseteq s[v].queued
               /\ s[v].queued = {} => t[v] = s[v]
               /\ s[u].listen = v => u \notin t[v].queued
    <3>1. CASE v = l
      BY <2>1, <2>3, <2>4, <2>6, <3>1
    <3>2. CASE v # l
      BY <1>1, <2>6, <2>7, <3>2
    <3>3. QED
      BY <3>1, <3>2
  <2>9. QED
    BY <2>6, <2>8
<1>4. QED
  BY <1>2, <1>3

LEMMA KeptCheckBroken ==
    ASSUME MaxSockets \in Nat, SInv, NEW u \in Sockets, checkBroken(u)
    PROVE  SInv'
<1>1. PICK s : s = [sock EXCEPT ![u].where = "closed", ![u].old = FALSE,
                                ![u].status = "CLOSED"]
  OBVIOUS
<1>2. /\ sock[u].where = "sockets" /\ UNCHANGED <<mux, accepting>>
      /\ sock' = Dequeued(s, u)
  BY <1>1 DEF checkBroken
<1>3. PICK z \in SocketRecords : z = sock[u]
  BY DEF SInv, Typed
<1>4. PICK x : x = [z EXCEPT !.where = "closed", !.old = FALSE, !.status = "CLOSED"]
  OBVIOUS
<1>5. /\ x \in SocketRecords /\ x.where = "closed" /\ x.status = "CLOSED"
      /\ (x.opened <=> z.opened) /\ (x.onList <=> z.onList)
      /\ x.mux = z.mux /\ x.queued = z.queued /\ x.listen = z.listen
      /\ (x.owned <=> z.owned) /\ (x.leaving <=> z.leaving)
  BY <1>3, <1>4 DEF SocketRecords, Statuses, Places
<1>6. s = [sock EXCEPT ![u] = x]
  BY <1>1, <1>3, <1>4 DEF SInv, Typed
<1>7. /\ s \in [Sockets -> SocketRecords] /\ s[u] = x
      /\ \A v \in Sockets \ {u} : s[v] = sock[v]
  BY <1>5, <1>6 DEF SInv, Typed
<1>8. /\ sock' \in [Sockets -> SocketRecords]
      /\ \A v \in Sockets :
           /\ SameButQueue(sock'[v], s[v]) /\ sock'[v].queued \subseteq s[v].queued
           /\ s[v].queued = {} => sock'[v] = s[v]
           /\ s[u].listen = v => u \notin sock'[v].queued
  <2>1. PICK t : t = sock'
    OBVIOUS
  <2>2. t = Dequeued(s, u)
    BY <1>2, <2>1
  <2>3. /\ t \in [Sockets -> SocketRecords]
        /\ \A v \in Sockets :
             /\ SameButQueue(t[v], s[v]) /\ t[v].queued \subseteq s[v].queued
             /\ s[v].queued = {} => t[v] = s[v]
             /\ s[u].listen = v => u \notin t[v].queued
    BY <1>7, <2>2, Dequeue
  <2>4. QED
    BY <2>1, <2>3
<1>9. Typed'
  BY <1>2, <1>8 DEF SInv, Typed
<1>10. ASSUME NEW v \in Sockets \ {u}
       PROVE  SameButQueue(sock'[v], sock[v]) /\ Staged(v)'
  <2>1. SameButQueue(sock'[v], sock[v])
    BY <1>7, <1>8
  <2>2. Staged(v)'
    BY <2>1 DEF SameButQueue, Staged, Located, SInv
  <2>3. QED
    BY <2>1, <2>2
<1>11. ASSUME NEW v \in Sockets \ {u} PROVE Placeless(v)'
  <2>1. CASE Live(v)
    BY <1>10, <2>1 DEF SameButQueue, Placeless, Live
  <2>2. CASE ~Live(v)
    <3>1. sock'[v] = sock[v]
      BY <1>7, <1>8, <2>2, PlacelessFacts
    <3>2. QED
      BY <3>1 DEF Placeless, Live, SInv
  <2>3. QED
    BY <2>1, <2>2
<1>12. /\ sock'[u].where = "closed" /\ sock'[u].status = "CLOSED"
       /\ (sock'[u].opened <=> sock[u].opened) /\ (sock'[u].onList <=> sock[u].onList)
       /\ sock'[u].mux = sock[u].mux
       /\ (sock'[u].owned <=> sock[u].owned) /\ (sock'[u].leaving <=> sock[u].leaving)
  <2>1. SameButQueue(sock'[u], x)
    BY <1>7, <1>8
  <2>2. QED
    BY <1>3, <1>5, <2>1 DEF SameButQueue
<1>13. Placeless(u)' /\ Staged(u)'
  <2>1. Placeless(u)'
    BY <1>12 DEF Placeless, Live
  <2>2. Staged(u)
    BY DEF SInv
  <2>3. Staged(u)'
    BY <1>12, <2>2 DEF Staged, Located
  <2>4. QED
    BY <2>1, <2>3
<1>14. ASSUME NEW k \in Sockets, NEW v \in sock'[k].queued
       PROVE  sock'[v].where = "sockets" /\ sock'[v].listen = k
              /\ ~sock'[v].owned /\ v # accepting'
  <2>1. v \in s[k].queued /\ s[k].queued = sock[k].queued
    BY <1>3, <1>5, <1>7, <1>8, <1>14
  <2>2. v \in Sockets
    BY <2>1 DEF SInv, Typed, SocketRecords
  <2>3. /\ sock[v].where = "sockets" /\ sock[v].listen = k /\ ~sock[v].owned
        /\ v # accepting
    BY <2>1, <2>2 DEF SInv, Queued
  <2>4. v # u
    BY <1>3, <1>5, <1>7, <1>8, <1>14, <2>3
  <2>5. SameButQueue(sock'[v], sock[v])
    BY <1>10, <2>2, <2>4
  <2>6. QED
    BY <1>2, <2>3, <2>5 DEF SameButQueue
<1>15. ASSUME NEW v \in Sockets PROVE StaysUser(v)
  <2>1. \A n \in Sockets : mux[n].listener = v =>
          sock[v].opened /\ sock[v].status \in {"LISTENING", "CLOSED"}
    BY DEF SInv, Agrees, None, Sockets
  <2>2. CASE v = u
    <3>1. Live(u) /\ Live(u)' /\ sock'[u].mux = sock[u].mux
      BY <1>2, <1>12 DEF Live
    <3>2. QED
      BY <1>12, <2>1, <2>2, <3>1 DEF StaysUser, UserOf
  <2>3. CASE v # u
    BY <1>10, <2>1, <2>3 DEF StaysUser, SameButQueue, UserOf, Live
  <2>4. QED
    BY <2>2, <2>3
<1>16. ASSUME NEW m \in Sockets PROVE Agrees(m)' /\ Counted(m)'
  BY <1>2, <1>15, MuxStays
<1>17. accepting' # None => sock'[accepting'].where # "none"
  BY <1>2, <1>10, <1>12 DEF SInv, Typed, SameButQueue
<1>18. \A v \in Sockets : Placeless(v)' /\ Staged(v)' /\ Queued(v)'
  <2>1. \A v \in Sockets : Placeless(v)' /\ Staged(v)'
    BY <1>10, <1>11, <1>13
  <2>2. \A v \in Sockets : Queued(v)'
    BY <1>14 DEF Queued
  <2>3. QED
    BY <2>1, <2>2
<1>19. QED
  BY <1>9, <1>16, <1>17, <1>18 DEF SInv

LEMMA KeptGetNewEntry ==
    ASSUME MaxSockets \in Nat, SInv, NEW m \in Sockets, getNewEntry(m)
    PROVE  SInv'
<1>1. MuxRecord(mux[m]) /\ Agrees(m) /\ mux[m].new # <<>> /\ mux[m].new \in Seq(Sockets)
  BY DEF SInv, Typed, getNewEntry, MuxRecord
<1>2. PICK h, q : h = Head(mux[m].new) /\ q = Tail(mux[m].new)
  OBVIOUS
<1>3. /\ h \in Sockets /\ h = mux[m].new[1] /\ 1 \in DOMAIN mux[m].new
      /\ q \in Seq(Sockets)
      /\ \A i \in DOMAIN q : i + 1 \in DOMAIN mux[m].new /\ q[i] = mux[m].new[i + 1]
                             /\ i \in Nat \ {0}
  BY <1>1, <1>2
<1>4. PICK y : y = [mux[m] EXCEPT !.hash = @ \cup {h}, !.timers = @ \cup {h}, !.new = q]
  OBVIOUS
<1>5. mux' = [mux EXCEPT ![m] = y]
  BY <1>2, <1>4 DEF getNewEntry, SInv, Typed
<1>6. /\ MuxRecord(y) /\ y.refs = mux[m].refs /\ y.listener = mux[m].listener
      /\ y.hash = mux[m].hash \cup {h} /\ y.timers = mux[m].timers \cup {h}
      /\ y.new = q
  <2> DEFINE R == [refs : Nat, listener : Sockets \cup {None}, hash : SUBSET Sockets,
                  timers : SUBSET Sockets, new : Seq(Sockets),
                  connectors : {mux[m].connectors}]
  <2>1. mux[m] \in R
    BY <1>1 DEF MuxRecord
  <2>2. /\ y \in R /\ y.refs = mux[m].refs /\ y.listener = mux[m].listener
        /\ y.hash = mux[m].hash \cup {h} /\ y.timers = mux[m].timers \cup {h}
        /\ y.new = q
    BY <1>3, <1>4, <2>1
  <2>3. MuxRecord(y)
    BY <2>2 DEF MuxRecord
  <2>4. QED
    BY <2>2, <2>3
<1>7. /\ DOMAIN mux' = Sockets /\ mux' = [n \in Sockets |-> mux'[n]] /\ mux'[m] = y
      /\ \A n \in Sockets \ {m} : mux'[n] = mux[n]
  BY <1>5 DEF SInv, Typed
<1>8. UNCHANGED <<sock, accepting>>
  BY DEF getNewEntry
<1>9. Typed'
  BY <1>6, <1>7, <1>8 DEF SInv, Typed
<1>10. \A v \in Sockets : Placeless(v)' /\ Staged(v)' /\ Queued(v)'
  BY <1>8 DEF SInv, Placeless, Staged, Queued, Live, Located
<1>11. ASSUME NEW n \in Sockets \ {m} PROVE Agrees(n)' /\ Counted(n)'
  BY <1>7, <1>8, MuxStays
<1>12. Users(m)' = Users(m)
  BY <1>8 DEF Users, UserOf, Live
<1>13. Counted(m)'
  BY <1>6, <1>7, <1>12 DEF Counted, SInv
<1>14. h \in Entered(m) /\ Entered(m) \subseteq Sockets
  BY <1>1, <1>3, ElementOfSeq DEF Entered, MuxRecord
<1>15. \A v \in Entered(m) : UserOf(v, m) /\ sock[v].onList
  BY <1>1 DEF Agrees
<1>16. mux'[m].refs # 0
  BY <1>6, <1>7, <1>14, <1>15, UsedIsCounted DEF Users
<1>17. Entered(m)' \subseteq Entered(m)
  <2>1. mux'[m].timers \subseteq Entered(m)
    BY <1>6, <1>7, <1>14 DEF Entered
  <2>2. \A i \in DOMAIN mux'[m].new : mux'[m].new[i] \in Entered(m)
    BY <1>3, <1>6, <1>7 DEF Entered
  <2>3. QED
    BY <2>1, <2>2 DEF Entered
<1>18. \A v \in Entered(m)' : UserOf(v, m)' /\ sock'[v].onList
  BY <1>8, <1>15, <1>17 DEF UserOf, Live
<1>19. /\ \A i \in DOMAIN q : q[i] \notin y.timers
       /\ \A i, j \in DOMAIN q : q[i] = q[j] => i = j
  <2>1. ASSUME NEW i \in DOMAIN q PROVE q[i] \notin y.timers
    <3>1. /\ i + 1 \in DOMAIN mux[m].new /\ q[i] = mux[m].new[i + 1] /\ i + 1 # 1
      BY <1>3
    <3>2. q[i] # h
      BY <1>1, <1>3, <3>1 DEF Agrees
    <3>3. q[i] \notin mux[m].timers
      BY <1>1, <3>1 DEF Agrees
    <3>4. QED
      BY <1>6, <3>2, <3>3
  <2>2. ASSUME NEW i \in DOMAIN q, NEW j \in DOMAIN q, q[i] = q[j] PROVE i = j
    <3>1. i + 1 \in DOMAIN mux[m].new /\ j + 1 \in DOMAIN mux[m].new /\ i + 1 = j + 1
      BY <1>1, <1>3, <2>2 DEF Agrees
    <3>2. QED
      BY <1>3, <3>1
  <2>3. QED
    BY <2>1, <2>2
<1>20. /\ mux'[m].hash \subseteq mux'[m].timers
       /\ mux'[m].listener = mux[m].listener
  BY <1>1, <1>6, <1>7 DEF Agrees
<1>21. mux'[m].listener # None =>
         /\ UserOf(mux[m].listener, m)'
         /\ sock'[mux'[m].listener].opened
         /\ sock'[mux'[m].listener].status \in {"LISTENING", "CLOSED"}
  BY <1>1, <1>8, <1>20 DEF Agrees, UserOf, Live
<1>22. Agrees(m)'
  <2>1. /\ \A i \in DOMAIN mux'[m].new : mux'[m].new[i] \notin mux'[m].timers
        /\ \A i, j \in DOMAIN mux'[m].new : mux'[m].new[i] = mux'[m].new[j] => i = j
    BY <1>6, <1>7, <1>19
  <2>2. QED
    BY <1>16, <1>18, <1>20, <1>21, <2>1 DEF Agrees
<1>23. QED
  BY <1>8, <1>9, <1>10, <1>11, <1>13, <1>22 DEF SInv

LEMMA KeptTimerCheck ==
    ASSUME MaxSockets \in Nat, SInv, NEW m \in Sockets, NEW u \in Sockets,
           timerCheck(m, u)
    PROVE  SInv'
<1>1. /\ MuxRecord(mux[m]) /\ Agrees(m) /\ sock[u] \in SocketRecords
      /\ u \in mux[m].timers /\ accepting' = accepting
  BY DEF SInv, Typed, timerCheck
<1>2. PICK x, y : /\ x = [sock[u] EXCEPT !.onList = FALSE]
                  /\ y = [mux[m] EXCEPT !.hash = @ \ {u}, !.timers = @ \ {u}]
  OBVIOUS
<1>3. sock' = [sock EXCEPT ![u] = x] /\ mux' = [mux EXCEPT ![m] = y]
  BY <1>2 DEF timerCheck, SInv, Typed
<1>4. /\ x \in SocketRecords /\ x.where = sock[u].where /\ x.status = sock[u].status
      /\ (x.opened <=> sock[u].opened) /\ ~x.onList
      /\ (x.connected <=> sock[u].connected)
      /\ x.mux = sock[u].mux /\ x.queued = sock[u].queued
      /\ x.listen = sock[u].listen /\ (x.owned <=> sock[u].owned)
      /\ (x.leaving <=> sock[u].leaving)
  BY <1>1, <1>2 DEF SocketRecords
<1>5. /\ MuxRecord(y) /\ y.refs = mux[m].refs /\ y.listener = mux[m].listener
      /\ y.hash = mux[m].hash \ {u} /\ y.timers = mux[m].timers \ {u}
      /\ y.new = mux[m].new
  <2> DEFINE R == [refs : Nat, listener : Sockets \cup {None}, hash : SUBSET Sockets,
                  timers : SUBSET Sockets, new : Seq(Sockets),
                  connectors : {mux[m].connectors}]
  <2>1. mux[m] \in R
    BY <1>1 DEF MuxRecord
  <2>2. /\ y \in R /\ y.refs = mux[m].refs /\ y.listener = mux[m].listener
        /\ y.hash = mux[m].hash \ {u} /\ y.timers = mux[m].timers \ {u}
        /\ y.new = mux[m].new
    BY <1>2, <2>1
  <2>3. MuxRecord(y)
    BY <2>2 DEF MuxRecord
  <2>4. QED
    BY <2>2, <2>3
<1>6. /\ sock' \in [Sockets -> SocketRecords] /\ sock'[u] = x
      /\ \A v \in Sockets \ {u} : sock'[v] = sock[v]
  BY <1>3, <1>4 DEF SInv, Typed
<1>7. /\ DOMAIN mux' = Sockets /\ mux' = [n \in Sockets |-> mux'[n]] /\ mux'[m] = y
      /\ \A n \in Sockets \ {m} : mux'[n] = mux[n]
  BY <1>3 DEF SInv, Typed
<1>8. Typed'
  BY <1>1, <1>5, <1>6, <1>7 DEF SInv, Typed
<1>9. UserOf(u, m) /\ Live(u)
  BY <1>1 DEF Agrees, Entered, UserOf
<1>10. OnlyChanges(u)
  BY <1>4, <1>6 DEF OnlyChanges
<1>11. StaysQueued(u)
  BY <1>4, <1>6 DEF StaysQueued, SInv, Queued
<1>12. Live(u)' /\ Placeless(u)'
  BY <1>4, <1>6, <1>9 DEF Placeless, Live
<1>13. Staged(u)'
  BY <1>4, <1>6 DEF SInv, Staged, Located
<1>14. ASSUME NEW n \in Sockets \ {m}
       PROVE  mux'[n] = mux[n] /\ Agrees(n)' /\ Counted(n)'
  <2>1. ~UserOf(u, n) /\ ~UserOf(u, n)'
    BY <1>4, <1>6, <1>9 DEF UserOf
  <2>2. QED
    BY <1>7, <1>10, <2>1, OtherMuxes
<1>15. \A v \in Sockets : UserOf(v, m)' <=> UserOf(v, m)
  BY <1>4, <1>6, <1>9, <1>12 DEF UserOf, Live
<1>16. Users(m)' = Users(m) /\ Counted(m)'
  BY <1>5, <1>7, <1>15 DEF Users, Counted, SInv
<1>17. mux'[m].refs # 0
  BY <1>5, <1>7, <1>9, UsedIsCounted DEF Users
<1>18. ASSUME NEW v \in Entered(m)' PROVE UserOf(v, m)' /\ sock'[v].onList
  <2>1. v \in Entered(m) /\ v # u
    BY <1>1, <1>5, <1>7, <1>18 DEF Entered, Agrees
  <2>2. v \in Sockets
    BY <1>1, <2>1, ElementOfSeq DEF Entered, MuxRecord
  <2>3. UserOf(v, m) /\ sock[v].onList
    BY <1>1, <2>1 DEF Agrees
  <2>4. QED
    BY <1>6, <1>15, <2>1, <2>2, <2>3
<1>19. mux'[m].listener # None =>
         /\ UserOf(mux[m].listener, m)'
         /\ sock'[mux'[m].listener].opened
         /\ sock'[mux'[m].listener].status \in {"LISTENING", "CLOSED"}
  <2>1. mux'[m].listener = mux[m].listener /\ mux[m].listener \in Sockets \cup {None}
    BY <1>1, <1>5, <1>7 DEF MuxRecord
  <2>2. mux[m].listener # None =>
          /\ UserOf(mux[m].listener, m) /\ sock[mux[m].listener].opened
          /\ sock[mux[m].listener].status \in {"LISTENING", "CLOSED"}
    BY <1>1 DEF Agrees
  <2>3. QED
    BY <1>4, <1>6, <2>1, <2>2 DEF UserOf, Live
<1>20. Agrees(m)'
  <2>1. /\ mux'[m].hash \subseteq mux'[m].timers
        /\ \A i \in DOMAIN mux'[m].new : mux'[m].new[i] \notin mux'[m].timers
        /\ \A i, j \in DOMAIN mux'[m].new : mux'[m].new[i] = mux'[m].new[j] => i = j
    BY <1>1, <1>5, <1>7 DEF Agrees
  <2>2. QED
    BY <1>17, <1>18, <1>19, <2>1 DEF Agrees
<1>21. sock'[u].where = "none" => sock[u].where = "none"
  BY <1>4, <1>6
<1>22. QED
  BY <1>1, <1>8, <1>10, <1>11, <1>12, <1>13, <1>14, <1>16, <1>20, <1>21, MuxStep

\* What a multiplexer and its worker know when u is a new entry.
LEMMA AgreesEntered ==
    ASSUME SInv, NEW m \in Sockets, NEW u \in Sockets, u \notin Entered(m),
           mux'[m].hash = mux[m].hash, mux'[m].timers = mux[m].timers,
           mux'[m].new = Append(mux[m].new, u),
           mux'[m].listener = mux[m].listener, mux'[m].refs # 0,
           mux[m].listener # u,
           UserOf(u, m)', sock'[u].onList,
           \A v \in Sockets \ {u} :
               UserOf(v, m) => /\ UserOf(v, m)'
                               /\ (sock'[v].onList <=> sock[v].onList)
                               /\ (sock'[v].opened <=> sock[v].opened)
                               /\ sock'[v].status \in {sock[v].status, "CLOSED"}
    PROVE  Agrees(m)'
<1>1. Agrees(m) /\ MuxRecord(mux[m]) /\ mux[m].new \in Seq(Sockets)
  BY DEF SInv, Typed, MuxRecord
<1>2. PICK q, r : q = mux[m].new /\ r = mux'[m].new
  OBVIOUS
<1>3. /\ {r[i] : i \in DOMAIN r} = {q[i] : i \in DOMAIN q} \cup {u}
      /\ \A i \in DOMAIN r : r[i] = IF i \in DOMAIN q THEN q[i] ELSE u
      /\ \A i, j \in DOMAIN r : i \notin DOMAIN q /\ j \notin DOMAIN q => i = j
  <2>1. q \in Seq(Sockets) /\ r = Append(q, u)
    BY <1>1, <1>2
  <2>2. /\ Len(r) = Len(q) + 1 /\ Len(q) \in Nat
        /\ DOMAIN q = 1..Len(q) /\ DOMAIN r = 1..Len(r)
        /\ \A i \in 1..Len(q) : r[i] = q[i]
        /\ r[Len(q) + 1] = u
    BY <2>1
  <2>3. QED
    BY <2>2
<1>4. Entered(m)' = Entered(m) \cup {u} /\ Entered(m) \subseteq Sockets
  BY <1>1, <1>2, <1>3, ElementOfSeq DEF Entered, MuxRecord
<1>5. ASSUME NEW v \in Entered(m)' PROVE UserOf(v, m)' /\ sock'[v].onList
  <2>1. CASE v = u
    BY <2>1
  <2>2. CASE v # u
    <3>1. v \in Entered(m) /\ v \in Sockets \ {u}
      BY <1>4, <1>5, <2>2
    <3>2. UserOf(v, m) /\ sock[v].onList
      BY <1>1, <3>1 DEF Agrees
    <3>3. QED
      BY <3>1, <3>2
  <2>3. QED
    BY <2>1, <2>2
<1>6. \A i \in DOMAIN q : q[i] \in Entered(m)
  BY <1>2 DEF Entered
<1>7. /\ \A i \in DOMAIN r : r[i] \notin mux'[m].timers
      /\ \A i, j \in DOMAIN r : r[i] = r[j] => i = j
  <2>1. ASSUME NEW i \in DOMAIN r PROVE r[i] \notin mux'[m].timers
    BY <1>1, <1>2, <1>3, <1>6 DEF Agrees, Entered
  <2>2. ASSUME NEW i \in DOMAIN r, NEW j \in DOMAIN r, r[i] = r[j] PROVE i = j
    BY <1>1, <1>2, <1>3, <1>6, <2>2 DEF Agrees
  <2>3. QED
    BY <2>1, <2>2
<1>8. mux'[m].listener # None =>
        /\ UserOf(mux[m].listener, m)'
        /\ sock'[mux'[m].listener].opened
        /\ sock'[mux'[m].listener].status \in {"LISTENING", "CLOSED"}
  <2>1. PICK l : l = mux[m].listener
    OBVIOUS
  <2>2. l # None => UserOf(l, m)' /\ sock'[l].opened
                    /\ sock'[l].status \in {"LISTENING", "CLOSED"}
    BY <1>1, <2>1 DEF Agrees, MuxRecord
  <2>3. mux'[m].listener = l
    BY <2>1
  <2>4. QED
    BY <2>2, <2>3 DEF UserOf, Live
<1>9. mux'[m].hash \subseteq mux'[m].timers
  BY <1>1 DEF Agrees
<1>10. /\ \A i \in DOMAIN mux'[m].new : mux'[m].new[i] \notin mux'[m].timers
       /\ \A i, j \in DOMAIN mux'[m].new : mux'[m].new[i] = mux'[m].new[j] => i = j
  BY <1>2, <1>7
<1>11. QED
  BY <1>5, <1>8, <1>9, <1>10 DEF Agrees

LEMMA KeptConnectAnswered ==
    ASSUME MaxSockets \in Nat, SInv, NEW u \in Sockets, connectAnswered(u)
    PROVE  SInv'
<1>0. PICK m : m = sock[u].mux
  OBVIOUS
<1>1. PICK status \in {"CONNECTED", "OPENED"} :
        /\ m = sock[u].mux
        /\ sock' = [sock EXCEPT ![u].connecting = FALSE, ![u].connected = TRUE,
                                ![u].onList = TRUE, ![u].status = status]
  BY <1>0 DEF connectAnswered
<1>2. /\ sock[u].status = "CONNECTING" /\ sock[u] \in SocketRecords /\ Staged(u)
      /\ accepting' = accepting
  BY DEF connectAnswered, SInv, Typed
<1>3. /\ sock[u].where = "sockets" /\ Live(u) /\ m \in Sockets /\ UserOf(u, m)
      /\ ~sock[u].onList /\ ~sock[u].leaving /\ sock[u].opened
  BY <1>1, <1>2 DEF Staged, Located, Live, UserOf, SocketRecords
<1>4. MuxRecord(mux[m]) /\ Agrees(m) /\ mux[m].new \in Seq(Sockets)
  BY <1>3 DEF SInv, Typed, MuxRecord
<1>5. PICK x, y, c, r :
        /\ c = Unregistered(mux[m].connectors, u)
        /\ r = Append(mux[m].new, u)
        /\ x = [sock[u] EXCEPT !.connecting = FALSE, !.connected = TRUE,
                               !.onList = TRUE, !.status = status]
        /\ y = [mux[m] EXCEPT !.connectors = c, !.new = r]
  OBVIOUS
<1>6. sock' = [sock EXCEPT ![u] = x] /\ mux' = [mux EXCEPT ![m] = y]
  <2>1. sock' = [sock EXCEPT ![u] = x]
    BY <1>1, <1>5 DEF SInv, Typed
  <2>2. mux' = [mux EXCEPT ![m].connectors = Unregistered(@, u), ![m].new = Append(@, u)]
    BY <1>1 DEF connectAnswered
  <2>3. mux' = [mux EXCEPT ![m] = y]
    BY <1>3, <1>5, <2>2 DEF SInv, Typed
  <2>4. QED
    BY <2>1, <2>3
<1>7. /\ x \in SocketRecords /\ x.where = sock[u].where /\ x.status = status
      /\ (x.opened <=> sock[u].opened) /\ x.onList /\ x.connected
      /\ x.mux = sock[u].mux /\ x.queued = sock[u].queued
      /\ x.listen = sock[u].listen /\ (x.owned <=> sock[u].owned)
      /\ (x.leaving <=> sock[u].leaving)
  BY <1>1, <1>2, <1>5 DEF SocketRecords, Statuses
<1>8. r \in Seq(Sockets)
  BY <1>4, <1>5
<1>9. /\ MuxRecord(y) /\ y.refs = mux[m].refs /\ y.listener = mux[m].listener
      /\ y.hash = mux[m].hash /\ y.timers = mux[m].timers /\ y.new = r
  <2> DEFINE R == [refs : Nat, listener : Sockets \cup {None}, hash : SUBSET Sockets,
                  timers : SUBSET Sockets, new : Seq(Sockets),
                  connectors : {mux[m].connectors, c}]
  <2>1. mux[m] \in R
    BY <1>4 DEF MuxRecord
  <2>2. /\ y \in R /\ y.refs = mux[m].refs /\ y.listener = mux[m].listener
        /\ y.hash = mux[m].hash /\ y.timers = mux[m].timers /\ y.new = r
    BY <1>5, <1>8, <2>1
  <2>3. MuxRecord(y)
    BY <2>2 DEF MuxRecord
  <2>4. QED
    BY <2>2, <2>3
<1>10. /\ sock' \in [Sockets -> SocketRecords] /\ sock'[u] = x
       /\ \A v \in Sockets \ {u} : sock'[v] = sock[v]
  BY <1>6, <1>7 DEF SInv, Typed
<1>11. /\ DOMAIN mux' = Sockets /\ mux' = [n \in Sockets |-> mux'[n]] /\ mux'[m] = y
       /\ \A n \in Sockets \ {m} : mux'[n] = mux[n]
  BY <1>3, <1>6 DEF SInv, Typed
<1>12. Typed'
  BY <1>2, <1>9, <1>10, <1>11 DEF SInv, Typed
<1>13. OnlyChanges(u)
  BY <1>7, <1>10 DEF OnlyChanges
<1>14. StaysQueued(u)
  BY <1>7, <1>10 DEF StaysQueued, SInv, Queued
<1>15. Live(u)' /\ UserOf(u, m)' /\ Placeless(u)'
  BY <1>1, <1>3, <1>7, <1>10 DEF UserOf, Live, Placeless
<1>16. Staged(u)'
  BY <1>1, <1>3, <1>7, <1>10 DEF Staged, Located, None, Sockets
<1>17. ASSUME NEW n \in Sockets \ {m}
       PROVE  mux'[n] = mux[n] /\ Agrees(n)' /\ Counted(n)'
  <2>1. ~UserOf(u, n)' /\ ~UserOf(u, n)
    BY <1>1, <1>7, <1>10 DEF UserOf
  <2>2. QED
    BY <1>11, <1>13, <2>1, OtherMuxes
<1>18. \A v \in Sockets : UserOf(v, m)' <=> UserOf(v, m)
  BY <1>3, <1>10, <1>15 DEF UserOf, Live
<1>19. Users(m)' = Users(m) /\ Counted(m)'
  BY <1>3, <1>9, <1>11, <1>18 DEF Users, Counted, SInv
<1>20. mux'[m].refs # 0
  BY <1>3, <1>9, <1>11, UsedIsCounted DEF Users
<1>21. Agrees(m)'
  <2>1. u \notin Entered(m) /\ mux[m].listener # u
    BY <1>2, <1>3, <1>4 DEF Agrees, None, Sockets
  <2>2. \A v \in Sockets \ {u} :
          UserOf(v, m) => /\ UserOf(v, m)'
                          /\ (sock'[v].onList <=> sock[v].onList)
                          /\ (sock'[v].opened <=> sock[v].opened)
                          /\ sock'[v].status \in {sock[v].status, "CLOSED"}
    BY <1>10, <1>18
  <2>3. sock'[u].onList
    BY <1>7, <1>10
  <2>4. /\ mux'[m].hash = mux[m].hash /\ mux'[m].timers = mux[m].timers
        /\ mux'[m].new = Append(mux[m].new, u)
        /\ mux'[m].listener = mux[m].listener
    BY <1>5, <1>9, <1>11
  <2>5. QED
    BY <1>3, <1>15, <1>20, <2>1, <2>2, <2>3, <2>4, AgreesEntered
<1>22. sock'[u].where # "none"
  BY <1>3, <1>7, <1>10
<1>23. QED
  BY <1>2, <1>3, <1>12, <1>13, <1>14, <1>15, <1>16, <1>17, <1>19, <1>21, <1>22, MuxStep

\* What a socket keeps that is at most closed.
SameButStatus(x, y) ==
    /\ x.where = y.where /\ x.status \in {y.status, "CLOSED"} /\ (x.opened <=> y.opened)
    /\ (x.connected <=> y.connected) /\ (x.onList <=> y.onList) /\ x.mux = y.mux
    /\ x.listen = y.listen /\ (x.owned <=> y.owned) /\ (x.leaving <=> y.leaving)

LEMMA Restart ==
    ASSUME SInv, NEW u \in Sockets, sock[u].where = "sockets", NEW s,
           s = Dequeued([sock EXCEPT ![u].status = "CLOSED", ![u].old = FALSE], u)
    PROVE  /\ s \in [Sockets -> SocketRecords]
           /\ \A v \in Sockets :
                /\ SameButStatus(s[v], sock[v]) /\ s[v].queued \subseteq sock[v].queued
                /\ ~Live(v) => s[v] = sock[v]
<1>1. PICK z \in SocketRecords : z = sock[u]
  BY DEF SInv, Typed
<1>2. PICK x : x = [z EXCEPT !.status = "CLOSED", !.old = FALSE]
  OBVIOUS
<1>3. x \in SocketRecords /\ SameButStatus(x, z) /\ x.queued = z.queued
  BY <1>1, <1>2 DEF SocketRecords, Statuses, SameButStatus
<1>4. PICK t : t = [sock EXCEPT ![u] = x]
  OBVIOUS
<1>5. /\ t \in [Sockets -> SocketRecords] /\ t[u] = x
      /\ \A v \in Sockets \ {u} : t[v] = sock[v]
  BY <1>3, <1>4 DEF SInv, Typed
<1>6. s = Dequeued(t, u)
  BY <1>1, <1>2, <1>4 DEF SInv, Typed
<1>7. /\ s \in [Sockets -> SocketRecords]
      /\ \A v \in Sockets :
           /\ SameButQueue(s[v], t[v]) /\ s[v].queued \subseteq t[v].queued
           /\ t[v].queued = {} => s[v] = t[v]
           /\ t[u].listen = v => u \notin s[v].queued
  BY <1>5, <1>6, Dequeue
<1>8. ASSUME NEW v \in Sockets
      PROVE  /\ SameButStatus(s[v], sock[v]) /\ s[v].queued \subseteq sock[v].queued
             /\ ~Live(v) => s[v] = sock[v]
  <2>1. CASE v = u
    <3>1. SameButQueue(s[u], x) /\ s[u].queued \subseteq x.queued
      BY <1>5, <1>7
    <3>2. SameButStatus(s[u], z) /\ s[u].queued \subseteq z.queued
      BY <1>3, <3>1 DEF SameButStatus, SameButQueue
    <3>3. QED
      BY <1>1, <2>1, <3>2 DEF Live
  <2>2. CASE v # u
    <3>1. t[v] = sock[v] /\ SameButQueue(s[v], sock[v])
          /\ s[v].queued \subseteq sock[v].queued
      BY <1>5, <1>7, <2>2
    <3>2. SameButStatus(s[v], sock[v])
      BY <3>1 DEF SameButStatus, SameButQueue
    <3>3. ~Live(v) => s[v] = sock[v]
      BY <1>7, <3>1, PlacelessFacts
    <3>4. QED
      BY <3>1, <3>2, <3>3
  <2>3. QED
    BY <2>1, <2>2
<1>9. QED
  BY <1>7, <1>8

\* A socket that is at most closed stays what the invariant says of it.
LEMMA StillStaged ==
    ASSUME SInv, NEW v \in Sockets, SameButStatus(sock'[v], sock[v]),
           ~Live(v) => sock'[v] = sock[v]
    PROVE  Placeless(v)' /\ Staged(v)' /\ StaysUser(v)
<1>1. Staged(v) /\ Placeless(v)
  BY DEF SInv
<1>2. Staged(v)'
  BY <1>1 DEF SameButStatus, Staged, Located
<1>3. Placeless(v)'
  BY <1>1 DEF SameButStatus, Placeless, Live
<1>4. \A n \in Sockets : mux[n].listener = v =>
        sock[v].opened /\ sock[v].status \in {"LISTENING", "CLOSED"}
  BY DEF SInv, Agrees, None, Sockets
<1>5. StaysUser(v)
  BY <1>4 DEF SameButStatus, StaysUser, UserOf, Live
<1>6. QED
  BY <1>2, <1>3, <1>5

LEMMA KeptNewConnection ==
    ASSUME MaxSockets \in Nat, SInv, NEW m \in Sockets, NEW p \in Peers,
           newConnection(m, p)
    PROVE  SInv'
<1>0. PICK l, again : /\ l = mux[m].listener
                     /\ again = {u \in Known(p) : sock[u].broken}
  OBVIOUS
<1>0a. PICK u0 : u0 = CHOOSE v \in again : TRUE
  OBVIOUS
<1>1. PICK s :
        s = IF again = {} THEN sock
            ELSE Dequeued([sock EXCEPT ![u0].status = "CLOSED", ![u0].old = FALSE], u0)
  OBVIOUS
<1>2. /\ l # None
      /\ accepting' = accepting
      /\ \/ \E w \in Sockets :
               /\ Fresh(w)
               /\ sock' = Accepted(s, w, l, p)
               /\ mux' = [mux EXCEPT ![m].refs = @ + 1, ![m].new = Append(@, w)]
         \/ sock' = s /\ UNCHANGED mux
  BY <1>0, <1>0a, <1>1 DEF newConnection
<1>3. /\ MuxRecord(mux[m]) /\ Agrees(m) /\ mux[m].new \in Seq(Sockets)
      /\ l \in Sockets /\ UserOf(l, m) /\ Live(l)
  BY <1>0, <1>2 DEF SInv, Typed, MuxRecord, Agrees, UserOf
<1>4. /\ s \in [Sockets -> SocketRecords]
      /\ \A v \in Sockets :
           /\ SameButStatus(s[v], sock[v]) /\ s[v].queued \subseteq sock[v].queued
           /\ ~Live(v) => s[v] = sock[v]
  <2>1. CASE again = {}
    BY <1>1, <2>1 DEF SInv, Typed, SameButStatus
  <2>2. CASE again # {}
    <3>1. u0 \in Sockets /\ sock[u0].where = "sockets"
      BY <1>0, <1>0a, <2>2 DEF Known
    <3>2. s = Dequeued([sock EXCEPT ![u0].status = "CLOSED", ![u0].old = FALSE], u0)
      BY <1>1, <2>2
    <3>3. QED
      BY <3>1, <3>2, Restart
  <2>3. QED
    BY <2>1, <2>2
<1>5. CASE sock' = s /\ UNCHANGED mux
  <2>1. Typed'
    BY <1>2, <1>4, <1>5 DEF SInv, Typed
  <2>2. \A v \in Sockets : Placeless(v)' /\ Staged(v)' /\ StaysUser(v)
    BY <1>4, <1>5, StillStaged
  <2>3. ASSUME NEW k \in Sockets, NEW v \in sock'[k].queued
        PROVE  sock'[v].where = "sockets" /\ sock'[v].listen = k
               /\ ~sock'[v].owned /\ v # accepting'
    <3>1. v \in sock[k].queued /\ v \in Sockets
      BY <1>4, <1>5, <2>3 DEF SInv, Typed, SocketRecords
    <3>2. QED
      BY <1>2, <1>4, <1>5, <3>1 DEF SInv, Queued, SameButStatus
  <2>4. \A n \in Sockets : Agrees(n)' /\ Counted(n)'
    BY <1>5, <2>2, MuxStays
  <2>5. accepting' # None => sock'[accepting'].where # "none"
    BY <1>2, <1>4, <1>5 DEF SInv, Typed, SameButStatus
  <2>6. QED
    BY <2>1, <2>2, <2>3, <2>4, <2>5 DEF SInv, Queued
<1>6. ASSUME NEW w \in Sockets, Fresh(w),
             sock' = Accepted(s, w, l, p),
             mux' = [mux EXCEPT ![m].refs = @ + 1, ![m].new = Append(@, w)]
      PROVE  SInv'
  <2>1. /\ sock[w].where = "none" /\ ~Live(w) /\ w # l /\ w # accepting
        /\ \A n \in Sockets : ~UserOf(w, n)
    <3>1. sock[w].where = "none"
      BY <1>6 DEF Fresh
    <3>2. ~Live(w)
      BY <3>1 DEF Live
    <3>3. w # accepting
      BY <3>1 DEF SInv, None, Sockets
    <3>4. QED
      BY <1>3, <3>1, <3>2, <3>3 DEF UserOf
  <2>2. PICK x : x = [NoSocket EXCEPT
                        !.where = "sockets", !.status = "CONNECTED",
                        !.opened = TRUE, !.connected = TRUE, !.onList = TRUE,
                        !.mux = m, !.peer = p, !.listen = l]
    OBVIOUS
  <2>3. PICK z : z = [s[l] EXCEPT !.queued = @ \cup {w}]
    OBVIOUS
  <2>4. PICK r, c, y : /\ r = Append(mux[m].new, w) /\ c = mux[m].refs + 1
                       /\ y = [mux[m] EXCEPT !.refs = c, !.new = r]
    OBVIOUS
  <2>5. /\ x \in SocketRecords /\ x.where = "sockets" /\ x.status = "CONNECTED"
        /\ x.opened /\ x.connected /\ x.onList /\ x.mux = m /\ x.listen = l
        /\ x.queued = {} /\ ~x.owned /\ ~x.leaving
    <3>1. x = [where |-> "sockets", status |-> "CONNECTED", opened |-> TRUE,
               connecting |-> FALSE, connected |-> TRUE, broken |-> FALSE,
               closing |-> FALSE, unread |-> FALSE, onList |-> TRUE, old |-> FALSE,
               mux |-> m, peer |-> p, listen |-> l, queued |-> {}, owned |-> FALSE,
               leaving |-> FALSE, connects |-> 0]
      BY <2>2 DEF NoSocket
    <3>2. /\ x.where = "sockets" /\ x.status = "CONNECTED"
          /\ x.opened /\ x.connected /\ x.onList /\ x.mux = m /\ x.listen = l
          /\ x.queued = {} /\ ~x.owned /\ ~x.leaving
      BY <3>1
    <3>3. /\ m \in Sockets \cup {None} /\ p \in Peers \cup {None}
          /\ l \in Sockets \cup {None} /\ {} \in SUBSET Sockets /\ 0 \in Nat
          /\ TRUE \in BOOLEAN /\ FALSE \in BOOLEAN
          /\ "sockets" \in Places /\ "CONNECTED" \in Statuses
      BY <1>3 DEF Places, Statuses
    <3>4. x \in SocketRecords
      BY <3>1, <3>3 DEF SocketRecords
    <3>5. QED
      BY <3>2, <3>4
  <2>6. z \in SocketRecords /\ SameButStatus(z, s[l]) /\ z.queued = s[l].queued \cup {w}
    <3>1. PICK t \in SocketRecords : t = s[l]
      BY <1>3, <1>4
    <3>2. z = [t EXCEPT !.queued = @ \cup {w}]
      BY <2>3, <3>1
    <3>3. z \in SocketRecords /\ SameButStatus(z, t) /\ z.queued = t.queued \cup {w}
      BY <3>1, <3>2 DEF SocketRecords, SameButStatus
    <3>4. QED
      BY <3>1, <3>3
  <2>7. r \in Seq(Sockets)
    BY <1>3, <2>4
  <2>8. /\ MuxRecord(y) /\ y.refs = mux[m].refs + 1 /\ y.listener = mux[m].listener
        /\ y.hash = mux[m].hash /\ y.timers = mux[m].timers /\ y.new = r
    <3> DEFINE R == [refs : Nat, listener : Sockets \cup {None}, hash : SUBSET Sockets,
                    timers : SUBSET Sockets, new : Seq(Sockets),
                    connectors : {mux[m].connectors}]
    <3>1. mux[m] \in R
      BY <1>3 DEF MuxRecord
    <3>0. c \in Nat
      BY <1>3, <2>4 DEF MuxRecord
    <3>2. /\ y \in R /\ y.refs = c /\ y.listener = mux[m].listener
          /\ y.hash = mux[m].hash /\ y.timers = mux[m].timers /\ y.new = r
      BY <2>4, <2>7, <3>0, <3>1
    <3>3. MuxRecord(y)
      BY <3>2 DEF MuxRecord
    <3>4. QED
      BY <2>4, <3>2, <3>3
  <2>9. s[l].mux = m
    BY <1>3, <1>4 DEF UserOf, SameButStatus
  <2>10. /\ sock' \in [Sockets -> SocketRecords] /\ sock'[w] = x /\ sock'[l] = z
         /\ \A v \in Sockets \ {w, l} : sock'[v] = s[v]
    <3>1. sock' = [s EXCEPT ![w] = x, ![l].queued = @ \cup {w}]
      BY <1>6, <2>2, <2>9 DEF Accepted
    <3>2. sock' = [s EXCEPT ![w] = x, ![l] = z]
      BY <1>3, <1>4, <2>1, <2>3, <3>1
    <3>3. QED
      BY <1>3, <1>4, <2>1, <2>5, <2>6, <3>2
  <2>11. mux' = [mux EXCEPT ![m] = y]
    BY <1>6, <2>4 DEF SInv, Typed
  <2>12. /\ DOMAIN mux' = Sockets /\ mux' = [n \in Sockets |-> mux'[n]] /\ mux'[m] = y
         /\ \A n \in Sockets \ {m} : mux'[n] = mux[n]
    BY <2>11 DEF SInv, Typed
  <2>13. Typed'
    BY <1>2, <2>8, <2>10, <2>12 DEF SInv, Typed
  <2>14. ASSUME NEW v \in Sockets \ {w}
         PROVE  /\ SameButStatus(sock'[v], sock[v])
                /\ ~Live(v) => sock'[v] = sock[v]
    <3>1. CASE v = l
      BY <1>3, <1>4, <2>6, <2>10, <3>1 DEF SameButStatus
    <3>2. CASE v # l
      BY <1>4, <2>10, <3>2
    <3>3. QED
      BY <3>1, <3>2
  <2>15. \A v \in Sockets \ {w} : Placeless(v)' /\ Staged(v)' /\ StaysUser(v)
    BY <2>14, StillStaged
  <2>16. /\ Placeless(w)' /\ Staged(w)' /\ UserOf(w, m)'
         /\ \A n \in Sockets \ {m} : ~UserOf(w, n)'
    BY <2>5, <2>10 DEF Placeless, Staged, UserOf, Live, Located, None, Sockets
  <2>17. ASSUME NEW k \in Sockets, NEW v \in sock'[k].queued
         PROVE  sock'[v].where = "sockets" /\ sock'[v].listen = k
                /\ ~sock'[v].owned /\ v # accepting'
    <3>1. CASE v = w
      <4>1. \A j \in Sockets : w \notin sock[j].queued
        BY <2>1 DEF SInv, Queued
      <4>2. k = l
        BY <1>4, <2>5, <2>10, <2>17, <3>1, <4>1
      <4>3. QED
        BY <1>2, <2>1, <2>5, <2>10, <3>1, <4>2
    <3>2. CASE v # w
      <4>1. v \in sock[k].queued
        BY <1>4, <2>5, <2>6, <2>10, <2>17, <3>2
      <4>2. v \in Sockets
        BY <4>1 DEF SInv, Typed, SocketRecords
      <4>3. SameButStatus(sock'[v], sock[v])
        BY <2>14, <3>2, <4>2
      <4>4. QED
        BY <1>2, <4>1, <4>3 DEF SInv, Queued, SameButStatus
    <3>3. QED
      BY <3>1, <3>2
  <2>18. ASSUME NEW n \in Sockets \ {m} PROVE Agrees(n)' /\ Counted(n)'
    <3>1. \A v \in Sockets : UserOf(v, n)' <=> UserOf(v, n)
      BY <2>1, <2>15, <2>16 DEF StaysUser
    <3>2. Users(n)' = Users(n) /\ Counted(n)'
      BY <2>12, <3>1 DEF Users, Counted, SInv
    <3>3. Agrees(n) /\ MuxRecord(mux[n]) /\ mux'[n] = mux[n]
      BY <2>12 DEF SInv, Typed
    <3>4. Entered(n) \subseteq Sockets
      BY <3>3, ElementOfSeq DEF Entered, MuxRecord
    <3>5. \A v \in Entered(n) : UserOf(v, n)' /\ sock'[v].onList
      BY <2>1, <2>15, <3>1, <3>3, <3>4 DEF Agrees, StaysUser
    <3>6. mux'[n].listener # None =>
            /\ mux'[n].listener = mux[n].listener
            /\ UserOf(mux[n].listener, n)'
            /\ sock'[mux[n].listener].opened
            /\ sock'[mux[n].listener].status \in {"LISTENING", "CLOSED"}
      <4>1. PICK k \in Sockets \cup {None} : k = mux[n].listener
        BY <3>3 DEF MuxRecord
      <4>2. k # None => UserOf(k, n)' /\ sock'[k].opened
                        /\ sock'[k].status \in {"LISTENING", "CLOSED"}
        BY <2>1, <2>15, <3>1, <3>3, <4>1 DEF Agrees, StaysUser
      <4>3. mux'[n].listener = k
        BY <3>3, <4>1
      <4>4. QED
        BY <4>1, <4>2, <4>3 DEF UserOf, Live
    <3>7. mux'[n].refs = 0 => mux'[n] = NoMux
      BY <3>3 DEF Agrees
    <3>8. Agrees(n)'
      BY <3>3, <3>5, <3>6, <3>7, AgreesStays
    <3>9. QED
      BY <3>2, <3>8
  <2>19. Counted(m)' /\ mux'[m].refs # 0
    <3>1. \A v \in Sockets \ {w} : UserOf(v, m)' <=> UserOf(v, m)
      BY <2>15 DEF StaysUser
    <3>2. Users(m)' = Users(m) \cup {w} /\ w \notin Users(m)
      BY <2>1, <2>16, <3>1 DEF Users
    <3>3. QED
      BY <2>8, <2>12, <3>2, OneMoreUser
  <2>20. Agrees(m)'
    <3>1. w \notin Entered(m) /\ mux[m].listener # w
      BY <1>0, <1>3, <2>1 DEF Agrees
    <3>2. \A v \in Sockets \ {w} :
            UserOf(v, m) => /\ UserOf(v, m)'
                            /\ (sock'[v].onList <=> sock[v].onList)
                            /\ (sock'[v].opened <=> sock[v].opened)
                            /\ sock'[v].status \in {sock[v].status, "CLOSED"}
      BY <2>14, <2>15 DEF StaysUser, SameButStatus
    <3>3. /\ mux'[m].hash = mux[m].hash /\ mux'[m].timers = mux[m].timers
          /\ mux'[m].new = Append(mux[m].new, w)
          /\ mux'[m].listener = mux[m].listener
      BY <2>4, <2>8, <2>12
    <3>4. sock'[w].onList
      BY <2>5, <2>10
    <3>5. QED
      BY <2>16, <2>19, <3>1, <3>2, <3>3, <3>4, AgreesEntered
  <2>21. accepting' # None => sock'[accepting'].where # "none"
    BY <1>2, <2>1, <2>14 DEF SInv, Typed, SameButStatus
  <2>22. \A v \in Sockets : Placeless(v)' /\ Staged(v)' /\ Queued(v)'
    <3>1. \A v \in Sockets : Placeless(v)' /\ Staged(v)'
      BY <2>15, <2>16
    <3>2. \A v \in Sockets : Queued(v)'
      BY <2>17 DEF Queued
    <3>3. QED
      BY <3>1, <3>2
  <2>23. QED
    BY <2>13, <2>18, <2>19, <2>20, <2>21, <2>22 DEF SInv
<1>7. QED
  BY <1>2, <1>5, <1>6

LEMMA NoMuxFacts ==
    ASSUME NEW x, x = NoMux
    PROVE  /\ MuxRecord(x) /\ x.refs = 0 /\ x.listener = None
           /\ x.hash = {} /\ x.timers = {} /\ x.new = <<>>
<1>1. /\ x = [refs |-> 0, listener |-> None, hash |-> {}, timers |-> {},
              new |-> <<>>, connectors |-> <<>>]
      /\ x.refs = 0 /\ x.listener = None
      /\ x.hash = {} /\ x.timers = {} /\ x.new = <<>> /\ x.connectors = <<>>
  BY DEF NoMux
<1>2. <<>> \in Seq(Sockets)
  OBVIOUS
<1>3. QED
  BY <1>1, <1>2 DEF MuxRecord

LEMMA KeptRemoveSocket ==
    ASSUME MaxSockets \in Nat, SInv, NEW u \in Sockets, removeSocket(u)
    PROVE  SInv'
<1>1. PICK Q, U, m0 : Q = sock[u].queued /\ U = Q \cup {u} /\ m0 = sock[u].mux
  OBVIOUS
<1>2. PICK s, f : s = ClosedUDT(sock, U) /\ f = ForgottenBy(mux, U)
  OBVIOUS
<1>3. /\ sock[u].where = "closed" /\ ~sock[u].onList /\ accepting' = accepting
      /\ sock' = [v \in Sockets |->
                    IF v = u THEN [NoSocket EXCEPT !.where = "gone"]
                    ELSE IF v \in Q
                    THEN [s[v] EXCEPT !.broken = TRUE, !.status = "CLOSED",
                                      !.old = FALSE, !.where = "closed"]
                    ELSE s[v]]
      /\ mux' = Released(f, m0)
  BY <1>1, <1>2 DEF removeSocket, Removable
<1>4. /\ sock[u] \in SocketRecords /\ Live(u) /\ Q \in SUBSET Sockets
      /\ U \in SUBSET Sockets /\ m0 \in Sockets \cup {None}
      /\ \A v \in Q : sock[v].where = "sockets" /\ sock[v].listen = u /\ v # u
  BY <1>1, <1>3 DEF SInv, Typed, SocketRecords, Queued, Live
<1>5. /\ s \in [Sockets -> SocketRecords]
      /\ \A v \in Sockets :
           /\ s[v].where = sock[v].where /\ s[v].status = sock[v].status
           /\ s[v].onList = sock[v].onList /\ s[v].mux = sock[v].mux
           /\ s[v].listen = sock[v].listen /\ s[v].queued = sock[v].queued
           /\ s[v].owned = sock[v].owned /\ s[v].leaving = sock[v].leaving
           /\ IF v \in U THEN ~s[v].opened ELSE s[v] = sock[v]
  BY <1>2, <1>4, Closing
<1>6. /\ DOMAIN f = Sockets /\ f = [m \in Sockets |-> f[m]]
      /\ \A m \in Sockets :
           /\ MuxRecord(f[m])
           /\ f[m].refs = mux[m].refs /\ f[m].hash = mux[m].hash
           /\ f[m].timers = mux[m].timers /\ f[m].new = mux[m].new
           /\ f[m].listener # None =>
                /\ f[m].listener = mux[m].listener
                /\ f[m].listener \notin U
           /\ mux[m].refs = 0 => f[m] = NoMux
  BY <1>2, <1>4, Forgotten
<1>7. /\ sock'[u] = [NoSocket EXCEPT !.where = "gone"]
      /\ sock'[u] \in SocketRecords /\ sock'[u].where = "gone"
      /\ sock'[u].status = "INIT" /\ sock'[u].mux = None /\ sock'[u].queued = {}
      /\ ~sock'[u].opened /\ ~sock'[u].onList /\ ~sock'[u].leaving
  <2>1. PICK x : x = [NoSocket EXCEPT !.where = "gone"]
    OBVIOUS
  <2>2. PICK z \in SocketRecords : z = NoSocket
    BY NoSocketFacts
  <2>3. x = [z EXCEPT !.where = "gone"]
    BY <2>1, <2>2
  <2>4. /\ x \in SocketRecords /\ x.where = "gone" /\ x.status = z.status
        /\ x.mux = z.mux /\ x.queued = z.queued /\ (x.opened <=> z.opened)
        /\ (x.onList <=> z.onList) /\ (x.leaving <=> z.leaving)
    BY <2>2, <2>3 DEF SocketRecords, Places
  <2>5. sock'[u] = x
    BY <1>3, <2>1
  <2>6. QED
    BY <2>1, <2>2, <2>4, <2>5, NoSocketFacts
<1>8. ASSUME NEW v \in Q
      PROVE  /\ sock'[v] \in SocketRecords /\ sock'[v].where = "closed"
             /\ sock'[v].status = "CLOSED" /\ ~sock'[v].opened
             /\ (sock'[v].onList <=> sock[v].onList) /\ sock'[v].mux = sock[v].mux
             /\ sock'[v].queued = sock[v].queued
             /\ (sock'[v].owned <=> sock[v].owned)
             /\ (sock'[v].leaving <=> sock[v].leaving)
  <2>1. PICK z \in SocketRecords : z = s[v]
    BY <1>4, <1>5
  <2>2. PICK x : x = [z EXCEPT !.broken = TRUE, !.status = "CLOSED",
                               !.old = FALSE, !.where = "closed"]
    OBVIOUS
  <2>3. sock'[v] = x
    BY <1>3, <1>4, <2>1, <2>2
  <2>4. /\ x \in SocketRecords /\ x.where = "closed" /\ x.status = "CLOSED"
        /\ (x.opened <=> z.opened) /\ (x.onList <=> z.onList) /\ x.mux = z.mux
        /\ x.queued = z.queued /\ (x.owned <=> z.owned) /\ (x.leaving <=> z.leaving)
    BY <2>1, <2>2 DEF SocketRecords, Statuses, Places
  <2>5. v \in Sockets /\ v \in U
    BY <1>1, <1>4
  <2>6. QED
    BY <1>5, <2>1, <2>3, <2>4, <2>5
<1>9. \A v \in Sockets \ U : sock'[v] = sock[v]
  BY <1>1, <1>3, <1>5
<1>10. sock' \in [Sockets -> SocketRecords]
  <2>1. \A v \in Sockets : sock'[v] \in SocketRecords
    BY <1>1, <1>7, <1>8, <1>9 DEF SInv, Typed
  <2>2. DOMAIN sock' = Sockets /\ sock' = [v \in Sockets |-> sock'[v]]
    BY <1>3
  <2>3. QED
    BY <2>1, <2>2
<1>11. ASSUME NEW v \in Sockets \ {u}
       PROVE  /\ \A m \in Sockets : UserOf(v, m)' <=> UserOf(v, m)
              /\ (sock'[v].onList <=> sock[v].onList)
              /\ sock'[v].queued = sock[v].queued
  BY <1>1, <1>4, <1>8, <1>9 DEF UserOf, Live
<1>12. ~Live(u)' /\ \A m \in Sockets : ~UserOf(u, m)'
  BY <1>7 DEF Live, UserOf
<1>13. ASSUME NEW v \in Sockets PROVE Placeless(v)' /\ Staged(v)'
  <2>1. CASE v = u
    BY <1>7, <2>1 DEF Placeless, Staged, Located
  <2>2. CASE v \in Q
    <3>1. Placeless(v)'
      BY <1>8, <2>2 DEF Placeless, Live
    <3>2. Staged(v)
      BY DEF SInv
    <3>3. Staged(v)'
      BY <1>8, <2>2, <3>2 DEF Staged, Located
    <3>4. QED
      BY <3>1, <3>3
  <2>3. CASE v \notin U
    <3>1. sock'[v] = sock[v] /\ Placeless(v) /\ Staged(v)
      BY <1>9, <2>3 DEF SInv
    <3>2. QED
      BY <3>1 DEF Placeless, Staged, Live, Located
  <2>4. QED
    BY <1>1, <2>1, <2>2, <2>3
<1>14. ASSUME NEW k \in Sockets, NEW v \in sock'[k].queued
       PROVE  sock'[v].where = "sockets" /\ sock'[v].listen = k
              /\ ~sock'[v].owned /\ v # accepting'
  <2>1. k # u
    BY <1>7, <1>14
  <2>2. v \in sock[k].queued
    BY <1>11, <1>14, <2>1
  <2>3. /\ v \in Sockets /\ sock[v].where = "sockets" /\ sock[v].listen = k
        /\ ~sock[v].owned /\ v # accepting
    BY <2>2 DEF SInv, Typed, SocketRecords, Queued
  <2>4. v \notin U
    BY <1>1, <1>3, <1>4, <2>1, <2>3
  <2>5. QED
    BY <1>3, <1>9, <2>3, <2>4
<1>15. ASSUME NEW m \in Sockets
       PROVE  /\ Agrees(m) /\ MuxRecord(mux[m]) /\ Entered(m) \subseteq Sockets
              /\ \A v \in Entered(m) : UserOf(v, m)' /\ sock'[v].onList
  <2>1. Agrees(m) /\ MuxRecord(mux[m])
    BY DEF SInv, Typed
  <2>2. Entered(m) \subseteq Sockets
    BY <2>1, ElementOfSeq DEF Entered, MuxRecord
  <2>3. \A v \in Entered(m) : UserOf(v, m)' /\ sock'[v].onList
    BY <1>3, <1>11, <2>1, <2>2 DEF Agrees
  <2>4. QED
    BY <2>1, <2>2, <2>3
<1>16. ASSUME NEW m \in Sockets, mux'[m].listener = f[m].listener
       PROVE  mux'[m].listener # None =>
                /\ mux'[m].listener = mux[m].listener
                /\ UserOf(mux[m].listener, m)'
                /\ sock'[mux[m].listener].opened
                /\ sock'[mux[m].listener].status \in {"LISTENING", "CLOSED"}
  <2>1. PICK k \in Sockets \cup {None} : k = mux[m].listener
    BY <1>15 DEF MuxRecord
  <2>2. mux'[m].listener # None => mux'[m].listener = k /\ k # None /\ k \in Sockets \ U
    BY <1>6, <1>16, <2>1
  <2>3. k # None => UserOf(k, m) /\ sock[k].opened
                    /\ sock[k].status \in {"LISTENING", "CLOSED"}
    BY <1>15, <2>1 DEF Agrees
  <2>4. mux'[m].listener # None =>
          UserOf(k, m)' /\ sock'[k].opened /\ sock'[k].status \in {"LISTENING", "CLOSED"}
    BY <1>9, <2>2, <2>3 DEF UserOf, Live
  <2>5. QED
    BY <2>1, <2>2, <2>4 DEF UserOf, Live
<1>17. ASSUME NEW m \in Sockets, mux'[m] = f[m], m # m0
       PROVE  MuxRecord(mux'[m]) /\ Agrees(m)' /\ Counted(m)'
  <2>1. u \notin Users(m)
    BY <1>1, <1>17 DEF Users, UserOf
  <2>2. Users(m)' = Users(m)
    BY <1>11, <1>12, <2>1 DEF Users
  <2>3. Counted(m)'
    BY <1>6, <1>17, <2>2 DEF Counted, SInv
  <2>4. mux'[m].refs = 0 => mux'[m] = NoMux
    BY <1>6, <1>17
  <2>5. mux'[m].listener # None =>
          /\ mux'[m].listener = mux[m].listener
          /\ UserOf(mux[m].listener, m)'
          /\ sock'[mux[m].listener].opened
          /\ sock'[mux[m].listener].status \in {"LISTENING", "CLOSED"}
    BY <1>16, <1>17
  <2>6. /\ mux'[m].hash = mux[m].hash /\ mux'[m].timers = mux[m].timers
        /\ mux'[m].new = mux[m].new
    BY <1>6, <1>17
  <2>7. Agrees(m)'
    BY <1>15, <2>4, <2>5, <2>6, AgreesStays
  <2>8. MuxRecord(mux'[m])
    BY <1>6, <1>17
  <2>9. QED
    BY <2>3, <2>7, <2>8
<1>18. DOMAIN mux' = Sockets /\ mux' = [m \in Sockets |-> mux'[m]]
  BY <1>3, <1>4, <1>6 DEF Released
<1>19. ASSUME NEW m \in Sockets
       PROVE  MuxRecord(mux'[m]) /\ Agrees(m)' /\ Counted(m)'
  <2>1. CASE m # m0
    <3>1. mux'[m] = f[m]
      BY <1>3, <1>6, <2>1 DEF Released
    <3>2. QED
      BY <1>17, <2>1, <3>1
  <2>2. CASE m = m0
    <3>1. /\ m0 # None
          /\ mux'[m] = IF f[m].refs = 1 THEN NoMux ELSE [f[m] EXCEPT !.refs = @ - 1]
      <4>1. m0 # None
        BY <2>2 DEF None, Sockets
      <4>2. PICK z : z = IF f[m0].refs = 1 THEN NoMux ELSE [f[m0] EXCEPT !.refs = @ - 1]
        OBVIOUS
      <4>3. mux' = [f EXCEPT ![m0] = z]
        <5>1. mux' = [f EXCEPT ![m0] = IF f[m0].refs = 1 THEN NoMux
                                       ELSE [f[m0] EXCEPT !.refs = @ - 1]]
          BY <1>3, <4>1 DEF Released
        <5>2. QED
          BY <4>2, <5>1
      <4>4. mux'[m0] = z
        BY <1>6, <2>2, <4>3
      <4>5. QED
        BY <2>2, <4>1, <4>2, <4>4
    <3>2. u \in Users(m)
      BY <1>1, <1>4, <2>2 DEF Users, UserOf
    <3>3. /\ Cardinality(Users(m) \ {u}) = mux[m].refs - 1
          /\ mux[m].refs \in Nat \ {0}
      BY <3>2, OneUserLess
    <3>4. Users(m)' = Users(m) \ {u}
      BY <1>11, <1>12 DEF Users
    <3>5. CASE mux[m].refs = 1
      <4>1. PICK x : x = mux'[m]
        OBVIOUS
      <4>2. x = NoMux
        BY <1>6, <3>1, <3>5, <4>1
      <4>3. /\ MuxRecord(x) /\ x.refs = 0 /\ x.listener = None
            /\ x.hash = {} /\ x.timers = {} /\ x.new = <<>>
        BY <4>2, NoMuxFacts
      <4>4. Counted(m)'
        BY <3>3, <3>4, <3>5, <4>1, <4>3 DEF Counted
      <4>5. DOMAIN mux'[m].new = {} /\ Entered(m)' = {}
        BY <4>1, <4>3 DEF Entered
      <4>6. Agrees(m)'
        BY <4>1, <4>2, <4>3, <4>5 DEF Agrees
      <4>7. QED
        BY <4>1, <4>3, <4>4, <4>6
    <3>6. CASE mux[m].refs # 1
      <4>1. PICK c, y : c = mux[m].refs - 1 /\ y = [f[m] EXCEPT !.refs = c]
        OBVIOUS
      <4>2. mux'[m] = y /\ c \in Nat \ {0}
        BY <1>6, <3>1, <3>3, <3>6, <4>1
      <4>3. /\ MuxRecord(y) /\ y.refs = c /\ y.listener = f[m].listener
            /\ y.hash = f[m].hash /\ y.timers = f[m].timers /\ y.new = f[m].new
        <5> DEFINE R == [refs : Nat, listener : Sockets \cup {None},
                        hash : SUBSET Sockets, timers : SUBSET Sockets,
                        new : Seq(Sockets), connectors : {f[m].connectors}]
        <5>1. f[m] \in R
          BY <1>6 DEF MuxRecord
        <5>2. /\ y \in R /\ y.refs = c /\ y.listener = f[m].listener
              /\ y.hash = f[m].hash /\ y.timers = f[m].timers /\ y.new = f[m].new
          BY <4>1, <4>2, <5>1
        <5>3. MuxRecord(y)
          BY <5>2 DEF MuxRecord
        <5>4. QED
          BY <5>2, <5>3
      <4>4. Counted(m)'
        BY <3>3, <3>4, <4>1, <4>2, <4>3 DEF Counted
      <4>5. /\ mux'[m].listener = f[m].listener /\ mux'[m].refs # 0
            /\ mux'[m].hash = mux[m].hash /\ mux'[m].timers = mux[m].timers
            /\ mux'[m].new = mux[m].new
        BY <1>6, <4>2, <4>3
      <4>6. mux'[m].listener # None =>
              /\ mux'[m].listener = mux[m].listener
              /\ UserOf(mux[m].listener, m)'
              /\ sock'[mux[m].listener].opened
              /\ sock'[mux[m].listener].status \in {"LISTENING", "CLOSED"}
        BY <1>16, <4>5
      <4>7. Agrees(m)'
        BY <1>15, <4>5, <4>6, AgreesStays
      <4>8. QED
        BY <4>2, <4>3, <4>4, <4>7
    <3>7. QED
      BY <3>5, <3>6
  <2>3. QED
    BY <2>1, <2>2
<1>20. Typed'
  BY <1>3, <1>10, <1>18, <1>19 DEF SInv, Typed
<1>21. accepting' # None => sock'[accepting'].where # "none"
  <2>1. accepting # None => sock'[accepting].where # "none"
    <3>1. SUFFICES ASSUME accepting # None PROVE sock'[accepting].where # "none"
      OBVIOUS
    <3>2. PICK a \in Sockets : a = accepting
      BY <3>1 DEF SInv, Typed
    <3>3. sock'[a].where # "none"
      BY <1>1, <1>7, <1>8, <1>9, <3>1, <3>2 DEF SInv
    <3>4. QED
      BY <3>2, <3>3
  <2>2. QED
    BY <1>3, <2>1
<1>22. \A v \in Sockets : Placeless(v)' /\ Staged(v)' /\ Queued(v)'
  <2>1. \A k \in Sockets : Queued(k)'
    BY <1>14 DEF Queued
  <2>2. QED
    BY <1>13, <2>1
<1>23. QED
  BY <1>19, <1>20, <1>21, <1>22 DEF SInv

LEMMA KeptCleanup ==
    ASSUME MaxSockets \in Nat, SInv, cleanup
    PROVE  SInv'
<1>1. PICK U : U = {u \in Sockets : sock[u].where = "sockets"}
  OBVIOUS
<1>2. PICK s, f : s = ClosedUDT(sock, U) /\ f = ForgottenBy(mux, U)
  OBVIOUS
<1>3. /\ accepting' = accepting /\ mux' = f
      /\ sock' = [u \in Sockets |->
                    IF u \in U
                    THEN [s[u] EXCEPT !.broken = TRUE, !.status = "CLOSED",
                                      !.where = "closed", !.old = TRUE,
                                      !.queued = {}]
                    ELSE IF s[u].where = "closed"
                    THEN [s[u] EXCEPT !.old = TRUE, !.queued = @ \ U]
                    ELSE s[u]]
  BY <1>1, <1>2 DEF cleanup
<1>4. U \in SUBSET Sockets
  BY <1>1
<1>5. /\ s \in [Sockets -> SocketRecords]
      /\ \A v \in Sockets :
           /\ s[v].where = sock[v].where /\ s[v].status = sock[v].status
           /\ s[v].onList = sock[v].onList /\ s[v].mux = sock[v].mux
           /\ s[v].listen = sock[v].listen /\ s[v].queued = sock[v].queued
           /\ s[v].owned = sock[v].owned /\ s[v].leaving = sock[v].leaving
           /\ IF v \in U THEN ~s[v].opened ELSE s[v] = sock[v]
  BY <1>2, <1>4, Closing
<1>6. /\ DOMAIN f = Sockets /\ f = [m \in Sockets |-> f[m]]
      /\ \A m \in Sockets :
           /\ MuxRecord(f[m])
           /\ f[m].refs = mux[m].refs /\ f[m].hash = mux[m].hash
           /\ f[m].timers = mux[m].timers /\ f[m].new = mux[m].new
           /\ f[m].listener # None =>
                /\ f[m].listener = mux[m].listener
                /\ f[m].listener \notin U
           /\ mux[m].refs = 0 => f[m] = NoMux
  BY <1>2, <1>4, Forgotten
<1>7. ASSUME NEW v \in U
      PROVE  /\ sock'[v] \in SocketRecords /\ sock'[v].where = "closed"
             /\ sock'[v].status = "CLOSED" /\ ~sock'[v].opened
             /\ (sock'[v].onList <=> sock[v].onList) /\ sock'[v].mux = sock[v].mux
             /\ sock'[v].queued = {}
             /\ (sock'[v].owned <=> sock[v].owned)
             /\ (sock'[v].leaving <=> sock[v].leaving)
  <2>1. PICK z \in SocketRecords : z = s[v]
    BY <1>4, <1>5
  <2>2. PICK x : x = [z EXCEPT !.broken = TRUE, !.status = "CLOSED",
                               !.where = "closed", !.old = TRUE, !.queued = {}]
    OBVIOUS
  <2>3. sock'[v] = x
    BY <1>3, <1>4, <2>1, <2>2
  <2>4. /\ x \in SocketRecords /\ x.where = "closed" /\ x.status = "CLOSED"
        /\ (x.opened <=> z.opened) /\ (x.onList <=> z.onList) /\ x.mux = z.mux
        /\ x.queued = {} /\ (x.owned <=> z.owned) /\ (x.leaving <=> z.leaving)
    BY <2>1, <2>2 DEF SocketRecords, Statuses, Places
  <2>5. QED
    BY <1>4, <1>5, <2>1, <2>3, <2>4
<1>8. ASSUME NEW v \in Sockets \ U
      PROVE  /\ sock'[v] \in SocketRecords
             /\ SameButQueue(sock'[v], sock[v]) /\ sock'[v].queued = {}
             /\ ~Live(v) => sock'[v] = sock[v]
  <2>1. PICK z \in SocketRecords : z = sock[v]
    BY DEF SInv, Typed
  <2>2. s[v] = z
    BY <1>5, <2>1
  <2>3. CASE z.where = "closed"
    <3>1. PICK x : x = [z EXCEPT !.old = TRUE, !.queued = @ \ U]
      OBVIOUS
    <3>2. sock'[v] = x
      BY <1>3, <2>2, <2>3, <3>1
    <3>3. x \in SocketRecords /\ SameButQueue(x, z) /\ x.queued = z.queued \ U
      BY <2>1, <3>1 DEF SocketRecords, SameButQueue
    <3>4. z.queued \subseteq U
      BY <1>1, <2>1 DEF SInv, Queued, SocketRecords
    <3>5. Live(v)
      BY <2>1, <2>3 DEF Live
    <3>6. QED
      BY <2>1, <3>2, <3>3, <3>4, <3>5
  <2>4. CASE z.where # "closed"
    <3>1. sock'[v] = z
      BY <1>3, <2>2, <2>4
    <3>2. ~Live(v)
      BY <1>1, <2>1, <2>4 DEF Live
    <3>3. QED
      BY <2>1, <3>1, <3>2, PlacelessFacts DEF SameButQueue
  <2>5. QED
    BY <2>3, <2>4
<1>9. sock' \in [Sockets -> SocketRecords]
  <2>1. \A v \in Sockets : sock'[v] \in SocketRecords
    BY <1>7, <1>8
  <2>2. DOMAIN sock' = Sockets /\ sock' = [v \in Sockets |-> sock'[v]]
    BY <1>3
  <2>3. QED
    BY <2>1, <2>2
<1>10. Typed'
  BY <1>3, <1>6, <1>9 DEF SInv, Typed
<1>11. ASSUME NEW v \in Sockets
       PROVE  /\ \A m \in Sockets : UserOf(v, m)' <=> UserOf(v, m)
              /\ (sock'[v].onList <=> sock[v].onList) /\ sock'[v].queued = {}
              /\ sock'[v].where = "none" => sock[v].where = "none"
  BY <1>1, <1>7, <1>8 DEF UserOf, Live, SameButQueue
<1>12. ASSUME NEW v \in Sockets PROVE Placeless(v)' /\ Staged(v)'
  <2>1. CASE v \in U
    <3>1. Placeless(v)'
      BY <1>7, <2>1 DEF Placeless, Live
    <3>2. Staged(v)
      BY DEF SInv
    <3>3. Staged(v)'
      BY <1>7, <2>1, <3>2 DEF Staged, Located
    <3>4. QED
      BY <3>1, <3>3
  <2>2. CASE v \notin U
    <3>1. Placeless(v) /\ Staged(v) /\ SameButQueue(sock'[v], sock[v])
          /\ (~Live(v) => sock'[v] = sock[v])
      BY <1>8, <2>2 DEF SInv
    <3>2. Placeless(v)'
      BY <3>1 DEF Placeless, SameButQueue, Live
    <3>3. Staged(v)'
      BY <3>1 DEF Staged, SameButQueue, Located
    <3>4. QED
      BY <3>2, <3>3
  <2>3. QED
    BY <2>1, <2>2
<1>13. ASSUME NEW m \in Sockets PROVE Agrees(m)' /\ Counted(m)'
  <2>1. Agrees(m) /\ MuxRecord(mux[m])
    BY DEF SInv, Typed
  <2>2. Entered(m) \subseteq Sockets
    BY <2>1, ElementOfSeq DEF Entered, MuxRecord
  <2>3. \A v \in Entered(m) : UserOf(v, m)' /\ sock'[v].onList
    BY <1>11, <2>1, <2>2 DEF Agrees
  <2>4. PICK k \in Sockets \cup {None} : k = mux[m].listener
    BY <2>1 DEF MuxRecord
  <2>5. mux'[m].listener # None => mux'[m].listener = k /\ k # None /\ k \in Sockets \ U
    BY <1>3, <1>6, <2>4
  <2>6. k # None => UserOf(k, m) /\ sock[k].opened
                    /\ sock[k].status \in {"LISTENING", "CLOSED"}
    BY <2>1, <2>4 DEF Agrees
  <2>7. mux'[m].listener # None =>
          UserOf(k, m)' /\ sock'[k].opened /\ sock'[k].status \in {"LISTENING", "CLOSED"}
    BY <1>8, <1>11, <2>5, <2>6 DEF SameButQueue
  <2>8. mux'[m].listener # None =>
          /\ mux'[m].listener = mux[m].listener
          /\ UserOf(mux[m].listener, m)'
          /\ sock'[mux[m].listener].opened
          /\ sock'[mux[m].listener].status \in {"LISTENING", "CLOSED"}
    BY <2>4, <2>5, <2>7 DEF UserOf, Live
  <2>9. /\ mux'[m].hash = mux[m].hash /\ mux'[m].timers = mux[m].timers
        /\ mux'[m].new = mux[m].new /\ mux'[m].refs = mux[m].refs
        /\ mux'[m].refs = 0 => mux'[m] = NoMux
    BY <1>3, <1>6
  <2>10. Agrees(m)'
    BY <2>3, <2>8, <2>9, AgreesStays
  <2>11. Users(m)' = Users(m)
    BY <1>11 DEF Users
  <2>12. Counted(m)'
    BY <2>9, <2>11 DEF Counted, SInv
  <2>13. QED
    BY <2>10, <2>12
<1>14. accepting' # None => sock'[accepting'].where # "none"
  BY <1>3, <1>11 DEF SInv, Typed
<1>15. \A v \in Sockets : Placeless(v)' /\ Staged(v)' /\ Queued(v)'
  BY <1>11, <1>12 DEF Queued
<1>16. QED
  BY <1>10, <1>13, <1>14, <1>15 DEF SInv

-----------------------------------------------------------------------------
LEMMA Started == SocketsInit => SInv
<1> SUFFICES ASSUME SocketsInit PROVE SInv
  OBVIOUS
<1>1. /\ sock = [u \in Sockets |-> NoSocket] /\ mux = [m \in Sockets |-> NoMux]
      /\ accepting = None
  BY DEF SocketsInit
<1>2. ASSUME NEW u \in Sockets
      PROVE  /\ sock[u] = NoSocket /\ sock[u].where = "none" /\ sock[u].status = "INIT"
             /\ sock[u].mux = None /\ sock[u].queued = {} /\ ~sock[u].opened
             /\ ~sock[u].onList /\ ~sock[u].leaving
  BY <1>1, NoSocketFacts
<1>3. ASSUME NEW m \in Sockets
      PROVE  /\ mux[m] = NoMux /\ MuxRecord(mux[m]) /\ mux[m].refs = 0
             /\ mux[m].listener = None /\ mux[m].hash = {} /\ mux[m].timers = {}
             /\ mux[m].new = <<>> /\ DOMAIN mux[m].new = {}
  <2>1. PICK x : x = NoMux
    OBVIOUS
  <2>2. /\ MuxRecord(x) /\ x.refs = 0 /\ x.listener = None
        /\ x.hash = {} /\ x.timers = {} /\ x.new = <<>>
    BY <2>1, NoMuxFacts
  <2>3. mux[m] = x
    BY <1>1, <2>1
  <2>4. QED
    BY <2>1, <2>2, <2>3
<1>4. Typed
  BY <1>1, <1>3, NoSocketFacts DEF Typed
<1>5. ASSUME NEW u \in Sockets PROVE Placeless(u) /\ Staged(u) /\ Queued(u)
  <2>1. Placeless(u)
    BY <1>2, NoSocketFacts DEF Placeless, NoSocket
  <2>2. Staged(u) /\ Queued(u)
    BY <1>2 DEF Staged, Queued, Located
  <2>3. QED
    BY <2>1, <2>2
<1>6. ASSUME NEW m \in Sockets PROVE Agrees(m) /\ Counted(m)
  <2>1. Entered(m) = {} /\ Users(m) = {}
    BY <1>2, <1>3 DEF Entered, Users, UserOf, Live
  <2>2. Counted(m)
    BY <1>3, <2>1, FS_EmptySet DEF Counted
  <2>3. Agrees(m)
    BY <1>3, <2>1 DEF Agrees
  <2>4. QED
    BY <2>2, <2>3
<1>7. QED
  BY <1>1, <1>4, <1>5, <1>6 DEF SInv

LEMMA Kept ==
    ASSUME MaxSockets \in Nat, SInv, [SocketsNext]_socketvars
    PROVE  SInv'
<1>1. CASE UNCHANGED socketvars
  BY <1>1, Unchanged DEF socketvars
<1>2. ASSUME NEW u \in Sockets,
             \/ newSocket(u) \/ bind(u) \/ listen(u) \/ accept(u) \/ connect(u)
             \/ connectAnswered(u) \/ connectTimesOut(u) \/ recv(u)
             \/ closeListener(u) \/ close(u) \/ closeMoves(u)
             \/ Elapse(u) \/ checkBroken(u) \/ removeSocket(u)
      PROVE  SInv'
  BY <1>2, KeptNewSocket, KeptBind, KeptListen, KeptAccept, KeptConnect,
     KeptConnectAnswered, KeptTimesOut, KeptRecv, KeptCloseListener, KeptClose,
     KeptCloseMoves, KeptElapse, KeptCheckBroken, KeptRemoveSocket
<1>3. ASSUME NEW m \in Sockets,
             \/ \E p \in Peers : newConnection(m, p)
             \/ getNewEntry(m) \/ updateConnStatus(m)
             \/ \E u \in Sockets : arrives(m, u) \/ timerCheck(m, u)
      PROVE  SInv'
  BY <1>3, KeptNewConnection, KeptGetNewEntry, KeptUpdate, KeptArrives, KeptTimerCheck
<1>4. QED
  BY <1>1, <1>2, <1>3, KeptAcceptLocates, KeptCleanup DEF SocketsNext

LEMMA SInvGivesRegistry == SInv => Registry
<1> SUFFICES ASSUME SInv, NEW m \in Sockets
             PROVE  /\ mux[m].refs = Cardinality({u \in Sockets : Live(u) /\ sock[u].mux = m})
                    /\ mux[m].refs = 0 => mux[m] = NoMux
                    /\ mux[m].listener # None => Live(mux[m].listener)
                    /\ \A u \in mux[m].hash \cup mux[m].timers \cup Range(mux[m].new) :
                          Live(u) /\ sock[u].mux = m
                    /\ \A u \in sock[m].queued : sock[u].where = "sockets"
  BY DEF Registry
<1>1. Agrees(m) /\ Counted(m) /\ Queued(m)
  BY DEF SInv
<1>2. mux[m].refs = Cardinality({u \in Sockets : Live(u) /\ sock[u].mux = m})
  BY <1>1 DEF Counted, Users, UserOf
<1>3. /\ mux[m].refs = 0 => mux[m] = NoMux
      /\ mux[m].listener # None => Live(mux[m].listener)
  BY <1>1 DEF Agrees, UserOf
<1>4. \A u \in mux[m].hash \cup mux[m].timers \cup Range(mux[m].new) :
         Live(u) /\ sock[u].mux = m
  <2>1. \A u \in Range(mux[m].new) : u \in Entered(m)
    BY DEF Range, Entered
  <2>2. \A u \in mux[m].hash \cup mux[m].timers : u \in Entered(m)
    BY <1>1 DEF Agrees, Entered
  <2>3. \A u \in Entered(m) : Live(u) /\ sock[u].mux = m
    BY <1>1 DEF Agrees, UserOf
  <2>4. QED
    BY <2>1, <2>2, <2>3
<1>5. \A u \in sock[m].queued : sock[u].where = "sockets"
  BY <1>1 DEF Queued
<1>6. QED
  BY <1>2, <1>3, <1>4, <1>5

\* The tables of CUDTUnited and what the workers of CRcvQueue know agree for any
\* number of sockets, peers and listeners (newConnection, removeSocket,
\* CRcvQueue::worker).
THEOREM RegistryAgrees == SocketsSpec => []Registry
<1>1. SInv /\ [SocketsNext]_socketvars => SInv'
  BY Kept, SocketsAssumption
<1>2. SocketsSpec => []SInv
  BY <1>1, Started, PTL DEF SocketsSpec
<1>3. QED
  BY <1>2, SInvGivesRegistry, PTL
=============================================================================
