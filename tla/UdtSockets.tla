----------------------------- MODULE UdtSockets ------------------------------
(***************************************************************************)
(* The sockets of one process that uses UDT: the tables of CUDTUnited      *)
(* (api.cpp), the flags of CUDT (core.cpp) that the life of a socket       *)
(* changes, and for each multiplexer what the worker of its receiving      *)
(* queue knows (queue.cpp): the listener, the hash, the list of sockets    *)
(* with timers, the new entries, the sockets that are connecting.          *)
(*                                                                         *)
(* Threads: the program, one worker for each multiplexer, and the garbage  *)
(* collector. They share m_ControlLock for the tables and nothing for the  *)
(* flags. Time is an action: a time stamp becomes old (Elapse), which      *)
(* takes longer than any call that was under way. Peers are the            *)
(* environment: they ask for connections, again and again, answer, reject, *)
(* stay silent, send data, shut down. A listener is not removed while its  *)
(* worker is inside listen().                                              *)
(***************************************************************************)
EXTENDS Naturals, Sequences, FiniteSets, SequencesExt

CONSTANTS MaxSockets,   \* bound on the sockets ever made
          MaxMade,      \* bound on those the program makes
          Peers,        \* who may ask for a connection
          Backlog,      \* of listen
          MaxConnects,  \* bound on the calls of connect for a socket
          MaxListeners  \* bound on the listening sockets

ASSUME SocketsAssumption == MaxSockets \in Nat

VARIABLES sock,        \* the sockets
          mux,         \* the multiplexers, each named by its first socket
          accepting,   \* what an accept took from the queue but not yet located
          stopping,    \* cleanup has been called
          crashed      \* the process used an invalid address

socketvars == <<sock, mux, accepting, stopping, crashed>>

Sockets == 1..MaxSockets
None == 0

NoSocket ==
    [where |-> "none",      \* then "sockets", "closed" (the tables), "gone"
     status |-> "INIT",     \* m_Status
     opened |-> FALSE, connecting |-> FALSE, connected |-> FALSE,
     broken |-> FALSE, closing |-> FALSE,
     unread |-> FALSE,      \* data in the receive buffer
     onList |-> FALSE,      \* m_pRNode->m_bOnList
     old |-> FALSE,         \* m_TimeStamp lies far enough back
     mux |-> None,          \* m_iMuxID
     peer |-> None, listen |-> None,
     queued |-> {},         \* m_pQueuedSockets
     owned |-> FALSE,       \* the program knows it
     leaving |-> FALSE,     \* in close, CUDT::close is done
     connects |-> 0]

NoMux == [refs |-> 0, listener |-> None, hash |-> {}, timers |-> {},
          new |-> <<>>, connectors |-> <<>>]

SocketsInit ==
    /\ sock = [u \in Sockets |-> NoSocket]
    /\ mux = [m \in Sockets |-> NoMux]
    /\ accepting = None /\ stopping = FALSE /\ crashed = FALSE

Running == ~crashed
Calls(u) == Running /\ ~stopping /\ sock[u].owned /\ ~sock[u].leaving

\* locate: the socket is in the table and not CLOSED.
Located(u) == sock[u].where = "sockets" /\ sock[u].status # "CLOSED"

Fresh(u) == sock[u].where = "none" /\ \A v \in Sockets :
                                          v < u => sock[v].where # "none"
-----------------------------------------------------------------------------
newSocket(u) ==
    /\ Running /\ ~stopping /\ Fresh(u) /\ u <= MaxMade
    /\ sock' = [sock EXCEPT ![u].where = "sockets", ![u].owned = TRUE]
    /\ UNCHANGED <<mux, accepting, stopping, crashed>>

\* updateMux for a socket that names a port: shares a multiplexer or has a new
\* one, named after it.
Muxes(u) == {u} \cup {m \in Sockets : mux[m].refs > 0}

bind(u) ==
    /\ Calls(u) /\ Located(u) /\ sock[u].status = "INIT"
    /\ \E m \in Muxes(u) :
          /\ mux' = [mux EXCEPT ![m].refs = @ + 1]
          /\ sock' = [sock EXCEPT ![u].mux = m, ![u].opened = TRUE,
                                  ![u].status = "OPENED"]
    /\ UNCHANGED <<accepting, stopping, crashed>>

\* Refused while another socket listens on the multiplexer.
listen(u) ==
    /\ Calls(u) /\ Located(u) /\ sock[u].status = "OPENED"
    /\ ~sock[u].connecting /\ ~sock[u].connected
    /\ Cardinality({v \in Sockets : sock[v].status = "LISTENING"}) < MaxListeners
    /\ mux[sock[u].mux].listener = None
    /\ mux' = [mux EXCEPT ![sock[u].mux].listener = u]
    /\ sock' = [sock EXCEPT ![u].status = "LISTENING"]
    /\ UNCHANGED <<accepting, stopping, crashed>>

\* accept, under m_AcceptLock: the first of the queue ...
accept(l) ==
    /\ Calls(l) /\ sock[l].status = "LISTENING" /\ ~sock[l].broken
    /\ accepting = None
    /\ \E u \in sock[l].queued :
          /\ \A v \in sock[l].queued : u >= v
          /\ accepting' = u
          /\ sock' = [sock EXCEPT ![l].queued = @ \ {u}]
    /\ UNCHANGED <<mux, stopping, crashed>>

\* ... and, without it, the address of its peer: what locate returns is used
\* without a test.
acceptLocates ==
    /\ Running /\ accepting # None
    /\ IF Located(accepting)
       THEN sock' = [sock EXCEPT ![accepting].owned = TRUE] /\ UNCHANGED crashed
       ELSE crashed' = TRUE /\ UNCHANGED sock
    /\ accepting' = None
    /\ UNCHANGED <<mux, stopping>>

\* connect: an unbound socket gets a multiplexer of its own; the socket is
\* registered with the worker and the request sent.
connect(u) ==
    /\ Calls(u) /\ Located(u) /\ sock[u].status \in {"INIT", "OPENED"}
    /\ ~sock[u].connecting /\ ~sock[u].connected
    /\ sock[u].connects < MaxConnects
    /\ LET m == IF sock[u].status = "INIT" THEN u ELSE sock[u].mux
       IN /\ mux' = [mux EXCEPT ![m].refs = IF sock[u].status = "INIT"
                                            THEN @ + 1 ELSE @,
                                ![m].connectors = Append(@, u)]
          /\ sock' = [sock EXCEPT ![u].mux = m, ![u].opened = TRUE,
                                  ![u].connecting = TRUE, ![u].connects = @ + 1,
                                  ![u].status = "CONNECTING"]
    /\ UNCHANGED <<accepting, stopping, crashed>>

\* CRendezvousQueue::remove: the first entry of the socket.
Unregistered(q, u) ==
    IF \E i \in DOMAIN q : q[i] = u
    THEN RemoveAt(q, CHOOSE i \in DOMAIN q :
                        q[i] = u /\ \A j \in 1..(i - 1) : q[j] # u)
    ELSE q

\* The answer: connected, also when it is a rejection, after which the status
\* goes back.
connectAnswered(u) ==
    /\ Running /\ sock[u].status = "CONNECTING" /\ sock[u].connecting
    /\ \E status \in {"CONNECTED", "OPENED"} :
          sock' = [sock EXCEPT ![u].connecting = FALSE, ![u].connected = TRUE,
                               ![u].onList = TRUE, ![u].status = status]
    /\ mux' = [mux EXCEPT ![sock[u].mux].connectors = Unregistered(@, u),
                          ![sock[u].mux].new = Append(@, u)]
    /\ UNCHANGED <<accepting, stopping, crashed>>

\* No answer in time: the exception leaves the entry of the socket where it is.
connectTimesOut(u) ==
    /\ Running /\ sock[u].status = "CONNECTING"
    /\ sock' = [sock EXCEPT ![u].status = "OPENED"]
    /\ UNCHANGED <<mux, accepting, stopping, crashed>>

\* recv takes all there is.
recv(u) ==
    /\ Calls(u) /\ Located(u) /\ sock[u].unread
    /\ sock' = [sock EXCEPT ![u].unread = FALSE]
    /\ UNCHANGED <<mux, accepting, stopping, crashed>>
-----------------------------------------------------------------------------
\* CUDT::close: flags, and the worker forgets the listener or the connector.
\* Nothing if the socket is not open.
ClosedUDT(s, U) ==
    [u \in Sockets |->
        IF u \in U /\ s[u].opened
        THEN [s[u] EXCEPT !.closing = TRUE, !.connected = FALSE,
                          !.opened = FALSE]
        ELSE s[u]]

UnregisteredAll(q, U) == FoldSet(LAMBDA u, r : Unregistered(r, u), q, U)

ForgottenBy(x, U) ==
    [m \in Sockets |->
        LET V == {u \in U : sock[u].opened /\ sock[u].mux = m}
        IN IF V = {} THEN x[m]
           ELSE [x[m] EXCEPT !.listener = IF @ \in V THEN None ELSE @,
                             !.connectors = UnregisteredAll(@, V \ {x[m].listener})]]

\* close of a listening socket: broken, the collector does the rest.
closeListener(u) ==
    /\ Calls(u) /\ Located(u) /\ sock[u].status = "LISTENING" /\ ~sock[u].broken
    /\ sock' = [sock EXCEPT ![u].broken = TRUE, ![u].old = FALSE]
    /\ UNCHANGED <<mux, accepting, stopping, crashed>>

\* close of any other socket: CUDT::close, then the tables. A call of connect
\* holds the lock of the socket.
close(u) ==
    /\ Calls(u) /\ Located(u) /\ sock[u].status \notin {"LISTENING", "CONNECTING"}
    /\ sock' = [ClosedUDT(sock, {u}) EXCEPT ![u].leaving = TRUE]
    /\ mux' = ForgottenBy(mux, {u})
    /\ UNCHANGED <<accepting, stopping, crashed>>

closeMoves(u) ==
    /\ Running /\ sock[u].leaving
    /\ sock' = [sock EXCEPT
                 ![u] = IF Located(u)
                        THEN [@ EXCEPT !.leaving = FALSE, !.status = "CLOSED",
                                       !.old = FALSE, !.where = "closed"]
                        ELSE [@ EXCEPT !.leaving = FALSE]]
    /\ UNCHANGED <<mux, accepting, stopping, crashed>>
-----------------------------------------------------------------------------
\* newConnection. A repeated request finds its socket in m_PeerRec; if that is
\* broken the peer is starting again. Failures of allocation, for which the code
\* goes to ERR_ROLLBACK and leaves a closed socket behind, are left out.
Known(p) == {u \in Sockets : sock[u].where = "sockets" /\ sock[u].peer = p}

Dequeued(s, u) ==
    IF s[u].listen = None THEN s
    ELSE [s EXCEPT ![s[u].listen].queued = @ \ {u}]

Accepted(s, u, l, p) ==
    [s EXCEPT ![u] = [NoSocket EXCEPT
                        !.where = "sockets", !.status = "CONNECTED",
                        !.opened = TRUE, !.connected = TRUE, !.onList = TRUE,
                        !.mux = s[l].mux, !.peer = p, !.listen = l],
              ![l].queued = @ \cup {u}]

newConnection(m, p) ==
    /\ Running /\ mux[m].listener # None
    /\ LET l == mux[m].listener
           again == {u \in Known(p) : sock[u].broken}
           s == IF again = {} THEN sock
                ELSE LET u == CHOOSE v \in again : TRUE
                     IN Dequeued([sock EXCEPT ![u].status = "CLOSED",
                                              ![u].old = FALSE], u)
       IN /\ Located(l) /\ ~sock[l].closing
          /\ Known(p) \ again = {}
          /\ IF Cardinality(s[l].queued) < Backlog
             THEN \E u \in Sockets :
                     /\ Fresh(u)
                     /\ sock' = Accepted(s, u, l, p)
                     /\ mux' = [mux EXCEPT ![m].refs = @ + 1,
                                           ![m].new = Append(@, u)]
             ELSE sock' = s /\ UNCHANGED mux
    /\ UNCHANGED <<accepting, stopping, crashed>>

\* The worker takes over a new entry.
getNewEntry(m) ==
    /\ Running /\ mux[m].new # <<>>
    /\ mux' = [mux EXCEPT ![m].hash = @ \cup {Head(mux[m].new)},
                          ![m].timers = @ \cup {Head(mux[m].new)},
                          ![m].new = Tail(@)]
    /\ UNCHANGED <<sock, accepting, stopping, crashed>>

Served(u) == sock[u].connected /\ ~sock[u].broken /\ ~sock[u].closing

\* A packet for a socket of the hash: data, or the end of the connection.
arrives(m, u) ==
    /\ Running /\ u \in mux[m].hash /\ Served(u)
    /\ \/ /\ ~sock[u].unread
          /\ sock' = [sock EXCEPT ![u].unread = TRUE]
       \/ sock' = [sock EXCEPT ![u].broken = TRUE, ![u].closing = TRUE]
    /\ UNCHANGED <<mux, accepting, stopping, crashed>>

\* The timers: a socket that is no longer connected leaves hash and list.
timerCheck_Listed(m, u) ==
    /\ Running /\ u \in mux[m].timers /\ ~Served(u)
    /\ mux' = [mux EXCEPT ![m].hash = @ \ {u}, ![m].timers = @ \ {u}]
    /\ UNCHANGED <<sock, accepting, stopping, crashed>>
timerCheck(m, u) ==
    /\ Running /\ u \in mux[m].timers /\ ~Served(u)
    /\ mux' = [mux EXCEPT ![m].hash = @ \ {u}, ![m].timers = @ \ {u}]
    /\ sock' = [sock EXCEPT ![u].onList = FALSE]
    /\ UNCHANGED <<accepting, stopping, crashed>>

Live(u) == sock[u].where \in {"sockets", "closed"}

\* The connectors whose time is over; their entries stay, whatever becomes of
\* the socket they point to.
updateConnStatus(m) ==
    /\ Running
    /\ \E u \in Range(mux[m].connectors) :
          \/ /\ Live(u) /\ sock[u].connecting /\ sock[u].status # "CONNECTING"
             /\ sock' = [sock EXCEPT ![u].connecting = FALSE]
             /\ UNCHANGED crashed
          \/ /\ ~Live(u) /\ crashed' = TRUE /\ UNCHANGED sock
    /\ UNCHANGED <<mux, accepting, stopping>>
-----------------------------------------------------------------------------
\* A second, or three, has passed since the time stamp of the socket.
Elapse(u) ==
    /\ Running /\ ~sock[u].old /\ ~sock[u].leaving
    /\ sock[u].where = "closed" \/ sock[u].broken
    /\ sock' = [sock EXCEPT ![u].old = TRUE]
    /\ UNCHANGED <<mux, accepting, stopping, crashed>>

\* checkBrokenSockets closes what is broken: a listener after three seconds,
\* another socket once it is read or was not for a minute.
checkBroken(u) ==
    /\ Running /\ sock[u].where = "sockets" /\ sock[u].broken
    /\ IF sock[u].status = "LISTENING" THEN sock[u].old
       ELSE sock[u].unread => sock[u].old
    /\ sock' = Dequeued([sock EXCEPT ![u].where = "closed", ![u].old = FALSE,
                                     ![u].status = "CLOSED"], u)
    /\ UNCHANGED <<mux, accepting, stopping, crashed>>

\* A second later, when the worker has let go.
Removable_Early(u) == sock[u].where = "closed" /\ sock[u].old
Removable(u) == sock[u].where = "closed" /\ sock[u].old /\ ~sock[u].onList

\* removeSocket: a listener takes its queue along, the last socket its
\* multiplexer.
Released(x, m) ==
    IF m = None THEN x
    ELSE [x EXCEPT ![m] = IF x[m].refs = 1 THEN NoMux
                          ELSE [x[m] EXCEPT !.refs = @ - 1]]

removeSocket(u) ==
    /\ Running /\ Removable(u)
    /\ LET Q == sock[u].queued
           s == ClosedUDT(sock, Q \cup {u})
       IN /\ sock' = [v \in Sockets |->
                        IF v = u THEN [NoSocket EXCEPT !.where = "gone"]
                        ELSE IF v \in Q
                        THEN [s[v] EXCEPT !.broken = TRUE, !.status = "CLOSED",
                                          !.old = FALSE, !.where = "closed"]
                        ELSE s[v]]
          /\ mux' = Released(ForgottenBy(mux, Q \cup {u}), sock[u].mux)
    /\ UNCHANGED <<accepting, stopping, crashed>>

\* cleanup: the collector closes all that is left and removes it at once.
cleanup ==
    /\ Running /\ ~stopping /\ accepting = None
    /\ \A u \in Sockets : ~sock[u].leaving /\ sock[u].status # "CONNECTING"
    /\ LET U == {u \in Sockets : sock[u].where = "sockets"}
           s == ClosedUDT(sock, U)
       IN /\ sock' = [u \in Sockets |->
                        IF u \in U
                        THEN [s[u] EXCEPT !.broken = TRUE, !.status = "CLOSED",
                                          !.where = "closed", !.old = TRUE,
                                          !.queued = {}]
                        ELSE IF s[u].where = "closed"
                        THEN [s[u] EXCEPT !.old = TRUE, !.queued = @ \ U]
                        ELSE s[u]]
          /\ mux' = ForgottenBy(mux, U)
    /\ stopping' = TRUE
    /\ UNCHANGED <<accepting, crashed>>

SocketsNext ==
    \/ \E u \in Sockets :
          \/ newSocket(u) \/ bind(u) \/ listen(u) \/ accept(u) \/ connect(u)
          \/ connectAnswered(u) \/ connectTimesOut(u) \/ recv(u)
          \/ closeListener(u) \/ close(u) \/ closeMoves(u)
          \/ Elapse(u) \/ checkBroken(u) \/ removeSocket(u)
    \/ acceptLocates
    \/ \E m \in Sockets :
          \/ \E p \in Peers : newConnection(m, p)
          \/ getNewEntry(m) \/ updateConnStatus(m)
          \/ \E u \in Sockets : arrives(m, u) \/ timerCheck(m, u)
    \/ cleanup

\* The workers and the collector run, and time passes.
SocketsFairness ==
    \A u \in Sockets :
        /\ WF_socketvars(getNewEntry(u))
        /\ \A m \in Sockets : WF_socketvars(timerCheck(m, u))
        /\ WF_socketvars(Elapse(u)) /\ WF_socketvars(checkBroken(u))
        /\ WF_socketvars(removeSocket(u)) /\ WF_socketvars(closeMoves(u))

SocketsSpec == SocketsInit /\ [][SocketsNext]_socketvars /\ SocketsFairness
-----------------------------------------------------------------------------
\* The bookkeeping of CUDTUnited and CRcvQueue agrees whatever the program,
\* the peers, the workers and the collector do: a multiplexer lives exactly as
\* long as a socket uses it and counts them right; nothing a worker has in
\* its hash, its list or its new entries has been destroyed; what a
\* listener has queued is still in the table removeSocket looks it up in.
Registry ==
    \A m \in Sockets :
        /\ mux[m].refs = Cardinality({u \in Sockets : Live(u) /\ sock[u].mux = m})
        /\ mux[m].refs = 0 => mux[m] = NoMux
        /\ mux[m].listener # None => Live(mux[m].listener)
        /\ \A u \in mux[m].hash \cup mux[m].timers \cup Range(mux[m].new) :
              Live(u) /\ sock[u].mux = m
        /\ \A u \in sock[m].queued : sock[u].where = "sockets"

\* What is broken or closed is destroyed in the end, a listener with its queue
\* and a multiplexer with its last socket (checkBrokenSockets, removeSocket). As
\* the sockets are bounded, that is that again and again none is left over.
Collected ==
    []<>(crashed \/ \A u \in Sockets :
            Live(u) => sock[u].where # "closed" /\ ~sock[u].broken)
=============================================================================
