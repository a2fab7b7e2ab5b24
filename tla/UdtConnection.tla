---------------------------- MODULE UdtConnection ----------------------------
(***************************************************************************)
(* An established UDT connection (core.cpp) in the direction from the      *)
(* socket that writes to the socket that reads: flow window, acknowledge-  *)
(* ments full and light, loss reports, the timer that assumes everything   *)
(* lost, the timeout that breaks a connection, closing with linger. The    *)
(* network loses, reorders and duplicates.                                 *)
(*                                                                         *)
(* A piece is what one packet carries and piece n has the number n; the    *)
(* wrap of the numbers is in SeqNo, the loss lists in SndLossList and      *)
(* RcvLossList, the heap of the sending queue in SendSchedule, the buffers *)
(* in UdtBuffers: here they are a set, a flag and indices. The congestion  *)
(* window is taken to be no narrower than the flow window. Time is left    *)
(* out: timers go off at any moment, and the 16 expirations that break a   *)
(* silent connection are one step, so that keep-alives, which only reset   *)
(* the count, are not needed. The reading program does not close first.    *)
(*                                                                         *)
(* The writing socket is used by three threads: the program, the sending   *)
(* worker and the receiving worker. They meet at the sending queue's list  *)
(* lock, held from the choice of a lost packet to the end of packData; a   *)
(* thread that wants to put the socket on the list waits for it (waking).  *)
(***************************************************************************)
EXTENDS Naturals, Sequences, FiniteSets, FiniteSetsExt

CONSTANTS Sizes,        \* the pieces that a receive buffer holds
          Bounds,       \* for each size: the pieces written, the messages lost
                        \* or duplicated, the messages in flight when a light
                        \* acknowledgement is added
          SndBufSize,   \* pieces the send buffer holds
          None

ASSUME ConnectionAssumption ==
    /\ Sizes \subseteq Nat \ {0} /\ SndBufSize \in Nat \ {0}
    /\ Bounds \in [Sizes -> [pieces : Nat, faults : Nat, flight : Nat]]
    /\ None \notin Nat

VARIABLES snd,     \* the writing socket
          rcv,     \* the reading socket
          net,     \* the messages in flight, each with its receiver
          faults   \* how many were lost or duplicated

connvars == <<snd, rcv, net, faults>>

Garbage == None
Pieces  == 0..(Max({Bounds[s].pieces : s \in Sizes}) - 1)
-----------------------------------------------------------------------------
Data(n, v)     == [to |-> "rcv", kind |-> "data", seq |-> n, val |-> v]
ACK(n, window) == [to |-> "snd", kind |-> "ack", seq |-> n, window |-> window]
LightACK(n)    == [to |-> "snd", kind |-> "light", seq |-> n]
ACK2(n)        == [to |-> "rcv", kind |-> "ack2", seq |-> n]
NAK(a, b)      == [to |-> "snd", kind |-> "nak", first |-> a, last |-> b]
Shutdown       == [to |-> "rcv", kind |-> "shutdown"]

SndInit(window) ==
    [written |-> 0,      \* pieces put into the send buffer
     dataAck |-> 0,      \* m_iSndLastDataAck: the first piece of the buffer
     lastAck |-> 0,      \* m_iSndLastAck
     next |-> 0,         \* the number after m_iSndCurrSeqNo
     window |-> window,  \* m_iFlowWindowSize
     loss |-> {},        \* m_pSndLossList
     listed |-> FALSE,   \* on the list of the sending queue
     waking |-> FALSE,   \* the receiving worker is about to put it there
     picked |-> None,    \* lost number chosen, m_AckLock not yet taken
     out |-> None,       \* packed again, not yet handed to the channel
     broken |-> FALSE, phase |-> "open", kept |-> FALSE]

RcvInit(size) ==
    [size |-> size,      \* of the receive buffer
     lastAck |-> 0,      \* m_iRcvLastAck: what is before can be read
     lastAckAck |-> 0,   \* m_iRcvLastAckAck
     next |-> 0,         \* the number after m_iRcvCurrSeqNo
     loss |-> {},        \* m_pRcvLossList
     units |-> {},       \* number and contents of what is buffered
     read |-> <<>>,      \* the contents read
     broken |-> FALSE, ended |-> FALSE]

\* The flow window of the handshake is the array of the receive buffer, of
\* which one place stays empty.
Init ==
    /\ \E size \in Sizes : rcv = RcvInit(size) /\ snd = SndInit(size + 1)
    /\ net = {}
    /\ faults = 0

SndAlive == snd.phase # "closed" /\ ~snd.broken

\* The worker of the receiving queue still serves the socket.
SndServed == SndAlive /\ ~snd.waking
RcvServed == ~rcv.broken

\* Messages to a socket that takes no more are left out.
ToSnd(m) == IF SndAlive THEN {m} ELSE {}
ToRcv(m) == IF RcvServed THEN {m} ELSE {}
Without(to) == {m \in net : m.to # to}

Room == Cardinality(net) < Bounds[rcv.size].flight
-----------------------------------------------------------------------------
\* send: a piece goes into the send buffer and the socket on the list; the call
\* waits while the buffer is full.
send ==
    /\ snd.phase = "open" /\ ~snd.broken /\ snd.picked = None
    /\ snd.written < Bounds[rcv.size].pieces
    /\ snd.written - snd.dataAck < SndBufSize
    /\ snd' = [snd EXCEPT !.written = @ + 1, !.listed = TRUE]
    /\ UNCHANGED <<rcv, net, faults>>

\* CSndUList::update of the receiving worker, once the sending worker has
\* released the list.
update ==
    /\ snd.waking /\ snd.picked = None
    /\ snd' = [snd EXCEPT !.waking = FALSE, !.listed = TRUE]
    /\ UNCHANGED <<rcv, net, faults>>

\* CSndUList::pop: off the list; the first lost number is chosen, if any.
pop ==
    /\ snd.listed /\ snd.picked = None /\ snd.out = None
    /\ SndAlive => snd.loss # {}
    /\ snd' = IF ~SndAlive THEN [snd EXCEPT !.listed = FALSE]
              ELSE [snd EXCEPT !.picked = Min(snd.loss),
                               !.loss = @ \ {Min(snd.loss)}]
    /\ UNCHANGED <<rcv, net, faults>>

\* packData with a lost number, which may have been acknowledged meanwhile.
packLost ==
    /\ snd.picked # None
    /\ snd' = IF snd.picked < snd.dataAck
              THEN [snd EXCEPT !.picked = None, !.listed = FALSE]
              ELSE [snd EXCEPT !.picked = None, !.out = snd.picked]
    /\ UNCHANGED <<rcv, net, faults>>

\* packData with nothing lost: a new packet if the flow window allows it, sent
\* before anything can acknowledge it.
packNew ==
    /\ snd.listed /\ snd.picked = None /\ snd.out = None
    /\ SndAlive /\ snd.loss = {}
    /\ IF /\ snd.next - snd.lastAck < snd.window
          /\ snd.next < snd.written
       THEN /\ snd' = [snd EXCEPT !.next = @ + 1]
            /\ net' = net \cup ToRcv(Data(snd.next, snd.next))
       ELSE /\ snd' = [snd EXCEPT !.listed = FALSE]
            /\ UNCHANGED net
    /\ UNCHANGED <<rcv, faults>>

\* The packet points into the send buffer: a block acknowledged since it was
\* packed may already hold a later piece.
transmit ==
    /\ snd.out # None
    /\ \E v \in IF snd.out < snd.dataAck THEN {snd.out, Garbage} ELSE {snd.out} :
          net' = net \cup ToRcv(Data(snd.out, v))
    /\ snd' = [snd EXCEPT !.out = None]
    /\ UNCHANGED <<rcv, faults>>
-----------------------------------------------------------------------------
\* AckNumber without a look at what is missing.
AckNumber_Next == rcv.next

\* sendCtrl(2): the number before which everything has arrived.
AckNumber == IF rcv.loss = {} THEN rcv.next ELSE Min(rcv.loss)

\* getAvailBufSize when everything before ack can be read.
Avail(ack) == rcv.size - (ack - Len(rcv.read))

\* Window without the minimum.
Window_Avail(ack) == Avail(ack)

\* "A minimum flow window of 2 is used ... to break potential deadlock."
Window(ack) == IF Avail(ack) < 2 THEN 2 ELSE Avail(ack)

\* A full acknowledgement, repeated until the writing socket confirms it.
sendAck ==
    /\ RcvServed
    /\ AckNumber # rcv.lastAckAck
    /\ AckNumber >= rcv.lastAck
    /\ rcv' = [rcv EXCEPT !.lastAck = AckNumber]
    /\ net' = IF AckNumber > rcv.lastAckAck
              THEN net \cup ToSnd(ACK(AckNumber, Window(AckNumber))) ELSE net
    /\ UNCHANGED <<snd, faults>>

\* A light acknowledgement: the number and nothing else.
sendLightAck ==
    /\ RcvServed /\ Room
    /\ AckNumber # rcv.lastAckAck
    /\ net' = net \cup ToSnd(LightACK(AckNumber))
    /\ UNCHANGED <<snd, rcv, faults>>

\* Acked without putting the socket on the list again.
Acked_Silent(n, window) ==
    LET s == IF n >= snd.lastAck
             THEN [snd EXCEPT !.lastAck = n, !.window = window] ELSE snd
    IN IF n > snd.dataAck
       THEN [s EXCEPT !.dataAck = n, !.loss = {k \in @ : k >= n}]
       ELSE s

\* processCtrl(2): acknowledges the acknowledgement, takes over number and
\* window and, if it is news for the send buffer, empties it.
Acked(n, window) ==
    LET s == IF n >= snd.lastAck
             THEN [snd EXCEPT !.lastAck = n, !.window = window] ELSE snd
    IN IF n > snd.dataAck
       THEN [s EXCEPT !.dataAck = n, !.loss = {k \in @ : k >= n},
                      !.waking = TRUE]
       ELSE s

processAck(m, rest) ==
    /\ snd' = IF m.seq > snd.next THEN [snd EXCEPT !.broken = TRUE]
              ELSE Acked(m.seq, m.window)
    /\ net' = rest \cup ToRcv(ACK2(m.seq))
    /\ UNCHANGED rcv

\* The window shrinks by what the number moves; the send buffer stays.
processLightAck(m, rest) ==
    /\ snd' = IF m.seq >= snd.lastAck
              THEN [snd EXCEPT !.window = @ - (m.seq - snd.lastAck),
                               !.lastAck = m.seq]
              ELSE snd
    /\ net' = rest
    /\ UNCHANGED rcv

\* processCtrl(3): what is not acknowledged of the report is to be sent again.
Reported(m) == {k \in m.first..m.last : k >= snd.lastAck}

processNak(m, rest) ==
    /\ snd' = IF m.last >= snd.next THEN [snd EXCEPT !.broken = TRUE]
              ELSE [snd EXCEPT !.loss = @ \cup Reported(m), !.waking = TRUE]
    /\ net' = rest
    /\ UNCHANGED rcv

\* processCtrl(6).
processAck2(m, rest) ==
    /\ rcv' = [rcv EXCEPT !.lastAckAck = IF m.seq > @ THEN m.seq ELSE @]
    /\ net' = rest
    /\ UNCHANGED snd

\* processData: refused if it is old, beyond the buffer or there already;
\* a gap before it is lost and reported at once, otherwise it fills one.
Refused(m) ==
    \/ m.seq < rcv.lastAck
    \/ m.seq - rcv.lastAck >= Avail(rcv.lastAck)
    \/ \E u \in rcv.units : u[1] = m.seq

processData(m, rest) ==
    /\ UNCHANGED snd
    /\ IF Refused(m)
       THEN net' = rest /\ UNCHANGED rcv
       ELSE /\ rcv' = [rcv EXCEPT
                         !.units = @ \cup {<<m.seq, m.val>>},
                         !.loss = (@ \cup (rcv.next..(m.seq - 1))) \ {m.seq},
                         !.next = IF m.seq >= @ THEN m.seq + 1 ELSE @]
            /\ net' = rest \cup (IF m.seq > rcv.next
                                 THEN ToSnd(NAK(rcv.next, m.seq - 1)) ELSE {})

processShutdown(m, rest) ==
    /\ rcv' = [rcv EXCEPT !.broken = TRUE]
    /\ net' = Without("rcv")
    /\ UNCHANGED snd

\* The worker of a receiving queue takes a message of the kind; the network
\* may bring the same message again.
Deliver(kind, Of(_), Handler(_, _)) ==
    \E m \in net :
       /\ m.kind = kind /\ Of(m)
       /\ m.to = "snd" => SndServed
       /\ m.to = "rcv" => RcvServed
       /\ \/ Handler(m, net \ {m}) /\ UNCHANGED faults
          \/ /\ faults < Bounds[rcv.size].faults
             /\ faults' = faults + 1
             /\ Handler(m, net)
-----------------------------------------------------------------------------
\* checkTimers, nothing heard for a while: the writing socket takes everything
\* for lost unless it knows better.
expire ==
    /\ SndServed
    /\ snd.written > snd.dataAck
    /\ snd' = [snd EXCEPT
                 !.loss = IF @ = {} THEN snd.lastAck..(snd.next - 1) ELSE @,
                 !.waking = TRUE]
    /\ UNCHANGED <<rcv, net, faults>>

\* checkTimers, nothing heard for long: the connection is broken.
timeoutSnd ==
    /\ SndServed
    /\ snd' = [snd EXCEPT !.broken = TRUE, !.waking = TRUE]
    /\ net' = Without("snd")
    /\ UNCHANGED <<rcv, faults>>

timeoutRcv ==
    /\ RcvServed
    /\ rcv' = [rcv EXCEPT !.broken = TRUE]
    /\ net' = Without("rcv")
    /\ UNCHANGED <<snd, faults>>
-----------------------------------------------------------------------------
\* recv: the contents of the next piece, if everything before it is there.
recv ==
    /\ Len(rcv.read) < rcv.lastAck
    /\ LET n == Len(rcv.read)
           here == {u \in rcv.units : u[1] = n}
       IN rcv' = [rcv EXCEPT !.read = Append(@, IF here = {} THEN Garbage
                                                ELSE (CHOOSE u \in here : TRUE)[2]),
                             !.units = @ \ here]
    /\ UNCHANGED <<snd, net, faults>>

\* recv: an exception, the connection is broken and nothing is left to read.
recvFails ==
    /\ rcv.broken /\ ~rcv.ended
    /\ Len(rcv.read) = rcv.lastAck
    /\ rcv' = [rcv EXCEPT !.ended = TRUE]
    /\ UNCHANGED <<snd, net, faults>>

\* close of the writing socket: waits until the send buffer is empty or the
\* connection broken.
close ==
    /\ snd.phase = "open" /\ snd.picked = None
    /\ snd.broken \/ snd.written = snd.dataAck
    /\ snd' = [snd EXCEPT !.phase = "closed", !.listed = FALSE,
                          !.kept = snd.written = snd.dataAck]
    /\ net' = Without("snd") \cup ToRcv(Shutdown)
    /\ UNCHANGED <<rcv, faults>>

\* close when the linger time is over.
lingerExpires ==
    /\ snd.phase = "open" /\ snd.picked = None
    /\ ~snd.broken /\ snd.written > snd.dataAck
    /\ snd' = [snd EXCEPT !.phase = "closed", !.listed = FALSE]
    /\ net' = Without("snd") \cup ToRcv(Shutdown)
    /\ UNCHANGED <<rcv, faults>>
-----------------------------------------------------------------------------
Lose ==
    /\ faults < Bounds[rcv.size].faults
    /\ \E m \in net : net' = net \ {m}
    /\ faults' = faults + 1
    /\ UNCHANGED <<snd, rcv>>

SendingWorker == pop \/ packLost \/ packNew \/ transmit

Any(m) == TRUE
DeliverData(n)   == LET Of(m) == m.seq = n
                    IN Deliver("data", Of, processData)
DeliverAck       == Deliver("ack", Any, processAck)
DeliverLightAck  == Deliver("light", Any, processLightAck)
DeliverAck2      == Deliver("ack2", Any, processAck2)
DeliverNak       == Deliver("nak", Any, processNak)
DeliverShutdown  == Deliver("shutdown", Any, processShutdown)

Next ==
    \/ send \/ recv \/ recvFails
    \/ close \/ lingerExpires
    \/ update \/ SendingWorker
    \/ sendAck \/ sendLightAck 
    \/ expire \/ timeoutSnd \/ timeoutRcv
    \/ \E n \in Pieces : DeliverData(n)
    \/ DeliverAck \/ DeliverLightAck \/ DeliverAck2
    \/ DeliverNak \/ DeliverShutdown
    \/ Lose

\* The threads run, the timers go off, the reader reads, and what the network
\* neither loses nor holds back arrives.
Fairness ==
    /\ WF_connvars(update) /\ WF_connvars(SendingWorker)
    /\ WF_connvars(sendAck) /\ WF_connvars(expire) /\ WF_connvars(recv)
    /\ \A n \in Pieces : WF_connvars(DeliverData(n))
    /\ SF_connvars(DeliverAck)
    /\ WF_connvars(DeliverAck2) /\ WF_connvars(DeliverShutdown)
    /\ WF_connvars(DeliverLightAck) /\ WF_connvars(DeliverNak)

Spec == Init /\ [][Next]_connvars /\ Fairness
-----------------------------------------------------------------------------
\* Refinement: the writer's side is kept when close found everything
\* acknowledged, cut when either side has given up otherwise.
Mode ==
    IF snd.kept THEN "kept"
    ELSE IF \/ snd.broken \/ rcv.broken
            \/ snd.phase = "closed"
         THEN "cut" ELSE "open"

Stream == INSTANCE ByteStream
             WITH sent <- snd.written, received <- rcv.read,
                  mode <- Mode, ended <- rcv.ended

\* The connection is a byte stream: over a network that loses, reorders and
\* doubles, with blocks of the send buffer reused while a packet that points
\* to them is on its way out, recv returns what send was given, in order, and
\* fails only when the connection is cut or everything has been read; nothing
\* is lost once close has found the send buffer empty.
ImplementsStream == Stream!Spec

\* What is written is read, unless the connection is cut: in spite of lost
\* packets, acknowledgements and confirmations, a full receive buffer and a
\* socket that leaves the sending queue while its window is closed.
Delivered ==
    Len(rcv.read) < snd.written
        ~> (Len(rcv.read) = snd.written \/ Mode = "cut")

\* Lost packets do not wait for a timer: a live socket with something to send
\* again is on the list of the sending queue, is being served, or a thread is
\* about to put it there (pop takes it off before packData looks at it).
LostAreListed ==
    snd.loss # {} /\ SndAlive
        => snd.listed \/ snd.waking \/ snd.picked # None
=============================================================================
