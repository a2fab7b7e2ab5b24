------------------------- MODULE UdtConnectionProofs -------------------------
(*****************************************************************************)
(* The connection is a byte stream, for any number of pieces, any buffer     *)
(* sizes and any number of lost or repeated messages: the theorems about     *)
(* UdtConnection.                                                            *)
(*                                                                           *)
(* The argument. What the reader has read is 0, 1, 2, ... because every unit *)
(* it keeps carries the contents of its number: a packet whose block of the  *)
(* send buffer was used again while it waited to be sent carries something   *)
(* else, but only if its number was acknowledged (MsgInv), and the reader    *)
(* refuses what it has acknowledged. For that the two sockets have to agree  *)
(* on what is acknowledged: an acknowledgement under way never names more    *)
(* than the reader's m_iRcvLastAck (MsgInv), so the first piece of the send  *)
(* buffer is never beyond it (Agree). The reader's own bookkeeping is        *)
(* RcvInv: what is neither read nor missing is in its buffer, whole. SndInv  *)
(* is the writer's: the loss list names only packets in flight, and a lost   *)
(* packet that is acknowledged while packData waits for m_AckLock has its    *)
(* acknowledging thread wait for the list.                                   *)
(*                                                                           *)
(* A step changes one of the sockets and adds at most one message; SndStep   *)
(* and RcvStep are what is then left to show.                                *)
(*****************************************************************************)
EXTENDS UdtConnection, FiniteSetTheorems, SequenceTheorems, TLAPS

-----------------------------------------------------------------------------
(*****************************************************************************)
(* The inductive invariant.                                                  *)
(*****************************************************************************)
\* The messages of the network.
Messages ==
    [to : {"rcv"}, kind : {"data"}, seq : Nat, val : Nat \cup {None}]
    \cup [to : {"snd"}, kind : {"ack"}, seq : Nat, window : Int]
    \cup [to : {"snd"}, kind : {"light"}, seq : Nat]
    \cup [to : {"rcv"}, kind : {"ack2"}, seq : Nat]
    \cup [to : {"snd"}, kind : {"nak"}, first : Nat, last : Nat]
    \cup [to : {"rcv"}, kind : {"shutdown"}]

\* The states of the writing socket.
Writers ==
    [written : Nat, dataAck : Nat, lastAck : Nat, next : Nat, window : Int,
     loss : SUBSET Nat, listed : BOOLEAN, waking : BOOLEAN,
     picked : Nat \cup {None}, out : Nat \cup {None},
     broken : BOOLEAN, phase : {"open", "closed"}, kept : BOOLEAN]

\* The states of the reading socket.
Readers ==
    [size : Nat, lastAck : Nat, lastAckAck : Nat, next : Nat, loss : SUBSET Nat,
     units : SUBSET (Nat \X (Nat \cup {None})), read : Seq(Nat \cup {None}),
     broken : BOOLEAN, ended : BOOLEAN]

\* Every variable has its type.
Typed ==
    /\ snd \in Writers
    /\ rcv \in Readers
    /\ net \subseteq Messages

\* The writing socket: what is acknowledged, what is lost and what is about to
\* be sent again are in order.
SndInv ==
    /\ snd.dataAck <= snd.lastAck
    /\ snd.next <= snd.written
    /\ \A k \in snd.loss : snd.dataAck <= k /\ k < snd.next
    /\ snd.picked # None => snd.picked < snd.next /\ snd.listed
    /\ snd.picked # None /\ snd.picked < snd.dataAck => snd.waking
    /\ snd.out # None => snd.out < snd.next
    /\ snd.kept => snd.phase = "closed" /\ snd.written = snd.dataAck

\* The reading socket: what is acknowledged and not read, and what has arrived
\* beyond it, is in the receive buffer under its own number.
RcvInv ==
    /\ Len(rcv.read) <= rcv.lastAck
    /\ rcv.lastAck <= rcv.next
    /\ \A k \in rcv.loss : rcv.lastAck <= k /\ k < rcv.next
    /\ \A u \in rcv.units : u[2] = u[1]
    /\ \A k \in Nat : Len(rcv.read) <= k /\ k < rcv.next
                         => k \in rcv.loss \/ <<k, k>> \in rcv.units
    /\ rcv.ended => rcv.broken /\ Len(rcv.read) = rcv.lastAck

\* A packet has been sent, and carries its own contents unless it is
\* acknowledged; an acknowledgement names nothing beyond m_iRcvLastAck.
MsgInv(m) ==
    /\ m.kind = "data" => m.seq < snd.next /\ (m.val = m.seq \/ m.seq < snd.dataAck)
    /\ m.kind = "ack" => m.seq <= rcv.lastAck

\* What is known of the messages under way.
NetInv == \A m \in net : MsgInv(m)

\* The writer takes nothing for acknowledged that the reader has not
\* acknowledged, and the reader has got nothing that was not sent.
Agree == snd.dataAck <= rcv.lastAck /\ rcv.next <= snd.next

\* The inductive invariant.
Connected == Typed /\ SndInv /\ RcvInv /\ NetInv /\ Agree

-----------------------------------------------------------------------------
(*****************************************************************************)
(* Facts the steps rest on.                                                  *)
(*****************************************************************************)
\* A set of numbers that is not empty has a least one, however large it is.
LEMMA MinFacts ==
    ASSUME NEW S \in SUBSET Nat, S # {}
    PROVE  Min(S) \in S /\ \A k \in S : Min(S) <= k
<1> DEFINE Upto == {0..k : k \in S}
<1>1. Upto \subseteq FiniteSubsetsOf(Nat) /\ Upto # {}
  <2>1. ASSUME NEW k \in S PROVE 0..k \in FiniteSubsetsOf(Nat)
    BY FS_Interval DEF FiniteSubsetsOf
  <2>2. QED
    BY <2>1
<1>2. PICK T \in Upto : \A U \in Upto : <<U, T>> \notin StrictSubsetOrdering(Nat)
  <2>1. IsWellFoundedOn(StrictSubsetOrdering(Nat), FiniteSubsetsOf(Nat))
    BY FS_StrictSubsetOrderingWellFounded
  <2> HIDE DEF Upto
  <2>2. QED
    BY <1>1, <2>1, WFMin
<1>3. PICK x \in S : T = 0..x
  BY <1>2
<1>4. ASSUME NEW k \in S, k < x PROVE FALSE
  <2>1. 0..k \in Upto /\ 0..k \in SUBSET Nat /\ 0..x \in SUBSET Nat
    OBVIOUS
  <2>2. 0..k \subseteq 0..x /\ x \in 0..x /\ x \notin 0..k
    BY <1>4
  <2>3. 0..k # 0..x
    BY <2>2
  <2>4. <<0..k, 0..x>> \in StrictSubsetOrdering(Nat)
    BY <2>1, <2>2, <2>3 DEF StrictSubsetOrdering
  <2>5. QED
    BY <1>2, <1>3, <2>1, <2>4
<1>5. \A k \in S : x <= k
  BY <1>4
<1>6. QED
  BY <1>5 DEF Min

\* A fresh connection.
LEMMA ConnInit ==
    ASSUME Init
    PROVE  Connected
<1>1. PICK size \in Sizes : rcv = RcvInit(size) /\ snd = SndInit(size + 1) /\ net = {}
  BY DEF Init
<1>2. size \in Nat /\ size + 1 \in Int
  BY ConnectionAssumption
<1>3. <<>> \in Seq(Nat \cup {None}) /\ Len(<<>>) = 0
  OBVIOUS
<1>4. snd \in Writers /\ rcv \in Readers
  BY <1>1, <1>2, <1>3 DEF Writers, Readers, SndInit, RcvInit
<1>5. SndInv /\ RcvInv
  BY <1>1, <1>3 DEF SndInv, RcvInv, SndInit, RcvInit
<1>6. NetInv /\ Agree
  BY <1>1 DEF NetInv, Agree, SndInit, RcvInit
<1>7. QED
  BY <1>1, <1>4, <1>5, <1>6 DEF Connected, Typed

\* The types, and the order the numbers are in.
LEMMA NumberFacts ==
    ASSUME Connected
    PROVE  /\ snd \in Writers /\ rcv \in Readers /\ net \subseteq Messages
           /\ snd.dataAck \in Nat /\ snd.lastAck \in Nat /\ snd.next \in Nat /\ snd.written \in Nat
           /\ rcv.lastAck \in Nat /\ rcv.next \in Nat /\ Len(rcv.read) \in Nat
           /\ None \notin Nat
           /\ snd.dataAck <= rcv.lastAck /\ rcv.lastAck <= rcv.next
           /\ rcv.next <= snd.next /\ snd.next <= snd.written
           /\ snd.dataAck <= snd.lastAck
BY ConnectionAssumption, LenProperties DEF Connected, Typed, SndInv, RcvInv, Agree, Writers,
   Readers

\* What a step leaves on its way stays true of both sockets.
LEMMA NetKept ==
    ASSUME Connected, snd' \in Writers, rcv' \in Readers,
           snd'.next >= snd.next, snd'.dataAck >= snd.dataAck, rcv'.lastAck >= rcv.lastAck,
           \A m \in net' : m \in net \/ (m \in Messages /\ MsgInv(m)')
    PROVE  net' \subseteq Messages /\ NetInv'
<1>1. snd'.next \in Nat /\ snd'.dataAck \in Nat /\ rcv'.lastAck \in Nat
  BY DEF Writers, Readers
<1>2. ASSUME NEW m \in net PROVE m \in Messages /\ MsgInv(m)'
  <2>1. m \in Messages /\ MsgInv(m)
    BY NumberFacts DEF Connected, NetInv
  <2>2. m.kind \in {"data", "ack"} => m.seq \in Nat
    BY <2>1 DEF Messages
  <2>3. QED
    BY <1>1, <2>1, <2>2, NumberFacts DEF MsgInv
<1>3. QED
  BY <1>2 DEF NetInv

\* What is left to show of a step of the writing socket.
LEMMA SndStep ==
    ASSUME Connected, rcv' = rcv, snd' \in Writers, SndInv',
           snd'.next >= snd.next, snd'.dataAck >= snd.dataAck, snd'.dataAck <= rcv.lastAck,
           \A m \in net' : m \in net \/ (m \in Messages /\ MsgInv(m)')
    PROVE  Connected'
<1>1. rcv' \in Readers /\ rcv'.lastAck >= rcv.lastAck
  BY NumberFacts
<1>2. net' \subseteq Messages /\ NetInv'
  BY <1>1, NetKept
<1>3. RcvInv'
  BY DEF Connected, RcvInv
<1>4. snd'.next \in Nat
  BY DEF Writers
<1>5. Agree'
  BY <1>4, NumberFacts DEF Agree
<1>6. QED
  BY <1>1, <1>2, <1>3, <1>5 DEF Connected, Typed

\* What is left to show of a step of the reading socket.
LEMMA RcvStep ==
    ASSUME Connected, snd' = snd, rcv' \in Readers, RcvInv',
           rcv'.lastAck >= rcv.lastAck, rcv'.next <= snd.next,
           \A m \in net' : m \in net \/ (m \in Messages /\ MsgInv(m)')
    PROVE  Connected'
<1>1. snd' \in Writers /\ snd'.next >= snd.next /\ snd'.dataAck >= snd.dataAck
  BY NumberFacts
<1>2. net' \subseteq Messages /\ NetInv'
  BY <1>1, NetKept
<1>3. SndInv'
  BY DEF Connected, SndInv
<1>4. rcv'.lastAck \in Nat /\ rcv'.next \in Nat
  BY DEF Readers
<1>5. Agree'
  BY <1>4, NumberFacts DEF Agree
<1>6. QED
  BY <1>1, <1>2, <1>3, <1>5 DEF Connected, Typed

\* The types alone.
LEMMA Types ==
    ASSUME Connected
    PROVE  snd \in Writers /\ rcv \in Readers /\ snd.next >= snd.next /\ snd.dataAck >= snd.dataAck
BY NumberFacts

-----------------------------------------------------------------------------
(*****************************************************************************)
(* The writing socket and the sending worker.                                *)
(*****************************************************************************)
\* send: one more piece to send.
LEMMA ConnSend ==
    ASSUME Connected, send
    PROVE  Connected'
<1> USE DEF send
<1>1. PICK w \in Nat : w = snd.written + 1
  BY NumberFacts
<1>2. snd' = [snd EXCEPT !.written = w, !.listed = TRUE] /\ rcv' = rcv /\ net' = net
  BY <1>1
<1>3. snd' \in Writers /\ snd'.next >= snd.next /\ snd'.dataAck = snd.dataAck
  BY <1>2, Types DEF Writers
<1>4. SndInv'
  BY <1>1, <1>2, NumberFacts DEF Connected, SndInv, Writers
<1>5. QED
  BY <1>2, <1>3, <1>4, NumberFacts, SndStep

\* The thread that waited for the list puts the socket on it.
LEMMA ConnUpdate ==
    ASSUME Connected, update
    PROVE  Connected'
<1> USE DEF update
<1>1. snd' = [snd EXCEPT !.waking = FALSE, !.listed = TRUE] /\ rcv' = rcv /\ net' = net
  OBVIOUS
<1>2. snd' \in Writers /\ snd'.next >= snd.next /\ snd'.dataAck = snd.dataAck
  BY <1>1, Types DEF Writers
<1>3. SndInv'
  BY <1>1, NumberFacts DEF Connected, SndInv, Writers
<1>4. QED
  BY <1>1, <1>2, <1>3, NumberFacts, SndStep

\* pop chooses a lost packet that is not acknowledged.
LEMMA ConnPop ==
    ASSUME Connected, pop
    PROVE  Connected'
<1> USE DEF pop
<1>1. rcv' = rcv /\ net' = net
  OBVIOUS
<1>2. CASE ~SndAlive
  <2>1. snd' = [snd EXCEPT !.listed = FALSE]
    BY <1>2
  <2>2. snd' \in Writers /\ snd'.next >= snd.next /\ snd'.dataAck = snd.dataAck
    BY <2>1, Types DEF Writers
  <2>3. SndInv'
    BY <2>1, NumberFacts DEF Connected, SndInv, Writers
  <2>4. QED
    BY <1>1, <2>2, <2>3, NumberFacts, SndStep
<1>3. CASE SndAlive
  <2>1. snd.loss # {} /\ snd.loss \in SUBSET Nat
    BY <1>3, NumberFacts DEF Writers
  <2>2. Min(snd.loss) \in snd.loss
    BY <2>1, MinFacts
  <2>3. PICK k \in snd.loss, L \in SUBSET Nat :
           snd' = [snd EXCEPT !.picked = k, !.loss = L] /\ L = snd.loss \ {k}
    BY <1>3, <2>1, <2>2
  <2>4. k \in Nat /\ snd.dataAck <= k /\ k < snd.next
    BY <2>1, NumberFacts DEF Connected, SndInv
  <2>5. snd' \in Writers /\ snd'.next >= snd.next /\ snd'.dataAck = snd.dataAck
    BY <2>3, <2>4, Types DEF Writers
  <2>6. /\ snd'.picked = k /\ snd'.loss = L /\ snd'.dataAck = snd.dataAck
        /\ snd'.lastAck = snd.lastAck /\ snd'.next = snd.next
        /\ snd'.written = snd.written /\ snd'.out = snd.out
        /\ snd'.kept = snd.kept /\ snd'.phase = snd.phase /\ snd'.listed = snd.listed
    BY <2>3, Types DEF Writers
  <2>7. ~(k < snd.dataAck)
    BY <2>4, NumberFacts
  <2>8. \A j \in snd'.loss : snd'.dataAck <= j /\ j < snd'.next
    BY <2>3, <2>6 DEF Connected, SndInv
  <2>9. SndInv'
    BY <2>4, <2>6, <2>7, <2>8 DEF Connected, SndInv
  <2>10. QED
    BY <1>1, <2>5, <2>9, NumberFacts, SndStep
<1>4. QED
  BY <1>2, <1>3

\* packData packs it again, unless it was acknowledged meanwhile.
LEMMA ConnPackLost ==
    ASSUME Connected, packLost
    PROVE  Connected'
<1> USE DEF packLost
<1>1. rcv' = rcv /\ net' = net /\ snd.picked \in Nat /\ snd.picked < snd.next
  BY NumberFacts DEF Connected, SndInv, Writers
<1>2. CASE snd' = [snd EXCEPT !.picked = None, !.listed = FALSE]
  <2>1. snd' \in Writers /\ snd'.next >= snd.next /\ snd'.dataAck = snd.dataAck
    BY <1>2, Types DEF Writers
  <2>2. SndInv'
    BY <1>2, NumberFacts DEF Connected, SndInv, Writers
  <2>3. QED
    BY <1>1, <2>1, <2>2, NumberFacts, SndStep
<1>3. CASE snd' = [snd EXCEPT !.picked = None, !.out = snd.picked]
  <2>1. snd' \in Writers /\ snd'.next >= snd.next /\ snd'.dataAck = snd.dataAck
    BY <1>1, <1>3, Types DEF Writers
  <2>2. SndInv'
    BY <1>1, <1>3, NumberFacts DEF Connected, SndInv, Writers
  <2>3. QED
    BY <1>1, <2>1, <2>2, NumberFacts, SndStep
<1>4. QED
  BY <1>2, <1>3

\* packData sends the next new packet, with the contents of its number.
LEMMA ConnPackNew ==
    ASSUME Connected, packNew
    PROVE  Connected'
<1> USE DEF packNew
<1>1. CASE snd.next - snd.lastAck < snd.window /\ snd.next < snd.written
  <2>1. PICK d : d = Data(snd.next, snd.next)
    OBVIOUS
  <2>2. PICK k \in Nat, x \in Nat : k = snd.next /\ x = k + 1 /\ d = Data(k, k)
    BY <2>1, NumberFacts
  <2>3. snd' = [snd EXCEPT !.next = x] /\ rcv' = rcv /\ \A m \in net' : m \in net \/ m = d
    BY <1>1, <2>2 DEF ToRcv
  <2>4. snd' \in Writers /\ snd'.next = x /\ snd'.dataAck = snd.dataAck
    BY <2>3, Types DEF Writers
  <2>5. SndInv'
    BY <1>1, <2>2, <2>3, NumberFacts DEF Connected, SndInv, Writers
  <2>6. d \in Messages /\ MsgInv(d)'
    BY <2>2, <2>4 DEF Data, Messages, MsgInv
  <2>7. QED
    BY <2>2, <2>3, <2>4, <2>5, <2>6, NumberFacts, SndStep
<1>2. CASE ~(snd.next - snd.lastAck < snd.window /\ snd.next < snd.written)
  <2>1. snd' = [snd EXCEPT !.listed = FALSE] /\ rcv' = rcv /\ net' = net
    BY <1>2
  <2>2. snd' \in Writers /\ snd'.next >= snd.next /\ snd'.dataAck = snd.dataAck
    BY <2>1, Types DEF Writers
  <2>3. SndInv'
    BY <2>1, NumberFacts DEF Connected, SndInv, Writers
  <2>4. QED
    BY <2>1, <2>2, <2>3, NumberFacts, SndStep
<1>3. QED
  BY <1>1, <1>2

\* Contents other than the number's leave the sender only under a number that
\* is acknowledged.
LEMMA ConnTransmit ==
    ASSUME Connected, transmit
    PROVE  Connected'
<1> USE DEF transmit
<1>1. PICK k \in Nat : k = snd.out /\ k < snd.next
  BY NumberFacts DEF Connected, SndInv, Writers
<1>2. PICK v \in Nat \cup {None} : /\ net' = net \cup ToRcv(Data(k, v))
                                   /\ v = k \/ k < snd.dataAck
  BY <1>1 DEF Garbage
<1>3. PICK d : d = Data(k, v)
  OBVIOUS
<1>4. snd' = [snd EXCEPT !.out = None] /\ rcv' = rcv /\ \A m \in net' : m \in net \/ m = d
  BY <1>2, <1>3 DEF ToRcv
<1>5. snd' \in Writers /\ snd'.next = snd.next /\ snd'.dataAck = snd.dataAck
  BY <1>4, Types DEF Writers
<1>6. SndInv'
  BY <1>4, NumberFacts DEF Connected, SndInv, Writers
<1>7. d \in Messages /\ MsgInv(d)'
  BY <1>1, <1>2, <1>3, <1>5 DEF Data, Messages, MsgInv
<1>8. QED
  BY <1>4, <1>5, <1>6, <1>7, NumberFacts, SndStep

-----------------------------------------------------------------------------
(*****************************************************************************)
(* The reading socket's acknowledgements.                                    *)
(*****************************************************************************)
\* What AckNumber names is missing nothing before it.
LEMMA AckFacts ==
    ASSUME Connected
    PROVE  /\ AckNumber \in Nat
           /\ rcv.lastAck <= AckNumber /\ AckNumber <= rcv.next
           /\ \A k \in Nat : Len(rcv.read) <= k /\ k < AckNumber => <<k, k>> \in rcv.units
           /\ \A k \in rcv.loss : AckNumber <= k
           /\ Window(AckNumber) \in Int
<1>1. rcv.loss \in SUBSET Nat /\ rcv.size \in Nat
  BY NumberFacts DEF Readers
<1>2. CASE rcv.loss = {}
  <2>1. AckNumber = rcv.next
    BY <1>2 DEF AckNumber
  <2>2. QED
    BY <1>1, <1>2, <2>1, NumberFacts DEF Connected, RcvInv, Window, Avail
<1>3. CASE rcv.loss # {}
  <2>1. AckNumber \in rcv.loss /\ \A k \in rcv.loss : AckNumber <= k
    BY <1>1, <1>3, MinFacts DEF AckNumber
  <2>2. AckNumber \in Nat /\ rcv.lastAck <= AckNumber /\ AckNumber < rcv.next
    BY <1>1, <2>1 DEF Connected, RcvInv
  <2>3. ASSUME NEW k \in Nat, Len(rcv.read) <= k, k < AckNumber
        PROVE  <<k, k>> \in rcv.units
    <3>1. k \notin rcv.loss /\ k < rcv.next
      BY <1>1, <2>1, <2>2, <2>3, NumberFacts
    <3>2. QED
      BY <2>3, <3>1 DEF Connected, RcvInv
  <2>4. Window(AckNumber) \in Int
    BY <1>1, <2>2, NumberFacts DEF Window, Avail
  <2>5. QED
    BY <2>1, <2>2, <2>3, <2>4, NumberFacts
<1>4. QED
  BY <1>2, <1>3

\* sendCtrl(2) acknowledges what can be read.
LEMMA ConnSendAck ==
    ASSUME Connected, sendAck
    PROVE  Connected'
<1> USE DEF sendAck
<1>1. PICK d : d = ACK(AckNumber, Window(AckNumber))
  OBVIOUS
<1>2. PICK n \in Nat, w \in Int : n = AckNumber /\ w = Window(AckNumber) /\ d = ACK(n, w)
  BY <1>1, AckFacts
<1>3. rcv' = [rcv EXCEPT !.lastAck = n] /\ snd' = snd /\ \A m \in net' : m \in net \/ m = d
  BY <1>2 DEF ToSnd
<1>4. /\ rcv' \in Readers /\ rcv'.lastAck = n /\ rcv'.next = rcv.next /\ rcv'.loss = rcv.loss
      /\ rcv'.units = rcv.units /\ rcv'.read = rcv.read /\ rcv'.ended = rcv.ended
      /\ rcv'.broken = rcv.broken
  BY <1>3, Types DEF Readers
<1>5. rcv.lastAck <= n /\ n <= rcv.next /\ \A k \in rcv.loss : n <= k
  BY <1>2, AckFacts
<1>6. RcvInv'
  <2>1. ~rcv.ended
    BY DEF RcvServed, Connected, RcvInv
  <2>2. Len(rcv.read) <= n
    BY <1>5, NumberFacts DEF Connected, RcvInv
  <2>3. QED
    BY <1>4, <1>5, <2>1, <2>2 DEF Connected, RcvInv
<1>7. d \in Messages /\ MsgInv(d)'
  BY <1>2, <1>4, NumberFacts DEF ACK, Messages, MsgInv
<1>8. QED
  BY <1>3, <1>4, <1>5, <1>6, <1>7, NumberFacts, RcvStep

\* A light acknowledgement changes neither socket.
LEMMA ConnSendLightAck ==
    ASSUME Connected, sendLightAck
    PROVE  Connected'
<1> USE DEF sendLightAck
<1>1. PICK d : d = LightACK(AckNumber)
  OBVIOUS
<1>2. PICK n \in Nat : n = AckNumber /\ d = LightACK(n)
  BY <1>1, AckFacts
<1>3. snd' = snd /\ rcv' = rcv /\ \A m \in net' : m \in net \/ m = d
  BY <1>2 DEF ToSnd
<1>4. d \in Messages /\ MsgInv(d)'
  BY <1>2 DEF LightACK, Messages, MsgInv
<1>5. RcvInv'
  BY <1>3 DEF Connected, RcvInv
<1>6. QED
  BY <1>3, <1>4, <1>5, NumberFacts, RcvStep

-----------------------------------------------------------------------------
(*****************************************************************************)
(* Control messages.                                                         *)
(*****************************************************************************)
\* An acknowledgement empties the send buffer up to what the reader has
\* acknowledged, and wakes the socket.
LEMMA ConnAck ==
    ASSUME Connected, DeliverAck
    PROVE  Connected'
<1>1. PICK m \in net, rest \in SUBSET net : m.kind = "ack" /\ processAck(m, rest)
  BY DEF DeliverAck, Deliver
<1>2. m \in Messages /\ MsgInv(m)
  BY NumberFacts DEF Connected, NetInv
<1>3. PICK n \in Nat, w \in Int : n = m.seq /\ w = m.window /\ n <= rcv.lastAck
  BY <1>1, <1>2 DEF Messages, MsgInv
<1>4. PICK d : d = ACK2(n)
  OBVIOUS
<1>5. rcv' = rcv /\ \A x \in net' : x \in net \/ x = d
  BY <1>1, <1>3, <1>4 DEF processAck, ToRcv
<1>6. d \in Messages /\ MsgInv(d)'
  BY <1>3, <1>4 DEF ACK2, Messages, MsgInv
<1>7. ~(n > snd.next)
  BY <1>3, NumberFacts
<1>8. snd' = Acked(n, w)
  BY <1>1, <1>3, <1>7 DEF processAck
<1>9. CASE ~(n > snd.dataAck)
  <2>1. snd' = IF n >= snd.lastAck THEN [snd EXCEPT !.lastAck = n, !.window = w] ELSE snd
    BY <1>8, <1>9 DEF Acked
  <2>2. snd' \in Writers /\ snd'.next >= snd.next /\ snd'.dataAck = snd.dataAck
    BY <1>3, <2>1, Types DEF Writers
  <2>3. SndInv'
    BY <1>3, <2>1, NumberFacts DEF Connected, SndInv, Writers
  <2>4. QED
    BY <1>5, <1>6, <2>2, <2>3, NumberFacts, SndStep
<1>10. CASE n > snd.dataAck
  <2>1. PICK l \in Nat, v \in Int, L \in SUBSET Nat :
           /\ l = IF n >= snd.lastAck THEN n ELSE snd.lastAck
           /\ v = IF n >= snd.lastAck THEN w ELSE snd.window
           /\ L = {k \in snd.loss : k >= n}
    BY <1>3, NumberFacts DEF Writers
  <2>2. snd' = [snd EXCEPT !.lastAck = l, !.window = v, !.dataAck = n, !.loss = L, !.waking = TRUE]
    BY <1>8, <1>10, <2>1, NumberFacts DEF Acked, Writers
  <2>3. /\ snd' \in Writers /\ snd'.next = snd.next /\ snd'.dataAck = n /\ snd'.lastAck = l
        /\ snd'.loss = L /\ snd'.waking = TRUE /\ snd'.written = snd.written
        /\ snd'.picked = snd.picked /\ snd'.out = snd.out /\ snd'.kept = snd.kept
        /\ snd'.phase = snd.phase /\ snd'.listed = snd.listed
    BY <1>3, <2>1, <2>2, Types DEF Writers
  <2>4. n <= l
    BY <1>3, <2>1, NumberFacts
  <2>5. ~snd.kept
    BY <1>3, <1>10, NumberFacts DEF Connected, SndInv
  <2>6. \A k \in L : n <= k /\ k < snd.next
    BY <2>1 DEF Connected, SndInv
  <2>7. SndInv'
    BY <2>3, <2>4, <2>5, <2>6 DEF Connected, SndInv
  <2>8. QED
    BY <1>3, <1>5, <1>6, <1>10, <2>3, <2>7, NumberFacts, SndStep
<1>11. QED
  BY <1>9, <1>10

\* A light acknowledgement moves m_iSndLastAck alone.
LEMMA ConnLightAck ==
    ASSUME Connected, DeliverLightAck
    PROVE  Connected'
<1>1. PICK m \in net, rest \in SUBSET net : m.kind = "light" /\ processLightAck(m, rest)
  BY DEF DeliverLightAck, Deliver
<1>2. m \in Messages
  BY NumberFacts
<1>3. PICK n \in Nat : n = m.seq
  BY <1>1, <1>2 DEF Messages
<1>4. PICK w \in Int : w = snd.window - (n - snd.lastAck)
  BY <1>3, NumberFacts DEF Writers
<1>5. rcv' = rcv /\ \A x \in net' : x \in net
  BY <1>1 DEF processLightAck
<1>6. snd' = IF n >= snd.lastAck THEN [snd EXCEPT !.window = w, !.lastAck = n] ELSE snd
  BY <1>1, <1>3, <1>4 DEF processLightAck
<1>7. snd' \in Writers /\ snd'.next = snd.next /\ snd'.dataAck = snd.dataAck
  BY <1>6, Types DEF Writers
<1>8. SndInv'
  BY <1>3, <1>6, NumberFacts DEF Connected, SndInv, Writers
<1>9. QED
  BY <1>5, <1>7, <1>8, NumberFacts, SndStep

\* A loss report adds only packets that are sent and not acknowledged.
LEMMA ConnNak ==
    ASSUME Connected, DeliverNak
    PROVE  Connected'
<1>1. PICK m \in net, rest \in SUBSET net : m.kind = "nak" /\ processNak(m, rest)
  BY DEF DeliverNak, Deliver
<1>2. m.first \in Nat /\ m.last \in Nat
  BY <1>1, NumberFacts DEF Messages
<1>3. rcv' = rcv /\ \A x \in net' : x \in net
  BY <1>1 DEF processNak
<1>4. CASE m.last >= snd.next
  <2>1. snd' = [snd EXCEPT !.broken = TRUE]
    BY <1>1, <1>4 DEF processNak
  <2>2. snd' \in Writers /\ snd'.next = snd.next /\ snd'.dataAck = snd.dataAck
    BY <2>1, Types DEF Writers
  <2>3. SndInv'
    BY <2>1, NumberFacts DEF Connected, SndInv, Writers
  <2>4. QED
    BY <1>3, <2>2, <2>3, NumberFacts, SndStep
<1>5. CASE ~(m.last >= snd.next)
  <2>1. \A k \in Reported(m) : k \in Nat /\ snd.lastAck <= k /\ k < snd.next
    BY <1>2, <1>5, NumberFacts DEF Reported
  <2>2. PICK L \in SUBSET Nat : L = snd.loss \cup Reported(m)
    BY <2>1, NumberFacts DEF Writers
  <2>3. snd' = [snd EXCEPT !.loss = L, !.waking = TRUE]
    BY <1>1, <1>5, <2>2 DEF processNak
  <2>4. /\ snd' \in Writers /\ snd'.next = snd.next /\ snd'.dataAck = snd.dataAck
        /\ snd'.lastAck = snd.lastAck
        /\ snd'.loss = L /\ snd'.waking = TRUE /\ snd'.written = snd.written
        /\ snd'.picked = snd.picked /\ snd'.out = snd.out /\ snd'.kept = snd.kept
        /\ snd'.phase = snd.phase /\ snd'.listed = snd.listed
    BY <2>3, Types DEF Writers
  <2>5. \A k \in L : snd.dataAck <= k /\ k < snd.next
    BY <2>1, <2>2, NumberFacts DEF Connected, SndInv
  <2>6. SndInv'
    BY <2>4, <2>5 DEF Connected, SndInv
  <2>7. QED
    BY <1>3, <2>4, <2>6, NumberFacts, SndStep
<1>6. QED
  BY <1>4, <1>5

\* A confirmation.
LEMMA ConnAck2 ==
    ASSUME Connected, DeliverAck2
    PROVE  Connected'
<1>1. PICK m \in net, rest \in SUBSET net : m.kind = "ack2" /\ processAck2(m, rest)
  BY DEF DeliverAck2, Deliver
<1>2. m.seq \in Nat
  BY <1>1, NumberFacts DEF Messages
<1>3. PICK n \in Nat : n = IF m.seq > rcv.lastAckAck THEN m.seq ELSE rcv.lastAckAck
  BY <1>2, NumberFacts DEF Readers
<1>4. rcv' = [rcv EXCEPT !.lastAckAck = n] /\ snd' = snd /\ \A x \in net' : x \in net
  BY <1>1, <1>3 DEF processAck2
<1>5. /\ rcv' \in Readers /\ rcv'.lastAck = rcv.lastAck /\ rcv'.next = rcv.next
      /\ rcv'.loss = rcv.loss
      /\ rcv'.units = rcv.units /\ rcv'.read = rcv.read /\ rcv'.ended = rcv.ended
      /\ rcv'.broken = rcv.broken
  BY <1>4, Types DEF Readers
<1>6. RcvInv'
  BY <1>5 DEF Connected, RcvInv
<1>7. QED
  BY <1>4, <1>5, <1>6, NumberFacts, RcvStep

\* A step that breaks the reading socket.
LEMMA RcvBroken ==
    ASSUME Connected, snd' = snd, rcv' = [rcv EXCEPT !.broken = TRUE], net' \subseteq net
    PROVE  Connected'
<1>1. /\ rcv' \in Readers /\ rcv'.lastAck = rcv.lastAck /\ rcv'.next = rcv.next
      /\ rcv'.loss = rcv.loss
      /\ rcv'.units = rcv.units /\ rcv'.read = rcv.read /\ rcv'.ended = rcv.ended
      /\ rcv'.broken
  BY Types DEF Readers
<1>2. RcvInv'
  BY <1>1 DEF Connected, RcvInv
<1>3. QED
  BY <1>1, <1>2, NumberFacts, RcvStep

\* The writer has closed.
LEMMA ConnShutdown ==
    ASSUME Connected, DeliverShutdown
    PROVE  Connected'
BY RcvBroken DEF DeliverShutdown, Deliver, processShutdown, Without

\* The reader has heard nothing for long.
LEMMA ConnTimeoutRcv ==
    ASSUME Connected, timeoutRcv
    PROVE  Connected'
BY RcvBroken DEF timeoutRcv, Without

-----------------------------------------------------------------------------
(*****************************************************************************)
(* Data.                                                                     *)
(*****************************************************************************)
\* A packet that is not refused is not acknowledged, so it carries the contents
\* of its number; the gap before it goes to the loss list.
LEMMA ConnData ==
    ASSUME Connected, NEW i \in Nat, DeliverData(i)
    PROVE  Connected'
<1>1. PICK m \in net, rest \in SUBSET net :
         m.kind = "data" /\ m.seq = i /\ processData(m, rest) /\ RcvServed
  <2>1. PICK m \in net : /\ m.kind = "data" /\ m.seq = i
                         /\ m.to = "rcv" => RcvServed
                         /\ processData(m, net \ {m}) \/ processData(m, net)
    BY DEF DeliverData, Deliver
  <2>2. m.to = "rcv"
    BY <2>1, NumberFacts DEF Messages
  <2>3. QED
    BY <2>1, <2>2
<1>2. m.val \in Nat \cup {None} /\ (m.val = i \/ i < snd.dataAck) /\ i < snd.next
  BY <1>1, NumberFacts DEF Messages, Connected, NetInv, MsgInv
<1>3. CASE Refused(m)
  <2>1. snd' = snd /\ rcv' = rcv /\ \A x \in net' : x \in net
    BY <1>1, <1>3 DEF processData
  <2>2. RcvInv'
    BY <2>1 DEF Connected, RcvInv
  <2>3. QED
    BY <2>1, <2>2, NumberFacts, RcvStep
<1>4. CASE ~Refused(m)
  <2>1. rcv.lastAck <= i
    BY <1>1, <1>4, NumberFacts DEF Refused
  <2>2. m.val = i
    BY <1>2, <2>1, NumberFacts
  <2>3. PICK U \in SUBSET (Nat \X (Nat \cup {None})), L \in SUBSET Nat, n \in Nat :
           /\ U = rcv.units \cup {<<i, i>>}
           /\ L = (rcv.loss \cup (rcv.next..(i - 1))) \ {i}
           /\ n = IF i >= rcv.next THEN i + 1 ELSE rcv.next
    <3>1. rcv.units \cup {<<i, i>>} \in SUBSET (Nat \X (Nat \cup {None}))
      BY NumberFacts DEF Readers
    <3>2. (rcv.loss \cup (rcv.next..(i - 1))) \ {i} \in SUBSET Nat
      BY NumberFacts DEF Readers
    <3>3. (IF i >= rcv.next THEN i + 1 ELSE rcv.next) \in Nat
      BY NumberFacts
    <3>4. QED
      BY <3>1, <3>2, <3>3
  <2>4. rcv' = [rcv EXCEPT !.units = U, !.loss = L, !.next = n] /\ snd' = snd
    BY <1>1, <1>4, <2>2, <2>3 DEF processData
  <2>5. PICK d : d = NAK(rcv.next, i - 1)
    OBVIOUS
  <2>6. net' = rest \cup (IF i > rcv.next THEN ToSnd(d) ELSE {})
    BY <1>1, <1>4, <2>5 DEF processData
  <2>7. i > rcv.next => d \in Messages /\ MsgInv(d)'
    <3>1. i > rcv.next => i - 1 \in Nat
      BY NumberFacts
    <3>2. QED
      BY <2>5, <3>1, NumberFacts DEF NAK, Messages, MsgInv
  <2>8. \A x \in net' : x \in net \/ (x \in Messages /\ MsgInv(x)')
    BY <2>6, <2>7 DEF ToSnd
  <2>9. /\ rcv' \in Readers /\ rcv'.lastAck = rcv.lastAck /\ rcv'.next = n /\ rcv'.loss = L
        /\ rcv'.units = U /\ rcv'.read = rcv.read /\ rcv'.ended = rcv.ended
        /\ rcv'.broken = rcv.broken
    BY <2>4, Types DEF Readers
  <2>10. rcv.next <= n /\ n <= snd.next /\ i < n
    BY <1>2, <2>3, NumberFacts
  <2>11. RcvInv'
    <3>1. \A k \in L : rcv.lastAck <= k /\ k < n
      BY <2>3, <2>10, NumberFacts DEF Connected, RcvInv
    <3>2. \A u \in U : u[2] = u[1]
      BY <2>3 DEF Connected, RcvInv
    <3>3. ASSUME NEW k \in Nat, Len(rcv.read) <= k, k < n
          PROVE  k \in L \/ <<k, k>> \in U
      <4>1. CASE k < rcv.next
        <5>1. k \in rcv.loss \/ <<k, k>> \in rcv.units
          BY <3>3, <4>1 DEF Connected, RcvInv
        <5>2. QED
          BY <2>3, <5>1
      <4>2. CASE k = i
        BY <2>3, <4>2
      <4>3. CASE ~(k < rcv.next) /\ k # i
        <5>1. k \in rcv.next..(i - 1)
          BY <2>3, <3>3, <4>3, NumberFacts
        <5>2. QED
          BY <2>3, <4>3, <5>1
      <4>4. QED
        BY <4>1, <4>2, <4>3
    <3>4. Len(rcv.read) <= rcv.lastAck /\ rcv.lastAck <= n
      BY <2>10, NumberFacts DEF Connected, RcvInv
    <3>5. rcv.ended => rcv.broken /\ Len(rcv.read) = rcv.lastAck
      BY DEF Connected, RcvInv
    <3>6. QED
      BY <2>9, <3>1, <3>2, <3>3, <3>4, <3>5 DEF RcvInv
  <2>12. QED
    BY <2>4, <2>8, <2>9, <2>10, <2>11, NumberFacts, RcvStep
<1>5. QED
  BY <1>3, <1>4

-----------------------------------------------------------------------------
(*****************************************************************************)
(* Timers and closing.                                                       *)
(*****************************************************************************)
\* Everything in flight is taken for lost.
LEMMA ConnExpire ==
    ASSUME Connected, expire
    PROVE  Connected'
<1> USE DEF expire
<1>1. PICK L \in SUBSET Nat : L = IF snd.loss = {} THEN snd.lastAck..(snd.next - 1) ELSE snd.loss
  <2>1. snd.loss \in SUBSET Nat /\ snd.lastAck..(snd.next - 1) \in SUBSET Nat
    BY NumberFacts DEF Writers
  <2>2. QED
    BY <2>1
<1>2. snd' = [snd EXCEPT !.loss = L, !.waking = TRUE] /\ rcv' = rcv /\ net' = net
  BY <1>1
<1>3. /\ snd' \in Writers /\ snd'.next = snd.next /\ snd'.dataAck = snd.dataAck
      /\ snd'.lastAck = snd.lastAck
      /\ snd'.loss = L /\ snd'.waking = TRUE /\ snd'.written = snd.written
      /\ snd'.picked = snd.picked /\ snd'.out = snd.out /\ snd'.kept = snd.kept
      /\ snd'.phase = snd.phase /\ snd'.listed = snd.listed
  BY <1>2, Types DEF Writers
<1>4. \A k \in L : snd.dataAck <= k /\ k < snd.next
  BY <1>1, NumberFacts DEF Connected, SndInv
<1>5. SndInv'
  BY <1>3, <1>4 DEF Connected, SndInv
<1>6. QED
  BY <1>2, <1>3, <1>5, NumberFacts, SndStep

\* The writer has heard nothing for long.
LEMMA ConnTimeoutSnd ==
    ASSUME Connected, timeoutSnd
    PROVE  Connected'
<1> USE DEF timeoutSnd
<1>1. snd' = [snd EXCEPT !.broken = TRUE, !.waking = TRUE] /\ rcv' = rcv /\ net' \subseteq net
  BY DEF Without
<1>2. snd' \in Writers /\ snd'.next = snd.next /\ snd'.dataAck = snd.dataAck
  BY <1>1, Types DEF Writers
<1>3. SndInv'
  BY <1>1, NumberFacts DEF Connected, SndInv, Writers
<1>4. QED
  BY <1>1, <1>2, <1>3, NumberFacts, SndStep

\* close of the writing socket, before or after the linger time.
LEMMA ConnClose ==
    ASSUME Connected, close \/ lingerExpires
    PROVE  Connected'
<1>1. PICK d : d = Shutdown
  OBVIOUS
<1>2. rcv' = rcv /\ \A x \in net' : x \in net \/ x = d
  BY <1>1 DEF close, lingerExpires, Without, ToRcv
<1>3. d \in Messages /\ MsgInv(d)'
  BY <1>1 DEF Shutdown, Messages, MsgInv
<1>4. snd.phase = "open" /\ ~snd.kept /\ snd.picked = None
  BY DEF close, lingerExpires, Connected, SndInv
<1>5. PICK b \in BOOLEAN : /\ snd' = [snd EXCEPT !.phase = "closed", !.listed = FALSE, !.kept = b]
                           /\ b => snd.written = snd.dataAck
  <2>1. CASE close
    BY <2>1 DEF close
  <2>2. CASE lingerExpires
    <3>1. snd' = [snd EXCEPT !.phase = "closed", !.listed = FALSE]
      BY <2>2 DEF lingerExpires
    <3>2. snd' = [snd EXCEPT !.phase = "closed", !.listed = FALSE, !.kept = FALSE]
      BY <1>4, <3>1, Types DEF Writers
    <3>3. QED
      BY <3>2
  <2>3. QED
    BY <2>1, <2>2
<1>6. /\ snd' \in Writers /\ snd'.next = snd.next /\ snd'.dataAck = snd.dataAck
      /\ snd'.lastAck = snd.lastAck
      /\ snd'.loss = snd.loss /\ snd'.waking = snd.waking /\ snd'.written = snd.written
      /\ snd'.picked = snd.picked /\ snd'.out = snd.out /\ snd'.kept = b
      /\ snd'.phase = "closed"
  BY <1>5, Types DEF Writers
<1>7. SndInv'
  BY <1>4, <1>5, <1>6 DEF Connected, SndInv
<1>8. QED
  BY <1>2, <1>3, <1>6, <1>7, NumberFacts, SndStep

-----------------------------------------------------------------------------
(*****************************************************************************)
(* The reading program.                                                      *)
(*****************************************************************************)
\* recv takes out the piece whose number is the number of pieces read before,
\* and that is what it returns.
LEMMA RecvFacts ==
    ASSUME Connected, recv
    PROVE  \E n \in Nat, R \in Seq(Nat \cup {None}), U \in SUBSET (Nat \X (Nat \cup {None})) :
              /\ n = Len(rcv.read) /\ n < rcv.lastAck
              /\ R = Append(rcv.read, n) /\ U = {u \in rcv.units : u[1] # n}
              /\ rcv' = [rcv EXCEPT !.read = R, !.units = U]
              /\ snd' = snd /\ net' = net
<1>1. PICK n \in Nat, R \in Seq(Nat \cup {None}), U \in SUBSET (Nat \X (Nat \cup {None})) :
         /\ n = Len(rcv.read)
         /\ R = Append(rcv.read, n) /\ U = {u \in rcv.units : u[1] # n}
  <2>1. Len(rcv.read) \in Nat /\ Append(rcv.read, Len(rcv.read)) \in Seq(Nat \cup {None})
    BY NumberFacts, AppendProperties DEF Readers
  <2>2. {u \in rcv.units : u[1] # Len(rcv.read)} \in SUBSET (Nat \X (Nat \cup {None}))
    BY NumberFacts DEF Readers
  <2>3. QED
    BY <2>1, <2>2
<1>2. n < rcv.lastAck /\ snd' = snd /\ net' = net
  BY <1>1 DEF recv
<1>3. n \notin rcv.loss /\ n < rcv.next
  BY <1>1, <1>2, NumberFacts DEF Connected, RcvInv
<1>4. <<n, n>> \in rcv.units
  BY <1>1, <1>3 DEF Connected, RcvInv
<1> DEFINE here == {u \in rcv.units : u[1] = n}
           val == IF here = {} THEN Garbage ELSE (CHOOSE u \in here : TRUE)[2]
<1>5. here # {}
  BY <1>4
<1>6. (CHOOSE u \in here : TRUE) \in here
  BY <1>5
<1>7. \A u \in here : u[2] = n
  BY DEF Connected, RcvInv
<1>8. rcv' = [rcv EXCEPT !.read = Append(@, val), !.units = @ \ here]
  BY <1>1 DEF recv
<1>9. val = n
  BY <1>5, <1>6, <1>7
<1>10. rcv.units \ here = U
  BY <1>1
<1> HIDE DEF here, val
<1>11. rcv' = [rcv EXCEPT !.read = R, !.units = U]
  BY <1>1, <1>8, <1>9, <1>10
<1>12. QED
  BY <1>1, <1>2, <1>11

\* recv moves one piece from the buffer to the program.
LEMMA ConnRecv ==
    ASSUME Connected, recv
    PROVE  Connected'
<1>1. PICK n \in Nat, R \in Seq(Nat \cup {None}), U \in SUBSET (Nat \X (Nat \cup {None})) :
         /\ n = Len(rcv.read) /\ n < rcv.lastAck
         /\ R = Append(rcv.read, n) /\ U = {u \in rcv.units : u[1] # n}
         /\ rcv' = [rcv EXCEPT !.read = R, !.units = U]
         /\ snd' = snd /\ net' = net
  BY RecvFacts
<1>2. Len(R) = n + 1
  BY <1>1, NumberFacts, AppendProperties DEF Readers
<1>3. /\ rcv' \in Readers /\ rcv'.lastAck = rcv.lastAck /\ rcv'.next = rcv.next
      /\ rcv'.loss = rcv.loss
      /\ rcv'.units = U /\ rcv'.read = R /\ rcv'.ended = rcv.ended
      /\ rcv'.broken = rcv.broken
  BY <1>1, Types DEF Readers
<1>4. RcvInv'
  <2>1. Len(R) <= rcv.lastAck /\ ~rcv.ended
    BY <1>1, <1>2, NumberFacts DEF Connected, RcvInv
  <2>2. ASSUME NEW k \in Nat, Len(R) <= k, k < rcv.next
        PROVE  k \in rcv.loss \/ <<k, k>> \in U
    <3>1. k # n /\ Len(rcv.read) <= k
      BY <1>1, <1>2, <2>2
    <3>2. k \in rcv.loss \/ <<k, k>> \in rcv.units
      BY <2>2, <3>1 DEF Connected, RcvInv
    <3>3. QED
      BY <1>1, <3>1, <3>2
  <2>3. \A u \in U : u[2] = u[1]
    BY <1>1 DEF Connected, RcvInv
  <2>4. QED
    BY <1>3, <2>1, <2>2, <2>3 DEF Connected, RcvInv
<1>5. QED
  BY <1>1, <1>3, <1>4, NumberFacts, RcvStep

\* recv throws only when nothing is left to read.
LEMMA ConnRecvFails ==
    ASSUME Connected, recvFails
    PROVE  Connected'
<1>1. rcv' = [rcv EXCEPT !.ended = TRUE] /\ snd' = snd /\ net' = net
  BY DEF recvFails
<1>2. /\ rcv' \in Readers /\ rcv'.lastAck = rcv.lastAck /\ rcv'.next = rcv.next
      /\ rcv'.loss = rcv.loss
      /\ rcv'.units = rcv.units /\ rcv'.read = rcv.read /\ rcv'.ended = TRUE
      /\ rcv'.broken = rcv.broken
  BY <1>1, Types DEF Readers
<1>3. RcvInv'
  BY <1>2 DEF Connected, RcvInv, recvFails
<1>4. QED
  BY <1>1, <1>2, <1>3, NumberFacts, RcvStep

\* A lost message.
LEMMA ConnLose ==
    ASSUME Connected, Lose
    PROVE  Connected'
<1>1. snd' = snd /\ rcv' = rcv /\ \A m \in net' : m \in net
  BY DEF Lose
<1>2. RcvInv'
  BY <1>1 DEF Connected, RcvInv
<1>3. QED
  BY <1>1, <1>2, NumberFacts, RcvStep

\* No change.
LEMMA ConnStutter ==
    ASSUME Connected, UNCHANGED connvars
    PROVE  Connected'
BY DEF connvars, Connected, Typed, SndInv, RcvInv, NetInv, MsgInv, Agree

\* Every step keeps the invariant.
LEMMA ConnNext ==
    ASSUME Connected, [Next]_connvars
    PROVE  Connected'
<1>1. ASSUME NEW n \in Pieces, DeliverData(n) PROVE Connected'
  <2>1. n \in Nat
    BY DEF Pieces
  <2>2. QED
    BY <1>1, <2>1, ConnData
<1>2. QED
  BY <1>1, ConnSend, ConnUpdate, ConnPop, ConnPackLost, ConnPackNew, ConnTransmit, ConnSendAck,
     ConnSendLightAck, ConnAck, ConnLightAck, ConnNak, ConnAck2, ConnShutdown,
     ConnTimeoutRcv, ConnTimeoutSnd, ConnExpire, ConnClose, ConnRecv,
     ConnRecvFails, ConnLose, ConnStutter DEF Next, SendingWorker

-----------------------------------------------------------------------------
(*****************************************************************************)
(* Lost packets do not wait.                                                 *)
(*****************************************************************************)
\* A step that empties the place of a lost packet on the list, or adds one,
\* leaves a thread that puts the socket back: the case of packLost is where
\* picked < dataAck implies waking.
LEMMA ListedNext ==
    ASSUME Connected, LostAreListed, [Next]_connvars
    PROVE  LostAreListed'
<1> USE DEF LostAreListed, SndAlive
<1>1. CASE snd' = snd
  BY <1>1
<1>2. CASE send
  BY <1>2, Types DEF send, Writers
<1>3. CASE update
  BY <1>3, Types DEF update, Writers
<1>4. CASE pop
  <2>1. CASE ~SndAlive
    BY <1>4, <2>1, Types DEF pop, Writers
  <2>2. CASE SndAlive
    <3>1. snd.loss # {} /\ snd.loss \in SUBSET Nat
      BY <1>4, <2>2, Types DEF pop, Writers
    <3>2. PICK k \in Nat, L \in SUBSET Nat : L = snd.loss \ {k} /\ snd' = [snd EXCEPT !.picked = k, !.loss = L]
      BY <1>4, <2>2, <3>1, MinFacts DEF pop
    <3>3. snd'.picked = k
      BY <3>2, Types DEF Writers
    <3>4. QED
      BY <3>3, NumberFacts
  <2>3. QED
    BY <2>1, <2>2
<1>5. CASE packLost
  <2>1. snd.picked < snd.dataAck => snd.waking
    BY <1>5 DEF packLost, Connected, SndInv
  <2>2. snd'.waking = snd.waking /\ snd'.loss = snd.loss /\ snd'.phase = snd.phase
        /\ snd'.broken = snd.broken
    BY <1>5, Types DEF packLost, Writers
  <2>3. snd.picked < snd.dataAck \/ snd'.listed = snd.listed
    BY <1>5, Types DEF packLost, Writers
  <2>4. snd.listed
    BY <1>5 DEF packLost, Connected, SndInv
  <2>5. QED
    BY <2>1, <2>2, <2>3, <2>4
<1>6. CASE packNew
  <2>1. snd.loss = {}
    BY <1>6 DEF packNew
  <2>2. snd'.loss = snd.loss
    BY <1>6, Types DEF packNew, Writers
  <2>3. QED
    BY <2>1, <2>2
<1>7. CASE transmit
  BY <1>7, Types DEF transmit, Writers
<1>8. CASE DeliverAck
  <2>1. PICK n, w : snd' = [snd EXCEPT !.broken = TRUE] \/ snd' = Acked(n, w)
    BY <1>8 DEF DeliverAck, Deliver, processAck
  <2>2. QED
    BY <2>1, Types DEF Acked, Writers
<1>9. CASE DeliverLightAck
  BY <1>9, Types DEF DeliverLightAck, Deliver, processLightAck, Writers
<1>10. CASE DeliverNak
  BY <1>10, Types DEF DeliverNak, Deliver, processNak, Writers
<1>11. CASE expire \/ timeoutSnd
  BY <1>11, Types DEF expire, timeoutSnd, Writers
<1>12. CASE close \/ lingerExpires
  BY <1>12, Types DEF close, lingerExpires, Writers
<1>13. ASSUME NEW n \in Pieces, DeliverData(n) PROVE snd' = snd
  BY <1>13 DEF DeliverData, Deliver, processData
<1>14. DeliverAck2 \/ DeliverShutdown => snd' = snd
  BY DEF DeliverAck2, DeliverShutdown, Deliver, processAck2, processShutdown
<1>15. sendAck \/ sendLightAck \/ timeoutRcv \/ recv \/ recvFails \/ Lose => snd' = snd
  BY DEF sendAck, sendLightAck, timeoutRcv, recv, recvFails, Lose
<1>16. UNCHANGED connvars => snd' = snd
  BY DEF connvars
<1>17. QED
  BY <1>1, <1>2, <1>3, <1>4, <1>5, <1>6, <1>7, <1>8, <1>9, <1>10, <1>11, <1>12, <1>13,
     <1>14, <1>15, <1>16 DEF Next, SendingWorker

\* send is Write, recv is Read, recvFails is End, close is Keep or Cut; a step
\* that breaks a socket is Cut if it is the first, and every other step leaves
\* the stream alone.
LEMMA StreamStep ==
    ASSUME Connected, [Next]_connvars
    PROVE  [Stream!Next]_Stream!streamvars
<1> USE DEF Mode, Stream!streamvars
<1>1. CASE send
  <2>1. snd'.written = snd.written + 1 /\ snd'.kept = snd.kept /\ snd'.broken = snd.broken
        /\ snd'.phase = snd.phase /\ rcv' = rcv
    BY <1>1, Types DEF send, Writers
  <2>2. ~snd.kept
    BY <1>1 DEF send, Connected, SndInv
  <2>3. Mode # "kept" /\ Mode' = Mode
    BY <2>1, <2>2
  <2>4. Stream!Write
    BY <2>1, <2>3 DEF Stream!Write
  <2>5. QED
    BY <2>4 DEF Stream!Next
<1>2. CASE recv
  <2>1. PICK n \in Nat, R \in Seq(Nat \cup {None}), U \in SUBSET (Nat \X (Nat \cup {None})) :
           /\ n = Len(rcv.read) /\ n < rcv.lastAck
           /\ R = Append(rcv.read, n)
           /\ rcv' = [rcv EXCEPT !.read = R, !.units = U]
           /\ snd' = snd
    BY <1>2, RecvFacts
  <2>2. rcv'.read = R /\ rcv'.ended = rcv.ended /\ rcv'.broken = rcv.broken
    BY <2>1, Types DEF Readers
  <2>3. ~rcv.ended
    BY <2>1 DEF Connected, RcvInv
  <2>4. Len(rcv.read) < snd.written
    BY <2>1, NumberFacts
  <2>5. Stream!Read
    BY <2>1, <2>2, <2>3, <2>4 DEF Stream!Read
  <2>6. QED
    BY <2>5 DEF Stream!Next
<1>3. CASE recvFails
  <2>1. rcv' = [rcv EXCEPT !.ended = TRUE] /\ snd' = snd /\ rcv.broken /\ ~rcv.ended
        /\ Len(rcv.read) = rcv.lastAck
    BY <1>3 DEF recvFails
  <2>2. rcv'.read = rcv.read /\ rcv'.ended = TRUE /\ rcv'.broken = rcv.broken
    BY <2>1, Types DEF Readers
  <2>3. snd.kept => Len(rcv.read) = snd.written
    BY <2>1, NumberFacts DEF Connected, SndInv
  <2>4. Stream!End
    BY <2>1, <2>2, <2>3 DEF Stream!End
  <2>5. QED
    BY <2>4 DEF Stream!Next
<1>4. CASE close \/ lingerExpires
  <2>1. rcv' = rcv /\ snd.phase = "open" /\ ~snd.kept
    BY <1>4 DEF close, lingerExpires, Connected, SndInv
  <2>2. snd'.phase = "closed" /\ snd'.broken = snd.broken /\ snd'.written = snd.written
        /\ snd'.kept \in BOOLEAN
        /\ (snd'.kept => snd.written = snd.dataAck)
    BY <1>4, <2>1, Types DEF close, lingerExpires, Writers
  <2>3. rcv.ended /\ snd'.kept => Len(rcv.read) = snd.written
    BY <2>2, NumberFacts DEF Connected, RcvInv
  <2>4. CASE snd'.kept
    <3>1. Mode # "kept" /\ Mode' = "kept"
      BY <2>1, <2>4
    <3>2. Stream!Keep
      BY <2>1, <2>2, <2>3, <2>4, <3>1 DEF Stream!Keep
    <3>3. QED
      BY <3>2 DEF Stream!Next
  <2>5. CASE ~snd'.kept
    <3>1. Mode' = "cut" /\ Mode \in {"open", "cut"}
      BY <2>1, <2>2, <2>5
    <3>2. Mode = "open" => Stream!Cut
      BY <2>1, <2>2, <3>1 DEF Stream!Cut
    <3>3. QED
      BY <2>1, <2>2, <3>1, <3>2 DEF Stream!Next
  <2>6. QED
    BY <2>4, <2>5
<1>5. ASSUME /\ snd'.written = snd.written /\ snd'.kept = snd.kept /\ snd'.phase = snd.phase
             /\ rcv'.read = rcv.read /\ rcv'.ended = rcv.ended
             /\ snd.broken => snd'.broken
             /\ rcv.broken => rcv'.broken
      PROVE  [Stream!Next]_Stream!streamvars
  <2>1. Mode' = Mode \/ (Mode = "open" /\ Mode' = "cut")
    BY <1>5
  <2>2. Mode = "open" /\ Mode' = "cut" => Stream!Cut
    BY <1>5 DEF Stream!Cut
  <2>3. QED
    BY <1>5, <2>1, <2>2 DEF Stream!Next
<1> HIDE DEF Mode, Stream!streamvars
<1>6. ASSUME rcv' = rcv,
             \/ update \/ pop \/ packLost \/ packNew \/ transmit
             \/ DeliverLightAck \/ DeliverNak
             \/ expire \/ timeoutSnd
      PROVE  [Stream!Next]_Stream!streamvars
  <2>1. /\ snd'.written = snd.written /\ snd'.kept = snd.kept /\ snd'.phase = snd.phase
        /\ snd.broken => snd'.broken
    BY <1>6, Types DEF update, pop, packLost, packNew, transmit, DeliverLightAck, DeliverNak,
         Deliver, processLightAck, processNak, expire, timeoutSnd, Writers
  <2>2. QED
    BY <1>5, <1>6, <2>1
<1>7. CASE DeliverAck
  <2>1. rcv' = rcv
    BY <1>7 DEF DeliverAck, Deliver, processAck
  <2>2. PICK n, w : snd' = [snd EXCEPT !.broken = TRUE] \/ snd' = Acked(n, w)
    BY <1>7 DEF DeliverAck, Deliver, processAck
  <2>3. /\ snd'.written = snd.written /\ snd'.kept = snd.kept /\ snd'.phase = snd.phase
        /\ snd.broken => snd'.broken
    BY <2>2, Types DEF Acked, Writers
  <2>4. QED
    BY <1>5, <2>1, <2>3
<1>8. ASSUME snd' = snd,
             \/ sendAck \/ sendLightAck \/ timeoutRcv \/ Lose \/ DeliverAck2 \/ DeliverShutdown
             \/ \E n \in Pieces : DeliverData(n)
             \/ UNCHANGED connvars
      PROVE  [Stream!Next]_Stream!streamvars
  <2>1. rcv'.read = rcv.read /\ rcv'.ended = rcv.ended /\ (rcv.broken => rcv'.broken)
    BY <1>8, Types DEF sendAck, sendLightAck, timeoutRcv, Lose, DeliverAck2, DeliverShutdown,
         DeliverData, Deliver, processAck2, processShutdown, processData, connvars, Readers
  <2>2. QED
    BY <1>5, <1>8, <2>1
<1>9. /\ update \/ pop \/ packLost \/ packNew \/ transmit \/ expire \/ timeoutSnd
           \/ DeliverLightAck \/ DeliverNak => rcv' = rcv
      /\ sendAck \/ sendLightAck \/ timeoutRcv \/ Lose \/ DeliverAck2 \/ DeliverShutdown
           \/ (\E n \in Pieces : DeliverData(n)) \/ UNCHANGED connvars => snd' = snd
  BY DEF update, pop, packLost, packNew, transmit, expire, timeoutSnd, DeliverLightAck,
       DeliverNak, Deliver, processLightAck, processNak, sendAck, sendLightAck, timeoutRcv,
       Lose, DeliverAck2, DeliverShutdown, processAck2, processShutdown, DeliverData,
       processData, connvars
<1>10. QED
  BY <1>1, <1>2, <1>3, <1>4, <1>6, <1>7, <1>8, <1>9 DEF Next, SendingWorker

-----------------------------------------------------------------------------
(*****************************************************************************)
(* The refinement of ByteStream.                                             *)
(*****************************************************************************)
\* The connection starts as the stream does.
LEMMA StreamInit ==
    ASSUME Init
    PROVE  Stream!Init
BY DEF Init, SndInit, RcvInit, Stream!Init, Mode

-----------------------------------------------------------------------------
(*****************************************************************************)
(* The theorems.                                                             *)
(*****************************************************************************)
\* Lost packets do not wait for a timer: a live socket with something on its
\* loss list (CSndLossList) is on the sending queue's list, is being packed, or
\* a thread waits to put it there; and the invariant this rests on.
THEOREM ConnectionInvariants == Spec => [](Connected /\ LostAreListed)
<1>1. Init => Connected /\ LostAreListed
  <2>1. Init => snd.loss = {}
    BY DEF Init, SndInit
  <2>2. QED
    BY <2>1, ConnInit DEF LostAreListed
<1>2. (Connected /\ LostAreListed) /\ [Next]_connvars => (Connected /\ LostAreListed)'
  BY ConnNext, ListedNext
<1>3. QED
  BY <1>1, <1>2, PTL DEF Spec

\* The connection implements the byte stream: recv returns what send was given,
\* in order, with nothing missing, doubled or taken from a block of the send
\* buffer used again, and fails only once the connection is cut or everything
\* has been read.
THEOREM StreamKept == Spec => ImplementsStream
<1>1. Init => Stream!Init
  BY StreamInit
<1>2. Connected /\ [Next]_connvars => [Stream!Next]_Stream!streamvars
  BY StreamStep
<1>3. Spec => []Connected
  BY ConnectionInvariants, PTL
<1>4. QED
  BY <1>1, <1>2, <1>3, PTL DEF Spec, ImplementsStream, Stream!Spec
=============================================================================
