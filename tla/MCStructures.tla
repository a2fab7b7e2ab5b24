----------------------------- MODULE MCStructures -----------------------------
(***************************************************************************)
(* The lists, the heap and the buffers, each on its own: a behaviour is of *)
(* one of them, which mode says, and the others stay in one initial state. *)
(*                                                                         *)
(* The replacement queue of params.h in each of its modes on three files:  *)
(* ClockQueue with every position of the hand and of the bits, or          *)
(* AgedQueue as LRU or LFU queue.  A re-insertion into these allocates the *)
(* new cell before it frees the old one: there is one cell more.           *)
(* LocalFiles, the names of the queue on the disks, with room for two of   *)
(* four files on the SSD.                                                  *)
(*                                                                         *)
(* Of UDT the loss lists with 16 numbers, that wrap after three; the       *)
(* buffers with packets of two bytes and messages of one or two packets;   *)
(* the heap of the sending queue with three sockets.                       *)
(***************************************************************************)
EXTENDS ClockQueue, AgedQueue, LocalFiles, UdtBuffers, SendSchedule, TLC

CONSTANTS f1, f2, f3, c1, c2, c3, c4

MCFiles == {f1, f2, f3}
MCCells == {c1, c2, c3, c4}

VARIABLES mode,
          sndlist, sndLastAck, sndLastDataAck, sndCurrSeqNo, lost,
          rcvlist, rcvLastAck, rcvCurrSeqNo, missing, kept, found

SndList == INSTANCE SndLossList
    WITH list <- sndlist, m_iSndLastAck <- sndLastAck,
         m_iSndLastDataAck <- sndLastDataAck, m_iSndCurrSeqNo <- sndCurrSeqNo,
         m_iMaxSeqNo <- 15, m_iSeqNoTH <- 7, FlowWindow <- 3, ISN <- 13,
         MaxSends <- 6

RcvList == INSTANCE RcvLossList
    WITH list <- rcvlist, m_iRcvLastAck <- rcvLastAck,
         m_iRcvCurrSeqNo <- rcvCurrSeqNo, m_iMaxSeqNo <- 15, m_iSeqNoTH <- 7,
         m_iSize <- 5, Buffer <- 5, ISN <- 12, MaxArrivals <- 9

sndlistVars == <<sndlist, sndLastAck, sndLastDataAck, sndCurrSeqNo, lost>>
rcvlistVars == <<rcvlist, rcvLastAck, rcvCurrSeqNo, missing, kept, found>>
udtVars == <<sndlistVars, rcvlistVars, buffervars, schedulevars>>

MCInit ==
    /\ mode \in {"Clock", "Aged", "Local", "SndList", "RcvList", "Buffers", "Schedule"}
    /\ Init
    /\ AgedInit /\ (mode # "Aged" => ~lfu)
    /\ LocalInit
    /\ SndList!Init
    /\ RcvList!Init
    /\ BuffersInit /\ (mode # "Buffers" => streaming)
    /\ ScheduleInit

MCNext ==
    \/ mode = "Clock" /\ Next /\ UNCHANGED <<mode, agedvars, localvars, udtVars>>
    \/ mode = "Aged" /\ AgedNext /\ UNCHANGED <<mode, vars, localvars, udtVars>>
    \/ mode = "Local" /\ LocalNext /\ UNCHANGED <<mode, vars, agedvars, udtVars>>
    \/ /\ mode = "SndList" /\ SndList!Next
       /\ UNCHANGED <<mode, vars, agedvars, localvars,
                      rcvlistVars, buffervars, schedulevars>>
    \/ /\ mode = "RcvList" /\ RcvList!Next
       /\ UNCHANGED <<mode, vars, agedvars, localvars,
                      sndlistVars, buffervars, schedulevars>>
    \/ /\ mode = "Buffers" /\ BuffersNext
       /\ UNCHANGED <<mode, vars, agedvars, localvars,
                      sndlistVars, rcvlistVars, schedulevars>>
    \/ /\ mode = "Schedule" /\ ScheduleNext
       /\ UNCHANGED <<mode, vars, agedvars, localvars,
                      sndlistVars, rcvlistVars, buffervars>>

MCSpec == MCInit /\ [][MCNext]_<<mode, vars, agedvars, localvars, udtVars>> /\ Fairness

\* The sender's loss list holds the numbers that were reported and not yet
\* sent again or acknowledged, each once and in order.
SndLossExact == SndList!SndLossExact

\* The receiver's loss list holds, in order, the numbers that were skipped
\* and have neither come nor been dropped, and besides them at most the
\* largest number, which a drop request on both sides of it leaves there.
RcvLossExact == RcvList!RcvLossExact
=============================================================================
