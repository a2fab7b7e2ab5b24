---------------------------- MODULE SendSchedule -----------------------------
(***************************************************************************)
(* The schedule of the sending queue of a multiplexer (CSndUList and the   *)
(* worker of CSndQueue, queue.cpp; sleepto and interrupt of CTimer,        *)
(* common.cpp): a heap of the sockets that have something to send, by the  *)
(* time of their next packet. The worker takes the first when it is due,   *)
(* sleeps until then, or waits on a condition when there is none. The      *)
(* threads of the sockets reschedule and remove; a call holds m_ListLock   *)
(* from its beginning to its end. Its passes over the heap are steps, for  *)
(* the worker looks at m_iLastEntry under m_WindowLock alone.              *)
(*                                                                         *)
(* The heap is a sequence that starts at 1 and m_iHeapLoc is 0 for a       *)
(* socket that is not on it.                                               *)
(***************************************************************************)
EXTENDS Naturals, Sequences

CONSTANTS Senders,  \* the sockets
          MaxTime   \* bound on the time

VARIABLES heap,     \* m_pHeap up to m_iLastEntry
          ts,       \* m_llTimeStamp
          loc,      \* m_iHeapLoc
          call,     \* what the holder of m_ListLock does next
          worker,   \* where the worker is
          until,    \* m_ullSchedTime
          now       \* rdtsc

schedulevars == <<heap, ts, loc, call, worker, until, now>>

\* u is to be inserted at time t, or removed and inserted again at time t
\* unless t is 0; or the socket at q rises or sinks.
Unlocked == [at |-> "unlocked"]
Inserts(u, t) == [at |-> "insert", u |-> u, t |-> t]
Removes(u, t) == [at |-> "remove", u |-> u, t |-> t]
Rises(u, q) == [at |-> "rise", u |-> u, q |-> q]
Sinks(u, q, t) == [at |-> "sink", u |-> u, q |-> q, t |-> t]
Signals == [at |-> "signal"]

Worker(w) == [at |-> w, ts |-> 0]

ScheduleInit ==
    /\ heap = <<>> /\ call = Unlocked /\ now = 1 /\ until = 0
    /\ ts = [s \in Senders |-> 0] /\ loc = [s \in Senders |-> 0]
    /\ worker = Worker("next")

\* CTimer::interrupt: who sleeps wakes up, if it sleeps already.
interrupt(b) == until' = IF b THEN now ELSE until
-----------------------------------------------------------------------------
Earlier(p, q) == ts[heap[p]] < ts[heap[q]]
Swapped(p, q) == [heap EXCEPT ![p] = heap[q], ![q] = heap[p]]

insert_ ==
    /\ call.at = "insert"
    /\ LET u == call.u
       IN IF loc[u] # 0 THEN call' = Unlocked /\ UNCHANGED <<heap, ts>>
          ELSE /\ heap' = Append(heap, u)
               /\ ts' = [ts EXCEPT ![u] = call.t]
               /\ call' = Rises(u, Len(heap) + 1)
    /\ UNCHANGED <<loc, worker, until, now>>

\* A pass towards the first: the location of the one that moves down is set, its
\* own when u has arrived. The first on the heap activates the worker.
rise ==
    /\ call.at = "rise"
    /\ LET u == call.u
           q == call.q
           p == q \div 2
       IN IF q > 1 /\ Earlier(q, p)
          THEN /\ heap' = Swapped(p, q)
               /\ loc' = [loc EXCEPT ![heap[p]] = q]
               /\ call' = Rises(u, p)
               /\ UNCHANGED until
          ELSE /\ loc' = [loc EXCEPT ![u] = q]
               /\ interrupt(q = 1)
               /\ call' = IF Len(heap) = 1 THEN Signals ELSE Unlocked
               /\ UNCHANGED heap
    /\ UNCHANGED <<ts, worker, now>>

\* The signal reaches the worker only where it waits.
signal ==
    /\ call.at = "signal"
    /\ call' = Unlocked
    /\ worker' = IF worker.at = "waiting" THEN Worker("next") ELSE worker
    /\ UNCHANGED <<heap, ts, loc, until, now>>

\* The end of remove_: update and pop go on to insert_.
Removed(u, t) ==
    /\ interrupt(Len(heap) = 1)
    /\ call' = IF t = 0 THEN Unlocked ELSE Inserts(u, t)

\* Mutant: the one that moved keeps its old location.
remove_Unplaced ==
    /\ call.at = "remove"
    /\ LET u == call.u
           n == Len(heap)
       IN IF loc[u] = 0 THEN Removed(u, call.t) /\ UNCHANGED heap
          ELSE /\ heap' = SubSeq([heap EXCEPT ![loc[u]] = heap[n]], 1, n - 1)
               /\ call' = Sinks(u, loc[u], call.t)
               /\ UNCHANGED until
    /\ UNCHANGED <<ts, loc, worker, now>>

\* The last one takes the place of the one that goes and moves down, never up.
remove_ ==
    /\ call.at = "remove"
    /\ LET u == call.u
           n == Len(heap)
       IN IF loc[u] = 0 THEN Removed(u, call.t) /\ UNCHANGED <<heap, loc>>
          ELSE /\ heap' = SubSeq([heap EXCEPT ![loc[u]] = heap[n]], 1, n - 1)
               /\ loc' = [loc EXCEPT ![heap[n]] = loc[u]]
               /\ call' = Sinks(u, loc[u], call.t)
               /\ UNCHANGED until
    /\ UNCHANGED <<ts, worker, now>>

\* A pass away from the first, past the earlier one of the two below.
sink ==
    /\ call.at = "sink"
    /\ LET u == call.u
           q == call.q
           n == Len(heap)
           p == IF 2 * q + 1 <= n /\ Earlier(2 * q + 1, 2 * q) THEN 2 * q + 1 ELSE 2 * q
       IN IF 2 * q <= n /\ Earlier(p, q)
          THEN /\ heap' = Swapped(p, q)
               /\ loc' = [loc EXCEPT ![heap[q]] = p, ![heap[p]] = q]
               /\ call' = Sinks(u, p, call.t)
               /\ UNCHANGED until
          ELSE /\ loc' = [loc EXCEPT ![u] = 0]
               /\ Removed(u, call.t)
               /\ UNCHANGED heap
    /\ UNCHANGED <<ts, worker, now>>
-----------------------------------------------------------------------------
\* The threads of the sockets.
update(u, reschedule) ==
    /\ call = Unlocked
    /\ IF loc[u] = 1 /\ reschedule
       THEN ts' = [ts EXCEPT ![u] = 1] /\ interrupt(TRUE) /\ UNCHANGED call
       ELSE /\ call' = IF loc[u] = 0 THEN Inserts(u, 1)
                       ELSE IF reschedule THEN Removes(u, 1) ELSE Unlocked
            /\ UNCHANGED <<ts, until>>
    /\ UNCHANGED <<heap, loc, worker, now>>

remove(u) ==
    /\ call = Unlocked
    /\ call' = Removes(u, 0)
    /\ UNCHANGED <<heap, ts, loc, worker, until, now>>
-----------------------------------------------------------------------------
\* The worker.
getNextProcTime ==
    /\ worker.at = "next" /\ call = Unlocked
    /\ worker' = IF heap = <<>> THEN Worker("empty")
                 ELSE IF now < ts[heap[1]] THEN [at |-> "sleepto", ts |-> ts[heap[1]]]
                 ELSE Worker("pop")
    /\ UNCHANGED <<heap, ts, loc, call, until, now>>

\* sleepto sets the time it is interrupted by: an interrupt before that is lost.
sleepto ==
    /\ worker.at = "sleepto"
    /\ until' = worker.ts
    /\ worker' = Worker("asleep")
    /\ UNCHANGED <<heap, ts, loc, call, now>>

wake ==
    /\ worker.at = "asleep" /\ now >= until
    /\ worker' = Worker("pop")
    /\ UNCHANGED <<heap, ts, loc, call, until, now>>

\* Nothing is due; or the socket has nothing to send; or it sends and says when
\* it will again. The worker goes on when the call is over.
pop ==
    /\ worker.at = "pop" /\ call = Unlocked
    /\ IF heap = <<>> \/ now < ts[heap[1]] THEN UNCHANGED call
       ELSE \E t \in {0} \cup now..MaxTime : call' = Removes(heap[1], t)
    /\ worker' = Worker("next")
    /\ UNCHANGED <<heap, ts, loc, until, now>>

\* Mutant: waits for what getNextProcTime said.
waits_Unchecked ==
    /\ worker.at = "empty"
    /\ worker' = Worker("waiting")
    /\ UNCHANGED <<heap, ts, loc, call, until, now>>

\* The list is looked at again under m_WindowLock.
waits ==
    /\ worker.at = "empty"
    /\ worker' = IF heap = <<>> THEN Worker("waiting") ELSE Worker("next")
    /\ UNCHANGED <<heap, ts, loc, call, until, now>>

Tick ==
    /\ now < MaxTime
    /\ now' = now + 1
    /\ UNCHANGED <<heap, ts, loc, call, worker, until>>

ScheduleNext ==
    \/ \E u \in Senders :
          \/ \E reschedule \in BOOLEAN : update(u, reschedule)
          \/ remove(u)
    \/ insert_ \/ rise \/ signal \/ remove_ \/ sink
    \/ getNextProcTime \/ sleepto \/ wake \/ pop \/ waits \/ Tick

ScheduleSpec == ScheduleInit /\ [][ScheduleNext]_schedulevars
-----------------------------------------------------------------------------
\* Between calls the heap and the locations in it agree, whatever order sockets
\* come, move and go in, so that a socket is on it once and can be taken off; and
\* the worker that waits is woken: it waits only while there is no socket on the
\* heap, or whoever puts it there has yet to signal.
WorkerAwake ==
    /\ call = Unlocked =>
          /\ \A u \in Senders : loc[u] # 0 => loc[u] \in DOMAIN heap /\ heap[loc[u]] = u
          /\ \A i \in DOMAIN heap : loc[heap[i]] = i
    /\ worker.at = "waiting" => heap = <<>> \/ call.at \in {"rise", "signal"}
=============================================================================
