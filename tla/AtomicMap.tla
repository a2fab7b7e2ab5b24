----------------------------- MODULE AtomicMap ------------------------------
(***************************************************************************)
(* What ZHT promises its callers: one map.  A call of insert, lookup or    *)
(* remove takes effect at one moment between its start and its return, and *)
(* returns what it found at that moment.  The entries of a member that     *)
(* fails are lost, and only a call on a key of such a member may return    *)
(* something else.                                                         *)
(***************************************************************************)
EXTENDS Integers

CONSTANTS Client, Key, Value, NoValue, NoCall, Member, MemberOf

VARIABLES
    map,        \* [Key -> Value \cup {NoValue}]
    pending,    \* the call a client is in, or NoCall
    found,      \* what its call found, NoCall before it takes effect
    returned,   \* what the last call of each client returned
    failed      \* the members that have failed at some time

mvars == <<map, pending, found, returned, failed>>

Answer(status, v) == [status |-> status, val |-> v]

MInit ==
    /\ map = [k \in Key |-> NoValue]
    /\ pending = [c \in Client |-> NoCall]
    /\ found = [c \in Client |-> NoCall]
    /\ returned = [c \in Client |-> NoCall]
    /\ failed = {}

Invoke(c) ==
    /\ pending[c] = NoCall
    /\ \E op \in {"insert", "lookup", "remove"}, k \in Key, v \in Value \cup {NoValue} :
          pending' = [pending EXCEPT ![c] = [op |-> op, key |-> k, val |-> v]]
    /\ UNCHANGED <<map, found, returned, failed>>

TakeEffect(c) ==
    /\ pending[c] # NoCall
    /\ found[c] = NoCall
    /\ LET k == pending[c].key
           missing == IF map[k] = NoValue THEN -2 ELSE 0
       IN \/ /\ pending[c].op = "lookup"
             /\ found' = [found EXCEPT ![c] = Answer(missing, map[k])]
             /\ UNCHANGED map
          \/ /\ pending[c].op = "insert"
             /\ found' = [found EXCEPT ![c] = Answer(0, NoValue)]
             /\ map' = [map EXCEPT ![k] = pending[c].val]
          \/ /\ pending[c].op = "remove"
             /\ found' = [found EXCEPT ![c] = Answer(missing, NoValue)]
             /\ map' = [map EXCEPT ![k] = NoValue]
    /\ UNCHANGED <<pending, returned, failed>>

Return(c) ==
    /\ pending[c] # NoCall
    /\ \/ found[c] # NoCall /\ returned' = [returned EXCEPT ![c] = found[c]]
       \/ /\ MemberOf[pending[c].key] \in failed
          /\ \A d \in Client \ {c} : returned'[d] = returned[d]
    /\ pending' = [pending EXCEPT ![c] = NoCall]
    /\ found' = [found EXCEPT ![c] = NoCall]
    /\ UNCHANGED <<map, failed>>

Fail(h) ==
    /\ failed' = failed \cup {h}
    /\ map' = [k \in Key |-> IF MemberOf[k] = h THEN NoValue ELSE map[k]]
    /\ UNCHANGED <<pending, found, returned>>

MNext ==
    \/ \E c \in Client : Invoke(c) \/ TakeEffect(c) \/ Return(c)
    \/ \E h \in Member : Fail(h)

MSpec == MInit /\ [][MNext]_mvars
=============================================================================
