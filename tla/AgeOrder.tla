------------------------------ MODULE AgeOrder ------------------------------
(***************************************************************************)
(* What the LRU and LFU queues promise: the cached files stand in one line *)
(* ordered by use count, files of equal count by their last use, and the   *)
(* file in front is evicted.  LRU is the case where every count is equal.  *)
(***************************************************************************)
EXTENDS Naturals, Sequences, SequencesExt

CONSTANTS
    File,
    None

VARIABLES
    counts,     \* the policy: TRUE when a use adds one to the file's count
    line,       \* <<[file |-> f, uses |-> n], ...>> from the next victim on
    out         \* the file evicted last

ovars == <<counts, line, out>>

Positions(f) == {i \in DOMAIN line : line[i].file = f}
Position(f) == CHOOSE i \in Positions(f) : TRUE

Without(f) == IF Positions(f) = {} THEN line ELSE RemoveAt(line, Position(f))
Uses(f) == IF ~counts THEN 0
           ELSE IF Positions(f) = {} THEN 1 ELSE line[Position(f)].uses + 1

OInit == counts \in BOOLEAN /\ line = <<>> /\ out = None

\* A used file joins behind every file that is used at most as often.
Use(f) ==
    /\ \E k \in 1..(Len(Without(f)) + 1) :
          /\ \A i \in DOMAIN Without(f) : Without(f)[i].uses <= Uses(f) <=> i < k
          /\ line' = InsertAt(Without(f), k, [file |-> f, uses |-> Uses(f)])
    /\ UNCHANGED <<counts, out>>

Leave(f) == line' = Without(f) /\ UNCHANGED <<counts, out>>

EvictFront ==
    /\ line # <<>>
    /\ out' = Head(line).file
    /\ line' = Tail(line)
    /\ UNCHANGED counts

\* The line is kept in memory only.
Restart == line' = <<>> /\ out' = None /\ UNCHANGED counts

ONext == EvictFront \/ Restart \/ \E f \in File : Use(f) \/ Leave(f)

OSpec == OInit /\ [][ONext]_ovars
=============================================================================
