---------------------------- MODULE SecondChance ----------------------------
(***************************************************************************)
(* What the clock queue promises: second-chance replacement.  The cached   *)
(* files stand in one line that starts at the hand.  A new file joins at   *)
(* the end with its bit set; a hit sets the bit; eviction takes the file   *)
(* in front if its bit is clear (or if it is alone) and otherwise clears   *)
(* the bit and sends the file to the end.                                  *)
(***************************************************************************)
EXTENDS Naturals, Sequences, SequencesExt

CONSTANTS File, None

VARIABLES
    line,       \* <<[file |-> f, bit |-> b], ...>> from the hand on
    evicting,   \* an eviction is under way
    out         \* the file evicted last

avars == <<line, evicting, out>>

Present == {line[i].file : i \in DOMAIN line}

AInit == line = <<>> /\ evicting = FALSE /\ out = None

Enter(f) ==
    /\ ~evicting
    /\ f \notin Present
    /\ line' = Append(line, [file |-> f, bit |-> 1])
    /\ UNCHANGED <<evicting, out>>

Touch(f) ==
    /\ ~evicting
    /\ f \in Present
    /\ line' = [i \in DOMAIN line |->
                   IF line[i].file = f THEN [line[i] EXCEPT !.bit = 1]
                                       ELSE line[i]]
    /\ UNCHANGED <<evicting, out>>

Leave(f) ==
    /\ ~evicting
    /\ \E i \in DOMAIN line : line[i].file = f /\ line' = RemoveAt(line, i)
    /\ UNCHANGED <<evicting, out>>

EvictOnly ==
    /\ ~evicting
    /\ Len(line) = 1
    /\ out' = line[1].file
    /\ line' = <<>>
    /\ UNCHANGED evicting

StartEvict ==
    /\ ~evicting
    /\ Len(line) > 1
    /\ evicting' = TRUE
    /\ UNCHANGED <<line, out>>

SecondLook ==
    /\ evicting
    /\ Head(line).bit = 1
    /\ line' = Append(Tail(line), [Head(line) EXCEPT !.bit = 0])
    /\ UNCHANGED <<evicting, out>>

Evict ==
    /\ evicting
    /\ Head(line).bit = 0
    /\ out' = Head(line).file
    /\ line' = Tail(line)
    /\ evicting' = FALSE

ANext ==
    \/ \E f \in File : Enter(f) \/ Touch(f) \/ Leave(f)
    \/ EvictOnly \/ StartEvict \/ SecondLook \/ Evict

ASafety == AInit /\ [][ANext]_avars
ASpec == ASafety /\ WF_avars(SecondLook \/ Evict)
=============================================================================
