----------------------------- MODULE ByteStream ------------------------------
(***************************************************************************)
(* What a connection promises the two programs at its ends: the reader     *)
(* gets what the writer has written, in order, with nothing missing,       *)
(* doubled or altered. The stream ends early only when the connection is   *)
(* cut; once close has returned to the writer with everything              *)
(* acknowledged, it cannot end early any more.                             *)
(***************************************************************************)
EXTENDS Naturals, Sequences

VARIABLES sent,      \* how many pieces the writer has written
          received,  \* the pieces the reader has got
          mode,      \* "open", "cut" or "kept"
          ended      \* the reader has been told there is nothing more

streamvars == <<sent, received, mode, ended>>

Init == sent = 0 /\ received = <<>> /\ mode = "open" /\ ended = FALSE

Write ==
    /\ mode # "kept"
    /\ sent' = sent + 1
    /\ UNCHANGED <<received, mode, ended>>

Read ==
    /\ ~ended
    /\ Len(received) < sent
    /\ received' = Append(received, Len(received))
    /\ UNCHANGED <<sent, mode, ended>>

Cut ==
    /\ mode = "open"
    /\ mode' = "cut"
    /\ UNCHANGED <<sent, received, ended>>

Keep ==
    /\ mode # "kept"
    /\ ended => Len(received) = sent
    /\ mode' = "kept"
    /\ UNCHANGED <<sent, received, ended>>

End ==
    /\ ~ended
    /\ mode # "open"
    /\ mode = "kept" => Len(received) = sent
    /\ ended' = TRUE
    /\ UNCHANGED <<sent, received, mode>>

Next == Write \/ Read \/ Cut \/ Keep \/ End

Spec == Init /\ [][Next]_streamvars
=============================================================================
