-------------------------- MODULE MCUdtConnection ---------------------------
(***************************************************************************)
(* UdtConnection with a reader that has room for one piece, on a network   *)
(* that only reorders, and with one that has room for two, on a network    *)
(* that also loses or doubles one message and with light acknowledgements. *)
(***************************************************************************)
EXTENDS UdtConnection

MCBounds ==
    [size \in Sizes |->
        IF size = 1 THEN [pieces |-> 2, faults |-> 0, flight |-> 0]
                    ELSE [pieces |-> 2, faults |-> 1, flight |-> 1]]
=============================================================================
