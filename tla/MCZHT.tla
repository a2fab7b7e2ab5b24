------------------------------- MODULE MCZHT --------------------------------
(***************************************************************************)
(* ZHT with two mounts, a member for each of the two keys they use and the *)
(* replica, and apart from it one NoVoHT table, in which the three keys    *)
(* collide, part and wrap around.                                          *)
(***************************************************************************)
EXTENDS ZHT, NoVoHT, TLC

CONSTANTS m1, m2, h1, h2, r, k1, k2, k3, v1, v2

MCOwner == k1 :> h1 @@ k2 :> h2 @@ k3 :> h1
MCWorkload ==
    {<<m1, "insert", k1, v1>>, <<m1, "remove", k2, NoValue>>, <<m2, "lookup", k1, NoValue>>}
MCMaxCalls == m1 :> 2 @@ m2 :> 1
MCHash == k1 :> 0 @@ k2 :> 2 @@ k3 :> 3

VARIABLE world

MCInit ==
    /\ world \in {"service", "table"}
    /\ Init /\ TableInit
    /\ world = "service" => ~persistent    \* the file name of main is ""

MCNext ==
    \/ world = "service" /\ Next /\ UNCHANGED <<world, htvars>>
    \/ world = "table" /\ TableNext /\ UNCHANGED <<world, zhtvars>>

MCSpec == MCInit /\ [][MCNext]_<<world, zhtvars, htvars>> /\ Fairness
=============================================================================
