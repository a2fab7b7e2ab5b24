---------------------------- MODULE MCTransport -----------------------------
(***************************************************************************)
(* The sockets that connections are made of, and the transfers that run    *)
(* over connections, one at a time. A behaviour is of one part, which part *)
(* says; the other stays in an initial state in which nothing that its     *)
(* fairness is about is enabled.                                           *)
(*                                                                         *)
(* Sockets: three, of which the program makes one. Transfers: a download   *)
(* beside an upload that cuts the file, and each call alone on any file.   *)
(***************************************************************************)
EXTENDS Ffsnet, UdtSockets

VARIABLE part

Pairs == {<<"download", "upload">>}
Requested == Pairs \cup ({"download", "upload", "rm", "mkdir"} \X {"none"})
Idle == <<"none", "none">>
MCRequests == Requested \cup {Idle}

MCInit ==
    /\ part \in {"sockets", "transfers"}
    /\ SocketsInit
    /\ Init
    /\ part = "transfers" <=> \E s \in {1, 2} : client[s].op # "none"
    /\ part # "transfers" \/ client[2].op # "none" => dirent = 0
    /\ client[2].op = "upload" => client[2].local = <<>>

MCNext ==
    \/ part = "sockets" /\ SocketsNext /\ UNCHANGED <<part, ffsnetvars>>
    \/ part = "transfers" /\ Next /\ UNCHANGED <<part, socketvars>>

MCSpec == MCInit /\ [][MCNext]_<<part, socketvars, ffsnetvars>>
              /\ SocketsFairness /\ Fairness
=============================================================================
