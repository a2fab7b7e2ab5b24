-------------------------------- MODULE Ffsnet --------------------------------
(***************************************************************************)
(* File transfer between nodes: the calls of ffsnet.cpp (download, upload, *)
(* remove, make a directory), each on a connection of its own, and the     *)
(* threads of ffsnetd.cpp that serve them, one for each connection, with   *)
(* no lock between them.                                                   *)
(*                                                                         *)
(* A connection is what UDT gives: items arrive in order; either side may  *)
(* find it broken at any moment, and what was under way then is lost;      *)
(* what was received before can still be read. Sending fails only on the   *)
(* side that knows. A file is a sequence of blocks, each named by who      *)
(* wrote it; an open file is an inode, which unlink leaves to its users.   *)
(***************************************************************************)
EXTENDS Integers, Sequences, FiniteSets

CONSTANTS Sessions,   \* the calls, positive numbers
          Requests,   \* what each asks for: a set of functions on Sessions
          Size        \* the blocks of a file

ASSUME CallsAssumption ==
    /\ Sessions \subseteq Nat \ {0}
    /\ Requests \subseteq [Sessions -> {"none", "download", "upload", "rm", "mkdir"}]
    /\ Size \in Nat

VARIABLES client,     \* the call
          daemon,     \* the thread that serves it
          up,         \* the sides for which the connection is not broken
          inbox,      \* what each side has to read
          dirent,     \* the inode the name on the daemon's node refers to, 0 for none
          inode,      \* the contents
          directory   \* whether the directory is there, or cannot be looked up

ffsnetvars == <<client, daemon, up, inbox, dirent, inode, directory>>

Sides == {"client", "daemon"}
Other(side) == CHOOSE x \in Sides : x # side
Inodes == {0} \cup Sessions    \* 0 is there from the start
Absent == -1
Missing == <<Absent>>     \* the content of no file
Refused == <<-3>>         \* the content of a file the disk did not take all of
PeerError == -2           \* the control packet of a receiver that cannot write

Init ==
    /\ \E op \in Requests, file \in {Missing, <<>>, [k \in 1..Size |-> 9]} :
          client = [s \in Sessions |->
                      [op |-> op[s],
                       pc |-> IF op[s] = "none" THEN "done" ELSE "start",
                       n |-> 0, size |-> 0, result |-> -2,
                       local |-> IF op[s] = "upload" THEN file ELSE Missing]]
    /\ daemon = [s \in Sessions |->
                    [pc |-> "none", n |-> 0, size |-> 0, fd |-> Absent,
                     opened |-> <<>>, disturbed |-> FALSE, stored |-> FALSE,
                     removed |-> FALSE]]
    /\ up = [s \in Sessions |-> {}]
    /\ inbox = [s \in Sessions |-> [x \in Sides |-> <<>>]]
    /\ dirent \in {Absent, 0}
    /\ inode = [i \in Inodes |-> IF i = 0 THEN [k \in 1..Size |-> 0] ELSE <<>>]
    /\ directory \in {"there", "missing", "error"}
    /\ (\A s \in Sessions : client[s].op # "mkdir") => directory = "there"
-----------------------------------------------------------------------------
\* send: items, unless the side knows the connection to be broken.
Sends(s, side, items) ==
    /\ side \in up[s]
    /\ inbox' = IF Other(side) \in up[s]
                THEN [inbox EXCEPT ![s][Other(side)] = @ \o items]
                ELSE inbox

\* recv: there is something to read, or there will be nothing more.
Arrived(s, side) == inbox[s][side] # <<>>
Failed(s, side) == ~Arrived(s, side) /\ side \notin up[s]
Taken(s, side) == [inbox EXCEPT ![s][side] = Tail(@)]

\* UDT::close: what was sent has been received; the shutdown may get lost.
closes_Left(s, side) == UNCHANGED <<up, inbox>>
closes(s, side) ==
    /\ \/ up' = [up EXCEPT ![s] = {}]
       \/ up' = [up EXCEPT ![s] = @ \ {side}]
    /\ inbox' = [inbox EXCEPT ![s][side] = <<>>]

\* _recvfile_udt and _sendfile_udt end without a return statement: what a
\* register held, which their callers compare with -1.
LeftOver == {0, -1}

Returns(s, r) == client' = [client EXCEPT ![s].pc = "done", ![s].result = r]
Ends(s) == daemon' = [daemon EXCEPT ![s].pc = "end"]
DiskSame == UNCHANGED <<dirent, inode, directory>>
-----------------------------------------------------------------------------
clientConnect(s) ==
    /\ client[s].pc = "start"
    /\ \/ Returns(s, -1) /\ UNCHANGED <<daemon, up>>
       \/ /\ client' = [client EXCEPT ![s].pc = "request"]
          /\ daemon' = [daemon EXCEPT ![s].pc = "request"]
          /\ up' = [up EXCEPT ![s] = Sides]
    /\ UNCHANGED inbox /\ DiskSame

AfterRequest(op) == CASE op = "download" -> "size"
                      [] op = "upload" -> "sendsize"
                      [] OTHER -> "status"

\* The type of the request, the length of the name and the name.
request(s) ==
    /\ client[s].pc = "request"
    /\ \/ /\ "client" \notin up[s]
          /\ Returns(s, -1) /\ UNCHANGED inbox
       \/ /\ Sends(s, "client", <<0, 0, 0>>)
          /\ client' = [client EXCEPT ![s].pc = AfterRequest(client[s].op)]
    /\ UNCHANGED <<daemon, up>> /\ DiskSame

\* _recvfile_udt: the size, negative when there is no such file ...
recvSize(s) ==
    /\ client[s].pc = "size"
    /\ \/ /\ Failed(s, "client")
          /\ Returns(s, -1) /\ UNCHANGED inbox
       \/ /\ Arrived(s, "client")
          /\ inbox' = Taken(s, "client")
          /\ IF Head(inbox[s].client) < 0 THEN Returns(s, -1)
             ELSE client' = [client EXCEPT ![s].pc = "receiving",
                                           ![s].size = Head(inbox[s].client),
                                           ![s].local = <<>>]
    /\ UNCHANGED <<daemon, up>> /\ DiskSame

\* ... and the blocks. recvfile fails on a broken connection with nothing to
\* read, also when it has nothing to read for: only a loop that was entered
\* ends regardless.
GivesUp(s, side, got, size) == Failed(s, side) /\ (got < size \/ size = 0)

Completed_Short(s, side, got, size) == got = size \/ Failed(s, side)
Completed(s, side, got, size) == got = size /\ ~GivesUp(s, side, got, size)

\* The disk may refuse a block, which is noticed, or the last ones when the
\* file is closed, which is not.
recvfile(s) ==
    LET c == client[s] IN
    /\ c.pc = "receiving"
    /\ \/ /\ GivesUp(s, "client", Len(c.local), c.size)
          /\ Returns(s, -1) /\ UNCHANGED <<up, inbox>>
       \/ /\ Len(c.local) < c.size /\ Arrived(s, "client")
          /\ \/ /\ client' = [client EXCEPT ![s].local =
                                 Append(@, Head(inbox[s].client))]
                /\ inbox' = Taken(s, "client")
             \/ /\ Returns(s, -1)
                /\ inbox' = [inbox EXCEPT ![s].daemon = Append(@, PeerError)]
          /\ UNCHANGED up
       \/ /\ Completed(s, "client", Len(c.local), c.size)
          /\ closes(s, "client")
          /\ \/ \E r \in LeftOver : Returns(s, r)
             \/ /\ c.local # <<>>
                /\ client' = [client EXCEPT ![s].pc = "done", ![s].result = 0,
                                            ![s].local = Refused]
    /\ UNCHANGED daemon /\ DiskSame

LocalSize(s) == IF client[s].local = Missing THEN -1 ELSE Len(client[s].local)

\* _sendfile_udt. From here on a failure is returned as 0.
sendSize(s) ==
    /\ client[s].pc = "sendsize"
    /\ \/ /\ "client" \notin up[s]
          /\ Returns(s, 0) /\ UNCHANGED inbox
       \/ /\ Sends(s, "client", <<LocalSize(s)>>)
          /\ client' = [client EXCEPT ![s].pc = "sending", ![s].n = 0]
    /\ UNCHANGED <<daemon, up>> /\ DiskSame

PeerFailed(s, side) == \E k \in DOMAIN inbox[s][side] :
                          inbox[s][side][k] = PeerError

sendfile(s) ==
    LET c == client[s]
        more == c.n < LocalSize(s) IN
    /\ c.pc = "sending"
    /\ \/ /\ "client" \notin up[s] \/ (more /\ PeerFailed(s, "client"))
          /\ Returns(s, 0) /\ UNCHANGED <<up, inbox>>
       \/ /\ more /\ ~PeerFailed(s, "client")
          /\ Sends(s, "client", <<c.local[c.n + 1]>>)
          /\ client' = [client EXCEPT ![s].n = @ + 1]
          /\ UNCHANGED up
       \/ /\ ~more /\ "client" \in up[s]
          /\ closes(s, "client") /\ \E r \in LeftOver : Returns(s, r)
    /\ UNCHANGED daemon /\ DiskSame

\* ffs_rmfile and ffs_mkdir: the status of the daemon, 0 when none comes.
recvStatus(s) ==
    /\ client[s].pc = "status"
    /\ \/ /\ Failed(s, "client")
          /\ Returns(s, 0) /\ UNCHANGED inbox
       \/ /\ Arrived(s, "client")
          /\ Returns(s, Head(inbox[s].client)) /\ inbox' = Taken(s, "client")
    /\ UNCHANGED <<daemon, up>> /\ DiskSame
-----------------------------------------------------------------------------
\* The daemon's thread of another session that has the inode open.
Users(i, s) == {t \in Sessions \ {s} :
                  daemon[t].fd = i /\ daemon[t].pc \notin {"none", "end"}}

Writers(i, s) == {t \in Users(i, s) : client[t].op = "upload"}

OpensToRead(s, rest) ==
    /\ daemon' = [daemon EXCEPT
                    ![s].pc = "sendsize", ![s].n = 0, ![s].fd = dirent,
                    ![s].opened = IF dirent = Absent THEN <<>> ELSE inode[dirent],
                    ![s].disturbed = Writers(dirent, s) # {}]
    /\ inbox' = rest
    /\ UNCHANGED up /\ DiskSame

\* The file is made or cut before the size is known.
OpensToWrite(s, rest) ==
    LET i == IF dirent = Absent THEN s ELSE dirent
    IN /\ dirent' = i
       /\ inode' = [inode EXCEPT ![i] = <<>>]
       /\ daemon' = [t \in Sessions |->
                       IF t = s THEN [daemon[s] EXCEPT
                                        !.pc = "size", !.n = 0, !.fd = i,
                                        !.disturbed = Writers(i, s) # {}]
                       ELSE IF t \in Users(i, s)
                       THEN [daemon[t] EXCEPT !.disturbed = TRUE]
                       ELSE daemon[t]]
       /\ inbox' = rest
       /\ UNCHANGED <<up, directory>>

\* The status, which gets nowhere on a broken connection.
Answers(s, rest, status) ==
    inbox' = IF up[s] = Sides
             THEN [rest EXCEPT ![s].client = Append(@, status)] ELSE rest

\* The status is sent after the file was removed; if it could not be, the
\* connection has been closed by then.
Unlinks(s, rest) ==
    /\ \/ /\ dirent = Absent
          /\ closes(s, "daemon")
          /\ Ends(s) /\ UNCHANGED dirent
       \/ /\ dirent # Absent
          /\ dirent' = Absent
          /\ daemon' = [daemon EXCEPT ![s].pc = "close", ![s].removed = TRUE]
          /\ Answers(s, rest, 0)
          /\ UNCHANGED up
    /\ UNCHANGED <<inode, directory>>

MakesDirectory(s, rest) ==
    /\ directory' = IF directory = "missing" THEN "there" ELSE directory
    /\ Answers(s, rest, IF directory = "error" THEN 1 ELSE 0)
    /\ daemon' = [daemon EXCEPT ![s].pc = "close"]
    /\ UNCHANGED <<up, dirent, inode>>

\* transfile: the request, of which the name may be missing. A thread that
\* cannot read even the type ends without closing.
recvRequest(s) ==
    /\ daemon[s].pc = "request"
    /\ Len(inbox[s].daemon) < 3 /\ "daemon" \notin up[s]
    /\ daemon' = [daemon EXCEPT ![s].pc = IF Arrived(s, "daemon") THEN "close"
                                          ELSE "end"]
    /\ UNCHANGED <<client, up, inbox>> /\ DiskSame

serve(s) ==
    /\ daemon[s].pc = "request" /\ Len(inbox[s].daemon) >= 3
    /\ LET rest == [inbox EXCEPT ![s].daemon = SubSeq(@, 4, Len(@))]
       IN CASE client[s].op = "download" -> OpensToRead(s, rest)
            [] client[s].op = "upload" -> OpensToWrite(s, rest)
            [] client[s].op = "rm" -> Unlinks(s, rest)
            [] client[s].op = "mkdir" -> MakesDirectory(s, rest)
    /\ UNCHANGED client

daemonSendSize(s) ==
    LET size == IF daemon[s].fd = Absent THEN -1 ELSE Len(inode[daemon[s].fd]) IN
    /\ daemon[s].pc = "sendsize"
    /\ \/ /\ "daemon" \notin up[s]
          /\ daemon' = [daemon EXCEPT ![s].pc = "close"] /\ UNCHANGED inbox
       \/ /\ Sends(s, "daemon", <<size>>)
          /\ daemon' = [daemon EXCEPT ![s].pc = "sending", ![s].size = size]
    /\ UNCHANGED <<client, up>> /\ DiskSame

\* sendfile: a file that was cut meanwhile ends it too.
daemonSendfile(s) ==
    LET d == daemon[s]
        more == d.n < d.size IN
    /\ d.pc = "sending"
    /\ \/ /\ ~(more /\ "daemon" \in up[s] /\ ~PeerFailed(s, "daemon")
                  /\ d.n < Len(inode[d.fd]))
          /\ daemon' = [daemon EXCEPT ![s].pc = "close"] /\ UNCHANGED inbox
       \/ /\ more /\ ~PeerFailed(s, "daemon") /\ d.n < Len(inode[d.fd])
          /\ Sends(s, "daemon", <<inode[d.fd][d.n + 1]>>)
          /\ daemon' = [daemon EXCEPT ![s].n = @ + 1]
    /\ UNCHANGED <<client, up>> /\ DiskSame

daemonRecvSize(s) ==
    /\ daemon[s].pc = "size"
    /\ \/ /\ Failed(s, "daemon")
          /\ daemon' = [daemon EXCEPT ![s].pc = "close"] /\ UNCHANGED inbox
       \/ /\ Arrived(s, "daemon")
          /\ inbox' = Taken(s, "daemon")
          /\ daemon' = IF Head(inbox[s].daemon) < 0
                       THEN [daemon EXCEPT ![s].pc = "close"]
                       ELSE [daemon EXCEPT ![s].pc = "receiving",
                                           ![s].size = Head(inbox[s].daemon)]
    /\ UNCHANGED <<client, up>> /\ DiskSame

\* A block written at its place; a gap reads as what was never written.
Written(content, k, block) ==
    [j \in 1..(IF k > Len(content) THEN k ELSE Len(content)) |->
        IF j = k THEN block ELSE IF j <= Len(content) THEN content[j] ELSE 0]

daemonRecvfile(s) ==
    LET d == daemon[s] IN
    /\ d.pc = "receiving"
    /\ \/ /\ GivesUp(s, "daemon", d.n, d.size)
          /\ daemon' = [daemon EXCEPT ![s].pc = "close"]
          /\ UNCHANGED <<inbox, inode>>
       \/ /\ d.n < d.size /\ Arrived(s, "daemon")
          /\ \/ /\ daemon' = [daemon EXCEPT ![s].n = @ + 1]
                /\ inode' = [inode EXCEPT ![d.fd] =
                                Written(@, d.n + 1, Head(inbox[s].daemon))]
                /\ inbox' = Taken(s, "daemon")
             \/ /\ daemon' = [daemon EXCEPT ![s].pc = "close"]
                /\ inbox' = [inbox EXCEPT ![s].client = Append(@, PeerError)]
                /\ UNCHANGED inode
       \/ /\ Completed(s, "daemon", d.n, d.size)
          /\ daemon' = [daemon EXCEPT ![s].pc = "close", ![s].stored = TRUE,
                                      ![s].opened = inode[d.fd]]
          /\ UNCHANGED <<inbox, inode>>
    /\ UNCHANGED <<client, up, dirent, directory>>

daemonClose(s) ==
    /\ daemon[s].pc = "close"
    /\ closes(s, "daemon") /\ Ends(s)
    /\ UNCHANGED client /\ DiskSame

\* A side hears nothing for long, or its peer's shutdown: what is under way
\* either way is lost.
Break(s, side) ==
    /\ side \in up[s]
    /\ up' = [up EXCEPT ![s] = @ \ {side}]
    /\ \E k, j \in 0..(2 * Size + 3) :
          /\ k <= Len(inbox[s].client) /\ j <= Len(inbox[s].daemon)
          /\ inbox' = [inbox EXCEPT ![s] = [client |-> SubSeq(@.client, 1, k),
                                            daemon |-> SubSeq(@.daemon, 1, j)]]
    /\ UNCHANGED <<client, daemon>> /\ DiskSame

Call(s) == \/ clientConnect(s) \/ request(s) \/ recvSize(s) \/ recvfile(s)
           \/ sendSize(s) \/ sendfile(s) \/ recvStatus(s)

Thread(s) == \/ recvRequest(s) \/ serve(s) \/ daemonSendSize(s)
             \/ daemonSendfile(s) \/ daemonRecvSize(s) \/ daemonRecvfile(s)
             \/ daemonClose(s)

Next == \E s \in Sessions : Call(s) \/ Thread(s) \/ \E x \in Sides : Break(s, x)

\* The peer of a side that is gone hears nothing any more.
Notices(s) == \E x \in Sides : Other(x) \notin up[s] /\ Break(s, x)

\* No call, no thread and no timer of a session stops for ever.
Fairness == \A s \in Sessions :
               WF_ffsnetvars(Call(s) \/ Thread(s) \/ Notices(s))

Spec == Init /\ [][Next]_ffsnetvars /\ Fairness
-----------------------------------------------------------------------------
\* A download that returns 0 leaves the file the daemon opened, and an upload
\* the daemon finished is the file of the client, unless another upload to the
\* same file was under way; nothing tells when the disk refuses the last
\* blocks (_recvfile_udt, transfile).
TransferExact ==
    \A s \in Sessions :
        ~daemon[s].disturbed =>
            /\ client[s].op = "download" /\ client[s].result = 0
                  => client[s].local \in {daemon[s].opened, Refused}
            /\ client[s].op = "upload" /\ daemon[s].stored
                  => client[s].local = daemon[s].opened

\* Whatever breaks, every call returns and every thread of the daemon ends,
\* although calls fail without closing their sockets.
SessionsEnd ==
    <>(\A s \in Sessions : client[s].pc = "done" /\ daemon[s].pc \in {"none", "end"})
=============================================================================
