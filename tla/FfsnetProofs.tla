----------------------------- MODULE FfsnetProofs -----------------------------
(*****************************************************************************)
(* A transfer that reports success has moved the whole file, for any number  *)
(* of calls and of blocks: the theorem about Ffsnet.                         *)
(*                                                                           *)
(* The argument. A connection keeps the order of what it carries and loses   *)
(* only what comes last, so what a receiver has taken and what lies in its   *)
(* inbox are, together, the first items of what the sender sends: the size   *)
(* and then the blocks of the file (Download, Upload). The receiver counts:  *)
(* when it has as many blocks as the size says, it has the file. That is so  *)
(* as long as the file stays as it was when it was opened. Two calls may     *)
(* open the same file; whoever has it open when a writer opens it is marked  *)
(* disturbed (Shared), and nothing is claimed of those.                      *)
(*                                                                           *)
(* A step changes one session: QuietStep, EndsStep and OpenStep say what is  *)
(* then left to show, for a step that leaves the files alone, one that ends  *)
(* a thread's transfer and one that opens or writes a file.                  *)
(*                                                                           *)
(* In the names below s is a session, c its call, d its thread, u the sides  *)
(* that are up, b its inboxes, f what the file that the thread has open      *)
(* contains; c1, d1, ... are those after the step.                           *)
(*****************************************************************************)
EXTENDS Ffsnet, SequenceTheorems, TLAPS

-----------------------------------------------------------------------------
(*****************************************************************************)
(* The inductive invariant.                                                  *)
(*****************************************************************************)
\* What CallsAssumption says, as a hypothesis of the lemmas.
Setting ==
    /\ Sessions \subseteq Nat \ {0}
    /\ Size \in Nat
    /\ Requests \subseteq [Sessions -> {"none", "download", "upload", "rm", "mkdir"}]

\* The states of a call.
Clients ==
    [op : {"none", "download", "upload", "rm", "mkdir"},
     pc : {"start", "request", "size", "receiving", "sendsize", "sending", "status", "done"},
     n : Nat, size : Int, result : Int, local : Seq(Int)]

\* The states of a thread of the daemon.
Threads ==
    [pc : {"none", "request", "sendsize", "sending", "size", "receiving", "close", "end"},
     n : Nat, size : Int, fd : {Absent} \cup Inodes, opened : Seq(Int),
     disturbed : BOOLEAN, stored : BOOLEAN, removed : BOOLEAN]

\* What the two sides of a connection have to read.
Boxes == [Sides -> Seq(Int)]

\* The types of the variables a transfer depends on.
Typed ==
    /\ client \in [Sessions -> Clients]
    /\ daemon \in [Sessions -> Threads]
    /\ up \in [Sessions -> SUBSET Sides]
    /\ inbox \in [Sessions -> Boxes]
    /\ dirent \in {Absent} \cup Inodes
    /\ inode \in [Inodes -> Seq(Int)]

\* Who is where: a call and its thread do the same operation, and nothing has
\* been sent before the request.
Kinds(c, d, b) ==
    /\ c.op = "none" => c.pc = "done" /\ d.pc = "none"
    /\ c.pc \in {"size", "receiving"} => c.op = "download"
    /\ c.pc \in {"sendsize", "sending"} => c.op = "upload"
    /\ c.pc = "status" => c.op \in {"rm", "mkdir"}
    /\ d.pc \in {"sendsize", "sending"} => c.op = "download"
    /\ d.pc \in {"size", "receiving"} => c.op = "upload" /\ d.fd # Absent
    /\ d.pc = "sending" /\ d.fd = Absent => d.size = -1
    /\ c.op = "download" /\ c.result = 0 => c.pc = "done"
    /\ c.pc = "start" => d.pc = "none"
    /\ c.pc \in {"start", "request"} =>
          b["daemon"] = <<>> /\ d.pc \in {"none", "request", "close", "end"}
    /\ d.pc \in {"none", "request"} => d.fd = Absent /\ ~d.disturbed /\ ~d.stored /\ d.n = 0
    /\ c.op = "download" /\ d.pc \in {"none", "request", "sendsize"}
         => b["client"] = <<>> /\ c.pc # "receiving" /\ c.result # 0

\* What the daemon sends first.
FileSize(d) == IF d.fd = Absent THEN -1 ELSE Len(d.opened)

\* The items a downloading call has taken.
Got(c) == IF c.pc = "receiving" THEN 1 + Len(c.local) ELSE 0

\* What the call has, and after it what is under way, are the size of the file
\* and its first blocks; while the connection holds nothing that was sent is
\* missing.
Download(c, d, u, b, f) ==
    /\ d.pc \in {"sendsize", "sending"} => f = d.opened
    /\ d.pc = "sendsize" => d.n = 0
    /\ d.pc = "sending" => d.size = FileSize(d) /\ d.n <= Len(d.opened)
    /\ c.pc = "receiving" =>
          /\ c.size = Len(d.opened) /\ Len(c.local) <= c.size
          /\ \A k \in 1..Len(c.local) : c.local[k] = d.opened[k]
    /\ c.pc # "done" => \A j \in 1..Len(b["client"]) :
          /\ Got(c) + j = 1 => b["client"][j] = FileSize(d)
          /\ Got(c) + j > 1 => /\ Got(c) + j - 1 <= Len(d.opened)
                               /\ b["client"][j] = d.opened[Got(c) + j - 1]
    /\ c.result = 0 => c.local \in {d.opened, Refused}
    /\ u = Sides /\ c.pc # "done" /\ d.pc = "sending" => Got(c) + Len(b["client"]) = 1 + d.n

\* What an uploading call sends after its request.
SizeOf(c) == IF c.local = Missing THEN -1 ELSE Len(c.local)

\* The items a thread has taken of an upload, the three of the request among
\* them.
Consumed(d) == CASE d.pc = "size" -> 3 [] d.pc = "receiving" -> 4 + d.n [] OTHER -> 0

\* Where a thread still reads an upload.
Reads == {"none", "request", "size", "receiving"}

\* What the thread has written, and after it what is under way, are the first
\* blocks of the file; a thread that reports success has them all.
Upload(c, d, u, b, f) ==
    /\ d.pc = "size" => d.n = 0
    /\ d.pc = "receiving" => d.size = SizeOf(c) /\ d.size >= 0 /\ d.n <= d.size
    /\ d.pc \in {"size", "receiving"} =>
          /\ Len(f) = d.n
          /\ \A k \in 1..d.n : f[k] = c.local[k]
    /\ d.pc \in Reads => \A j \in 1..Len(b["daemon"]) :
          /\ Consumed(d) + j = 4 => b["daemon"][j] = SizeOf(c)
          /\ Consumed(d) + j > 4 => /\ Consumed(d) + j - 4 <= SizeOf(c)
                                    /\ b["daemon"][j] = c.local[Consumed(d) + j - 4]
    /\ d.stored => c.local = d.opened /\ d.pc \in {"close", "end"}
    /\ u = Sides /\ d.pc \in Reads =>
          /\ c.pc = "sendsize" => Consumed(d) + Len(b["daemon"]) = 3
          /\ c.pc = "sending" => Consumed(d) + Len(b["daemon"]) = 4 + c.n
    /\ c.pc = "sending" => c.n = 0 \/ c.n <= SizeOf(c)

\* What is known of one session: nothing of the contents if the file was
\* disturbed.
Session(c, d, u, b, f) ==
    /\ Kinds(c, d, b)
    /\ ~d.disturbed /\ c.op = "download" => Download(c, d, u, b, f)
    /\ ~d.disturbed /\ c.op = "upload" => Upload(c, d, u, b, f)

\* What the file contains that the thread of s has open.
Contents(s) == IF daemon[s].fd = Absent THEN <<>> ELSE inode[daemon[s].fd]

\* The same, of the state of a session.
SessionInv(s) == Session(client[s], daemon[s], up[s], inbox[s], Contents(s))

\* The thread is at work.
Live(s) == daemon[s].pc \notin {"none", "end"}

\* A thread that has a file open together with a writer is disturbed.
Shared ==
    \A s, t \in Sessions :
        s # t /\ Live(s) /\ Live(t) /\ client[s].op = "upload"
              /\ daemon[s].fd = daemon[t].fd /\ daemon[s].fd # Absent
            => daemon[t].disturbed

\* The inductive invariant.
Transferred == Typed /\ Shared /\ \A s \in Sessions : SessionInv(s)

-----------------------------------------------------------------------------
(*****************************************************************************)
(* Facts the steps rest on.                                                  *)
(*****************************************************************************)
\* The two sides.
LEMMA SideFacts ==
    /\ Other("client") = "daemon" /\ Other("daemon") = "client"
    /\ Sides = {"client", "daemon"}
<1>1. \A x, y \in Sides : x # y => Other(x) = y
  BY Zenon DEF Sides, Other
<1>2. QED
  BY <1>1 DEF Sides

\* The inboxes of one connection.
LEMMA BoxFacts ==
    ASSUME NEW x \in Seq(Int), NEW y \in Seq(Int)
    PROVE  /\ [client |-> x, daemon |-> y] \in Boxes
           /\ [client |-> x, daemon |-> y]["client"] = x
           /\ [client |-> x, daemon |-> y]["daemon"] = y
BY DEF Boxes, Sides

\* One session, taken out of the functions it is part of.
LEMMA Parts ==
    ASSUME Setting, Transferred, NEW s \in Sessions
    PROVE  \E c \in Clients, d \in Threads, u \in SUBSET Sides, b \in Boxes, f \in Seq(Int) :
              /\ c = client[s] /\ d = daemon[s] /\ u = up[s] /\ b = inbox[s] /\ f = Contents(s)
              /\ client = [client EXCEPT ![s] = c] /\ daemon = [daemon EXCEPT ![s] = d]
              /\ up = [up EXCEPT ![s] = u] /\ inbox = [inbox EXCEPT ![s] = b]
              /\ b["client"] \in Seq(Int) /\ b["daemon"] \in Seq(Int)
              /\ d.fd # Absent => d.fd \in Inodes /\ f = inode[d.fd]
              /\ Session(c, d, u, b, f)
<1>1. client[s] \in Clients /\ daemon[s] \in Threads /\ up[s] \in SUBSET Sides /\ inbox[s] \in Boxes
  BY DEF Transferred, Typed
<1>2. daemon[s].fd \in {Absent} \cup Inodes
  BY <1>1 DEF Threads
<1>3. Contents(s) \in Seq(Int)
  BY <1>2 DEF Transferred, Typed, Contents
<1>4. inbox[s]["client"] \in Seq(Int) /\ inbox[s]["daemon"] \in Seq(Int)
  BY <1>1 DEF Boxes, Sides
<1>5. /\ client = [client EXCEPT ![s] = client[s]] /\ daemon = [daemon EXCEPT ![s] = daemon[s]]
      /\ up = [up EXCEPT ![s] = up[s]] /\ inbox = [inbox EXCEPT ![s] = inbox[s]]
  BY DEF Transferred, Typed
<1>6. daemon[s].fd # Absent => daemon[s].fd \in Inodes /\ Contents(s) = inode[daemon[s].fd]
  BY <1>2 DEF Contents
<1>7. Session(client[s], daemon[s], up[s], inbox[s], Contents(s))
  BY DEF Transferred, SessionInv
<1>8. QED
  BY <1>1, <1>3, <1>4, <1>5, <1>6, <1>7

\* What is left to show of a step that changes one session and no file.
LEMMA QuietStep ==
    ASSUME Setting, Transferred, NEW s \in Sessions,
           NEW c \in Clients, client' = [client EXCEPT ![s] = c], c.op = client[s].op,
           NEW d \in Threads, daemon' = [daemon EXCEPT ![s] = d],
           d.fd = daemon[s].fd, d.disturbed = daemon[s].disturbed,
           Live(s) \/ d.pc \in {"none", "end"} \/ d.fd = Absent,
           NEW u \in SUBSET Sides, up' = [up EXCEPT ![s] = u],
           NEW b \in Boxes, inbox' = [inbox EXCEPT ![s] = b],
           inode' = inode, dirent' \in {Absent} \cup Inodes,
           Session(c, d, u, b, Contents(s))
    PROVE  Transferred'
<1>1. Typed'
  BY DEF Transferred, Typed
<1>2. /\ client'[s] = c /\ daemon'[s] = d /\ up'[s] = u /\ inbox'[s] = b
      /\ \A t \in Sessions : t # s =>
            /\ client'[t] = client[t] /\ daemon'[t] = daemon[t]
            /\ up'[t] = up[t] /\ inbox'[t] = inbox[t]
  BY DEF Transferred, Typed
<1>3. \A t \in Sessions : Contents(t)' = Contents(t)
  BY <1>2 DEF Contents
<1>4. ASSUME NEW t \in Sessions PROVE SessionInv(t)'
  <2>1. CASE t = s
    BY <1>2, <1>3, <2>1 DEF SessionInv
  <2>2. CASE t # s
    BY <1>2, <1>3, <2>2 DEF SessionInv, Transferred
  <2>3. QED
    BY <2>1, <2>2
<1>5. Shared'
  <2>1. \A t \in Sessions : client'[t].op = client[t].op /\ daemon'[t].fd = daemon[t].fd
           /\ daemon'[t].disturbed = daemon[t].disturbed
           /\ (Live(t)' => Live(t) \/ daemon[t].fd = Absent)
    BY <1>2 DEF Live
  <2>2. QED
    BY <2>1 DEF Shared, Transferred
<1>6. QED
  BY <1>1, <1>4, <1>5 DEF Transferred

-----------------------------------------------------------------------------
(*****************************************************************************)
(* The calls.                                                                *)
(*****************************************************************************)
\* No call has started.
LEMMA TrInit ==
    ASSUME Setting, Init
    PROVE  Transferred
<1>1. PICK op \in Requests, file \in {Missing, <<>>, [k \in 1..Size |-> 9]} :
          client = [s \in Sessions |->
                      [op |-> op[s],
                       pc |-> IF op[s] = "none" THEN "done" ELSE "start",
                       n |-> 0, size |-> 0, result |-> -2,
                       local |-> IF op[s] = "upload" THEN file ELSE Missing]]
  BY DEF Init
<1>2. file \in Seq(Int) /\ Missing \in Seq(Int)
  <2>1. [k \in 1..Size |-> 9] \in Seq(Int)
    BY DEF Setting
  <2>2. <<>> \in Seq(Int) /\ Missing \in Seq(Int)
    BY DEF Missing, Absent
  <2>3. QED
    BY <2>1, <2>2
<1>3. op \in [Sessions -> {"none", "download", "upload", "rm", "mkdir"}]
  BY DEF Setting
<1>4. client \in [Sessions -> Clients]
  BY <1>1, <1>2, <1>3 DEF Clients
<1>5. daemon = [s \in Sessions |->
                    [pc |-> "none", n |-> 0, size |-> 0, fd |-> Absent,
                     opened |-> <<>>, disturbed |-> FALSE, stored |-> FALSE,
                     removed |-> FALSE]]
  BY DEF Init
<1>6. daemon \in [Sessions -> Threads]
  BY <1>5 DEF Threads
<1>7. up \in [Sessions -> SUBSET Sides] /\ inbox \in [Sessions -> Boxes]
  BY DEF Init, Boxes
<1>8. dirent \in {Absent} \cup Inodes
  BY DEF Init, Inodes
<1>9. inode \in [Inodes -> Seq(Int)]
  <2>1. [k \in 1..Size |-> 0] \in Seq(Int)
    BY DEF Setting
  <2>2. QED
    BY <2>1 DEF Init
<1>10. Shared
  BY <1>5 DEF Shared, Live
<1>11. ASSUME NEW s \in Sessions PROVE SessionInv(s)
  <2>1. PICK c, d, b : c = client[s] /\ d = daemon[s] /\ b = inbox[s]
    OBVIOUS
  <2>2. c.pc \in {"start", "done"} /\ c.result = -2 /\ (c.op = "none" <=> c.pc = "done")
    BY <1>1, <1>3, <2>1
  <2>3. /\ d.pc = "none" /\ d.fd = Absent /\ ~d.disturbed /\ ~d.stored /\ d.n = 0
    BY <1>5, <2>1
  <2>4. b["client"] = <<>> /\ b["daemon"] = <<>>
    BY <2>1 DEF Init, Sides
  <2>5. Kinds(c, d, b)
    BY <2>2, <2>3, <2>4 DEF Kinds
  <2>6. Download(c, d, up[s], b, Contents(s)) /\ Upload(c, d, up[s], b, Contents(s))
    BY <2>2, <2>3, <2>4 DEF Download, Upload
  <2>7. QED
    BY <2>1, <2>5, <2>6 DEF SessionInv, Session
<1>12. QED
  BY <1>4, <1>6, <1>7, <1>8, <1>9, <1>10, <1>11 DEF Transferred, Typed

\* A call that returns: a download that returns 0 has the file.
LEMMA Returned ==
    ASSUME NEW c \in Clients, NEW d \in Threads, NEW u \in SUBSET Sides, NEW b \in Boxes,
           NEW f, Session(c, d, u, b, f),
           NEW c1 \in Clients, c1.pc = "done", c1.op = c.op, c1.n = c.n,
           c1.local = c.local \/ c.op = "download",
           NEW u1 \in SUBSET Sides, NEW b1 \in Boxes,
           \/ b1["client"] = b["client"] \/ b1["client"] = <<>> \/ c.op # "download"
           \/ d.pc \notin {"none", "request", "sendsize"},
           b1["daemon"] = b["daemon"] \/ c.op = "download",
           c.op = "download" /\ c1.result = 0 =>
              /\ d.pc \notin {"none", "request", "sendsize"}
              /\ ~d.disturbed => c1.local \in {d.opened, Refused}
    PROVE  Session(c1, d, u1, b1, f)
<1>1. Kinds(c1, d, b1)
  BY DEF Session, Kinds
<1>2. ~d.disturbed /\ c1.op = "download" => Download(c1, d, u1, b1, f)
  BY DEF Session, Download, FileSize
<1>3. ~d.disturbed /\ c1.op = "upload" => Upload(c1, d, u1, b1, f)
  BY DEF Session, Upload, SizeOf, Consumed
<1>4. QED
  BY <1>1, <1>2, <1>3 DEF Session

\* What is left to show of a step in which a call returns.
LEMMA ReturnsStep ==
    ASSUME Setting, Transferred, NEW s \in Sessions,
           NEW r \in Int, Returns(s, r), daemon' = daemon,
           NEW u1 \in SUBSET Sides, up' = [up EXCEPT ![s] = u1],
           NEW b1 \in Boxes, inbox' = [inbox EXCEPT ![s] = b1],
           \/ b1["client"] = inbox[s]["client"] \/ b1["client"] = <<>> \/ client[s].op # "download"
           \/ daemon[s].pc \notin {"none", "request", "sendsize"},
           b1["daemon"] = inbox[s]["daemon"] \/ client[s].op = "download",
           inode' = inode, dirent' = dirent,
           client[s].op = "download" /\ r = 0 =>
              /\ daemon[s].pc \notin {"none", "request", "sendsize"}
              /\ ~daemon[s].disturbed => client[s].local \in {daemon[s].opened, Refused}
    PROVE  Transferred'
<1>1. PICK c \in Clients, d \in Threads, u \in SUBSET Sides, b \in Boxes, f \in Seq(Int) :
              /\ c = client[s] /\ d = daemon[s] /\ u = up[s] /\ b = inbox[s] /\ f = Contents(s)
              /\ client = [client EXCEPT ![s] = c] /\ daemon = [daemon EXCEPT ![s] = d]
              /\ up = [up EXCEPT ![s] = u] /\ inbox = [inbox EXCEPT ![s] = b]
              /\ Session(c, d, u, b, f)
  BY Parts
<1>2. PICK c1 : c1 = [c EXCEPT !.pc = "done", !.result = r]
  OBVIOUS
<1>3. client' = [client EXCEPT ![s] = c1]
  BY <1>1, <1>2 DEF Returns
<1>4. /\ c1 \in Clients /\ c1.pc = "done" /\ c1.op = c.op /\ c1.n = c.n /\ c1.local = c.local
      /\ c1.result = r
  BY <1>2 DEF Clients
<1>5. Session(c1, d, u1, b1, f)
  BY <1>1, <1>4, Returned
<1>6. dirent' \in {Absent} \cup Inodes /\ (Live(s) \/ d.pc \in {"none", "end"})
  BY <1>1 DEF Transferred, Typed, Live
<1>7. QED
  BY <1>1, <1>3, <1>4, <1>5, <1>6, QuietStep

\* A call that returns -1 and changes nothing else.
LEMMA FailsStep ==
    ASSUME Setting, Transferred, NEW s \in Sessions, Returns(s, -1), daemon' = daemon,
           up' = up, inbox' = inbox, inode' = inode, dirent' = dirent
    PROVE  Transferred'
<1>1. PICK u \in SUBSET Sides, b \in Boxes :
              /\ b = inbox[s] /\ up' = [up EXCEPT ![s] = u] /\ inbox' = [inbox EXCEPT ![s] = b]
  <2>1. up \in [Sessions -> SUBSET Sides] /\ inbox \in [Sessions -> Boxes]
    BY DEF Transferred, Typed
  <2>2. /\ up[s] \in SUBSET Sides /\ up = [up EXCEPT ![s] = up[s]]
        /\ inbox[s] \in Boxes /\ inbox = [inbox EXCEPT ![s] = inbox[s]]
    BY <2>1
  <2>3. QED
    BY <2>2
<1>2. PICK r \in Int : r = -1
  OBVIOUS
<1>3. Returns(s, r) /\ r # 0 /\ b["client"] = inbox[s]["client"] /\ b["daemon"] = inbox[s]["daemon"]
  BY <1>1, <1>2
<1>4. QED
  BY <1>1, <1>3, ReturnsStep

\* A call connects and its thread starts, or it fails.
LEMMA TrConnect ==
    ASSUME Setting, Transferred, NEW s \in Sessions, clientConnect(s)
    PROVE  Transferred'
<1>1. PICK c \in Clients, d \in Threads, u \in SUBSET Sides, b \in Boxes, f \in Seq(Int) :
              /\ c = client[s] /\ d = daemon[s] /\ u = up[s] /\ b = inbox[s] /\ f = Contents(s)
              /\ client = [client EXCEPT ![s] = c] /\ daemon = [daemon EXCEPT ![s] = d]
              /\ up = [up EXCEPT ![s] = u] /\ inbox = [inbox EXCEPT ![s] = b]
              /\ Session(c, d, u, b, f)
  BY Parts
<1>2. /\ c.pc = "start" /\ inbox' = inbox /\ inode' = inode /\ dirent' = dirent
      /\ dirent \in {Absent} \cup Inodes
  BY <1>1 DEF clientConnect, DiskSame, Transferred, Typed
<1>3. d.pc = "none" /\ d.fd = Absent
  BY <1>1, <1>2 DEF Session, Kinds
<1>4. CASE Returns(s, -1) /\ UNCHANGED <<daemon, up>>
  BY <1>2, <1>4, FailsStep
<1>5. CASE /\ client' = [client EXCEPT ![s].pc = "request"]
           /\ daemon' = [daemon EXCEPT ![s].pc = "request"]
           /\ up' = [up EXCEPT ![s] = Sides]
  <2>1. PICK c1, d1 : c1 = [c EXCEPT !.pc = "request"] /\ d1 = [d EXCEPT !.pc = "request"]
    OBVIOUS
  <2>2. client' = [client EXCEPT ![s] = c1] /\ daemon' = [daemon EXCEPT ![s] = d1]
    BY <1>1, <1>5, <2>1
  <2>3. /\ c1 \in Clients /\ c1.pc = "request" /\ c1.op = c.op /\ c1.n = c.n /\ c1.local = c.local
        /\ c1.result = c.result /\ c1.size = c.size
        /\ d1 \in Threads /\ d1.pc = "request" /\ d1.fd = d.fd /\ d1.disturbed = d.disturbed
        /\ d1.stored = d.stored /\ d1.n = d.n /\ d1.opened = d.opened
    BY <2>1 DEF Clients, Threads
  <2>4. b["daemon"] = <<>> /\ (c.op = "download" => b["client"] = <<>> /\ c.result # 0)
        /\ ~d.stored /\ ~d.disturbed /\ c.op # "none" /\ d.n = 0
    BY <1>1, <1>2, <1>3 DEF Session, Kinds
  <2>5. Kinds(c1, d1, b)
    BY <1>3, <2>3, <2>4 DEF Kinds
  <2>6. c.op = "download" => Download(c1, d1, Sides, b, f)
    BY <2>3, <2>4 DEF Download
  <2>7. Upload(c1, d1, Sides, b, f)
    BY <2>3, <2>4 DEF Upload
  <2>8. Session(c1, d1, Sides, b, f)
    BY <2>3, <2>5, <2>6, <2>7 DEF Session
  <2>9. /\ c1.op = client[s].op /\ d1.fd = daemon[s].fd /\ d1.disturbed = daemon[s].disturbed
        /\ d1.fd = Absent /\ Session(c1, d1, Sides, b, Contents(s))
    BY <1>1, <1>3, <2>3, <2>8
  <2>10. /\ up' = [up EXCEPT ![s] = Sides] /\ inbox' = [inbox EXCEPT ![s] = b]
         /\ inode' = inode /\ dirent' \in {Absent} \cup Inodes /\ Sides \in SUBSET Sides
    BY <1>1, <1>2, <1>5
  <2>11. QED
    BY <2>2, <2>3, <2>9, <2>10, QuietStep
<1>6. QED
  BY <1>4, <1>5 DEF clientConnect

\* What is sent comes last in the other side's inbox, if that side is up.
LEMMA SendsFacts ==
    ASSUME Setting, Transferred, NEW s \in Sessions, NEW x \in Seq(Int)
    PROVE  /\ Sends(s, "client", x) =>
                /\ "client" \in up[s]
                /\ \E b1 \in Boxes :
                      /\ inbox' = [inbox EXCEPT ![s] = b1] /\ b1["client"] = inbox[s]["client"]
                      /\ b1["daemon"] = IF "daemon" \in up[s] THEN inbox[s]["daemon"] \o x
                                        ELSE inbox[s]["daemon"]
           /\ Sends(s, "daemon", x) =>
                /\ "daemon" \in up[s]
                /\ \E b1 \in Boxes :
                      /\ inbox' = [inbox EXCEPT ![s] = b1] /\ b1["daemon"] = inbox[s]["daemon"]
                      /\ b1["client"] = IF "client" \in up[s] THEN inbox[s]["client"] \o x
                                        ELSE inbox[s]["client"]
<1>1. PICK b \in Boxes : b = inbox[s] /\ inbox = [inbox EXCEPT ![s] = b]
         /\ b["client"] \in Seq(Int) /\ b["daemon"] \in Seq(Int)
  BY Parts
<1>2. b["client"] \o x \in Seq(Int) /\ b["daemon"] \o x \in Seq(Int)
  BY <1>1, ConcatProperties
<1>3. PICK bd, bc : /\ bd = [b EXCEPT !["daemon"] = b["daemon"] \o x]
                    /\ bc = [b EXCEPT !["client"] = b["client"] \o x]
  OBVIOUS
<1>4. bd \in Boxes /\ bc \in Boxes /\ bd["daemon"] = b["daemon"] \o x /\ bd["client"] = b["client"]
      /\ bc["client"] = b["client"] \o x /\ bc["daemon"] = b["daemon"]
  BY <1>2, <1>3 DEF Boxes, Sides
<1>5. ASSUME Sends(s, "client", x)
      PROVE  /\ "client" \in up[s]
             /\ inbox' = [inbox EXCEPT ![s] = IF "daemon" \in up[s] THEN bd ELSE b]
  BY <1>1, <1>3, <1>5, SideFacts DEF Sends
<1>6. ASSUME Sends(s, "daemon", x)
      PROVE  /\ "daemon" \in up[s]
             /\ inbox' = [inbox EXCEPT ![s] = IF "client" \in up[s] THEN bc ELSE b]
  BY <1>1, <1>3, <1>6, SideFacts DEF Sends
<1>7. QED
  BY <1>1, <1>4, <1>5, <1>6

\* The parts of a sequence that is not empty.
LEMMA RestFacts ==
    ASSUME NEW x \in Seq(Int), x # <<>>
    PROVE  /\ Head(x) \in Int /\ Head(x) = x[1] /\ Tail(x) \in Seq(Int)
           /\ Len(x) \in Nat /\ Len(x) >= 1 /\ Len(Tail(x)) = Len(x) - 1
           /\ \A j \in 1..Len(x) - 1 : Tail(x)[j] = x[j + 1]
<1>1. Len(x) \in Nat /\ Len(x) >= 1
  BY EmptySeq
<1>2. Tail(x) \in Seq(Int) /\ Len(Tail(x)) = Len(x) - 1 /\ Head(x) \in Int
      /\ \A j \in 1..Len(Tail(x)) : Tail(x)[j] = x[j + 1]
  BY HeadTailProperties
<1>3. Head(x) = x[1]
  OBVIOUS
<1>4. QED
  BY <1>1, <1>2, <1>3

\* What is taken is the first item of the inbox.
LEMMA TakenFacts ==
    ASSUME Setting, Transferred, NEW s \in Sessions, NEW side \in Sides, Arrived(s, side)
    PROVE  \E b1 \in Boxes, h \in Int :
              /\ Taken(s, side) = [inbox EXCEPT ![s] = b1]
              /\ \A x \in Sides \ {side} : b1[x] = inbox[s][x]
              /\ h = Head(inbox[s][side]) /\ h = inbox[s][side][1]
              /\ Len(inbox[s][side]) \in Nat /\ Len(inbox[s][side]) >= 1
              /\ inbox[s][side] # <<>>
              /\ b1[side] \in Seq(Int) /\ Len(b1[side]) = Len(inbox[s][side]) - 1
              /\ \A j \in 1..Len(b1[side]) : b1[side][j] = inbox[s][side][j + 1]
<1>1. PICK b \in Boxes : b = inbox[s] /\ b["client"] \in Seq(Int) /\ b["daemon"] \in Seq(Int)
  BY Parts
<1>2. PICK x \in Seq(Int) : x = b[side] /\ x # <<>>
  BY <1>1 DEF Sides, Arrived
<1>3. PICK t \in Seq(Int) : /\ t = Tail(x) /\ Len(t) = Len(x) - 1
                           /\ \A j \in 1..Len(t) : t[j] = x[j + 1]
  <2>1. /\ Tail(x) \in Seq(Int) /\ Len(Tail(x)) = Len(x) - 1
        /\ \A j \in 1..Len(x) - 1 : Tail(x)[j] = x[j + 1]
    BY <1>2, RestFacts
  <2>2. QED
    BY <2>1
<1>4. PICK b1 : b1 = [b EXCEPT ![side] = t]
  OBVIOUS
<1>5. b1 \in Boxes /\ b1[side] = t /\ \A y \in Sides \ {side} : b1[y] = b[y]
  BY <1>1, <1>4 DEF Boxes
<1>6. Taken(s, side) = [inbox EXCEPT ![s] = b1]
  BY <1>1, <1>2, <1>3, <1>4 DEF Taken
<1>7. Head(x) \in Int /\ Head(x) = x[1] /\ Len(x) \in Nat /\ Len(x) >= 1
  BY <1>2, RestFacts
<1>8. PICK h \in Int : h = Head(x) /\ h = x[1] /\ Len(x) \in Nat /\ Len(x) >= 1
  BY <1>7
<1>9. x = inbox[s][side]
  BY <1>1, <1>2
<1>10. b1 \in Boxes /\ h \in Int /\ \A y \in Sides \ {side} : b1[y] = inbox[s][y]
  BY <1>1, <1>5
<1>11. b1[side] \in Seq(Int) /\ Len(b1[side]) = Len(x) - 1
       /\ \A j \in 1..Len(b1[side]) : b1[side][j] = x[j + 1]
  BY <1>3, <1>5
<1>12. QED
  BY <1>2, <1>6, <1>8, <1>9, <1>10, <1>11

\* The same, for the call.
LEMMA TakenByClient ==
    ASSUME Setting, Transferred, NEW s \in Sessions, Arrived(s, "client")
    PROVE  \E b1 \in Boxes, h \in Int :
              /\ Taken(s, "client") = [inbox EXCEPT ![s] = b1]
              /\ b1["daemon"] = inbox[s]["daemon"]
              /\ h = Head(inbox[s]["client"]) /\ h = inbox[s]["client"][1]
              /\ Len(inbox[s]["client"]) \in Nat /\ Len(inbox[s]["client"]) >= 1
              /\ inbox[s]["client"] # <<>>
              /\ b1["client"] \in Seq(Int) /\ Len(b1["client"]) = Len(inbox[s]["client"]) - 1
              /\ \A j \in 1..Len(b1["client"]) : b1["client"][j] = inbox[s]["client"][j + 1]
<1>1. "client" \in Sides /\ "daemon" \in Sides \ {"client"}
  BY DEF Sides
<1>2. QED
  BY <1>1, TakenFacts

\* The same, for the thread.
LEMMA TakenByDaemon ==
    ASSUME Setting, Transferred, NEW s \in Sessions, Arrived(s, "daemon")
    PROVE  \E b1 \in Boxes, h \in Int :
              /\ Taken(s, "daemon") = [inbox EXCEPT ![s] = b1]
              /\ b1["client"] = inbox[s]["client"]
              /\ h = Head(inbox[s]["daemon"]) /\ h = inbox[s]["daemon"][1]
              /\ Len(inbox[s]["daemon"]) \in Nat /\ Len(inbox[s]["daemon"]) >= 1
              /\ b1["daemon"] \in Seq(Int) /\ Len(b1["daemon"]) = Len(inbox[s]["daemon"]) - 1
              /\ \A j \in 1..Len(b1["daemon"]) : b1["daemon"][j] = inbox[s]["daemon"][j + 1]
<1>1. "daemon" \in Sides /\ "client" \in Sides \ {"daemon"}
  BY DEF Sides
<1>2. QED
  BY <1>1, TakenFacts

\* A side that closes brings the connection down and loses what it has to read.
LEMMA ClosesFacts ==
    ASSUME Setting, Transferred, NEW s \in Sessions
    PROVE  /\ closes(s, "client") =>
                \E u1 \in SUBSET Sides, b1 \in Boxes :
                   /\ up' = [up EXCEPT ![s] = u1] /\ u1 # Sides
                   /\ inbox' = [inbox EXCEPT ![s] = b1]
                   /\ b1["client"] = <<>> /\ b1["daemon"] = inbox[s]["daemon"]
           /\ closes(s, "daemon") =>
                \E u1 \in SUBSET Sides, b1 \in Boxes :
                   /\ up' = [up EXCEPT ![s] = u1] /\ u1 # Sides
                   /\ inbox' = [inbox EXCEPT ![s] = b1]
                   /\ b1["daemon"] = <<>> /\ b1["client"] = inbox[s]["client"]
<1>1. PICK b \in Boxes, u \in SUBSET Sides : b = inbox[s] /\ u = up[s]
         /\ b["client"] \in Seq(Int) /\ b["daemon"] \in Seq(Int)
  BY Parts
<1>2. PICK bd, bc : bd = [b EXCEPT !["daemon"] = <<>>] /\ bc = [b EXCEPT !["client"] = <<>>]
  OBVIOUS
<1>3. <<>> \in Seq(Int)
  OBVIOUS
<1>4. /\ bc \in Boxes /\ bc["client"] = <<>> /\ bc["daemon"] = b["daemon"]
      /\ bd \in Boxes /\ bd["daemon"] = <<>> /\ bd["client"] = b["client"]
  BY <1>1, <1>2, <1>3 DEF Boxes, Sides
<1>5. {} # Sides /\ u \ {"client"} # Sides /\ u \ {"daemon"} # Sides
  BY DEF Sides
<1>6. ASSUME closes(s, "client")
      PROVE  inbox' = [inbox EXCEPT ![s] = bc]
             /\ (up' = [up EXCEPT ![s] = {}] \/ up' = [up EXCEPT ![s] = u \ {"client"}])
  BY <1>1, <1>2, <1>6 DEF closes
<1>7. ASSUME closes(s, "daemon")
      PROVE  inbox' = [inbox EXCEPT ![s] = bd]
             /\ (up' = [up EXCEPT ![s] = {}] \/ up' = [up EXCEPT ![s] = u \ {"daemon"}])
  BY <1>1, <1>2, <1>7 DEF closes
<1>8. QED
  BY <1>1, <1>4, <1>5, <1>6, <1>7

\* The request is the first thing a connection carries.
LEMMA TrRequest ==
    ASSUME Setting, Transferred, NEW s \in Sessions, request(s)
    PROVE  Transferred'
<1>1. PICK c \in Clients, d \in Threads, u \in SUBSET Sides, b \in Boxes, f \in Seq(Int) :
              /\ c = client[s] /\ d = daemon[s] /\ u = up[s] /\ b = inbox[s] /\ f = Contents(s)
              /\ client = [client EXCEPT ![s] = c] /\ daemon = [daemon EXCEPT ![s] = d]
              /\ up = [up EXCEPT ![s] = u] /\ inbox = [inbox EXCEPT ![s] = b]
              /\ Session(c, d, u, b, f)
  BY Parts
<1>2. /\ c.pc = "request" /\ daemon' = daemon /\ up' = up /\ inode' = inode /\ dirent' = dirent
      /\ dirent \in {Absent} \cup Inodes
  BY <1>1 DEF request, DiskSame, Transferred, Typed
<1>3. CASE Returns(s, -1) /\ inbox' = inbox
  BY <1>2, <1>3, FailsStep
<1>4. CASE /\ Sends(s, "client", <<0, 0, 0>>)
           /\ client' = [client EXCEPT ![s].pc = AfterRequest(client[s].op)]
  <2>1. b["daemon"] = <<>> /\ c.op # "none"
    BY <1>1, <1>2 DEF Session, Kinds
  <2>2. PICK p : /\ p = AfterRequest(c.op) /\ p \in {"size", "sendsize", "status"}
                 /\ p = "size" <=> c.op = "download"
                 /\ p = "sendsize" <=> c.op = "upload"
    BY DEF AfterRequest
  <2>3. PICK c1 : c1 = [c EXCEPT !.pc = p]
    OBVIOUS
  <2>4. client' = [client EXCEPT ![s] = c1]
    BY <1>1, <1>4, <2>2, <2>3
  <2>5. /\ c1 \in Clients /\ c1.pc = p /\ c1.op = c.op /\ c1.n = c.n /\ c1.local = c.local
        /\ c1.result = c.result /\ c1.size = c.size
    BY <2>2, <2>3 DEF Clients
  <2>6. PICK x \in Seq(Int) : x = <<0, 0, 0>> /\ Len(x) = 3
    <3>1. PICK z \in Int : z = 0
      OBVIOUS
    <3>2. <<z, z, z>> \in Seq(Int) /\ Len(<<z, z, z>>) = 3
      OBVIOUS
    <3>3. QED
      BY <3>1, <3>2
  <2>7. PICK b1 \in Boxes :
           /\ inbox' = [inbox EXCEPT ![s] = b1] /\ b1["client"] = b["client"]
           /\ b1["daemon"] = IF "daemon" \in u THEN b["daemon"] \o x ELSE b["daemon"]
    <3>1. Sends(s, "client", x)
      BY <1>4, <2>6
    <3>2. QED
      BY <1>1, <3>1, SendsFacts
  <2>8. Len(b1["daemon"]) <= 3 /\ ("daemon" \in u => Len(b1["daemon"]) = 3)
    BY <1>1, <2>1, <2>6, <2>7
  <2>9. c.op \in {"rm", "mkdir", "download", "upload"}
    BY <2>1 DEF Clients
  <2>10. Kinds(c1, d, b1)
    BY <1>1, <1>2, <2>2, <2>5, <2>9, <2>7 DEF Session, Kinds
  <2>11. ~d.disturbed /\ c1.op = "download" => Download(c1, d, u, b1, f)
    <3>1. SUFFICES ASSUME ~d.disturbed, c1.op = "download" PROVE Download(c1, d, u, b1, f)
      OBVIOUS
    <3>2. Download(c, d, u, b, f)
      BY <1>1, <2>5, <3>1 DEF Session
    <3>3. Got(c1) = Got(c)
      BY <1>2, <2>2, <2>5 DEF Got
    <3>4. QED
      BY <1>2, <2>2, <2>5, <2>7, <3>2, <3>3 DEF Download
  <2>12. ~d.disturbed /\ c1.op = "upload" => Upload(c1, d, u, b1, f)
    <3>1. SUFFICES ASSUME ~d.disturbed, c1.op = "upload" PROVE Upload(c1, d, u, b1, f)
      OBVIOUS
    <3>2. Upload(c, d, u, b, f)
      BY <1>1, <2>5, <3>1 DEF Session
    <3>3. u = Sides => "daemon" \in u
      BY DEF Sides
    <3>4. d.pc \in {"none", "request", "close", "end"} /\ Consumed(d) = 0
      BY <1>1, <1>2 DEF Session, Kinds, Consumed
    <3>5. SizeOf(c1) = SizeOf(c)
      BY <2>5 DEF SizeOf
    <3>6. QED
      BY <1>2, <2>2, <2>5, <2>8, <3>1, <3>2, <3>3, <3>4, <3>5 DEF Upload
  <2>13. Session(c1, d, u, b1, f)
    BY <2>5, <2>10, <2>11, <2>12 DEF Session
  <2>14. QED
    BY <1>1, <1>2, <2>4, <2>5, <2>13, <2>7, QuietStep DEF Live
<1>5. QED
  BY <1>3, <1>4 DEF request

\* An item more in one inbox.
LEMMA AppendsFacts ==
    ASSUME Setting, Transferred, NEW s \in Sessions, NEW x \in Int
    PROVE  /\ inbox' = [inbox EXCEPT ![s].daemon = Append(@, x)] =>
                \E b1 \in Boxes :
                   /\ inbox' = [inbox EXCEPT ![s] = b1] /\ b1["client"] = inbox[s]["client"]
                   /\ b1["daemon"] = Append(inbox[s]["daemon"], x)
           /\ inbox' = [inbox EXCEPT ![s].client = Append(@, x)] =>
                \E b1 \in Boxes :
                   /\ inbox' = [inbox EXCEPT ![s] = b1] /\ b1["daemon"] = inbox[s]["daemon"]
                   /\ b1["client"] = Append(inbox[s]["client"], x)
<1>1. PICK b \in Boxes : b = inbox[s] /\ b["client"] \in Seq(Int) /\ b["daemon"] \in Seq(Int)
  BY Parts
<1>2. PICK bd, bc : bd = [b EXCEPT !["daemon"] = Append(b["daemon"], x)]
                    /\ bc = [b EXCEPT !["client"] = Append(b["client"], x)]
  OBVIOUS
<1>3. Append(b["daemon"], x) \in Seq(Int) /\ Append(b["client"], x) \in Seq(Int)
  BY <1>1
<1>4. /\ bc \in Boxes /\ bc["client"] = Append(b["client"], x) /\ bc["daemon"] = b["daemon"]
      /\ bd \in Boxes /\ bd["daemon"] = Append(b["daemon"], x) /\ bd["client"] = b["client"]
  BY <1>2, <1>3 DEF Boxes, Sides
<1>5. /\ inbox' = [inbox EXCEPT ![s].daemon = Append(@, x)] => inbox' = [inbox EXCEPT ![s] = bd]
      /\ inbox' = [inbox EXCEPT ![s].client = Append(@, x)] => inbox' = [inbox EXCEPT ![s] = bc]
  BY <1>1, <1>2
<1>6. QED
  BY <1>1, <1>4, <1>5

\* The call reads the size of the file.
LEMMA TrRecvSize ==
    ASSUME Setting, Transferred, NEW s \in Sessions, recvSize(s)
    PROVE  Transferred'
<1>1. PICK c \in Clients, d \in Threads, u \in SUBSET Sides, b \in Boxes, f \in Seq(Int) :
              /\ c = client[s] /\ d = daemon[s] /\ u = up[s] /\ b = inbox[s] /\ f = Contents(s)
              /\ client = [client EXCEPT ![s] = c] /\ daemon = [daemon EXCEPT ![s] = d]
              /\ up = [up EXCEPT ![s] = u] /\ inbox = [inbox EXCEPT ![s] = b]
              /\ b["client"] \in Seq(Int) /\ b["daemon"] \in Seq(Int)
              /\ Session(c, d, u, b, f)
  BY Parts
<1>2. /\ c.pc = "size" /\ c.op = "download" /\ daemon' = daemon /\ up' = up /\ inode' = inode
      /\ dirent' = dirent /\ dirent \in {Absent} \cup Inodes
  BY <1>1 DEF recvSize, DiskSame, Transferred, Typed, Session, Kinds
<1>3. PICK r \in Int : r = -1
  OBVIOUS
<1>4. CASE Returns(s, -1) /\ inbox' = inbox
  BY <1>2, <1>4, FailsStep
<1>5. CASE /\ Arrived(s, "client") /\ inbox' = Taken(s, "client")
           /\ IF Head(inbox[s].client) < 0 THEN Returns(s, -1)
              ELSE client' = [client EXCEPT ![s].pc = "receiving",
                                            ![s].size = Head(inbox[s].client),
                                            ![s].local = <<>>]
  <2>1. PICK b1 \in Boxes, h \in Int :
           /\ inbox' = [inbox EXCEPT ![s] = b1] /\ b1["daemon"] = b["daemon"]
           /\ h = Head(b["client"]) /\ h = b["client"][1] /\ b["client"] # <<>>
           /\ Len(b["client"]) \in Nat /\ Len(b["client"]) >= 1
           /\ b1["client"] \in Seq(Int) /\ Len(b1["client"]) = Len(b["client"]) - 1
           /\ \A j \in 1..Len(b1["client"]) : b1["client"][j] = b["client"][j + 1]
    BY <1>1, <1>5, TakenByClient
  <2>2. d.pc \notin {"none", "request", "sendsize"}
    BY <1>1, <1>2, <2>1 DEF Session, Kinds
  <2>3. CASE Head(b["client"]) < 0
    <3>1. Returns(s, r) /\ r # 0
      BY <1>1, <1>3, <1>5, <2>3
    <3>2. QED
      BY <1>1, <1>2, <2>1, <2>2, <3>1, ReturnsStep
  <2>4. CASE ~(Head(b["client"]) < 0)
    <3>1. PICK z \in Int, l \in Seq(Int) : z = h /\ l = <<>> /\ Len(l) = 0
      BY EmptySeq
    <3>2. PICK c1 : c1 = [c EXCEPT !.pc = "receiving", !.size = z, !.local = l]
      OBVIOUS
    <3>3. client' = [client EXCEPT ![s] = c1]
      <4>1. Head(inbox[s].client) = h /\ ~(h < 0)
        BY <1>1, <2>1, <2>4
      <4>2. client' = [client EXCEPT ![s].pc = "receiving", ![s].size = z, ![s].local = l]
        BY <1>5, <3>1, <4>1
      <4>3. QED
        BY <1>1, <3>2, <4>2
    <3>4. /\ c1 \in Clients /\ c1.pc = "receiving" /\ c1.op = c.op /\ c1.n = c.n /\ c1.local = l
          /\ c1.result = c.result /\ c1.size = z
      BY <3>1, <3>2 DEF Clients
    <3>5. Kinds(c1, d, b1)
      BY <1>1, <1>2, <2>1, <2>2, <3>4 DEF Session, Kinds
    <3>6. ~d.disturbed => Download(c1, d, u, b1, f)
      <4>1. SUFFICES ASSUME ~d.disturbed PROVE Download(c1, d, u, b1, f)
        OBVIOUS
      <4>2. Download(c, d, u, b, f)
        BY <1>1, <1>2, <4>1 DEF Session
      <4>3. Got(c) = 0 /\ Got(c1) = 1
        BY <1>2, <3>1, <3>4 DEF Got
      <4>4. Len(b["client"]) >= 1 /\ Len(b1["client"]) = Len(b["client"]) - 1
            /\ \A j \in 1..Len(b1["client"]) : b1["client"][j] = b["client"][j + 1]
        BY <1>1, <2>1
      <4>5. z = FileSize(d)
        BY <1>2, <2>1, <3>1, <4>2, <4>3, <4>4 DEF Download
      <4>6. z = Len(d.opened)
        BY <2>1, <2>4, <3>1, <4>5 DEF FileSize
      <4>7. ASSUME NEW j \in 1..Len(b1["client"])
            PROVE  /\ 1 + j - 1 <= Len(d.opened)
                   /\ b1["client"][j] = d.opened[1 + j - 1]
        <5>1. j + 1 \in 1..Len(b["client"]) /\ j + 1 > 1
          BY <4>4
        <5>2. /\ Got(c) + (j + 1) - 1 <= Len(d.opened)
              /\ b["client"][j + 1] = d.opened[Got(c) + (j + 1) - 1]
          BY <1>2, <4>2, <4>3, <5>1 DEF Download
        <5>3. Got(c) + (j + 1) - 1 = j /\ 1 + j - 1 = j
          BY <4>3
        <5>4. QED
          BY <4>4, <5>2, <5>3
      <4>8. u = Sides /\ d.pc = "sending" => 1 + Len(b1["client"]) = 1 + d.n
        BY <1>2, <4>2, <4>3, <4>4 DEF Download
      <4>9. \A j \in 1..Len(b1["client"]) :
               /\ Got(c1) + j # 1
               /\ Got(c1) + j - 1 <= Len(d.opened)
               /\ b1["client"][j] = d.opened[Got(c1) + j - 1]
        BY <4>3, <4>7
      <4>10. c1.result # 0
        BY <1>1, <1>2, <3>4 DEF Session, Kinds
      <4>11. \A k \in 1..Len(l) : FALSE
        BY <3>1
      <4>12. Len(l) <= z
        BY <2>1, <2>4, <3>1
      <4>13. QED
        BY <1>2, <3>4, <4>2, <4>3, <4>6, <4>8, <4>9, <4>10, <4>11, <4>12 DEF Download
    <3>7. Session(c1, d, u, b1, f)
      BY <1>2, <3>4, <3>5, <3>6 DEF Session
    <3>8. QED
      BY <1>1, <1>2, <2>1, <3>3, <3>4, <3>7, QuietStep DEF Live
  <2>5. QED
    BY <2>3, <2>4
<1>6. QED
  BY <1>4, <1>5 DEF recvSize

\* The call reads a block, or has as many as the size says.
LEMMA TrRecvfile ==
    ASSUME Setting, Transferred, NEW s \in Sessions, recvfile(s)
    PROVE  Transferred'
<1>1. PICK c \in Clients, d \in Threads, u \in SUBSET Sides, b \in Boxes, f \in Seq(Int) :
              /\ c = client[s] /\ d = daemon[s] /\ u = up[s] /\ b = inbox[s] /\ f = Contents(s)
              /\ client = [client EXCEPT ![s] = c] /\ daemon = [daemon EXCEPT ![s] = d]
              /\ up = [up EXCEPT ![s] = u] /\ inbox = [inbox EXCEPT ![s] = b]
              /\ b["client"] \in Seq(Int) /\ b["daemon"] \in Seq(Int)
              /\ Session(c, d, u, b, f)
  BY Parts
<1>2. /\ c.pc = "receiving" /\ c.op = "download" /\ daemon' = daemon /\ inode' = inode
      /\ dirent' = dirent /\ dirent \in {Absent} \cup Inodes
      /\ d.pc \notin {"none", "request", "sendsize"}
  BY <1>1 DEF recvfile, DiskSame, Transferred, Typed, Session, Kinds
<1>3. PICK r \in Int : r = -1
  OBVIOUS
<1>4. CASE Returns(s, -1) /\ up' = up /\ inbox' = inbox
  BY <1>2, <1>4, FailsStep
<1>5. CASE /\ Returns(s, -1) /\ up' = up
           /\ inbox' = [inbox EXCEPT ![s].daemon = Append(@, PeerError)]
  <2>1. Returns(s, r) /\ r # 0
    BY <1>3, <1>5
  <2>2. PICK z \in Int : z = PeerError
    BY DEF PeerError
  <2>3. PICK b1 \in Boxes : inbox' = [inbox EXCEPT ![s] = b1] /\ b1["client"] = b["client"]
    BY <1>1, <1>5, <2>2, AppendsFacts
  <2>4. up' = [up EXCEPT ![s] = u]
    BY <1>1, <1>5
  <2>5. QED
    BY <1>1, <1>2, <2>1, <2>3, <2>4, ReturnsStep
<1>6. CASE /\ Len(c.local) < c.size /\ Arrived(s, "client") /\ up' = up
           /\ client' = [client EXCEPT ![s].local = Append(@, Head(inbox[s].client))]
           /\ inbox' = Taken(s, "client")
  <2>1. PICK b1 \in Boxes, h \in Int :
           /\ inbox' = [inbox EXCEPT ![s] = b1] /\ b1["daemon"] = b["daemon"]
           /\ h = Head(b["client"]) /\ h = b["client"][1] /\ b["client"] # <<>>
           /\ Len(b["client"]) \in Nat /\ Len(b["client"]) >= 1
           /\ b1["client"] \in Seq(Int) /\ Len(b1["client"]) = Len(b["client"]) - 1
           /\ \A j \in 1..Len(b1["client"]) : b1["client"][j] = b["client"][j + 1]
    <3>1. Arrived(s, "client") /\ inbox' = Taken(s, "client")
      BY <1>6
    <3>2. b = inbox[s]
      BY <1>1
    <3>3. QED
      BY <3>1, <3>2, TakenByClient
  <2>2. c.local \in Seq(Int) /\ d.opened \in Seq(Int)
    BY DEF Clients, Threads
  <2>3. PICK l \in Seq(Int) : l = Append(c.local, h)
    <3>1. Append(c.local, h) \in Seq(Int)
      BY <2>2
    <3>2. QED
      BY <3>1
  <2>4. /\ Len(l) = Len(c.local) + 1 /\ l[Len(l)] = b["client"][1]
        /\ \A k \in 1..Len(c.local) : l[k] = c.local[k]
    BY <2>1, <2>2, <2>3
  <2>5. PICK c1 : c1 = [c EXCEPT !.local = l]
    OBVIOUS
  <2>6. client' = [client EXCEPT ![s] = c1]
    BY <1>1, <1>6, <2>1, <2>3, <2>5
  <2>7. /\ c1 \in Clients /\ c1.pc = c.pc /\ c1.op = c.op /\ c1.n = c.n /\ c1.local = l
        /\ c1.result = c.result /\ c1.size = c.size
    BY <2>5 DEF Clients
  <2>8. Kinds(c1, d, b1)
    BY <1>1, <1>2, <2>1, <2>7 DEF Session, Kinds
  <2>9. ~d.disturbed => Download(c1, d, u, b1, f)
    <3>1. SUFFICES ASSUME ~d.disturbed PROVE Download(c1, d, u, b1, f)
      OBVIOUS
    <3>2. Download(c, d, u, b, f)
      BY <1>1, <1>2, <3>1 DEF Session
    <3>3. /\ Got(c) = 1 + Len(c.local) /\ Got(c1) = 1 + Len(l)
          /\ Len(c.local) \in Nat /\ Len(l) \in Nat
      BY <1>2, <2>2, <2>7 DEF Got
    <3>4. Len(b["client"]) >= 1 /\ Len(b1["client"]) = Len(b["client"]) - 1
          /\ \A j \in 1..Len(b1["client"]) : b1["client"][j] = b["client"][j + 1]
      BY <2>1
    <3>5. Len(b["client"]) \in Nat /\ Len(b1["client"]) \in Nat /\ Len(l) = Len(c.local) + 1
      BY <2>1, <2>4
    <3>6. PICK p \in Nat, q \in Nat :
              /\ Len(c.local) = p /\ Len(l) = p + 1 /\ Len(b["client"]) = q
              /\ Len(b1["client"]) = q - 1 /\ Got(c) = p + 1 /\ Got(c1) = p + 2
      <4>1. PICK p \in Nat, q \in Nat : p = Len(c.local) /\ q = Len(b["client"])
        BY <3>3, <3>5
      <4>2. Len(l) = p + 1 /\ Len(b1["client"]) = q - 1
        BY <3>4, <3>5, <4>1
      <4>3. Got(c) = p + 1 /\ Got(c1) = p + 2
        BY <3>3, <4>1, <4>2
      <4>4. QED
        BY <4>1, <4>2, <4>3
    <3>7. \A j \in 1..Len(b["client"]) :
             /\ Len(c.local) + j <= Len(d.opened)
             /\ b["client"][j] = d.opened[Len(c.local) + j]
      <4>1. \A j \in 1..Len(b["client"]) :
               Got(c) + j > 1 /\ Got(c) + j - 1 = Len(c.local) + j
        BY <3>3
      <4>2. QED
        BY <1>2, <3>2, <4>1 DEF Download
    <3>8. Len(l) <= c.size /\ c.size = Len(d.opened) /\ c.size \in Int
      BY <1>2, <1>6, <2>4, <3>2, <3>3 DEF Download, Clients
    <3>9. l[Len(l)] = d.opened[Len(l)]
      BY <2>4, <3>3, <3>4, <3>7
    <3>10. \A k \in 1..Len(l) : l[k] = d.opened[k]
      <4>1. \A k \in 1..Len(c.local) : l[k] = d.opened[k]
        BY <1>2, <2>4, <3>2 DEF Download
      <4>2. \A k \in 1..Len(l) : k \in 1..Len(c.local) \/ k = Len(l)
        BY <2>4, <3>3
      <4>3. QED
        BY <3>9, <4>1, <4>2
    <3>11. \A j \in 1..Len(b1["client"]) :
             /\ Got(c1) + j # 1
             /\ Got(c1) + j - 1 <= Len(d.opened)
             /\ b1["client"][j] = d.opened[Got(c1) + j - 1]
      <4>1. ASSUME NEW j \in 1..Len(b1["client"])
            PROVE  /\ j + 1 \in 1..Len(b["client"])
                   /\ Got(c1) + j # 1
                   /\ Got(c1) + j - 1 = Len(c.local) + (j + 1)
        BY <3>6
      <4>2. QED
        BY <3>4, <3>7, <4>1
    <3>12. u = Sides /\ d.pc = "sending" => Got(c1) + Len(b1["client"]) = 1 + d.n
      <4>1. u = Sides /\ d.pc = "sending" => Got(c) + Len(b["client"]) = 1 + d.n
        BY <1>2, <3>2 DEF Download
      <4>2. Got(c1) + Len(b1["client"]) = Got(c) + Len(b["client"])
        BY <3>6
      <4>3. QED
        BY <4>1, <4>2
    <3>13. c.result # 0
      BY <1>1, <1>2 DEF Session, Kinds
    <3>14. QED
      BY <1>2, <2>7, <3>2, <3>8, <3>10, <3>11, <3>12, <3>13 DEF Download
  <2>10. Session(c1, d, u, b1, f)
    BY <1>2, <2>7, <2>8, <2>9 DEF Session
  <2>11. /\ c1.op = client[s].op /\ d.fd = daemon[s].fd /\ d.disturbed = daemon[s].disturbed
         /\ Live(s) \/ d.pc \in {"none", "end"}
         /\ Session(c1, d, u, b1, Contents(s))
    BY <1>1, <2>7, <2>10 DEF Live
  <2>12. /\ daemon' = [daemon EXCEPT ![s] = d] /\ up' = [up EXCEPT ![s] = u]
         /\ inode' = inode /\ dirent' \in {Absent} \cup Inodes
    BY <1>1, <1>2, <1>6
  <2>13. QED
    BY <2>1, <2>6, <2>7, <2>11, <2>12, QuietStep
<1>7. CASE /\ Completed(s, "client", Len(c.local), c.size)
           /\ closes(s, "client")
           /\ \/ \E q \in LeftOver : Returns(s, q)
              \/ /\ c.local # <<>>
                 /\ client' = [client EXCEPT ![s].pc = "done", ![s].result = 0,
                                             ![s].local = Refused]
  <2>1. PICK u1 \in SUBSET Sides, b1 \in Boxes :
                   /\ up' = [up EXCEPT ![s] = u1] /\ u1 # Sides
                   /\ inbox' = [inbox EXCEPT ![s] = b1]
                   /\ b1["client"] = <<>> /\ b1["daemon"] = b["daemon"]
    <3>1. closes(s, "client")
      BY <1>7
    <3>2. \E u1 \in SUBSET Sides, b1 \in Boxes :
             /\ up' = [up EXCEPT ![s] = u1] /\ u1 # Sides
             /\ inbox' = [inbox EXCEPT ![s] = b1]
             /\ b1["client"] = <<>> /\ b1["daemon"] = inbox[s]["daemon"]
      BY <3>1, ClosesFacts
    <3>3. QED
      BY <1>1, <3>2
  <2>2. ~d.disturbed => c.local = d.opened
    <3>1. c.local \in Seq(Int) /\ d.opened \in Seq(Int) /\ Len(c.local) = c.size
      BY <1>7 DEF Clients, Threads, Completed
    <3>2. ASSUME ~d.disturbed
          PROVE  Len(c.local) = Len(d.opened) /\ \A k \in 1..Len(c.local) : c.local[k] = d.opened[k]
      BY <1>1, <1>2, <3>1, <3>2 DEF Session, Download
    <3>3. QED
      BY <3>1, <3>2, SeqEqual
  <2>3. ASSUME NEW q \in LeftOver, Returns(s, q) PROVE Transferred'
    <3>1. q \in Int
      BY DEF LeftOver
    <3>2. QED
      BY <1>1, <1>2, <2>1, <2>2, <2>3, <3>1, ReturnsStep
  <2>4. CASE client' = [client EXCEPT ![s].pc = "done", ![s].result = 0, ![s].local = Refused]
    <3>1. PICK l \in Seq(Int) : l = Refused
      <4>1. PICK z \in Int : z = -3
        OBVIOUS
      <4>2. <<z>> \in Seq(Int)
        OBVIOUS
      <4>3. QED
        BY <4>1, <4>2 DEF Refused
    <3>2. PICK q \in Int : q = 0
      OBVIOUS
    <3>3. PICK c1 : c1 = [c EXCEPT !.pc = "done", !.result = q, !.local = l]
      OBVIOUS
    <3>4. client' = [client EXCEPT ![s] = c1]
      BY <1>1, <2>4, <3>1, <3>3, <3>2
    <3>5. /\ c1 \in Clients /\ c1.pc = "done" /\ c1.op = c.op /\ c1.n = c.n /\ c1.local = l
      BY <3>3 DEF Clients
    <3>6. Session(c1, d, u1, b1, f)
      BY <1>1, <1>2, <2>1, <3>1, <3>5, Returned
    <3>7. QED
      BY <1>1, <1>2, <2>1, <3>4, <3>5, <3>6, QuietStep DEF Live
  <2>5. QED
    BY <1>7, <2>3, <2>4
<1>8. QED
  BY <1>1, <1>4, <1>5, <1>6, <1>7 DEF recvfile

-----------------------------------------------------------------------------
(*****************************************************************************)
(* Uploading.                                                                *)
(*****************************************************************************)
\* An item that is sent by the call.
LEMMA SendOne ==
    ASSUME Setting, Transferred, NEW s \in Sessions, NEW v \in Int
    PROVE  /\ Sends(s, "client", <<v>>) =>
                /\ "client" \in up[s]
                /\ \E b1 \in Boxes :
                      /\ inbox' = [inbox EXCEPT ![s] = b1] /\ b1["client"] = inbox[s]["client"]
                      /\ "daemon" \notin up[s] => b1["daemon"] = inbox[s]["daemon"]
                      /\ "daemon" \in up[s] => b1["daemon"] = Append(inbox[s]["daemon"], v)
           /\ Sends(s, "daemon", <<v>>) =>
                /\ "daemon" \in up[s]
                /\ \E b1 \in Boxes :
                      /\ inbox' = [inbox EXCEPT ![s] = b1] /\ b1["daemon"] = inbox[s]["daemon"]
                      /\ "client" \notin up[s] => b1["client"] = inbox[s]["client"]
                      /\ "client" \in up[s] => b1["client"] = Append(inbox[s]["client"], v)
<1>1. <<v>> \in Seq(Int)
  OBVIOUS
<1>2. PICK x \in Seq(Int) : x = <<v>>
  BY <1>1
<1>3. \A y \in Seq(Int) : y \o x = Append(y, v)
  BY <1>2
<1>4. inbox[s]["client"] \in Seq(Int) /\ inbox[s]["daemon"] \in Seq(Int)
  BY Parts
<1>5. inbox[s]["daemon"] \o x = Append(inbox[s]["daemon"], v)
      /\ inbox[s]["client"] \o x = Append(inbox[s]["client"], v)
  BY <1>3, <1>4
<1>6. ASSUME Sends(s, "client", <<v>>)
      PROVE  /\ "client" \in up[s]
             /\ \E b1 \in Boxes :
                      /\ inbox' = [inbox EXCEPT ![s] = b1] /\ b1["client"] = inbox[s]["client"]
                      /\ b1["daemon"] = IF "daemon" \in up[s] THEN inbox[s]["daemon"] \o x
                                        ELSE inbox[s]["daemon"]
  <2>1. Sends(s, "client", x)
    BY <1>2, <1>6
  <2>2. QED
    BY <2>1, SendsFacts
<1>7. ASSUME Sends(s, "daemon", <<v>>)
      PROVE  /\ "daemon" \in up[s]
             /\ \E b1 \in Boxes :
                      /\ inbox' = [inbox EXCEPT ![s] = b1] /\ b1["daemon"] = inbox[s]["daemon"]
                      /\ b1["client"] = IF "client" \in up[s] THEN inbox[s]["client"] \o x
                                        ELSE inbox[s]["client"]
  <2>1. Sends(s, "daemon", x)
    BY <1>2, <1>7
  <2>2. QED
    BY <2>1, SendsFacts
<1>8. QED
  BY <1>5, <1>6, <1>7

\* One item more at the end.
LEMMA AppendedFacts ==
    ASSUME NEW x \in Seq(Int), NEW v \in Int
    PROVE  /\ Append(x, v) \in Seq(Int) /\ Len(x) \in Nat /\ Len(Append(x, v)) = Len(x) + 1
           /\ Append(x, v)[Len(x) + 1] = v
           /\ \A j \in 1..Len(x) : Append(x, v)[j] = x[j]
           /\ \A j \in 1..Len(Append(x, v)) : j \in 1..Len(x) \/ j = Len(x) + 1
OBVIOUS

\* A count of items.
LEMMA ConsumedFacts ==
    ASSUME NEW d \in Threads
    PROVE  Consumed(d) \in Nat /\ d.n \in Nat
BY DEF Consumed, Threads

\* The item the call sends is the next of the upload.
LEMMA UploadSends ==
    ASSUME NEW c \in Clients, NEW d \in Threads, NEW u \in SUBSET Sides, NEW b \in Boxes,
           NEW f, Upload(c, d, u, b, f), NEW m \in Nat, NEW v \in Int,
           NEW c1 \in Clients, c1.pc = "sending", c1.local = c.local, c1.n = m,
           m = 0 \/ m <= SizeOf(c),
           u = Sides /\ d.pc \in Reads => Consumed(d) + Len(b["daemon"]) = 3 + m,
           m = 0 => v = SizeOf(c), m > 0 => v = c.local[m],
           NEW b1 \in Boxes, "client" \in u,
           "daemon" \notin u => b1["daemon"] = b["daemon"],
           "daemon" \in u => b1["daemon"] = Append(b["daemon"], v)
    PROVE  Upload(c1, d, u, b1, f)
<1>1. "daemon" \in u => u = Sides
  BY DEF Sides
<1>2. SizeOf(c1) = SizeOf(c)
  BY DEF SizeOf
<1>3. CASE "daemon" \notin u
  <2>1. u # Sides
    BY <1>3 DEF Sides
  <2>2. QED
    BY <1>2, <1>3, <2>1 DEF Upload
<1>4. CASE "daemon" \in u
  <2>1. PICK x \in Seq(Int), y \in Seq(Int), k \in Nat, q \in Nat :
           x = b["daemon"] /\ y = b1["daemon"] /\ k = Len(x) /\ q = Consumed(d)
    BY ConsumedFacts DEF Boxes, Sides
  <2>2. y = Append(x, v)
    BY <1>4, <2>1
  <2>3. Len(y) = k + 1 /\ y[k + 1] = v /\ \A j \in 1..k : y[j] = x[j]
    BY <2>1, <2>2, AppendedFacts
  <2>4. d.pc \in Reads => q + k = 3 + m
    BY <1>1, <1>4, <2>1
  <2>5. ASSUME d.pc \in Reads, NEW j \in 1..k + 1
        PROVE  /\ q + j = 4 => y[j] = SizeOf(c)
               /\ q + j > 4 => q + j - 4 <= SizeOf(c) /\ y[j] = c.local[q + j - 4]
    <3>1. CASE j \in 1..k
      <4>1. /\ q + j = 4 => x[j] = SizeOf(c)
            /\ q + j > 4 => q + j - 4 <= SizeOf(c) /\ x[j] = c.local[q + j - 4]
        BY <2>1, <2>5, <3>1 DEF Upload
      <4>2. QED
        BY <2>3, <3>1, <4>1
    <3>2. CASE j = k + 1
      <4>1. q + j = 4 + m /\ y[j] = v
        BY <2>3, <2>4, <2>5, <3>2
      <4>2. CASE m = 0
        BY <4>1, <4>2
      <4>3. CASE m > 0
        <5>1. q + j - 4 = m /\ m <= SizeOf(c) /\ v = c.local[m]
          BY <4>1, <4>3
        <5>2. QED
          BY <4>1, <4>3, <5>1
      <4>4. QED
        BY <4>2, <4>3
    <3>3. QED
      BY <2>5, <3>1, <3>2
  <2>6. d.pc \in Reads => q + Len(y) = 4 + m
    BY <2>3, <2>4
  <2>7. QED
    BY <1>2, <2>1, <2>3, <2>5, <2>6 DEF Upload
<1>5. QED
  BY <1>3, <1>4

\* The call sends the size of its file.
LEMMA TrSendSize ==
    ASSUME Setting, Transferred, NEW s \in Sessions, sendSize(s)
    PROVE  Transferred'
<1>1. PICK c \in Clients, d \in Threads, u \in SUBSET Sides, b \in Boxes, f \in Seq(Int) :
              /\ c = client[s] /\ d = daemon[s] /\ u = up[s] /\ b = inbox[s] /\ f = Contents(s)
              /\ client = [client EXCEPT ![s] = c] /\ daemon = [daemon EXCEPT ![s] = d]
              /\ up = [up EXCEPT ![s] = u] /\ inbox = [inbox EXCEPT ![s] = b]
              /\ b["client"] \in Seq(Int) /\ b["daemon"] \in Seq(Int)
              /\ Session(c, d, u, b, f)
  BY Parts
<1>2. /\ c.pc = "sendsize" /\ c.op = "upload" /\ daemon' = daemon /\ up' = up /\ inode' = inode
      /\ dirent' = dirent /\ dirent \in {Absent} \cup Inodes
  BY <1>1 DEF sendSize, DiskSame, Transferred, Typed, Session, Kinds
<1>3. CASE Returns(s, 0) /\ inbox' = inbox
  <2>1. PICK r \in Int : r = 0
    OBVIOUS
  <2>2. Returns(s, r)
    BY <1>3, <2>1
  <2>3. up' = [up EXCEPT ![s] = u] /\ inbox' = [inbox EXCEPT ![s] = b] /\ c.op # "download"
    BY <1>1, <1>2, <1>3
  <2>4. QED
    BY <1>1, <1>2, <2>2, <2>3, ReturnsStep
<1>4. CASE /\ Sends(s, "client", <<LocalSize(s)>>)
           /\ client' = [client EXCEPT ![s].pc = "sending", ![s].n = 0]
  <2>1. PICK v \in Int : v = SizeOf(c) /\ v = LocalSize(s)
    <3>1. c.local \in Seq(Int)
      BY DEF Clients
    <3>2. SizeOf(c) \in Int
      BY <3>1 DEF SizeOf
    <3>3. SizeOf(c) = LocalSize(s)
      BY <1>1 DEF SizeOf, LocalSize
    <3>4. QED
      BY <3>2, <3>3
  <2>2. Sends(s, "client", <<v>>)
    BY <1>4, <2>1
  <2>3. PICK b1 \in Boxes :
           /\ "client" \in u
           /\ inbox' = [inbox EXCEPT ![s] = b1] /\ b1["client"] = b["client"]
           /\ "daemon" \notin u => b1["daemon"] = b["daemon"]
           /\ "daemon" \in u => b1["daemon"] = Append(b["daemon"], v)
    BY <1>1, <2>2, SendOne
  <2>4. PICK m \in Nat : m = 0
    OBVIOUS
  <2>5. PICK c1 : c1 = [c EXCEPT !.pc = "sending", !.n = m]
    OBVIOUS
  <2>6. client' = [client EXCEPT ![s] = c1]
    BY <1>1, <1>4, <2>4, <2>5
  <2>7. /\ c1 \in Clients /\ c1.pc = "sending" /\ c1.op = c.op /\ c1.n = m /\ c1.local = c.local
        /\ c1.result = c.result /\ c1.size = c.size
    BY <2>5 DEF Clients
  <2>8. Kinds(c1, d, b1)
    BY <1>1, <1>2, <2>7 DEF Session, Kinds
  <2>9. ASSUME ~d.disturbed PROVE Upload(c1, d, u, b1, f)
    <3>1. Upload(c, d, u, b, f)
      BY <1>1, <1>2, <2>9 DEF Session
    <3>2. u = Sides /\ d.pc \in Reads => Consumed(d) + Len(b["daemon"]) = 3 + m
      BY <1>2, <2>4, <3>1 DEF Upload
    <3>3. ~(m > 0) /\ (m = 0 \/ m <= SizeOf(c))
      BY <2>4
    <3>4. (m = 0 => v = SizeOf(c)) /\ (m > 0 => v = c.local[m])
      BY <2>1, <3>3
    <3>5. QED
      BY <2>3, <2>7, <3>1, <3>2, <3>3, <3>4, UploadSends
  <2>10. Session(c1, d, u, b1, f)
    BY <1>2, <2>7, <2>8, <2>9 DEF Session
  <2>11. up' = [up EXCEPT ![s] = u] /\ daemon' = [daemon EXCEPT ![s] = d]
    BY <1>1, <1>2
  <2>12. Live(s) \/ d.pc \in {"none", "end"}
    BY <1>1 DEF Live
  <2>13. QED
    BY <1>1, <1>2, <2>3, <2>6, <2>7, <2>10, <2>11, <2>12, QuietStep
<1>5. QED
  BY <1>3, <1>4 DEF sendSize

\* The call sends the next block, or has sent them all.
LEMMA TrSendfile ==
    ASSUME Setting, Transferred, NEW s \in Sessions, sendfile(s)
    PROVE  Transferred'
<1>1. PICK c \in Clients, d \in Threads, u \in SUBSET Sides, b \in Boxes, f \in Seq(Int) :
              /\ c = client[s] /\ d = daemon[s] /\ u = up[s] /\ b = inbox[s] /\ f = Contents(s)
              /\ client = [client EXCEPT ![s] = c] /\ daemon = [daemon EXCEPT ![s] = d]
              /\ up = [up EXCEPT ![s] = u] /\ inbox = [inbox EXCEPT ![s] = b]
              /\ b["client"] \in Seq(Int) /\ b["daemon"] \in Seq(Int)
              /\ Session(c, d, u, b, f)
  BY Parts
<1>2. /\ c.pc = "sending" /\ c.op = "upload" /\ daemon' = daemon /\ inode' = inode
      /\ dirent' = dirent /\ dirent \in {Absent} \cup Inodes
  BY <1>1 DEF sendfile, DiskSame, Transferred, Typed, Session, Kinds
<1>3. CASE Returns(s, 0) /\ up' = up /\ inbox' = inbox
  <2>1. PICK r \in Int : r = 0
    OBVIOUS
  <2>2. Returns(s, r)
    BY <1>3, <2>1
  <2>3. up' = [up EXCEPT ![s] = u] /\ inbox' = [inbox EXCEPT ![s] = b] /\ c.op # "download"
    BY <1>1, <1>2, <1>3
  <2>4. QED
    BY <1>1, <1>2, <2>2, <2>3, ReturnsStep
<1>4. CASE /\ c.n < LocalSize(s) /\ up' = up
           /\ Sends(s, "client", <<c.local[c.n + 1]>>)
           /\ client' = [client EXCEPT ![s].n = @ + 1]
  <2>1. c.local \in Seq(Int) /\ Len(c.local) \in Nat /\ SizeOf(c) = LocalSize(s)
    BY <1>1 DEF Clients, SizeOf, LocalSize
  <2>2. PICK m \in Nat : m = c.n + 1
    BY DEF Clients
  <2>3. c.local # Missing /\ SizeOf(c) = Len(c.local)
    BY <1>1, <1>4, <2>1, <2>2 DEF SizeOf, Clients
  <2>4. m \in 1..Len(c.local) /\ m <= SizeOf(c)
    BY <1>4, <2>1, <2>2, <2>3 DEF Clients
  <2>5. PICK v \in Int : v = c.local[m]
    BY <2>1, <2>4, ElementOfSeq
  <2>6. Sends(s, "client", <<v>>)
    BY <1>4, <2>2, <2>5
  <2>7. PICK b1 \in Boxes :
           /\ "client" \in u
           /\ inbox' = [inbox EXCEPT ![s] = b1] /\ b1["client"] = b["client"]
           /\ "daemon" \notin u => b1["daemon"] = b["daemon"]
           /\ "daemon" \in u => b1["daemon"] = Append(b["daemon"], v)
    BY <1>1, <2>6, SendOne
  <2>8. PICK c1 : c1 = [c EXCEPT !.n = m]
    OBVIOUS
  <2>9. client' = [client EXCEPT ![s] = c1]
    BY <1>1, <1>4, <2>2, <2>8
  <2>10. /\ c1 \in Clients /\ c1.pc = "sending" /\ c1.op = c.op /\ c1.n = m /\ c1.local = c.local
        /\ c1.result = c.result /\ c1.size = c.size
    BY <1>2, <2>8 DEF Clients
  <2>11. Kinds(c1, d, b1)
    BY <1>1, <1>2, <2>7, <2>10 DEF Session, Kinds
  <2>12. ASSUME ~d.disturbed PROVE Upload(c1, d, u, b1, f)
    <3>1. Upload(c, d, u, b, f)
      BY <1>1, <1>2, <2>12 DEF Session
    <3>2. u = Sides /\ d.pc \in Reads => Consumed(d) + Len(b["daemon"]) = 4 + c.n
      BY <1>2, <3>1 DEF Upload
    <3>3. u = Sides /\ d.pc \in Reads => Consumed(d) + Len(b["daemon"]) = 3 + m
      BY <2>2, <3>2 DEF Clients
    <3>4. m # 0 /\ (m = 0 \/ m <= SizeOf(c))
      BY <2>4
    <3>5. (m = 0 => v = SizeOf(c)) /\ (m > 0 => v = c.local[m])
      BY <2>5, <3>4
    <3>6. QED
      BY <2>7, <2>10, <3>1, <3>3, <3>4, <3>5, UploadSends
  <2>13. Session(c1, d, u, b1, f)
    BY <1>2, <2>10, <2>11, <2>12 DEF Session
  <2>14. up' = [up EXCEPT ![s] = u] /\ daemon' = [daemon EXCEPT ![s] = d]
    BY <1>1, <1>2, <1>4
  <2>15. Live(s) \/ d.pc \in {"none", "end"}
    BY <1>1 DEF Live
  <2>16. QED
    BY <1>1, <1>2, <2>7, <2>9, <2>10, <2>13, <2>14, <2>15, QuietStep
<1>5. CASE closes(s, "client") /\ \E r \in LeftOver : Returns(s, r)
  <2>1. PICK u1 \in SUBSET Sides, b1 \in Boxes :
                   /\ up' = [up EXCEPT ![s] = u1] /\ u1 # Sides
                   /\ inbox' = [inbox EXCEPT ![s] = b1]
                   /\ b1["client"] = <<>> /\ b1["daemon"] = b["daemon"]
    BY <1>1, <1>5, ClosesFacts
  <2>2. PICK r \in Int : Returns(s, r)
    BY <1>5 DEF LeftOver
  <2>3. QED
    BY <1>1, <1>2, <2>1, <2>2, ReturnsStep
<1>6. QED
  BY <1>1, <1>3, <1>4, <1>5 DEF sendfile

\* The call reads the status of a removal or of a new directory.
LEMMA TrRecvStatus ==
    ASSUME Setting, Transferred, NEW s \in Sessions, recvStatus(s)
    PROVE  Transferred'
<1>1. PICK c \in Clients, d \in Threads, u \in SUBSET Sides, b \in Boxes, f \in Seq(Int) :
              /\ c = client[s] /\ d = daemon[s] /\ u = up[s] /\ b = inbox[s] /\ f = Contents(s)
              /\ client = [client EXCEPT ![s] = c] /\ daemon = [daemon EXCEPT ![s] = d]
              /\ up = [up EXCEPT ![s] = u] /\ inbox = [inbox EXCEPT ![s] = b]
              /\ b["client"] \in Seq(Int) /\ b["daemon"] \in Seq(Int)
              /\ Session(c, d, u, b, f)
  BY Parts
<1>2. /\ c.pc = "status" /\ c.op \in {"rm", "mkdir"}
      /\ daemon' = daemon /\ up' = up /\ inode' = inode
      /\ dirent' = dirent /\ dirent \in {Absent} \cup Inodes
  BY <1>1 DEF recvStatus, DiskSame, Transferred, Typed, Session, Kinds
<1>3. CASE Returns(s, 0) /\ inbox' = inbox
  <2>1. PICK r \in Int : r = 0
    OBVIOUS
  <2>2. Returns(s, r)
    BY <1>3, <2>1
  <2>3. up' = [up EXCEPT ![s] = u] /\ inbox' = [inbox EXCEPT ![s] = b] /\ c.op # "download"
    BY <1>1, <1>2, <1>3
  <2>4. QED
    BY <1>1, <1>2, <2>2, <2>3, ReturnsStep
<1>4. CASE /\ Arrived(s, "client")
           /\ Returns(s, Head(inbox[s].client)) /\ inbox' = Taken(s, "client")
  <2>1. PICK b1 \in Boxes, h \in Int :
           /\ inbox' = [inbox EXCEPT ![s] = b1] /\ b1["daemon"] = b["daemon"]
           /\ h = Head(inbox[s]["client"])
    <3>1. Arrived(s, "client") /\ inbox' = Taken(s, "client") /\ b = inbox[s]
      BY <1>1, <1>4
    <3>2. QED
      BY <3>1, TakenByClient
  <2>2. Returns(s, h)
    BY <1>4, <2>1
  <2>3. up' = [up EXCEPT ![s] = u] /\ c.op # "download"
    BY <1>1, <1>2
  <2>4. QED
    BY <1>1, <1>2, <2>1, <2>2, <2>3, ReturnsStep
<1>5. QED
  BY <1>3, <1>4 DEF recvStatus

-----------------------------------------------------------------------------
(*****************************************************************************)
(* Broken connections and threads that end.                                  *)
(*****************************************************************************)
\* A session that loses items at the end of its inboxes, and is down, keeps
\* what is known.
LEMMA Shrunk ==
    ASSUME NEW c \in Clients, NEW d \in Threads, NEW u \in SUBSET Sides, NEW b \in Boxes,
           NEW f, Session(c, d, u, b, f),
           NEW u1 \in SUBSET Sides, u1 # Sides, NEW b1 \in Boxes,
           Len(b1["client"]) <= Len(b["client"]), Len(b1["daemon"]) <= Len(b["daemon"]),
           \A j \in 1..Len(b1["client"]) : b1["client"][j] = b["client"][j],
           \A j \in 1..Len(b1["daemon"]) : b1["daemon"][j] = b["daemon"][j]
    PROVE  Session(c, d, u1, b1, f)
<1>1. /\ b1["client"] \in Seq(Int) /\ b1["daemon"] \in Seq(Int)
      /\ b["client"] \in Seq(Int) /\ b["daemon"] \in Seq(Int)
      /\ Len(b1["client"]) <= Len(b["client"]) /\ Len(b1["daemon"]) <= Len(b["daemon"])
      /\ \A j \in 1..Len(b1["client"]) : b1["client"][j] = b["client"][j]
      /\ \A j \in 1..Len(b1["daemon"]) : b1["daemon"][j] = b["daemon"][j]
  BY DEF Boxes, Sides
<1>2. (b["client"] = <<>> => b1["client"] = <<>>) /\ (b["daemon"] = <<>> => b1["daemon"] = <<>>)
  <2>1. \A x, y \in Seq(Int) : Len(y) <= Len(x) /\ x = <<>> => y = <<>>
    <3>1. ASSUME NEW y \in Seq(Int), Len(y) <= 0
          PROVE  y = <<>>
      BY <3>1, EmptySeq
    <3>2. Len(<<>>) = 0
      OBVIOUS
    <3>3. QED
      BY <3>1, <3>2
  <2>2. QED
    BY <1>1, <2>1
<1>3. Kinds(c, d, b1)
  BY <1>2 DEF Session, Kinds
<1>4. (\A j \in 1..Len(b1["client"]) : j \in 1..Len(b["client"]))
      /\ (\A j \in 1..Len(b1["daemon"]) : j \in 1..Len(b["daemon"]))
  BY <1>1
<1>5. ~d.disturbed /\ c.op = "download" => Download(c, d, u1, b1, f)
  BY <1>1, <1>4 DEF Session, Download
<1>6. ~d.disturbed /\ c.op = "upload" => Upload(c, d, u1, b1, f)
  BY <1>1, <1>4 DEF Session, Upload
<1>7. QED
  BY <1>3, <1>5, <1>6 DEF Session

\* A prefix of a sequence.
LEMMA PrefixFacts ==
    ASSUME NEW x \in Seq(Int), NEW k \in Nat, k <= Len(x)
    PROVE  /\ SubSeq(x, 1, k) \in Seq(Int) /\ Len(SubSeq(x, 1, k)) <= Len(x)
           /\ \A j \in 1..Len(SubSeq(x, 1, k)) : SubSeq(x, 1, k)[j] = x[j]
OBVIOUS

\* A side finds its connection broken: what was under way is lost.
LEMMA TrBreak ==
    ASSUME Setting, Transferred, NEW s \in Sessions, NEW side \in Sides, Break(s, side)
    PROVE  Transferred'
<1>1. PICK c \in Clients, d \in Threads, u \in SUBSET Sides, b \in Boxes, f \in Seq(Int) :
              /\ c = client[s] /\ d = daemon[s] /\ u = up[s] /\ b = inbox[s] /\ f = Contents(s)
              /\ client = [client EXCEPT ![s] = c] /\ daemon = [daemon EXCEPT ![s] = d]
              /\ up = [up EXCEPT ![s] = u] /\ inbox = [inbox EXCEPT ![s] = b]
              /\ b["client"] \in Seq(Int) /\ b["daemon"] \in Seq(Int)
              /\ Session(c, d, u, b, f)
  BY Parts
<1>2. PICK k, j \in 0..(2 * Size + 3) :
          /\ k <= Len(b["client"]) /\ j <= Len(b["daemon"])
          /\ inbox' = [inbox EXCEPT ![s] = [client |-> SubSeq(@.client, 1, k),
                                            daemon |-> SubSeq(@.daemon, 1, j)]]
  BY <1>1 DEF Break
<1>3. k \in Nat /\ j \in Nat
  BY DEF Setting
<1>4. PICK x \in Seq(Int) :
         /\ x = SubSeq(b["client"], 1, k)
         /\ Len(x) <= Len(b["client"]) /\ \A i \in 1..Len(x) : x[i] = b["client"][i]
  <2>1. b["client"] \in Seq(Int) /\ k <= Len(b["client"])
    BY <1>1, <1>2
  <2>2. QED
    BY <1>3, <2>1, PrefixFacts
<1>5. PICK y \in Seq(Int) :
         /\ y = SubSeq(b["daemon"], 1, j)
         /\ Len(y) <= Len(b["daemon"]) /\ \A i \in 1..Len(y) : y[i] = b["daemon"][i]
  <2>1. b["daemon"] \in Seq(Int) /\ j <= Len(b["daemon"])
    BY <1>1, <1>2
  <2>2. QED
    BY <1>3, <2>1, PrefixFacts
<1>6. PICK b1 \in Boxes : b1 = [client |-> x, daemon |-> y] /\ b1["client"] = x /\ b1["daemon"] = y
  BY BoxFacts
<1>7. inbox' = [inbox EXCEPT ![s] = b1]
  BY <1>1, <1>2, <1>4, <1>5, <1>6
<1>8. PICK u1 \in SUBSET Sides : u1 = u \ {side} /\ u1 # Sides /\ up' = [up EXCEPT ![s] = u1]
  BY <1>1 DEF Break
<1>9. /\ Len(b1["client"]) <= Len(b["client"]) /\ Len(b1["daemon"]) <= Len(b["daemon"])
      /\ \A i \in 1..Len(b1["client"]) : b1["client"][i] = b["client"][i]
      /\ \A i \in 1..Len(b1["daemon"]) : b1["daemon"][i] = b["daemon"][i]
  BY <1>4, <1>5, <1>6
<1>10. Session(c, d, u1, b1, f)
  <2>1. Session(c, d, u, b, f) /\ u1 # Sides
    BY <1>1, <1>8
  <2>2. QED
    BY <1>9, <2>1, Shrunk
<1>11. client' = [client EXCEPT ![s] = c] /\ daemon' = [daemon EXCEPT ![s] = d]
       /\ inode' = inode /\ dirent' \in {Absent} \cup Inodes
  BY <1>1 DEF Break, DiskSame, Transferred, Typed
<1>12. Live(s) \/ d.pc \in {"none", "end"}
  BY <1>1 DEF Live
<1>13. QED
  BY <1>1, <1>7, <1>8, <1>10, <1>11, <1>12, QuietStep

\* A thread that ends its transfer has nothing more to keep.
LEMMA Ended ==
    ASSUME NEW c \in Clients, NEW d \in Threads, NEW u \in SUBSET Sides, NEW b \in Boxes,
           NEW f, Session(c, d, u, b, f), d.pc # "none",
           NEW d1 \in Threads, d1.pc \in {"close", "end"}, d1.fd = d.fd, d1.opened = d.opened,
           d1.disturbed = d.disturbed, d1.stored = d.stored,
           NEW u1 \in SUBSET Sides, NEW b1 \in Boxes,
           b1["client"] = b["client"] \/ c.op # "download",
           c.pc = "request" => b1["daemon"] = <<>>
    PROVE  Session(c, d1, u1, b1, f)
<1>1. Kinds(c, d1, b1)
  BY DEF Session, Kinds
<1>2. ~d1.disturbed /\ c.op = "download" => Download(c, d1, u1, b1, f)
  BY DEF Session, Download, FileSize
<1>3. ~d1.disturbed /\ c.op = "upload" => Upload(c, d1, u1, b1, f)
  BY DEF Session, Upload, Reads
<1>4. QED
  BY <1>1, <1>2, <1>3 DEF Session

\* What is left to show of a step that ends a thread's transfer.
LEMMA EndsStep ==
    ASSUME Setting, Transferred, NEW s \in Sessions, Live(s),
           NEW d1 \in Threads, daemon' = [daemon EXCEPT ![s] = d1],
           d1.pc \in {"close", "end"}, d1.fd = daemon[s].fd, d1.opened = daemon[s].opened,
           d1.disturbed = daemon[s].disturbed, d1.stored = daemon[s].stored, client' = client,
           NEW u1 \in SUBSET Sides, up' = [up EXCEPT ![s] = u1],
           NEW b1 \in Boxes, inbox' = [inbox EXCEPT ![s] = b1],
           b1["client"] = inbox[s]["client"] \/ client[s].op # "download",
           client[s].pc = "request" => b1["daemon"] = <<>>,
           inode' = inode, dirent' \in {Absent} \cup Inodes
    PROVE  Transferred'
<1>1. PICK c \in Clients, d \in Threads, u \in SUBSET Sides, b \in Boxes, f \in Seq(Int) :
              /\ c = client[s] /\ d = daemon[s] /\ u = up[s] /\ b = inbox[s] /\ f = Contents(s)
              /\ client = [client EXCEPT ![s] = c] /\ daemon = [daemon EXCEPT ![s] = d]
              /\ up = [up EXCEPT ![s] = u] /\ inbox = [inbox EXCEPT ![s] = b]
              /\ Session(c, d, u, b, f)
  BY Parts
<1>2. d.pc # "none"
  BY <1>1 DEF Live
<1>3. Session(c, d1, u1, b1, f)
  BY <1>1, <1>2, Ended
<1>4. client' = [client EXCEPT ![s] = c]
  BY <1>1
<1>5. QED
  BY <1>1, <1>3, <1>4, QuietStep

\* A thread whose connection breaks before the request.
LEMMA TrRecvRequest ==
    ASSUME Setting, Transferred, NEW s \in Sessions, recvRequest(s)
    PROVE  Transferred'
<1>1. PICK c \in Clients, d \in Threads, u \in SUBSET Sides, b \in Boxes, f \in Seq(Int) :
              /\ c = client[s] /\ d = daemon[s] /\ u = up[s] /\ b = inbox[s] /\ f = Contents(s)
              /\ client = [client EXCEPT ![s] = c] /\ daemon = [daemon EXCEPT ![s] = d]
              /\ up = [up EXCEPT ![s] = u] /\ inbox = [inbox EXCEPT ![s] = b]
              /\ Session(c, d, u, b, f)
  BY Parts
<1>2. PICK pc \in {"close", "end"} : daemon' = [daemon EXCEPT ![s].pc = pc]
  BY DEF recvRequest
<1>3. PICK d1 : d1 = [d EXCEPT !.pc = pc]
  OBVIOUS
<1>4. daemon' = [daemon EXCEPT ![s] = d1]
  BY <1>1, <1>2, <1>3
<1>5. /\ d1 \in Threads /\ d1.pc \in {"close", "end"} /\ d1.fd = d.fd /\ d1.opened = d.opened
      /\ d1.disturbed = d.disturbed /\ d1.stored = d.stored
  BY <1>3 DEF Threads
<1>6. Live(s) /\ client' = client /\ up' = [up EXCEPT ![s] = u] /\ inbox' = [inbox EXCEPT ![s] = b]
      /\ inode' = inode /\ dirent' \in {Absent} \cup Inodes
  BY <1>1 DEF recvRequest, Live, DiskSame, Transferred, Typed
<1>7. c.pc = "request" => b["daemon"] = <<>>
  BY <1>1 DEF Session, Kinds
<1>8. QED
  BY <1>1, <1>4, <1>5, <1>6, <1>7, EndsStep

\* A thread closes its connection.
LEMMA TrDaemonClose ==
    ASSUME Setting, Transferred, NEW s \in Sessions, daemonClose(s)
    PROVE  Transferred'
<1>1. PICK c \in Clients, d \in Threads, u \in SUBSET Sides, b \in Boxes, f \in Seq(Int) :
              /\ c = client[s] /\ d = daemon[s] /\ u = up[s] /\ b = inbox[s] /\ f = Contents(s)
              /\ client = [client EXCEPT ![s] = c] /\ daemon = [daemon EXCEPT ![s] = d]
              /\ up = [up EXCEPT ![s] = u] /\ inbox = [inbox EXCEPT ![s] = b]
              /\ Session(c, d, u, b, f)
  BY Parts
<1>2. PICK u1 \in SUBSET Sides, b1 \in Boxes :
         /\ up' = [up EXCEPT ![s] = u1] /\ inbox' = [inbox EXCEPT ![s] = b1]
         /\ b1["daemon"] = <<>> /\ b1["client"] = inbox[s]["client"]
  <2>1. closes(s, "daemon")
    BY DEF daemonClose
  <2>2. \E u1 \in SUBSET Sides, b1 \in Boxes :
           /\ up' = [up EXCEPT ![s] = u1] /\ u1 # Sides /\ inbox' = [inbox EXCEPT ![s] = b1]
           /\ b1["daemon"] = <<>> /\ b1["client"] = inbox[s]["client"]
    BY <2>1, ClosesFacts
  <2>3. QED
    BY <2>2
<1>3. PICK d1 : d1 = [d EXCEPT !.pc = "end"]
  OBVIOUS
<1>4. daemon' = [daemon EXCEPT ![s] = d1]
  BY <1>1, <1>3 DEF daemonClose, Ends
<1>5. /\ d1 \in Threads /\ d1.pc \in {"close", "end"} /\ d1.fd = d.fd /\ d1.opened = d.opened
      /\ d1.disturbed = d.disturbed /\ d1.stored = d.stored
  BY <1>3 DEF Threads
<1>6. Live(s) /\ client' = client /\ inode' = inode /\ dirent' \in {Absent} \cup Inodes
  BY <1>1 DEF daemonClose, Live, DiskSame, Transferred, Typed
<1>7. QED
  BY <1>1, <1>2, <1>4, <1>5, <1>6, EndsStep

-----------------------------------------------------------------------------
(*****************************************************************************)
(* Files that are opened.                                                    *)
(*****************************************************************************)
\* To a thread that is not transferring it does not matter what the file
\* contains.
LEMMA FileUnused ==
    ASSUME NEW c, NEW d, NEW u, NEW b, NEW f, NEW g, Session(c, d, u, b, f),
           d.pc \notin {"sendsize", "sending", "size", "receiving"}
    PROVE  Session(c, d, u, b, g)
<1>1. c.op = "download" /\ Download(c, d, u, b, f) => Download(c, d, u, b, g)
  BY DEF Download
<1>2. c.op = "upload" /\ Upload(c, d, u, b, f) => Upload(c, d, u, b, g)
  BY DEF Upload
<1>3. QED
  BY <1>1, <1>2 DEF Session

\* Of a disturbed session only Kinds is to be kept.
LEMMA DisturbedSession ==
    ASSUME NEW c \in Clients, NEW d \in Threads, NEW u, NEW b, NEW f, NEW g, Session(c, d, u, b, f),
           d.pc \notin {"none", "request"},
           NEW d1, d1 = [d EXCEPT !.disturbed = TRUE]
    PROVE  Session(c, d1, u, b, g)
<1>1. d1.pc = d.pc /\ d1.disturbed
  BY DEF Threads
<1>2. Kinds(c, d1, b)
  BY <1>1 DEF Session, Kinds
<1>3. QED
  BY <1>1, <1>2 DEF Session

\* What is left to show of a step of a thread that opens or writes a file.
LEMMA OpenStep ==
    ASSUME Setting, Transferred, NEW s \in Sessions, NEW d \in Threads,
           client' = client, daemon' \in [Sessions -> Threads], daemon'[s] = d,
           \A t \in Sessions \ {s} :
              \/ daemon'[t] = daemon[t]
              \/ /\ daemon'[t] = [daemon[t] EXCEPT !.disturbed = TRUE]
                 /\ daemon[t].pc \notin {"none", "request"},
           up' = up, NEW b \in Boxes, inbox' = [inbox EXCEPT ![s] = b],
           dirent' \in {Absent} \cup Inodes, inode' \in [Inodes -> Seq(Int)],
           \A t \in Sessions \ {s} :
              Live(t) => daemon'[t].disturbed \/ Contents(t)' = Contents(t),
           d.fd # Absent => \A t \in Sessions \ {s} :
              Live(t) /\ daemon[t].fd = d.fd =>
                 /\ client[t].op = "upload" => d.disturbed
                 /\ client[s].op = "upload" => daemon'[t].disturbed,
           NEW g, g = Contents(s)', Session(client[s], d, up[s], b, g)
    PROVE  Transferred'
<1>1. Typed'
  BY DEF Transferred, Typed
<1>2. \A t \in Sessions \ {s} :
         /\ daemon'[t].pc = daemon[t].pc /\ daemon'[t].fd = daemon[t].fd /\ inbox'[t] = inbox[t]
         /\ daemon[t].disturbed => daemon'[t].disturbed
  <2>1. ASSUME NEW t \in Sessions \ {s}
        PROVE  /\ daemon'[t].pc = daemon[t].pc /\ daemon'[t].fd = daemon[t].fd
               /\ daemon[t].disturbed => daemon'[t].disturbed
    <3>1. daemon[t] \in Threads
      BY DEF Transferred, Typed
    <3>2. CASE daemon'[t] = daemon[t]
      BY <3>2
    <3>3. CASE daemon'[t] = [daemon[t] EXCEPT !.disturbed = TRUE]
      BY <3>1, <3>3 DEF Threads
    <3>4. QED
      BY <3>2, <3>3
  <2>2. QED
    BY <2>1 DEF Transferred, Typed
<1>3. Shared'
  <2>1. SUFFICES ASSUME NEW x \in Sessions, NEW y \in Sessions, x # y, Live(x)', Live(y)',
                        client[x].op = "upload", daemon'[x].fd = daemon'[y].fd,
                        daemon'[x].fd # Absent
                 PROVE  daemon'[y].disturbed
    BY DEF Shared
  <2>2. CASE x = s
    BY <1>2, <2>1, <2>2 DEF Live
  <2>3. CASE y = s
    BY <1>2, <2>1, <2>3 DEF Live
  <2>4. CASE x # s /\ y # s
    BY <1>2, <2>1, <2>4 DEF Live, Transferred, Shared
  <2>5. QED
    BY <2>2, <2>3, <2>4
<1>4. ASSUME NEW t \in Sessions PROVE SessionInv(t)'
  <2>1. CASE t = s
    <3>1. inbox'[s] = b
      BY DEF Transferred, Typed
    <3>2. QED
      BY <2>1, <3>1 DEF SessionInv
  <2>2. CASE t # s
    <3>1. t \in Sessions \ {s} /\ client[t] \in Clients /\ daemon[t] \in Threads
      BY <2>2 DEF Transferred, Typed
    <3>2. Session(client[t], daemon[t], up[t], inbox[t], Contents(t)) /\ inbox'[t] = inbox[t]
      BY <1>2, <3>1 DEF Transferred, SessionInv
    <3>3. PICK h : h = Contents(t)'
      OBVIOUS
    <3>4. CASE daemon'[t] = [daemon[t] EXCEPT !.disturbed = TRUE]
               /\ daemon[t].pc \notin {"none", "request"}
      <4>1. Session(client[t], daemon'[t], up[t], inbox[t], h)
        BY <3>1, <3>2, <3>4, DisturbedSession
      <4>2. QED
        BY <3>2, <3>3, <4>1 DEF SessionInv
    <3>5. CASE daemon'[t] = daemon[t]
      <4>1. CASE h = Contents(t)
        BY <3>2, <3>3, <3>5, <4>1 DEF SessionInv
      <4>2. CASE ~Live(t)
        <5>1. daemon[t].pc \notin {"sendsize", "sending", "size", "receiving"}
          BY <4>2 DEF Live
        <5>2. Session(client[t], daemon[t], up[t], inbox[t], h)
          BY <3>2, <5>1, FileUnused
        <5>3. QED
          BY <3>2, <3>3, <3>5, <5>2 DEF SessionInv
      <4>3. CASE daemon[t].disturbed
        <5>1. Session(client[t], daemon[t], up[t], inbox[t], h)
          BY <3>2, <4>3 DEF Session
        <5>2. QED
          BY <3>2, <3>3, <3>5, <5>1 DEF SessionInv
      <4>4. QED
        BY <3>1, <3>3, <3>5, <4>1, <4>2, <4>3
    <3>6. QED
      BY <3>1, <3>4, <3>5
  <2>3. QED
    BY <2>1, <2>2
<1>5. QED
  BY <1>1, <1>3, <1>4 DEF Transferred

\* A sequence without its first three items.
LEMMA CutFacts ==
    ASSUME NEW x \in Seq(Int), Len(x) >= 3
    PROVE  /\ SubSeq(x, 4, Len(x)) \in Seq(Int) /\ Len(SubSeq(x, 4, Len(x))) = Len(x) - 3
           /\ \A j \in 1..Len(x) - 3 : SubSeq(x, 4, Len(x))[j] = x[j + 3]
<1>1. PICK n \in Nat : n = Len(x) /\ n >= 3
  <2>1. Len(x) \in Nat
    OBVIOUS
  <2>2. QED
    BY <2>1
<1>2. CASE n = 3
  BY <1>1, <1>2
<1>3. CASE n > 3
  BY <1>1, <1>3
<1>4. n = 3 \/ n > 3
  BY <1>1
<1>5. QED
  BY <1>2, <1>3, <1>4

\* The inbox without the request.
Rest(s) == [inbox EXCEPT ![s].daemon = SubSeq(@, 4, Len(@))]

\* A thread that has read its request.
LEMMA ServeFacts ==
    ASSUME Setting, Transferred, NEW s \in Sessions, serve(s)
    PROVE  \E r \in Boxes :
              /\ Rest(s) = [inbox EXCEPT ![s] = r] /\ r["client"] = inbox[s]["client"]
              /\ r["daemon"] \in Seq(Int) /\ Len(r["daemon"]) = Len(inbox[s]["daemon"]) - 3
              /\ \A j \in 1..Len(r["daemon"]) : r["daemon"][j] = inbox[s]["daemon"][j + 3]
              /\ client[s].pc \notin {"start", "request"} /\ client[s].op # "none"
              /\ daemon[s].pc = "request" /\ client' = client
              /\ daemon[s].fd = Absent /\ ~daemon[s].disturbed /\ ~daemon[s].stored
<1>1. PICK c \in Clients, d \in Threads, u \in SUBSET Sides, b \in Boxes, f \in Seq(Int) :
              /\ c = client[s] /\ d = daemon[s] /\ u = up[s] /\ b = inbox[s] /\ f = Contents(s)
              /\ client = [client EXCEPT ![s] = c] /\ daemon = [daemon EXCEPT ![s] = d]
              /\ up = [up EXCEPT ![s] = u] /\ inbox = [inbox EXCEPT ![s] = b]
              /\ b["client"] \in Seq(Int) /\ b["daemon"] \in Seq(Int)
              /\ Session(c, d, u, b, f)
  BY Parts
<1>2. d.pc = "request" /\ Len(b["daemon"]) >= 3 /\ client' = client
  BY <1>1 DEF serve
<1>3. PICK y \in Seq(Int) :
         /\ y = SubSeq(b["daemon"], 4, Len(b["daemon"]))
         /\ Len(y) = Len(b["daemon"]) - 3
         /\ \A j \in 1..Len(y) : y[j] = b["daemon"][j + 3]
  <2>1. PICK x \in Seq(Int) : x = b["daemon"] /\ Len(x) >= 3
    BY <1>1, <1>2
  <2>2. PICK y \in Seq(Int) : y = SubSeq(x, 4, Len(x)) /\ Len(y) = Len(x) - 3
           /\ \A j \in 1..Len(x) - 3 : y[j] = x[j + 3]
    BY <2>1, CutFacts
  <2>3. QED
    BY <2>1, <2>2
<1>4. PICK r : r = [b EXCEPT !["daemon"] = y]
  OBVIOUS
<1>5. r \in Boxes /\ r["client"] = b["client"] /\ r["daemon"] = y
  BY <1>4 DEF Boxes, Sides
<1>6. Rest(s) = [inbox EXCEPT ![s] = r]
  BY <1>1, <1>3, <1>4 DEF Rest
<1>7. b["daemon"] # <<>>
  BY <1>2
<1>8. /\ c.pc \notin {"start", "request"} /\ c.op # "none"
      /\ d.fd = Absent /\ ~d.disturbed /\ ~d.stored
  BY <1>1, <1>2, <1>7 DEF Session, Kinds
<1>9. /\ Len(r["daemon"]) = Len(inbox[s]["daemon"]) - 3 /\ r["client"] = inbox[s]["client"]
      /\ \A j \in 1..Len(r["daemon"]) : r["daemon"][j] = inbox[s]["daemon"][j + 3]
  BY <1>1, <1>3, <1>5
<1>10. /\ client[s].pc \notin {"start", "request"} /\ client[s].op # "none"
       /\ daemon[s].pc = "request" /\ client' = client
       /\ daemon[s].fd = Absent /\ ~daemon[s].disturbed /\ ~daemon[s].stored
  BY <1>1, <1>2, <1>8
<1>11. r["daemon"] \in Seq(Int)
  BY <1>5
<1>12. QED
  BY <1>5, <1>6, <1>9, <1>10, <1>11, Zenon

\* open for reading: the file is as the download will find it, unless it is
\* open for writing.
LEMMA TrOpensToRead ==
    ASSUME Setting, Transferred, NEW s \in Sessions, serve(s), client[s].op = "download",
           OpensToRead(s, Rest(s))
    PROVE  Transferred'
<1>1. PICK c \in Clients, d \in Threads, u \in SUBSET Sides, b \in Boxes, f \in Seq(Int) :
              /\ c = client[s] /\ d = daemon[s] /\ u = up[s] /\ b = inbox[s] /\ f = Contents(s)
              /\ client = [client EXCEPT ![s] = c] /\ daemon = [daemon EXCEPT ![s] = d]
              /\ up = [up EXCEPT ![s] = u] /\ inbox = [inbox EXCEPT ![s] = b]
              /\ Session(c, d, u, b, f)
  BY Parts
<1>2. PICK r \in Boxes :
         /\ Rest(s) = [inbox EXCEPT ![s] = r] /\ r["client"] = b["client"]
         /\ c.pc \notin {"start", "request"} /\ c.op = "download"
         /\ d.pc = "request" /\ client' = client /\ ~d.stored
  BY <1>1, ServeFacts
<1>3. dirent \in {Absent} \cup Inodes /\ dirent' = dirent /\ inode' = inode /\ up' = up
      /\ inode \in [Inodes -> Seq(Int)]
  BY DEF OpensToRead, DiskSame, Transferred, Typed
<1>4. PICK g \in Seq(Int) : g = IF dirent = Absent THEN <<>> ELSE inode[dirent]
  <2>1. <<>> \in Seq(Int) /\ (dirent # Absent => inode[dirent] \in Seq(Int))
    BY <1>3
  <2>2. QED
    BY <2>1
<1>5. PICK w \in BOOLEAN : w = (Writers(dirent, s) # {})
  OBVIOUS
<1>6. PICK k \in Nat : k = 0
  OBVIOUS
<1>7. PICK d1 : d1 = [d EXCEPT !.pc = "sendsize", !.n = k, !.fd = dirent, !.opened = g,
                               !.disturbed = w]
  OBVIOUS
<1>8. daemon' = [daemon EXCEPT ![s] = d1]
  BY <1>1, <1>4, <1>5, <1>6, <1>7 DEF OpensToRead
<1>9. /\ d1 \in Threads /\ d1.pc = "sendsize" /\ d1.n = 0 /\ d1.fd = dirent /\ d1.opened = g
      /\ d1.disturbed = w /\ d1.stored = d.stored
  BY <1>3, <1>6, <1>7 DEF Threads
<1>10. daemon' \in [Sessions -> Threads] /\ daemon'[s] = d1
       /\ \A t \in Sessions \ {s} : daemon'[t] = daemon[t]
  BY <1>8, <1>9 DEF Transferred, Typed
<1>11. g = Contents(s)'
  BY <1>3, <1>4, <1>9, <1>10 DEF Contents
<1>12. \A t \in Sessions \ {s} : Contents(t)' = Contents(t)
  BY <1>3, <1>10 DEF Contents
<1>13. ASSUME NEW t \in Sessions \ {s}, Live(t), daemon[t].fd = d1.fd, client[t].op = "upload"
       PROVE  d1.disturbed
  <2>1. t \in Writers(dirent, s)
    BY <1>9, <1>13 DEF Writers, Users, Live
  <2>2. QED
    BY <1>5, <1>9, <2>1
<1>14. b["client"] = <<>> /\ c.pc # "receiving" /\ c.result # 0
  BY <1>1, <1>2 DEF Session, Kinds
<1>15. Kinds(c, d1, r)
  BY <1>1, <1>2, <1>9, <1>14 DEF Session, Kinds
<1>16. Download(c, d1, u, r, g)
  BY <1>2, <1>9, <1>14 DEF Download
<1>17. Session(c, d1, u, r, g)
  BY <1>2, <1>15, <1>16 DEF Session
<1>18. inbox' = [inbox EXCEPT ![s] = r]
  BY <1>2 DEF OpensToRead
<1>19. Session(client[s], d1, up[s], r, g) /\ client' = client /\ client[s].op # "upload"
  BY <1>1, <1>2, <1>17
<1>20. dirent' \in {Absent} \cup Inodes /\ inode' \in [Inodes -> Seq(Int)] /\ up' = up
  BY <1>3
<1>21. QED
  BY <1>9, <1>10, <1>11, <1>12, <1>13, <1>18, <1>19, <1>20, OpenStep

\* open with O_TRUNC: the file is empty, and everyone who had it open is
\* disturbed.
LEMMA TrOpensToWrite ==
    ASSUME Setting, Transferred, NEW s \in Sessions, serve(s), client[s].op = "upload",
           OpensToWrite(s, Rest(s))
    PROVE  Transferred'
<1>1. PICK c \in Clients, d \in Threads, u \in SUBSET Sides, b \in Boxes, f \in Seq(Int) :
              /\ c = client[s] /\ d = daemon[s] /\ u = up[s] /\ b = inbox[s] /\ f = Contents(s)
              /\ client = [client EXCEPT ![s] = c] /\ daemon = [daemon EXCEPT ![s] = d]
              /\ up = [up EXCEPT ![s] = u] /\ inbox = [inbox EXCEPT ![s] = b]
              /\ b["client"] \in Seq(Int) /\ b["daemon"] \in Seq(Int)
              /\ Session(c, d, u, b, f)
  BY Parts
<1>2. PICK r \in Boxes :
         /\ Rest(s) = [inbox EXCEPT ![s] = r] /\ r["client"] = b["client"]
         /\ r["daemon"] \in Seq(Int) /\ Len(r["daemon"]) = Len(b["daemon"]) - 3
         /\ \A j \in 1..Len(r["daemon"]) : r["daemon"][j] = b["daemon"][j + 3]
         /\ c.pc \notin {"start", "request"} /\ c.op = "upload"
         /\ d.pc = "request" /\ client' = client /\ ~d.stored /\ ~d.disturbed
  BY <1>1, ServeFacts
<1>3. PICK i \in Inodes : i = IF dirent = Absent THEN s ELSE dirent
  BY DEF Inodes, Transferred, Typed
<1>4. i # Absent
  BY DEF Inodes, Absent, Setting
<1>5. PICK e \in Seq(Int) : e = <<>>
  <2>1. <<>> \in Seq(Int)
    OBVIOUS
  <2>2. QED
    BY <2>1
<1>6. /\ dirent' \in {Absent} \cup Inodes /\ inode' = [inode EXCEPT ![i] = e]
      /\ up' = up /\ inbox' = [inbox EXCEPT ![s] = r]
  BY <1>2, <1>3, <1>5 DEF OpensToWrite
<1>7. /\ inode' \in [Inodes -> Seq(Int)] /\ inode'[i] = e
      /\ \A k \in Inodes : k # i => inode'[k] = inode[k]
  BY <1>6 DEF Transferred, Typed
<1>8. PICK w \in BOOLEAN : w = (Writers(i, s) # {})
  OBVIOUS
<1>9. PICK k \in Nat : k = 0
  OBVIOUS
<1>10. PICK d1 : d1 = [d EXCEPT !.pc = "size", !.n = k, !.fd = i, !.disturbed = w]
  OBVIOUS
<1>11. /\ d1 \in Threads /\ d1.pc = "size" /\ d1.n = 0 /\ d1.fd = i /\ d1.opened = d.opened
       /\ d1.disturbed = w /\ d1.stored = d.stored
  BY <1>9, <1>10 DEF Threads
<1>12. daemon' = [t \in Sessions |-> IF t = s THEN d1
                                     ELSE IF t \in Users(i, s)
                                     THEN [daemon[t] EXCEPT !.disturbed = TRUE] ELSE daemon[t]]
  BY <1>1, <1>3, <1>8, <1>9, <1>10 DEF OpensToWrite
<1>13. daemon' \in [Sessions -> Threads] /\ daemon'[s] = d1
  <2>1. \A t \in Sessions :
           daemon[t] \in Threads /\ [daemon[t] EXCEPT !.disturbed = TRUE] \in Threads
    BY DEF Transferred, Typed, Threads
  <2>2. QED
    BY <1>11, <1>12, <2>1
<1>14. ASSUME NEW t \in Sessions \ {s}, t \in Users(i, s)
       PROVE  /\ daemon'[t] = [daemon[t] EXCEPT !.disturbed = TRUE]
              /\ daemon[t].pc \notin {"none", "request"} /\ daemon'[t].disturbed
  <2>1. daemon[t] \in Threads /\ daemon[t].fd = i /\ daemon[t].pc \notin {"none", "end"}
    BY <1>14 DEF Users, Transferred, Typed
  <2>2. daemon'[t] = [daemon[t] EXCEPT !.disturbed = TRUE]
    BY <1>12, <1>14
  <2>3. Kinds(client[t], daemon[t], inbox[t])
    BY DEF Transferred, SessionInv, Session
  <2>4. daemon[t].pc # "request"
    BY <1>4, <2>1, <2>3 DEF Kinds
  <2>5. QED
    BY <2>1, <2>2, <2>4 DEF Threads
<1>15. \A t \in Sessions \ {s} : t \notin Users(i, s) => daemon'[t] = daemon[t]
  BY <1>12
<1>16. ASSUME NEW t \in Sessions \ {s}, Live(t), t \notin Users(i, s)
       PROVE  Contents(t)' = Contents(t)
  <2>1. daemon[t].fd # i /\ daemon[t].fd \in {Absent} \cup Inodes
    BY <1>16 DEF Users, Live, Transferred, Typed, Threads
  <2>2. QED
    BY <1>7, <1>15, <1>16, <2>1 DEF Contents
<1>17. \A t \in Sessions \ {s} : Live(t) /\ daemon[t].fd = i => t \in Users(i, s)
  BY DEF Users, Live
<1>18. \A t \in Sessions \ {s} : Live(t) /\ daemon[t].fd = i /\ client[t].op = "upload" => w
  BY <1>8, <1>17 DEF Writers
<1>19. PICK g \in Seq(Int) : g = Contents(s)' /\ g = e
  BY <1>4, <1>7, <1>11, <1>13 DEF Contents
<1>20. Kinds(c, d1, r)
  BY <1>1, <1>2, <1>4, <1>11 DEF Session, Kinds
<1>21. Upload(c, d1, u, r, g)
  <2>1. Upload(c, d, u, b, f)
    BY <1>1, <1>2 DEF Session
  <2>2. Consumed(d) = 0 /\ Consumed(d1) = 3 /\ d.pc \in Reads /\ d1.pc \in Reads
    BY <1>2, <1>11 DEF Consumed, Reads
  <2>3. PICK q \in Nat : q = Len(b["daemon"]) /\ Len(r["daemon"]) = q - 3
    <3>1. Len(b["daemon"]) \in Nat
      BY <1>1
    <3>2. QED
      BY <1>2, <3>1
  <2>4. ASSUME NEW j \in 1..Len(r["daemon"])
        PROVE  /\ Consumed(d1) + j = 4 => r["daemon"][j] = SizeOf(c)
               /\ Consumed(d1) + j > 4 => /\ Consumed(d1) + j - 4 <= SizeOf(c)
                                          /\ r["daemon"][j] = c.local[Consumed(d1) + j - 4]
    <3>1. PICK n \in 1..q : n = j + 3 /\ r["daemon"][j] = b["daemon"][n]
      BY <1>2, <2>3
    <3>2. /\ Consumed(d) + n = 4 => b["daemon"][n] = SizeOf(c)
          /\ Consumed(d) + n > 4 => /\ Consumed(d) + n - 4 <= SizeOf(c)
                                    /\ b["daemon"][n] = c.local[Consumed(d) + n - 4]
      BY <2>1, <2>2, <2>3 DEF Upload
    <3>3. /\ n = 4 => b["daemon"][n] = SizeOf(c)
          /\ n > 4 => n - 4 <= SizeOf(c) /\ b["daemon"][n] = c.local[n - 4]
      BY <2>2, <3>2
    <3>4. Consumed(d1) + j = n
      BY <2>2, <3>1
    <3>5. QED
      BY <2>2, <3>1, <3>3, <3>4
  <2>5. Consumed(d1) + Len(r["daemon"]) = Consumed(d) + Len(b["daemon"])
    BY <2>2, <2>3
  <2>6. u = Sides =>
          /\ c.pc = "sendsize" => Consumed(d1) + Len(r["daemon"]) = 3
          /\ c.pc = "sending" => Consumed(d1) + Len(r["daemon"]) = 4 + c.n
    BY <2>1, <2>2, <2>5 DEF Upload
  <2>7. Len(g) = d1.n /\ \A j \in 1..d1.n : g[j] = c.local[j]
    BY <1>5, <1>11, <1>19
  <2>8. c.pc = "sending" => c.n = 0 \/ c.n <= SizeOf(c)
    BY <2>1 DEF Upload
  <2>9. QED
    BY <1>2, <1>4, <1>11, <2>4, <2>6, <2>7, <2>8 DEF Upload
<1>22. Session(c, d1, u, r, g)
  BY <1>2, <1>20, <1>21 DEF Session
<1>23. \A t \in Sessions \ {s} :
          \/ daemon'[t] = daemon[t]
          \/ /\ daemon'[t] = [daemon[t] EXCEPT !.disturbed = TRUE]
             /\ daemon[t].pc \notin {"none", "request"}
  BY <1>14, <1>15
<1>24. \A t \in Sessions \ {s} : Live(t) => daemon'[t].disturbed \/ Contents(t)' = Contents(t)
  BY <1>14, <1>16
<1>25. \A t \in Sessions \ {s} : Live(t) /\ daemon[t].fd = d1.fd =>
                 /\ client[t].op = "upload" => d1.disturbed
                 /\ client[s].op = "upload" => daemon'[t].disturbed
  BY <1>11, <1>14, <1>17, <1>18
<1>26. Session(client[s], d1, up[s], r, g) /\ client' = client /\ g = Contents(s)'
  BY <1>1, <1>2, <1>19, <1>22
<1>27. QED
  BY <1>6, <1>7, <1>11, <1>13, <1>23, <1>24, <1>25, <1>26, OpenStep

\* A thread that answers a removal or a new directory.
LEMMA AnswersFacts ==
    ASSUME Setting, Transferred, NEW s \in Sessions, serve(s), NEW status \in Int,
           Answers(s, Rest(s), status)
    PROVE  \E b1 \in Boxes : inbox' = [inbox EXCEPT ![s] = b1]
<1>1. PICK r \in Boxes : Rest(s) = [inbox EXCEPT ![s] = r]
  BY ServeFacts
<1>2. PICK x \in Seq(Int) : x = Append(r["client"], status)
  <2>1. r["client"] \in Seq(Int)
    BY DEF Boxes, Sides
  <2>2. Append(r["client"], status) \in Seq(Int)
    BY <2>1
  <2>3. QED
    BY <2>2
<1>3. PICK b1 : b1 = [r EXCEPT !["client"] = x]
  OBVIOUS
<1>4. b1 \in Boxes
  BY <1>3 DEF Boxes, Sides
<1>5. [Rest(s) EXCEPT ![s].client = Append(@, status)] = [inbox EXCEPT ![s] = b1]
  BY <1>1, <1>2, <1>3 DEF Transferred, Typed
<1>6. QED
  BY <1>1, <1>4, <1>5 DEF Answers

\* It answers and closes.
LEMMA TrAnswered ==
    ASSUME Setting, Transferred, NEW s \in Sessions, serve(s), client[s].op \in {"rm", "mkdir"},
           \/ client[s].op = "rm" /\ Unlinks(s, Rest(s))
           \/ client[s].op = "mkdir" /\ MakesDirectory(s, Rest(s))
    PROVE  Transferred'
<1>1. PICK c \in Clients, d \in Threads, u \in SUBSET Sides, b \in Boxes, f \in Seq(Int) :
              /\ c = client[s] /\ d = daemon[s] /\ u = up[s] /\ b = inbox[s] /\ f = Contents(s)
              /\ client = [client EXCEPT ![s] = c] /\ daemon = [daemon EXCEPT ![s] = d]
              /\ up = [up EXCEPT ![s] = u] /\ inbox = [inbox EXCEPT ![s] = b]
              /\ Session(c, d, u, b, f)
  BY Parts
<1>2. /\ c.pc # "request" /\ c.op # "download" /\ d.pc = "request" /\ client' = client
      /\ Live(s)
  BY <1>1, ServeFacts DEF Live
<1>3. inode' = inode /\ dirent' \in {Absent} \cup Inodes
  BY DEF Unlinks, MakesDirectory, Transferred, Typed
<1>4. PICK u1 \in SUBSET Sides, b1 \in Boxes :
         up' = [up EXCEPT ![s] = u1] /\ inbox' = [inbox EXCEPT ![s] = b1]
  <2>1. CASE closes(s, "daemon")
    <3>1. closes(s, "daemon") =>
                \E u1 \in SUBSET Sides, b1 \in Boxes :
                   /\ up' = [up EXCEPT ![s] = u1] /\ u1 # Sides
                   /\ inbox' = [inbox EXCEPT ![s] = b1]
                   /\ b1["daemon"] = <<>> /\ b1["client"] = inbox[s]["client"]
      BY ONLY Setting, Transferred, s \in Sessions, ClosesFacts
    <3>2. QED
      BY <2>1, <3>1
  <2>2. ASSUME NEW status \in Int, Answers(s, Rest(s), status), up' = up
        PROVE  \E u1 \in SUBSET Sides, b1 \in Boxes :
                  up' = [up EXCEPT ![s] = u1] /\ inbox' = [inbox EXCEPT ![s] = b1]
    BY <1>1, <2>2, AnswersFacts
  <2>3. \/ closes(s, "daemon")
        \/ up' = up /\ \E status \in Int : Answers(s, Rest(s), status)
    BY DEF Unlinks, MakesDirectory
  <2>4. QED
    BY <2>1, <2>2, <2>3
<1>5. PICK d1 : /\ daemon' = [daemon EXCEPT ![s] = d1]
                /\ \/ d1 = [d EXCEPT !.pc = "end"] \/ d1 = [d EXCEPT !.pc = "close"]
                   \/ d1 = [d EXCEPT !.pc = "close", !.removed = TRUE]
  <2>1. \/ daemon' = [daemon EXCEPT ![s].pc = "end"]
        \/ daemon' = [daemon EXCEPT ![s].pc = "close"]
        \/ daemon' = [daemon EXCEPT ![s].pc = "close", ![s].removed = TRUE]
    BY DEF Unlinks, MakesDirectory, Ends
  <2>2. \/ daemon' = [daemon EXCEPT ![s] = [d EXCEPT !.pc = "end"]]
        \/ daemon' = [daemon EXCEPT ![s] = [d EXCEPT !.pc = "close"]]
        \/ daemon' = [daemon EXCEPT ![s] = [d EXCEPT !.pc = "close", !.removed = TRUE]]
    BY <1>1, <2>1
  <2>3. QED
    BY <2>2
<1>6. /\ d1 \in Threads /\ d1.pc \in {"close", "end"} /\ d1.fd = d.fd /\ d1.opened = d.opened
      /\ d1.disturbed = d.disturbed /\ d1.stored = d.stored
  BY <1>5 DEF Threads
<1>7. QED
  BY <1>1, <1>2, <1>3, <1>4, <1>5, <1>6, EndsStep

\* The operation a request names.
LEMMA TrServe ==
    ASSUME Setting, Transferred, NEW s \in Sessions, serve(s)
    PROVE  Transferred'
<1>1. client[s] \in Clients /\ client[s].op # "none"
  BY ServeFacts DEF Transferred, Typed
<1>2. client[s].op \in {"download", "upload", "rm", "mkdir"}
  BY <1>1 DEF Clients
<1>3. CASE client[s].op = "download"
  BY <1>3, TrOpensToRead DEF serve, Rest
<1>4. CASE client[s].op = "upload"
  BY <1>4, TrOpensToWrite DEF serve, Rest
<1>5. CASE client[s].op = "rm"
  BY <1>5, TrAnswered DEF serve, Rest
<1>6. CASE client[s].op = "mkdir"
  BY <1>6, TrAnswered DEF serve, Rest
<1>7. QED
  BY <1>2, <1>3, <1>4, <1>5, <1>6

-----------------------------------------------------------------------------
(*****************************************************************************)
(* The daemon sends a file.                                                  *)
(*****************************************************************************)
\* A count of items.
LEMMA GotFacts ==
    ASSUME NEW c \in Clients
    PROVE  Got(c) \in Nat /\ c.local \in Seq(Int) /\ SizeOf(c) \in Int
BY DEF Got, Clients, SizeOf

\* The item the thread sends is the next of the download.
LEMMA DownloadSends ==
    ASSUME NEW c \in Clients, NEW d \in Threads, NEW u \in SUBSET Sides, NEW b \in Boxes,
           NEW f, Download(c, d, u, b, f), d.pc \in {"sendsize", "sending"},
           NEW m \in Nat, NEW v \in Int,
           NEW d1 \in Threads, d1.pc = "sending", d1.fd = d.fd, d1.opened = d.opened,
           d1.n = m, d1.size = FileSize(d), m <= Len(d.opened),
           u = Sides /\ c.pc # "done" => Got(c) + Len(b["client"]) = m,
           m = 0 => v = FileSize(d), m > 0 => v = d.opened[m],
           NEW b1 \in Boxes, "daemon" \in u,
           "client" \notin u => b1["client"] = b["client"],
           "client" \in u => b1["client"] = Append(b["client"], v)
    PROVE  Download(c, d1, u, b1, f)
<1>1. "client" \in u => u = Sides
  BY DEF Sides
<1>2. FileSize(d1) = FileSize(d)
  BY DEF FileSize
<1>3. CASE "client" \notin u
  <2>1. u # Sides
    BY <1>3 DEF Sides
  <2>2. QED
    BY <1>2, <1>3, <2>1 DEF Download
<1>4. CASE "client" \in u
  <2>1. PICK x \in Seq(Int), y \in Seq(Int), k \in Nat, q \in Nat :
           x = b["client"] /\ y = b1["client"] /\ k = Len(x) /\ q = Got(c)
    BY GotFacts DEF Boxes, Sides
  <2>2. y = Append(x, v)
    BY <1>4, <2>1
  <2>3. Len(y) = k + 1 /\ y[k + 1] = v /\ \A j \in 1..k : y[j] = x[j]
    BY <2>1, <2>2, AppendedFacts
  <2>4. c.pc # "done" => q + k = m
    BY <1>1, <1>4, <2>1
  <2>5. ASSUME c.pc # "done", NEW j \in 1..k + 1
        PROVE  /\ q + j = 1 => y[j] = FileSize(d)
               /\ q + j > 1 => q + j - 1 <= Len(d.opened) /\ y[j] = d.opened[q + j - 1]
    <3>1. CASE j \in 1..k
      <4>1. /\ q + j = 1 => x[j] = FileSize(d)
            /\ q + j > 1 => q + j - 1 <= Len(d.opened) /\ x[j] = d.opened[q + j - 1]
        BY <2>1, <2>5, <3>1 DEF Download
      <4>2. QED
        BY <2>3, <3>1, <4>1
    <3>2. CASE j = k + 1
      <4>1. q + j = 1 + m /\ y[j] = v
        BY <2>3, <2>4, <2>5, <3>2
      <4>2. CASE m = 0
        BY <4>1, <4>2
      <4>3. CASE m > 0
        <5>1. q + j - 1 = m /\ v = d.opened[m]
          BY <4>1, <4>3
        <5>2. QED
          BY <4>1, <4>3, <5>1
      <4>4. QED
        BY <4>2, <4>3
    <3>3. QED
      BY <2>5, <3>1, <3>2
  <2>6. c.pc # "done" => q + Len(y) = 1 + m
    BY <2>3, <2>4
  <2>7. QED
    BY <1>2, <2>1, <2>3, <2>5, <2>6 DEF Download
<1>5. QED
  BY <1>3, <1>4

\* The thread sends the size of the file.
LEMMA TrDaemonSendSize ==
    ASSUME Setting, Transferred, NEW s \in Sessions, daemonSendSize(s)
    PROVE  Transferred'
<1>1. PICK c \in Clients, d \in Threads, u \in SUBSET Sides, b \in Boxes, f \in Seq(Int) :
              /\ c = client[s] /\ d = daemon[s] /\ u = up[s] /\ b = inbox[s] /\ f = Contents(s)
              /\ client = [client EXCEPT ![s] = c] /\ daemon = [daemon EXCEPT ![s] = d]
              /\ up = [up EXCEPT ![s] = u] /\ inbox = [inbox EXCEPT ![s] = b]
              /\ b["client"] \in Seq(Int) /\ b["daemon"] \in Seq(Int)
              /\ d.fd # Absent => d.fd \in Inodes /\ f = inode[d.fd]
              /\ Session(c, d, u, b, f)
  BY Parts
<1>2. /\ d.pc = "sendsize" /\ c.op = "download" /\ client' = client /\ up' = up /\ inode' = inode
      /\ dirent' \in {Absent} \cup Inodes /\ c.pc \notin {"start", "request"} /\ Live(s)
  BY <1>1 DEF daemonSendSize, DiskSame, Transferred, Typed, Session, Kinds, Live
<1>3. PICK v \in Int : v = IF d.fd = Absent THEN -1 ELSE Len(inode[d.fd])
  <2>1. Len(f) \in Int
    OBVIOUS
  <2>2. QED
    BY <1>1, <2>1
<1>4. CASE daemon' = [daemon EXCEPT ![s].pc = "close"] /\ inbox' = inbox
  <2>1. PICK d1 : d1 = [d EXCEPT !.pc = "close"]
    OBVIOUS
  <2>2. daemon' = [daemon EXCEPT ![s] = d1] /\ inbox' = [inbox EXCEPT ![s] = b]
        /\ up' = [up EXCEPT ![s] = u]
    BY <1>1, <1>2, <1>4, <2>1
  <2>3. /\ d1 \in Threads /\ d1.pc \in {"close", "end"} /\ d1.fd = d.fd /\ d1.opened = d.opened
        /\ d1.disturbed = d.disturbed /\ d1.stored = d.stored
    BY <2>1 DEF Threads
  <2>4. QED
    BY <1>1, <1>2, <2>2, <2>3, EndsStep
<1>5. CASE /\ Sends(s, "daemon", <<v>>)
           /\ daemon' = [daemon EXCEPT ![s].pc = "sending", ![s].size = v]
  <2>1. PICK b1 \in Boxes :
           /\ "daemon" \in u
           /\ inbox' = [inbox EXCEPT ![s] = b1] /\ b1["daemon"] = b["daemon"]
           /\ "client" \notin u => b1["client"] = b["client"]
           /\ "client" \in u => b1["client"] = Append(b["client"], v)
    <3>1. /\ "daemon" \in up[s]
          /\ \E b1 \in Boxes :
                /\ inbox' = [inbox EXCEPT ![s] = b1] /\ b1["daemon"] = inbox[s]["daemon"]
                /\ "client" \notin up[s] => b1["client"] = inbox[s]["client"]
                /\ "client" \in up[s] => b1["client"] = Append(inbox[s]["client"], v)
      BY <1>5, SendOne
    <3>2. u = up[s] /\ b = inbox[s]
      BY <1>1
    <3>3. QED
      BY <3>1, <3>2
  <2>2. PICK d1 : d1 = [d EXCEPT !.pc = "sending", !.size = v]
    OBVIOUS
  <2>3. daemon' = [daemon EXCEPT ![s] = d1]
    BY <1>1, <1>5, <2>2
  <2>4. /\ d1 \in Threads /\ d1.pc = "sending" /\ d1.size = v /\ d1.n = d.n /\ d1.fd = d.fd
        /\ d1.opened = d.opened /\ d1.disturbed = d.disturbed /\ d1.stored = d.stored
    BY <2>2 DEF Threads
  <2>5. Kinds(c, d1, b1)
    BY <1>1, <1>2, <1>3, <2>1, <2>4 DEF Session, Kinds
  <2>6. ASSUME ~d.disturbed PROVE Download(c, d1, u, b1, f)
    <3>1. Download(c, d, u, b, f)
      BY <1>1, <1>2, <2>6 DEF Session
    <3>2. PICK m \in Nat : m = 0 /\ m = d.n
      BY <1>2, <3>1 DEF Download
    <3>3. v = FileSize(d)
      BY <1>1, <1>2, <1>3, <3>1 DEF Download, FileSize
    <3>4. b["client"] = <<>> /\ c.pc # "receiving"
      BY <1>1, <1>2 DEF Session, Kinds
    <3>5. Got(c) + Len(b["client"]) = m
      BY <3>2, <3>4 DEF Got
    <3>6. m <= Len(d.opened) /\ (m = 0 => v = FileSize(d)) /\ (m > 0 => v = d.opened[m])
      BY <3>2, <3>3 DEF Threads
    <3>7. d.pc \in {"sendsize", "sending"} /\ d1.n = m /\ d1.size = FileSize(d)
      BY <1>2, <2>4, <3>2, <3>3
    <3>8. QED
      BY <2>1, <2>4, <3>1, <3>5, <3>6, <3>7, DownloadSends
  <2>7. Session(c, d1, u, b1, f)
    BY <1>2, <2>4, <2>5, <2>6 DEF Session
  <2>8. up' = [up EXCEPT ![s] = u] /\ client' = [client EXCEPT ![s] = c]
    BY <1>1, <1>2
  <2>9. QED
    BY <1>1, <1>2, <2>1, <2>3, <2>4, <2>7, <2>8, QuietStep
<1>6. QED
  BY <1>1, <1>3, <1>4, <1>5 DEF daemonSendSize

\* The thread sends the next block, or has sent them all.
LEMMA TrDaemonSendfile ==
    ASSUME Setting, Transferred, NEW s \in Sessions, daemonSendfile(s)
    PROVE  Transferred'
<1>1. PICK c \in Clients, d \in Threads, u \in SUBSET Sides, b \in Boxes, f \in Seq(Int) :
              /\ c = client[s] /\ d = daemon[s] /\ u = up[s] /\ b = inbox[s] /\ f = Contents(s)
              /\ client = [client EXCEPT ![s] = c] /\ daemon = [daemon EXCEPT ![s] = d]
              /\ up = [up EXCEPT ![s] = u] /\ inbox = [inbox EXCEPT ![s] = b]
              /\ b["client"] \in Seq(Int) /\ b["daemon"] \in Seq(Int)
              /\ d.fd # Absent => d.fd \in Inodes /\ f = inode[d.fd]
              /\ Session(c, d, u, b, f)
  BY Parts
<1>2. /\ d.pc = "sending" /\ c.op = "download" /\ client' = client /\ up' = up /\ inode' = inode
      /\ dirent' \in {Absent} \cup Inodes /\ c.pc \notin {"start", "request"} /\ Live(s)
      /\ d.fd = Absent => d.size = -1
  BY <1>1 DEF daemonSendfile, DiskSame, Transferred, Typed, Session, Kinds, Live
<1>3. CASE daemon' = [daemon EXCEPT ![s].pc = "close"] /\ inbox' = inbox
  <2>1. PICK d1 : d1 = [d EXCEPT !.pc = "close"]
    OBVIOUS
  <2>2. daemon' = [daemon EXCEPT ![s] = d1] /\ inbox' = [inbox EXCEPT ![s] = b]
        /\ up' = [up EXCEPT ![s] = u]
    BY <1>1, <1>2, <1>3, <2>1
  <2>3. /\ d1 \in Threads /\ d1.pc \in {"close", "end"} /\ d1.fd = d.fd /\ d1.opened = d.opened
        /\ d1.disturbed = d.disturbed /\ d1.stored = d.stored
    BY <2>1 DEF Threads
  <2>4. QED
    BY <1>1, <1>2, <2>2, <2>3, EndsStep
<1>4. CASE /\ d.n < d.size /\ d.n < Len(inode[d.fd])
           /\ Sends(s, "daemon", <<inode[d.fd][d.n + 1]>>)
           /\ daemon' = [daemon EXCEPT ![s].n = @ + 1]
  <2>1. PICK m \in Nat : m = d.n + 1
    BY DEF Threads
  <2>2. d.fd # Absent /\ f = inode[d.fd]
    <3>1. d.n \in Nat
      BY DEF Threads
    <3>2. QED
      BY <1>1, <1>2, <1>4, <3>1
  <2>3. m \in 1..Len(f)
    <3>1. d.n \in Nat /\ Len(f) \in Nat
      BY DEF Threads
    <3>2. QED
      BY <1>4, <2>1, <2>2, <3>1
  <2>4. PICK v \in Int : v = f[m]
    BY <2>3, ElementOfSeq
  <2>5. Sends(s, "daemon", <<v>>)
    BY <1>4, <2>1, <2>2, <2>4
  <2>6. PICK b1 \in Boxes :
           /\ "daemon" \in u
           /\ inbox' = [inbox EXCEPT ![s] = b1] /\ b1["daemon"] = b["daemon"]
           /\ "client" \notin u => b1["client"] = b["client"]
           /\ "client" \in u => b1["client"] = Append(b["client"], v)
    <3>1. /\ "daemon" \in up[s]
          /\ \E b1 \in Boxes :
                /\ inbox' = [inbox EXCEPT ![s] = b1] /\ b1["daemon"] = inbox[s]["daemon"]
                /\ "client" \notin up[s] => b1["client"] = inbox[s]["client"]
                /\ "client" \in up[s] => b1["client"] = Append(inbox[s]["client"], v)
      BY <2>5, SendOne
    <3>2. u = up[s] /\ b = inbox[s]
      BY <1>1
    <3>3. QED
      BY <3>1, <3>2
  <2>7. PICK d1 : d1 = [d EXCEPT !.n = m]
    OBVIOUS
  <2>8. daemon' = [daemon EXCEPT ![s] = d1]
    BY <1>1, <1>4, <2>1, <2>7
  <2>9. /\ d1 \in Threads /\ d1.pc = "sending" /\ d1.size = d.size /\ d1.n = m /\ d1.fd = d.fd
        /\ d1.opened = d.opened /\ d1.disturbed = d.disturbed /\ d1.stored = d.stored
    BY <1>2, <2>7 DEF Threads
  <2>10. Kinds(c, d1, b1)
    BY <1>1, <1>2, <2>6, <2>9 DEF Session, Kinds
  <2>11. ASSUME ~d.disturbed PROVE Download(c, d1, u, b1, f)
    <3>1. Download(c, d, u, b, f)
      BY <1>1, <1>2, <2>11 DEF Session
    <3>2. f = d.opened /\ d.size = FileSize(d)
      BY <1>2, <3>1 DEF Download
    <3>3. u = Sides /\ c.pc # "done" => Got(c) + Len(b["client"]) = 1 + d.n
      BY <1>2, <3>1 DEF Download
    <3>4. u = Sides /\ c.pc # "done" => Got(c) + Len(b["client"]) = m
      BY <2>1, <3>3 DEF Threads
    <3>5. m <= Len(d.opened) /\ m # 0 /\ v = d.opened[m]
      BY <2>3, <2>4, <3>2
    <3>6. m <= Len(d.opened) /\ (m = 0 => v = FileSize(d)) /\ (m > 0 => v = d.opened[m])
      BY <3>5
    <3>7. d.pc \in {"sendsize", "sending"} /\ d1.size = FileSize(d)
      BY <1>2, <2>9, <3>2
    <3>8. QED
      BY <2>6, <2>9, <3>1, <3>4, <3>6, <3>7, DownloadSends
  <2>12. Session(c, d1, u, b1, f)
    BY <1>2, <2>9, <2>10, <2>11 DEF Session
  <2>13. up' = [up EXCEPT ![s] = u] /\ client' = [client EXCEPT ![s] = c]
    BY <1>1, <1>2
  <2>14. QED
    BY <1>1, <1>2, <2>6, <2>8, <2>9, <2>12, <2>13, QuietStep
<1>5. QED
  BY <1>1, <1>3, <1>4 DEF daemonSendfile

-----------------------------------------------------------------------------
(*****************************************************************************)
(* The daemon receives a file.                                               *)
(*****************************************************************************)
\* The thread reads the size of the file.
LEMMA TrDaemonRecvSize ==
    ASSUME Setting, Transferred, NEW s \in Sessions, daemonRecvSize(s)
    PROVE  Transferred'
<1>1. PICK c \in Clients, d \in Threads, u \in SUBSET Sides, b \in Boxes, f \in Seq(Int) :
              /\ c = client[s] /\ d = daemon[s] /\ u = up[s] /\ b = inbox[s] /\ f = Contents(s)
              /\ client = [client EXCEPT ![s] = c] /\ daemon = [daemon EXCEPT ![s] = d]
              /\ up = [up EXCEPT ![s] = u] /\ inbox = [inbox EXCEPT ![s] = b]
              /\ b["client"] \in Seq(Int) /\ b["daemon"] \in Seq(Int)
              /\ Session(c, d, u, b, f)
  BY Parts
<1>2. /\ d.pc = "size" /\ c.op = "upload" /\ client' = client /\ up' = up /\ inode' = inode
      /\ dirent' \in {Absent} \cup Inodes /\ c.pc \notin {"start", "request"} /\ Live(s)
      /\ d.fd # Absent
  BY <1>1 DEF daemonRecvSize, DiskSame, Transferred, Typed, Session, Kinds, Live
<1>3. up' = [up EXCEPT ![s] = u] /\ client' = [client EXCEPT ![s] = c]
  BY <1>1, <1>2
<1>4. ASSUME NEW r \in Boxes, inbox' = [inbox EXCEPT ![s] = r],
             daemon' = [daemon EXCEPT ![s].pc = "close"]
      PROVE  Transferred'
  <2>1. PICK d1 : d1 = [d EXCEPT !.pc = "close"]
    OBVIOUS
  <2>2. daemon' = [daemon EXCEPT ![s] = d1]
    BY <1>1, <1>4, <2>1
  <2>3. /\ d1 \in Threads /\ d1.pc \in {"close", "end"} /\ d1.fd = d.fd /\ d1.opened = d.opened
        /\ d1.disturbed = d.disturbed /\ d1.stored = d.stored
    BY <2>1 DEF Threads
  <2>4. QED
    BY <1>1, <1>2, <1>3, <1>4, <2>2, <2>3, EndsStep
<1>5. CASE daemon' = [daemon EXCEPT ![s].pc = "close"] /\ inbox' = inbox
  BY <1>1, <1>4, <1>5
<1>6. CASE /\ Arrived(s, "daemon") /\ inbox' = Taken(s, "daemon")
           /\ daemon' = IF Head(inbox[s].daemon) < 0
                        THEN [daemon EXCEPT ![s].pc = "close"]
                        ELSE [daemon EXCEPT ![s].pc = "receiving",
                                            ![s].size = Head(inbox[s].daemon)]
  <2>1. PICK b1 \in Boxes, h \in Int :
           /\ inbox' = [inbox EXCEPT ![s] = b1] /\ b1["client"] = b["client"]
           /\ h = Head(inbox[s]["daemon"]) /\ h = b["daemon"][1]
           /\ Len(b["daemon"]) \in Nat /\ Len(b["daemon"]) >= 1
           /\ b1["daemon"] \in Seq(Int) /\ Len(b1["daemon"]) = Len(b["daemon"]) - 1
           /\ \A j \in 1..Len(b1["daemon"]) : b1["daemon"][j] = b["daemon"][j + 1]
    <3>1. Arrived(s, "daemon") /\ inbox' = Taken(s, "daemon") /\ b = inbox[s]
      BY <1>1, <1>6
    <3>2. QED
      BY <3>1, TakenByDaemon
  <2>2. CASE h < 0
    BY <1>4, <1>6, <2>1, <2>2
  <2>3. CASE h >= 0
    <3>1. daemon' = [daemon EXCEPT ![s].pc = "receiving", ![s].size = h]
      BY <1>6, <2>1, <2>3
    <3>2. PICK d1 : d1 = [d EXCEPT !.pc = "receiving", !.size = h]
      OBVIOUS
    <3>3. daemon' = [daemon EXCEPT ![s] = d1]
      BY <1>1, <3>1, <3>2
    <3>4. /\ d1 \in Threads /\ d1.pc = "receiving" /\ d1.size = h /\ d1.n = d.n /\ d1.fd = d.fd
          /\ d1.opened = d.opened /\ d1.disturbed = d.disturbed /\ d1.stored = d.stored
      BY <3>2 DEF Threads
    <3>5. Kinds(c, d1, b1)
      BY <1>1, <1>2, <2>1, <3>4 DEF Session, Kinds
    <3>6. ASSUME ~d.disturbed PROVE Upload(c, d1, u, b1, f)
      <4>1. Upload(c, d, u, b, f) /\ d.n = 0
        BY <1>1, <1>2, <3>6 DEF Session, Upload
      <4>2. Consumed(d) = 3 /\ Consumed(d1) = 4 /\ d.pc \in Reads /\ d1.pc \in Reads
        BY <1>2, <3>4, <4>1 DEF Consumed, Reads
      <4>3. h = SizeOf(c)
        BY <2>1, <4>1, <4>2 DEF Upload
      <4>4. PICK q \in Nat : q = Len(b["daemon"]) /\ Len(b1["daemon"]) = q - 1
        BY <2>1
      <4>5. ASSUME NEW j \in 1..Len(b1["daemon"])
            PROVE  /\ Consumed(d1) + j = 4 => b1["daemon"][j] = SizeOf(c)
                   /\ Consumed(d1) + j > 4 => /\ Consumed(d1) + j - 4 <= SizeOf(c)
                                              /\ b1["daemon"][j] = c.local[Consumed(d1) + j - 4]
        <5>1. PICK n \in 1..q : n = j + 1 /\ b1["daemon"][j] = b["daemon"][n] /\ n > 1
          <6>1. j \in 1..(q - 1)
            BY <4>4
          <6>2. j + 1 \in 1..q /\ j + 1 > 1
            BY <6>1
          <6>3. b1["daemon"][j] = b["daemon"][j + 1]
            BY <2>1
          <6>4. QED
            BY <6>2, <6>3
        <5>2. /\ Consumed(d) + n > 4 => /\ Consumed(d) + n - 4 <= SizeOf(c)
                                        /\ b["daemon"][n] = c.local[Consumed(d) + n - 4]
          BY <4>1, <4>2, <4>4 DEF Upload
        <5>3. j <= SizeOf(c) /\ b["daemon"][n] = c.local[j]
          BY <4>2, <5>1, <5>2
        <5>4. Consumed(d1) + j - 4 = j /\ Consumed(d1) + j # 4
          BY <4>2
        <5>5. QED
          BY <5>1, <5>3, <5>4
      <4>6. u = Sides =>
              /\ c.pc = "sendsize" => Consumed(d1) + Len(b1["daemon"]) = 3
              /\ c.pc = "sending" => Consumed(d1) + Len(b1["daemon"]) = 4 + c.n
        <5>1. Consumed(d1) + Len(b1["daemon"]) = Consumed(d) + Len(b["daemon"])
          BY <4>2, <4>4
        <5>2. QED
          BY <4>1, <4>2, <5>1 DEF Upload
      <4>7. d1.size = SizeOf(c) /\ d1.size >= 0 /\ d1.n <= d1.size /\ d1.n = 0
        BY <2>3, <3>4, <4>1, <4>3
      <4>8. Len(f) = d1.n /\ \A k \in 1..d1.n : f[k] = c.local[k]
        BY <1>2, <3>4, <4>1 DEF Upload
      <4>9. ~d1.stored /\ (c.pc = "sending" => c.n = 0 \/ c.n <= SizeOf(c))
        BY <1>2, <3>4, <4>1 DEF Upload
      <4>10. QED
        BY <3>4, <4>5, <4>6, <4>7, <4>8, <4>9 DEF Upload
    <3>7. Session(c, d1, u, b1, f)
      BY <1>2, <3>4, <3>5, <3>6 DEF Session
    <3>8. QED
      BY <1>1, <1>2, <1>3, <2>1, <3>3, <3>4, <3>7, QuietStep
  <2>4. QED
    BY <2>1, <2>2, <2>3
<1>7. QED
  BY <1>5, <1>6 DEF daemonRecvSize

\* y is x with v at its end, if that is where k is.
Appended(x, k, v, y) ==
    Len(x) = k - 1 => Len(y) = k /\ y[k] = v /\ \A j \in 1..k - 1 : y[j] = x[j]

\* A block written after the last one.
LEMMA WrittenFacts ==
    ASSUME NEW x \in Seq(Int), NEW k \in Nat \ {0}, NEW v \in Int
    PROVE  Written(x, k, v) \in Seq(Int) /\ Appended(x, k, v, Written(x, k, v))
<1>1. PICK m \in Nat, n \in Nat : n = Len(x) /\ m = IF k > n THEN k ELSE n
  <2>1. Len(x) \in Nat
    OBVIOUS
  <2>2. QED
    BY <2>1
<1>2. Written(x, k, v) = [j \in 1..m |-> IF j = k THEN v ELSE IF j <= n THEN x[j] ELSE 0]
  BY <1>1 DEF Written
<1>3. \A j \in 1..m : (IF j = k THEN v ELSE IF j <= n THEN x[j] ELSE 0) \in Int
  BY <1>1, ElementOfSeq
<1>4. Written(x, k, v) \in [1..m -> Int]
  BY <1>2, <1>3
<1>5. Written(x, k, v) \in Seq(Int) /\ Len(Written(x, k, v)) = m
  BY <1>4, LenProperties
<1>6. ASSUME n = k - 1
      PROVE  /\ m = k /\ Written(x, k, v)[k] = v
             /\ \A j \in 1..k - 1 : Written(x, k, v)[j] = x[j]
  BY <1>1, <1>2, <1>6
<1>7. QED
  BY <1>1, <1>5, <1>6 DEF Appended

\* The thread writes the next block, or has as many as the size says.
LEMMA TrDaemonRecvfile ==
    ASSUME Setting, Transferred, NEW s \in Sessions, daemonRecvfile(s)
    PROVE  Transferred'
<1>1. PICK c \in Clients, d \in Threads, u \in SUBSET Sides, b \in Boxes, f \in Seq(Int) :
              /\ c = client[s] /\ d = daemon[s] /\ u = up[s] /\ b = inbox[s] /\ f = Contents(s)
              /\ client = [client EXCEPT ![s] = c] /\ daemon = [daemon EXCEPT ![s] = d]
              /\ up = [up EXCEPT ![s] = u] /\ inbox = [inbox EXCEPT ![s] = b]
              /\ b["client"] \in Seq(Int) /\ b["daemon"] \in Seq(Int)
              /\ d.fd # Absent => d.fd \in Inodes /\ f = inode[d.fd]
              /\ Session(c, d, u, b, f)
  BY Parts
<1>2. /\ d.pc = "receiving" /\ c.op = "upload" /\ client' = client /\ up' = up
      /\ dirent' = dirent /\ dirent \in {Absent} \cup Inodes
      /\ c.pc \notin {"start", "request"} /\ Live(s) /\ d.fd # Absent
  BY <1>1 DEF daemonRecvfile, Transferred, Typed, Session, Kinds, Live
<1>3. up' = [up EXCEPT ![s] = u] /\ client' = [client EXCEPT ![s] = c] /\ f = inode[d.fd]
      /\ d.fd \in Inodes /\ dirent' \in {Absent} \cup Inodes
  BY <1>1, <1>2
<1>4. ASSUME NEW r \in Boxes, inbox' = [inbox EXCEPT ![s] = r], inode' = inode,
             daemon' = [daemon EXCEPT ![s].pc = "close"]
      PROVE  Transferred'
  <2>1. PICK d1 : d1 = [d EXCEPT !.pc = "close"]
    OBVIOUS
  <2>2. daemon' = [daemon EXCEPT ![s] = d1]
    BY <1>1, <1>4, <2>1
  <2>3. /\ d1 \in Threads /\ d1.pc \in {"close", "end"} /\ d1.fd = d.fd /\ d1.opened = d.opened
        /\ d1.disturbed = d.disturbed /\ d1.stored = d.stored
    BY <2>1 DEF Threads
  <2>4. QED
    BY <1>1, <1>2, <1>3, <1>4, <2>2, <2>3, EndsStep
<1>5. CASE daemon' = [daemon EXCEPT ![s].pc = "close"] /\ inbox' = inbox /\ inode' = inode
  BY <1>1, <1>4, <1>5
<1>6. CASE /\ daemon' = [daemon EXCEPT ![s].pc = "close"] /\ inode' = inode
           /\ inbox' = [inbox EXCEPT ![s].client = Append(@, PeerError)]
  <2>1. PICK x \in Int : x = PeerError
    BY DEF PeerError
  <2>2. PICK r \in Boxes : inbox' = [inbox EXCEPT ![s] = r]
    BY <1>6, <2>1, AppendsFacts
  <2>3. QED
    BY <1>4, <1>6, <2>2
<1>7. CASE /\ d.n < d.size /\ Arrived(s, "daemon")
           /\ daemon' = [daemon EXCEPT ![s].n = @ + 1]
           /\ inode' = [inode EXCEPT ![d.fd] = Written(@, d.n + 1, Head(inbox[s].daemon))]
           /\ inbox' = Taken(s, "daemon")
  <2>1. PICK b1 \in Boxes, h \in Int :
           /\ inbox' = [inbox EXCEPT ![s] = b1] /\ b1["client"] = b["client"]
           /\ h = Head(inbox[s]["daemon"]) /\ h = b["daemon"][1]
           /\ Len(b["daemon"]) \in Nat /\ Len(b["daemon"]) >= 1
           /\ b1["daemon"] \in Seq(Int) /\ Len(b1["daemon"]) = Len(b["daemon"]) - 1
           /\ \A j \in 1..Len(b1["daemon"]) : b1["daemon"][j] = b["daemon"][j + 1]
    <3>1. Arrived(s, "daemon") /\ inbox' = Taken(s, "daemon") /\ b = inbox[s]
      BY <1>1, <1>7
    <3>2. QED
      BY <3>1, TakenByDaemon
  <2>2. PICK m \in Nat \ {0} : m = d.n + 1 /\ d.n = m - 1
    <3>1. d.n \in Nat
      BY DEF Threads
    <3>2. d.n + 1 \in Nat \ {0} /\ d.n = (d.n + 1) - 1
      BY <3>1
    <3>3. QED
      BY <3>2
  <2>3. PICK g \in Seq(Int) : g = Written(f, m, h) /\ Appended(f, m, h, g)
    BY WrittenFacts
  <2>4. inode' = [inode EXCEPT ![d.fd] = g]
    BY <1>3, <1>7, <2>1, <2>2, <2>3
  <2>5. /\ inode' \in [Inodes -> Seq(Int)] /\ inode'[d.fd] = g
        /\ \A i \in Inodes : i # d.fd => inode'[i] = inode[i]
    BY <1>3, <2>4 DEF Transferred, Typed
  <2>6. PICK d1 : d1 = [d EXCEPT !.n = m]
    OBVIOUS
  <2>7. daemon' = [daemon EXCEPT ![s] = d1]
    BY <1>1, <1>7, <2>2, <2>6
  <2>8. /\ d1 \in Threads /\ d1.pc = "receiving" /\ d1.size = d.size /\ d1.n = m /\ d1.fd = d.fd
        /\ d1.opened = d.opened /\ d1.disturbed = d.disturbed /\ d1.stored = d.stored
    BY <1>2, <2>6 DEF Threads
  <2>9. /\ daemon' \in [Sessions -> Threads] /\ daemon'[s] = d1
        /\ \A t \in Sessions \ {s} : daemon'[t] = daemon[t]
    BY <2>7, <2>8 DEF Transferred, Typed
  <2>10. g = Contents(s)'
    BY <1>2, <2>5, <2>8, <2>9 DEF Contents
  <2>11. \A t \in Sessions \ {s} : Live(t) /\ daemon[t].fd = d.fd => daemon[t].disturbed
    BY <1>1, <1>2 DEF Transferred, Shared
  <2>12. \A t \in Sessions \ {s} : daemon[t].fd # d.fd => Contents(t)' = Contents(t)
    <3>1. \A t \in Sessions : daemon[t].fd \in {Absent} \cup Inodes
      BY DEF Transferred, Typed, Threads
    <3>2. QED
      BY <2>5, <2>9, <3>1 DEF Contents
  <2>13. \A t \in Sessions \ {s} : Live(t) => daemon'[t].disturbed \/ Contents(t)' = Contents(t)
    BY <2>9, <2>11, <2>12
  <2>14. \A t \in Sessions \ {s} :
            Live(t) /\ daemon[t].fd = d1.fd =>
                 /\ client[t].op = "upload" => d1.disturbed
                 /\ client[s].op = "upload" => daemon'[t].disturbed
    <3>1. \A t \in Sessions \ {s} :
             Live(t) /\ daemon[t].fd = d.fd /\ client[t].op = "upload" => d.disturbed
      BY <1>1, <1>2 DEF Transferred, Shared
    <3>2. QED
      BY <2>8, <2>9, <2>11, <3>1
  <2>15. Kinds(c, d1, b1)
    BY <1>1, <1>2, <2>1, <2>8 DEF Session, Kinds
  <2>16. ASSUME ~d.disturbed PROVE Upload(c, d1, u, b1, g)
    <3>1. Upload(c, d, u, b, f)
      BY <1>1, <1>2, <2>16 DEF Session
    <3>2. /\ d.size = SizeOf(c) /\ Len(f) = m - 1 /\ \A k \in 1..m - 1 : f[k] = c.local[k]
      BY <1>2, <2>2, <3>1 DEF Upload
    <3>3. Consumed(d) = 3 + m /\ Consumed(d1) = 4 + m /\ d.pc \in Reads /\ d1.pc \in Reads
      <4>1. Consumed(d) = 4 + d.n /\ Consumed(d1) = 4 + d1.n
        BY <1>2, <2>8 DEF Consumed
      <4>2. d.pc \in Reads /\ d1.pc \in Reads
        BY <1>2, <2>8 DEF Reads
      <4>3. d1.n = m
        BY <2>8
      <4>4. 4 + (m - 1) = 3 + m
        OBVIOUS
      <4>5. QED
        BY <2>2, <4>1, <4>2, <4>3, <4>4
    <3>4. PICK q \in Nat : q = Len(b["daemon"]) /\ Len(b1["daemon"]) = q - 1 /\ q >= 1
      BY <2>1
    <3>5. ASSUME NEW n \in 1..q
          PROVE  m + n - 1 <= SizeOf(c) /\ b["daemon"][n] = c.local[m + n - 1]
      <4>1. Consumed(d) + n > 4 => /\ Consumed(d) + n - 4 <= SizeOf(c)
                                   /\ b["daemon"][n] = c.local[Consumed(d) + n - 4]
        BY <3>1, <3>3, <3>4 DEF Upload
      <4>2. PICK k \in Nat : k = m + n - 1 /\ Consumed(d) + n - 4 = k /\ Consumed(d) + n > 4
        BY <3>3
      <4>3. QED
        BY <4>1, <4>2
    <3>6. m <= SizeOf(c) /\ h = c.local[m]
      <4>1. 1 \in 1..q /\ m + 1 - 1 = m
        BY <3>4
      <4>2. QED
        BY <2>1, <3>5, <4>1
    <3>7. Len(g) = m /\ \A k \in 1..m : g[k] = c.local[k]
      <4>1. Len(g) = m /\ g[m] = h /\ \A j \in 1..m - 1 : g[j] = f[j]
        BY <2>3, <3>2 DEF Appended
      <4>2. \A k \in 1..m : k \in 1..m - 1 \/ k = m
        OBVIOUS
      <4>3. QED
        BY <3>2, <3>6, <4>1, <4>2
    <3>8. ASSUME NEW j \in 1..Len(b1["daemon"])
          PROVE  /\ Consumed(d1) + j = 4 => b1["daemon"][j] = SizeOf(c)
                 /\ Consumed(d1) + j > 4 => /\ Consumed(d1) + j - 4 <= SizeOf(c)
                                            /\ b1["daemon"][j] = c.local[Consumed(d1) + j - 4]
      <4>1. j \in 1..(q - 1)
        BY <3>4
      <4>2. j + 1 \in 1..q /\ j \in Nat /\ j >= 1
        BY <4>1
      <4>3. b1["daemon"][j] = b["daemon"][j + 1] /\ j \in Nat /\ j >= 1
        BY <2>1, <4>2
      <4>4. PICK k \in Nat : k = m + j /\ m + (j + 1) - 1 = k
        BY <4>3
      <4>5. k <= SizeOf(c) /\ b1["daemon"][j] = c.local[k]
        BY <3>5, <4>3, <4>2, <4>4
      <4>6. Consumed(d1) + j - 4 = k /\ Consumed(d1) + j # 4
        BY <3>3, <4>3, <4>4
      <4>7. QED
        BY <4>5, <4>6
    <3>9. u = Sides =>
            /\ c.pc = "sendsize" => Consumed(d1) + Len(b1["daemon"]) = 3
            /\ c.pc = "sending" => Consumed(d1) + Len(b1["daemon"]) = 4 + c.n
      <4>1. Consumed(d1) + Len(b1["daemon"]) = Consumed(d) + Len(b["daemon"])
        <5>1. (4 + m) + (q - 1) = (3 + m) + q
          OBVIOUS
        <5>2. QED
          BY <3>3, <3>4, <5>1
      <4>2. QED
        BY <3>1, <3>3, <4>1 DEF Upload
    <3>10. d1.size = SizeOf(c) /\ d1.size >= 0 /\ d1.n <= d1.size
      BY <1>2, <2>8, <3>1, <3>2, <3>6 DEF Upload
    <3>11. Len(g) = d1.n /\ \A k \in 1..d1.n : g[k] = c.local[k]
      BY <2>8, <3>7
    <3>12. ~d1.stored /\ (c.pc = "sending" => c.n = 0 \/ c.n <= SizeOf(c))
      BY <1>2, <2>8, <3>1 DEF Upload
    <3>13. QED
      BY <2>8, <3>8, <3>9, <3>10, <3>11, <3>12 DEF Upload
  <2>17. Session(client[s], d1, up[s], b1, g)
    <3>1. Session(c, d1, u, b1, g)
      BY <1>2, <2>8, <2>15, <2>16 DEF Session
    <3>2. QED
      BY <1>1, <3>1
  <2>18. \A t \in Sessions \ {s} : \/ daemon'[t] = daemon[t]
                                   \/ /\ daemon'[t] = [daemon[t] EXCEPT !.disturbed = TRUE]
                                      /\ daemon[t].pc \notin {"none", "request"}
    BY <2>9
  <2>19. client' = client /\ up' = up /\ dirent' \in {Absent} \cup Inodes
    BY <1>2, <1>3
  <2>20. QED
    BY <2>1, <2>5, <2>8, <2>9, <2>10, <2>13, <2>14, <2>17, <2>18, <2>19, OpenStep
<1>8. CASE /\ Completed(s, "daemon", d.n, d.size) /\ inbox' = inbox /\ inode' = inode
           /\ daemon' = [daemon EXCEPT ![s].pc = "close", ![s].stored = TRUE,
                                       ![s].opened = inode[d.fd]]
  <2>1. PICK d1 : d1 = [d EXCEPT !.pc = "close", !.stored = TRUE, !.opened = f]
    OBVIOUS
  <2>2. daemon' = [daemon EXCEPT ![s] = d1] /\ inbox' = [inbox EXCEPT ![s] = b]
    BY <1>1, <1>3, <1>8, <2>1
  <2>3. /\ d1 \in Threads /\ d1.pc = "close" /\ d1.fd = d.fd /\ d1.opened = f
        /\ d1.disturbed = d.disturbed /\ d1.stored
    BY <2>1 DEF Threads
  <2>4. Kinds(c, d1, b)
    BY <1>1, <1>2, <2>3 DEF Session, Kinds
  <2>5. ASSUME ~d.disturbed PROVE Upload(c, d1, u, b, f)
    <3>1. Upload(c, d, u, b, f)
      BY <1>1, <1>2, <2>5 DEF Session
    <3>2. /\ d.size = SizeOf(c) /\ d.size >= 0 /\ Len(f) = d.n /\ d.n = d.size
          /\ \A k \in 1..d.n : f[k] = c.local[k]
      BY <1>2, <1>8, <3>1 DEF Upload, Completed
    <3>3. c.local \in Seq(Int) /\ (c.local # Missing => SizeOf(c) = Len(c.local))
          /\ (c.local = Missing => SizeOf(c) = -1)
      BY DEF Clients, SizeOf
    <3>4. Len(c.local) = Len(f)
      BY <3>2, <3>3
    <3>5. c.local = f
      BY <3>2, <3>3, <3>4, SeqEqual
    <3>6. QED
      BY <2>3, <3>1, <3>5 DEF Upload, Reads
  <2>6. Session(c, d1, u, b, f)
    BY <1>2, <2>3, <2>4, <2>5 DEF Session
  <2>7. /\ daemon' = [daemon EXCEPT ![s] = d1] /\ inbox' = [inbox EXCEPT ![s] = b]
        /\ client' = [client EXCEPT ![s] = c] /\ up' = [up EXCEPT ![s] = u]
        /\ inode' = inode /\ dirent' \in {Absent} \cup Inodes
    BY <1>3, <1>8, <2>2
  <2>8. c.op = client[s].op /\ d1.fd = daemon[s].fd /\ d1.disturbed = daemon[s].disturbed
    BY <1>1, <2>3
  <2>9. Session(c, d1, u, b, Contents(s)) /\ Live(s)
    BY <1>1, <1>2, <2>6
  <2>10. QED
    BY <2>3, <2>7, <2>8, <2>9, QuietStep
<1>9. QED
  BY <1>1, <1>5, <1>6, <1>7, <1>8 DEF daemonRecvfile

-----------------------------------------------------------------------------
(*****************************************************************************)
(* The theorem.                                                              *)
(*****************************************************************************)
\* No change.
LEMMA TrSame ==
    ASSUME Transferred, UNCHANGED ffsnetvars
    PROVE  Transferred'
BY DEF ffsnetvars, Transferred, Typed, Shared, SessionInv, Contents, Live

\* Every step keeps the invariant.
LEMMA TrNext ==
    ASSUME Setting, Transferred, [Next]_ffsnetvars
    PROVE  Transferred'
<1>1. CASE UNCHANGED ffsnetvars
  BY <1>1, TrSame
<1>2. ASSUME NEW s \in Sessions, Call(s)
      PROVE  Transferred'
  BY <1>2, TrConnect, TrRequest, TrRecvSize, TrRecvfile, TrSendSize, TrSendfile, TrRecvStatus
     DEF Call
<1>3. ASSUME NEW s \in Sessions, Thread(s)
      PROVE  Transferred'
  BY <1>3, TrRecvRequest, TrServe, TrDaemonSendSize, TrDaemonSendfile, TrDaemonRecvSize,
     TrDaemonRecvfile, TrDaemonClose
     DEF Thread
<1>4. ASSUME NEW s \in Sessions, NEW x \in Sides, Break(s, x)
      PROVE  Transferred'
  BY <1>4, TrBreak
<1>5. QED
  BY <1>1, <1>2, <1>3, <1>4 DEF Next

\* The invariant is as strong as the property.
LEMMA TransferredExact ==
    ASSUME Transferred
    PROVE  TransferExact
BY DEF Transferred, SessionInv, Session, Download, Upload, TransferExact

\* A download that returns 0 has what the file contained when the daemon opened
\* it (or what the local disk took of it, when it refused the last blocks), and
\* an upload that the daemon reports stored left the call's file, whole: unless
\* another call had the file open for writing meanwhile. For every number of
\* calls, whatever breaks and when.
THEOREM Transfers == Spec => []TransferExact
<1>1. Setting
  BY CallsAssumption DEF Setting
<1>2. Init => Transferred
  BY <1>1, TrInit
<1>3. Transferred /\ [Next]_ffsnetvars => Transferred'
  BY <1>1, TrNext
<1>4. Transferred => TransferExact
  BY TransferredExact
<1>5. QED
  BY <1>2, <1>3, <1>4, PTL DEF Spec
=============================================================================
