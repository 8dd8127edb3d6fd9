------------------------------ MODULE ChatCore ------------------------------
(***************************************************************************)
(* What server_select.c and server_poll.c of section-07/lab/lab_4 have in  *)
(* common: the slot array clients[], the broadcast loop, the handlers for  *)
(* a new connection, a closed connection and a received line, the exit     *)
(* handler - and, external to the repository, the part of the kernel's TCP *)
(* the two programs depend on.  ServerSelect and ServerPoll add the        *)
(* multiplexing call and its bookkeeping.                                  *)
(*                                                                         *)
(* Every write(2) is a step of its own, so clients, the clock and signals  *)
(* interleave with a broadcast that is half done.  A handler's straight    *)
(* line code up to its first write is one step.                            *)
(***************************************************************************)
EXTENDS Integers, Sequences, FiniteSets

CONSTANTS
  Conn,          \* connections clients may open, each used once
  NoConn,        \* the content of a free descriptor
  FDS,           \* descriptors accept() can return
  LISTENFD,      \* the listening socket
  MAX_CLIENTS,
  MAX_LISTEN,
  MSG_COOLDOWN,
  NewNames,      \* valid arguments of "/name "
  GarbageTimes,  \* values of the uninitialized last_msg_time of accept's client
  Slow,          \* connections whose client may stop reading for a while
  MaxLines,      \* bound: lines all clients send
  MaxNow         \* bound: the clock

ASSUME ConstantsAssumption ==
  /\ LISTENFD \in Nat
  /\ FDS \subseteq Nat /\ \A fd \in FDS : fd > LISTENFD
  /\ NoConn \notin Conn
  /\ MAX_CLIENTS \in Nat \ {0} /\ MAX_LISTEN \in Nat
  /\ MSG_COOLDOWN \in Nat \ {0}
  /\ GarbageTimes \subseteq Int
  /\ MaxLines \in Nat /\ MaxNow \in Nat

VARIABLES
  pc,       \* where the main thread is
  idx,      \* first slot the scan loop has not looked at yet
  clients,  \* the slot array
  out,      \* per slot, the log entry still to be written to it, 0 if none
  newfd,    \* descriptor of a connection being refused, -1 if none
  fdtab,    \* descriptor table of the process
  now,      \* time(NULL)
  backlog,  \* accept queue of the listening socket
  link,     \* state of each TCP connection as the server's kernel sees it
  stalled,  \* the client has stopped reading and the socket buffers are full
  lines,    \* lines received by the kernel, not read by the server
  sent,     \* lines sent by all clients so far
  log,      \* history: everything the server decided to send, and to whom
  got       \* history: which log entries reached each client

serverVars == <<pc, idx, clients, out, newfd>>
netVars    == <<fdtab, backlog, link, stalled, lines, sent>>
histVars   == <<log, got>>
coreVars   == <<serverVars, netVars, histVars, now>>

Slots   == 1..MAX_CLIENTS
Names   == Conn \cup NewNames           \* a client's first name is its address
Line    == [n : 1..MaxLines, cmd : {"text", "badname"} \cup NewNames]
Client  == [fd : FDS \cup {-1}, name : Names, last : Int]
Running == {"start", "wait", "accept", "refuse", "scan"}
Dead    == {"down", "killed"}

(* "finw": closed by the client and written to since; "rst": broken, the     *)
(* next write raises SIGPIPE; "reset": aborted, the next write only fails    *)
Links == {"idle", "open", "fin", "finw", "reset", "rst", "closed"}

Kinds == {"connected", "disconnected", "renamed", "badname", "you", "say",
          "full", "shutdown"}
Event == [kind : Kinds, who : Conn \cup {NoConn}, name : Names \cup {NoConn},
          n : Nat, at : Nat, to : SUBSET Conn]

CoreTypeOK ==
  /\ pc \in Running \cup Dead \cup {"exit"}
  /\ idx \in 1..MAX_CLIENTS + 1
  /\ clients \in [Slots -> Client]
  /\ out \in [Slots -> Nat]
  /\ newfd \in FDS \cup {-1}
  /\ fdtab \in [FDS -> Conn \cup {NoConn}]
  /\ now \in Nat
  /\ backlog \in Seq(Conn)
  /\ link \in [Conn -> Links]
  /\ stalled \in [Conn -> BOOLEAN]
  /\ lines \in [Conn -> Seq(Line)]
  /\ sent \in 0..MaxLines
  /\ log \in Seq(Event)
  /\ got \in [Conn -> SUBSET Nat]

CoreInit ==
  /\ pc = "start" /\ idx = 1 /\ newfd = -1 /\ now = 0
  /\ \E c \in Names, t \in GarbageTimes :
       clients = [i \in Slots |-> [fd |-> -1, name |-> c, last |-> t]]
  /\ out = [i \in Slots |-> 0]
  /\ fdtab = [fd \in FDS |-> NoConn]
  /\ backlog = <<>>
  /\ link = [c \in Conn |-> "idle"]
  /\ stalled = [c \in Conn |-> FALSE]
  /\ lines = [c \in Conn |-> <<>>]
  /\ sent = 0
  /\ log = <<>>
  /\ got = [c \in Conn |-> {}]

-----------------------------------------------------------------------------
(* The kernel's side of a descriptor *)

Open(fd) == fd = LISTENFD \/ (fd \in FDS /\ fdtab[fd] # NoConn)

Gone(c) == link[c] \in {"fin", "finw", "reset", "rst"}

Readable(fd) ==
  IF fd = LISTENFD THEN backlog # <<>>
  ELSE LET c == fdtab[fd] IN c # NoConn /\ (lines[c] # <<>> \/ Gone(c))

LowestFree(fd) ==
  /\ fdtab[fd] = NoConn
  /\ \A g \in FDS : fdtab[g] = NoConn => fd <= g

InUse(i)    == clients[i].fd # -1
ConnOf(i)   == fdtab[clients[i].fd]
Members     == {ConnOf(i) : i \in {j \in Slots : InUse(j)}}
Quiet       == \A i \in Slots : out[i] = 0

(* What a handler tells the clients: an entry of the log, and the writes of *)
(* broadcast_msg() for it, in slot order.                                   *)
Note(kind, who, name, n, to) ==
  [kind |-> kind, who |-> who, name |-> name, n |-> n, at |-> now, to |-> to]

(* Mutant: the loop stops one slot early. *)
BroadcastShort(cl, k, exceptfd) ==
  [i \in Slots |-> IF i < MAX_CLIENTS /\ cl[i].fd # -1 /\ cl[i].fd # exceptfd THEN k ELSE 0]

Broadcast(cl, k, exceptfd) ==
  [i \in Slots |-> IF cl[i].fd # -1 /\ cl[i].fd # exceptfd THEN k ELSE 0]

-----------------------------------------------------------------------------
(* Start-up: socket, bind, listen *)

Listen ==
  /\ pc = "start"
  /\ pc' = "wait"
  /\ UNCHANGED <<idx, clients, out, newfd, netVars, histVars, now>>

(* select() or poll() has returned *)
Woken(listener) ==
  /\ pc = "wait"
  /\ pc' = IF listener THEN "accept" ELSE "scan"
  /\ idx' = 1
  /\ UNCHANGED <<clients, out, newfd, netVars, histVars, now>>

(* accept() and the search for a free slot *)

Accepted(fd) ==
  /\ pc = "accept" /\ backlog # <<>>
  /\ LowestFree(fd)
  /\ fdtab' = [fdtab EXCEPT ![fd] = Head(backlog)]
  /\ backlog' = Tail(backlog)
  /\ UNCHANGED <<link, stalled, lines, sent, got, now>>

AcceptInto(i, fd) ==
  LET c == Head(backlog) IN
  /\ Accepted(fd)
  /\ clients[i].fd = -1 /\ \A j \in 1..(i - 1) : InUse(j)
  /\ \E t \in GarbageTimes :
       clients' = [clients EXCEPT ![i] = [fd |-> fd, name |-> c, last |-> t]]
  /\ log' = Append(log, Note("connected", c, c, 0, Members \cup {c}))
  /\ out' = Broadcast(clients', Len(log'), -1)
  /\ pc' = "scan" /\ idx' = 1
  /\ UNCHANGED newfd

AcceptFull(fd) ==
  /\ Accepted(fd)
  /\ \A j \in Slots : InUse(j)
  /\ log' = Append(log, Note("full", Head(backlog), Head(backlog), 0, {Head(backlog)}))
  /\ newfd' = fd
  /\ pc' = "refuse"
  /\ UNCHANGED <<idx, clients, out>>

-----------------------------------------------------------------------------
(* write(2) of log entry k to connection c.  The return value is ignored;   *)
(* what differs is the peer's fate.  A write to a connection the peer has   *)
(* closed provokes a RST; a write after that raises SIGPIPE, whose default  *)
(* action ends the process.  With full buffers the call blocks.             *)

Deliver(c, k) ==
  /\ link[c] = "open" /\ ~stalled[c]
  /\ got' = [got EXCEPT ![c] = @ \cup {k}]
  /\ \E full \in BOOLEAN : (full => c \in Slow) /\ stalled' = [stalled EXCEPT ![c] = full]
  /\ UNCHANGED link

Lose(c) ==
  /\ Gone(c) /\ link[c] # "rst"
  /\ link' = [link EXCEPT ![c] = CASE @ = "fin"   -> "finw"
                                   [] @ = "reset" -> "rst"
                                   [] OTHER       -> @]
  /\ UNCHANGED <<got, stalled>>

NextOut(i) ==
  /\ out[i] # 0
  /\ \A j \in Slots : out[j] # 0 => \/ out[i] < out[j]
                                    \/ out[i] = out[j] /\ i <= j

WriteSlot(i) ==
  /\ pc \notin Dead
  /\ NextOut(i)
  /\ Deliver(ConnOf(i), out[i]) \/ Lose(ConnOf(i))
  /\ out' = [out EXCEPT ![i] = 0]
  /\ UNCHANGED <<pc, idx, clients, newfd, fdtab, backlog, lines, sent, log, now>>

SigPipe(i) ==
  /\ pc \notin Dead
  /\ NextOut(i)
  /\ link[ConnOf(i)] = "rst"
  /\ pc' = "killed"
  /\ UNCHANGED <<idx, clients, out, newfd, netVars, histVars, now>>

(* Mutant: the refused connection is not closed. *)
RefuseLeaks ==
  /\ pc = "refuse"
  /\ newfd' = -1 /\ pc' = "wait"
  /\ UNCHANGED <<idx, clients, out, netVars, histVars, now>>

(* send_msg("Server is full") and close() of the refused connection *)
Refuse ==
  /\ pc = "refuse"
  /\ LET c == fdtab[newfd] IN
       /\ \/ link[c] = "open" /\ got' = [got EXCEPT ![c] = @ \cup {Len(log)}]
          \/ Gone(c) /\ UNCHANGED got
       /\ link' = [link EXCEPT ![c] = "closed"]
       /\ lines' = [lines EXCEPT ![c] = <<>>]
  /\ fdtab' = [fdtab EXCEPT ![newfd] = NoConn]
  /\ newfd' = -1
  /\ pc' = "wait"
  /\ UNCHANGED <<idx, clients, out, backlog, stalled, sent, log, now>>

-----------------------------------------------------------------------------
(* The scan loop.  At(i, ready): slot i is the next one in use whose        *)
(* descriptor the multiplexing call reported (the slots of the set ready).  *)

At(i, ready) ==
  /\ pc = "scan" /\ Quiet
  /\ i \in idx..MAX_CLIENTS /\ InUse(i) /\ i \in ready
  /\ \A j \in idx..(i - 1) : ~(InUse(j) /\ j \in ready)

EndScan(ready) ==
  /\ pc = "scan" /\ Quiet
  /\ \A j \in idx..MAX_CLIENTS : ~(InUse(j) /\ j \in ready)
  /\ pc' = "wait" /\ idx' = 1
  /\ UNCHANGED <<clients, out, newfd, netVars, histVars, now>>

(* Mutants: the slot keeps its descriptor; only n = 0 counts as the end.    *)
DisconnectKeepsSlot(i) ==
  LET c == ConnOf(i) IN
  /\ c # NoConn /\ lines[c] = <<>> /\ Gone(c)
  /\ fdtab' = [fdtab EXCEPT ![clients[i].fd] = NoConn]
  /\ link' = [link EXCEPT ![c] = "closed"]
  /\ log' = Append(log, Note("disconnected", c, clients[i].name, 0, Members \ {c}))
  /\ idx' = i + 1
  /\ UNCHANGED <<pc, clients, out, newfd, backlog, stalled, lines, sent, got, now>>

DisconnectOnEof(i) ==
  LET c == ConnOf(i) IN
  /\ c # NoConn /\ lines[c] = <<>> /\ link[c] \in {"fin", "finw"}
  /\ fdtab' = [fdtab EXCEPT ![clients[i].fd] = NoConn]
  /\ link' = [link EXCEPT ![c] = "closed"]
  /\ clients' = [clients EXCEPT ![i].fd = -1]
  /\ log' = Append(log, Note("disconnected", c, clients[i].name, 0, Members \ {c}))
  /\ out' = Broadcast(clients', Len(log'), -1)
  /\ idx' = i + 1
  /\ UNCHANGED <<pc, newfd, backlog, stalled, lines, sent, got, now>>

(* read() returned 0 or -1: close, free the slot, tell the others *)
Disconnect(i) ==
  LET c == ConnOf(i) IN
  /\ c # NoConn /\ lines[c] = <<>> /\ Gone(c)
  /\ fdtab' = [fdtab EXCEPT ![clients[i].fd] = NoConn]
  /\ link' = [link EXCEPT ![c] = "closed"]
  /\ clients' = [clients EXCEPT ![i].fd = -1]
  /\ log' = Append(log, Note("disconnected", c, clients[i].name, 0, Members \ {c}))
  /\ out' = Broadcast(clients', Len(log'), -1)
  /\ idx' = i + 1
  /\ UNCHANGED <<pc, newfd, backlog, stalled, lines, sent, got, now>>

(* What a line makes the server do *)
TooSoon(i) ==
  /\ now - clients[i].last < MSG_COOLDOWN
  /\ UNCHANGED <<clients, out, log>>

Rename(i, line) ==
  /\ now - clients[i].last >= MSG_COOLDOWN /\ line.cmd \in NewNames
  /\ clients' = [clients EXCEPT ![i].name = line.cmd]
  /\ log' = Append(log, Note("renamed", ConnOf(i), line.cmd, line.n, Members))
  /\ out' = Broadcast(clients', Len(log'), -1)

BadName(i, line) ==
  /\ now - clients[i].last >= MSG_COOLDOWN /\ line.cmd = "badname"
  /\ log' = Append(log, Note("badname", ConnOf(i), clients[i].name, line.n, {ConnOf(i)}))
  /\ out' = [out EXCEPT ![i] = Len(log')]
  /\ UNCHANGED clients

(* Mutants: send_buf is broadcast before it is formatted anew;             *)
(* last_msg_time is not updated.                                            *)
SayStale(i, line) ==
  LET c == ConnOf(i) IN
  /\ now - clients[i].last >= MSG_COOLDOWN /\ line.cmd = "text"
  /\ log' = log \o << Note("you", c, clients[i].name, line.n, {c}),
                      Note("say", c, clients[i].name, line.n, Members \ {c}) >>
  /\ out' = Broadcast(clients, Len(log) + 1, -1)
  /\ clients' = [clients EXCEPT ![i].last = now]

SayForgets(i, line) ==
  LET c == ConnOf(i) IN
  /\ now - clients[i].last >= MSG_COOLDOWN /\ line.cmd = "text"
  /\ log' = log \o << Note("you", c, clients[i].name, line.n, {c}),
                      Note("say", c, clients[i].name, line.n, Members \ {c}) >>
  /\ out' = [Broadcast(clients, Len(log'), clients[i].fd) EXCEPT ![i] = Len(log) + 1]
  /\ UNCHANGED clients

Say(i, line) ==
  LET c == ConnOf(i) IN
  /\ now - clients[i].last >= MSG_COOLDOWN /\ line.cmd = "text"
  /\ log' = log \o << Note("you", c, clients[i].name, line.n, {c}),
                      Note("say", c, clients[i].name, line.n, Members \ {c}) >>
  /\ out' = [Broadcast(clients, Len(log'), clients[i].fd) EXCEPT ![i] = Len(log) + 1]
  /\ clients' = [clients EXCEPT ![i].last = now]

(* One read() takes some or all of the lines the kernel holds; the handler  *)
(* cuts the buffer at the first line end, so only the first line counts.    *)
ReadLine(i) ==
  LET c == ConnOf(i) IN
  /\ c # NoConn /\ lines[c] # <<>>
  /\ \E k \in 1..Len(lines[c]) :
       lines' = [lines EXCEPT ![c] = SubSeq(@, k + 1, Len(@))]
  /\ LET line == Head(lines[c]) IN
       TooSoon(i) \/ Rename(i, line) \/ BadName(i, line) \/ Say(i, line)
  /\ idx' = i + 1
  /\ UNCHANGED <<pc, newfd, fdtab, backlog, link, stalled, sent, got, now>>

-----------------------------------------------------------------------------
(* Ending: SIGINT at any moment, or a failed bind() or listen(), run the    *)
(* exit handler.  What the interrupted handler still had to write is lost.  *)

(* Mutant: the exit handler does not broadcast. *)
ExitSilently ==
  /\ log' = Append(log, Note("shutdown", NoConn, NoConn, 0, Members))
  /\ out' = [i \in Slots |-> 0]
  /\ pc' = "exit"
  /\ UNCHANGED <<idx, clients, newfd, netVars, got, now>>

ExitHandler ==
  /\ log' = Append(log, Note("shutdown", NoConn, NoConn, 0, Members))
  /\ out' = Broadcast(clients, Len(log'), -1)
  /\ pc' = "exit"
  /\ UNCHANGED <<idx, clients, newfd, netVars, got, now>>

StartFails == pc = "start" /\ ExitHandler
SigInt     == pc \in Running /\ ExitHandler

Exited ==
  /\ pc = "exit" /\ Quiet
  /\ pc' = "down"
  /\ UNCHANGED <<idx, clients, out, newfd, netVars, histVars, now>>

-----------------------------------------------------------------------------
(* The clients, the network and the clock *)

Connect(c) ==
  /\ link[c] = "idle" /\ pc \in Running \ {"start"}
  /\ Len(backlog) <= MAX_LISTEN
  /\ link' = [link EXCEPT ![c] = "open"]
  /\ backlog' = Append(backlog, c)
  /\ UNCHANGED <<serverVars, fdtab, stalled, lines, sent, histVars, now>>

SendLine(c, cmd) ==
  /\ link[c] = "open" /\ pc \in Running   \* nothing is read after that
  /\ sent < MaxLines
  /\ sent' = sent + 1
  /\ lines' = [lines EXCEPT ![c] = Append(@, [n |-> sent', cmd |-> cmd])]
  /\ UNCHANGED <<serverVars, fdtab, backlog, link, stalled, histVars, now>>

(* close() by the client: a FIN, or a RST when it leaves data unread *)
ClientCloses(c) ==
  /\ link[c] = "open" /\ pc \notin Dead
  /\ \/ ~stalled[c] /\ link' = [link EXCEPT ![c] = "fin"]
     \/ got[c] # {} /\ link' = [link EXCEPT ![c] = "reset"]
  /\ stalled' = [stalled EXCEPT ![c] = FALSE]
  /\ UNCHANGED <<serverVars, fdtab, backlog, lines, sent, histVars, now>>

RstArrives(c) ==
  /\ link[c] = "finw" /\ pc \notin Dead
  /\ link' = [link EXCEPT ![c] = "rst"]
  /\ UNCHANGED <<serverVars, fdtab, backlog, stalled, lines, sent, histVars, now>>

ClientReads(c) ==
  /\ stalled[c] /\ pc \notin Dead
  /\ stalled' = [stalled EXCEPT ![c] = FALSE]
  /\ UNCHANGED <<serverVars, fdtab, backlog, link, lines, sent, histVars, now>>

Tick ==
  /\ now < MaxNow /\ pc \in Running
  /\ now' = now + 1
  /\ UNCHANGED <<serverVars, netVars, histVars>>

Environment ==
  \/ \E c \in Conn : \/ Connect(c) \/ ClientCloses(c) \/ RstArrives(c)
                     \/ ClientReads(c)
                     \/ \E cmd \in {"text", "badname"} \cup NewNames : SendLine(c, cmd)
  \/ Tick

=============================================================================
