----------------------------- MODULE EchoServer -----------------------------
(***************************************************************************)
(* section-07/lab/lab_1: a TCP echo server that forks a child for every    *)
(* connection (server.c), and its clients (client.c).                      *)
(*                                                                         *)
(* A process holds the server's end of a connection as long as it has a    *)
(* descriptor for it, and fork() copies descriptors: TCP ends a connection *)
(* only when its last holder lets go.  The same holds of the listening     *)
(* socket and the connections that wait in its queue.  A line is two       *)
(* units, and read() returns some of those that are there: TCP splits      *)
(* lines and joins them.  Socket buffers and the queue (MAX_CONNECTIONS)   *)
(* do not fill up.                                                         *)
(***************************************************************************)
EXTENDS Naturals, SequencesExt

CONSTANTS Clients, NoClient,
          MaxLines     \* bound: lines each client sends

ASSUME ClientsAssumption == NoClient \notin Clients /\ MaxLines \in [Clients -> Nat]

VARIABLES
  parent, connfd,
  open,      \* connections the parent holds
  chld,      \* SIGCHLD is pending
  handler,   \* the parent is in sig_chld()
  queue,     \* connections not yet accepted
  kid,       \* the child forked for a connection
  holds,     \* connections a child holds
  client, lines,
  up, buffer, down,   \* units sent to the child, in its buffer, sent back
  err        \* the connection was reset, and the client's socket says so

serverVars == <<parent, connfd, open, chld, handler, kid, holds>>
clientVars == <<client, lines>>
dataVars   == <<up, buffer, down>>
vars == <<serverVars, queue, clientVars, dataVars, err>>

Living == {"start", "read", "write"}

TypeOK ==
  /\ parent \in {"init", "accept", "fork", "close", "dead"}
  /\ connfd \in Clients \cup {NoClient}
  /\ open \subseteq Clients
  /\ chld \in BOOLEAN /\ handler \in BOOLEAN
  /\ queue \in Seq(Clients)
  /\ kid \in [Clients -> Living \cup {"none", "zombie", "reaped"}]
  /\ holds \in [Clients -> SUBSET Clients]
  /\ client \in [Clients -> {"new", "typing", "await", "gone"}]
  /\ lines \in [Clients -> Nat] /\ \A c \in Clients : lines[c] <= MaxLines[c]
  /\ {up, buffer, down} \subseteq [Clients -> Nat]
  /\ err \in [Clients -> {"no", "reset", "spent"}]

Init ==
  /\ parent = "init" /\ connfd = NoClient /\ open = {}
  /\ chld = FALSE /\ handler = FALSE
  /\ queue = <<>>
  /\ kid = [c \in Clients |-> "none"]
  /\ holds = [c \in Clients |-> {}]
  /\ client = [c \in Clients |-> "new"]
  /\ lines = [c \in Clients |-> 0]
  /\ up = lines /\ buffer = lines /\ down = lines
  /\ err = [c \in Clients |-> "no"]

Listening == parent \notin {"init", "dead"} \/ \E c \in Clients : kid[c] = "start"

(* Somebody has the server's end of the connection, or it is queued.       *)
Alive(c) == \/ c \in open \/ c \in ToSet(queue)
            \/ \E d \in Clients : c \in holds[d]

(* Closing the last descriptor of the listening socket resets the          *)
(* connections in its queue (stands after what sets parent' and kid').     *)
CloseListener ==
  IF Listening' THEN UNCHANGED <<queue, err>>
  ELSE /\ queue' = <<>>
       /\ err' = [c \in Clients |-> IF c \in ToSet(queue) THEN "reset" ELSE err[c]]

-----------------------------------------------------------------------------
(* The parent *)

Start ==
  /\ parent = "init"
  /\ parent' \in {"accept", "dead"}     \* bind and listen may fail
  /\ UNCHANGED <<connfd, open, chld, handler, kid, holds, queue, clientVars, dataVars, err>>

Accept ==
  /\ parent = "accept" /\ ~handler /\ queue # <<>>
  /\ connfd' = Head(queue) /\ queue' = Tail(queue)
  /\ open' = open \cup {connfd'}
  /\ parent' = "fork"
  /\ UNCHANGED <<chld, handler, kid, holds, clientVars, dataVars, err>>

(* exit(-1): init inherits the children and reaps them                      *)
AcceptFails ==
  /\ parent = "accept" /\ ~handler
  /\ parent' = "dead" /\ open' = {} /\ chld' = FALSE
  /\ kid' = [c \in Clients |-> IF kid[c] = "zombie" THEN "reaped" ELSE kid[c]]
  /\ UNCHANGED <<connfd, handler, holds, clientVars, dataVars>>
  /\ CloseListener

Fork ==
  /\ parent = "fork" /\ ~handler
  /\ kid' = [kid EXCEPT ![connfd] = "start"]
  /\ holds' = [holds EXCEPT ![connfd] = open]
  /\ parent' = "close"
  /\ UNCHANGED <<connfd, open, chld, handler, queue, clientVars, dataVars, err>>

(* fork() = -1 takes the parent's branch                                    *)
ForkFails ==
  /\ parent = "fork" /\ ~handler
  /\ parent' = "close"
  /\ UNCHANGED <<connfd, open, chld, handler, kid, holds, queue, clientVars, dataVars, err>>

(* Mutants: the parent keeps its copy; it keeps it if fork() failed.        *)
CloseNothing ==
  /\ parent = "close" /\ ~handler
  /\ parent' = "accept"
  /\ UNCHANGED <<connfd, open, chld, handler, kid, holds, queue, clientVars, dataVars, err>>

CloseIfForked ==
  /\ parent = "close" /\ ~handler
  /\ open' = IF kid[connfd] = "none" THEN open ELSE open \ {connfd}
  /\ parent' = "accept"
  /\ UNCHANGED <<connfd, chld, handler, kid, holds, queue, clientVars, dataVars, err>>

CloseConn ==
  /\ parent = "close" /\ ~handler
  /\ open' = open \ {connfd}
  /\ parent' = "accept"
  /\ UNCHANGED <<connfd, chld, handler, kid, holds, queue, clientVars, dataVars, err>>

(* Mutant: the handler is not installed. *)
SigIgnored ==
  /\ chld /\ ~handler
  /\ chld' = FALSE
  /\ UNCHANGED <<parent, connfd, open, handler, kid, holds, queue, clientVars, dataVars, err>>

(* SIGCHLD: one signal, however many children have ended; accept() is       *)
(* restarted afterwards                                                     *)
SigChld ==
  /\ chld /\ ~handler
  /\ chld' = FALSE /\ handler' = TRUE
  /\ UNCHANGED <<parent, connfd, open, kid, holds, queue, clientVars, dataVars, err>>

(* Mutant: if instead of while.                                             *)
ReapOne(c) ==
  /\ handler /\ kid[c] = "zombie"
  /\ kid' = [kid EXCEPT ![c] = "reaped"]
  /\ handler' = FALSE
  /\ UNCHANGED <<parent, connfd, open, chld, holds, queue, clientVars, dataVars, err>>

Reap(c) ==
  /\ handler /\ kid[c] = "zombie"
  /\ kid' = [kid EXCEPT ![c] = "reaped"]
  /\ UNCHANGED <<parent, connfd, open, chld, handler, holds, queue, clientVars, dataVars, err>>

NoneLeft ==
  /\ handler /\ \A c \in Clients : kid[c] # "zombie"
  /\ handler' = FALSE
  /\ UNCHANGED <<parent, connfd, open, chld, kid, holds, queue, clientVars, dataVars, err>>

Parent ==
  \/ Start \/ Accept \/ Fork \/ ForkFails \/ CloseConn
  \/ SigChld \/ NoneLeft \/ \E c \in Clients : Reap(c)

-----------------------------------------------------------------------------
(* The child for c *)

(* The process is gone, its descriptors with it.                            *)
Ends(c) ==
  /\ kid' = [kid EXCEPT ![c] = IF parent = "dead" THEN "reaped" ELSE "zombie"]
  /\ chld' = (chld \/ parent # "dead")
  /\ holds' = [holds EXCEPT ![c] = {}]
  /\ UNCHANGED <<parent, connfd, open, handler, clientVars, dataVars>>
  /\ CloseListener

(* Mutant: close(listenfd) comes after str_echo().                          *)
CloseListenfdLate(c) ==
  /\ kid[c] = "start"
  /\ kid' = [kid EXCEPT ![c] = "read"]
  /\ UNCHANGED <<parent, connfd, open, chld, handler, holds, queue, clientVars, dataVars, err>>

CloseListenfd(c) ==
  /\ kid[c] = "start"
  /\ kid' = [kid EXCEPT ![c] = "read"]
  /\ UNCHANGED <<parent, connfd, open, chld, handler, holds, clientVars, dataVars>>
  /\ CloseListener

Read(c) ==
  /\ kid[c] = "read"
  /\ \E n \in 1..up[c] :
       buffer' = [buffer EXCEPT ![c] = n] /\ up' = [up EXCEPT ![c] = @ - n]
  /\ kid' = [kid EXCEPT ![c] = "write"]
  /\ UNCHANGED <<parent, connfd, open, chld, handler, holds, queue, clientVars, down, err>>

(* read() returns 0 or -1: close(connfd), exit(0)                           *)
Finish(c) ==
  /\ kid[c] = "read" /\ up[c] = 0 /\ client[c] = "gone"
  /\ Ends(c)

(* Mutant: the whole buffer is written. *)
WriteAll(c) ==
  /\ kid[c] = "write"
  /\ down' = [down EXCEPT ![c] = @ + 4096] /\ buffer' = [buffer EXCEPT ![c] = 0]
  /\ kid' = [kid EXCEPT ![c] = "read"]
  /\ UNCHANGED <<parent, connfd, open, chld, handler, holds, queue, clientVars, up, err>>

Write(c) ==
  /\ kid[c] = "write"
  /\ down' = [down EXCEPT ![c] = @ + buffer[c]] /\ buffer' = [buffer EXCEPT ![c] = 0]
  /\ kid' = [kid EXCEPT ![c] = "read"]
  /\ UNCHANGED <<parent, connfd, open, chld, handler, holds, queue, clientVars, up, err>>

(* The client closed with units unread or written since, and has answered   *)
(* with a reset.                                                            *)
SigPipe(c) ==
  /\ kid[c] = "write" /\ client[c] = "gone" /\ down[c] > 0
  /\ Ends(c)

Killed(c) == kid[c] \in Living /\ Ends(c)

Child(c) == CloseListenfd(c) \/ Read(c) \/ Finish(c) \/ Write(c) \/ SigPipe(c)

-----------------------------------------------------------------------------
(* The client c *)

Connect(c) ==
  /\ client[c] = "new" /\ Listening
  /\ client' = [client EXCEPT ![c] = "typing"]
  /\ queue' = Append(queue, c)
  /\ UNCHANGED <<serverVars, lines, dataVars, err>>

Refused(c) ==
  /\ client[c] = "new" /\ ~Listening
  /\ client' = [client EXCEPT ![c] = "gone"]
  /\ UNCHANGED <<serverVars, queue, lines, dataVars, err>>

(* One line.  On a connection that was reset write() reports it, once, and  *)
(* raises SIGPIPE after that, or at once.                                   *)
SendLine(c) ==
  /\ client[c] = "typing" /\ lines[c] < MaxLines[c]
  /\ lines' = [lines EXCEPT ![c] = @ + 1]
  /\ \/ /\ err[c] = "no"
        /\ up' = [up EXCEPT ![c] = @ + 2]
        /\ client' = [client EXCEPT ![c] = "await"]
        /\ UNCHANGED err
     \/ /\ err[c] = "reset"
        /\ client' = [client EXCEPT ![c] = "await"]
        /\ err' = [err EXCEPT ![c] = "spent"]
        /\ UNCHANGED up
     \/ /\ err[c] # "no"
        /\ client' = [client EXCEPT ![c] = "gone"]
        /\ UNCHANGED <<up, err>>
  /\ UNCHANGED <<serverVars, queue, buffer, down>>

(* One read() per line, however little it returns.                          *)
GetEcho(c) ==
  /\ client[c] = "await"
  /\ \E n \in 1..down[c] : down' = [down EXCEPT ![c] = @ - n]
  /\ client' = [client EXCEPT ![c] = "typing"]
  /\ UNCHANGED <<serverVars, queue, lines, up, buffer, err>>

(* read() = 0: "Server terminated prematurely"                              *)
Premature(c) ==
  /\ client[c] = "await" /\ down[c] = 0 /\ ~Alive(c)
  /\ client' = [client EXCEPT ![c] = "gone"]
  /\ UNCHANGED <<serverVars, queue, lines, dataVars, err>>

(* read() = -1 passes for an echo.                                          *)
GetError(c) ==
  /\ client[c] = "await" /\ down[c] = 0 /\ err[c] = "reset"
  /\ client' = [client EXCEPT ![c] = "typing"]
  /\ err' = [err EXCEPT ![c] = "spent"]
  /\ UNCHANGED <<serverVars, queue, lines, dataVars>>

(* End of the input, SIGINT or SIGKILL                                      *)
Quit(c) ==
  /\ client[c] \in {"typing", "await"}
  /\ client' = [client EXCEPT ![c] = "gone"]
  /\ UNCHANGED <<serverVars, queue, lines, dataVars, err>>

(* The server's side answers with a reset when it closed with units unread  *)
(* or gets units afterwards.                                                *)
Reset(c) ==
  /\ client[c] \in {"typing", "await"} /\ ~Alive(c) /\ up[c] > 0 /\ err[c] = "no"
  /\ err' = [err EXCEPT ![c] = "reset"]
  /\ UNCHANGED <<serverVars, queue, clientVars, dataVars>>

Answer(c) == GetEcho(c) \/ Premature(c) \/ GetError(c)

-----------------------------------------------------------------------------
Next ==
  \/ Parent \/ AcceptFails
  \/ \E c \in Clients :
       \/ Child(c) \/ Killed(c) \/ Answer(c)
       \/ Connect(c) \/ Refused(c) \/ SendLine(c) \/ Quit(c) \/ Reset(c)

(* The server's processes are scheduled, and a client that waits in read()  *)
(* is woken.                                                                *)
Spec ==
  /\ Init /\ [][Next]_vars
  /\ WF_vars(Parent)
  /\ \A c \in Clients : WF_vars(Child(c)) /\ WF_vars(Answer(c))

-----------------------------------------------------------------------------
(* No process keeps a connection that is not its own: a child holds the one *)
(* it was forked for, the parent the one it is about to hand over.  A       *)
(* forgotten copy would keep a dead child's connection open.                *)
OwnConnectionOnly ==
  /\ open \subseteq {connfd}
  /\ parent \in {"init", "accept", "dead"} => open = {}
  /\ \A c \in Clients : holds[c] \subseteq {c}

(* A child that has ended is never forgotten, though signals of several     *)
(* children merge into one: a signal is pending or the handler still loops. *)
ZombiesAnnounced == (\E c \in Clients : kid[c] = "zombie") => chld \/ handler

(* Nothing is echoed that was not sent: the units on their way up, in the   *)
(* child's buffer and on their way back are those of lines the client wrote.*)
EchoOnly == \A c \in Clients : up[c] + buffer[c] + down[c] <= 2 * lines[c]

IInv == TypeOK /\ OwnConnectionOnly /\ ZombiesAnnounced /\ EchoOnly

(* Every child that ends is reaped.                                         *)
EveryChildReaped == \A c \in Clients : kid[c] = "zombie" ~> kid[c] = "reaped"

(* A client that waits for an echo gets one, or learns that there will be   *)
(* none, whoever fails: fork(), accept() or the child.                      *)
AwaitAnswered == \A c \in Clients : client[c] = "await" ~> client[c] # "await"

(* A connection does not stay in the queue: it is accepted or reset.        *)
QueueServed == \A c \in Clients : c \in ToSet(queue) ~> c \notin ToSet(queue)
=============================================================================
