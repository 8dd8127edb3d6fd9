--------------------------- MODULE ChatProperties ---------------------------
(***************************************************************************)
(* What must be true of both chat servers, stated on the state they share. *)
(***************************************************************************)
EXTENDS ChatCore

(* Slots, descriptors and connections are in step: every slot in use names  *)
(* an open descriptor of its own, every open descriptor belongs to a slot   *)
(* or to the connection being refused (none leaks), and no connection is    *)
(* reachable twice or after it was closed.                                  *)
DescriptorsExact ==
  /\ \A i \in Slots : InUse(i) => clients[i].fd \in FDS /\ ConnOf(i) \in Conn
  /\ \A i, j \in Slots : InUse(i) /\ InUse(j) /\ clients[i].fd = clients[j].fd => i = j
  /\ \A fd \in FDS : fdtab[fd] # NoConn =>
       fd = newfd \/ \E i \in Slots : clients[i].fd = fd
  /\ pc = "refuse" => newfd # -1
  /\ pc \in Running \ {"refuse"} => newfd = -1
  /\ newfd # -1 => fdtab[newfd] \in Conn /\ \A i \in Slots : clients[i].fd # newfd

ConnectionsExact ==
  /\ \A f, g \in FDS : fdtab[f] # NoConn /\ fdtab[f] = fdtab[g] => f = g
  /\ \A fd \in FDS : fdtab[fd] # NoConn => link[fdtab[fd]] \notin {"idle", "closed"}
  /\ \A k \in 1..Len(backlog) :
       /\ link[backlog[k]] \notin {"idle", "closed"}
       /\ \A fd \in FDS : fdtab[fd] # backlog[k]
       /\ \A j \in 1..Len(backlog) : backlog[j] = backlog[k] => j = k

(* While the server runs, every member still connected has received exactly *)
(* the entries of the log addressed to it, except the one it is owed by the *)
(* broadcast in progress.                                                   *)
Owed(c) == {out[i] : i \in {j \in Slots : InUse(j) /\ ConnOf(j) = c /\ out[j] # 0}}

NothingMissed ==
  pc \in Running =>
    \A c \in Members : link[c] = "open" =>
      {k \in 1..Len(log) : c \in log[k].to} = got[c] \cup Owed(c)

(* Nobody reads a message meant for somebody else, in particular not a new  *)
(* connection that was given the descriptor of an old one.                  *)
NothingMisdirected ==
  \A c \in Conn : \A k \in got[c] : k \in 1..Len(log) /\ c \in log[k].to

(* What the two above need to be inductive: a pending write goes to a slot  *)
(* in use, for an entry addressed to its client and newer than all that     *)
(* client has; nothing is pending outside a handler; nothing was ever       *)
(* addressed to a connection that has not been accepted.                    *)
WritesPending ==
  /\ \A i \in Slots : out[i] # 0 =>
       /\ InUse(i) /\ out[i] \in 1..Len(log) /\ ConnOf(i) \in log[out[i]].to
       /\ \A k \in got[ConnOf(i)] : k < out[i]
  /\ pc \in Running \ {"scan"} => Quiet
  /\ \A k \in 1..Len(log) : \A c \in log[k].to :
       link[c] # "idle" /\ \A j \in 1..Len(backlog) : backlog[j] # c
  /\ pc = "refuse" => /\ Len(log) > 0 /\ log[Len(log)].to = {fdtab[newfd]}
                        /\ got[fdtab[newfd]] = {}

CoreInv ==
  /\ CoreTypeOK /\ DescriptorsExact /\ ConnectionsExact
  /\ WritesPending /\ NothingMisdirected /\ NothingMissed

(* A connection's published messages are at least MSG_COOLDOWN apart, and   *)
(* in the order in which it sent them.                                      *)
Cooldown ==
  \A j, k \in 1..Len(log) :
    j < k /\ log[j].kind = "say" /\ log[k].kind = "say" /\ log[j].who = log[k].who
      => log[k].at - log[j].at >= MSG_COOLDOWN /\ log[j].n < log[k].n

(* What reaches a client reaches it in the order of the log.                *)
ReceivedInOrder ==
  [][\A c \in Conn : \A k \in got'[c] \ got[c] : \A j \in got[c] : j < k]_coreVars

(* A server that ran its exit handler to the end has told every client      *)
(* still connected.                                                         *)
ExitTellsAll ==
  pc = "down" => \A c \in log[Len(log)].to : link[c] = "open" => Len(log) \in got[c]

(* The promise of exit_handler's comment, "Broadcast to all clients on      *)
(* exit": once it has started, every client still connected when the        *)
(* process ends has received the notice.                                    *)
ExitBroadcast ==
  pc \in Dead /\ log[Len(log)].kind = "shutdown" =>
    \A c \in log[Len(log)].to : link[c] = "open" => Len(log) \in got[c]

(* The server is a chat room: the slots that are in use hold its members,   *)
(* and every step of handlers, broadcasts, clients and network is one event *)
(* or one delivery of the room, or nothing the room knows of.               *)
Phase == IF pc \in Running THEN "open" ELSE IF pc = "exit" THEN "closing" ELSE "closed"

RoomLog == [k \in 1..Len(log) |-> [kind |-> log[k].kind, who |-> log[k].who, to |-> log[k].to]]

Room == INSTANCE ChatRoom WITH phase <- Phase, members <- Members, log <- RoomLog

ImplementsChatRoom == Room!Spec

(* Hence, whatever slots and descriptors are reused: an event reaches only  *)
(* whoever had connected and not disconnected when it was handled, and each *)
(* of them without gaps, except for what the exit notice overtakes.         *)
RoomPromise == Room!Promise

-----------------------------------------------------------------------------
(* A connection that reached the kernel is accepted or refused.             *)
EveryConnectionAnswered ==
  \A c \in Conn :
    (\E k \in 1..Len(backlog) : backlog[k] = c) ~>
      (pc \in Dead \/ \A k \in 1..Len(backlog) : backlog[k] # c)

(* What a member sends is read.                                             *)
EveryLineRead ==
  \A c \in Conn : (c \in Members /\ lines[c] # <<>>) ~> (pc \in Dead \/ lines[c] = <<>>)

(* A member whose connection is gone loses its slot.                        *)
EveryDepartureNoticed ==
  \A c \in Conn : (c \in Members /\ Gone(c)) ~> (pc \in Dead \/ c \notin Members)
=============================================================================
