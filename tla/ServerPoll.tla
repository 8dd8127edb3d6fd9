----------------------------- MODULE ServerPoll -----------------------------
(***************************************************************************)
(* section-07/lab/lab_4/server_poll.c: the chat server on poll(2).  To     *)
(* ChatCore it adds the array pfds[].  The program sets only the entry of  *)
(* the listening socket before its first poll(): the entry of a slot that  *)
(* was never used holds whatever was on the stack (GarbageFds).            *)
(***************************************************************************)
EXTENDS ChatProperties

CONSTANT GarbageFds

ASSUME GarbageFdsAssumption == GarbageFds \subseteq Int /\ GarbageFds # {}

VARIABLE pfds       \* the entries of the slots; the listening socket's is fixed

vars == <<coreVars, pfds>>

PollFd == [fd : GarbageFds \cup FDS \cup {-1}, events : BOOLEAN, revents : BOOLEAN]

TypeOK == CoreTypeOK /\ pfds \in [Slots -> PollFd]

Init ==
  /\ CoreInit
  /\ pfds \in [Slots -> [fd : GarbageFds, events : BOOLEAN, revents : {FALSE}]]

Start == Listen /\ UNCHANGED pfds

(* What poll() reports of an entry: POLLIN, or something nobody asked for - *)
(* POLLNVAL for a descriptor that is not open, POLLERR and POLLHUP for a    *)
(* connection that was reset.  A negative descriptor is skipped.            *)
PollIn(p)  == p.fd >= 0 /\ p.events /\ Open(p.fd) /\ Readable(p.fd)
Invalid(p) == p.fd >= 0 /\ ~Open(p.fd)
HungUp(p)  == p.fd \in FDS /\ Open(p.fd) /\ link[fdtab[p.fd]] \in {"reset", "rst"}

Poll ==
  /\ \/ Readable(LISTENFD)
     \/ \E i \in Slots : PollIn(pfds[i]) \/ Invalid(pfds[i]) \/ HungUp(pfds[i])
  /\ pfds' = [i \in Slots |-> [pfds[i] EXCEPT !.revents = PollIn(pfds[i])]]
  /\ Woken(Readable(LISTENFD))

(* Mutants: events is not set; the entry of a slot is set only on its first use. *)
AcceptDeaf ==
  \E fd \in FDS :
    \/ \E i \in Slots : AcceptInto(i, fd) /\ pfds' = [pfds EXCEPT ![i].fd = fd]
    \/ AcceptFull(fd) /\ UNCHANGED pfds

AcceptOnce ==
  \E fd \in FDS :
    \/ \E i \in Slots :
         /\ AcceptInto(i, fd)
         /\ pfds' = IF pfds[i].events THEN pfds
                    ELSE [pfds EXCEPT ![i].fd = fd, ![i].events = TRUE]
    \/ AcceptFull(fd) /\ UNCHANGED pfds

Accept ==
  \E fd \in FDS :
    \/ \E i \in Slots :
         /\ AcceptInto(i, fd)
         /\ pfds' = [pfds EXCEPT ![i].fd = fd, ![i].events = TRUE]
    \/ AcceptFull(fd) /\ UNCHANGED pfds

(* Mutant: tests events where revents is meant. *)
IsAsked(i) == pfds[i].events

IsSet(i) == pfds[i].revents
Reported == {i \in Slots : IsSet(i)}

(* Mutant: the entry keeps the closed descriptor. *)
HangupKeepsEntry(i) == At(i, Reported) /\ Disconnect(i) /\ UNCHANGED pfds

Hangup(i) ==
  /\ At(i, Reported)
  /\ Disconnect(i)
  /\ pfds' = [pfds EXCEPT ![i].fd = -1]

Receive(i) == At(i, Reported) /\ ReadLine(i) /\ UNCHANGED pfds

Write == (Refuse \/ \E i \in Slots : WriteSlot(i) \/ SigPipe(i)) /\ UNCHANGED pfds

Server ==
  \/ Start \/ Poll \/ Accept \/ Write
  \/ \E i \in Slots : Hangup(i) \/ Receive(i)
  \/ (EndScan(Reported) \/ Exited) /\ UNCHANGED pfds

Stop == (StartFails \/ SigInt) /\ UNCHANGED pfds

Next ==
  \/ Server
  \/ Stop
  \/ Environment /\ UNCHANGED pfds
  \/ pc \in Dead /\ UNCHANGED vars      \* the process has ended

Spec == Init /\ [][Next]_vars

FairSpec ==
  /\ Spec /\ WF_vars(Server)
  /\ \A c \in Conn : WF_vars((RstArrives(c) \/ ClientReads(c)) /\ UNCHANGED pfds)

-----------------------------------------------------------------------------
(* A slot in use is polled under its own descriptor, a free one that has    *)
(* been used under none: no client is forgotten, none is watched twice, and *)
(* poll never reports a descriptor that was closed.                         *)
PollSetExact ==
  \A i \in Slots :
    /\ InUse(i) => pfds[i].fd = clients[i].fd /\ pfds[i].events
    /\ ~InUse(i) => pfds[i].fd \in GarbageFds \cup {-1}

(* read() is only called on a connection that has something to deliver, and *)
(* accept() only with a connection waiting, although revents of a slot      *)
(* filled in this round is what poll left there for the previous owner.     *)
ReadNeverBlocks ==
  /\ pc = "accept" => backlog # <<>>
  /\ pc = "scan" => \A i \in idx..MAX_CLIENTS :
                      InUse(i) /\ IsSet(i) => Readable(clients[i].fd)

(* Why reads do not block: until slot i is scanned, what poll reported of   *)
(* its entry stays true, and the entry of a slot that accept() may fill     *)
(* carries no report.                                                       *)
ReportStands ==
  /\ pc = "accept" => backlog # <<>> /\ \A i \in Slots : IsSet(i) => InUse(i)
  /\ pc \in {"accept", "scan"} =>
       \A i \in (IF pc = "accept" THEN 1 ELSE idx)..MAX_CLIENTS :
          InUse(i) /\ IsSet(i) => Readable(clients[i].fd)

IInv == TypeOK /\ CoreInv /\ PollSetExact /\ ReportStands

(* section-07/README.md on multiplexing: the thread "sleeps (no CPU) when   *)
(* idle and wakes only on activity".  The server leaves poll() only when a  *)
(* connection is waiting or a client it serves has done something.          *)
SleepsWhenIdle ==
  [][pc = "wait" /\ pc' \in {"accept", "scan"} =>
       Readable(LISTENFD) \/ \E i \in Slots : InUse(i) /\ Readable(clients[i].fd)]_vars
=============================================================================
