---------------------------- MODULE ServerSelect ----------------------------
(***************************************************************************)
(* section-07/lab/lab_4/server_select.c: the chat server on select(2).     *)
(* To ChatCore it adds the two descriptor sets and maxfd.                  *)
(***************************************************************************)
EXTENDS ChatProperties

VARIABLES allset, rset, maxfd

watchVars == <<allset, rset, maxfd>>
vars      == <<coreVars, watchVars>>

TypeOK ==
  /\ CoreTypeOK
  /\ allset \subseteq FDS \cup {LISTENFD}
  /\ rset \subseteq FDS \cup {LISTENFD}
  /\ maxfd \in FDS \cup {LISTENFD}

Init == CoreInit /\ allset = {LISTENFD} /\ rset = {} /\ maxfd = LISTENFD

Start == Listen /\ UNCHANGED watchVars

(* rset = allset; select(maxfd + 1, &rset, ...).  A closed descriptor in    *)
(* the set makes the call fail and leaves rset as it was.                   *)
Watched   == {fd \in allset : fd <= maxfd}
Selected  == {fd \in Watched : Readable(fd)}
BadSelect == \E fd \in Watched : ~Open(fd)

Select ==
  /\ BadSelect \/ Selected # {}
  /\ rset' = IF BadSelect THEN allset ELSE Selected
  /\ Woken(LISTENFD \in rset')
  /\ UNCHANGED <<allset, maxfd>>

(* Mutants: maxfd not raised; FD_ZERO before FD_SET. *)
AcceptUnwatched ==
  \E fd \in FDS :
    \/ (\E i \in Slots : AcceptInto(i, fd)) /\ allset' = allset \cup {fd} /\ UNCHANGED <<rset, maxfd>>
    \/ AcceptFull(fd) /\ UNCHANGED watchVars

AcceptAlone ==
  \E fd \in FDS :
    \/ (\E i \in Slots : AcceptInto(i, fd)) /\ allset' = {fd} /\ maxfd' = fd /\ UNCHANGED rset
    \/ AcceptFull(fd) /\ UNCHANGED watchVars

Accept ==
  \E fd \in FDS :
    \/ /\ \E i \in Slots : AcceptInto(i, fd)
       /\ allset' = allset \cup {fd}
       /\ maxfd' = IF fd > maxfd THEN fd ELSE maxfd
       /\ UNCHANGED rset
    \/ AcceptFull(fd) /\ UNCHANGED watchVars

(* Mutant: tests allset where rset is meant. *)
IsSetInAllset(i) == clients[i].fd \in allset

IsSet(i) == clients[i].fd \in rset
Reported == {i \in Slots : IsSet(i)}

(* Mutant: no FD_CLR. *)
HangupKeepsFd(i) == At(i, Reported) /\ Disconnect(i) /\ UNCHANGED watchVars

Hangup(i) ==
  /\ At(i, Reported)
  /\ Disconnect(i)
  /\ allset' = allset \ {clients[i].fd}
  /\ UNCHANGED <<rset, maxfd>>

Receive(i) == At(i, Reported) /\ ReadLine(i) /\ UNCHANGED watchVars

Write == (Refuse \/ \E i \in Slots : WriteSlot(i) \/ SigPipe(i)) /\ UNCHANGED watchVars

Server ==
  \/ Start \/ Select \/ Accept \/ Write
  \/ \E i \in Slots : Hangup(i) \/ Receive(i)
  \/ (EndScan(Reported) \/ Exited) /\ UNCHANGED watchVars

Stop == (StartFails \/ SigInt) /\ UNCHANGED watchVars

Next ==
  \/ Server
  \/ Stop
  \/ Environment /\ UNCHANGED watchVars
  \/ pc \in Dead /\ UNCHANGED vars      \* the process has ended

Spec == Init /\ [][Next]_vars

(* The scheduler runs the server, the network delivers, clients read on.    *)
FairSpec ==
  /\ Spec /\ WF_vars(Server)
  /\ \A c \in Conn : WF_vars((RstArrives(c) \/ ClientReads(c)) /\ UNCHANGED watchVars)

-----------------------------------------------------------------------------
(* Every member's descriptor is in the set handed to select, below maxfd,   *)
(* and the set holds nothing else but the listening socket: no client is    *)
(* forgotten and select never sees a closed descriptor.                     *)
WatchSetExact ==
  /\ allset = {LISTENFD} \cup {clients[i].fd : i \in {j \in Slots : InUse(j)}}
  /\ \A fd \in allset : fd <= maxfd /\ Open(fd)

(* read() is only called on a descriptor that has something to deliver, and *)
(* accept() only with a connection waiting: the one thread never blocks     *)
(* there, whatever was closed, reused or accepted since select returned.    *)
ReadNeverBlocks ==
  /\ pc = "accept" => backlog # <<>>
  /\ pc = "scan" => \A i \in idx..MAX_CLIENTS :
                      InUse(i) /\ IsSet(i) => Readable(clients[i].fd)

(* Why reads do not block: until slot i is scanned, what select reported of *)
(* its descriptor stays true, and a descriptor accept() hands out was not   *)
(* open when select looked.                                                 *)
ReportStands ==
  /\ pc = "accept" => backlog # <<>> /\ \A fd \in rset : Open(fd)
  /\ pc \in {"accept", "scan"} =>
       \A i \in (IF pc = "accept" THEN 1 ELSE idx)..MAX_CLIENTS :
          InUse(i) /\ IsSet(i) => Readable(clients[i].fd)

IInv == TypeOK /\ CoreInv /\ WatchSetExact /\ ReportStands
=============================================================================
