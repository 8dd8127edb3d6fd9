-------------------------- MODULE ServerPollProofs --------------------------
(***************************************************************************)
(* server_poll.c keeps its invariant for any number of clients, slots,     *)
(* descriptors and lines, provided that the entries of pfds[] the program  *)
(* never initializes do not by chance name the listening socket or a       *)
(* client's descriptor; and if they are negative, its thread sleeps while  *)
(* nothing happens.  ChatProofs has the part shared with the server on     *)
(* select().                                                               *)
(***************************************************************************)
EXTENDS ServerPoll, ChatProofs

(* What the stack would have to hold to go unnoticed ...                    *)
GarbageHarmless == GarbageFds \cap (FDS \cup {LISTENFD}) = {}

(* ... and to let poll() sleep                                              *)
GarbageNegative == \A g \in GarbageFds : g < 0

(* The slots are free before the first poll(). *)
LEMMA InitInv == Init => IInv
<1> SUFFICES ASSUME Init PROVE IInv
  OBVIOUS
<1>1. CoreInv
  BY InitCore DEF Init
<1>2. pfds \in [Slots -> [fd : GarbageFds, events : BOOLEAN, revents : {FALSE}]]
  BY DEF Init
<1>3. TypeOK
  <2>1. \A i \in Slots : pfds[i] \in PollFd
    BY <1>2 DEF PollFd
  <2>2. QED
    BY <1>1, <1>2, <2>1 DEF TypeOK, CoreInv
<1>4. PollSetExact
  <2>1. \A i \in Slots : pfds[i].fd \in GarbageFds
    BY <1>2
  <2>2. \A i \in Slots : ~InUse(i)
    BY DEF Init, CoreInit, InUse
  <2>3. QED
    BY <2>1, <2>2 DEF PollSetExact
<1>5. ReportStands
  BY DEF Init, CoreInit, ReportStands
<1>6. QED
  BY <1>1, <1>3, <1>4, <1>5 DEF IInv

(* Every step is one of ChatCore's, as far as ChatCore can tell. *)
LEMMA IsCore == [Next]_vars => CoreNext
<1> SUFFICES ASSUME [Next]_vars PROVE CoreNext
  OBVIOUS
<1> USE DEF CoreNext
<1>1. CASE Start \/ Accept \/ Write \/ Stop
  BY <1>1 DEF Start, Accept, Write, Stop
<1>2. CASE Poll
  BY <1>2 DEF Poll, Woken
<1>3. CASE \E i \in Slots : Hangup(i) \/ Receive(i)
  BY <1>3 DEF Hangup, Receive, At, Scanned
<1>4. CASE EndScan(Reported)
  BY <1>4 DEF EndScan
<1>5. CASE Exited \/ Environment \/ UNCHANGED vars
  BY <1>5 DEF vars
<1>6. QED
  BY <1>1, <1>2, <1>3, <1>4, <1>5 DEF Next, Server


(* An entry changes with its slot or not at all *)
LEMMA SlotsStep ==
  ASSUME IInv, [Next]_vars
  PROVE  \/ Accept
         \/ \E i \in Slots : Hangup(i)
         \/ /\ \A i \in Slots : clients'[i].fd = clients[i].fd
            /\ Poll \/ UNCHANGED pfds
<1> USE DEF IInv
<1>1. CASE Start \/ Poll \/ ((Exited \/ EndScan(Reported)) /\ UNCHANGED pfds)
  BY <1>1 DEF Start, Listen, Poll, Woken, Exited, EndScan
<1>2. CASE Write
  BY <1>2 DEF Write, WriteSlot, SigPipe, Refuse
<1>3. ASSUME NEW i \in Slots, Receive(i)
      PROVE  pfds' = pfds /\ \A j \in Slots : clients'[j].fd = clients[j].fd
  <2>1. PICK line : TooSoon(i) \/ Rename(i, line) \/ BadName(i, line) \/ Say(i, line)
    BY <1>3 DEF Receive, ReadLine
  <2>2. clients \in [Slots -> Client]
    BY DEF CoreInv, CoreTypeOK
  <2>3. \A j \in Slots : clients'[j].fd = clients[j].fd
    BY <2>1, <2>2 DEF TooSoon, Rename, BadName, Say, Client
  <2>4. QED
    BY <1>3, <2>3 DEF Receive
<1>4. CASE Stop
  BY <1>4 DEF Stop, StartFails, SigInt, ExitHandler
<1>5. CASE Environment /\ UNCHANGED pfds
  BY <1>5 DEF Environment, Connect, SendLine, ClientCloses, RstArrives, ClientReads, Tick, serverVars
<1>6. CASE UNCHANGED vars
  BY <1>6 DEF vars, coreVars, serverVars
<1>7. QED
  BY <1>1, <1>2, <1>3, <1>4, <1>5, <1>6 DEF Next, Server

(* What accept() and a hang-up do to the slots and their entries *)
LEMMA AcceptFacts ==
  ASSUME IInv, NEW i \in Slots, NEW fd \in FDS, AcceptInto(i, fd),
         pfds' = [pfds EXCEPT ![i].fd = fd, ![i].events = TRUE]
  PROVE  /\ clients'[i].fd = fd /\ ~InUse(i) /\ pc = "accept" /\ pc' = "scan" /\ idx' = 1
         /\ pfds'[i].fd = fd /\ pfds'[i].events /\ pfds'[i].revents = pfds[i].revents
         /\ \A j \in Slots : j # i => clients'[j] = clients[j] /\ pfds'[j] = pfds[j]
<1>1. clients \in [Slots -> Client] /\ pfds \in [Slots -> PollFd]
  BY DEF IInv, TypeOK, CoreInv, CoreTypeOK
<1>2. /\ clients'[i].fd = fd /\ ~InUse(i) /\ pc = "accept" /\ pc' = "scan" /\ idx' = 1
      /\ \A j \in Slots : j # i => clients'[j] = clients[j]
  BY <1>1 DEF AcceptInto, Accepted, InUse
<1>3. pfds'[i] = [[pfds[i] EXCEPT !.fd = fd] EXCEPT !.events = TRUE]
      /\ \A j \in Slots : j # i => pfds'[j] = pfds[j]
  BY <1>1
<1>4. pfds'[i].fd = fd /\ pfds'[i].events = TRUE /\ pfds'[i].revents = pfds[i].revents
  BY <1>1, <1>3 DEF PollFd
<1>5. QED
  BY <1>2, <1>3, <1>4

LEMMA HangupFacts ==
  ASSUME IInv, NEW i \in Slots, Hangup(i)
  PROVE  /\ clients'[i].fd = -1 /\ InUse(i) /\ pc = "scan" /\ pc' = "scan" /\ idx' = i + 1 /\ i >= idx
         /\ pfds'[i].fd = -1
         /\ \A j \in Slots : j # i => clients'[j] = clients[j] /\ pfds'[j] = pfds[j]
<1>1. clients \in [Slots -> Client] /\ pfds \in [Slots -> PollFd] /\ idx \in Nat
  BY DEF IInv, TypeOK, CoreInv, CoreTypeOK
<1>2. /\ clients'[i].fd = -1 /\ InUse(i) /\ pc = "scan" /\ pc' = "scan" /\ idx' = i + 1 /\ i >= idx
      /\ \A j \in Slots : j # i => clients'[j] = clients[j]
  BY <1>1 DEF Hangup, At, Disconnect, Client, Slots
<1>3. pfds'[i] = [pfds[i] EXCEPT !.fd = -1] /\ \A j \in Slots : j # i => pfds'[j] = pfds[j]
  BY <1>1 DEF Hangup
<1>4. pfds'[i].fd = -1
  BY <1>1, <1>3 DEF PollFd
<1>5. QED
  BY <1>2, <1>3, <1>4

(* Entries stay entries. *)
LEMMA TypeStep ==
  ASSUME IInv, [Next]_vars
  PROVE  TypeOK'
<1>1. CoreTypeOK' /\ pfds \in [Slots -> PollFd]
  BY IsCore, CoreStep DEF IInv, CoreInv, TypeOK
<1>2. CASE Accept
  <2>1. PICK fd \in FDS : \/ UNCHANGED pfds
                          \/ \E i \in Slots : pfds' = [pfds EXCEPT ![i].fd = fd, ![i].events = TRUE]
    BY <1>2 DEF Accept
  <2>2. ASSUME NEW i \in Slots, pfds' = [pfds EXCEPT ![i].fd = fd, ![i].events = TRUE]
        PROVE  pfds' \in [Slots -> PollFd]
    <3>1. [pfds[i] EXCEPT !.fd = fd, !.events = TRUE] \in PollFd
      BY <1>1 DEF PollFd
    <3>2. pfds' = [pfds EXCEPT ![i] = [pfds[i] EXCEPT !.fd = fd, !.events = TRUE]]
      BY <2>2
    <3>3. QED
      BY <1>1, <3>1, <3>2
  <2>3. QED
    BY <1>1, <2>1, <2>2 DEF TypeOK
<1>3. CASE \E i \in Slots : Hangup(i)
  BY <1>1, <1>3 DEF Hangup, TypeOK, PollFd
<1>4. CASE Poll
  <2>1. \A i \in Slots : PollIn(pfds[i]) \in BOOLEAN
    BY DEF PollIn
  <2>2. pfds' = [i \in Slots |-> [pfds[i] EXCEPT !.revents = PollIn(pfds[i])]]
    BY <1>4 DEF Poll
  <2>3. pfds' \in [Slots -> PollFd]
    BY <1>1, <2>1, <2>2 DEF PollFd
  <2>4. QED
    BY <1>1, <2>3 DEF TypeOK
<1>5. CASE UNCHANGED pfds
  BY <1>1, <1>5 DEF TypeOK
<1>6. QED
  BY <1>2, <1>3, <1>4, <1>5, SlotsStep

(* The entries keep up with the slots. *)
LEMMA PollSetStep ==
  ASSUME IInv, [Next]_vars
  PROVE  PollSetExact'
<1>1. PollSetExact /\ pfds \in [Slots -> PollFd] /\ -1 \notin FDS
  BY ConstantsAssumption DEF IInv, TypeOK
<1>2. ASSUME NEW i \in Slots, NEW fd \in FDS, AcceptInto(i, fd),
             pfds' = [pfds EXCEPT ![i].fd = fd, ![i].events = TRUE]
      PROVE  PollSetExact'
  <2>1. /\ clients'[i].fd = fd /\ pfds'[i].fd = fd /\ pfds'[i].events
        /\ \A j \in Slots : j # i => clients'[j] = clients[j] /\ pfds'[j] = pfds[j]
    BY <1>2, AcceptFacts
  <2>2. QED
    BY <1>1, <2>1 DEF PollSetExact, InUse
<1>3. ASSUME NEW fd \in FDS, AcceptFull(fd), UNCHANGED pfds PROVE PollSetExact'
  BY <1>1, <1>3 DEF AcceptFull, PollSetExact, InUse
<1>4. ASSUME NEW i \in Slots, Hangup(i) PROVE PollSetExact'
  <2>1. /\ clients'[i].fd = -1 /\ pfds'[i].fd = -1
        /\ \A j \in Slots : j # i => clients'[j] = clients[j] /\ pfds'[j] = pfds[j]
    BY <1>4, HangupFacts
  <2>2. QED
    BY <1>1, <2>1 DEF PollSetExact, InUse
<1>5. ASSUME \A i \in Slots : clients'[i].fd = clients[i].fd, Poll \/ UNCHANGED pfds
      PROVE  PollSetExact'
  <2>1. \A i \in Slots : pfds'[i].fd = pfds[i].fd /\ pfds'[i].events = pfds[i].events
    BY <1>1, <1>5 DEF Poll, PollFd
  <2>2. QED
    BY <1>1, <1>5, <2>1 DEF PollSetExact, InUse
<1>6. QED
  BY <1>2, <1>3, <1>4, <1>5, SlotsStep DEF Accept

-----------------------------------------------------------------------------
(* What poll() reported of a slot outlives the handlers before it, and a    *)
(* slot that accept() fills was not reported.                               *)
LEMMA ReportStep ==
  ASSUME IInv, [Next]_vars, GarbageHarmless
  PROVE  ReportStands'
<1>1. /\ CoreInv /\ PollSetExact /\ ReportStands /\ CoreInv' /\ PollSetExact'
      /\ clients \in [Slots -> Client] /\ pfds \in [Slots -> PollFd]
      /\ LISTENFD \notin FDS /\ -1 \notin FDS /\ LISTENFD # -1 /\ idx \in Nat /\ idx >= 1
      /\ \A i \in Slots : i \in Nat /\ 1 <= i /\ i <= MAX_CLIENTS
      /\ \A i \in 1..MAX_CLIENTS : i \in Slots
  <2>1. CoreInv /\ PollSetExact /\ ReportStands /\ CoreInv' /\ PollSetExact' /\ TypeOK
    BY IsCore, CoreStep, PollSetStep DEF IInv
  <2>2. clients \in [Slots -> Client] /\ pfds \in [Slots -> PollFd] /\ idx \in 1..MAX_CLIENTS + 1
    BY <2>1 DEF TypeOK, CoreInv, CoreTypeOK
  <2>3. QED
    BY <2>1, <2>2, ConstantsAssumption DEF Slots
<1>2. CASE Poll
  <2>1. /\ UNCHANGED <<clients, fdtab, backlog, link, lines>>
        /\ idx' = 1 /\ pc' \in {"accept", "scan"}
        /\ pc' = "accept" => backlog # <<>>
        /\ \A i \in Slots : pfds'[i].revents = PollIn(pfds[i])
    <3>1. /\ UNCHANGED <<clients, fdtab, backlog, link, lines>>
          /\ idx' = 1 /\ pc' = IF Readable(LISTENFD) THEN "accept" ELSE "scan"
      BY <1>2 DEF Poll, Woken, netVars
    <3>2. \A i \in Slots : pfds'[i].revents = PollIn(pfds[i])
      <4>1. pfds' = [i \in Slots |-> [pfds[i] EXCEPT !.revents = PollIn(pfds[i])]]
        BY <1>2 DEF Poll
      <4>2. QED
        BY <4>1, <1>1 DEF PollFd
    <3>3. QED
      BY <3>1, <3>2 DEF Readable
  <2>2. ASSUME NEW i \in Slots, IsSet(i)' PROVE InUse(i) /\ Readable(clients[i].fd)
    <3>1. PollIn(pfds[i])
      BY <2>1, <2>2 DEF IsSet
    <3>2. pfds[i].fd \in FDS \cup {LISTENFD} /\ Readable(pfds[i].fd)
      BY <3>1 DEF PollIn, Open
    <3>3. InUse(i)
      BY <3>2, <1>1 DEF PollSetExact, GarbageHarmless
    <3>4. QED
      BY <3>2, <3>3, <1>1 DEF PollSetExact
  <2>3. QED
    BY <2>1, <2>2, <1>1 DEF ReportStands, InUse, Readable, Gone
<1>3. CASE Accept
  <2>1. ASSUME NEW fd \in FDS, AcceptFull(fd) PROVE ReportStands'
    BY <2>1 DEF AcceptFull, ReportStands
  <2>2. ASSUME NEW fd \in FDS, NEW i \in Slots, AcceptInto(i, fd),
               pfds' = [pfds EXCEPT ![i].fd = fd, ![i].events = TRUE]
        PROVE  ReportStands'
    <3>1. /\ clients'[i].fd = fd /\ ~InUse(i) /\ pc = "accept" /\ pc' = "scan" /\ idx' = 1
          /\ pfds'[i].revents = pfds[i].revents
          /\ \A j \in Slots : j # i => clients'[j] = clients[j] /\ pfds'[j] = pfds[j]
      BY <2>2, <1>1, AcceptFacts
    <3>2. ~IsSet(i)
      BY <3>1, <1>1 DEF ReportStands
    <3>3. ASSUME NEW j \in Slots, InUse(j)', IsSet(j)'
          PROVE  Readable(clients[j].fd)'
      <4>1. j # i /\ InUse(j) /\ IsSet(j)
        BY <3>1, <3>2, <3>3 DEF InUse, IsSet
      <4>2. Readable(clients[j].fd)
        BY <4>1, <3>1, <1>1 DEF ReportStands
      <4>3. QED
        BY <4>1, <4>2, <2>2, <1>1, AcceptSpares
    <3>4. QED
      BY <3>1, <3>3, <1>1 DEF ReportStands
  <2>3. QED
    BY <1>3, <2>1, <2>2 DEF Accept
<1>4. ASSUME NEW i \in Slots, Hangup(i) PROVE ReportStands'
  <2>1. /\ clients'[i].fd = -1 /\ InUse(i) /\ pc = "scan" /\ pc' = "scan" /\ idx' = i + 1 /\ i >= idx
        /\ \A j \in Slots : j # i => clients'[j] = clients[j] /\ pfds'[j] = pfds[j]
    BY <1>1, <1>4, HangupFacts
  <2>2. ASSUME NEW j \in Slots, j >= i + 1, InUse(j)', IsSet(j)'
        PROVE  Readable(clients[j].fd)'
    <3>1. j # i /\ InUse(j) /\ IsSet(j) /\ j >= idx
      BY <2>1, <2>2, <1>1 DEF InUse, IsSet
    <3>2. Readable(clients[j].fd)
      BY <3>1, <2>1, <1>1 DEF ReportStands
    <3>3. QED
      BY <3>1, <3>2, <2>1, <1>1, <1>4, ScanSpares DEF Hangup
  <2>3. QED
    BY <2>1, <2>2, <1>1 DEF ReportStands
<1>5. ASSUME NEW i \in Slots, Receive(i) PROVE ReportStands'
  <2>1. /\ pc = "scan" /\ pc' = "scan" /\ idx' = i + 1 /\ InUse(i) /\ i >= idx /\ pfds' = pfds
        /\ ReadLine(i)
    <3>1. At(i, Reported) /\ ReadLine(i) /\ pfds' = pfds
      BY <1>5 DEF Receive
    <3>2. pc = "scan" /\ InUse(i) /\ i \in idx..MAX_CLIENTS
      BY <3>1 DEF At
    <3>3. pc' = pc /\ idx' = i + 1
      BY <3>1 DEF ReadLine
    <3>4. QED
      BY <3>1, <3>2, <3>3, <1>1
  <2>2. \A j \in Slots : clients'[j].fd = clients[j].fd
    <3>1. PICK line : TooSoon(i) \/ Rename(i, line) \/ BadName(i, line) \/ Say(i, line)
      BY <2>1 DEF ReadLine
    <3>2. clients \in [Slots -> Client]
      BY <1>1
    <3>3. QED
      BY <3>1, <3>2 DEF TooSoon, Rename, BadName, Say, Client
  <2>3. ASSUME NEW j \in Slots, j >= i + 1, InUse(j)', IsSet(j)'
        PROVE  Readable(clients[j].fd)'
    <3>1. j # i /\ InUse(j) /\ IsSet(j) /\ j >= idx
      BY <2>1, <2>2, <2>3, <1>1 DEF InUse, IsSet
    <3>2. Readable(clients[j].fd)
      BY <3>1, <2>1, <1>1 DEF ReportStands
    <3>3. QED
      BY <3>1, <3>2, <2>1, <1>1, ScanSpares
  <2>4. QED
    BY <2>1, <2>3, <1>1 DEF ReportStands
<1>6. ASSUME Environment \/ \E i \in Slots : WriteSlot(i), UNCHANGED pfds
      PROVE  ReportStands'
  <2>1. /\ UNCHANGED <<pc, idx, clients>>
        /\ backlog # <<>> => backlog' # <<>>
    <3>1. ASSUME NEW c \in Conn, Connect(c)
          PROVE  UNCHANGED <<pc, idx, clients>> /\ backlog' # <<>>
      <4>1. backlog \in Seq(Conn)
        BY <1>1 DEF CoreInv, CoreTypeOK
      <4>2. Append(backlog, c) # <<>>
        BY <4>1, AppendProperties
      <4>3. QED
        BY <3>1, <4>2 DEF Connect, serverVars
    <3>2. QED
      BY <1>6, <3>1 DEF Environment, SendLine, ClientCloses, RstArrives, ClientReads, Tick,
                        WriteSlot, serverVars, netVars
  <2>2. \A j \in Slots : InUse(j)' = InUse(j) /\ IsSet(j)' = IsSet(j)
    BY <2>1, <1>6 DEF InUse, IsSet
  <2>3. ASSUME NEW j \in Slots, InUse(j), Readable(clients[j].fd)
        PROVE  Readable(clients[j].fd)'
    BY <1>1, <1>6, <2>3, OutsideSpares
  <2>4. pc' = "accept" => backlog' # <<>> /\ \A i \in Slots : IsSet(i)' => InUse(i)'
    BY <2>1, <2>2, <1>1 DEF ReportStands
  <2>5. pc' \in {"accept", "scan"} =>
          \A j \in (IF pc' = "accept" THEN 1 ELSE idx')..MAX_CLIENTS :
             InUse(j)' /\ IsSet(j)' => Readable(clients[j].fd)'
    <3> SUFFICES ASSUME pc \in {"accept", "scan"},
                        NEW j \in (IF pc = "accept" THEN 1 ELSE idx)..MAX_CLIENTS,
                        InUse(j)', IsSet(j)'
                 PROVE  Readable(clients[j].fd)'
      BY <2>1
    <3>1. j \in Slots
      BY <1>1 DEF Slots
    <3>2. InUse(j) /\ IsSet(j)
      BY <2>2, <3>1
    <3>3. Readable(clients[j].fd)
      BY <3>2, <1>1 DEF ReportStands
    <3>4. QED
      BY <2>3, <3>1, <3>2, <3>3
  <2>6. QED
    BY <2>4, <2>5 DEF ReportStands
<1>7. ASSUME \/ Start \/ Refuse \/ Stop
             \/ (EndScan(Reported) \/ Exited \/ \E i \in Slots : SigPipe(i))
      PROVE  ReportStands'
  BY <1>7 DEF Start, Listen, Refuse, Stop, StartFails, SigInt, ExitHandler, EndScan, Exited,
              SigPipe, ReportStands
<1>8. CASE UNCHANGED vars
  BY <1>1, <1>8 DEF vars, coreVars, serverVars, netVars, ReportStands, InUse, IsSet, Readable, Gone
<1>9. QED
  BY <1>2, <1>3, <1>4, <1>5, <1>6, <1>7, <1>8 DEF Next, Server, Write

-----------------------------------------------------------------------------
(* If no garbage entry names a socket of the server, IInv holds in every    *)
(* reachable state, for any number of slots, clients and lines.             *)
THEOREM Invariance ==
  ASSUME GarbageHarmless
  PROVE  Spec => []IInv
<1>1. Init => IInv
  BY InitInv
<1>2. IInv /\ [Next]_vars => IInv'
  BY IsCore, CoreStep, TypeStep, PollSetStep, ReportStep DEF IInv
<1>3. QED
  BY <1>1, <1>2, PTL DEF Spec

(* The single thread never blocks in accept() or read().                    *)
THEOREM NeverBlocksReading ==
  ASSUME GarbageHarmless
  PROVE  Spec => []ReadNeverBlocks
<1>1. IInv => ReadNeverBlocks
  BY DEF IInv, ReportStands, ReadNeverBlocks
<1>2. QED
  BY <1>1, Invariance, PTL

(* The entries of the slots in use, and of those that have been freed, are  *)
(* exact.                                                                   *)
THEOREM PollSetCorrect ==
  ASSUME GarbageHarmless
  PROVE  Spec => []PollSetExact
<1>1. IInv => PollSetExact
  BY DEF IInv
<1>2. QED
  BY <1>1, Invariance, PTL

(* Whatever the garbage names, slots, descriptors and connections agree,    *)
(* and every connected member has what was addressed to it, and nothing     *)
(* else, up to the broadcast in progress.                                   *)
THEOREM CoreCorrect == Spec => []CoreInv
<1>1. Init => CoreInv
  BY InitCore DEF Init
<1>2. CoreInv /\ [Next]_vars => CoreInv'
  BY IsCore, CoreStep
<1>3. QED
  BY <1>1, <1>2, PTL DEF Spec

(* What a client receives, it receives in the order of the log.             *)
THEOREM DeliveryInOrder == Spec => ReceivedInOrder
<1>1. CoreInv /\ [Next]_vars => [InOrder]_coreVars
  BY IsCore, OrderStep
<1>2. QED
  BY <1>1, CoreCorrect, PTL DEF Spec, ReceivedInOrder, InOrder

(* The server is a chat room: slots, descriptors, entries and loop put into *)
(* effect nothing but joins, departures, messages and ordered deliveries,   *)
(* whatever the entries of the unused slots hold.                           *)
THEOREM Refinement == Spec => ImplementsChatRoom
<1>1. Init => Room!Init /\ RoomInv
  BY InitRoom DEF Init
<1>2. CoreInv /\ RoomInv /\ [Next]_vars => [Room!Next]_(Room!vars) /\ RoomInv'
  BY IsCore, RoomStep
<1>3. QED
  BY <1>1, <1>2, CoreCorrect, PTL DEF Spec, ImplementsChatRoom, Room!Spec

(* So an event reaches only whoever was in the room when it was handled,    *)
(* and each of them after all that concerned it before, except for what the *)
(* exit notice overtakes.                                                   *)
THEOREM PromiseKept == Spec => []RoomPromise
  BY Refinement, RoomKeepsPromise, PTL DEF ImplementsChatRoom, RoomPromise

(* If the stack held only negative numbers, the thread leaves poll() only   *)
(* for a connection or a client: the garbage is all that keeps it awake.    *)
THEOREM SleepsIfNegative ==
  ASSUME GarbageNegative
  PROVE  Spec => SleepsWhenIdle
<1>1. GarbageHarmless
  BY ConstantsAssumption, GarbageFdsAssumption DEF GarbageHarmless, GarbageNegative
<1> DEFINE Sleeps == pc = "wait" /\ pc' \in {"accept", "scan"} =>
                       Readable(LISTENFD) \/ \E i \in Slots : InUse(i) /\ Readable(clients[i].fd)
<1>2. ASSUME IInv, [Next]_vars PROVE Sleeps
  <2>1. CASE Poll
    <3>1. SUFFICES ASSUME NEW i \in Slots, PollIn(pfds[i]) \/ Invalid(pfds[i]) \/ HungUp(pfds[i])
                   PROVE  InUse(i) /\ Readable(clients[i].fd)
      BY <2>1 DEF Poll
    <3>2. pfds[i].fd \in GarbageFds \cup FDS \cup {-1} /\ GarbageFds \subseteq Int /\ LISTENFD \notin FDS
      BY <1>2, GarbageFdsAssumption, ConstantsAssumption DEF IInv, TypeOK, PollFd
    <3>3. pfds[i].fd \notin {-1} /\ pfds[i].fd \notin GarbageFds
      <4>1. pfds[i].fd >= 0 \/ pfds[i].fd \in FDS
        BY <3>1 DEF PollIn, Invalid, HungUp
      <4>2. \A g \in GarbageFds \cup {-1} : g \in Int /\ g < 0
        BY <3>2 DEF GarbageNegative
      <4>3. \A fd \in FDS : fd >= 0
        BY ConstantsAssumption
      <4>4. QED
        BY <4>1, <4>2, <4>3
    <3>4. InUse(i) /\ pfds[i].fd = clients[i].fd
      BY <3>3, <1>2 DEF IInv, PollSetExact
    <3>5. clients[i].fd \in FDS /\ ConnOf(i) \in Conn /\ Open(clients[i].fd)
      BY <3>4, <1>2, ConstantsAssumption DEF IInv, CoreInv, DescriptorsExact, Open, ConnOf
    <3>6. Readable(clients[i].fd)
      BY <3>1, <3>2, <3>4, <3>5, ConstantsAssumption DEF PollIn, Invalid, HungUp, Readable, Gone, ConnOf
    <3>7. QED
      BY <3>4, <3>6
  <2>2. CASE ~Poll
    <3>1. pc = "wait" => pc' \notin {"accept", "scan"} \/ Poll
      BY <1>2 DEF Next, Server, Start, Listen, Accept, AcceptInto, AcceptFull, Accepted, Write, Refuse,
                  WriteSlot, SigPipe, Hangup, Receive, At, EndScan, Exited, Stop, StartFails, SigInt,
                  ExitHandler, Environment, Connect, SendLine, ClientCloses, RstArrives, ClientReads,
                  Tick, serverVars, vars, coreVars, Dead
    <3>2. QED
      BY <2>2, <3>1
  <2>3. QED
    BY <2>1, <2>2
<1>3. IInv /\ [Next]_vars => [Sleeps]_vars
  BY <1>2
<1>4. QED
  BY <1>1, <1>3, Invariance, PTL DEF Spec, SleepsWhenIdle

-----------------------------------------------------------------------------
(* A server that gets to the end of its exit handler has told every client  *)
(* still connected, whatever the garbage names.                             *)
THEOREM ExitTellsCorrect == Spec => []ExitTellsAll
<1>1. Init => TellsAll
  BY DEF Init, CoreInit, TellsAll
<1>2. CoreInv /\ TellsAll /\ [Next]_vars => TellsAll'
  BY IsCore, TellsStep
<1>3. CoreInv /\ TellsAll => ExitTellsAll
  BY TellsAllTells
<1>4. QED
  BY <1>1, <1>2, <1>3, CoreCorrect, PTL DEF Spec

(* A client's messages are a cooldown apart and in the order it sent them,  *)
(* whatever the garbage names.                                              *)
THEOREM CooldownCorrect == Spec => []Cooldown
<1>1. Init => RoomInv /\ PaceInv
  BY InitRoom, InitPace DEF Init
<1>2. CoreInv /\ RoomInv /\ PaceInv /\ [Next]_vars => RoomInv' /\ PaceInv'
  BY IsCore, RoomStep, PaceStep
<1>3. PaceInv => Cooldown
  BY DEF PaceInv
<1>4. QED
  BY <1>1, <1>2, <1>3, CoreCorrect, PTL DEF Spec
=============================================================================
