------------------------- MODULE ServerSelectProofs -------------------------
(***************************************************************************)
(* server_select.c keeps its invariant for any number of clients, slots,   *)
(* descriptors and lines.  ChatProofs has the part shared with the server  *)
(* on poll(); what is added here is that allset and maxfd always name the  *)
(* descriptors in use, and that a descriptor select() reported still has   *)
(* something to read when its slot is reached.                             *)
(***************************************************************************)
EXTENDS ServerSelect, ChatProofs

(* The sets are right before the first select(). *)
LEMMA InitInv == Init => IInv
<1> SUFFICES ASSUME Init PROVE IInv
  OBVIOUS
<1> USE ConstantsAssumption
<1>1. CoreInv
  BY InitCore DEF Init
<1>2. TypeOK
  BY <1>1 DEF Init, TypeOK, CoreInv
<1>3. WatchSetExact
  BY DEF Init, CoreInit, WatchSetExact, InUse, Open
<1>4. ReportStands
  BY DEF Init, CoreInit, ReportStands
<1>5. QED
  BY <1>1, <1>2, <1>3, <1>4 DEF IInv

(* Every step is one of ChatCore's, as far as ChatCore can tell. *)
LEMMA IsCore == [Next]_vars => CoreNext
<1> SUFFICES ASSUME [Next]_vars PROVE CoreNext
  OBVIOUS
<1> USE DEF CoreNext
<1>1. CASE Start \/ Accept \/ Write \/ Stop
  BY <1>1 DEF Start, Accept, Write, Stop
<1>2. CASE Select
  BY <1>2 DEF Select, Woken
<1>3. CASE \E i \in Slots : Hangup(i) \/ Receive(i)
  BY <1>3 DEF Hangup, Receive, At, Scanned
<1>4. CASE EndScan(Reported)
  BY <1>4 DEF EndScan
<1>5. CASE Exited \/ Environment \/ UNCHANGED vars
  BY <1>5 DEF vars
<1>6. QED
  BY <1>1, <1>2, <1>3, <1>4, <1>5 DEF Next, Server

(* The descriptor set follows the slots *)
LEMMA TypeStep ==
  ASSUME IInv, [Next]_vars
  PROVE  TypeOK'
<1> USE ConstantsAssumption
<1>1. CoreTypeOK'
  BY IsCore, CoreStep DEF IInv, CoreInv
<1>2. /\ allset \subseteq FDS \cup {LISTENFD}
      /\ rset \subseteq FDS \cup {LISTENFD}
      /\ maxfd \in FDS \cup {LISTENFD}
  BY DEF IInv, TypeOK
<1>3. CASE UNCHANGED watchVars
  BY <1>1, <1>2, <1>3 DEF TypeOK, watchVars
<1>4. CASE Select
  BY <1>1, <1>2, <1>4 DEF TypeOK, Select, Selected, Watched
<1>5. CASE Accept
  BY <1>1, <1>2, <1>3, <1>5 DEF TypeOK, Accept
<1>6. CASE \E i \in Slots : Hangup(i)
  BY <1>1, <1>2, <1>6 DEF TypeOK, Hangup
<1>7. QED
  BY <1>3, <1>4, <1>5, <1>6 DEF Next, Server, Start, Write, Receive, Stop, vars, watchVars

(* What every step but accept() and a hang-up leaves alone *)
LEMMA SlotsStep ==
  ASSUME IInv, [Next]_vars
  PROVE  \/ Accept
         \/ \E i \in Slots : Hangup(i)
         \/ /\ UNCHANGED <<allset, maxfd>>
            /\ \A i \in Slots : clients'[i].fd = clients[i].fd
            /\ \/ UNCHANGED fdtab
               \/ Refuse
<1> USE DEF IInv
<1>1. CASE Start \/ Select \/ ((Exited \/ EndScan(Reported)) /\ UNCHANGED watchVars)
  BY <1>1 DEF Start, Listen, Select, Woken, Exited, EndScan, watchVars, netVars
<1>2. CASE Write
  BY <1>2 DEF Write, WriteSlot, SigPipe, Refuse, watchVars, netVars
<1>3. ASSUME NEW i \in Slots, Receive(i)
      PROVE  /\ UNCHANGED <<allset, maxfd, fdtab>>
             /\ \A j \in Slots : clients'[j].fd = clients[j].fd
  <2>1. UNCHANGED <<allset, maxfd, fdtab>> /\ clients \in [Slots -> Client]
    BY <1>3 DEF Receive, ReadLine, watchVars, CoreInv, CoreTypeOK
  <2>2. PICK line : TooSoon(i) \/ Rename(i, line) \/ BadName(i, line) \/ Say(i, line)
    BY <1>3 DEF Receive, ReadLine
  <2>3. \A j \in Slots : clients'[j].fd = clients[j].fd
    BY <2>1, <2>2 DEF TooSoon, Rename, BadName, Say, Client
  <2>4. QED
    BY <2>1, <2>3
<1>4. CASE Stop
  BY <1>4 DEF Stop, StartFails, SigInt, ExitHandler, watchVars, netVars
<1>5. CASE Environment /\ UNCHANGED watchVars
  BY <1>5 DEF Environment, Connect, SendLine, ClientCloses, RstArrives, ClientReads, Tick,
              serverVars, netVars, watchVars
<1>6. CASE UNCHANGED vars
  BY <1>6 DEF vars, coreVars, serverVars, netVars, watchVars
<1>7. QED
  BY <1>1, <1>2, <1>3, <1>4, <1>5, <1>6 DEF Next, Server

(* FD_SET, FD_CLR and maxfd keep up with the slots, one case per handler. *)
LEMMA WatchStep ==
  ASSUME IInv, [Next]_vars
  PROVE  WatchSetExact'
<1> USE ConstantsAssumption
<1> DEFINE Fds == {clients[i].fd : i \in {j \in Slots : InUse(j)}}
<1>1. /\ allset = {LISTENFD} \cup Fds /\ \A fd \in allset : fd <= maxfd
      /\ maxfd \in Nat
  BY DEF IInv, TypeOK, WatchSetExact
<1>2. /\ CoreInv /\ CoreInv'
      /\ clients \in [Slots -> Client] /\ fdtab \in [FDS -> Conn \cup {NoConn}]
  BY IsCore, CoreStep DEF IInv, CoreInv, CoreTypeOK
<1>3. allset' = {LISTENFD} \cup Fds' /\ \A fd \in allset' : fd <= maxfd'
  <2>1. CASE Accept
    <3>1. CASE UNCHANGED <<allset, maxfd, clients>>
      BY <3>1, <1>1 DEF InUse
    <3>2. ASSUME NEW fd \in FDS, NEW i \in Slots, AcceptInto(i, fd),
                 allset' = allset \cup {fd}, maxfd' = IF fd > maxfd THEN fd ELSE maxfd
          PROVE  allset' = {LISTENFD} \cup Fds' /\ \A g \in allset' : g <= maxfd'
      <4>1. /\ clients[i].fd = -1 /\ clients'[i].fd = fd /\ fd # -1
            /\ \A j \in Slots : j # i => clients'[j] = clients[j]
        BY <3>2, <1>2 DEF AcceptInto
      <4>2. Fds' = Fds \cup {fd}
        BY <4>1 DEF InUse
      <4>3. allset' = {LISTENFD} \cup Fds'
        BY <3>2, <4>2, <1>1
      <4>4. fd \in Nat /\ \A g \in allset : g \in Nat
        BY DEF IInv, TypeOK
      <4> HIDE DEF Fds
      <4>5. \A g \in allset' : g <= maxfd'
        BY <3>2, <4>4, <1>1
      <4>6. QED
        BY <4>3, <4>5
    <3>3. QED
      BY <2>1, <3>1, <3>2 DEF Accept, AcceptFull, watchVars
  <2>2. ASSUME NEW i \in Slots, Hangup(i)
        PROVE  allset' = {LISTENFD} \cup Fds' /\ \A g \in allset' : g <= maxfd'
    <3>1. InUse(i) /\ clients[i].fd \in FDS
      BY <2>2, <1>2 DEF Hangup, At, CoreInv, DescriptorsExact
    <3>2. /\ clients'[i].fd = -1
          /\ \A j \in Slots : j # i => clients'[j] = clients[j]
      BY <2>2, <1>2 DEF Hangup, Disconnect, Client
    <3>3. \A j \in Slots : InUse(j) /\ j # i => clients[j].fd # clients[i].fd
      BY <3>1, <1>2 DEF CoreInv, DescriptorsExact
    <3>4. Fds' = Fds \ {clients[i].fd}
      BY <3>1, <3>2, <3>3 DEF InUse
    <3>5. allset' = allset \ {clients[i].fd} /\ maxfd' = maxfd
      BY <2>2 DEF Hangup
    <3>6. LISTENFD # clients[i].fd
      BY <3>1
    <3> HIDE DEF Fds
    <3>7. allset' = {LISTENFD} \cup Fds'
      BY <3>4, <3>5, <3>6, <1>1
    <3>8. \A g \in allset' : g <= maxfd'
      BY <3>5, <1>1
    <3>9. QED
      BY <3>7, <3>8
  <2>3. CASE UNCHANGED <<allset, maxfd>> /\ \A i \in Slots : clients'[i].fd = clients[i].fd
    <3>1. Fds' = Fds
      BY <2>3 DEF InUse
    <3>2. QED
      BY <2>3, <3>1, <1>1
  <2>4. QED
    BY <2>1, <2>2, <2>3, SlotsStep
<1>4. \A fd \in allset' : Open(fd)'
  <2> SUFFICES ASSUME NEW fd \in allset', fd # LISTENFD
               PROVE  fd \in FDS /\ fdtab'[fd] # NoConn
    BY DEF Open
  <2>1. PICK i \in Slots : InUse(i)' /\ clients'[i].fd = fd
    BY <1>3
  <2>2. clients'[i].fd \in FDS /\ fdtab'[clients'[i].fd] \in Conn
    BY <1>2, <2>1 DEF CoreInv, DescriptorsExact, ConnOf
  <2>3. QED
    BY <2>1, <2>2
<1>5. QED
  BY <1>3, <1>4 DEF WatchSetExact
-----------------------------------------------------------------------------
(* What select() reported of a slot outlives the handlers before it. *)
LEMMA ReportStep ==
  ASSUME IInv, [Next]_vars
  PROVE  ReportStands'
<1> USE ConstantsAssumption
<1>1. /\ CoreInv /\ TypeOK /\ WatchSetExact /\ ReportStands
      /\ CoreInv' /\ TypeOK'
      /\ fdtab \in [FDS -> Conn \cup {NoConn}] /\ clients \in [Slots -> Client]
      /\ backlog \in Seq(Conn) /\ link \in [Conn -> Links] /\ lines \in [Conn -> Seq(Line)]
      /\ \A i \in Slots : InUse(i) => clients[i].fd \in FDS /\ ConnOf(i) \in Conn
      /\ \A i, j \in Slots : InUse(i) /\ InUse(j) /\ clients[i].fd = clients[j].fd => i = j
      /\ rset \subseteq FDS \cup {LISTENFD}
      /\ LISTENFD \notin FDS /\ NoConn \notin Conn /\ idx \in Nat /\ idx >= 1
      /\ \A i \in Slots : i \in Nat /\ 1 <= i /\ i <= MAX_CLIENTS
  <2>1. /\ CoreInv /\ TypeOK /\ WatchSetExact /\ ReportStands
        /\ CoreInv' /\ TypeOK'
    BY IsCore, CoreStep, TypeStep DEF IInv
  <2>2. /\ fdtab \in [FDS -> Conn \cup {NoConn}] /\ clients \in [Slots -> Client]
        /\ backlog \in Seq(Conn) /\ link \in [Conn -> Links] /\ lines \in [Conn -> Seq(Line)]
        /\ idx \in Nat /\ idx >= 1 /\ rset \subseteq FDS \cup {LISTENFD}
    BY <2>1 DEF CoreInv, CoreTypeOK, TypeOK
  <2>3. /\ \A i \in Slots : InUse(i) => clients[i].fd \in FDS /\ ConnOf(i) \in Conn
        /\ \A i, j \in Slots : InUse(i) /\ InUse(j) /\ clients[i].fd = clients[j].fd => i = j
    BY <2>1 DEF CoreInv, DescriptorsExact
  <2>4. /\ LISTENFD \notin FDS /\ NoConn \notin Conn
        /\ \A i \in Slots : i \in Nat /\ 1 <= i /\ i <= MAX_CLIENTS
    BY DEF Slots
  <2>5. QED
    BY <2>1, <2>2, <2>3, <2>4
<1>2. CASE Select
  <2>1. ~BadSelect
    BY <1>1 DEF BadSelect, Watched, WatchSetExact
  <2>2. /\ rset' = Selected /\ UNCHANGED <<clients, fdtab, backlog, link, lines>>
        /\ pc' \in {"accept", "scan"} /\ idx' = 1
        /\ pc' = "accept" => LISTENFD \in rset'
    BY <1>2, <2>1 DEF Select, Woken, netVars
  <2>3. /\ \A fd \in rset' : Open(fd)' /\ Readable(fd)'
        /\ LISTENFD \in rset' => backlog' # <<>>
    BY <2>2, <1>1 DEF Selected, Watched, Readable, Gone, WatchSetExact, Open
  <2>4. QED
    BY <2>2, <2>3, <1>1 DEF ReportStands, IsSet
<1>3. CASE Accept
  <2>1. ASSUME NEW fd \in FDS, AcceptFull(fd) PROVE ReportStands'
    BY <2>1 DEF AcceptFull, ReportStands
  <2>2. ASSUME NEW fd \in FDS, NEW i \in Slots, AcceptInto(i, fd), rset' = rset PROVE ReportStands'
    <3>1. /\ pc = "accept" /\ pc' = "scan" /\ idx' = 1 /\ UNCHANGED <<link, lines>>
          /\ fdtab[fd] = NoConn /\ \A g \in FDS : g # fd => fdtab'[g] = fdtab[g]
          /\ clients'[i].fd = fd /\ \A j \in Slots : j # i => clients'[j] = clients[j]
      BY <2>2, <1>1 DEF AcceptInto, Accepted, LowestFree
    <3>2. fd \notin rset
      BY <3>1, <1>1 DEF ReportStands, Open
    <3>3. ASSUME NEW j \in Slots, InUse(j)', IsSet(j)'
          PROVE  Readable(clients[j].fd)' /\ clients'[j].fd = clients[j].fd
      <4>1. j # i /\ InUse(j) /\ IsSet(j) /\ clients'[j].fd = clients[j].fd
        BY <3>1, <3>2, <3>3, <2>2 DEF InUse, IsSet
      <4>2. Readable(clients[j].fd)
        BY <4>1, <3>1, <1>1 DEF ReportStands
      <4>3. QED
        BY <4>1, <4>2, <2>2, <1>1, AcceptSpares
    <3>4. QED
      BY <3>1, <3>3, <1>1 DEF ReportStands, Slots
  <2>3. QED
    BY <1>3, <2>1, <2>2 DEF Accept
<1>4. ASSUME NEW i \in Slots, Hangup(i) PROVE ReportStands'
  <2>1. /\ pc = "scan" /\ pc' = "scan" /\ idx' = i + 1 /\ InUse(i) /\ i >= idx
        /\ UNCHANGED <<rset, lines>>
        /\ clients'[i].fd = -1 /\ \A j \in Slots : j # i => clients'[j] = clients[j]
        /\ fdtab' = [fdtab EXCEPT ![clients[i].fd] = NoConn]
        /\ link' = [link EXCEPT ![ConnOf(i)] = "closed"]
    BY <1>1, <1>4 DEF Hangup, At, Disconnect, Client
  <2>2. ASSUME NEW j \in Slots, j >= i + 1, InUse(j)', IsSet(j)'
        PROVE  Readable(clients[j].fd)'
    <3>1. j # i /\ InUse(j) /\ IsSet(j) /\ clients'[j].fd = clients[j].fd /\ j >= idx
      BY <2>1, <2>2, <1>1 DEF InUse, IsSet
    <3>2. Readable(clients[j].fd)
      BY <3>1, <2>1, <1>1 DEF ReportStands, Slots
    <3>3. QED
      BY <3>1, <3>2, <2>1, <1>1, <1>4, ScanSpares DEF Hangup
  <2>3. \A j \in i + 1..MAX_CLIENTS : InUse(j)' /\ IsSet(j)' => Readable(clients[j].fd)'
    <3>1. SUFFICES ASSUME NEW j \in i + 1..MAX_CLIENTS, InUse(j)', IsSet(j)'
                   PROVE  Readable(clients[j].fd)'
      OBVIOUS
    <3>2. j \in Slots /\ j >= i + 1 /\ j # i
      BY <3>1, <1>4 DEF Slots
    <3>3. QED
      BY <3>1, <3>2, <2>1, <2>2
  <2>4. QED
    BY <2>1, <2>3 DEF ReportStands
<1>5. ASSUME NEW i \in Slots, Receive(i) PROVE ReportStands'
  <2>1. /\ pc = "scan" /\ pc' = "scan" /\ idx' = i + 1 /\ InUse(i) /\ i >= idx
        /\ UNCHANGED <<rset, link, fdtab>>
    BY <1>1, <1>5 DEF Receive, At, ReadLine, watchVars
  <2>2. \A j \in Slots : clients'[j].fd = clients[j].fd
    <3>1. PICK line : TooSoon(i) \/ Rename(i, line) \/ BadName(i, line) \/ Say(i, line)
      BY <1>5 DEF Receive, ReadLine
    <3>2. clients \in [Slots -> Client]
      BY <1>1
    <3>3. QED
      BY <3>1, <3>2 DEF TooSoon, Rename, BadName, Say, Client
  <2>4. ASSUME NEW j \in Slots, j >= i + 1, InUse(j)', IsSet(j)'
        PROVE  Readable(clients[j].fd)'
    <3>1. j # i /\ InUse(j) /\ IsSet(j) /\ clients'[j].fd = clients[j].fd /\ j >= idx
      BY <2>1, <2>2, <2>4, <1>1 DEF InUse, IsSet
    <3>2. Readable(clients[j].fd)
      BY <3>1, <2>1, <1>1 DEF ReportStands, Slots
    <3>3. QED
      BY <3>1, <3>2, <2>1, <1>1, <1>5, ScanSpares DEF Receive
  <2>5. QED
    BY <2>1, <2>4, <1>1 DEF ReportStands, Slots
<1>6. ASSUME \/ Environment
             \/ \E i \in Slots : WriteSlot(i),
             UNCHANGED watchVars
      PROVE  ReportStands'
  <2>1. /\ UNCHANGED <<pc, idx, clients, fdtab, rset>>
        /\ backlog # <<>> => backlog' # <<>>
    <3>1. ASSUME NEW c \in Conn, Connect(c)
          PROVE  /\ UNCHANGED <<pc, idx, clients, fdtab>>
                 /\ backlog' # <<>>
      BY <3>1, <1>1, AppendProperties DEF Connect, serverVars
    <3>2. QED
      BY <1>6, <3>1 DEF Environment, SendLine, ClientCloses, RstArrives, ClientReads, Tick,
                        WriteSlot, serverVars, netVars, watchVars
  <2>2. ASSUME NEW j \in Slots, InUse(j), Readable(clients[j].fd)
        PROVE  Readable(clients[j].fd)'
    BY <1>1, <1>6, <2>2, OutsideSpares
  <2>3. \A j \in Slots : InUse(j)' = InUse(j) /\ IsSet(j)' = IsSet(j)
    BY <2>1 DEF InUse, IsSet
  <2>4. \A fd \in rset : Open(fd)' = Open(fd)
    BY <2>1 DEF Open
  <2>5. pc' = "accept" => backlog' # <<>> /\ \A fd \in rset' : Open(fd)'
    BY <2>1, <2>4, <1>1 DEF ReportStands
  <2>6. pc' \in {"accept", "scan"} =>
          \A j \in (IF pc' = "accept" THEN 1 ELSE idx')..MAX_CLIENTS :
             InUse(j)' /\ IsSet(j)' => Readable(clients[j].fd)'
    <3> SUFFICES ASSUME pc \in {"accept", "scan"},
                        NEW j \in (IF pc = "accept" THEN 1 ELSE idx)..MAX_CLIENTS,
                        InUse(j)', IsSet(j)'
                 PROVE  Readable(clients[j].fd)'
      BY <2>1
    <3>1. j \in Slots
      BY <1>1 DEF Slots
    <3>2. InUse(j) /\ IsSet(j)
      BY <2>3, <3>1
    <3>3. Readable(clients[j].fd)
      BY <3>2, <1>1 DEF ReportStands
    <3>4. QED
      BY <2>2, <3>1, <3>2, <3>3
  <2>7. QED
    BY <2>5, <2>6 DEF ReportStands
<1>7. ASSUME \/ Start \/ Refuse \/ Stop
             \/ (EndScan(Reported) \/ Exited \/ \E i \in Slots : SigPipe(i))
      PROVE  ReportStands'
  BY <1>7 DEF Start, Listen, Refuse, Stop, StartFails, SigInt, ExitHandler, EndScan, Exited,
              SigPipe, ReportStands
<1>8. CASE UNCHANGED vars
  BY <1>1, <1>8 DEF vars, coreVars, serverVars, netVars, watchVars, ReportStands, InUse, IsSet,
                    Readable, Gone, Open
<1>9. QED
  BY <1>2, <1>3, <1>4, <1>5, <1>6, <1>7, <1>8 DEF Next, Server, Write

-----------------------------------------------------------------------------
(* IInv holds in every reachable state. *)
THEOREM Invariance == Spec => []IInv
<1>1. Init => IInv
  BY InitInv
<1>2. IInv /\ [Next]_vars => IInv'
  BY IsCore, CoreStep, TypeStep, WatchStep, ReportStep DEF IInv
<1>3. QED
  BY <1>1, <1>2, PTL DEF Spec

(* Every variable keeps its type. *)
THEOREM TypeCorrect == Spec => []TypeOK
<1>1. IInv => TypeOK
  BY DEF IInv
<1>2. QED
  BY <1>1, Invariance, PTL

(* The set handed to select() holds the listening socket and the slots'     *)
(* descriptors, all open and all up to maxfd.                               *)
THEOREM WatchSetCorrect == Spec => []WatchSetExact
<1>1. IInv => WatchSetExact
  BY DEF IInv
<1>2. QED
  BY <1>1, Invariance, PTL

(* The single thread never blocks in accept() or read().                    *)
THEOREM NeverBlocksReading == Spec => []ReadNeverBlocks
<1>1. IInv => ReadNeverBlocks
  BY DEF IInv, ReportStands, ReadNeverBlocks
<1>2. QED
  BY <1>1, Invariance, PTL

(* No descriptor leaks, none serves two slots.                              *)
THEOREM DescriptorsCorrect == Spec => []DescriptorsExact
<1>1. IInv => DescriptorsExact
  BY DEF IInv, CoreInv
<1>2. QED
  BY <1>1, Invariance, PTL

(* Every connected member has what was addressed to it, up to the broadcast *)
(* in progress.                                                             *)
THEOREM DeliveryComplete == Spec => []NothingMissed
<1>1. IInv => NothingMissed
  BY DEF IInv, CoreInv
<1>2. QED
  BY <1>1, Invariance, PTL

(* No client gets what was addressed to another.                            *)
THEOREM DeliveryCorrect == Spec => []NothingMisdirected
<1>1. IInv => NothingMisdirected
  BY DEF IInv, CoreInv
<1>2. QED
  BY <1>1, Invariance, PTL

(* What a client receives, it receives in the order of the log.             *)
THEOREM DeliveryInOrder == Spec => ReceivedInOrder
<1>1. IInv /\ [Next]_vars => [InOrder]_coreVars
  BY IsCore, OrderStep DEF IInv
<1>2. QED
  BY <1>1, Invariance, PTL DEF Spec, ReceivedInOrder, InOrder

-----------------------------------------------------------------------------
(* The server is a chat room: slots, descriptors, sets and loop put into    *)
(* effect nothing but joins, departures, messages and ordered deliveries.   *)
THEOREM Refinement == Spec => ImplementsChatRoom
<1>1. Init => Room!Init /\ RoomInv
  BY InitRoom DEF Init
<1>2. IInv /\ RoomInv /\ [Next]_vars => [Room!Next]_(Room!vars) /\ RoomInv'
  BY IsCore, RoomStep DEF IInv
<1>3. QED
  BY <1>1, <1>2, Invariance, PTL DEF Spec, ImplementsChatRoom, Room!Spec

(* So an event reaches only whoever was in the room when it was handled,    *)
(* and each of them after all that concerned it before, except for what the *)
(* exit notice overtakes.                                                   *)
THEOREM PromiseKept == Spec => []RoomPromise
  BY Refinement, RoomKeepsPromise, PTL DEF ImplementsChatRoom, RoomPromise

-----------------------------------------------------------------------------
(* A server that gets to the end of its exit handler has told every client  *)
(* still connected.                                                         *)
THEOREM ExitTellsCorrect == Spec => []ExitTellsAll
<1>1. Init => TellsAll
  BY DEF Init, CoreInit, TellsAll
<1>2. IInv /\ TellsAll /\ [Next]_vars => TellsAll'
  BY IsCore, TellsStep DEF IInv
<1>3. IInv /\ TellsAll => ExitTellsAll
  BY TellsAllTells DEF IInv
<1>4. QED
  BY <1>1, <1>2, <1>3, Invariance, PTL DEF Spec

(* A client's messages are a cooldown apart and in the order it sent them.  *)
THEOREM CooldownCorrect == Spec => []Cooldown
<1>1. Init => RoomInv /\ PaceInv
  BY InitRoom, InitPace DEF Init
<1>2. IInv /\ RoomInv /\ PaceInv /\ [Next]_vars => RoomInv' /\ PaceInv'
  BY IsCore, RoomStep, PaceStep DEF IInv
<1>3. PaceInv => Cooldown
  BY DEF PaceInv
<1>4. QED
  BY <1>1, <1>2, <1>3, Invariance, PTL DEF Spec
=============================================================================
