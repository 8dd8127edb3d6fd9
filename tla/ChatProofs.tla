----------------------------- MODULE ChatProofs -----------------------------
(***************************************************************************)
(* What holds of both chat servers, by the actions of ChatCore they share. *)
(*                                                                         *)
(* First, the invariant of their state (CoreInv) is kept by every action,  *)
(* whatever the multiplexing call reported: one lemma per action; under    *)
(* each, one step per conjunct of CoreInv.                                 *)
(*                                                                         *)
(* Second, every step is an event or a delivery of ChatRoom, or nothing    *)
(* the room knows of.  Beyond CoreInv this takes three facts (RoomInv):    *)
(* nobody is mentioned in the log before it was accepted, a connection     *)
(* that is turned away was told nothing before, and the exit handler       *)
(* writes nothing but its last entry.  On the same facts rest the last two *)
(* invariants: the exit handler tells everyone, and messages keep a pace.  *)
(*                                                                         *)
(* Third, a room keeps what it promises (Room!Promise), by ChatRoom's      *)
(* actions alone: what is in the log stays (PastStays), so that an action  *)
(* has to answer only for the events it adds.                              *)
(***************************************************************************)
EXTENDS ChatProperties, SequenceTheorems, FiniteSetTheorems, TLAPS

(* Nothing is open, pending or told when main() reaches socket(). *)
LEMMA InitCore == CoreInit => CoreInv
<1> SUFFICES ASSUME CoreInit PROVE CoreInv
  OBVIOUS
<1> USE ConstantsAssumption
<1>1. CoreTypeOK
  BY DEF CoreInit, CoreTypeOK, Client, Names, Slots, Running, Line, Event, Links
<1>2. DescriptorsExact
  BY DEF CoreInit, DescriptorsExact, InUse, Slots, Running
<1>3. ConnectionsExact
  BY DEF CoreInit, ConnectionsExact
<1>4. WritesPending
  BY DEF CoreInit, WritesPending, Quiet, Slots
<1>5. NothingMisdirected
  BY DEF CoreInit, NothingMisdirected
<1>6. NothingMissed
  BY DEF CoreInit, NothingMissed, Members, InUse
<1>7. QED
  BY <1>1, <1>2, <1>3, <1>4, <1>5, <1>6 DEF CoreInv

(* What the handlers append to the log *)
LEMMA NoteIsEvent ==
  ASSUME CoreInv, NEW kind \in Kinds, NEW who \in Conn \cup {NoConn},
         NEW name \in Names \cup {NoConn}, NEW n \in Nat, NEW to \in SUBSET Conn
  PROVE  /\ Note(kind, who, name, n, to) \in Event
         /\ Note(kind, who, name, n, to).to = to
  BY DEF Note, Event, CoreInv, CoreTypeOK

(* The slots in use hold connections, never a free descriptor. *)
LEMMA MembersAreConnections == CoreInv => Members \in SUBSET Conn
  BY DEF CoreInv, DescriptorsExact, Members

(* Appending one event leaves the earlier ones where they are. *)
LEMMA LogGrows ==
  ASSUME CoreInv, NEW e \in Event, log' = Append(log, e)
  PROVE  /\ log' \in Seq(Event) /\ Len(log) \in Nat /\ Len(log') = Len(log) + 1
         /\ \A k \in 1..Len(log) : log'[k] = log[k]
         /\ log'[Len(log) + 1] = e
  BY DEF CoreInv, CoreTypeOK

(* A slot in use is its client's only one *)
LEMMA OneSlot ==
  ASSUME CoreInv, NEW i \in Slots, NEW j \in Slots, InUse(i), InUse(j), ConnOf(i) = ConnOf(j)
  PROVE  i = j
<1>1. /\ clients[i].fd \in FDS /\ clients[j].fd \in FDS
      /\ fdtab[clients[i].fd] # NoConn /\ fdtab[clients[i].fd] = fdtab[clients[j].fd]
  BY ConstantsAssumption DEF CoreInv, DescriptorsExact, ConnOf
<1>2. clients[i].fd = clients[j].fd
  BY <1>1 DEF CoreInv, ConnectionsExact
<1>3. QED
  BY <1>2 DEF CoreInv, DescriptorsExact

(* The broadcast in progress owes a member at most one entry, that of its slot. *)
LEMMA OwedIs ==
  ASSUME CoreInv, NEW i \in Slots, InUse(i)
  PROVE  Owed(ConnOf(i)) = IF out[i] # 0 THEN {out[i]} ELSE {}
  BY OneSlot DEF Owed

(* A handler that publishes one event and leaves a broadcast of it to do    *)
(* keeps the three conjuncts about deliveries.                              *)
LEMMA Publish ==
  ASSUME CoreInv, Quiet, pc \in Running, pc' \notin Running \ {"scan"},
         CoreTypeOK', DescriptorsExact', ConnectionsExact',
         NEW e \in Event, log' = Append(log, e), got' = got,
         e.to \subseteq Members',
         \A j \in Slots : out'[j] = IF InUse(j)' /\ ConnOf(j)' \in e.to THEN Len(log) + 1 ELSE 0,
         \A d \in Members' \ Members : \A k \in 1..Len(log) : d \notin log[k].to,
         \A d \in Conn : /\ link'[d] = "idle" => link[d] = "idle"
                         /\ link'[d] = "open" => link[d] = "open",
         \A j \in 1..Len(backlog') : \E k \in 1..Len(backlog) : backlog'[j] = backlog[k]
  PROVE  WritesPending' /\ NothingMisdirected' /\ NothingMissed'
<1>1. /\ log' \in Seq(Event) /\ Len(log) \in Nat /\ Len(log') = Len(log) + 1
      /\ \A k \in 1..Len(log) : log'[k] = log[k]
      /\ log'[Len(log) + 1] = e
  BY LogGrows
<1>2. \A d \in Conn : \A k \in got[d] : k \in 1..Len(log) /\ d \in log[k].to
  BY DEF CoreInv, NothingMisdirected
<1>3. \A k \in 1..Len(log) : log[k].to \in SUBSET Conn
  <2>1. \A k \in 1..Len(log) : log[k] \in Event
    BY DEF CoreInv, CoreTypeOK
  <2>2. QED
    BY <2>1 DEF Event
<1>4. WritesPending'
  <2>1. ASSUME NEW j \in Slots, out'[j] # 0
        PROVE  /\ InUse(j)' /\ out'[j] \in 1..Len(log') /\ ConnOf(j)' \in log'[out'[j]].to
               /\ \A k \in got'[ConnOf(j)'] : k < out'[j]
    <3>1. InUse(j)' /\ ConnOf(j)' \in e.to /\ out'[j] = Len(log) + 1
      BY <2>1
    <3>2. ConnOf(j)' \in Conn
      BY <3>1 DEF Event
    <3>3. QED
      BY <3>1, <3>2, <1>1, <1>2
  <2>2. ASSUME NEW k \in 1..Len(log'), NEW d \in log'[k].to
        PROVE  link'[d] # "idle" /\ \A j \in 1..Len(backlog') : backlog'[j] # d
    <3>1. CASE k \in 1..Len(log)
      <4>1. d \in log[k].to /\ d \in Conn
        BY <3>1, <2>2, <1>1, <1>3
      <4>2. link[d] # "idle" /\ \A j \in 1..Len(backlog) : backlog[j] # d
        BY <3>1, <4>1 DEF CoreInv, WritesPending
      <4>3. link'[d] # "idle"
        BY <4>1, <4>2
      <4>4. ASSUME NEW j \in 1..Len(backlog') PROVE backlog'[j] # d
        <5>1. PICK m \in 1..Len(backlog) : backlog'[j] = backlog[m]
          BY <4>4
        <5>2. QED
          BY <4>2, <5>1
      <4>5. QED
        BY <4>3, <4>4
    <3>2. CASE d \in e.to
      <4>1. PICK j \in Slots : InUse(j)' /\ d = ConnOf(j)'
        BY <3>2 DEF Members, ConnOf
      <4>2. clients'[j].fd \in FDS /\ fdtab'[clients'[j].fd] = d /\ d # NoConn
        BY <4>1, ConstantsAssumption DEF DescriptorsExact, ConnOf, InUse
      <4>3. QED
        BY <4>2 DEF ConnectionsExact
    <3>3. QED
      BY <3>1, <3>2, <1>1
  <2>3. pc' \in Running \ {"scan"} => Quiet'
    OBVIOUS
  <2>4. pc' # "refuse"
    BY DEF Running
  <2>5. QED
    BY <2>1, <2>2, <2>3, <2>4 DEF WritesPending
<1>5. NothingMisdirected'
  BY <1>1, <1>2 DEF NothingMisdirected
<1>6. NothingMissed'
  <2> SUFFICES ASSUME NEW d \in Members', link'[d] = "open"
               PROVE  {k \in 1..Len(log') : d \in log'[k].to} = got'[d] \cup Owed(d)'
    BY DEF NothingMissed
  <2>1. PICK i \in Slots : InUse(i)' /\ d = ConnOf(i)' /\ d \in Conn
    BY DEF Members, DescriptorsExact, ConnOf, InUse
  <2>2. Owed(d)' = IF d \in e.to THEN {Len(log) + 1} ELSE {}
    BY <1>1, <2>1 DEF Owed
  <2>3. {k \in 1..Len(log) : d \in log[k].to} = got[d]
    <3>1. CASE d \in Members
      <4>1. Owed(d) = {}
        BY DEF Quiet, Owed
      <4>2. QED
        BY <3>1, <4>1, <2>1 DEF CoreInv, NothingMissed
    <3>2. CASE d \notin Members
      BY <3>2, <1>2, <2>1
    <3>3. QED
      BY <3>1, <3>2
  <2>4. {k \in 1..Len(log') : d \in log'[k].to} =
          {k \in 1..Len(log) : d \in log[k].to} \cup (IF d \in e.to THEN {Len(log) + 1} ELSE {})
    BY <1>1
  <2>5. QED
    BY <2>2, <2>3, <2>4
<1>7. QED
  BY <1>4, <1>5, <1>6

(* accept() into a free slot *)
LEMMA AcceptIntoCore ==
  ASSUME CoreInv, NEW i \in Slots, NEW fd \in FDS, AcceptInto(i, fd)
  PROVE  CoreInv'
<1> USE ConstantsAssumption
<1>1. PICK c \in Conn : /\ c = Head(backlog) /\ Len(backlog) > 0 /\ c = backlog[1]
      /\ backlog' = Tail(backlog) /\ backlog' \in Seq(Conn) /\ Len(backlog') = Len(backlog) - 1
      /\ \A k \in 1..Len(backlog') : backlog'[k] = backlog[k + 1]
  BY DEF CoreInv, CoreTypeOK, AcceptInto, Accepted
<1> DEFINE e == Note("connected", c, c, 0, Members \cup {c})
<1>2. e \in Event /\ e.to = Members \cup {c}
  <2>1. /\ "connected" \in Kinds /\ c \in Conn \cup {NoConn} /\ c \in Names \cup {NoConn}
        /\ 0 \in Nat /\ Members \cup {c} \in SUBSET Conn
    BY MembersAreConnections DEF Kinds, Names
  <2>2. QED
    BY <2>1, NoteIsEvent
<1>3. /\ log' = Append(log, e) /\ log' \in Seq(Event) /\ Len(log') = Len(log) + 1
      /\ Len(log) \in Nat
  BY <1>1, <1>2, LogGrows DEF AcceptInto
<1>4. PICK t \in GarbageTimes :
        clients' = [clients EXCEPT ![i] = [fd |-> fd, name |-> c, last |-> t]]
  BY <1>1 DEF AcceptInto
<1>5. /\ clients' \in [Slots -> Client] /\ clients[i].fd = -1
      /\ clients'[i].fd = fd /\ fd # -1
      /\ \A j \in Slots : j # i => clients'[j] = clients[j]
  BY <1>1, <1>4 DEF CoreInv, CoreTypeOK, AcceptInto, Client, Names
<1>6. /\ out' \in [Slots -> Nat] /\ i \in Slots
      /\ \A j \in Slots : out'[j] = IF clients'[j].fd # -1 THEN Len(log) + 1 ELSE 0
  BY <1>3, <1>5 DEF AcceptInto, Broadcast, Client
<1>7. /\ fdtab' \in [FDS -> Conn \cup {NoConn}] /\ fdtab[fd] = NoConn /\ fdtab'[fd] = c
      /\ \A g \in FDS : g # fd => fdtab'[g] = fdtab[g]
      /\ \A g \in FDS : fdtab[g] # c
      /\ c # NoConn
  BY <1>1 DEF CoreInv, CoreTypeOK, AcceptInto, Accepted, LowestFree, ConnectionsExact
<1>8. /\ pc = "accept" /\ pc' = "scan" /\ idx' = 1 /\ newfd = -1 /\ Quiet
      /\ UNCHANGED <<newfd, link, stalled, lines, sent, got, now>>
  BY DEF AcceptInto, Accepted, CoreInv, DescriptorsExact, WritesPending, Running
<1>9. CoreTypeOK'
  BY <1>1, <1>3, <1>5, <1>6, <1>7, <1>8 DEF CoreInv, CoreTypeOK, Running
<1>10. /\ InUse(i)' /\ ConnOf(i)' = c /\ ~InUse(i)
       /\ \A j \in Slots : j # i => InUse(j)' = InUse(j)
       /\ \A j \in Slots : j # i /\ InUse(j) =>
            ConnOf(j)' = ConnOf(j) /\ clients'[j].fd = clients[j].fd /\ clients[j].fd # fd
  BY <1>5, <1>7 DEF CoreInv, DescriptorsExact, InUse, ConnOf
<1>11. DescriptorsExact'
  <2>1. \A j \in Slots : InUse(j)' => clients'[j].fd \in FDS /\ ConnOf(j)' \in Conn
    BY <1>5, <1>10 DEF CoreInv, DescriptorsExact
  <2>2. \A j, k \in Slots : InUse(j)' /\ InUse(k)' /\ clients'[j].fd = clients'[k].fd => j = k
    BY <1>5, <1>10 DEF CoreInv, DescriptorsExact
  <2>3. \A g \in FDS : fdtab'[g] # NoConn => \E j \in Slots : clients'[j].fd = g
    BY <1>5, <1>7, <1>8, <1>10 DEF CoreInv, DescriptorsExact, InUse
  <2>4. QED
    BY <2>1, <2>2, <2>3, <1>8 DEF DescriptorsExact, Running
<1>12. ConnectionsExact'
  <2>1. \A f, g \in FDS : fdtab'[f] # NoConn /\ fdtab'[f] = fdtab'[g] => f = g
    <3>1. \A f, g \in FDS : fdtab[f] # NoConn /\ fdtab[f] = fdtab[g] => f = g
      BY DEF CoreInv, ConnectionsExact
    <3>2. QED
      BY <3>1, <1>7
  <2>2. \A g \in FDS : fdtab'[g] # NoConn => link'[fdtab'[g]] \notin {"idle", "closed"}
    BY <1>1, <1>7, <1>8 DEF CoreInv, ConnectionsExact
  <2>3. ASSUME NEW k \in 1..Len(backlog')
        PROVE  /\ link'[backlog'[k]] \notin {"idle", "closed"}
               /\ \A g \in FDS : fdtab'[g] # backlog'[k]
               /\ \A j \in 1..Len(backlog') : backlog'[j] = backlog'[k] => j = k
    <3>1. k + 1 \in 1..Len(backlog) /\ backlog'[k] = backlog[k + 1] /\ backlog[k + 1] # c
      BY <1>1 DEF CoreInv, ConnectionsExact
    <3>2. \A j \in 1..Len(backlog') : j + 1 \in 1..Len(backlog) /\ backlog'[j] = backlog[j + 1]
      BY <1>1
    <3>3. QED
      BY <3>1, <3>2, <1>7, <1>8 DEF CoreInv, ConnectionsExact
  <2>4. QED
    BY <2>1, <2>2, <2>3 DEF ConnectionsExact
<1>13. Members' = Members \cup {c}
  BY <1>10 DEF Members
<1>14. \A k \in 1..Len(log) : c \notin log[k].to
  BY <1>1 DEF CoreInv, WritesPending
<1>15. \A j \in Slots : out'[j] = IF InUse(j)' /\ ConnOf(j)' \in e.to THEN Len(log) + 1 ELSE 0
  BY <1>2, <1>6, <1>13 DEF InUse, Members
<1>16. \A j \in 1..Len(backlog') : \E k \in 1..Len(backlog) : backlog'[j] = backlog[k]
  BY <1>1
<1>17. WritesPending' /\ NothingMisdirected' /\ NothingMissed'
  BY <1>2, <1>3, <1>8, <1>9, <1>11, <1>12, <1>13, <1>14, <1>15, <1>16, Publish DEF Running
<1>18. QED
  BY <1>9, <1>11, <1>12, <1>17 DEF CoreInv

-----------------------------------------------------------------------------
(* Steps that only move the program counter or the clock *)
LEMMA ControlCore ==
  ASSUME CoreInv, UNCHANGED <<clients, out, newfd, netVars, histVars>>,
         now' \in Nat, idx' \in 1..MAX_CLIENTS + 1,
         pc' \in Running \cup Dead \cup {"exit"},
         pc' \in Running => pc \in Running,
         pc' \in Running \ {"scan"} => Quiet,
         pc' = "refuse" => pc = "refuse",
         pc' \in Running \ {"refuse"} => newfd = -1
  PROVE  CoreInv'
<1>1. CoreTypeOK'
  BY DEF CoreInv, CoreTypeOK, netVars, histVars
<1>2. DescriptorsExact'
  BY DEF CoreInv, DescriptorsExact, InUse, ConnOf, netVars
<1>3. ConnectionsExact'
  BY DEF CoreInv, ConnectionsExact, netVars
<1>4. WritesPending'
  BY DEF CoreInv, WritesPending, InUse, ConnOf, Quiet, netVars, histVars
<1>5. NothingMisdirected'
  BY DEF CoreInv, NothingMisdirected, histVars
<1>6. NothingMissed'
  BY DEF CoreInv, NothingMissed, Members, Owed, InUse, ConnOf, netVars, histVars
<1>7. QED
  BY <1>1, <1>2, <1>3, <1>4, <1>5, <1>6 DEF CoreInv

(* bind() and listen() touch no slot and no connection. *)
LEMMA ListenCore == CoreInv /\ Listen => CoreInv'
<1> SUFFICES ASSUME CoreInv, Listen PROVE CoreInv'
  OBVIOUS
<1>1. now \in Nat /\ idx \in 1..MAX_CLIENTS + 1 /\ newfd = -1 /\ Quiet
  BY DEF CoreInv, CoreTypeOK, DescriptorsExact, WritesPending, Listen, Running
<1>2. QED
  BY <1>1, ControlCore DEF Listen, Running

(* Nor does the return of select() or poll(). *)
LEMMA WokenCore ==
  ASSUME CoreInv, NEW b, Woken(b)
  PROVE  CoreInv'
<1>1. now \in Nat /\ newfd = -1 /\ Quiet /\ 1 \in 1..MAX_CLIENTS + 1
  BY ConstantsAssumption DEF CoreInv, CoreTypeOK, DescriptorsExact, WritesPending, Woken, Running
<1>2. pc = "wait" /\ pc' \in {"accept", "scan"} /\ idx' = 1 /\ now' = now
      /\ UNCHANGED <<clients, out, newfd, netVars, histVars>>
  BY DEF Woken
<1>3. QED
  BY <1>1, <1>2, ControlCore DEF Running

(* Nor does the end of the scan loop. *)
LEMMA EndScanCore ==
  ASSUME CoreInv, pc = "scan", Quiet, pc' = "wait", idx' = 1,
         UNCHANGED <<clients, out, newfd, netVars, histVars, now>>
  PROVE  CoreInv'
<1>1. now \in Nat /\ newfd = -1 /\ 1 \in 1..MAX_CLIENTS + 1
  BY ConstantsAssumption DEF CoreInv, CoreTypeOK, DescriptorsExact, Running
<1>2. QED
  BY <1>1, ControlCore DEF Running

(* The end of the process, by return of the exit handler or by SIGPIPE. *)
LEMMA EndingCore ==
  ASSUME CoreInv, Exited \/ \E i \in Slots : SigPipe(i)
  PROVE  CoreInv'
<1>1. now \in Nat /\ idx \in 1..MAX_CLIENTS + 1
  BY DEF CoreInv, CoreTypeOK
<1>2. pc' \in Dead /\ UNCHANGED <<idx, clients, out, newfd, netVars, histVars, now>>
  BY DEF Exited, SigPipe, Dead
<1>3. QED
  BY <1>1, <1>2, ControlCore DEF Running, Dead

(* The passing of time. *)
LEMMA TickCore == CoreInv /\ Tick => CoreInv'
<1> SUFFICES ASSUME CoreInv, Tick PROVE CoreInv'
  OBVIOUS
<1>1. /\ now' \in Nat /\ idx \in 1..MAX_CLIENTS + 1 /\ pc \in Running
      /\ pc \in Running \ {"refuse"} => newfd = -1
      /\ pc \in Running \ {"scan"} => Quiet
  BY DEF CoreInv, CoreTypeOK, DescriptorsExact, WritesPending, Tick
<1>2. UNCHANGED <<pc, idx, clients, out, newfd, netVars, histVars>>
  BY DEF Tick, serverVars
<1>3. QED
  BY <1>1, <1>2, ControlCore

-----------------------------------------------------------------------------
(* Steps of clients and network on established connections *)
LEMMA NetCore ==
  ASSUME CoreInv, UNCHANGED <<serverVars, fdtab, backlog, histVars, now>>,
         link' \in [Conn -> Links], stalled' \in [Conn -> BOOLEAN],
         lines' \in [Conn -> Seq(Line)], sent' \in 0..MaxLines,
         \A c \in Conn : /\ link[c] \notin {"idle", "closed"} => link'[c] \notin {"idle", "closed"}
                         /\ link'[c] = "idle" => link[c] = "idle"
                         /\ link'[c] = "open" => link[c] = "open"
  PROVE  CoreInv'
<1>0. /\ UNCHANGED <<pc, idx, clients, out, newfd, fdtab, backlog, log, got, now>>
  BY DEF serverVars, histVars
<1>1. CoreTypeOK'
  BY <1>0 DEF CoreInv, CoreTypeOK, Links
<1>2. DescriptorsExact'
  BY <1>0 DEF CoreInv, DescriptorsExact, InUse, ConnOf
<1>3. ConnectionsExact'
  <2>1. \A k \in 1..Len(backlog) : backlog[k] \in Conn
    BY DEF CoreInv, CoreTypeOK
  <2>2. \A fd \in FDS : fdtab[fd] \in Conn \cup {NoConn}
    BY DEF CoreInv, CoreTypeOK
  <2>3. QED
    BY <1>0, <2>1, <2>2 DEF CoreInv, ConnectionsExact
<1>4. WritesPending'
  <2>1. \A k \in 1..Len(log) : log[k] \in Event
    BY DEF CoreInv, CoreTypeOK
  <2>2. \A k \in 1..Len(log) : log[k].to \in SUBSET Conn
    BY <2>1 DEF Event
  <2>3. QED
    BY <1>0, <2>2 DEF CoreInv, WritesPending, InUse, ConnOf, Quiet
<1>5. NothingMisdirected'
  BY <1>0 DEF CoreInv, NothingMisdirected
<1>6. NothingMissed'
  <2>1. Members \in SUBSET Conn
    BY MembersAreConnections
  <2>2. Members' = Members
    BY <1>0 DEF Members, InUse, ConnOf
  <2>3. \A c \in Members : Owed(c)' = Owed(c)
    BY <1>0 DEF Owed, InUse, ConnOf
  <2>4. QED
    BY <1>0, <2>1, <2>2, <2>3 DEF CoreInv, NothingMissed
<1>7. QED
  BY <1>1, <1>2, <1>3, <1>4, <1>5, <1>6 DEF CoreInv

(* A line reaches the kernel's receive buffer. *)
LEMMA SendLineCore ==
  ASSUME CoreInv, NEW c \in Conn, NEW cmd \in {"text", "badname"} \cup NewNames, SendLine(c, cmd)
  PROVE  CoreInv'
<1>1. sent' \in 0..MaxLines /\ sent' \in 1..MaxLines
  BY ConstantsAssumption DEF SendLine, CoreInv, CoreTypeOK
<1>2. [n |-> sent', cmd |-> cmd] \in Line
  BY <1>1 DEF Line
<1>3. lines' \in [Conn -> Seq(Line)]
  BY <1>2 DEF SendLine, CoreInv, CoreTypeOK
<1>4. QED
  BY <1>1, <1>3, NetCore DEF SendLine, CoreInv, CoreTypeOK, Links

(* A client closes or aborts its connection. *)
LEMMA ClientClosesCore ==
  ASSUME CoreInv, NEW c \in Conn, ClientCloses(c)
  PROVE  CoreInv'
<1>1. link' \in [Conn -> Links] /\ stalled' \in [Conn -> BOOLEAN]
  BY DEF ClientCloses, CoreInv, CoreTypeOK, Links
<1>2. \A d \in Conn : d # c => link'[d] = link[d]
  BY DEF ClientCloses, CoreInv, CoreTypeOK
<1>3. link[c] = "open" /\ link'[c] \in {"fin", "reset"}
  BY DEF ClientCloses, CoreInv, CoreTypeOK
<1>4. QED
  BY <1>1, <1>2, <1>3, NetCore DEF ClientCloses, CoreInv, CoreTypeOK

(* The answer to a write after close; a client that reads again. *)
LEMMA NetworkCore ==
  ASSUME CoreInv, NEW c \in Conn, RstArrives(c) \/ ClientReads(c)
  PROVE  CoreInv'
<1>1. link' \in [Conn -> Links] /\ stalled' \in [Conn -> BOOLEAN]
  BY DEF RstArrives, ClientReads, CoreInv, CoreTypeOK, Links
<1>2. \A d \in Conn : link'[d] = link[d] \/ (link[d] = "finw" /\ link'[d] = "rst")
  BY DEF RstArrives, ClientReads, CoreInv, CoreTypeOK
<1>3. /\ UNCHANGED <<serverVars, fdtab, backlog, histVars, now>>
      /\ lines' \in [Conn -> Seq(Line)] /\ sent' \in 0..MaxLines
  BY DEF RstArrives, ClientReads, CoreInv, CoreTypeOK
<1>4. QED
  BY <1>1, <1>2, <1>3, NetCore

(* A connection completes: it waits in the accept queue, in no slot. *)
LEMMA ConnectCore ==
  ASSUME CoreInv, NEW c \in Conn, Connect(c)
  PROVE  CoreInv'
<1>1. /\ backlog' = Append(backlog, c) /\ backlog' \in Seq(Conn) /\ Len(backlog) \in Nat
      /\ Len(backlog') = Len(backlog) + 1 /\ backlog'[Len(backlog) + 1] = c
      /\ \A k \in 1..Len(backlog) : backlog'[k] = backlog[k] /\ backlog[k] \in Conn
  BY DEF Connect, CoreInv, CoreTypeOK
<1>2. /\ link[c] = "idle" /\ link'[c] = "open" /\ \A d \in Conn : d # c => link'[d] = link[d]
      /\ link' \in [Conn -> Links]
  BY DEF Connect, CoreInv, CoreTypeOK, Links
<1>3. UNCHANGED <<pc, idx, clients, out, newfd, fdtab, stalled, lines, sent, log, got, now>>
  BY DEF Connect, serverVars, histVars
<1>4. /\ \A k \in 1..Len(backlog) : backlog[k] # c
      /\ \A fd \in FDS : fdtab[fd] # c
      /\ \A fd \in FDS : fdtab[fd] \in Conn \cup {NoConn}
  BY <1>2, ConstantsAssumption DEF CoreInv, CoreTypeOK, ConnectionsExact
<1>5. CoreTypeOK'
  BY <1>1, <1>2, <1>3 DEF CoreInv, CoreTypeOK, Links
<1>6. DescriptorsExact'
  BY <1>3 DEF CoreInv, DescriptorsExact, InUse, ConnOf
<1>7. ConnectionsExact'
  <2>1. \A f, g \in FDS : fdtab'[f] # NoConn /\ fdtab'[f] = fdtab'[g] => f = g
    BY <1>3 DEF CoreInv, ConnectionsExact
  <2>2. \A fd \in FDS : fdtab'[fd] # NoConn => link'[fdtab'[fd]] \notin {"idle", "closed"}
    BY <1>2, <1>3, <1>4 DEF CoreInv, ConnectionsExact
  <2>3. ASSUME NEW k \in 1..Len(backlog')
        PROVE  /\ link'[backlog'[k]] \notin {"idle", "closed"}
               /\ \A fd \in FDS : fdtab'[fd] # backlog'[k]
               /\ \A j \in 1..Len(backlog') : backlog'[j] = backlog'[k] => j = k
    <3>1. CASE k = Len(backlog) + 1
      BY <3>1, <1>1, <1>2, <1>3, <1>4
    <3>2. CASE k \in 1..Len(backlog)
      BY <3>2, <1>1, <1>2, <1>3, <1>4 DEF CoreInv, ConnectionsExact
    <3>3. QED
      BY <3>1, <3>2, <1>1
  <2>4. QED
    BY <2>1, <2>2, <2>3 DEF ConnectionsExact
<1>8. Members' = Members /\ c \notin Members /\ Members \in SUBSET Conn
  BY <1>3, <1>4, MembersAreConnections DEF Members, InUse, ConnOf, CoreInv, DescriptorsExact
<1>9. \A k \in 1..Len(log) : log[k].to \in SUBSET Conn \ {c}
  <2>1. \A k \in 1..Len(log) : log[k] \in Event
    BY DEF CoreInv, CoreTypeOK
  <2>2. \A k \in 1..Len(log) : c \notin log[k].to
    BY <1>2 DEF CoreInv, WritesPending
  <2>3. QED
    BY <2>1, <2>2 DEF Event
<1>10. WritesPending'
  <2>1. \A k \in 1..Len(log') : \A d \in log'[k].to :
          link'[d] # "idle" /\ \A j \in 1..Len(backlog') : backlog'[j] # d
    BY <1>1, <1>2, <1>3, <1>9 DEF CoreInv, WritesPending
  <2>2. QED
    BY <2>1, <1>3 DEF CoreInv, WritesPending, InUse, ConnOf, Quiet
<1>11. NothingMisdirected'
  BY <1>3 DEF CoreInv, NothingMisdirected
<1>12. NothingMissed'
  <2>1. \A d \in Members : Owed(d)' = Owed(d)
    BY <1>3 DEF Owed, InUse, ConnOf
  <2>2. QED
    BY <1>2, <1>3, <1>8, <2>1 DEF CoreInv, NothingMissed
<1>13. QED
  BY <1>5, <1>6, <1>7, <1>10, <1>11, <1>12 DEF CoreInv
-----------------------------------------------------------------------------
(* write(2) to a member: delivered, or lost because the client has gone *)
LEMMA WriteSlotCore ==
  ASSUME CoreInv, NEW i \in Slots, WriteSlot(i)
  PROVE  CoreInv'
<1> DEFINE c == ConnOf(i)
<1>1. /\ out[i] # 0 /\ InUse(i) /\ c \in Conn /\ out[i] \in 1..Len(log) /\ c \in log[out[i]].to
      /\ \A k \in got[c] : k < out[i]
  BY DEF WriteSlot, NextOut, CoreInv, WritesPending, DescriptorsExact
<1>2. /\ UNCHANGED <<pc, idx, clients, newfd, fdtab, backlog, lines, sent, log, now>>
      /\ out' = [out EXCEPT ![i] = 0]
  BY DEF WriteSlot
<1>3. /\ link' \in [Conn -> Links] /\ stalled' \in [Conn -> BOOLEAN]
      /\ \A d \in Conn : /\ link'[d] = "open" => link[d] = "open"
                         /\ link'[d] = "idle" <=> link[d] = "idle"
                         /\ link'[d] = "closed" <=> link[d] = "closed"
                         /\ d # c => link'[d] = link[d]
  BY <1>1 DEF WriteSlot, Deliver, Lose, Gone, CoreInv, CoreTypeOK, Links
<1>4. /\ got' \in [Conn -> SUBSET Nat]
      /\ \A d \in Conn : d # c => got'[d] = got[d]
      /\ got'[c] = got[c] \/ got'[c] = got[c] \cup {out[i]}
      /\ link'[c] = "open" => got'[c] = got[c] \cup {out[i]}
  <2>1. out[i] \in Nat /\ got \in [Conn -> SUBSET Nat] /\ link \in [Conn -> Links]
    BY DEF CoreInv, CoreTypeOK
  <2>2. CASE Deliver(c, out[i])
    BY <2>1, <2>2, <1>1 DEF Deliver
  <2>3. CASE Lose(c)
    BY <2>1, <2>3, <1>1 DEF Lose, Gone
  <2>4. QED
    BY <2>2, <2>3 DEF WriteSlot
<1>5. CoreTypeOK'
  BY <1>2, <1>3, <1>4 DEF CoreInv, CoreTypeOK
<1>6. DescriptorsExact'
  BY <1>2 DEF CoreInv, DescriptorsExact, InUse, ConnOf
<1>7. ConnectionsExact'
  <2>1. \A k \in 1..Len(backlog) : backlog[k] \in Conn
    BY DEF CoreInv, CoreTypeOK
  <2>2. \A fd \in FDS : fdtab[fd] \in Conn \cup {NoConn}
    BY DEF CoreInv, CoreTypeOK
  <2>3. QED
    BY <1>2, <1>3, <2>1, <2>2 DEF CoreInv, ConnectionsExact
<1>8. /\ \A j \in Slots : InUse(j)' = InUse(j) /\ ConnOf(j)' = ConnOf(j)
      /\ Members' = Members
  BY <1>2 DEF InUse, ConnOf, Members
<1>9. /\ \A j \in Slots : j # i => out'[j] = out[j]
      /\ out'[i] = 0
  BY <1>2 DEF CoreInv, CoreTypeOK
<1>10. WritesPending'
  <2>1. ASSUME NEW j \in Slots, out'[j] # 0
        PROVE  /\ InUse(j)' /\ out'[j] \in 1..Len(log') /\ ConnOf(j)' \in log'[out'[j]].to
               /\ \A k \in got'[ConnOf(j)'] : k < out'[j]
    <3>1. j # i /\ out[j] # 0 /\ InUse(j) /\ ConnOf(j) \in Conn
      BY <2>1, <1>9 DEF CoreInv, WritesPending, DescriptorsExact
    <3>2. ConnOf(j) # c
      BY <3>1, <1>1, OneSlot
    <3>3. QED
      BY <3>1, <3>2, <1>2, <1>4, <1>8, <1>9 DEF CoreInv, WritesPending
  <2>2. \A k \in 1..Len(log) : log[k].to \in SUBSET Conn
    <3>1. \A k \in 1..Len(log) : log[k] \in Event
      BY DEF CoreInv, CoreTypeOK
    <3>2. QED
      BY <3>1 DEF Event
  <2>3. \A k \in 1..Len(log') : \A d \in log'[k].to :
          link'[d] # "idle" /\ \A j \in 1..Len(backlog') : backlog'[j] # d
    BY <1>2, <1>3, <2>2 DEF CoreInv, WritesPending
  <2>4. pc = "scan" \/ pc \notin Running
    BY <1>1 DEF CoreInv, WritesPending, Quiet
  <2>5. QED
    BY <2>1, <2>3, <2>4, <1>2 DEF WritesPending, Running
<1>11. NothingMisdirected'
  BY <1>1, <1>2, <1>4 DEF CoreInv, NothingMisdirected
<1>12. NothingMissed'
  <2> SUFFICES ASSUME pc \in Running, NEW d \in Members, link'[d] = "open", d \in Conn
               PROVE  {k \in 1..Len(log) : d \in log[k].to} = got'[d] \cup Owed(d)'
    BY <1>2, <1>8, MembersAreConnections DEF NothingMissed
  <2>1. {k \in 1..Len(log) : d \in log[k].to} = got[d] \cup Owed(d)
    BY <1>3 DEF CoreInv, NothingMissed
  <2>2. CASE d = c
    <3>1. Owed(c) = {out[i]}
      BY <1>1, OwedIs
    <3>2. Owed(d)' = {}
      BY <2>2, <1>1, <1>8, <1>9, OneSlot DEF Owed
    <3>3. QED
      BY <2>1, <2>2, <3>1, <3>2, <1>4
  <2>3. CASE d # c
    <3>1. Owed(d)' = Owed(d)
      BY <2>3, <1>8, <1>9 DEF Owed
    <3>2. QED
      BY <2>1, <2>3, <3>1, <1>4
  <2>4. QED
    BY <2>2, <2>3
<1>13. QED
  BY <1>5, <1>6, <1>7, <1>10, <1>11, <1>12 DEF CoreInv

-----------------------------------------------------------------------------
(* The exit handler; it may interrupt a broadcast *)
LEMMA ExitHandlerCore ==
  ASSUME CoreInv, ExitHandler
  PROVE  CoreInv'
<1> DEFINE e == Note("shutdown", NoConn, NoConn, 0, Members)
<1>1. e \in Event /\ e.to = Members
  <2>1. "shutdown" \in Kinds /\ NoConn \in Conn \cup {NoConn} /\ NoConn \in Names \cup {NoConn} /\ 0 \in Nat
    BY DEF Kinds
  <2>2. QED
    BY <2>1, NoteIsEvent, MembersAreConnections
<1>2. /\ log' = Append(log, e) /\ log' \in Seq(Event) /\ Len(log') = Len(log) + 1 /\ Len(log) \in Nat
      /\ \A k \in 1..Len(log) : log'[k] = log[k]
      /\ log'[Len(log) + 1] = e
  BY <1>1, LogGrows DEF ExitHandler
<1>3. pc' = "exit" /\ UNCHANGED <<idx, clients, newfd, fdtab, backlog, link, stalled, lines, sent, got, now>>
  BY DEF ExitHandler, netVars
<1>4. /\ out' \in [Slots -> Nat]
      /\ \A j \in Slots : out'[j] = IF InUse(j) THEN Len(log) + 1 ELSE 0
  BY <1>2, ConstantsAssumption DEF ExitHandler, Broadcast, InUse, CoreInv, DescriptorsExact
<1>5. CoreTypeOK'
  BY <1>2, <1>3, <1>4 DEF CoreInv, CoreTypeOK
<1>6. DescriptorsExact'
  BY <1>3 DEF CoreInv, DescriptorsExact, InUse, ConnOf, Running
<1>7. ConnectionsExact'
  BY <1>3 DEF CoreInv, ConnectionsExact
<1>8. /\ \A j \in Slots : InUse(j)' = InUse(j) /\ ConnOf(j)' = ConnOf(j)
      /\ \A j \in Slots : InUse(j) => ConnOf(j) \in Members /\ ConnOf(j) \in Conn
  BY <1>3 DEF InUse, ConnOf, Members, CoreInv, DescriptorsExact
<1>9. \A d \in Conn : \A k \in got[d] : k \in 1..Len(log) /\ d \in log[k].to
  BY DEF CoreInv, NothingMisdirected
<1>10. WritesPending'
  <2>1. \A j \in Slots : out'[j] # 0 =>
          /\ InUse(j)' /\ out'[j] \in 1..Len(log') /\ ConnOf(j)' \in log'[out'[j]].to
          /\ \A k \in got'[ConnOf(j)'] : k < out'[j]
    BY <1>1, <1>2, <1>3, <1>4, <1>8, <1>9
  <2>2. \A d \in Members : link[d] # "idle" /\ \A j \in 1..Len(backlog) : backlog[j] # d
    <3>1. ASSUME NEW d \in Members
          PROVE  \E fd \in FDS : fdtab[fd] = d /\ fdtab[fd] # NoConn
      BY ConstantsAssumption DEF CoreInv, DescriptorsExact, Members, ConnOf
    <3>2. QED
      BY <3>1 DEF CoreInv, ConnectionsExact
  <2>3. \A k \in 1..Len(log') : \A d \in log'[k].to :
          link'[d] # "idle" /\ \A j \in 1..Len(backlog') : backlog'[j] # d
    BY <1>1, <1>2, <1>3, <2>2 DEF CoreInv, WritesPending
  <2>4. QED
    BY <1>3, <2>1, <2>3 DEF WritesPending, Running
<1>11. NothingMisdirected'
  BY <1>2, <1>3, <1>9 DEF NothingMisdirected
<1>12. NothingMissed'
  BY <1>3 DEF NothingMissed, Running
<1>13. QED
  BY <1>5, <1>6, <1>7, <1>10, <1>11, <1>12 DEF CoreInv

-----------------------------------------------------------------------------
(* accept() with every slot taken: a log entry that no slot is owed *)
LEMMA AcceptFullCore ==
  ASSUME CoreInv, NEW fd \in FDS, AcceptFull(fd)
  PROVE  CoreInv'
<1> USE ConstantsAssumption
<1>1. PICK c \in Conn : /\ c = Head(backlog) /\ Len(backlog) > 0 /\ c = backlog[1]
      /\ backlog' = Tail(backlog) /\ backlog' \in Seq(Conn) /\ Len(backlog') = Len(backlog) - 1
      /\ \A k \in 1..Len(backlog') : backlog'[k] = backlog[k + 1]
  BY DEF CoreInv, CoreTypeOK, AcceptFull, Accepted
<1> DEFINE e == Note("full", c, c, 0, {c})
<1>2. e \in Event /\ e.to = {c}
  <2>1. /\ "full" \in Kinds /\ c \in Conn \cup {NoConn} /\ c \in Names \cup {NoConn}
        /\ 0 \in Nat /\ {c} \in SUBSET Conn
    BY DEF Kinds, Names
  <2>2. QED
    BY <2>1, NoteIsEvent
<1>3. /\ log' = Append(log, e) /\ log' \in Seq(Event) /\ Len(log') = Len(log) + 1 /\ Len(log) \in Nat
      /\ \A k \in 1..Len(log) : log'[k] = log[k]
      /\ log'[Len(log) + 1] = e
  BY <1>1, <1>2, LogGrows DEF AcceptFull
<1>4. /\ fdtab' \in [FDS -> Conn \cup {NoConn}] /\ fdtab[fd] = NoConn /\ fdtab'[fd] = c
      /\ \A g \in FDS : g # fd => fdtab'[g] = fdtab[g]
      /\ \A g \in FDS : fdtab[g] # c
      /\ c # NoConn
  BY <1>1 DEF CoreInv, CoreTypeOK, AcceptFull, Accepted, LowestFree, ConnectionsExact
<1>5. /\ pc = "accept" /\ pc' = "refuse" /\ newfd = -1 /\ newfd' = fd /\ fd # -1 /\ Quiet
      /\ UNCHANGED <<idx, clients, out, link, stalled, lines, sent, got, now>>
  BY DEF AcceptFull, Accepted, CoreInv, DescriptorsExact, WritesPending, Running
<1>6. /\ \A j \in Slots : InUse(j) => clients[j].fd \in FDS /\ clients[j].fd # fd
      /\ \A j \in Slots : InUse(j) => fdtab'[clients[j].fd] = fdtab[clients[j].fd]
  BY <1>4 DEF CoreInv, DescriptorsExact, ConnOf
<1>7. /\ \A j \in Slots : InUse(j)' = InUse(j)
      /\ \A j \in Slots : InUse(j) => ConnOf(j)' = ConnOf(j)
      /\ Members' = Members
  BY <1>5, <1>6 DEF InUse, ConnOf, Members
<1>8. CoreTypeOK'
  BY <1>1, <1>3, <1>4, <1>5 DEF CoreInv, CoreTypeOK, Running
<1>9. DescriptorsExact'
  <2>1. \A j \in Slots : clients[j].fd # fd
    BY <1>5, <1>6 DEF InUse
  <2>2. \A g \in FDS : fdtab'[g] # NoConn => g = newfd' \/ \E j \in Slots : clients'[j].fd = g
    BY <1>4, <1>5 DEF CoreInv, DescriptorsExact
  <2>3. QED
    BY <1>4, <1>5, <1>6, <1>7, <2>1, <2>2 DEF CoreInv, DescriptorsExact, Running
<1>10. ConnectionsExact'
  <2>1. \A f, g \in FDS : fdtab'[f] # NoConn /\ fdtab'[f] = fdtab'[g] => f = g
    <3>1. \A f, g \in FDS : fdtab[f] # NoConn /\ fdtab[f] = fdtab[g] => f = g
      BY DEF CoreInv, ConnectionsExact
    <3>2. QED
      BY <3>1, <1>4
  <2>2. \A g \in FDS : fdtab'[g] # NoConn => link'[fdtab'[g]] \notin {"idle", "closed"}
    BY <1>1, <1>4, <1>5 DEF CoreInv, ConnectionsExact
  <2>3. ASSUME NEW k \in 1..Len(backlog')
        PROVE  /\ link'[backlog'[k]] \notin {"idle", "closed"}
               /\ \A g \in FDS : fdtab'[g] # backlog'[k]
               /\ \A j \in 1..Len(backlog') : backlog'[j] = backlog'[k] => j = k
    <3>1. k + 1 \in 1..Len(backlog) /\ backlog'[k] = backlog[k + 1] /\ backlog[k + 1] # c
      BY <1>1 DEF CoreInv, ConnectionsExact
    <3>2. \A j \in 1..Len(backlog') : j + 1 \in 1..Len(backlog) /\ backlog'[j] = backlog[j + 1]
      BY <1>1
    <3>3. QED
      BY <3>1, <3>2, <1>4, <1>5 DEF CoreInv, ConnectionsExact
  <2>4. QED
    BY <2>1, <2>2, <2>3 DEF ConnectionsExact
<1>11. /\ \A k \in 1..Len(log) : c \notin log[k].to
       /\ \A d \in Conn : \A k \in got[d] : k \in 1..Len(log) /\ d \in log[k].to
       /\ \A k \in 1..Len(log) : log[k].to \in SUBSET Conn
  <2>1. \A k \in 1..Len(log) : log[k] \in Event
    BY DEF CoreInv, CoreTypeOK
  <2>2. QED
    BY <2>1, <1>1 DEF CoreInv, WritesPending, NothingMisdirected, Event
<1>12. WritesPending'
  <2>1. link[c] # "idle" /\ \A j \in 1..Len(backlog') : backlog'[j] # c
    BY <1>1 DEF CoreInv, ConnectionsExact
  <2>2. \A k \in 1..Len(log') : \A d \in log'[k].to :
          link'[d] # "idle" /\ \A j \in 1..Len(backlog') : backlog'[j] # d
    <3> SUFFICES ASSUME NEW k \in 1..Len(log'), NEW d \in log'[k].to
                 PROVE  link'[d] # "idle" /\ \A j \in 1..Len(backlog') : backlog'[j] # d
      OBVIOUS
    <3>1. \A j \in 1..Len(backlog') : j + 1 \in 1..Len(backlog) /\ backlog'[j] = backlog[j + 1]
      BY <1>1
    <3>2. CASE k \in 1..Len(log)
      BY <3>1, <3>2, <1>3, <1>5 DEF CoreInv, WritesPending
    <3>3. CASE k = Len(log) + 1
      BY <3>3, <2>1, <1>2, <1>3, <1>5
    <3>4. QED
      BY <3>2, <3>3, <1>3
  <2>3. log'[Len(log')].to = {fdtab'[newfd']} /\ got'[fdtab'[newfd']] = {} /\ Len(log') > 0
    <3>1. got[c] = {}
      <4> SUFFICES ASSUME NEW k \in got[c] PROVE FALSE
        OBVIOUS
      <4>1. QED
        BY <1>11
    <3>2. fdtab'[newfd'] = c /\ got' = got
      BY <1>4, <1>5
    <3>3. log'[Len(log')] = e /\ Len(log') > 0
      BY <1>3
    <3>4. QED
      BY <3>1, <3>2, <3>3, <1>2, Zenon
  <2>4. \A j \in Slots : out'[j] = 0
    BY <1>5 DEF Quiet
  <2>5. QED
    BY <2>2, <2>3, <2>4 DEF WritesPending, Quiet
<1>13. NothingMisdirected'
  BY <1>3, <1>5, <1>11 DEF NothingMisdirected
<1>14. NothingMissed'
  <2> SUFFICES ASSUME NEW d \in Members, link[d] = "open"
               PROVE  {k \in 1..Len(log') : d \in log'[k].to} = got[d] \cup Owed(d)'
    BY <1>5, <1>7 DEF NothingMissed
  <2>1. {k \in 1..Len(log) : d \in log[k].to} = got[d] \cup Owed(d)
    BY <1>5 DEF CoreInv, NothingMissed, Running
  <2>2. Owed(d) = {} /\ Owed(d)' = {}
    BY <1>5 DEF Owed, Quiet
  <2>3. d # c
    BY <1>4, ConstantsAssumption DEF Members, ConnOf, CoreInv, DescriptorsExact
  <2>4. {k \in 1..Len(log') : d \in log'[k].to} = {k \in 1..Len(log) : d \in log[k].to}
    <3>1. d \notin log'[Len(log) + 1].to
      BY <1>2, <1>3, <2>3
    <3>2. \A k : k \in 1..Len(log') <=> k \in 1..Len(log) \/ k = Len(log) + 1
      BY <1>3
    <3>3. QED
      BY <3>1, <3>2, <1>3
  <2>5. got[d] \cup Owed(d) = got[d] \cup Owed(d)'
    BY <2>2
  <2>6. QED
    BY <2>1, <2>4, <2>5, Zenon
<1>15. QED
  BY <1>8, <1>9, <1>10, <1>12, <1>13, <1>14 DEF CoreInv

(* The connection that was refused is told and closed *)
LEMMA RefuseCore ==
  ASSUME CoreInv, Refuse
  PROVE  CoreInv'
<1> USE ConstantsAssumption
<1> DEFINE c == fdtab[newfd]
<1>1. /\ pc = "refuse" /\ pc' = "wait" /\ newfd \in FDS /\ newfd' = -1 /\ c \in Conn /\ Quiet
      /\ UNCHANGED <<idx, clients, out, backlog, stalled, sent, log, now>>
  BY DEF Refuse, CoreInv, CoreTypeOK, DescriptorsExact, WritesPending, Running
<1>2. /\ fdtab' = [fdtab EXCEPT ![newfd] = NoConn]
      /\ link' = [link EXCEPT ![c] = "closed"]
      /\ lines' = [lines EXCEPT ![c] = <<>>]
      /\ got' = [got EXCEPT ![c] = @ \cup {Len(log)}] \/ got' = got
  BY DEF Refuse
<1>3. Len(log) \in Nat /\ Len(log) \in 1..Len(log) /\ c \in log[Len(log)].to
  BY <1>1 DEF CoreInv, CoreTypeOK, WritesPending
<1>4. CoreTypeOK'
  <2>1. fdtab' \in [FDS -> Conn \cup {NoConn}] /\ link' \in [Conn -> Links]
    BY <1>1, <1>2 DEF CoreInv, CoreTypeOK, Links
  <2>2. lines' \in [Conn -> Seq(Line)]
    BY <1>1, <1>2 DEF CoreInv, CoreTypeOK
  <2>3. got' \in [Conn -> SUBSET Nat]
    <3>1. got \in [Conn -> SUBSET Nat]
      BY DEF CoreInv, CoreTypeOK
    <3>2. got[c] \cup {Len(log)} \in SUBSET Nat
      BY <3>1, <1>1, <1>3
    <3>3. QED
      BY <3>1, <3>2, <1>2
  <2>4. QED
    BY <1>1, <2>1, <2>2, <2>3 DEF CoreInv, CoreTypeOK, Running
<1>5. /\ fdtab'[newfd] = NoConn /\ \A g \in FDS : g # newfd => fdtab'[g] = fdtab[g] /\ fdtab[g] # c
      /\ link'[c] = "closed" /\ link[c] # "closed" /\ link[c] # "idle"
      /\ \A d \in Conn : d # c => link'[d] = link[d] /\ got'[d] = got[d]
  <2>1. /\ fdtab \in [FDS -> Conn \cup {NoConn}] /\ link \in [Conn -> Links]
        /\ got \in [Conn -> SUBSET Nat] /\ c # NoConn
    BY <1>1 DEF CoreInv, CoreTypeOK
  <2>2. /\ \A f, g \in FDS : fdtab[f] # NoConn /\ fdtab[f] = fdtab[g] => f = g
        /\ link[c] \notin {"idle", "closed"}
    BY <1>1, <2>1 DEF CoreInv, ConnectionsExact
  <2>3. fdtab'[newfd] = NoConn /\ \A g \in FDS : g # newfd => fdtab'[g] = fdtab[g] /\ fdtab[g] # c
    BY <1>1, <1>2, <2>1, <2>2
  <2>4. link'[c] = "closed" /\ \A d \in Conn : d # c => link'[d] = link[d] /\ got'[d] = got[d]
    BY <1>1, <1>2, <2>1
  <2>5. QED
    BY <2>2, <2>3, <2>4
<1>6. \A j \in Slots : clients[j].fd # newfd
  BY <1>1 DEF CoreInv, DescriptorsExact
<1>7. /\ \A j \in Slots : InUse(j)' = InUse(j)
      /\ \A j \in Slots : InUse(j) => ConnOf(j)' = ConnOf(j) /\ ConnOf(j) # c /\ ConnOf(j) \in Conn
      /\ Members' = Members /\ c \notin Members
  <2>1. \A j \in Slots : InUse(j)' = InUse(j)
    BY <1>1 DEF InUse
  <2>2. \A j \in Slots : InUse(j) => ConnOf(j)' = ConnOf(j) /\ ConnOf(j) # c /\ ConnOf(j) \in Conn
    <3> SUFFICES ASSUME NEW j \in Slots, InUse(j)
                 PROVE  ConnOf(j)' = ConnOf(j) /\ ConnOf(j) # c /\ ConnOf(j) \in Conn
      OBVIOUS
    <3>1. clients[j].fd \in FDS /\ clients[j].fd # newfd /\ ConnOf(j) \in Conn
      BY <1>6 DEF CoreInv, DescriptorsExact
    <3>2. fdtab'[clients[j].fd] = fdtab[clients[j].fd] /\ fdtab[clients[j].fd] # c
      BY <3>1, <1>5
    <3>3. QED
      BY <3>1, <3>2, <1>1 DEF ConnOf
  <2>3. QED
    BY <2>1, <2>2 DEF Members
<1>8. DescriptorsExact'
  <2>1. /\ \A j \in Slots : InUse(j) => clients[j].fd \in FDS
        /\ \A j, k \in Slots : InUse(j) /\ InUse(k) /\ clients[j].fd = clients[k].fd => j = k
        /\ \A g \in FDS : fdtab[g] # NoConn => g = newfd \/ \E j \in Slots : clients[j].fd = g
    BY DEF CoreInv, DescriptorsExact
  <2>2. \A g \in FDS : fdtab'[g] # NoConn => \E j \in Slots : clients'[j].fd = g
    BY <1>1, <1>5, <2>1
  <2>3. \A j \in Slots : InUse(j)' => clients'[j].fd \in FDS /\ ConnOf(j)' \in Conn
    BY <1>1, <1>7, <2>1
  <2>4. \A j, k \in Slots : InUse(j)' /\ InUse(k)' /\ clients'[j].fd = clients'[k].fd => j = k
    BY <1>1, <1>7, <2>1
  <2>5. QED
    BY <1>1, <2>2, <2>3, <2>4 DEF DescriptorsExact
<1>9. ConnectionsExact'
  <2>1. \A k \in 1..Len(backlog) : backlog[k] # c /\ backlog[k] \in Conn
    BY <1>1 DEF CoreInv, CoreTypeOK, ConnectionsExact
  <2>2. \A f, g \in FDS : fdtab'[f] # NoConn /\ fdtab'[f] = fdtab'[g] => f = g
    BY <1>5 DEF CoreInv, ConnectionsExact
  <2>3. \A fd \in FDS : fdtab[fd] \in Conn \cup {NoConn}
    BY DEF CoreInv, CoreTypeOK
  <2>4. \A g \in FDS : fdtab'[g] # NoConn => link'[fdtab'[g]] \notin {"idle", "closed"}
    BY <1>5, <2>3 DEF CoreInv, ConnectionsExact
  <2>5. \A k \in 1..Len(backlog') :
          /\ link'[backlog'[k]] \notin {"idle", "closed"}
          /\ \A g \in FDS : fdtab'[g] # backlog'[k]
          /\ \A j \in 1..Len(backlog') : backlog'[j] = backlog'[k] => j = k
    BY <1>1, <1>5, <2>1 DEF CoreInv, ConnectionsExact
  <2>6. QED
    BY <2>2, <2>4, <2>5 DEF ConnectionsExact
<1>10. WritesPending'
  <2>1. \A k \in 1..Len(log) : log[k] \in Event
    BY DEF CoreInv, CoreTypeOK
  <2>2. \A k \in 1..Len(log') : \A d \in log'[k].to :
          link'[d] # "idle" /\ \A j \in 1..Len(backlog') : backlog'[j] # d
    BY <1>1, <1>5, <2>1 DEF CoreInv, WritesPending, Event
  <2>3. QED
    BY <1>1, <2>2 DEF WritesPending, Quiet
<1>11. NothingMisdirected'
  <2>1. got'[c] = got[c] \cup {Len(log)} \/ got'[c] = got[c]
    BY <1>1, <1>2 DEF CoreInv, CoreTypeOK
  <2>2. QED
    BY <2>1, <1>1, <1>3, <1>5 DEF CoreInv, NothingMisdirected
<1>12. NothingMissed'
  <2> SUFFICES ASSUME NEW d \in Members, link'[d] = "open"
               PROVE  {k \in 1..Len(log) : d \in log[k].to} = got'[d] \cup Owed(d)'
    BY <1>1, <1>7 DEF NothingMissed
  <2>1. d \in Conn /\ d # c
    BY <1>7, MembersAreConnections
  <2>2. {k \in 1..Len(log) : d \in log[k].to} = got[d] \cup Owed(d)
    BY <1>1, <1>5, <2>1 DEF CoreInv, NothingMissed, Running
  <2>3. Owed(d) = {} /\ Owed(d)' = {}
    BY <1>1 DEF Owed, Quiet
  <2>4. QED
    BY <1>5, <2>1, <2>2, <2>3
<1>13. QED
  BY <1>4, <1>8, <1>9, <1>10, <1>11, <1>12 DEF CoreInv
-----------------------------------------------------------------------------
(* read() returned 0 or -1: the slot is freed, the others are told *)
LEMMA DisconnectCore ==
  ASSUME CoreInv, NEW i \in Slots, InUse(i), pc = "scan", Quiet, Disconnect(i)
  PROVE  CoreInv'
<1> USE ConstantsAssumption
<1>1. PICK c \in Conn : c = ConnOf(i) /\ c = fdtab[clients[i].fd] /\ clients[i].fd \in FDS
  BY DEF CoreInv, DescriptorsExact, ConnOf
<1> DEFINE fd == clients[i].fd
           e  == Note("disconnected", c, clients[i].name, 0, Members \ {c})
<1>2. e \in Event /\ e.to = Members \ {c}
  <2>1. clients[i].name \in Names
    BY DEF CoreInv, CoreTypeOK, Client
  <2>2. /\ "disconnected" \in Kinds /\ c \in Conn \cup {NoConn} /\ 0 \in Nat
        /\ clients[i].name \in Names \cup {NoConn} /\ Members \ {c} \in SUBSET Conn
    BY <2>1, MembersAreConnections DEF Kinds
  <2>3. QED
    BY <2>2, NoteIsEvent
<1>3. /\ log' = Append(log, e) /\ log' \in Seq(Event) /\ Len(log') = Len(log) + 1 /\ Len(log) \in Nat
  BY <1>1, <1>2, LogGrows DEF Disconnect
<1>4. /\ clients' \in [Slots -> Client] /\ clients'[i].fd = -1
      /\ \A j \in Slots : j # i => clients'[j] = clients[j]
  BY DEF Disconnect, CoreInv, CoreTypeOK, Client
<1>5. /\ out' \in [Slots -> Nat]
      /\ \A j \in Slots : out'[j] = IF clients'[j].fd # -1 THEN Len(log) + 1 ELSE 0
  BY <1>3, <1>4 DEF Disconnect, Broadcast, Client
<1>6. /\ fdtab' = [fdtab EXCEPT ![fd] = NoConn] /\ fdtab' \in [FDS -> Conn \cup {NoConn}]
      /\ link' = [link EXCEPT ![c] = "closed"] /\ link' \in [Conn -> Links]
  BY <1>1 DEF Disconnect, CoreInv, CoreTypeOK, Links
<1>7. /\ fdtab'[fd] = NoConn
      /\ \A g \in FDS : g # fd => fdtab'[g] = fdtab[g] /\ fdtab[g] # c
      /\ link'[c] = "closed" /\ link[c] # "idle" /\ link[c] # "closed"
      /\ \A d \in Conn : d # c => link'[d] = link[d]
  <2>1. fdtab \in [FDS -> Conn \cup {NoConn}] /\ link \in [Conn -> Links] /\ c # NoConn
    BY <1>1 DEF CoreInv, CoreTypeOK
  <2>2. \A g \in FDS : fdtab[g] = c => g = fd
    BY <1>1, <2>1 DEF CoreInv, ConnectionsExact
  <2>3. link[c] # "idle" /\ link[c] # "closed"
    BY <1>1, <2>1 DEF CoreInv, ConnectionsExact
  <2>4. QED
    BY <1>1, <1>6, <2>1, <2>2, <2>3
<1>8. /\ idx' = i + 1 /\ newfd = -1 /\ idx' \in 1..MAX_CLIENTS + 1
      /\ UNCHANGED <<pc, newfd, backlog, stalled, lines, sent, got, now>>
  BY DEF Disconnect, CoreInv, DescriptorsExact, Running, Slots
<1>9. CoreTypeOK'
  BY <1>3, <1>4, <1>5, <1>6, <1>8 DEF CoreInv, CoreTypeOK
<1>10. /\ ~InUse(i)'
       /\ \A j \in Slots : j # i => InUse(j)' = InUse(j)
       /\ \A j \in Slots : j # i /\ InUse(j) =>
            ConnOf(j)' = ConnOf(j) /\ clients'[j].fd = clients[j].fd /\ clients[j].fd # fd /\ ConnOf(j) # c
  BY <1>1, <1>4, <1>7 DEF CoreInv, DescriptorsExact, InUse, ConnOf
<1>11. DescriptorsExact'
  <2>1. \A j \in Slots : InUse(j)' => clients'[j].fd \in FDS /\ ConnOf(j)' \in Conn
    BY <1>10 DEF CoreInv, DescriptorsExact
  <2>2. \A j, k \in Slots : InUse(j)' /\ InUse(k)' /\ clients'[j].fd = clients'[k].fd => j = k
    BY <1>10 DEF CoreInv, DescriptorsExact
  <2>3. \A g \in FDS : fdtab'[g] # NoConn => \E j \in Slots : clients'[j].fd = g
    <3> SUFFICES ASSUME NEW g \in FDS, fdtab'[g] # NoConn
                 PROVE  \E j \in Slots : clients'[j].fd = g
      OBVIOUS
    <3>1. g # fd /\ fdtab[g] # NoConn
      BY <1>7
    <3>2. PICK j \in Slots : clients[j].fd = g
      BY <3>1, <1>8 DEF CoreInv, DescriptorsExact
    <3>3. QED
      BY <3>1, <3>2, <1>4
  <2>4. QED
    BY <2>1, <2>2, <2>3, <1>8 DEF DescriptorsExact, Running
<1>12. ConnectionsExact'
  <2>1. \A k \in 1..Len(backlog) : backlog[k] # c /\ backlog[k] \in Conn
    <3>1. \A k \in 1..Len(backlog) : backlog[k] \in Conn
      BY DEF CoreInv, CoreTypeOK
    <3>2. \A k \in 1..Len(backlog) : \A g \in FDS : fdtab[g] # backlog[k]
      BY DEF CoreInv, ConnectionsExact
    <3>3. QED
      BY <3>1, <3>2, <1>1
  <2>2. \A f, g \in FDS : fdtab'[f] # NoConn /\ fdtab'[f] = fdtab'[g] => f = g
    BY <1>7 DEF CoreInv, ConnectionsExact
  <2>3. \A g \in FDS : fdtab[g] \in Conn \cup {NoConn}
    BY DEF CoreInv, CoreTypeOK
  <2>4. \A g \in FDS : fdtab'[g] # NoConn => link'[fdtab'[g]] \notin {"idle", "closed"}
    BY <1>7, <2>3 DEF CoreInv, ConnectionsExact
  <2>5. \A k \in 1..Len(backlog') :
          /\ link'[backlog'[k]] \notin {"idle", "closed"}
          /\ \A g \in FDS : fdtab'[g] # backlog'[k]
          /\ \A j \in 1..Len(backlog') : backlog'[j] = backlog'[k] => j = k
    BY <1>7, <1>8, <2>1 DEF CoreInv, ConnectionsExact
  <2>6. QED
    BY <2>2, <2>4, <2>5 DEF ConnectionsExact
<1>13. Members' = Members \ {c}
  <2>1. ASSUME NEW d \in Members' PROVE d \in Members \ {c}
    <3>1. PICK j \in Slots : InUse(j)' /\ d = ConnOf(j)'
      BY DEF Members
    <3>2. j # i /\ InUse(j) /\ d = ConnOf(j) /\ d # c
      BY <3>1, <1>10
    <3>3. QED
      BY <3>2 DEF Members
  <2>2. ASSUME NEW d \in Members, d # c PROVE d \in Members'
    <3>1. PICK j \in Slots : InUse(j) /\ d = ConnOf(j)
      BY DEF Members
    <3>2. InUse(j)' /\ d = ConnOf(j)'
      BY <3>1, <2>2, <1>1, <1>10
    <3>3. QED
      BY <3>2 DEF Members
  <2>3. QED
    BY <2>1, <2>2
<1>14. \A j \in Slots : out'[j] = IF InUse(j)' /\ ConnOf(j)' \in e.to THEN Len(log) + 1 ELSE 0
  BY <1>2, <1>5, <1>13 DEF InUse, Members
<1>15. WritesPending' /\ NothingMisdirected' /\ NothingMissed'
  BY <1>2, <1>3, <1>7, <1>8, <1>9, <1>11, <1>12, <1>13, <1>14, Publish DEF Running
<1>16. QED
  BY <1>9, <1>11, <1>12, <1>15 DEF CoreInv

-----------------------------------------------------------------------------
(* A line.  None of the four reactions touches a descriptor. *)
LEMMA LineFacts ==
  ASSUME CoreInv, NEW i \in Slots, InUse(i), pc = "scan", ReadLine(i)
  PROVE  /\ lines' \in [Conn -> Seq(Line)] /\ idx' \in 1..MAX_CLIENTS + 1
         /\ ConnOf(i) \in Conn /\ ConnOf(i) \in Members
         /\ Head(lines[ConnOf(i)]) \in Line /\ newfd = -1
         /\ UNCHANGED <<pc, newfd, fdtab, backlog, link, stalled, sent, got, now>>
<1>1. ConnOf(i) \in Conn /\ ConnOf(i) \in Members /\ newfd = -1
  BY DEF CoreInv, DescriptorsExact, Members, Running
<1>2. PICK k \in 1..Len(lines[ConnOf(i)]) :
        lines' = [lines EXCEPT ![ConnOf(i)] = SubSeq(@, k + 1, Len(@))]
  BY DEF ReadLine
<1>3. lines[ConnOf(i)] \in Seq(Line) /\ lines[ConnOf(i)] # <<>>
  BY <1>1 DEF ReadLine, CoreInv, CoreTypeOK
<1>4. SubSeq(lines[ConnOf(i)], k + 1, Len(lines[ConnOf(i)])) \in Seq(Line)
  BY <1>3, SubSeqProperties
<1>5. lines' \in [Conn -> Seq(Line)]
  BY <1>2, <1>4 DEF CoreInv, CoreTypeOK
<1>6. idx' \in 1..MAX_CLIENTS + 1
  BY ConstantsAssumption DEF ReadLine, Slots
<1>7. QED
  BY <1>1, <1>3, <1>5, <1>6 DEF ReadLine

(* What no reaction to a line can change *)
LEMMA LineFrame ==
  ASSUME CoreInv, NEW i \in Slots, InUse(i), pc = "scan", ReadLine(i),
         \A j \in Slots : clients'[j].fd = clients[j].fd
  PROVE  /\ DescriptorsExact' /\ ConnectionsExact' /\ Members' = Members
         /\ \A j \in Slots : InUse(j)' = InUse(j) /\ ConnOf(j)' = ConnOf(j)
<1>1. UNCHANGED <<pc, newfd, fdtab, backlog, link>>
  BY DEF ReadLine
<1>2. \A j \in Slots : InUse(j)' = InUse(j) /\ ConnOf(j)' = ConnOf(j)
  BY <1>1 DEF InUse, ConnOf
<1>3. Members' = Members
  BY <1>2 DEF Members
<1>4. DescriptorsExact'
  BY <1>1, <1>2 DEF CoreInv, DescriptorsExact
<1>5. ConnectionsExact'
  BY <1>1 DEF CoreInv, ConnectionsExact
<1>6. QED
  BY <1>2, <1>3, <1>4, <1>5

(* A rename goes to all members, a bad name back to the sender *)
LEMMA RenameCore ==
  ASSUME CoreInv, NEW i \in Slots, InUse(i), pc = "scan", Quiet, ReadLine(i),
         NEW line \in Line, Rename(i, line) \/ BadName(i, line)
  PROVE  CoreInv'
<1> USE ConstantsAssumption
<1>1. /\ lines' \in [Conn -> Seq(Line)] /\ idx' \in 1..MAX_CLIENTS + 1
      /\ ConnOf(i) \in Conn /\ ConnOf(i) \in Members /\ newfd = -1
      /\ UNCHANGED <<pc, newfd, fdtab, backlog, link, stalled, sent, got, now>>
  BY LineFacts
<1>2. line.n \in Nat /\ clients[i].name \in Names
  BY DEF Line, CoreInv, CoreTypeOK, Client
<1>3. PICK e \in Event : /\ log' = Append(log, e) /\ e.to \in {Members, {ConnOf(i)}}
                         /\ clients' \in [Slots -> Client]
                         /\ \A j \in Slots : clients'[j].fd = clients[j].fd
                         /\ out' \in [Slots -> Nat]
                         /\ \A j \in Slots : out'[j] = IF InUse(j) /\ ConnOf(j) \in e.to THEN Len(log) + 1 ELSE 0
  <2>1. CASE Rename(i, line)
    <3> DEFINE e == Note("renamed", ConnOf(i), line.cmd, line.n, Members)
    <3>1. /\ "renamed" \in Kinds /\ ConnOf(i) \in Conn \cup {NoConn}
          /\ line.cmd \in Names /\ line.cmd \in Names \cup {NoConn}
          /\ Members \in SUBSET Conn
      BY <2>1, <1>1, MembersAreConnections DEF Kinds, Names, Rename
    <3>2. e \in Event /\ e.to = Members
      BY <3>1, <1>2, NoteIsEvent
    <3>3. log' = Append(log, e) /\ Len(log') = Len(log) + 1 /\ Len(log) \in Nat
      BY <2>1, <3>2, LogGrows DEF Rename
    <3>4. clients' \in [Slots -> Client] /\ \A j \in Slots : clients'[j].fd = clients[j].fd
      <4>1. clients \in [Slots -> Client] /\ clients' = [clients EXCEPT ![i].name = line.cmd]
        BY <2>1 DEF Rename, CoreInv, CoreTypeOK
      <4>2. [clients[i] EXCEPT !.name = line.cmd] \in Client
        BY <4>1, <3>1 DEF Client
      <4>3. clients' \in [Slots -> Client]
        BY <4>1, <4>2
      <4>4. clients'[i].fd = clients[i].fd
        BY <4>1 DEF Client
      <4>5. QED
        BY <4>1, <4>3, <4>4
    <3>5. \A j \in Slots : clients[j].fd # -1 <=> InUse(j) /\ ConnOf(j) \in Members
      BY DEF InUse, Members
    <3>6. out' = [j \in Slots |-> IF clients'[j].fd # -1 /\ clients'[j].fd # -1 THEN Len(log') ELSE 0]
      BY <2>1 DEF Rename, Broadcast
    <3>7. QED
      BY <3>2, <3>3, <3>4, <3>5, <3>6
  <2>2. CASE BadName(i, line)
    <3> DEFINE e == Note("badname", ConnOf(i), clients[i].name, line.n, {ConnOf(i)})
    <3>1. /\ "badname" \in Kinds /\ ConnOf(i) \in Conn \cup {NoConn}
          /\ clients[i].name \in Names \cup {NoConn} /\ {ConnOf(i)} \in SUBSET Conn
      BY <1>1, <1>2 DEF Kinds
    <3>2. e \in Event /\ e.to = {ConnOf(i)}
      BY <3>1, <1>2, NoteIsEvent
    <3>3. log' = Append(log, e) /\ Len(log') = Len(log) + 1 /\ Len(log) \in Nat
      BY <2>2, <3>2, LogGrows DEF BadName
    <3>4. out' = [out EXCEPT ![i] = Len(log')] /\ clients' = clients
      BY <2>2 DEF BadName
    <3>5. out \in [Slots -> Nat] /\ clients \in [Slots -> Client] /\ \A j \in Slots : out[j] = 0
      BY DEF CoreInv, CoreTypeOK, Quiet
    <3>6. \A j \in Slots : InUse(j) /\ ConnOf(j) \in e.to <=> j = i
      BY <3>2, OneSlot
    <3>7. /\ out' \in [Slots -> Nat]
          /\ \A j \in Slots : out'[j] = IF j = i THEN Len(log) + 1 ELSE 0
      BY <3>3, <3>4, <3>5
    <3>8. /\ \A j \in Slots : out'[j] = IF InUse(j) /\ ConnOf(j) \in e.to THEN Len(log) + 1 ELSE 0
          /\ \A j \in Slots : clients'[j].fd = clients[j].fd
          /\ clients' \in [Slots -> Client]
      BY <3>4, <3>5, <3>6, <3>7
    <3>9. QED
      BY <3>2, <3>3, <3>7, <3>8
  <2>3. QED
    BY <2>1, <2>2
<1>4. /\ DescriptorsExact' /\ ConnectionsExact' /\ Members' = Members
      /\ \A j \in Slots : InUse(j)' = InUse(j) /\ ConnOf(j)' = ConnOf(j)
  BY <1>3, LineFrame
<1>5. CoreTypeOK'
  BY <1>1, <1>3, LogGrows DEF CoreInv, CoreTypeOK
<1>6. e.to \subseteq Members'
  BY <1>1, <1>3, <1>4
<1>7. WritesPending' /\ NothingMisdirected' /\ NothingMissed'
  BY <1>1, <1>3, <1>4, <1>5, <1>6, Publish DEF Running
<1>8. QED
  BY <1>4, <1>5, <1>7 DEF CoreInv

(* A line within the cooldown changes nothing but the receive buffer. *)
LEMMA TooSoonCore ==
  ASSUME CoreInv, NEW i \in Slots, InUse(i), pc = "scan", Quiet, ReadLine(i), TooSoon(i)
  PROVE  CoreInv'
<1>1. /\ lines' \in [Conn -> Seq(Line)] /\ idx' \in 1..MAX_CLIENTS + 1 /\ newfd = -1
      /\ UNCHANGED <<pc, newfd, fdtab, backlog, link, stalled, sent, got, now>>
  BY LineFacts
<1>2. UNCHANGED <<clients, out, log>>
  BY DEF TooSoon
<1>3. CoreTypeOK'
  BY <1>1, <1>2 DEF CoreInv, CoreTypeOK
<1>4. /\ DescriptorsExact' /\ ConnectionsExact' /\ Members' = Members
      /\ \A j \in Slots : InUse(j)' = InUse(j) /\ ConnOf(j)' = ConnOf(j)
  BY <1>2, LineFrame
<1>5. WritesPending'
  BY <1>1, <1>2, <1>4 DEF CoreInv, WritesPending, Quiet
<1>6. NothingMisdirected'
  BY <1>1, <1>2 DEF CoreInv, NothingMisdirected
<1>7. NothingMissed'
  <2>1. \A c \in Members : Owed(c)' = Owed(c)
    BY <1>2, <1>4 DEF Owed
  <2>2. QED
    BY <1>1, <1>2, <1>4, <2>1 DEF CoreInv, NothingMissed
<1>8. QED
  BY <1>3, <1>4, <1>5, <1>6, <1>7 DEF CoreInv

(* A message: an echo to the sender and a broadcast to everybody else, two  *)
(* entries of the log and for each slot exactly one of them to write        *)
LEMMA SayCore ==
  ASSUME CoreInv, NEW i \in Slots, InUse(i), pc = "scan", Quiet, ReadLine(i),
         NEW line \in Line, Say(i, line)
  PROVE  CoreInv'
<1> USE ConstantsAssumption
<1>1. /\ lines' \in [Conn -> Seq(Line)] /\ idx' \in 1..MAX_CLIENTS + 1
      /\ ConnOf(i) \in Conn /\ ConnOf(i) \in Members /\ newfd = -1
      /\ UNCHANGED <<pc, newfd, fdtab, backlog, link, stalled, sent, got, now>>
  BY LineFacts
<1>2. PICK c \in Conn : c = ConnOf(i)
  BY <1>1
<1> DEFINE you == Note("you", c, clients[i].name, line.n, {c})
           say == Note("say", c, clients[i].name, line.n, Members \ {c})
<1>3. you \in Event /\ say \in Event /\ you.to = {c} /\ say.to = Members \ {c}
  <2>1. line.n \in Nat /\ clients[i].name \in Names \cup {NoConn}
    BY DEF Line, CoreInv, CoreTypeOK, Client
  <2>2. "you" \in Kinds /\ "say" \in Kinds /\ c \in Conn \cup {NoConn}
        /\ {c} \in SUBSET Conn /\ Members \ {c} \in SUBSET Conn
    BY MembersAreConnections DEF Kinds
  <2>3. QED
    BY <2>1, <2>2, NoteIsEvent
<1>4. /\ Len(log) \in Nat /\ Len(log') = Len(log) + 2 /\ log' \in Seq(Event)
      /\ \A k \in 1..Len(log) : log'[k] = log[k]
      /\ log'[Len(log) + 1] = you /\ log'[Len(log) + 2] = say
  <2>1. log \in Seq(Event)
    BY DEF CoreInv, CoreTypeOK
  <2>2. log' = log \o <<you, say>>
    BY <1>2 DEF Say
  <2>3. QED
    BY <1>3, <2>1, <2>2
<1>5. /\ clients' \in [Slots -> Client]
      /\ \A j \in Slots : clients'[j].fd = clients[j].fd
  <2>1. clients \in [Slots -> Client] /\ now \in Int
    BY DEF CoreInv, CoreTypeOK
  <2>2. clients' = [clients EXCEPT ![i] = [@ EXCEPT !.last = now]]
    BY DEF Say
  <2>3. [clients[i] EXCEPT !.last = now] \in Client /\ [clients[i] EXCEPT !.last = now].fd = clients[i].fd
    BY <2>1 DEF Client
  <2>4. QED
    BY <2>1, <2>2, <2>3
<1>6. /\ out' \in [Slots -> Nat] /\ out'[i] = Len(log) + 1
      /\ \A j \in Slots : j # i => out'[j] = IF InUse(j) THEN Len(log) + 2 ELSE 0
  <2>1. \A j \in Slots : clients[j].fd # -1 /\ clients[j].fd # clients[i].fd <=> InUse(j) /\ j # i
    BY DEF InUse, CoreInv, DescriptorsExact
  <2>2. out' = [[j \in Slots |-> IF clients[j].fd # -1 /\ clients[j].fd # clients[i].fd
                                 THEN Len(log') ELSE 0] EXCEPT ![i] = Len(log) + 1]
    BY DEF Say, Broadcast
  <2>3. QED
    BY <1>4, <2>1, <2>2
<1>7. /\ DescriptorsExact' /\ ConnectionsExact' /\ Members' = Members
      /\ \A j \in Slots : InUse(j)' = InUse(j) /\ ConnOf(j)' = ConnOf(j)
  BY <1>5, LineFrame
<1>8. CoreTypeOK'
  BY <1>1, <1>4, <1>5, <1>6 DEF CoreInv, CoreTypeOK
<1>9. \A d \in Conn : \A k \in got[d] : k \in 1..Len(log) /\ d \in log[k].to
  BY DEF CoreInv, NothingMisdirected
<1>10. /\ \A j \in Slots : InUse(j) => ConnOf(j) \in Members /\ ConnOf(j) \in Conn
       /\ \A j \in Slots : InUse(j) /\ j # i => ConnOf(j) # c
  BY <1>2, OneSlot DEF Members, CoreInv, DescriptorsExact
<1>11. WritesPending'
  <2>1. ASSUME NEW j \in Slots, out'[j] # 0
        PROVE  /\ InUse(j)' /\ out'[j] \in 1..Len(log') /\ ConnOf(j)' \in log'[out'[j]].to
               /\ \A k \in got'[ConnOf(j)'] : k < out'[j]
    <3>1. InUse(j) /\ out'[j] = IF j = i THEN Len(log) + 1 ELSE Len(log) + 2
      BY <2>1, <1>6
    <3>2. ConnOf(j) \in log'[out'[j]].to
      BY <3>1, <1>2, <1>3, <1>4, <1>10
    <3>3. \A k \in got[ConnOf(j)] : k < out'[j]
      BY <3>1, <1>4, <1>9, <1>10
    <3>4. QED
      BY <3>1, <3>2, <3>3, <1>1, <1>4, <1>7
  <2>2. \A d \in Members : link[d] # "idle" /\ \A j \in 1..Len(backlog) : backlog[j] # d
    <3>1. ASSUME NEW d \in Members
          PROVE  \E fd \in FDS : fdtab[fd] = d /\ fdtab[fd] # NoConn
      BY DEF CoreInv, DescriptorsExact, Members, ConnOf
    <3>2. QED
      BY <3>1 DEF CoreInv, ConnectionsExact
  <2>3. ASSUME NEW k \in 1..Len(log'), NEW d \in log'[k].to
        PROVE  link'[d] # "idle" /\ \A j \in 1..Len(backlog') : backlog'[j] # d
    <3>1. CASE k \in 1..Len(log)
      BY <3>1, <1>1, <1>4 DEF CoreInv, WritesPending
    <3>2. CASE k \in {Len(log) + 1, Len(log) + 2}
      <4>1. d \in Members
        BY <3>2, <1>1, <1>2, <1>3, <1>4
      <4>2. QED
        BY <4>1, <2>2, <1>1
    <3>3. QED
      BY <3>1, <3>2, <1>4
  <2>4. QED
    BY <2>1, <2>3, <1>1 DEF WritesPending, Running
<1>12. NothingMisdirected'
  BY <1>1, <1>4, <1>9 DEF NothingMisdirected
<1>13. NothingMissed'
  <2> SUFFICES ASSUME NEW d \in Members, link[d] = "open"
               PROVE  {k \in 1..Len(log') : d \in log'[k].to} = got[d] \cup Owed(d)'
    BY <1>1, <1>7 DEF NothingMissed
  <2>1. {k \in 1..Len(log) : d \in log[k].to} = got[d]
    <3>1. Owed(d) = {}
      BY DEF Owed, Quiet
    <3>2. QED
      BY <3>1 DEF CoreInv, NothingMissed, Running
  <2>2. PICK j \in Slots : InUse(j) /\ ConnOf(j) = d
    BY DEF Members
  <2>3. Owed(d)' = {out'[j]}
    <3>1. out'[j] # 0
      BY <2>2, <1>4, <1>6
    <3>2. \A m \in Slots : InUse(m) /\ ConnOf(m) = d <=> m = j
      BY <2>2, OneSlot
    <3>3. QED
      BY <3>1, <3>2, <1>7 DEF Owed
  <2>4. \A k \in 1..Len(log') : d \in log'[k].to <=> (k \in 1..Len(log) /\ d \in log[k].to) \/ k = out'[j]
    <3>1. out'[j] = IF d = c THEN Len(log) + 1 ELSE Len(log) + 2
      BY <2>2, <1>2, <1>6, <1>10
    <3>2. d \in you.to <=> d = c
      BY <1>3
    <3>3. d \in say.to <=> d # c
      BY <1>3
    <3>4. QED
      BY <3>1, <3>2, <3>3, <1>4
  <2>5. out'[j] \in 1..Len(log')
    BY <2>2, <1>4, <1>6
  <2>6. QED
    BY <2>1, <2>3, <2>4, <2>5, <1>4
<1>14. QED
  BY <1>7, <1>8, <1>11, <1>12, <1>13 DEF CoreInv

(* The line handler as a whole: one of the four reactions. *)
LEMMA ReadLineCore ==
  ASSUME CoreInv, NEW i \in Slots, InUse(i), pc = "scan", Quiet, ReadLine(i)
  PROVE  CoreInv'
<1>1. PICK line \in Line : TooSoon(i) \/ Rename(i, line) \/ BadName(i, line) \/ Say(i, line)
  BY LineFacts DEF ReadLine
<1>2. QED
  BY <1>1, TooSoonCore, RenameCore, SayCore
-----------------------------------------------------------------------------
(* What clients, network and clock do *)
LEMMA EnvironmentCore ==
  ASSUME CoreInv, Environment
  PROVE  CoreInv'
<1>1. ASSUME NEW c \in Conn, NEW cmd \in {"text", "badname"} \cup NewNames, SendLine(c, cmd)
      PROVE  CoreInv'
  BY <1>1, SendLineCore
<1>2. ASSUME NEW c \in Conn, Connect(c) \/ ClientCloses(c) \/ RstArrives(c) \/ ClientReads(c)
      PROVE  CoreInv'
  BY <1>2, ConnectCore, ClientClosesCore, NetworkCore
<1>3. QED
  BY <1>1, <1>2, TickCore DEF Environment

(* Nothing at all *)
LEMMA StutterCore ==
  ASSUME CoreInv, UNCHANGED coreVars
  PROVE  CoreInv'
<1>1. UNCHANGED <<pc, idx, clients, out, newfd, netVars, histVars, now>>
  BY DEF coreVars, serverVars
<1>2. /\ now \in Nat /\ idx \in 1..MAX_CLIENTS + 1 /\ pc \in Running \cup Dead \cup {"exit"}
      /\ pc \in Running \ {"refuse"} => newfd = -1
      /\ pc \in Running \ {"scan"} => Quiet
  BY DEF CoreInv, CoreTypeOK, DescriptorsExact, WritesPending
<1>3. QED
  BY <1>1, <1>2, ControlCore

(* What a step of either server is to ChatCore *)
Scanned(i) == pc = "scan" /\ Quiet /\ InUse(i) /\ (Disconnect(i) \/ ReadLine(i))

CoreNext ==
  \/ Listen \/ Woken(TRUE) \/ Woken(FALSE) \/ EndScan({}) \/ Exited
  \/ \E fd \in FDS : AcceptFull(fd) \/ \E i \in Slots : AcceptInto(i, fd)
  \/ Refuse
  \/ \E i \in Slots : WriteSlot(i) \/ SigPipe(i) \/ Scanned(i)
  \/ StartFails \/ SigInt
  \/ Environment
  \/ UNCHANGED coreVars

(* No step of either server breaks the invariant of what they share. *)
LEMMA CoreStep ==
  ASSUME CoreInv, CoreNext
  PROVE  CoreInv'
<1>1. CASE Listen \/ Woken(TRUE) \/ Woken(FALSE)
  BY <1>1, ListenCore, WokenCore
<1>2. CASE EndScan({})
  BY <1>2, EndScanCore DEF EndScan
<1>3. CASE \E fd \in FDS : AcceptFull(fd) \/ \E i \in Slots : AcceptInto(i, fd)
  BY <1>3, AcceptIntoCore, AcceptFullCore
<1>4. CASE Refuse \/ Exited \/ \E i \in Slots : WriteSlot(i) \/ SigPipe(i)
  BY <1>4, RefuseCore, WriteSlotCore, EndingCore
<1>5. CASE \E i \in Slots : Scanned(i)
  BY <1>5, DisconnectCore, ReadLineCore DEF Scanned
<1>6. CASE StartFails \/ SigInt
  BY <1>6, ExitHandlerCore DEF StartFails, SigInt
<1>7. CASE Environment
  BY <1>7, EnvironmentCore
<1>8. CASE UNCHANGED coreVars
  BY <1>8, StutterCore
<1>9. QED
  BY <1>1, <1>2, <1>3, <1>4, <1>5, <1>6, <1>7, <1>8 DEF CoreNext

(* Deliveries to a client follow the order of the log. *)
InOrder == \A c \in Conn : \A k \in got'[c] \ got[c] : \A j \in got[c] : j < k

LEMMA OrderStep ==
  ASSUME CoreInv, CoreNext
  PROVE  InOrder
<1> USE DEF InOrder
<1>1. CASE got' = got
  BY <1>1
<1>2. got \in [Conn -> SUBSET Nat]
  BY DEF CoreInv, CoreTypeOK
<1>3. ASSUME NEW i \in Slots, WriteSlot(i) PROVE InOrder
  <2>1. /\ got' = got \/ got' = [got EXCEPT ![ConnOf(i)] = @ \cup {out[i]}]
        /\ \A j \in got[ConnOf(i)] : j < out[i]
    BY <1>3 DEF WriteSlot, NextOut, Deliver, Lose, CoreInv, WritesPending
  <2>2. QED
    BY <1>2, <2>1
<1>4. CASE Refuse
  <2>1. /\ got' = got \/ got' = [got EXCEPT ![fdtab[newfd]] = @ \cup {Len(log)}]
        /\ got[fdtab[newfd]] = {}
    BY <1>4 DEF Refuse, CoreInv, WritesPending
  <2>2. QED
    BY <1>2, <2>1
<1>5. CASE Environment
  BY <1>1, <1>5 DEF Environment, Connect, SendLine, ClientCloses, RstArrives, ClientReads, Tick, histVars
<1>6. CASE \/ Listen \/ Woken(TRUE) \/ Woken(FALSE) \/ EndScan({}) \/ Exited
           \/ StartFails \/ SigInt \/ UNCHANGED coreVars
  BY <1>1, <1>6 DEF Listen, Woken, EndScan, Exited, StartFails, SigInt, ExitHandler, histVars, coreVars
<1>7. CASE \E fd \in FDS : AcceptFull(fd) \/ \E i \in Slots : AcceptInto(i, fd)
  BY <1>1, <1>7 DEF AcceptInto, AcceptFull, Accepted
<1>8. CASE \E i \in Slots : SigPipe(i) \/ Scanned(i)
  BY <1>1, <1>8 DEF SigPipe, Scanned, Disconnect, ReadLine, histVars
<1>9. QED
  BY <1>3, <1>4, <1>5, <1>6, <1>7, <1>8 DEF CoreNext

-----------------------------------------------------------------------------
(* What makes a connection readable - a line, an end - stays until the      *)
(* server itself reads it or closes it.                                     *)
LEMMA StaysReadable ==
  ASSUME CoreInv, NEW c \in Conn, lines[c] # <<>> \/ Gone(c),
         \/ Environment
         \/ \E i \in Slots : WriteSlot(i)
  PROVE  lines'[c] # <<>> \/ Gone(c)'
<1>1. /\ link \in [Conn -> Links] /\ lines \in [Conn -> Seq(Line)]
      /\ \A i \in Slots : InUse(i) => ConnOf(i) \in Conn
      /\ \A i \in Slots : out[i] # 0 => InUse(i)
  BY DEF CoreInv, CoreTypeOK, DescriptorsExact, WritesPending
<1>2. ASSUME NEW d \in Conn, NEW cmd \in {"text", "badname"} \cup NewNames, SendLine(d, cmd)
      PROVE  lines'[c] # <<>> \/ Gone(c)'
  <2>1. link' = link /\ lines' = [lines EXCEPT ![d] = Append(@, [n |-> sent', cmd |-> cmd])]
    BY <1>2 DEF SendLine
  <2>2. lines'[d] # <<>>
    <3>1. lines[d] \in Seq(Line) /\ [n |-> sent', cmd |-> cmd] \in Line
      <4>1. sent' \in 1..MaxLines
        BY <1>2, ConstantsAssumption DEF SendLine, CoreInv, CoreTypeOK
      <4>2. QED
        BY <4>1, <1>1 DEF Line
    <3>2. Append(lines[d], [n |-> sent', cmd |-> cmd]) # <<>>
      BY <3>1, AppendProperties
    <3>3. QED
      BY <1>1, <2>1, <3>2
  <2>3. QED
    BY <1>1, <2>1, <2>2 DEF Gone
<1>3. ASSUME NEW d \in Conn, Connect(d) \/ ClientCloses(d) \/ RstArrives(d) \/ ClientReads(d)
      PROVE  lines'[c] # <<>> \/ Gone(c)'
  BY <1>1, <1>3 DEF Connect, ClientCloses, RstArrives, ClientReads, Gone
<1>4. CASE Tick
  BY <1>4 DEF Tick, netVars, Gone
<1>5. ASSUME NEW i \in Slots, WriteSlot(i)
      PROVE  lines'[c] # <<>> \/ Gone(c)'
  <2>1. ConnOf(i) \in Conn /\ lines' = lines
    BY <1>1, <1>5 DEF WriteSlot, NextOut
  <2>2. QED
    BY <1>1, <1>5, <2>1 DEF WriteSlot, Deliver, Lose, Gone
<1>6. QED
  BY <1>2, <1>3, <1>4, <1>5 DEF Environment

(* Nor do clients, clock, network and writes take it from any slot. *)
LEMMA OutsideSpares ==
  ASSUME CoreInv, NEW j \in Slots, InUse(j), Readable(clients[j].fd),
         Environment \/ \E i \in Slots : WriteSlot(i)
  PROVE  Readable(clients[j].fd)'
<1>1. clients[j].fd \in FDS /\ ConnOf(j) \in Conn /\ LISTENFD \notin FDS /\ NoConn \notin Conn
  BY ConstantsAssumption DEF CoreInv, DescriptorsExact
<1>2. PICK c \in Conn : c = fdtab[clients[j].fd] /\ (lines[c] # <<>> \/ Gone(c))
  BY <1>1 DEF Readable, ConnOf
<1>3. UNCHANGED <<clients, fdtab>>
  BY DEF Environment, Connect, SendLine, ClientCloses, RstArrives, ClientReads, Tick, WriteSlot,
         serverVars, netVars
<1>4. lines'[c] # <<>> \/ Gone(c)'
  BY <1>2, StaysReadable
<1>5. QED
  BY <1>1, <1>2, <1>3, <1>4 DEF Readable, Gone

(* Filling a slot takes nothing from the others. *)
LEMMA AcceptSpares ==
  ASSUME CoreInv, NEW i \in Slots, NEW fd \in FDS, AcceptInto(i, fd),
         NEW j \in Slots, j # i, InUse(j), Readable(clients[j].fd)
  PROVE  clients'[j].fd = clients[j].fd /\ Readable(clients[j].fd)'
<1>1. clients[j].fd \in FDS /\ ConnOf(j) \in Conn /\ LISTENFD \notin FDS /\ NoConn \notin Conn
  BY ConstantsAssumption DEF CoreInv, DescriptorsExact
<1>2. /\ fdtab[fd] = NoConn /\ fdtab' = [fdtab EXCEPT ![fd] = Head(backlog)]
      /\ clients'[j] = clients[j] /\ UNCHANGED <<link, lines>>
  BY DEF AcceptInto, Accepted, LowestFree, CoreInv, CoreTypeOK
<1>3. clients[j].fd # fd
  BY <1>1, <1>2 DEF ConnOf
<1>4. fdtab'[clients[j].fd] = fdtab[clients[j].fd]
  BY <1>2, <1>3
<1>5. QED
  BY <1>1, <1>2, <1>4 DEF Readable, Gone

(* Nor does reading from one slot, or freeing it. *)
LEMMA ScanSpares ==
  ASSUME CoreInv, NEW i \in Slots, InUse(i), Disconnect(i) \/ ReadLine(i),
         NEW j \in Slots, j # i, InUse(j), Readable(clients[j].fd)
  PROVE  clients'[j].fd = clients[j].fd /\ Readable(clients[j].fd)'
<1>1. /\ clients[j].fd \in FDS /\ ConnOf(j) \in Conn /\ LISTENFD \notin FDS /\ NoConn \notin Conn
      /\ clients[i].fd \in FDS /\ clients[i].fd # clients[j].fd /\ ConnOf(i) # ConnOf(j)
      /\ clients \in [Slots -> Client] /\ fdtab \in [FDS -> Conn \cup {NoConn}]
      /\ link \in [Conn -> Links] /\ lines \in [Conn -> Seq(Line)]
  BY OneSlot, ConstantsAssumption DEF CoreInv, CoreTypeOK, DescriptorsExact
<1>2. CASE Disconnect(i)
  <2>1. /\ clients'[j] = clients[j] /\ fdtab'[clients[j].fd] = fdtab[clients[j].fd]
        /\ link'[ConnOf(j)] = link[ConnOf(j)] /\ lines' = lines
    <3>1. /\ clients' = [clients EXCEPT ![i].fd = -1]
          /\ fdtab' = [fdtab EXCEPT ![clients[i].fd] = NoConn]
          /\ link' = [link EXCEPT ![ConnOf(i)] = "closed"]
          /\ lines' = lines
      BY <1>2 DEF Disconnect
    <3>2. clients'[j] = clients[j]
      BY <3>1, <1>1
    <3>3. fdtab'[clients[j].fd] = fdtab[clients[j].fd] /\ link'[ConnOf(j)] = link[ConnOf(j)]
      BY <3>1, <1>1
    <3>4. QED
      BY <3>1, <3>2, <3>3
  <2>2. QED
    BY <1>1, <2>1 DEF Readable, Gone, ConnOf
<1>3. CASE ReadLine(i)
  <2>1. /\ fdtab' = fdtab /\ link' = link /\ lines'[ConnOf(j)] = lines[ConnOf(j)]
    BY <1>1, <1>3 DEF ReadLine
  <2>2. PICK line : TooSoon(i) \/ Rename(i, line) \/ BadName(i, line) \/ Say(i, line)
    BY <1>3 DEF ReadLine
  <2>3. clients'[j].fd = clients[j].fd
    BY <1>1, <2>2 DEF TooSoon, Rename, BadName, Say, Client
  <2>4. QED
    BY <1>1, <2>1, <2>3 DEF Readable, Gone, ConnOf
<1>4. QED
  BY <1>2, <1>3

-----------------------------------------------------------------------------
(* The refinement of ChatRoom *)
Unmentioned(c) == \A k \in 1..Len(log) : log[k].who # c

RoomInv ==
  /\ \A c \in Conn : link[c] = "idle" => Unmentioned(c)
  /\ \A j \in 1..Len(backlog) : Unmentioned(backlog[j])
  /\ pc = "refuse" => \A k \in 1..Len(log) - 1 : fdtab[newfd] \notin log[k].to
  /\ pc = "exit" => \A i \in Slots : out[i] \in {0, Len(log)}

(* What the room sees of the log *)
RoomEvent == [kind : Kinds, who : Conn \cup {NoConn}, to : SUBSET Conn]

LEMMA FunctionIsSeq ==
  ASSUME NEW S, NEW n \in Nat, NEW f \in [1..n -> S]
  PROVE  f \in Seq(S) /\ Len(f) = n
<1>1. f = [i \in 1..n |-> f[i]]
  OBVIOUS
<1>2. [i \in 1..n |-> f[i]] \in Seq(S)
  OBVIOUS
<1>3. Len([i \in 1..n |-> f[i]]) = n
  OBVIOUS
<1>4. QED
  BY <1>1, <1>2, <1>3

LEMMA RoomLogIs ==
  ASSUME NEW l \in Seq(Event)
  PROVE  LET rl == [k \in 1..Len(l) |-> [kind |-> l[k].kind, who |-> l[k].who, to |-> l[k].to]]
         IN  rl \in Seq(RoomEvent) /\ Len(rl) = Len(l)
<1>1. ASSUME NEW k \in 1..Len(l)
      PROVE  [kind |-> l[k].kind, who |-> l[k].who, to |-> l[k].to] \in RoomEvent
  <2>1. l[k] \in Event
    OBVIOUS
  <2>2. l[k].kind \in Kinds /\ l[k].who \in Conn \cup {NoConn} /\ l[k].to \in SUBSET Conn
    BY <2>1 DEF Event
  <2>3. QED
    BY <2>2 DEF RoomEvent
<1>2. Len(l) \in Nat
  OBVIOUS
<1>3. QED
  BY <1>1, <1>2, FunctionIsSeq

(* It grows with the log. *)
LEMMA RoomLogAppend ==
  ASSUME log \in Seq(Event), NEW e \in Event, log' = Append(log, e)
  PROVE  RoomLog' = Append(RoomLog, Room!Event(e.kind, e.who, e.to))
<1> DEFINE r == Room!Event(e.kind, e.who, e.to)
<1>1. r \in RoomEvent
  BY DEF Event, Room!Event, RoomEvent
<1>2. /\ log' \in Seq(Event) /\ Len(log) \in Nat /\ Len(log') = Len(log) + 1
      /\ \A k \in 1..Len(log) : log'[k] = log[k]
      /\ log'[Len(log) + 1] = e
  OBVIOUS
<1>3. RoomLog \in Seq(RoomEvent) /\ Len(RoomLog) = Len(log)
  BY RoomLogIs DEF RoomLog
<1>4. RoomLog' \in Seq(RoomEvent) /\ Len(RoomLog') = Len(log) + 1
  BY <1>2, RoomLogIs DEF RoomLog
<1>5. /\ Append(RoomLog, r) \in Seq(RoomEvent) /\ Len(Append(RoomLog, r)) = Len(log) + 1
      /\ \A k \in 1..Len(log) : Append(RoomLog, r)[k] = RoomLog[k]
      /\ Append(RoomLog, r)[Len(log) + 1] = r
  BY <1>1, <1>2, <1>3
<1>6. \A k \in 1..Len(log) + 1 : RoomLog'[k] = Append(RoomLog, r)[k]
  BY <1>2, <1>5 DEF RoomLog, Room!Event
<1> HIDE DEF r
<1>7. RoomLog' = Append(RoomLog, r)
  BY <1>4, <1>5, <1>6, SeqEqual
<1>8. QED
  BY <1>7 DEF r

(* The room counts as the server does. *)
LEMMA SameCardinality == \A S : Room!Cardinality(S) = Cardinality(S)
  BY DEF Cardinality, Room!Cardinality

(* Members are counted by the slots in use. *)
LEMMA MembersFull ==
  ASSUME CoreInv
  PROVE  /\ (\A j \in Slots : InUse(j)) => Cardinality(Members) = MAX_CLIENTS
         /\ (\E j \in Slots : ~InUse(j)) => Cardinality(Members) < MAX_CLIENTS
<1> DEFINE Used == {j \in Slots : InUse(j)}
           f == [i \in Used |-> ConnOf(i)]
<1>1. IsFiniteSet(Slots) /\ Cardinality(Slots) = MAX_CLIENTS
  BY FS_Interval, ConstantsAssumption DEF Slots
<1>2. /\ IsFiniteSet(Used) /\ Cardinality(Used) <= MAX_CLIENTS
      /\ Cardinality(Used) = MAX_CLIENTS => Used = Slots
  BY <1>1, FS_Subset
<1>3. f \in Surjection(Used, Members)
  BY DEF Surjection, Members
<1>4. f \in Injection(Used, Members)
  BY <1>3, OneSlot DEF Injection, Surjection, IsInjective
<1>5. Cardinality(Members) = Cardinality(Used)
  BY <1>2, <1>3, <1>4, FS_Surjection
<1>6. Cardinality(Used) \in Nat
  BY <1>2, FS_CardinalityType
<1>7. ASSUME \A j \in Slots : InUse(j) PROVE Cardinality(Members) = MAX_CLIENTS
  <2>1. Used = Slots
    BY <1>7
  <2>2. QED
    BY <2>1, <1>1, <1>5
<1>8. ASSUME NEW j \in Slots, ~InUse(j) PROVE Cardinality(Members) < MAX_CLIENTS
  <2>1. Used # Slots
    BY <1>8
  <2>2. Cardinality(Used) # MAX_CLIENTS
    BY <2>1, <1>2
  <2> HIDE DEF Used
  <2>3. QED
    BY <2>2, <1>2, <1>5, <1>6, ConstantsAssumption
<1>9. QED
  BY <1>7, <1>8

-----------------------------------------------------------------------------
(* The start *)
LEMMA InitRoom == CoreInit => Room!Init /\ RoomInv
<1> SUFFICES ASSUME CoreInit PROVE Room!Init /\ RoomInv
  OBVIOUS
<1>1. Members = {} /\ Phase = "open" /\ RoomLog = <<>>
  BY DEF CoreInit, Members, InUse, Phase, RoomLog, Running
<1>2. got = [c \in Conn |-> {}]
  BY DEF CoreInit
<1>3. RoomInv
  BY DEF CoreInit, RoomInv, Unmentioned
<1>4. QED
  BY <1>1, <1>2, <1>3 DEF Room!Init

(* A new entry of the log, told by a connection that was accepted, leaves   *)
(* the rest unmentioned.                                                    *)
LEMMA StaysUnmentioned ==
  ASSUME CoreInv, NEW c \in Conn, Unmentioned(c), NEW e \in Event, e.who # c, log' = Append(log, e)
  PROVE  Unmentioned(c)'
<1>1. /\ Len(log) \in Nat /\ Len(log') = Len(log) + 1
      /\ \A k \in 1..Len(log) : log'[k] = log[k]
      /\ log'[Len(log) + 1] = e
  BY LogGrows
<1>2. QED
  BY <1>1 DEF Unmentioned

(* An entry nobody was told before may be told next. *)
LEMMA DueIs ==
  ASSUME CoreInv, NEW c \in Conn
  PROVE  Room!Due(c) = {k \in 1..Len(log) : c \in log[k].to} \ got[c]
<1>1. log \in Seq(Event) /\ Len(log) \in Nat
  BY DEF CoreInv, CoreTypeOK
<1>2. Len(RoomLog) = Len(log) /\ \A k \in 1..Len(log) : RoomLog[k].to = log[k].to
  BY <1>1, RoomLogIs DEF RoomLog
<1>3. QED
  BY <1>2 DEF Room!Due

LEMMA FreshIs ==
  ASSUME CoreInv, NEW c \in Conn, Unmentioned(c)
  PROVE  Room!Fresh(c)
<1>1. log \in Seq(Event) /\ Len(log) \in Nat
  BY DEF CoreInv, CoreTypeOK
<1>2. Len(RoomLog) = Len(log) /\ \A k \in 1..Len(log) : RoomLog[k].who = log[k].who
  BY <1>1, RoomLogIs DEF RoomLog
<1>3. QED
  BY <1>2 DEF Room!Fresh, Unmentioned

(* A write that reaches its client is the next thing it is due. *)
LEMMA WriteIsHear ==
  ASSUME CoreInv, RoomInv, NEW i \in Slots, WriteSlot(i)
  PROVE  Room!Next \/ UNCHANGED Room!vars
<1> DEFINE c == ConnOf(i)
<1>1. /\ out[i] # 0 /\ InUse(i) /\ c \in Conn /\ out[i] \in 1..Len(log) /\ c \in log[out[i]].to
      /\ \A k \in got[c] : k < out[i]
  BY DEF WriteSlot, NextOut, CoreInv, WritesPending, DescriptorsExact
<1>2. UNCHANGED <<Phase, Members, RoomLog>> /\ pc \notin Dead
  BY DEF WriteSlot, Phase, Members, RoomLog, InUse, ConnOf
<1>3. CASE got' = got
  BY <1>2, <1>3 DEF Room!vars
<1>4. CASE Deliver(c, out[i])
  <2>1. got' = [got EXCEPT ![c] = @ \cup {out[i]}] /\ link[c] = "open"
    BY <1>4 DEF Deliver
  <2>2. out[i] \in Room!Due(c)
    <3>1. out[i] \in Nat /\ out[i] \notin got[c]
      BY <1>1
    <3>2. QED
      BY <1>1, <3>1, DueIs
  <2>3. CASE pc \in Running
    <3>1. Room!Due(c) \subseteq {out[i]}
      <4>1. c \in Members
        BY <1>1 DEF Members
      <4>2. {k \in 1..Len(log) : c \in log[k].to} = got[c] \cup Owed(c)
        BY <2>1, <2>3, <4>1 DEF CoreInv, NothingMissed
      <4>3. Owed(c) = {out[i]}
        BY <1>1, OwedIs
      <4>4. QED
        BY <4>2, <4>3, <1>1, DueIs
    <3>2. \A j \in Room!Due(c) : out[i] <= j
      BY <3>1, <1>1
    <3>3. Room!Hear(c)
      BY <1>2, <2>1, <2>2, <2>3, <3>2 DEF Room!Hear, Phase
    <3>4. QED
      BY <3>3, <1>1 DEF Room!Next
  <2>4. CASE pc = "exit"
    <3>1. out[i] = Len(log) /\ Len(RoomLog) = Len(log)
      BY <2>4, <1>1, RoomLogIs DEF RoomInv, RoomLog, CoreInv, CoreTypeOK
    <3>2. Phase = "closing"
      BY <2>4 DEF Phase, Running
    <3>3. Room!HearLastCall(c)
      BY <1>2, <2>1, <2>2, <3>1, <3>2 DEF Room!HearLastCall
    <3>4. QED
      BY <3>3, <1>1 DEF Room!Next
  <2>5. QED
    BY <2>3, <2>4, <1>2 DEF CoreInv, CoreTypeOK
<1>5. QED
  BY <1>3, <1>4 DEF WriteSlot, Lose

-----------------------------------------------------------------------------
(* What a new entry does to the room's log, and what it leaves unmentioned *)
LEMMA Told ==
  ASSUME CoreInv, NEW kind \in Kinds, NEW who \in Conn \cup {NoConn},
         NEW name \in Names \cup {NoConn}, NEW n \in Nat, NEW to \in SUBSET Conn,
         log' = Append(log, Note(kind, who, name, n, to))
  PROVE  /\ RoomLog' = Append(RoomLog, Room!Event(kind, who, to))
         /\ Len(log) \in Nat /\ Len(log') = Len(log) + 1
         /\ \A k \in 1..Len(log) : log'[k] = log[k]
         /\ \A c \in Conn : Unmentioned(c) /\ c # who => Unmentioned(c)'
<1> DEFINE e == Note(kind, who, name, n, to)
<1>1. e \in Event /\ e.kind = kind /\ e.who = who /\ e.to = to
  BY NoteIsEvent DEF Note
<1>2. log \in Seq(Event)
  BY DEF CoreInv, CoreTypeOK
<1> HIDE DEF e
<1>3. log' = Append(log, e)
  BY DEF e
<1>4. RoomLog' = Append(RoomLog, Room!Event(kind, who, to))
  BY <1>1, <1>2, <1>3, RoomLogAppend
<1>5. \A c \in Conn : Unmentioned(c) /\ c # who => Unmentioned(c)'
  BY <1>1, <1>3, StaysUnmentioned
<1>6. /\ Len(log) \in Nat /\ Len(log') = Len(log) + 1
      /\ \A k \in 1..Len(log) : log'[k] = log[k]
  BY <1>1, <1>3, LogGrows
<1>7. QED
  BY <1>4, <1>5, <1>6

(* The connection accept() returns, and those that wait behind it *)
LEMMA HeadFacts ==
  ASSUME CoreInv, RoomInv, NEW fd \in FDS, Accepted(fd)
  PROVE  /\ Head(backlog) \in Conn /\ Unmentioned(Head(backlog)) /\ link[Head(backlog)] # "idle"
         /\ \A j \in 1..Len(backlog') : /\ backlog'[j] \in Conn /\ backlog'[j] # Head(backlog)
                                        /\ Unmentioned(backlog'[j])
         /\ \A k \in 1..Len(log) : Head(backlog) \notin log[k].to
         /\ fdtab[fd] = NoConn /\ fdtab'[fd] = Head(backlog)
         /\ \A g \in FDS : g # fd => fdtab'[g] = fdtab[g]
         /\ \A i \in Slots : InUse(i) => clients[i].fd # fd /\ ConnOf(i) = fdtab'[clients[i].fd]
<1>1. /\ backlog \in Seq(Conn) /\ backlog # <<>> /\ backlog' = Tail(backlog)
      /\ fdtab' = [fdtab EXCEPT ![fd] = Head(backlog)] /\ fdtab \in [FDS -> Conn \cup {NoConn}]
      /\ fdtab[fd] = NoConn
  BY DEF CoreInv, CoreTypeOK, Accepted, LowestFree
<1>2. /\ 1 \in 1..Len(backlog) /\ Head(backlog) = backlog[1] /\ Head(backlog) \in Conn
      /\ \A j \in 1..Len(backlog') : j + 1 \in 1..Len(backlog) /\ backlog'[j] = backlog[j + 1] /\ j + 1 # 1
  BY <1>1
<1>3. /\ link[backlog[1]] # "idle"
      /\ \A j \in 1..Len(backlog') : backlog'[j] # backlog[1]
  BY <1>2 DEF CoreInv, ConnectionsExact
<1>4. /\ Unmentioned(Head(backlog))
      /\ \A j \in 1..Len(backlog') : Unmentioned(backlog'[j])
  BY <1>2 DEF RoomInv, Unmentioned
<1>5. \A k \in 1..Len(log) : Head(backlog) \notin log[k].to
  BY <1>2 DEF CoreInv, WritesPending
<1>6. \A j \in 1..Len(backlog') : backlog'[j] \in Conn
  BY <1>1, <1>2
<1>7. \A i \in Slots : InUse(i) => clients[i].fd \in FDS /\ fdtab[clients[i].fd] # NoConn
  BY ConstantsAssumption DEF CoreInv, DescriptorsExact, ConnOf
<1>8. QED
  BY <1>1, <1>2, <1>3, <1>4, <1>5, <1>6, <1>7 DEF ConnOf

(* A connection that gets a slot joins. *)
LEMMA AcceptIsJoin ==
  ASSUME CoreInv, RoomInv, NEW i \in Slots, NEW fd \in FDS, AcceptInto(i, fd)
  PROVE  Room!Next /\ RoomInv'
<1>1. Accepted(fd) /\ ~InUse(i) /\ pc = "accept" /\ pc' = "scan" /\ UNCHANGED <<link, got>>
  BY DEF AcceptInto, Accepted, InUse
<1>0. PICK c \in Conn : c = Head(backlog)
  BY <1>1, HeadFacts
<1>2. /\ c \in Conn /\ Unmentioned(c) /\ link[c] # "idle"
      /\ \A j \in 1..Len(backlog') : backlog'[j] \in Conn /\ backlog'[j] # c /\ Unmentioned(backlog'[j])
      /\ fdtab'[fd] = c
      /\ \A j \in Slots : InUse(j) => clients[j].fd # fd /\ ConnOf(j) = fdtab'[clients[j].fd]
  BY <1>0, <1>1, HeadFacts
<1>3. /\ clients'[i].fd = fd /\ fd # -1
      /\ \A j \in Slots : j # i => clients'[j] = clients[j]
  BY ConstantsAssumption DEF AcceptInto, CoreInv, CoreTypeOK
<1>4. Members' = Members \cup {c}
  <2>1. InUse(i)' /\ ConnOf(i)' = c
    BY <1>2, <1>3 DEF InUse, ConnOf
  <2>2. \A j \in Slots : j # i => InUse(j)' = InUse(j) /\ (InUse(j) => ConnOf(j)' = ConnOf(j))
    BY <1>2, <1>3 DEF InUse, ConnOf
  <2>3. QED
    BY <2>1, <2>2, <1>1 DEF Members
<1>5. log' = Append(log, Note("connected", c, c, 0, Members \cup {c}))
  BY <1>0 DEF AcceptInto
<1>6. /\ RoomLog' = Append(RoomLog, Room!Event("connected", c, Members \cup {c}))
      /\ \A d \in Conn : Unmentioned(d) /\ d # c => Unmentioned(d)'
  <2>1. /\ "connected" \in Kinds /\ c \in Conn \cup {NoConn} /\ c \in Names \cup {NoConn}
        /\ 0 \in Nat /\ Members \cup {c} \in SUBSET Conn
    BY <1>2, MembersAreConnections DEF Kinds, Names
  <2>2. QED
    BY <1>5, <2>1, Told
<1>7. Phase = "open" /\ Phase' = "open"
  BY <1>1 DEF Phase, Running
<1>8. Room!Join(c)
  <2>1. Room!Fresh(c)
    BY <1>2, FreshIs
  <2>3. Cardinality(Members) < MAX_CLIENTS
    BY <1>1, MembersFull
  <2>4. Room!Cardinality(Members) < MAX_CLIENTS
    BY <2>3, SameCardinality
  <2>5. RoomLog' = Append(RoomLog, Room!Event("connected", c, Members'))
    BY <1>4, <1>6
  <2>2. QED
    BY <1>1, <1>4, <1>7, <2>1, <2>4, <2>5 DEF Room!Join
<1>9. RoomInv'
  BY <1>1, <1>2, <1>6 DEF RoomInv
<1>10. QED
  BY <1>2, <1>8, <1>9 DEF Room!Next

(* A connection that finds no slot is turned away. *)
LEMMA AcceptIsTurnAway ==
  ASSUME CoreInv, RoomInv, NEW fd \in FDS, AcceptFull(fd)
  PROVE  Room!Next /\ RoomInv'
<1>1. /\ Accepted(fd) /\ (\A j \in Slots : InUse(j)) /\ pc = "accept" /\ pc' = "refuse" /\ newfd' = fd
      /\ UNCHANGED <<clients, link, got>>
  BY DEF AcceptFull, Accepted
<1>0. PICK c \in Conn : c = Head(backlog)
  BY <1>1, HeadFacts
<1>2. /\ c \in Conn /\ Unmentioned(c) /\ link[c] # "idle"
      /\ \A j \in 1..Len(backlog') : backlog'[j] \in Conn /\ backlog'[j] # c /\ Unmentioned(backlog'[j])
      /\ \A k \in 1..Len(log) : c \notin log[k].to
      /\ fdtab'[fd] = c
      /\ \A j \in Slots : InUse(j) => clients[j].fd # fd /\ ConnOf(j) = fdtab'[clients[j].fd]
  BY <1>0, <1>1, HeadFacts
<1>3. Members' = Members
  BY <1>1, <1>2 DEF Members, InUse, ConnOf
<1>4. log' = Append(log, Note("full", c, c, 0, {c}))
  BY <1>0 DEF AcceptFull
<1>5. /\ RoomLog' = Append(RoomLog, Room!Event("full", c, {c}))
      /\ Len(log) \in Nat /\ Len(log') = Len(log) + 1
      /\ \A k \in 1..Len(log) : log'[k] = log[k]
      /\ \A d \in Conn : Unmentioned(d) /\ d # c => Unmentioned(d)'
  <2>1. /\ "full" \in Kinds /\ c \in Conn \cup {NoConn} /\ c \in Names \cup {NoConn}
        /\ 0 \in Nat /\ {c} \in SUBSET Conn
    BY <1>2 DEF Kinds, Names
  <2>2. QED
    BY <1>4, <2>1, Told
<1>6. Phase = "open" /\ Phase' = "open"
  BY <1>1 DEF Phase, Running
<1>7. Room!TurnAway(c)
  <2>1. Room!Fresh(c)
    BY <1>2, FreshIs
  <2>3. Cardinality(Members) = MAX_CLIENTS
    BY <1>1, MembersFull
  <2>4. Room!Cardinality(Members) = MAX_CLIENTS
    BY <2>3, SameCardinality
  <2>2. QED
    BY <1>1, <1>3, <1>5, <1>6, <2>1, <2>4 DEF Room!TurnAway
<1>8. RoomInv'
  BY <1>1, <1>2, <1>5 DEF RoomInv
<1>9. QED
  BY <1>2, <1>7, <1>8 DEF Room!Next

-----------------------------------------------------------------------------
(* A line of the log that tells of a connection in a slot, or of nobody,    *)
(* leaves those unmentioned that have not been accepted.                    *)
LEMMA RoomFrame ==
  ASSUME CoreInv, RoomInv,
         \A c \in Conn : link'[c] = "idle" => link[c] = "idle",
         \A c \in Conn : (link[c] = "idle" \/ \E k \in 1..Len(backlog) : backlog[k] = c) /\ Unmentioned(c)
                           => Unmentioned(c)',
         \A j \in 1..Len(backlog') :
            /\ backlog'[j] \in Conn
            /\ link[backlog'[j]] = "idle" \/ \E k \in 1..Len(backlog) : backlog[k] = backlog'[j],
         pc' # "refuse" \/ (pc = "refuse" /\ UNCHANGED <<fdtab, newfd, log>>),
         pc' # "exit" \/ (pc = "exit" /\ log' = log /\ \A i \in Slots : out'[i] \in {out[i], 0})
                      \/ (\A i \in Slots : out'[i] \in {0, Len(log')})
  PROVE  RoomInv'
<1>1. \A c \in Conn : link'[c] = "idle" => Unmentioned(c)'
  BY DEF RoomInv
<1>2. ASSUME NEW j \in 1..Len(backlog') PROVE Unmentioned(backlog[j])'
  <2>1. PICK c \in Conn : c = backlog'[j] /\ (link[c] = "idle" \/ \E k \in 1..Len(backlog) : backlog[k] = c)
    BY <1>2
  <2>2. Unmentioned(c)
    BY <2>1 DEF RoomInv
  <2>3. Unmentioned(c)'
    BY <2>1, <2>2
  <2>4. QED
    BY <2>1, <2>3 DEF Unmentioned
<1>3. pc' = "refuse" => \A k \in 1..Len(log') - 1 : fdtab'[newfd'] \notin log'[k].to
  BY DEF RoomInv
<1>4. pc' = "exit" => \A i \in Slots : out'[i] \in {0, Len(log')}
  BY DEF RoomInv
<1>5. QED
  BY <1>1, <1>2, <1>3, <1>4 DEF RoomInv

(* The common case: the step tells nobody anything. *)
LEMMA QuietFrame ==
  ASSUME CoreInv, RoomInv, log' = log,
         \A c \in Conn : link'[c] = "idle" => link[c] = "idle",
         \/ backlog' = backlog
         \/ \E c \in Conn : link[c] = "idle" /\ backlog' = Append(backlog, c),
         pc' # "refuse" \/ (pc = "refuse" /\ UNCHANGED <<fdtab, newfd>>),
         pc' # "exit" \/ (pc = "exit" /\ \A i \in Slots : out'[i] \in {out[i], 0})
  PROVE  RoomInv'
<1>1. \A c : Unmentioned(c) => Unmentioned(c)'
  BY DEF Unmentioned
<1>2. backlog \in Seq(Conn)
  BY DEF CoreInv, CoreTypeOK
<1>3. ASSUME NEW j \in 1..Len(backlog')
      PROVE  /\ backlog'[j] \in Conn
             /\ link[backlog'[j]] = "idle" \/ \E k \in 1..Len(backlog) : backlog[k] = backlog'[j]
  <2>1. CASE backlog' = backlog
    BY <1>2, <1>3, <2>1
  <2>2. ASSUME NEW c \in Conn, link[c] = "idle", backlog' = Append(backlog, c)
        PROVE  /\ backlog'[j] \in Conn
               /\ link[backlog'[j]] = "idle" \/ \E k \in 1..Len(backlog) : backlog[k] = backlog'[j]
    BY <1>2, <1>3, <2>2
  <2>3. QED
    BY <2>1, <2>2
<1>4. QED
  BY <1>1, <1>3, RoomFrame

(* A step that leaves slots, descriptors and the log alone is none of the   *)
(* room's.                                                                  *)
LEMMA Unseen ==
  ASSUME UNCHANGED <<clients, fdtab, log, got>>, Phase' = Phase
  PROVE  UNCHANGED Room!vars
  BY DEF Room!vars, Members, RoomLog, InUse, ConnOf

-----------------------------------------------------------------------------
(* The notice to a connection that is turned away is all it is ever due.    *)
LEMMA RefuseIsHear ==
  ASSUME CoreInv, RoomInv, Refuse
  PROVE  (Room!Next \/ UNCHANGED Room!vars) /\ RoomInv'
<1>1. /\ pc = "refuse" /\ pc' = "wait" /\ newfd' = -1 /\ UNCHANGED <<clients, log, backlog>>
      /\ link' = [link EXCEPT ![fdtab[newfd]] = "closed"]
      /\ fdtab' = [fdtab EXCEPT ![newfd] = NoConn]
  BY DEF Refuse
<1>2. /\ newfd # -1 /\ newfd \in FDS
      /\ \A i \in Slots : clients[i].fd # newfd
      /\ \A i \in Slots : InUse(i) => clients[i].fd \in FDS
      /\ link \in [Conn -> Links] /\ fdtab \in [FDS -> Conn \cup {NoConn}]
  BY <1>1 DEF CoreInv, CoreTypeOK, DescriptorsExact
<1>3. PICK c \in Conn : c = fdtab[newfd]
  BY <1>2 DEF CoreInv, DescriptorsExact
<1>4. /\ Len(log) > 0 /\ Len(log) \in Nat /\ log[Len(log)].to = {c} /\ got[c] = {}
      /\ \A k \in 1..Len(log) - 1 : c \notin log[k].to
  BY <1>1, <1>3 DEF CoreInv, CoreTypeOK, WritesPending, RoomInv
<1>5. Members' = Members /\ RoomLog' = RoomLog /\ Phase' = Phase /\ Phase = "open"
  <2>1. \A i \in Slots : InUse(i)' = InUse(i) /\ (InUse(i) => ConnOf(i)' = ConnOf(i))
    BY <1>1, <1>2 DEF InUse, ConnOf
  <2>2. QED
    BY <1>1, <2>1 DEF Members, RoomLog, Phase, Running
<1>6. RoomInv'
  <2>1. \A d \in Conn : link'[d] = "idle" => link[d] = "idle"
    BY <1>1, <1>2
  <2>2. QED
    BY <1>1, <2>1, QuietFrame
<1>7. got' = got \/ got' = [got EXCEPT ![c] = @ \cup {Len(log)}]
  BY <1>3 DEF Refuse
<1>8. CASE got' = got
  BY <1>5, <1>6, <1>8 DEF Room!vars
<1>9. CASE got' = [got EXCEPT ![c] = @ \cup {Len(log)}]
  <2>1. Room!Due(c) = {Len(log)}
    <3>1. {k \in 1..Len(log) : c \in log[k].to} = {Len(log)}
      BY <1>4
    <3>2. QED
      BY <1>4, <3>1, DueIs
  <2>2. Len(log) <= Len(log)
    BY <1>4
  <2>3. Room!Hear(c)
    BY <1>5, <1>9, <2>1, <2>2 DEF Room!Hear
  <2>4. QED
    BY <1>6, <2>3 DEF Room!Next
<1>10. QED
  BY <1>7, <1>8, <1>9

(* The connection of a slot has been accepted. *)
LEMMA SlotAccepted ==
  ASSUME CoreInv, NEW i \in Slots, InUse(i)
  PROVE  /\ ConnOf(i) \in Conn /\ ConnOf(i) \in Members /\ link[ConnOf(i)] # "idle"
         /\ \A k \in 1..Len(backlog) : backlog[k] # ConnOf(i)
<1>1. clients[i].fd \in FDS /\ ConnOf(i) \in Conn /\ fdtab[clients[i].fd] # NoConn
  BY ConstantsAssumption DEF CoreInv, DescriptorsExact, ConnOf
<1>2. ConnOf(i) \in Members
  BY DEF Members
<1>3. QED
  BY <1>1, <1>2 DEF CoreInv, ConnectionsExact, ConnOf

(* What a handler of the scan loop tells is about its own client. *)
LEMMA ScanFrame ==
  ASSUME CoreInv, RoomInv, NEW i \in Slots, InUse(i), pc = "scan", pc' = "scan", backlog' = backlog,
         \A c \in Conn : link'[c] = "idle" => link[c] = "idle",
         \A c \in Conn : Unmentioned(c) /\ c # ConnOf(i) => Unmentioned(c)'
  PROVE  RoomInv'
<1>1. backlog \in Seq(Conn)
  BY DEF CoreInv, CoreTypeOK
<1>2. \A j \in 1..Len(backlog') :
         /\ backlog'[j] \in Conn
         /\ link[backlog'[j]] = "idle" \/ \E k \in 1..Len(backlog) : backlog[k] = backlog'[j]
  BY <1>1
<1>3. \A c \in Conn : (link[c] = "idle" \/ \E k \in 1..Len(backlog) : backlog[k] = c) /\ Unmentioned(c)
                        => Unmentioned(c)'
  BY SlotAccepted
<1>4. QED
  BY <1>2, <1>3, RoomFrame

(* Freeing a slot takes its client out of the room. *)
LEMMA DisconnectIsLeave ==
  ASSUME CoreInv, RoomInv, NEW i \in Slots, InUse(i), pc = "scan", Disconnect(i)
  PROVE  Room!Next /\ RoomInv'
<1>1. PICK c \in Conn : c = ConnOf(i) /\ c \in Members
  BY SlotAccepted
<1>2. /\ fdtab' = [fdtab EXCEPT ![clients[i].fd] = NoConn]
      /\ link' = [link EXCEPT ![c] = "closed"]
      /\ clients' = [clients EXCEPT ![i].fd = -1]
      /\ log' = Append(log, Note("disconnected", c, clients[i].name, 0, Members \ {c}))
      /\ UNCHANGED <<pc, backlog, got>>
  BY <1>1 DEF Disconnect
<1>3. /\ clients'[i].fd = -1 /\ \A j \in Slots : j # i => clients'[j] = clients[j]
      /\ link \in [Conn -> Links] /\ clients[i].name \in Names
      /\ fdtab \in [FDS -> Conn \cup {NoConn}]
  <2>1. clients \in [Slots -> Client] /\ link \in [Conn -> Links] /\ fdtab \in [FDS -> Conn \cup {NoConn}]
    BY DEF CoreInv, CoreTypeOK
  <2>2. clients[i] \in Client
    BY <2>1
  <2>3. QED
    BY <1>2, <2>1, <2>2 DEF Client
<1>4. Members' = Members \ {c}
  <2>1. ~InUse(i)'
    BY <1>3 DEF InUse
  <2>2. ASSUME NEW j \in Slots, j # i, InUse(j)
        PROVE  ConnOf(j)' = ConnOf(j) /\ ConnOf(j) # c
    <3>1. clients[j].fd # clients[i].fd /\ clients[j].fd \in FDS
      BY <2>2 DEF CoreInv, DescriptorsExact
    <3>2. ConnOf(j) # c
      BY <1>1, <2>2, OneSlot
    <3>3. QED
      BY <1>2, <1>3, <2>2, <3>1, <3>2 DEF ConnOf
  <2>3. \A j \in Slots : j # i => InUse(j)' = InUse(j)
    BY <1>3 DEF InUse
  <2>4. QED
    BY <1>1, <2>1, <2>2, <2>3 DEF Members
<1>5. /\ RoomLog' = Append(RoomLog, Room!Event("disconnected", c, Members \ {c}))
      /\ \A d \in Conn : Unmentioned(d) /\ d # c => Unmentioned(d)'
  <2>1. /\ "disconnected" \in Kinds /\ c \in Conn \cup {NoConn} /\ clients[i].name \in Names \cup {NoConn}
        /\ 0 \in Nat /\ Members \ {c} \in SUBSET Conn
    BY <1>3, MembersAreConnections DEF Kinds
  <2>2. QED
    BY <1>2, <2>1, Told
<1>6. Phase = "open" /\ Phase' = "open"
  BY <1>2 DEF Phase, Running
<1>7. RoomLog' = Append(RoomLog, Room!Event("disconnected", c, Members'))
  BY <1>4, <1>5
<1>8. Room!Leave(c)
  BY <1>1, <1>2, <1>4, <1>6, <1>7 DEF Room!Leave
<1>9. RoomInv'
  BY <1>1, <1>2, <1>3, <1>5, ScanFrame
<1>10. QED
  BY <1>8, <1>9 DEF Room!Next

(* The end of the server: the last call, and the close. *)
LEMMA ExitIsLastCall ==
  ASSUME CoreInv, RoomInv, ExitHandler, pc \in Running
  PROVE  Room!Next /\ RoomInv'
<1>1. /\ log' = Append(log, Note("shutdown", NoConn, NoConn, 0, Members))
      /\ out' = Broadcast(clients, Len(log'), -1)
      /\ pc' = "exit" /\ UNCHANGED <<clients, fdtab, link, backlog, got>>
  BY DEF ExitHandler, netVars
<1>2. /\ RoomLog' = Append(RoomLog, Room!Event("shutdown", NoConn, Members))
      /\ \A d \in Conn : Unmentioned(d) => Unmentioned(d)'
  <2>1. /\ "shutdown" \in Kinds /\ NoConn \in Conn \cup {NoConn} /\ NoConn \in Names \cup {NoConn}
        /\ 0 \in Nat /\ Members \in SUBSET Conn /\ NoConn \notin Conn
    BY MembersAreConnections, ConstantsAssumption DEF Kinds
  <2>2. QED
    BY <1>1, <2>1, Told
<1>3. Members' = Members
  BY <1>1 DEF Members, InUse, ConnOf
<1>4. Phase = "open" /\ Phase' = "closing"
  BY <1>1 DEF Phase, Running
<1>5. Room!LastCall
  BY <1>1, <1>2, <1>3, <1>4 DEF Room!LastCall
<1>6. RoomInv'
  <2>1. backlog \in Seq(Conn)
    BY DEF CoreInv, CoreTypeOK
  <2>2. \A j \in 1..Len(backlog') :
           /\ backlog'[j] \in Conn
           /\ link[backlog'[j]] = "idle" \/ \E k \in 1..Len(backlog) : backlog[k] = backlog'[j]
    BY <1>1, <2>1
  <2>3. \A i \in Slots : out'[i] \in {0, Len(log')}
    BY <1>1 DEF Broadcast
  <2>4. QED
    BY <1>1, <1>2, <2>2, <2>3, RoomFrame
<1>7. QED
  BY <1>5, <1>6 DEF Room!Next

LEMMA EndIsClose ==
  ASSUME CoreInv, RoomInv, Exited \/ \E i \in Slots : SigPipe(i)
  PROVE  Room!Next /\ RoomInv'
<1>1. pc \notin Dead /\ pc' \in Dead /\ UNCHANGED <<clients, out, newfd, fdtab, link, backlog, log, got>>
  BY DEF Exited, SigPipe, Dead, netVars, histVars
<1>2. UNCHANGED <<Members, RoomLog>>
  BY <1>1 DEF Members, RoomLog, InUse, ConnOf
<1>3. Phase # "closed" /\ Phase' = "closed"
  BY <1>1 DEF Phase, Dead, Running, CoreInv, CoreTypeOK
<1>4. Room!Close
  BY <1>1, <1>2, <1>3 DEF Room!Close
<1>5. RoomInv'
  BY <1>1, QuietFrame DEF Dead
<1>6. QED
  BY <1>4, <1>5 DEF Room!Next

-----------------------------------------------------------------------------
(* Two entries at once: what is said, and the speaker's copy of it *)
LEMMA ToldTwice ==
  ASSUME CoreInv, NEW a \in Event, NEW b \in Event, log' = log \o <<a, b>>
  PROVE  /\ RoomLog' = RoomLog \o << Room!Event(a.kind, a.who, a.to), Room!Event(b.kind, b.who, b.to) >>
         /\ \A c \in Conn : Unmentioned(c) /\ c # a.who /\ c # b.who => Unmentioned(c)'
<1> DEFINE ra == Room!Event(a.kind, a.who, a.to)
           rb == Room!Event(b.kind, b.who, b.to)
<1>1. ra \in RoomEvent /\ rb \in RoomEvent
  BY DEF Event, Room!Event, RoomEvent
<1>2. log \in Seq(Event)
  BY DEF CoreInv, CoreTypeOK
<1>3. /\ log' \in Seq(Event) /\ Len(log) \in Nat /\ Len(log') = Len(log) + 2
      /\ \A k \in 1..Len(log) : log'[k] = log[k]
      /\ log'[Len(log) + 1] = a /\ log'[Len(log) + 2] = b
  BY <1>2
<1>4. RoomLog \in Seq(RoomEvent) /\ Len(RoomLog) = Len(log)
  BY <1>2, RoomLogIs DEF RoomLog
<1>5. RoomLog' \in Seq(RoomEvent) /\ Len(RoomLog') = Len(log) + 2
  BY <1>3, RoomLogIs DEF RoomLog
<1> HIDE DEF ra, rb
<1>6. /\ RoomLog \o <<ra, rb>> \in Seq(RoomEvent) /\ Len(RoomLog \o <<ra, rb>>) = Len(log) + 2
      /\ \A k \in 1..Len(log) : (RoomLog \o <<ra, rb>>)[k] = RoomLog[k]
      /\ (RoomLog \o <<ra, rb>>)[Len(log) + 1] = ra /\ (RoomLog \o <<ra, rb>>)[Len(log) + 2] = rb
  BY <1>1, <1>3, <1>4
<1>7. \A k \in 1..Len(log) : RoomLog'[k] = RoomLog[k]
  BY <1>3 DEF RoomLog
<1>8. RoomLog'[Len(log) + 1] = ra /\ RoomLog'[Len(log) + 2] = rb
  BY <1>3 DEF RoomLog, ra, rb, Room!Event
<1>9. \A k \in 1..Len(log) + 2 : RoomLog'[k] = (RoomLog \o <<ra, rb>>)[k]
  BY <1>3, <1>6, <1>7, <1>8
<1>10. RoomLog' = RoomLog \o <<ra, rb>>
  BY <1>5, <1>6, <1>9, SeqEqual
<1>11. \A c \in Conn : Unmentioned(c) /\ c # a.who /\ c # b.who => Unmentioned(c)'
  BY <1>3 DEF Unmentioned
<1>12. QED
  BY <1>10, <1>11 DEF ra, rb

(* A line is too soon, a rename, or said. *)
LEMMA ReadLineIsTalk ==
  ASSUME CoreInv, RoomInv, NEW i \in Slots, InUse(i), pc = "scan", ReadLine(i)
  PROVE  (Room!Next \/ UNCHANGED Room!vars) /\ RoomInv'
<1>1. PICK c \in Conn : c = ConnOf(i) /\ c \in Members
  BY SlotAccepted
<1>2. lines[c] # <<>> /\ UNCHANGED <<pc, fdtab, backlog, link, got>>
  BY <1>1 DEF ReadLine
<1>3. PICK line \in Line : TooSoon(i) \/ Rename(i, line) \/ BadName(i, line) \/ Say(i, line)
  <2>1. lines[c] \in Seq(Line)
    BY DEF CoreInv, CoreTypeOK
  <2>2. Head(lines[c]) \in Line
    BY <1>2, <2>1
  <2>3. QED
    BY <1>1, <2>2 DEF ReadLine
<1>4. clients[i] \in Client /\ clients[i].name \in Names /\ line.n \in Nat
  <2>1. clients[i] \in Client /\ line.n \in 1..MaxLines
    BY DEF CoreInv, CoreTypeOK, Line
  <2>2. clients[i].name \in Names
    BY <2>1 DEF Client
  <2>3. QED
    BY <2>1, <2>2, ConstantsAssumption
<1>5. Members' = Members
  <2>1. ASSUME NEW j \in Slots PROVE clients'[j].fd = clients[j].fd
    <3>1. clients \in [Slots -> Client]
      BY DEF CoreInv, CoreTypeOK
    <3>2. CASE TooSoon(i) \/ BadName(i, line)
      BY <3>2 DEF TooSoon, BadName
    <3>3. CASE Rename(i, line)
      BY <3>1, <3>3 DEF Rename, Client
    <3>4. CASE Say(i, line)
      BY <3>1, <3>4 DEF Say, Client
    <3>5. QED
      BY <1>3, <3>2, <3>3, <3>4
  <2>2. QED
    BY <1>2, <2>1 DEF Members, InUse, ConnOf
<1>6. Phase = "open" /\ Phase' = "open"
  BY <1>2 DEF Phase, Running
<1>7. \A d \in Conn : link'[d] = "idle" => link[d] = "idle"
  BY <1>2
<1>8. CASE TooSoon(i)
  <2>1. log' = log
    BY <1>8 DEF TooSoon
  <2>2. RoomInv'
    BY <1>2, <2>1, QuietFrame
  <2>3. RoomLog' = RoomLog
    BY <2>1 DEF RoomLog
  <2>4. QED
    BY <1>2, <1>5, <1>6, <2>2, <2>3 DEF Room!vars
<1>9. CASE Rename(i, line)
  <2>1. log' = Append(log, Note("renamed", c, line.cmd, line.n, Members))
    BY <1>1, <1>9 DEF Rename
  <2>2. /\ RoomLog' = Append(RoomLog, Room!Event("renamed", c, Members))
        /\ \A d \in Conn : Unmentioned(d) /\ d # c => Unmentioned(d)'
    <3>1. /\ "renamed" \in Kinds /\ c \in Conn \cup {NoConn} /\ line.cmd \in Names \cup {NoConn}
          /\ Members \in SUBSET Conn
      BY <1>9, MembersAreConnections DEF Kinds, Names, Rename
    <3>2. QED
      BY <1>4, <2>1, <3>1, Told
  <2>3. Room!Rename(c)
    BY <1>1, <1>2, <1>5, <1>6, <2>2 DEF Room!Rename
  <2>4. RoomInv'
    BY <1>1, <1>2, <1>7, <2>2, ScanFrame
  <2>5. QED
    BY <2>3, <2>4 DEF Room!Next
<1>10. CASE BadName(i, line)
  <2>1. log' = Append(log, Note("badname", c, clients[i].name, line.n, {c}))
    BY <1>1, <1>10 DEF BadName
  <2>2. /\ RoomLog' = Append(RoomLog, Room!Event("badname", c, {c}))
        /\ \A d \in Conn : Unmentioned(d) /\ d # c => Unmentioned(d)'
    <3>1. /\ "badname" \in Kinds /\ c \in Conn \cup {NoConn} /\ clients[i].name \in Names \cup {NoConn}
          /\ {c} \in SUBSET Conn
      BY <1>4 DEF Kinds
    <3>2. QED
      BY <1>4, <2>1, <3>1, Told
  <2>3. Room!Rename(c)
    BY <1>1, <1>2, <1>5, <1>6, <2>2 DEF Room!Rename
  <2>4. RoomInv'
    BY <1>1, <1>2, <1>7, <2>2, ScanFrame
  <2>5. QED
    BY <2>3, <2>4 DEF Room!Next
<1>11. CASE Say(i, line)
  <2> DEFINE a == Note("you", c, clients[i].name, line.n, {c})
             b == Note("say", c, clients[i].name, line.n, Members \ {c})
  <2>1. log' = log \o <<a, b>>
    BY <1>1, <1>11 DEF Say
  <2>2. /\ a \in Event /\ a.kind = "you" /\ a.who = c /\ a.to = {c}
        /\ b \in Event /\ b.kind = "say" /\ b.who = c /\ b.to = Members \ {c}
    <3>1. /\ "you" \in Kinds /\ "say" \in Kinds /\ c \in Conn \cup {NoConn}
          /\ clients[i].name \in Names \cup {NoConn} /\ {c} \in SUBSET Conn /\ Members \ {c} \in SUBSET Conn
      BY <1>4, MembersAreConnections DEF Kinds
    <3>2. a \in Event /\ b \in Event
      BY <1>4, <3>1, NoteIsEvent
    <3>3. QED
      BY <3>2 DEF Note
  <2> HIDE DEF a, b
  <2>3. /\ RoomLog' = RoomLog \o << Room!Event("you", c, {c}), Room!Event("say", c, Members \ {c}) >>
        /\ \A d \in Conn : Unmentioned(d) /\ d # c => Unmentioned(d)'
    BY <2>1, <2>2, ToldTwice
  <2>4. Room!Speak(c)
    BY <1>1, <1>2, <1>5, <1>6, <2>3 DEF Room!Speak
  <2>5. RoomInv'
    BY <1>1, <1>2, <1>7, <2>3, ScanFrame
  <2>6. QED
    BY <2>4, <2>5 DEF Room!Next
<1>12. QED
  BY <1>3, <1>8, <1>9, <1>10, <1>11

(* What clients, network and clock do, the room does not see. *)
LEMMA EnvironmentUnseen ==
  ASSUME CoreInv, RoomInv, Environment
  PROVE  UNCHANGED Room!vars /\ RoomInv'
<1>1. UNCHANGED <<pc, clients, out, newfd, fdtab, log, got>>
  BY DEF Environment, Connect, SendLine, ClientCloses, RstArrives, ClientReads, Tick,
         serverVars, netVars, histVars
<1>2. UNCHANGED Room!vars
  BY <1>1, Unseen DEF Phase
<1>3. link \in [Conn -> Links]
  BY DEF CoreInv, CoreTypeOK
<1>4. ASSUME NEW c \in Conn, Connect(c) PROVE RoomInv'
  <2>1. link[c] = "idle" /\ backlog' = Append(backlog, c) /\ link' = [link EXCEPT ![c] = "open"]
    BY <1>4 DEF Connect
  <2>2. \A d \in Conn : link'[d] = "idle" => link[d] = "idle"
    BY <1>3, <2>1
  <2>3. QED
    BY <1>1, <2>1, <2>2, QuietFrame
<1>5. ASSUME UNCHANGED <<link, backlog>> PROVE RoomInv'
  BY <1>1, <1>5, QuietFrame
<1>6. ASSUME NEW c \in Conn, ClientCloses(c) \/ RstArrives(c)
      PROVE  RoomInv'
  <2>1. backlog' = backlog /\ \A d \in Conn : link'[d] = "idle" => link[d] = "idle"
    BY <1>3, <1>6 DEF ClientCloses, RstArrives
  <2>2. QED
    BY <1>1, <2>1, QuietFrame
<1>7. Tick \/ (\E c \in Conn : \/ ClientReads(c)
                              \/ \E cmd \in {"text", "badname"} \cup NewNames : SendLine(c, cmd))
        => UNCHANGED <<link, backlog>>
  BY DEF Tick, ClientReads, SendLine, netVars
<1>8. QED
  BY <1>2, <1>4, <1>5, <1>6, <1>7 DEF Environment

(* Nor the steps that only move the program counter. *)
LEMMA ControlUnseen ==
  ASSUME CoreInv, RoomInv,
         Listen \/ Woken(TRUE) \/ Woken(FALSE) \/ EndScan({}) \/ UNCHANGED coreVars
  PROVE  UNCHANGED Room!vars /\ RoomInv'
<1>1. /\ UNCHANGED <<clients, out, newfd, fdtab, backlog, link, log, got>>
      /\ pc' = pc \/ (pc \in Running /\ pc' \in {"wait", "accept", "scan"})
  BY DEF Listen, Woken, EndScan, coreVars, serverVars, netVars, histVars, Running
<1>2. UNCHANGED Room!vars
  BY <1>1, Unseen DEF Phase, Running
<1>3. RoomInv'
  BY <1>1, QuietFrame
<1>4. QED
  BY <1>2, <1>3

(* Writes disturb none of it. *)
LEMMA WriteFrame ==
  ASSUME CoreInv, RoomInv, NEW i \in Slots, WriteSlot(i)
  PROVE  RoomInv'
<1>1. /\ UNCHANGED <<pc, newfd, fdtab, backlog, log>>
      /\ out' = [out EXCEPT ![i] = 0]
      /\ link' = link \/ (Gone(ConnOf(i)) /\ \E s \in Links \ {"idle"} : link' = [link EXCEPT ![ConnOf(i)] = s])
  BY DEF WriteSlot, Deliver, Lose, Links, Gone
<1>2. link \in [Conn -> Links] /\ out \in [Slots -> Nat]
  BY DEF CoreInv, CoreTypeOK
<1>3. \A d \in Conn : link'[d] = "idle" => link[d] = "idle"
  BY <1>1, <1>2
<1>4. \A j \in Slots : out'[j] \in {out[j], 0}
  BY <1>1, <1>2
<1>5. QED
  BY <1>1, <1>3, <1>4, QuietFrame

-----------------------------------------------------------------------------
(* Every step of either server is one of the room's, or none. *)
LEMMA RoomStep ==
  ASSUME CoreInv, RoomInv, CoreNext
  PROVE  [Room!Next]_(Room!vars) /\ RoomInv'
<1>1. CASE Listen \/ Woken(TRUE) \/ Woken(FALSE) \/ EndScan({}) \/ UNCHANGED coreVars
  BY <1>1, ControlUnseen
<1>2. CASE \E fd \in FDS : AcceptFull(fd) \/ \E i \in Slots : AcceptInto(i, fd)
  BY <1>2, AcceptIsJoin, AcceptIsTurnAway
<1>3. CASE Refuse
  BY <1>3, RefuseIsHear
<1>4. CASE \E i \in Slots : WriteSlot(i)
  BY <1>4, WriteIsHear, WriteFrame
<1>5. CASE Exited \/ \E i \in Slots : SigPipe(i)
  BY <1>5, EndIsClose
<1>6. CASE \E i \in Slots : Scanned(i)
  BY <1>6, DisconnectIsLeave, ReadLineIsTalk DEF Scanned
<1>7. CASE StartFails \/ SigInt
  BY <1>7, ExitIsLastCall DEF StartFails, SigInt, Running
<1>8. CASE Environment
  BY <1>8, EnvironmentUnseen
<1>9. QED
  BY <1>1, <1>2, <1>3, <1>4, <1>5, <1>6, <1>7, <1>8 DEF CoreNext

-----------------------------------------------------------------------------
(* An exit handler that has not come to its end still has a write to do for *)
(* every connected client it has not told.                                  *)
TellsAll ==
  pc \in {"exit", "down"} =>
    /\ Len(log) > 0
    /\ \A c \in log[Len(log)].to : link[c] = "open" =>
         \/ Len(log) \in got[c]
         \/ pc = "exit" /\ \E i \in Slots : InUse(i) /\ ConnOf(i) = c /\ out[i] = Len(log)

(* The handler starts with a write for every member. *)
LEMMA ExitTells ==
  ASSUME CoreInv, ExitHandler
  PROVE  TellsAll'
<1>1. PICK e : /\ log' = Append(log, e) /\ e.to = Members
               /\ out' = [j \in Slots |-> IF clients[j].fd # -1 /\ clients[j].fd # -1 THEN Len(log') ELSE 0]
               /\ UNCHANGED <<clients, fdtab>>
  BY DEF ExitHandler, Note, Broadcast, netVars
<1>2. Len(log') = Len(log) + 1 /\ Len(log) \in Nat /\ log'[Len(log')] = e /\ pc' = "exit"
  BY <1>1 DEF ExitHandler, CoreInv, CoreTypeOK
<1>3. ASSUME NEW c \in Members
      PROVE  \E i \in Slots : InUse(i)' /\ ConnOf(i)' = c /\ out'[i] = Len(log')
  <2>1. PICK i \in Slots : InUse(i) /\ ConnOf(i) = c
    BY DEF Members
  <2>2. InUse(i)' /\ ConnOf(i)' = c /\ out'[i] = Len(log')
    BY <2>1, <1>1 DEF InUse, ConnOf
  <2>3. QED
    BY <2>2
<1>4. QED
  BY <1>1, <1>2, <1>3 DEF TellsAll

(* A write tells its client, or finds it gone. *)
LEMMA WriteTells ==
  ASSUME CoreInv, TellsAll, NEW i \in Slots, WriteSlot(i)
  PROVE  TellsAll'
<1>1. /\ UNCHANGED <<pc, clients, fdtab, log>> /\ out' = [out EXCEPT ![i] = 0]
      /\ Deliver(ConnOf(i), out[i]) \/ Lose(ConnOf(i))
      /\ out \in [Slots -> Nat] /\ out[i] # 0 /\ InUse(i) /\ ConnOf(i) \in Conn
  BY DEF WriteSlot, NextOut, CoreInv, CoreTypeOK, DescriptorsExact, WritesPending
<1>2. \A c \in Conn : /\ got[c] \subseteq got'[c]
                      /\ link'[c] = "open" => link[c] = "open"
  <2>1. link \in [Conn -> Links] /\ got \in [Conn -> SUBSET Nat]
    BY DEF CoreInv, CoreTypeOK
  <2>2. CASE Deliver(ConnOf(i), out[i])
    BY <2>1, <2>2 DEF Deliver
  <2>3. CASE Lose(ConnOf(i))
    <3>1. got' = got /\ link'[ConnOf(i)] # "open" /\ \A c \in Conn : c # ConnOf(i) => link'[c] = link[c]
      BY <2>1, <2>3, <1>1 DEF Lose, Gone
    <3>2. QED
      BY <3>1
  <2>4. QED
    BY <1>1, <2>2, <2>3
<1>3. link'[ConnOf(i)] = "open" => out[i] \in got'[ConnOf(i)]
  <2>1. link \in [Conn -> Links] /\ got \in [Conn -> SUBSET Nat]
    BY DEF CoreInv, CoreTypeOK
  <2>2. CASE Deliver(ConnOf(i), out[i])
    BY <1>1, <2>1, <2>2 DEF Deliver
  <2>3. CASE Lose(ConnOf(i))
    BY <1>1, <2>1, <2>3 DEF Lose, Gone
  <2>4. QED
    BY <1>1, <2>2, <2>3
<1>4. ASSUME pc \in {"exit", "down"}, NEW c \in log[Len(log)].to, link'[c] = "open"
      PROVE  \/ Len(log) \in got'[c]
             \/ pc = "exit" /\ \E j \in Slots : InUse(j)' /\ ConnOf(j)' = c /\ out'[j] = Len(log)
  <2>1. c \in Conn
    <3>1. Len(log) \in 1..Len(log) /\ log \in Seq(Event)
      BY <1>4 DEF TellsAll, CoreInv, CoreTypeOK
    <3>2. log[Len(log)] \in Event
      BY <3>1
    <3>3. QED
      BY <3>2 DEF Event
  <2>2. CASE Len(log) \in got[c]
    BY <2>1, <2>2, <1>2
  <2>3. ASSUME NEW j \in Slots, InUse(j), ConnOf(j) = c, out[j] = Len(log), pc = "exit"
        PROVE  \/ Len(log) \in got'[c]
               \/ \E k \in Slots : InUse(k)' /\ ConnOf(k)' = c /\ out'[k] = Len(log)
    <3>1. CASE j = i
      BY <2>3, <3>1, <1>3, <1>4
    <3>2. CASE j # i
      <4>1. InUse(j)' /\ ConnOf(j)' = c /\ out'[j] = Len(log)
        BY <2>3, <3>2, <1>1 DEF InUse, ConnOf
      <4>2. QED
        BY <4>1
    <3>3. QED
      BY <3>1, <3>2
  <2>4. QED
    BY <2>1, <2>2, <2>3, <1>2, <1>4 DEF TellsAll
<1>5. QED
  BY <1>1, <1>4 DEF TellsAll

(* Nothing else happens while the exit handler runs, but that clients leave *)
(* and the process ends.                                                    *)
LEMMA TellsStep ==
  ASSUME CoreInv, TellsAll, CoreNext
  PROVE  TellsAll'
<1>1. CASE pc' \notin {"exit", "down"}
  BY <1>1 DEF TellsAll
<1>2. CASE /\ UNCHANGED <<pc, clients, fdtab, out, log, got>>
           /\ \A c \in Conn : pc \notin Running /\ link'[c] = "open" => link[c] = "open"
  <2>1. ASSUME pc \in {"exit", "down"} PROVE log[Len(log)].to \subseteq Conn
    <3>1. Len(log) \in 1..Len(log) /\ log \in Seq(Event)
      BY <2>1 DEF TellsAll, CoreInv, CoreTypeOK
    <3>2. log[Len(log)] \in Event
      BY <3>1
    <3>3. QED
      BY <3>2 DEF Event
  <2>2. QED
    BY <1>2, <2>1 DEF TellsAll, InUse, ConnOf, Running
<1>3. CASE Listen \/ Woken(TRUE) \/ Woken(FALSE) \/ EndScan({}) \/ Refuse
  BY <1>1, <1>3 DEF Listen, Woken, EndScan, Refuse
<1>4. CASE \E fd \in FDS : AcceptFull(fd) \/ \E i \in Slots : AcceptInto(i, fd)
  BY <1>1, <1>4 DEF AcceptFull, AcceptInto
<1>5. CASE \E i \in Slots : SigPipe(i) \/ Scanned(i)
  BY <1>1, <1>5 DEF SigPipe, Scanned, Disconnect, ReadLine
<1>6. CASE Exited
  <2>1. /\ UNCHANGED <<clients, fdtab, out, log, got, link>> /\ pc = "exit" /\ pc' = "down"
        /\ \A i \in Slots : out[i] = 0
    BY <1>6 DEF Exited, netVars, histVars, Quiet
  <2>2. QED
    BY <2>1 DEF TellsAll
<1>7. CASE \E i \in Slots : WriteSlot(i)
  BY <1>7, WriteTells
<1>8. CASE StartFails \/ SigInt
  BY <1>8, ExitTells DEF StartFails, SigInt
<1>9. CASE Environment
  <2>1. link \in [Conn -> Links]
    BY DEF CoreInv, CoreTypeOK
  <2>2. UNCHANGED <<pc, clients, fdtab, out, log, got>>
    BY <1>9 DEF Environment, Connect, SendLine, ClientCloses, RstArrives, ClientReads, Tick,
                serverVars, netVars, histVars
  <2>3. \A c \in Conn : pc \notin Running /\ link'[c] = "open" => link[c] = "open"
    BY <1>9, <2>1 DEF Environment, Connect, SendLine, ClientCloses, RstArrives, ClientReads, Tick, netVars
  <2>4. QED
    BY <1>2, <2>2, <2>3
<1>10. CASE UNCHANGED coreVars
  BY <1>2, <1>10 DEF coreVars, serverVars, netVars, histVars
<1>11. QED
  BY <1>3, <1>4, <1>5, <1>6, <1>7, <1>8, <1>9, <1>10 DEF CoreNext

LEMMA TellsAllTells == CoreInv /\ TellsAll => ExitTellsAll
  BY DEF TellsAll, ExitTellsAll

-----------------------------------------------------------------------------
(* What keeps a client's messages apart and in order: the lines it sent     *)
(* wait in that order, those it published come before them, and its slot    *)
(* remembers the time of the last.                                          *)
Queued ==
  \A c \in Conn : \A m \in 1..Len(lines[c]) :
    /\ lines[c][m].n <= sent
    /\ \A p \in 1..Len(lines[c]) : p < m => lines[c][p].n < lines[c][m].n

Paced ==
  \A k \in 1..Len(log) : log[k].kind = "say" =>
    /\ log[k].n <= sent
    /\ \A c \in Conn : c = log[k].who => \A m \in 1..Len(lines[c]) : log[k].n < lines[c][m].n
    /\ \A i \in Slots : InUse(i) /\ ConnOf(i) = log[k].who => log[k].at <= clients[i].last

PaceInv == Queued /\ Paced /\ Cooldown

LEMMA InitPace == CoreInit => PaceInv
BY DEF CoreInit, PaceInv, Queued, Paced, Cooldown

(* A step that publishes nothing keeps the pace if a slot keeps its client  *)
(* and its time, or goes to a client that published nothing yet, and if no  *)
(* old line appears.                                                        *)
LEMMA PaceFrame ==
  ASSUME CoreInv, CoreInv', Paced, Cooldown, sent' >= sent,
         Len(log') >= Len(log), \A k \in 1..Len(log) : log'[k] = log[k],
         \A k \in 1..Len(log') : log'[k].kind = "say" => k \in 1..Len(log),
         \A c \in Conn : \A m \in 1..Len(lines'[c]) :
           \/ lines'[c][m].n > sent
           \/ \E p \in 1..Len(lines[c]) : lines'[c][m] = lines[c][p],
         \A i \in Slots : InUse(i)' =>
           \/ InUse(i) /\ ConnOf(i)' = ConnOf(i) /\ clients'[i].last = clients[i].last
           \/ Unmentioned(ConnOf(i)')
  PROVE  Paced' /\ Cooldown'
<1>1. /\ Len(log) \in Nat /\ Len(log') \in Nat /\ sent \in Nat /\ sent' \in Nat
      /\ \A k \in 1..Len(log) : log[k] \in Event
  BY ConstantsAssumption DEF CoreInv, CoreTypeOK
<1>2. Cooldown'
  <2>1. SUFFICES ASSUME NEW j \in 1..Len(log'), NEW k \in 1..Len(log'), j < k,
                        log'[j].kind = "say", log'[k].kind = "say", log'[j].who = log'[k].who
                 PROVE  log'[k].at - log'[j].at >= MSG_COOLDOWN /\ log'[j].n < log'[k].n
    BY DEF Cooldown
  <2>2. j \in 1..Len(log) /\ k \in 1..Len(log) /\ log'[j] = log[j] /\ log'[k] = log[k]
    BY <2>1
  <2>3. QED
    BY <2>1, <2>2 DEF Cooldown
<1>3. ASSUME NEW k \in 1..Len(log'), log'[k].kind = "say"
      PROVE  /\ log'[k].n <= sent'
             /\ \A c \in Conn : c = log'[k].who => \A m \in 1..Len(lines'[c]) : log'[k].n < lines'[c][m].n
             /\ \A i \in Slots : InUse(i)' /\ ConnOf(i)' = log'[k].who => log'[k].at <= clients'[i].last
  <2>1. k \in 1..Len(log) /\ log'[k] = log[k] /\ log[k].kind = "say" /\ log[k].n \in Nat
    BY <1>1, <1>3 DEF Event
  <2>2. log[k].n <= sent /\ log[k].n <= sent'
    BY <2>1, <1>1 DEF Paced
  <2>3. ASSUME NEW c \in Conn, c = log[k].who, NEW m \in 1..Len(lines'[c])
        PROVE  log[k].n < lines'[c][m].n
    <3>1. CASE lines'[c][m].n > sent
      <4>1. lines'[c] \in Seq(Line)
        BY DEF CoreInv, CoreTypeOK
      <4>2. lines'[c][m] \in Line
        BY <4>1
      <4>3. lines'[c][m].n \in Nat
        BY <4>2, ConstantsAssumption DEF Line
      <4>4. QED
        BY <3>1, <4>3, <2>1, <2>2, <1>1
    <3>2. CASE \E p \in 1..Len(lines[c]) : lines'[c][m] = lines[c][p]
      BY <3>2, <2>1, <2>3 DEF Paced
    <3>3. QED
      BY <3>1, <3>2
  <2>4. ASSUME NEW i \in Slots, InUse(i)', ConnOf(i)' = log[k].who
        PROVE  log[k].at <= clients'[i].last
    <3>1. ~Unmentioned(ConnOf(i)')
      BY <2>1, <2>4 DEF Unmentioned
    <3>2. InUse(i) /\ ConnOf(i) = log[k].who /\ clients'[i].last = clients[i].last
      BY <2>4, <3>1
    <3>3. QED
      BY <2>1, <3>2 DEF Paced
  <2>5. QED
    BY <2>1, <2>2, <2>3, <2>4
<1>4. QED
  BY <1>2, <1>3 DEF Paced

(* Queued and the lines' condition of PaceFrame hold when no line comes or  *)
(* goes.                                                                    *)
LEMMA SameLines ==
  ASSUME Queued, CoreInv, UNCHANGED <<lines, sent>>
  PROVE  /\ Queued' /\ sent' >= sent
         /\ \A c \in Conn : \A m \in 1..Len(lines'[c]) :
              \E p \in 1..Len(lines[c]) : lines'[c][m] = lines[c][p]
<1>1. sent \in Nat
  BY ConstantsAssumption DEF CoreInv, CoreTypeOK
<1>2. QED
  BY <1>1 DEF Queued

(* One event that is not a message *)
LEMMA PaceAppend ==
  ASSUME CoreInv, CoreInv', PaceInv, UNCHANGED <<lines, sent>>,
         NEW e, e.kind # "say", log' = Append(log, e),
         \A i \in Slots : InUse(i)' =>
           \/ InUse(i) /\ ConnOf(i)' = ConnOf(i) /\ clients'[i].last = clients[i].last
           \/ Unmentioned(ConnOf(i)')
  PROVE  PaceInv'
<1>1. log \in Seq(Event) /\ log' \in Seq(Event) /\ Len(log) \in Nat
  BY DEF CoreInv, CoreTypeOK
<1>2. /\ Len(log') = Len(log) + 1 /\ log'[Len(log) + 1] = e
      /\ \A k \in 1..Len(log) : log'[k] = log[k]
  BY <1>1
<1>3. \A k \in 1..Len(log') : log'[k].kind = "say" => k \in 1..Len(log)
  BY <1>1, <1>2
<1>4. QED
  BY <1>1, <1>2, <1>3, SameLines, PaceFrame DEF PaceInv

(* No event at all, and the slots, lines and clock as they were, or later *)
LEMMA PaceQuiet ==
  ASSUME CoreInv, CoreInv', PaceInv, UNCHANGED <<lines, sent, log>>,
         \A i \in Slots : InUse(i)' =>
           InUse(i) /\ ConnOf(i)' = ConnOf(i) /\ clients'[i].last = clients[i].last
  PROVE  PaceInv'
<1>1. Len(log) \in Nat
  BY DEF CoreInv, CoreTypeOK
<1>2. QED
  BY <1>1, SameLines, PaceFrame DEF PaceInv

-----------------------------------------------------------------------------
(* A slot is filled for a connection nobody has heard of. *)
LEMMA AcceptPaced ==
  ASSUME CoreInv, RoomInv, CoreInv', PaceInv, NEW fd \in FDS, NEW i \in Slots, AcceptInto(i, fd)
  PROVE  PaceInv'
<1>1. /\ Head(backlog) \in Conn /\ Unmentioned(Head(backlog)) /\ backlog # <<>>
      /\ fdtab[fd] = NoConn /\ fdtab' = [fdtab EXCEPT ![fd] = Head(backlog)]
      /\ fdtab \in [FDS -> Conn \cup {NoConn}] /\ clients \in [Slots -> Client]
  <2>1. backlog \in Seq(Conn) /\ backlog # <<>>
    BY DEF AcceptInto, Accepted, CoreInv, CoreTypeOK
  <2>2. 1 \in 1..Len(backlog) /\ Head(backlog) = backlog[1] /\ Head(backlog) \in Conn
    BY <2>1
  <2>3. QED
    BY <2>1, <2>2 DEF RoomInv, AcceptInto, Accepted, LowestFree, CoreInv, CoreTypeOK
<1>2. /\ clients'[i].fd = fd /\ \A j \in Slots : j # i => clients'[j] = clients[j]
      /\ UNCHANGED <<lines, sent>>
  BY <1>1 DEF AcceptInto, Accepted
<1>3. PICK e : log' = Append(log, e) /\ e.kind # "say"
  BY DEF AcceptInto, Note
<1>4. ConnOf(i)' = Head(backlog)
  BY <1>1, <1>2 DEF ConnOf
<1>5. ASSUME NEW j \in Slots, j # i, InUse(j)'
      PROVE  InUse(j) /\ ConnOf(j)' = ConnOf(j) /\ clients'[j].last = clients[j].last
  <2>1. InUse(j) /\ clients[j].fd \in FDS /\ ConnOf(j) \in Conn
    BY <1>2, <1>5 DEF InUse, CoreInv, DescriptorsExact
  <2>2. clients[j].fd # fd
    BY <2>1, <1>1, ConstantsAssumption DEF ConnOf
  <2>3. QED
    BY <2>1, <2>2, <1>1, <1>2, <1>5 DEF ConnOf
<1>6. QED
  BY <1>1, <1>2, <1>3, <1>4, <1>5, PaceAppend

LEMMA AcceptFullPaced ==
  ASSUME CoreInv, CoreInv', PaceInv, NEW fd \in FDS, AcceptFull(fd)
  PROVE  PaceInv'
<1>1. /\ fdtab[fd] = NoConn /\ fdtab' = [fdtab EXCEPT ![fd] = Head(backlog)]
      /\ UNCHANGED <<clients, lines, sent>> /\ fdtab \in [FDS -> Conn \cup {NoConn}]
  BY DEF AcceptFull, Accepted, LowestFree, CoreInv, CoreTypeOK
<1>2. PICK e : log' = Append(log, e) /\ e.kind # "say"
  BY DEF AcceptFull, Note
<1>3. ASSUME NEW j \in Slots, InUse(j)'
      PROVE  InUse(j) /\ ConnOf(j)' = ConnOf(j) /\ clients'[j].last = clients[j].last
  <2>1. InUse(j) /\ clients[j].fd \in FDS /\ ConnOf(j) \in Conn
    BY <1>1, <1>3 DEF InUse, CoreInv, DescriptorsExact
  <2>2. clients[j].fd # fd
    BY <2>1, <1>1, ConstantsAssumption DEF ConnOf
  <2>3. QED
    BY <2>1, <2>2, <1>1 DEF ConnOf
<1>4. QED
  BY <1>1, <1>2, <1>3, PaceAppend

(* Closing the refused connection drops its lines. *)
LEMMA RefusePaced ==
  ASSUME CoreInv, CoreInv', PaceInv, Refuse
  PROVE  PaceInv'
<1>1. /\ newfd \in FDS /\ fdtab[newfd] \in Conn /\ \A i \in Slots : clients[i].fd # newfd
  BY DEF Refuse, CoreInv, CoreTypeOK, DescriptorsExact
<1>2. /\ lines' = [lines EXCEPT ![fdtab[newfd]] = <<>>]
      /\ fdtab' = [fdtab EXCEPT ![newfd] = NoConn]
      /\ UNCHANGED <<clients, sent, log>>
      /\ lines \in [Conn -> Seq(Line)] /\ fdtab \in [FDS -> Conn \cup {NoConn}]
  BY DEF Refuse, CoreInv, CoreTypeOK
<1>3. \A c \in Conn : lines'[c] = lines[c] \/ lines'[c] = <<>>
  BY <1>1, <1>2
<1>4. ASSUME NEW c \in Conn, NEW m \in 1..Len(lines'[c])
      PROVE  lines'[c] = lines[c]
  BY <1>3, <1>4
<1>5. Queued'
  BY <1>2, <1>4 DEF PaceInv, Queued
<1>6. \A i \in Slots : InUse(i)' =>
        InUse(i) /\ ConnOf(i)' = ConnOf(i) /\ clients'[i].last = clients[i].last
  BY <1>1, <1>2 DEF InUse, ConnOf, CoreInv, DescriptorsExact
<1>7. sent' >= sent /\ Len(log) \in Nat
  BY <1>2, ConstantsAssumption DEF CoreInv, CoreTypeOK
<1>8. QED
  BY <1>2, <1>4, <1>5, <1>6, <1>7, PaceFrame DEF PaceInv

(* A line that arrives is the newest of all. *)
LEMMA SendLinePaced ==
  ASSUME CoreInv, CoreInv', PaceInv, NEW c \in Conn,
         NEW cmd \in {"text", "badname"} \cup NewNames, SendLine(c, cmd)
  PROVE  PaceInv'
<1>1. /\ sent' = sent + 1 /\ sent \in Nat
      /\ lines \in [Conn -> Seq(Line)]
      /\ lines' = [lines EXCEPT ![c] = Append(@, [n |-> sent + 1, cmd |-> cmd])]
      /\ UNCHANGED <<clients, fdtab, log>>
  BY ConstantsAssumption DEF SendLine, CoreInv, CoreTypeOK, serverVars, histVars
<1>2. /\ Len(lines'[c]) = Len(lines[c]) + 1 /\ Len(lines[c]) \in Nat
      /\ lines'[c][Len(lines[c]) + 1].n = sent + 1
      /\ \A m \in 1..Len(lines[c]) : lines'[c][m] = lines[c][m]
      /\ \A d \in Conn : d # c => lines'[d] = lines[d]
  BY <1>1
<1>3. \A d \in Conn : \A m \in 1..Len(lines[d]) : lines[d][m].n \in Nat
  <2>1. \A d \in Conn : \A m \in 1..Len(lines[d]) : lines[d][m] \in Line
    BY <1>1
  <2>2. QED
    BY <2>1, ConstantsAssumption DEF Line
<1>4. ASSUME NEW d \in Conn, NEW m \in 1..Len(lines'[d])
      PROVE  /\ lines'[d][m].n <= sent'
             /\ \A p \in 1..Len(lines'[d]) : p < m => lines'[d][p].n < lines'[d][m].n
             /\ \/ lines'[d][m].n > sent
                \/ \E p \in 1..Len(lines[d]) : lines'[d][m] = lines[d][p]
  <2>1. CASE d # c
    BY <2>1, <1>1, <1>2, <1>3, <1>4 DEF PaceInv, Queued
  <2>2. CASE d = c /\ m \in 1..Len(lines[c])
    BY <2>2, <1>1, <1>2, <1>3, <1>4 DEF PaceInv, Queued
  <2>3. CASE d = c /\ m = Len(lines[c]) + 1
    <3>1. \A p \in 1..Len(lines[c]) : lines'[c][p].n <= sent /\ lines'[c][p].n \in Nat
      BY <1>2, <1>3 DEF PaceInv, Queued
    <3>2. QED
      BY <2>3, <3>1, <1>1, <1>2
  <2>4. QED
    BY <2>1, <2>2, <2>3, <1>2, <1>4
<1>5. Queued'
  BY <1>4 DEF Queued
<1>6. \A i \in Slots : InUse(i)' =>
        InUse(i) /\ ConnOf(i)' = ConnOf(i) /\ clients'[i].last = clients[i].last
  BY <1>1 DEF InUse, ConnOf
<1>7. Len(log) \in Nat /\ sent' >= sent
  BY <1>1 DEF CoreInv, CoreTypeOK
<1>8. QED
  BY <1>1, <1>4, <1>5, <1>6, <1>7, PaceFrame DEF PaceInv

(* read() takes lines from the front. *)
LEMMA LinesTaken ==
  ASSUME CoreInv, Queued, NEW i \in Slots, InUse(i), pc = "scan", ReadLine(i)
  PROVE  /\ Queued' /\ sent' = sent
         /\ \A c \in Conn : \A m \in 1..Len(lines'[c]) :
              \E p \in 1..Len(lines[c]) : lines'[c][m] = lines[c][p] /\ (c = ConnOf(i) => p > 1)
<1>1. ConnOf(i) \in Conn /\ lines \in [Conn -> Seq(Line)] /\ lines[ConnOf(i)] # <<>> /\ sent' = sent
  BY DEF ReadLine, CoreInv, CoreTypeOK, DescriptorsExact
<1>2. PICK k \in 1..Len(lines[ConnOf(i)]) :
        lines' = [lines EXCEPT ![ConnOf(i)] = SubSeq(@, k + 1, Len(@))]
  BY DEF ReadLine
<1>3. /\ Len(lines'[ConnOf(i)]) = Len(lines[ConnOf(i)]) - k
      /\ \A m \in 1..Len(lines'[ConnOf(i)]) : lines'[ConnOf(i)][m] = lines[ConnOf(i)][m + k]
      /\ Len(lines[ConnOf(i)]) \in Nat /\ k >= 1
  <2>1. lines'[ConnOf(i)] = SubSeq(lines[ConnOf(i)], k + 1, Len(lines[ConnOf(i)]))
    BY <1>1, <1>2
  <2>2. QED
    BY <1>1, <2>1
<1>4. \A c \in Conn : c # ConnOf(i) => lines'[c] = lines[c]
  BY <1>1, <1>2
<1>5. ASSUME NEW c \in Conn, NEW m \in 1..Len(lines'[c])
      PROVE  \E p \in 1..Len(lines[c]) : lines'[c][m] = lines[c][p] /\ (c = ConnOf(i) => p > 1)
  <2>1. CASE c = ConnOf(i)
    <3>1. m + k \in 1..Len(lines[c]) /\ m + k > 1 /\ lines'[c][m] = lines[c][m + k]
      BY <2>1, <1>3, <1>5
    <3>2. QED
      BY <3>1
  <2>2. CASE c # ConnOf(i)
    BY <2>2, <1>4, <1>5
  <2>3. QED
    BY <2>1, <2>2
<1>6. ASSUME NEW c \in Conn, NEW m \in 1..Len(lines'[c])
      PROVE  /\ lines'[c][m].n <= sent'
             /\ \A p \in 1..Len(lines'[c]) : p < m => lines'[c][p].n < lines'[c][m].n
  <2>1. CASE c = ConnOf(i)
    <3>1. m + k \in 1..Len(lines[c]) /\ lines'[c][m] = lines[c][m + k]
      BY <2>1, <1>3, <1>6
    <3>2. ASSUME NEW p \in 1..Len(lines'[c]), p < m PROVE lines'[c][p].n < lines'[c][m].n
      <4>1. p + k \in 1..Len(lines[c]) /\ lines'[c][p] = lines[c][p + k] /\ p + k < m + k
        BY <2>1, <1>3, <3>2
      <4>2. QED
        BY <3>1, <4>1 DEF Queued
    <3>3. QED
      BY <3>1, <3>2, <1>1 DEF Queued
  <2>2. CASE c # ConnOf(i)
    BY <2>2, <1>1, <1>4, <1>6 DEF Queued
  <2>3. QED
    BY <2>1, <2>2
<1>7. QED
  BY <1>1, <1>5, <1>6 DEF Queued

(* A message is published one cooldown after the last, and is newer.        *)
LEMMA SayPaced ==
  ASSUME CoreInv, CoreInv', PaceInv, NEW i \in Slots, InUse(i), pc = "scan", ReadLine(i),
         Say(i, Head(lines[ConnOf(i)]))
  PROVE  PaceInv'
<1> DEFINE c == ConnOf(i)
           line == Head(lines[c])
           you == Note("you", c, clients[i].name, line.n, {c})
           said == Note("say", c, clients[i].name, line.n, Members \ {c})
<1>1. /\ c \in Conn /\ lines \in [Conn -> Seq(Line)] /\ lines[c] # <<>>
      /\ log \in Seq(Event) /\ Len(log) \in Nat /\ sent \in Nat /\ now \in Nat
      /\ clients \in [Slots -> Client] /\ UNCHANGED <<fdtab, now>>
  BY ConstantsAssumption DEF ReadLine, CoreInv, CoreTypeOK, DescriptorsExact
<1>2. /\ line = lines[c][1] /\ 1 \in 1..Len(lines[c]) /\ line \in Line /\ line.n \in Nat
  <2>1. lines[c] \in Seq(Line) /\ lines[c] # <<>>
    BY <1>1
  <2>2. line = lines[c][1] /\ 1 \in 1..Len(lines[c]) /\ line \in Line
    BY <2>1
  <2>3. QED
    BY <2>2, ConstantsAssumption DEF Line
<1>3. /\ Queued' /\ sent' = sent
      /\ \A d \in Conn : \A m \in 1..Len(lines'[d]) :
           \E p \in 1..Len(lines[d]) : lines'[d][m] = lines[d][p] /\ (d = c => p > 1)
  BY LinesTaken DEF PaceInv
<1>4. /\ Len(log') = Len(log) + 2 /\ log'[Len(log) + 1].kind = "you"
      /\ log'[Len(log) + 2] = said
      /\ \A k \in 1..Len(log) : log'[k] = log[k] /\ log[k] \in Event
  <2>1. log' = log \o <<you, said>>
    BY DEF Say
  <2>2. you.kind = "you"
    BY DEF Note
  <2> HIDE DEF you, said
  <2>3. /\ Len(log') = Len(log) + 2 /\ log'[Len(log) + 1] = you /\ log'[Len(log) + 2] = said
        /\ \A k \in 1..Len(log) : log'[k] = log[k] /\ log[k] \in Event
    BY <2>1, <1>1
  <2>4. QED
    BY <2>2, <2>3
<1>5. said.kind = "say" /\ said.who = c /\ said.n = line.n /\ said.at = now
  BY DEF Note
<1> HIDE DEF said, you
<1>6. /\ clients'[i].last = now /\ now - clients[i].last >= MSG_COOLDOWN
      /\ \A j \in Slots : j # i => clients'[j] = clients[j]
      /\ \A j \in Slots : clients'[j].fd = clients[j].fd
      /\ clients[i].last \in Int
  BY <1>1 DEF Say, Client
<1>7. ASSUME NEW k \in 1..Len(log), log[k].kind = "say"
      PROVE  /\ log[k].at \in Nat /\ log[k].n \in Nat /\ log[k].n <= sent
             /\ log[k].who = c => log[k].n < line.n /\ now - log[k].at >= MSG_COOLDOWN
  <2>1. log[k].at \in Nat /\ log[k].n \in Nat /\ log[k].n <= sent
    BY <1>4, <1>7 DEF Event, PaceInv, Paced
  <2>2. ASSUME log[k].who = c PROVE log[k].n < line.n /\ log[k].at <= clients[i].last
    BY <1>1, <1>2, <1>7, <2>2 DEF PaceInv, Paced
  <2>3. QED
    BY <2>1, <2>2, <1>1, <1>6, ConstantsAssumption
<1>8. \A k \in 1..Len(log') : log'[k].kind = "say" => k \in 1..Len(log) \/ k = Len(log) + 2
  BY <1>1, <1>4
<1>9. Cooldown'
  <2>1. SUFFICES ASSUME NEW j \in 1..Len(log'), NEW k \in 1..Len(log'), j < k,
                        log'[j].kind = "say", log'[k].kind = "say", log'[j].who = log'[k].who
                 PROVE  log'[k].at - log'[j].at >= MSG_COOLDOWN /\ log'[j].n < log'[k].n
    BY DEF Cooldown
  <2>2. j \in 1..Len(log) /\ log'[j] = log[j]
    BY <2>1, <1>1, <1>4, <1>8
  <2>3. CASE k \in 1..Len(log)
    BY <2>1, <2>2, <2>3, <1>4 DEF PaceInv, Cooldown
  <2>4. CASE k = Len(log) + 2
    BY <2>1, <2>2, <2>4, <1>4, <1>5, <1>7
  <2>5. QED
    BY <2>1, <2>3, <2>4, <1>8
<1>10. ASSUME NEW k \in 1..Len(log'), log'[k].kind = "say"
       PROVE  /\ log'[k].n <= sent'
              /\ \A d \in Conn : d = log'[k].who => \A m \in 1..Len(lines'[d]) : log'[k].n < lines'[d][m].n
              /\ \A j \in Slots : InUse(j)' /\ ConnOf(j)' = log'[k].who => log'[k].at <= clients'[j].last
  <2>1. \A j \in Slots : InUse(j)' => InUse(j) /\ ConnOf(j)' = ConnOf(j)
    BY <1>1, <1>6 DEF InUse, ConnOf
  <2>2. CASE k \in 1..Len(log)
    <3>1. log'[k] = log[k] /\ log[k].n <= sent'
      BY <2>2, <1>3, <1>4, <1>7, <1>10
    <3>2. \A d \in Conn : d = log[k].who => \A m \in 1..Len(lines'[d]) : log[k].n < lines'[d][m].n
      BY <2>2, <3>1, <1>3, <1>10 DEF PaceInv, Paced
    <3>3. ASSUME NEW j \in Slots, InUse(j)', ConnOf(j)' = log[k].who
          PROVE  log[k].at <= clients'[j].last
      <4>1. InUse(j) /\ ConnOf(j) = log[k].who
        BY <2>1, <3>3
      <4>2. CASE j # i
        BY <4>1, <4>2, <2>2, <3>1, <1>6, <1>10 DEF PaceInv, Paced
      <4>3. CASE j = i
        BY <4>1, <4>3, <2>2, <3>1, <1>1, <1>6, <1>7, <1>10, ConstantsAssumption
      <4>4. QED
        BY <4>2, <4>3
    <3>4. QED
      BY <3>1, <3>2, <3>3
  <2>3. CASE k = Len(log) + 2
    <3>1. log'[k].who = c /\ log'[k].n = line.n /\ log'[k].at = now
      BY <2>3, <1>4, <1>5
    <3>2. line.n <= sent'
      BY <1>1, <1>2, <1>3 DEF PaceInv, Queued
    <3>3. ASSUME NEW m \in 1..Len(lines'[c]) PROVE line.n < lines'[c][m].n
      <4>1. PICK p \in 1..Len(lines[c]) : lines'[c][m] = lines[c][p] /\ p > 1
        BY <1>1, <1>3, <3>3
      <4>2. QED
        BY <4>1, <1>1, <1>2 DEF PaceInv, Queued
    <3>4. ASSUME NEW j \in Slots, InUse(j)', ConnOf(j)' = c PROVE now <= clients'[j].last
      <4>1. j = i
        BY <2>1, <3>4, OneSlot
      <4>2. QED
        BY <4>1, <1>1, <1>6
    <3>5. QED
      BY <3>1, <3>2, <3>3, <3>4
  <2>4. QED
    BY <1>8, <1>10, <2>2, <2>3
<1>11. QED
  BY <1>3, <1>9, <1>10 DEF PaceInv, Paced

(* The other reactions to a line publish nothing. *)
LEMMA ReadLinePaced ==
  ASSUME CoreInv, CoreInv', PaceInv, NEW i \in Slots, InUse(i), pc = "scan", ReadLine(i)
  PROVE  PaceInv'
<1>1. PICK line : /\ line = Head(lines[ConnOf(i)])
                  /\ TooSoon(i) \/ Rename(i, line) \/ BadName(i, line) \/ Say(i, line)
  BY DEF ReadLine
<1>2. /\ Queued' /\ sent' = sent
      /\ \A c \in Conn : \A m \in 1..Len(lines'[c]) :
           \E p \in 1..Len(lines[c]) : lines'[c][m] = lines[c][p]
  BY LinesTaken DEF PaceInv
<1>3. sent' >= sent /\ log \in Seq(Event) /\ clients \in [Slots -> Client] /\ fdtab' = fdtab
  BY <1>2, ConstantsAssumption DEF CoreInv, CoreTypeOK, ReadLine
<1>4. CASE TooSoon(i) \/ Rename(i, line) \/ BadName(i, line)
  <2>1. log' = log \/ \E e : e.kind # "say" /\ log' = Append(log, e)
    BY <1>4 DEF TooSoon, Rename, BadName, Note
  <2>2. /\ Len(log') >= Len(log) /\ \A k \in 1..Len(log) : log'[k] = log[k]
        /\ \A k \in 1..Len(log') : log'[k].kind = "say" => k \in 1..Len(log)
    <3>1. CASE log' = log
      BY <3>1, <1>3
    <3>2. ASSUME NEW e, e.kind # "say", log' = Append(log, e)
          PROVE  /\ Len(log') >= Len(log) /\ \A k \in 1..Len(log) : log'[k] = log[k]
                 /\ \A k \in 1..Len(log') : log'[k].kind = "say" => k \in 1..Len(log)
      <4>1. log \in Seq(Event) /\ log' \in Seq(Event)
        BY DEF CoreInv, CoreTypeOK
      <4>2. /\ Len(log') = Len(log) + 1 /\ Len(log) \in Nat /\ log'[Len(log) + 1] = e
            /\ \A k \in 1..Len(log) : log'[k] = log[k]
        BY <3>2, <4>1
      <4>3. QED
        BY <3>2, <4>2
    <3>3. QED
      BY <2>1, <3>1, <3>2
  <2>3. \A j \in Slots : clients'[j].fd = clients[j].fd /\ clients'[j].last = clients[j].last
    <3>1. CASE Rename(i, line)
      BY <3>1, <1>3 DEF Rename, Client
    <3>2. CASE TooSoon(i) \/ BadName(i, line)
      BY <3>2 DEF TooSoon, BadName
    <3>3. QED
      BY <1>4, <3>1, <3>2
  <2>4. \A j \in Slots : InUse(j)' =>
          InUse(j) /\ ConnOf(j)' = ConnOf(j) /\ clients'[j].last = clients[j].last
    BY <2>3, <1>3 DEF InUse, ConnOf
  <2>5. QED
    BY <1>2, <1>3, <2>2, <2>4, PaceFrame DEF PaceInv
<1>5. QED
  BY <1>1, <1>4, SayPaced

(* A slot that is freed takes nothing from the others. *)
LEMMA DisconnectPaced ==
  ASSUME CoreInv, CoreInv', PaceInv, NEW i \in Slots, InUse(i), Disconnect(i)
  PROVE  PaceInv'
<1>1. /\ clients \in [Slots -> Client] /\ fdtab \in [FDS -> Conn \cup {NoConn}]
      /\ clients' = [clients EXCEPT ![i].fd = -1]
      /\ fdtab' = [fdtab EXCEPT ![clients[i].fd] = NoConn]
      /\ UNCHANGED <<lines, sent>>
  BY DEF Disconnect, CoreInv, CoreTypeOK
<1>2. PICK e : log' = Append(log, e) /\ e.kind # "say"
  BY DEF Disconnect, Note
<1>3. ASSUME NEW j \in Slots, InUse(j)'
      PROVE  InUse(j) /\ ConnOf(j)' = ConnOf(j) /\ clients'[j].last = clients[j].last
  <2>1. clients'[i].fd = -1 /\ \A k \in Slots : k # i => clients'[k] = clients[k]
    BY <1>1 DEF Client
  <2>2. j # i /\ clients'[j] = clients[j] /\ InUse(j)
    BY <2>1, <1>3 DEF InUse
  <2>3. clients[j].fd \in FDS /\ clients[j].fd # clients[i].fd
    BY <2>2 DEF CoreInv, DescriptorsExact
  <2>4. QED
    BY <1>1, <2>2, <2>3 DEF ConnOf
<1>4. QED
  BY <1>1, <1>2, <1>3, PaceAppend

(* Every step keeps the pace. *)
LEMMA PaceStep ==
  ASSUME CoreInv, RoomInv, PaceInv, CoreNext
  PROVE  PaceInv'
<1>0. CoreInv'
  BY CoreStep
<1>1. CASE UNCHANGED <<clients, fdtab, lines, sent, log>>
  BY <1>0, <1>1, PaceQuiet DEF InUse, ConnOf
<1>2. CASE \/ Listen \/ Woken(TRUE) \/ Woken(FALSE) \/ EndScan({}) \/ Exited
           \/ \E i \in Slots : WriteSlot(i) \/ SigPipe(i)
           \/ UNCHANGED coreVars
  BY <1>1, <1>2 DEF Listen, Woken, EndScan, Exited, WriteSlot, SigPipe, coreVars, serverVars,
                    netVars, histVars
<1>3. CASE \E fd \in FDS : AcceptFull(fd) \/ \E i \in Slots : AcceptInto(i, fd)
  BY <1>0, <1>3, AcceptPaced, AcceptFullPaced
<1>4. CASE Refuse
  BY <1>0, <1>4, RefusePaced
<1>5. CASE \E i \in Slots : Scanned(i)
  BY <1>0, <1>5, DisconnectPaced, ReadLinePaced DEF Scanned
<1>6. CASE StartFails \/ SigInt
  <2>1. PICK e : log' = Append(log, e) /\ e.kind # "say"
    BY <1>6 DEF StartFails, SigInt, ExitHandler, Note
  <2>2. UNCHANGED <<clients, fdtab, lines, sent>>
    BY <1>6 DEF StartFails, SigInt, ExitHandler, netVars
  <2>3. \A i \in Slots : InUse(i)' =>
          InUse(i) /\ ConnOf(i)' = ConnOf(i) /\ clients'[i].last = clients[i].last
    BY <2>2 DEF InUse, ConnOf
  <2>4. QED
    BY <1>0, <2>1, <2>2, <2>3, PaceAppend
<1>7. CASE Environment
  <2>1. CASE \E c \in Conn, cmd \in {"text", "badname"} \cup NewNames : SendLine(c, cmd)
    BY <1>0, <2>1, SendLinePaced
  <2>2. CASE \/ Tick
             \/ \E c \in Conn : Connect(c) \/ ClientCloses(c) \/ RstArrives(c) \/ ClientReads(c)
    BY <1>1, <2>2 DEF Tick, Connect, ClientCloses, RstArrives, ClientReads, serverVars, netVars, histVars
  <2>3. QED
    BY <1>7, <2>1, <2>2 DEF Environment
<1>8. QED
  BY <1>2, <1>3, <1>4, <1>5, <1>6, <1>7 DEF CoreNext

-----------------------------------------------------------------------------
(* What a room promises follows from its specification alone, and so of     *)
(* both servers.                                                            *)
LEMMA RoomTypes ==
  Room!TypeOK <=> /\ Phase \in {"open", "closing", "closed"} /\ Members \subseteq Conn
                  /\ RoomLog \in Seq(RoomEvent) /\ got \in [Conn -> SUBSET Nat]
<1>1. Room!Kinds = Kinds
  BY DEF Room!Kinds, Kinds
<1>2. QED
  BY <1>1 DEF Room!TypeOK, RoomEvent

(* What happened stays, and counts from then on. *)
Grows ==
  /\ RoomLog \in Seq(RoomEvent) /\ RoomLog' \in Seq(RoomEvent)
  /\ Len(RoomLog) <= Len(RoomLog')
  /\ \A k \in 1..Len(RoomLog) : RoomLog'[k] = RoomLog[k]

LEMMA PastStays ==
  ASSUME Grows
  PROVE  /\ \A k \in 0..Len(RoomLog) : Room!MembersAt(k)' = Room!MembersAt(k)
         /\ \A k \in 1..Len(RoomLog) : Room!Audience(k)' = Room!Audience(k)
<1>1. Len(RoomLog) \in Nat
  BY DEF Grows
<1>2. ASSUME NEW k \in 0..Len(RoomLog), NEW kind, NEW c
      PROVE  Room!Happened(kind, c, k)' <=> Room!Happened(kind, c, k)
  <2>1. \A i \in 1..k : RoomLog'[i] = RoomLog[i]
    BY <1>1 DEF Grows
  <2>2. QED
    BY <2>1 DEF Room!Happened
<1>3. ASSUME NEW k \in 0..Len(RoomLog) PROVE Room!MembersAt(k)' = Room!MembersAt(k)
  BY <1>2 DEF Room!MembersAt
<1>4. ASSUME NEW k \in 1..Len(RoomLog) PROVE Room!Audience(k)' = Room!Audience(k)
  <2>1. RoomLog'[k] = RoomLog[k] /\ k \in 0..Len(RoomLog)
    BY <1>1 DEF Grows
  <2>2. QED
    BY <1>3, <2>1 DEF Room!Audience
<1>5. QED
  BY <1>3, <1>4

LEMMA NextMembers ==
  ASSUME NEW n \in Nat, NEW kind, NEW c,
         RoomLog'[n + 1].kind = kind, RoomLog'[n + 1].who = c
  PROVE  /\ kind \notin {"connected", "disconnected"} => Room!MembersAt(n + 1)' = Room!MembersAt(n)'
         /\ kind = "connected" /\ c \in Conn /\ ~Room!Happened("disconnected", c, n)' =>
              Room!MembersAt(n + 1)' = Room!MembersAt(n)' \cup {c}
         /\ kind = "disconnected" => Room!MembersAt(n + 1)' = Room!MembersAt(n)' \ {c}
<1>1. 1..n + 1 = 1..n \cup {n + 1}
  OBVIOUS
<1>2. ASSUME NEW what, NEW d
      PROVE  Room!Happened(what, d, n + 1)' <=> Room!Happened(what, d, n)' \/ (kind = what /\ c = d)
  BY <1>1 DEF Room!Happened
<1> DEFINE in(d, k) == Room!Happened("connected", d, k)'
           gone(d, k) == Room!Happened("disconnected", d, k)'
<1>3. /\ Room!MembersAt(n + 1)' = {d \in Conn : in(d, n + 1) /\ ~gone(d, n + 1)}
      /\ Room!MembersAt(n)' = {d \in Conn : in(d, n) /\ ~gone(d, n)}
  BY DEF Room!MembersAt
<1>4. \A d \in Conn : /\ in(d, n + 1) <=> in(d, n) \/ (kind = "connected" /\ c = d)
                      /\ gone(d, n + 1) <=> gone(d, n) \/ (kind = "disconnected" /\ c = d)
  BY <1>2
<1> HIDE DEF in, gone
<1>5. kind \notin {"connected", "disconnected"} => Room!MembersAt(n + 1)' = Room!MembersAt(n)'
  BY <1>3, <1>4
<1>6. kind = "connected" /\ c \in Conn /\ ~gone(c, n) => Room!MembersAt(n + 1)' = Room!MembersAt(n)' \cup {c}
  BY <1>3, <1>4
<1>7. kind = "disconnected" => Room!MembersAt(n + 1)' = Room!MembersAt(n)' \ {c}
  BY <1>3, <1>4
<1>8. QED
  BY <1>5, <1>6, <1>7 DEF gone

(* The room is told right if its new events are. *)
NewRight ==
  /\ Members' = Room!MembersAt(Len(RoomLog))'
  /\ \A k \in Len(RoomLog) + 1..Len(RoomLog') :
       /\ RoomLog'[k].to = Room!Audience(k)'
       /\ RoomLog'[k].kind \in {"you", "say", "renamed", "badname"} => RoomLog'[k].who \in Room!MembersAt(k)'

LEMMA AudienceGrows ==
  ASSUME Grows, Room!AudienceRight, NewRight
  PROVE  Room!AudienceRight'
<1>1. Len(RoomLog) \in Nat /\ Len(RoomLog') \in Nat
  BY DEF Grows
<1>2. ASSUME NEW k \in 1..Len(RoomLog')
      PROVE  /\ RoomLog'[k].to = Room!Audience(k)'
             /\ RoomLog'[k].kind \in {"you", "say", "renamed", "badname"} => RoomLog'[k].who \in Room!MembersAt(k)'
  <2>1. CASE k \in 1..Len(RoomLog)
    <3>1. /\ RoomLog'[k] = RoomLog[k] /\ k \in 0..Len(RoomLog)
      BY <2>1, <1>1 DEF Grows
    <3>2. Room!MembersAt(k)' = Room!MembersAt(k) /\ Room!Audience(k)' = Room!Audience(k)
      BY <2>1, <3>1, PastStays
    <3>3. QED
      BY <2>1, <3>1, <3>2 DEF Room!AudienceRight
  <2>2. CASE k \notin 1..Len(RoomLog)
    <3>1. k \in Len(RoomLog) + 1..Len(RoomLog')
      BY <1>1, <2>2
    <3>2. QED
      BY <3>1 DEF NewRight
  <2>3. QED
    BY <2>1, <2>2
<1>3. QED
  BY <1>2 DEF NewRight, Room!AudienceRight

LEMMA GapsGrow ==
  ASSUME Grows, Room!HeardWithoutGaps, UNCHANGED got
  PROVE  Room!HeardWithoutGaps'
<1>1. Len(RoomLog) \in Nat /\ Len(RoomLog') \in Nat
  BY DEF Grows
<1>2. ASSUME NEW c \in Conn, NEW k \in got[c]
      PROVE  /\ k \in 1..Len(RoomLog') /\ c \in RoomLog'[k].to
             /\ RoomLog'[k].kind # "shutdown" => \A j \in 1..k : c \in RoomLog'[j].to => j \in got[c]
  <2>1. k \in 1..Len(RoomLog) /\ \A j \in 1..k : RoomLog'[j] = RoomLog[j]
    BY <1>1 DEF Grows, Room!HeardWithoutGaps
  <2>2. k \in 1..Len(RoomLog')
    BY <1>1, <2>1 DEF Grows
  <2>3. k \in 1..k
    BY <2>1
  <2>4. QED
    BY <2>1, <2>2, <2>3 DEF Room!HeardWithoutGaps
<1>3. QED
  BY <1>2 DEF Room!HeardWithoutGaps

LEMMA OneEvent ==
  ASSUME RoomLog \in Seq(RoomEvent), NEW kind \in Kinds, NEW c \in Conn \cup {NoConn}, NEW to \in SUBSET Conn,
         RoomLog' = Append(RoomLog, Room!Event(kind, c, to))
  PROVE  /\ Grows /\ Len(RoomLog) \in Nat /\ Len(RoomLog') = Len(RoomLog) + 1
         /\ RoomLog'[Len(RoomLog) + 1] = Room!Event(kind, c, to)
         /\ Room!Event(kind, c, to).kind = kind /\ Room!Event(kind, c, to).who = c
         /\ Room!Event(kind, c, to).to = to
<1> DEFINE e == Room!Event(kind, c, to)
<1>1. e \in RoomEvent /\ e.kind = kind /\ e.who = c /\ e.to = to
  BY DEF Room!Event, RoomEvent
<1> HIDE DEF e
<1>2. /\ RoomLog' \in Seq(RoomEvent) /\ Len(RoomLog) \in Nat /\ Len(RoomLog') = Len(RoomLog) + 1
      /\ \A k \in 1..Len(RoomLog) : RoomLog'[k] = RoomLog[k]
      /\ RoomLog'[Len(RoomLog) + 1] = e
  <2>1. RoomLog' = Append(RoomLog, e)
    BY DEF e
  <2>2. QED
    BY <1>1, <2>1
<1>3. Grows
  BY <1>2 DEF Grows
<1>4. QED
  BY <1>1, <1>2, <1>3 DEF e

(* The members after one new event, and whom it must be told. *)
LEMMA OneMore ==
  ASSUME Room!TypeOK, Room!AudienceRight, NEW kind \in Kinds, NEW c \in Conn \cup {NoConn}, NEW to \in SUBSET Conn,
         RoomLog' = Append(RoomLog, Room!Event(kind, c, to)),
         kind = "connected" => c \in Conn /\ Room!Fresh(c),
         Members' = IF kind = "connected" THEN Members \cup {c}
                    ELSE IF kind = "disconnected" THEN Members \ {c} ELSE Members,
         to = IF kind \in Room!Private THEN {c} ELSE IF kind = "say" THEN Members' \ {c} ELSE Members',
         kind \in {"you", "say", "renamed", "badname"} => c \in Members'
  PROVE  Grows /\ Room!AudienceRight'
<1>1. RoomLog \in Seq(RoomEvent)
  BY RoomTypes
<1>2. Grows /\ Len(RoomLog) \in Nat /\ Len(RoomLog') = Len(RoomLog) + 1
  BY <1>1, OneEvent
<1>3. PICK n \in Nat : n = Len(RoomLog)
  BY <1>2
<1>4. RoomLog'[n + 1].kind = kind /\ RoomLog'[n + 1].who = c /\ RoomLog'[n + 1].to = to
  <2>1. RoomLog'[Len(RoomLog) + 1] = Room!Event(kind, c, to)
    BY <1>1, OneEvent
  <2>2. QED
    BY <2>1, <1>3 DEF Room!Event
<1>5. Room!MembersAt(n)' = Members
  <2>1. n \in 0..Len(RoomLog)
    BY <1>3
  <2>2. Room!MembersAt(n)' = Room!MembersAt(n)
    BY <1>2, <2>1, PastStays
  <2>3. Members = Room!MembersAt(n)
    BY <1>3 DEF Room!AudienceRight
  <2>4. QED
    BY <2>2, <2>3
<1>6. kind = "connected" => ~Room!Happened("disconnected", c, n)'
  <2>1. \A i \in 1..n : RoomLog'[i] = RoomLog[i]
    BY <1>2, <1>3 DEF Grows
  <2>2. kind = "connected" => \A i \in 1..n : RoomLog[i].who # c
    BY <1>3 DEF Room!Fresh
  <2>3. QED
    BY <2>1, <2>2 DEF Room!Happened
<1>7. Room!MembersAt(n + 1)' = Members'
  <2>1. /\ kind \notin {"connected", "disconnected"} => Room!MembersAt(n + 1)' = Room!MembersAt(n)'
        /\ kind = "connected" => Room!MembersAt(n + 1)' = Room!MembersAt(n)' \cup {c}
        /\ kind = "disconnected" => Room!MembersAt(n + 1)' = Room!MembersAt(n)' \ {c}
    BY <1>4, <1>6, NextMembers
  <2>2. QED
    BY <1>5, <2>1
<1>8. Room!Audience(n + 1)' = to
  BY <1>4, <1>7 DEF Room!Audience, Room!Private
<1>9. NewRight
  <2>1. \A k \in Len(RoomLog) + 1..Len(RoomLog') : k = n + 1
    BY <1>2, <1>3
  <2>2. Members' = Room!MembersAt(Len(RoomLog))'
    BY <1>2, <1>3, <1>7
  <2>3. ASSUME NEW k \in Len(RoomLog) + 1..Len(RoomLog')
        PROVE  /\ RoomLog'[k].to = Room!Audience(k)'
               /\ RoomLog'[k].kind \in {"you", "say", "renamed", "badname"} => RoomLog'[k].who \in Room!MembersAt(k)'
    BY <2>1, <1>4, <1>7, <1>8
  <2>4. QED
    BY <2>2, <2>3 DEF NewRight
<1>10. QED
  BY <1>2, <1>9, AudienceGrows

LEMMA SameAudience ==
  ASSUME Room!Promise, UNCHANGED <<Members, RoomLog>>
  PROVE  Grows /\ Room!AudienceRight'
<1>1. RoomLog \in Seq(RoomEvent) /\ Room!AudienceRight
  BY RoomTypes DEF Room!Promise
<1>2. PICK n \in Nat : n = Len(RoomLog)
  BY <1>1
<1>3. Grows
  BY <1>1 DEF Grows
<1>4. Room!MembersAt(n)' = Members
  <2>1. n \in 0..Len(RoomLog)
    BY <1>2
  <2>2. QED
    BY <1>1, <1>2, <1>3, <2>1, PastStays DEF Room!AudienceRight
<1>5. NewRight
  <2>1. Members' = Room!MembersAt(Len(RoomLog))'
    BY <1>2, <1>4
  <2>2. Len(RoomLog) + 1..Len(RoomLog') = {}
    BY <1>2
  <2>3. QED
    BY <2>1, <2>2 DEF NewRight
<1>6. QED
  BY <1>1, <1>3, <1>5, AudienceGrows

(* One new event of a room whose members hear nothing meanwhile. *)
LEMMA EventPromised ==
  ASSUME Room!Promise, NEW kind \in Kinds, NEW c \in Conn \cup {NoConn}, NEW to \in SUBSET Conn,
         RoomLog' = Append(RoomLog, Room!Event(kind, c, to)),
         kind = "connected" => c \in Conn /\ Room!Fresh(c),
         Members' = IF kind = "connected" THEN Members \cup {c}
                    ELSE IF kind = "disconnected" THEN Members \ {c} ELSE Members,
         to = IF kind \in Room!Private THEN {c} ELSE IF kind = "say" THEN Members' \ {c} ELSE Members',
         kind \in {"you", "say", "renamed", "badname"} => c \in Members',
         Members' \in SUBSET Conn,
         Phase = "open", Phase' = IF kind = "shutdown" THEN "closing" ELSE "open",
         UNCHANGED got
  PROVE  Room!Promise'
<1>1. Room!TypeOK /\ Room!AudienceRight /\ Room!HeardWithoutGaps
  BY DEF Room!Promise
<1>2. Grows /\ Room!AudienceRight'
  BY <1>1, OneMore
<1>3. Room!HeardWithoutGaps'
  BY <1>1, <1>2, GapsGrow
<1>4. /\ RoomLog' \in Seq(RoomEvent) /\ Len(RoomLog') \in Nat /\ Len(RoomLog') > 0
      /\ RoomLog'[Len(RoomLog')].kind = kind
  <2>1. RoomLog \in Seq(RoomEvent)
    BY <1>1, RoomTypes
  <2>2. /\ Len(RoomLog) \in Nat /\ Len(RoomLog') = Len(RoomLog) + 1
        /\ RoomLog'[Len(RoomLog) + 1].kind = kind
    <3>1. /\ Len(RoomLog) \in Nat /\ Len(RoomLog') = Len(RoomLog) + 1
          /\ RoomLog'[Len(RoomLog) + 1] = Room!Event(kind, c, to)
      BY <2>1, OneEvent
    <3>2. QED
      BY <3>1 DEF Room!Event
  <2>3. QED
    BY <1>2, <2>2 DEF Grows
<1>5. Phase' = "closing" => kind = "shutdown"
  OBVIOUS
<1>6. Room!LastIsCall'
  BY <1>4, <1>5 DEF Room!LastIsCall
<1>7. Room!TypeOK'
  <2>1. got' \in [Conn -> SUBSET Nat] /\ Members' \subseteq Conn /\ Phase' \in {"open", "closing", "closed"}
    BY <1>1, RoomTypes
  <2>2. Room!Kinds = Kinds
    BY DEF Room!Kinds, Kinds
  <2>3. QED
    BY <1>4, <2>1, <2>2 DEF Room!TypeOK, RoomEvent
<1>8. QED
  BY <1>2, <1>3, <1>6, <1>7 DEF Room!Promise

(* One more heard of what was told. *)
LEMMA HearPromised ==
  ASSUME Room!Promise, NEW c \in Conn, NEW k \in Room!Due(c),
         got' = [got EXCEPT ![c] = @ \cup {k}], UNCHANGED <<Phase, Members, RoomLog>>,
         RoomLog[k].kind = "shutdown" \/ \A j \in Room!Due(c) : k <= j
  PROVE  Room!Promise'
<1>1. Room!TypeOK /\ Room!AudienceRight /\ Room!HeardWithoutGaps /\ Room!LastIsCall
  BY DEF Room!Promise
<1>2. /\ got \in [Conn -> SUBSET Nat] /\ RoomLog \in Seq(RoomEvent) /\ Len(RoomLog) \in Nat
      /\ k \in 1..Len(RoomLog) /\ c \in RoomLog[k].to /\ k \in Nat
  <2>1. got \in [Conn -> SUBSET Nat] /\ RoomLog \in Seq(RoomEvent)
    BY <1>1, RoomTypes
  <2>2. Len(RoomLog) \in Nat
    BY <2>1
  <2>3. QED
    BY <2>1, <2>2 DEF Room!Due
<1>3. /\ got'[c] = got[c] \cup {k} /\ \A d \in Conn \ {c} : got'[d] = got[d]
      /\ got' \in [Conn -> SUBSET Nat]
  BY <1>2
<1>4. RoomLog[k].kind # "shutdown" => \A j \in 1..k : c \in RoomLog[j].to => j \in got'[c]
  <2>1. SUFFICES ASSUME RoomLog[k].kind # "shutdown", NEW j \in 1..k, c \in RoomLog[j].to, j \notin got[c]
                 PROVE  j = k
    BY <1>3
  <2>2. j \in Room!Due(c)
    BY <1>2, <2>1 DEF Room!Due
  <2>3. QED
    BY <1>2, <2>1, <2>2
<1>5. Room!HeardWithoutGaps'
  <2>1. ASSUME NEW d \in Conn, NEW i \in got'[d]
        PROVE  /\ i \in 1..Len(RoomLog) /\ d \in RoomLog[i].to
               /\ RoomLog[i].kind # "shutdown" => \A j \in 1..i : d \in RoomLog[j].to => j \in got'[d]
    <3>1. CASE d = c /\ i = k
      BY <3>1, <1>2, <1>4
    <3>2. CASE ~(d = c /\ i = k)
      <4>1. i \in got[d] /\ got[d] \subseteq got'[d]
        BY <3>2, <2>1, <1>3
      <4>2. QED
        BY <4>1, <1>1 DEF Room!HeardWithoutGaps
    <3>3. QED
      BY <3>1, <3>2
  <2>2. QED
    BY <2>1 DEF Room!HeardWithoutGaps
<1>6. Room!AudienceRight'
  BY SameAudience
<1>7. Room!LastIsCall'
  BY <1>1 DEF Room!LastIsCall
<1>8. Room!TypeOK'
  BY <1>1, <1>3 DEF Room!TypeOK
<1>9. QED
  BY <1>5, <1>6, <1>7, <1>8 DEF Room!Promise

(* A message is two events: what is told the speaker, and the others. *)
LEMMA SpeakPromised ==
  ASSUME Room!Promise, NEW c \in Conn, Room!Speak(c)
  PROVE  Room!Promise'
<1>1. Room!TypeOK /\ Room!AudienceRight /\ Room!HeardWithoutGaps /\ Room!LastIsCall
  BY DEF Room!Promise
<1>2. /\ Phase = "open" /\ c \in Members /\ Phase' = Phase /\ Members' = Members /\ got' = got
      /\ RoomLog' = RoomLog \o << Room!Event("you", c, {c}), Room!Event("say", c, Members \ {c}) >>
  BY DEF Room!Speak
<1>3. RoomLog \in Seq(RoomEvent) /\ Members \subseteq Conn
  BY <1>1, RoomTypes
<1>4. Room!Event("you", c, {c}) \in RoomEvent /\ Room!Event("say", c, Members \ {c}) \in RoomEvent
  BY <1>3 DEF Room!Event, RoomEvent, Kinds
<1>5. PICK n \in Nat : n = Len(RoomLog)
  BY <1>3
<1>6. /\ RoomLog' \in Seq(RoomEvent) /\ Len(RoomLog') = n + 2
      /\ \A k \in 1..n : RoomLog'[k] = RoomLog[k]
      /\ RoomLog'[n + 1] = Room!Event("you", c, {c}) /\ RoomLog'[n + 2] = Room!Event("say", c, Members \ {c})
  <2> DEFINE a == Room!Event("you", c, {c})
             b == Room!Event("say", c, Members \ {c})
  <2> HIDE DEF a, b
  <2>1. RoomLog' = RoomLog \o <<a, b>> /\ a \in RoomEvent /\ b \in RoomEvent
    BY <1>2, <1>4 DEF a, b
  <2>2. /\ RoomLog' \in Seq(RoomEvent) /\ Len(RoomLog') = n + 2
        /\ \A k \in 1..n : RoomLog'[k] = RoomLog[k]
        /\ RoomLog'[n + 1] = a /\ RoomLog'[n + 2] = b
    BY <2>1, <1>3, <1>5
  <2>3. QED
    BY <2>2 DEF a, b
<1>7. Grows
  BY <1>3, <1>5, <1>6 DEF Grows
<1>8. /\ RoomLog'[n + 1].kind = "you" /\ RoomLog'[n + 1].who = c /\ RoomLog'[n + 1].to = {c}
      /\ RoomLog'[n + 2].kind = "say" /\ RoomLog'[n + 2].who = c /\ RoomLog'[n + 2].to = Members \ {c}
  BY <1>6 DEF Room!Event
<1>9. Room!MembersAt(n)' = Members
  <2>1. n \in 0..Len(RoomLog)
    BY <1>5
  <2>2. QED
    BY <1>1, <1>5, <1>7, <2>1, PastStays DEF Room!AudienceRight
<1>10. Room!MembersAt(n + 1)' = Members
  BY <1>8, <1>9, NextMembers
<1>11. Room!MembersAt(n + 2)' = Members
  <2>1. PICK m \in Nat : m = n + 1 /\ m + 1 = n + 2
    BY <1>5
  <2>2. Room!MembersAt(m + 1)' = Room!MembersAt(m)'
    BY <1>8, <2>1, NextMembers
  <2>3. QED
    BY <1>10, <2>1, <2>2
<1>12. Room!Audience(n + 1)' = {c} /\ Room!Audience(n + 2)' = Members \ {c}
  BY <1>8, <1>11 DEF Room!Audience, Room!Private
<1>13. NewRight
  <2>1. \A k \in Len(RoomLog) + 1..Len(RoomLog') : k = n + 1 \/ k = n + 2
    BY <1>5, <1>6
  <2>2. Members' = Room!MembersAt(Len(RoomLog))'
    BY <1>2, <1>6, <1>11
  <2>3. ASSUME NEW k \in Len(RoomLog) + 1..Len(RoomLog')
        PROVE  /\ RoomLog'[k].to = Room!Audience(k)'
               /\ RoomLog'[k].kind \in {"you", "say", "renamed", "badname"} => RoomLog'[k].who \in Room!MembersAt(k)'
    <3>1. CASE k = n + 1
      BY <3>1, <1>2, <1>8, <1>10, <1>12
    <3>2. CASE k = n + 2
      BY <3>2, <1>2, <1>8, <1>11, <1>12
    <3>3. QED
      BY <3>1, <3>2, <2>1
  <2>4. QED
    BY <2>2, <2>3 DEF NewRight
<1>14. Room!AudienceRight'
  BY <1>1, <1>7, <1>13, AudienceGrows
<1>15. Room!HeardWithoutGaps'
  BY <1>1, <1>2, <1>7, GapsGrow
<1>16. Room!LastIsCall'
  BY <1>2 DEF Room!LastIsCall
<1>17. Room!TypeOK'
  <2>1. got' \in [Conn -> SUBSET Nat] /\ Members' \subseteq Conn /\ Phase' \in {"open", "closing", "closed"}
    BY <1>1, <1>2, RoomTypes
  <2>2. Room!Kinds = Kinds
    BY DEF Room!Kinds, Kinds
  <2>3. QED
    BY <1>6, <2>1, <2>2 DEF Room!TypeOK, RoomEvent
<1>18. QED
  BY <1>14, <1>15, <1>16, <1>17 DEF Room!Promise

LEMMA PromiseStep ==
  ASSUME Room!Promise, Room!Next
  PROVE  Room!Promise'
<1>1. /\ Room!TypeOK /\ Room!AudienceRight /\ Room!HeardWithoutGaps /\ Room!LastIsCall
      /\ Members \subseteq Conn /\ RoomLog \in Seq(RoomEvent)
  BY RoomTypes DEF Room!Promise
<1>2. ASSUME NEW c \in Conn, Room!Join(c) PROVE Room!Promise'
  <2>1. "connected" \in Kinds /\ "connected" \notin Room!Private /\ Members' \in SUBSET Conn
    BY <1>1, <1>2 DEF Room!Join, Kinds, Room!Private
  <2>2. QED
    BY <1>2, <2>1, EventPromised DEF Room!Join
<1>3. ASSUME NEW c \in Conn, Room!TurnAway(c) PROVE Room!Promise'
  <2>1. "full" \in Kinds /\ "full" \in Room!Private /\ {c} \in SUBSET Conn
    BY DEF Kinds, Room!Private
  <2>2. QED
    BY <1>1, <1>3, <2>1, EventPromised DEF Room!TurnAway
<1>4. ASSUME NEW c \in Conn, Room!Leave(c) PROVE Room!Promise'
  <2>1. "disconnected" \in Kinds /\ "disconnected" \notin Room!Private /\ Members' \in SUBSET Conn
    BY <1>1, <1>4 DEF Room!Leave, Kinds, Room!Private
  <2>2. QED
    BY <1>4, <2>1, EventPromised DEF Room!Leave
<1>5. ASSUME NEW c \in Conn, Room!Rename(c) PROVE Room!Promise'
  <2>1. Phase = "open" /\ Phase' = "open" /\ c \in Members /\ Members' = Members /\ got' = got
    BY <1>5 DEF Room!Rename
  <2>2. CASE RoomLog' = Append(RoomLog, Room!Event("renamed", c, Members))
    <3>1. "renamed" \in Kinds /\ "renamed" \notin Room!Private
      BY DEF Kinds, Room!Private
    <3>2. QED
      BY <1>1, <2>1, <2>2, <3>1, EventPromised
  <2>3. CASE RoomLog' = Append(RoomLog, Room!Event("badname", c, {c}))
    <3>1. "badname" \in Kinds /\ "badname" \in Room!Private /\ {c} \in SUBSET Conn
      BY DEF Kinds, Room!Private
    <3>2. QED
      BY <1>1, <2>1, <2>3, <3>1, EventPromised
  <2>4. QED
    BY <1>5, <2>2, <2>3 DEF Room!Rename
<1>6. ASSUME NEW c \in Conn, Room!Hear(c) PROVE Room!Promise'
  BY <1>6, HearPromised DEF Room!Hear
<1>7. ASSUME NEW c \in Conn, Room!HearLastCall(c) PROVE Room!Promise'
  BY <1>1, <1>7, HearPromised DEF Room!HearLastCall, Room!LastIsCall
<1>8. ASSUME Room!LastCall PROVE Room!Promise'
  <2>1. "shutdown" \in Kinds /\ "shutdown" \notin Room!Private
    BY DEF Kinds, Room!Private
  <2>2. QED
    BY <1>1, <1>8, <2>1, EventPromised DEF Room!LastCall
<1>9. ASSUME Room!Close PROVE Room!Promise'
  <2>1. Phase' = "closed" /\ UNCHANGED <<Members, RoomLog, got>>
    BY <1>9 DEF Room!Close
  <2>2. Room!AudienceRight' /\ Room!HeardWithoutGaps'
    BY <1>1, <2>1, SameAudience, GapsGrow
  <2>3. Room!LastIsCall'
    BY <2>1 DEF Room!LastIsCall
  <2>4. Room!TypeOK'
    BY <1>1, <2>1 DEF Room!TypeOK
  <2>5. QED
    BY <2>2, <2>3, <2>4 DEF Room!Promise
<1>10. QED
  BY <1>2, <1>3, <1>4, <1>5, <1>6, <1>7, <1>8, <1>9, SpeakPromised DEF Room!Next

LEMMA PromiseInit == Room!Init => Room!Promise
<1> SUFFICES ASSUME Room!Init PROVE Room!Promise
  OBVIOUS
<1>1. /\ Phase = "open" /\ Members = {} /\ RoomLog = <<>> /\ Len(RoomLog) = 0
      /\ got = [c \in Conn |-> {}]
  BY DEF Room!Init
<1>2. Room!TypeOK
  BY <1>1, RoomTypes
<1>3. Room!AudienceRight
  BY <1>1 DEF Room!AudienceRight, Room!MembersAt, Room!Happened
<1>4. Room!HeardWithoutGaps /\ Room!LastIsCall
  BY <1>1 DEF Room!HeardWithoutGaps, Room!LastIsCall
<1>5. QED
  BY <1>2, <1>3, <1>4 DEF Room!Promise

(* A chat room keeps what it promises: every event is told to exactly those *)
(* in the room when it happens, and each of them hears it after all that    *)
(* concerned it before.                                                     *)
THEOREM RoomKeepsPromise == Room!Spec => []Room!Promise
<1>1. Room!Init => Room!Promise
  BY PromiseInit
<1>2. Room!Promise /\ [Room!Next]_(Room!vars) => Room!Promise'
  <2>1. ASSUME Room!Promise, UNCHANGED Room!vars PROVE Room!Promise'
    <3>1. UNCHANGED <<Phase, Members, RoomLog, got>>
      BY <2>1 DEF Room!vars
    <3>2. Room!AudienceRight' /\ Room!HeardWithoutGaps'
      BY <2>1, <3>1, SameAudience, GapsGrow DEF Room!Promise
    <3>3. Room!LastIsCall' /\ Room!TypeOK'
      BY <2>1, <3>1 DEF Room!LastIsCall, Room!TypeOK, Room!Promise
    <3>4. QED
      BY <3>2, <3>3 DEF Room!Promise
  <2>2. QED
    BY <2>1, PromiseStep
<1>3. QED
  BY <1>1, <1>2, PTL DEF Room!Spec
=============================================================================
