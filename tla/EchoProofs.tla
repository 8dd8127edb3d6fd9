----------------------------- MODULE EchoProofs -----------------------------
(***************************************************************************)
(* The forking echo server keeps its connections, its zombies and its      *)
(* clients' units in order, for every set of clients and every number of   *)
(* lines: IInv is inductive, conjunct by conjunct.                         *)
(***************************************************************************)
EXTENDS EchoServer, TLAPS

(* Nobody has connected when main() starts. *)
LEMMA InitInv == Init => IInv
<1> SUFFICES ASSUME Init PROVE IInv
  OBVIOUS
<1> USE ClientsAssumption
<1>1. lines = [c \in Clients |-> 0] /\ up = lines /\ buffer = lines /\ down = lines
  BY DEF Init
<1>2. TypeOK
  <2>1. lines \in [Clients -> Nat] /\ \A c \in Clients : lines[c] <= MaxLines[c]
    BY <1>1
  <2>2. {up, buffer, down} \subseteq [Clients -> Nat]
    BY <1>1
  <2>3. chld \in BOOLEAN /\ handler \in BOOLEAN
    BY Zenon DEF Init
  <2>4. /\ queue \in Seq(Clients)
        /\ kid \in [Clients -> Living \cup {"none", "zombie", "reaped"}]
        /\ holds \in [Clients -> SUBSET Clients]
    BY DEF Init
  <2>5. /\ client \in [Clients -> {"new", "typing", "await", "gone"}]
        /\ err \in [Clients -> {"no", "reset", "spent"}]
    BY DEF Init
  <2>6. QED
    BY <2>1, <2>2, <2>3, <2>4, <2>5 DEF Init, TypeOK
<1>3. OwnConnectionOnly /\ ZombiesAnnounced
  BY DEF Init, OwnConnectionOnly, ZombiesAnnounced
<1>4. EchoOnly
  BY <1>1 DEF EchoOnly
<1>5. QED
  BY <1>2, <1>3, <1>4 DEF IInv

(* Whatever happens to the listening socket, the queue holds clients and    *)
(* the errors are errors.                                                   *)
LEMMA ListenerTyped ==
  ASSUME TypeOK, CloseListener
  PROVE  queue' \in Seq(Clients) /\ err' \in [Clients -> {"no", "reset", "spent"}]
<1>1. CASE UNCHANGED <<queue, err>>
  BY <1>1 DEF TypeOK
<1>2. CASE /\ queue' = <<>>
           /\ err' = [c \in Clients |-> IF c \in ToSet(queue) THEN "reset" ELSE err[c]]
  <2>1. \A c \in Clients : err[c] \in {"no", "reset", "spent"}
    BY DEF TypeOK
  <2>2. QED
    BY <1>2, <2>1
<1>3. QED
  BY <1>1, <1>2 DEF CloseListener

(* A process that is gone leaves a zombie, and SIGCHLD, to a living parent. *)
LEMMA EndsFacts ==
  ASSUME TypeOK, NEW c \in Clients, Ends(c)
  PROVE  /\ kid' = [kid EXCEPT ![c] = IF parent = "dead" THEN "reaped" ELSE "zombie"]
         /\ kid' \in [Clients -> Living \cup {"none", "zombie", "reaped"}]
         /\ chld' = (chld \/ parent # "dead") /\ chld' \in BOOLEAN
         /\ holds' = [holds EXCEPT ![c] = {}] /\ holds' \in [Clients -> SUBSET Clients]
         /\ UNCHANGED <<parent, connfd, open, handler, clientVars, dataVars>>
         /\ queue' \in Seq(Clients) /\ err' \in [Clients -> {"no", "reset", "spent"}]
<1>1. /\ kid' = [kid EXCEPT ![c] = IF parent = "dead" THEN "reaped" ELSE "zombie"]
      /\ chld' = (chld \/ parent # "dead")
      /\ holds' = [holds EXCEPT ![c] = {}]
      /\ UNCHANGED <<parent, connfd, open, handler, clientVars, dataVars>>
  BY DEF Ends
<1>2. /\ kid' \in [Clients -> Living \cup {"none", "zombie", "reaped"}]
      /\ holds' \in [Clients -> SUBSET Clients]
  BY <1>1 DEF TypeOK
<1>3. chld' \in BOOLEAN
  BY <1>1
<1>4. QED
  BY <1>1, <1>2, <1>3, ListenerTyped DEF Ends

-----------------------------------------------------------------------------
(* What each kind of step does to the units and lines: the child moves      *)
(* them, the client adds two for a line or takes some, nobody else touches  *)
(* them.                                                                    *)
LEMMA ChildMoves ==
  ASSUME TypeOK, EchoOnly, NEW c \in Clients, Child(c) \/ Killed(c)
  PROVE  /\ {up', buffer', down'} \subseteq [Clients -> Nat]
         /\ UNCHANGED clientVars /\ EchoOnly'
<1>0. /\ up \in [Clients -> Nat] /\ buffer \in [Clients -> Nat] /\ down \in [Clients -> Nat]
      /\ lines \in [Clients -> Nat]
  BY DEF TypeOK
<1>1. CASE UNCHANGED <<clientVars, dataVars>>
  BY <1>0, <1>1 DEF clientVars, dataVars, EchoOnly
<1>2. CASE Read(c)
  <2>1. PICK n \in 1..up[c] : buffer' = [buffer EXCEPT ![c] = n] /\ up' = [up EXCEPT ![c] = @ - n]
    BY <1>2 DEF Read
  <2>2. n \in Nat /\ up[c] - n \in Nat /\ UNCHANGED <<clientVars, down>>
    BY <2>1, <1>0, <1>2 DEF Read
  <2>3. up' \in [Clients -> Nat] /\ buffer' \in [Clients -> Nat]
    BY <2>1, <2>2, <1>0
  <2>4. ASSUME NEW d \in Clients PROVE up'[d] + buffer'[d] + down'[d] <= 2 * lines'[d]
    <3>1. up[d] + buffer[d] + down[d] <= 2 * lines[d] /\ lines'[d] = lines[d] /\ down'[d] = down[d]
      BY <2>2 DEF EchoOnly, clientVars
    <3>2. up'[d] + buffer'[d] <= up[d] + buffer[d]
      BY <2>1, <2>2, <1>0
    <3>3. QED
      BY <3>1, <3>2, <2>3, <1>0
  <2>5. QED
    BY <2>2, <2>3, <2>4, <1>0 DEF EchoOnly
<1>3. CASE Write(c)
  <2>1. /\ down' = [down EXCEPT ![c] = @ + buffer[c]] /\ buffer' = [buffer EXCEPT ![c] = 0]
        /\ UNCHANGED <<clientVars, up>>
    BY <1>3 DEF Write
  <2>2. down' \in [Clients -> Nat] /\ buffer' \in [Clients -> Nat]
    BY <2>1, <1>0
  <2>3. ASSUME NEW d \in Clients PROVE up'[d] + buffer'[d] + down'[d] <= 2 * lines'[d]
    <3>1. up[d] + buffer[d] + down[d] <= 2 * lines[d] /\ lines'[d] = lines[d] /\ up'[d] = up[d]
      BY <2>1 DEF EchoOnly, clientVars
    <3>2. buffer'[d] + down'[d] = buffer[d] + down[d]
      BY <2>1, <1>0
    <3>3. QED
      BY <3>1, <3>2, <2>2, <1>0
  <2>4. QED
    BY <2>1, <2>2, <2>3, <1>0 DEF EchoOnly
<1>4. CASE CloseListenfd(c) \/ Ends(c)
  BY <1>1, <1>4 DEF CloseListenfd, Ends
<1>5. QED
  BY <1>2, <1>3, <1>4 DEF Child, Killed, Finish, SigPipe

LEMMA ClientMoves ==
  ASSUME TypeOK, EchoOnly, NEW c \in Clients,
         Answer(c) \/ Connect(c) \/ Refused(c) \/ SendLine(c) \/ Quit(c) \/ Reset(c)
  PROVE  /\ {up', buffer', down'} \subseteq [Clients -> Nat]
         /\ lines' \in [Clients -> Nat] /\ \A d \in Clients : lines'[d] <= MaxLines[d]
         /\ EchoOnly'
<1> USE ClientsAssumption
<1>0. /\ up \in [Clients -> Nat] /\ buffer \in [Clients -> Nat] /\ down \in [Clients -> Nat]
      /\ lines \in [Clients -> Nat] /\ \A d \in Clients : lines[d] <= MaxLines[d]
  BY DEF TypeOK
<1>1. CASE UNCHANGED <<lines, dataVars>>
  BY <1>0, <1>1 DEF dataVars, EchoOnly
<1>2. CASE SendLine(c)
  <2>1. /\ lines' = [lines EXCEPT ![c] = @ + 1] /\ lines[c] < MaxLines[c]
        /\ up' = up \/ up' = [up EXCEPT ![c] = @ + 2]
        /\ UNCHANGED <<buffer, down>>
    BY <1>2 DEF SendLine
  <2>2. /\ lines' \in [Clients -> Nat] /\ up' \in [Clients -> Nat]
        /\ \A d \in Clients : lines'[d] <= MaxLines[d]
    BY <2>1, <1>0
  <2>3. ASSUME NEW d \in Clients PROVE up'[d] + buffer'[d] + down'[d] <= 2 * lines'[d]
    <3>1. up[d] + buffer[d] + down[d] <= 2 * lines[d] /\ buffer'[d] = buffer[d] /\ down'[d] = down[d]
      BY <2>1 DEF EchoOnly
    <3>2. \/ up'[d] = up[d] /\ lines'[d] >= lines[d]
          \/ up'[d] = up[d] + 2 /\ lines'[d] = lines[d] + 1
      BY <2>1, <1>0
    <3>3. QED
      BY <3>1, <3>2, <2>2, <1>0
  <2>4. QED
    BY <2>1, <2>2, <2>3, <1>0 DEF EchoOnly
<1>3. CASE GetEcho(c)
  <2>1. PICK n \in 1..down[c] : down' = [down EXCEPT ![c] = @ - n]
    BY <1>3 DEF GetEcho
  <2>2. n \in Nat /\ down[c] - n \in Nat /\ UNCHANGED <<lines, up, buffer>>
    BY <2>1, <1>0, <1>3 DEF GetEcho
  <2>3. down' \in [Clients -> Nat] /\ \A d \in Clients : down'[d] <= down[d]
    BY <2>1, <2>2, <1>0
  <2>4. QED
    BY <2>2, <2>3, <1>0 DEF EchoOnly
<1>4. CASE Premature(c) \/ GetError(c) \/ Connect(c) \/ Refused(c) \/ Quit(c) \/ Reset(c)
  BY <1>1, <1>4 DEF Premature, GetError, Connect, Refused, Quit, Reset, clientVars
<1>5. QED
  BY <1>2, <1>3, <1>4 DEF Answer

(* The parent and its signal handler never see a unit. *)
LEMMA ParentMoves ==
  ASSUME Parent \/ AcceptFails
  PROVE  UNCHANGED <<clientVars, dataVars>>
BY DEF Parent, AcceptFails, Start, Accept, Fork, ForkFails, CloseConn, SigChld, NoneLeft, Reap

-----------------------------------------------------------------------------
(* The types, one case per process. *)
LEMMA TypeStep ==
  ASSUME IInv, [Next]_vars
  PROVE  TypeOK'
<1> USE DEF IInv
<1>1. CASE Parent \/ AcceptFails
  <2>1. /\ client' = client /\ lines' = lines /\ up' = up /\ buffer' = buffer /\ down' = down
    BY <1>1, ParentMoves DEF clientVars, dataVars
  <2>2. /\ parent' \in {"init", "accept", "fork", "close", "dead"}
        /\ connfd' \in Clients \cup {NoClient} /\ open' \subseteq Clients
        /\ chld' \in BOOLEAN /\ handler' \in BOOLEAN
        /\ queue' \in Seq(Clients) /\ err' \in [Clients -> {"no", "reset", "spent"}]
        /\ holds' \in [Clients -> SUBSET Clients]
        /\ kid' \in [Clients -> Living \cup {"none", "zombie", "reaped"}]
    <3>1. CASE Accept
      <4>1. Head(queue) \in Clients /\ Tail(queue) \in Seq(Clients)
        BY <3>1 DEF Accept, TypeOK
      <4>2. QED
        BY <3>1, <4>1 DEF Accept, TypeOK
    <3>2. CASE Fork
      <4>1. holds' \in [Clients -> SUBSET Clients]
        BY <3>2 DEF Fork, TypeOK
      <4>2. kid' \in [Clients -> Living \cup {"none", "zombie", "reaped"}]
        BY <3>2 DEF Fork, TypeOK, Living
      <4>3. QED
        BY <3>2, <4>1, <4>2 DEF Fork, TypeOK
    <3>3. CASE AcceptFails
      <4>1. kid' \in [Clients -> Living \cup {"none", "zombie", "reaped"}]
        BY <3>3 DEF AcceptFails, TypeOK
      <4>2. QED
        BY <3>3, <4>1, ListenerTyped DEF AcceptFails, TypeOK
    <3>4. CASE \E c \in Clients : Reap(c)
      BY <3>4 DEF Reap, TypeOK
    <3>5. CASE Start \/ ForkFails \/ CloseConn \/ SigChld \/ NoneLeft
      BY <3>5 DEF Start, ForkFails, CloseConn, SigChld, NoneLeft, TypeOK
    <3>6. QED
      BY <1>1, <3>1, <3>2, <3>3, <3>4, <3>5 DEF Parent
  <2>3. QED
    BY <2>1, <2>2 DEF TypeOK
<1>2. ASSUME NEW c \in Clients, Child(c) \/ Killed(c) PROVE TypeOK'
  <2>1. {up', buffer', down'} \subseteq [Clients -> Nat] /\ UNCHANGED <<client, lines>>
    BY <1>2, ChildMoves DEF clientVars
  <2>2. /\ UNCHANGED <<parent, connfd, open, handler>> /\ chld' \in BOOLEAN
        /\ queue' \in Seq(Clients) /\ err' \in [Clients -> {"no", "reset", "spent"}]
        /\ holds' \in [Clients -> SUBSET Clients]
        /\ kid' \in [Clients -> Living \cup {"none", "zombie", "reaped"}]
    <3>1. CASE Ends(c)
      BY <3>1, EndsFacts
    <3>2. CASE CloseListenfd(c)
      <4>1. kid' \in [Clients -> Living \cup {"none", "zombie", "reaped"}]
        BY <3>2 DEF CloseListenfd, TypeOK, Living
      <4>2. QED
        BY <3>2, <4>1, ListenerTyped DEF CloseListenfd, TypeOK
    <3>3. CASE Read(c) \/ Write(c)
      <4>1. kid' \in [Clients -> Living \cup {"none", "zombie", "reaped"}]
        BY <3>3 DEF Read, Write, TypeOK, Living
      <4>2. QED
        BY <3>3, <4>1 DEF Read, Write, TypeOK
    <3>4. QED
      BY <1>2, <3>1, <3>2, <3>3 DEF Child, Killed, Finish, SigPipe
  <2>3. QED
    BY <2>1, <2>2 DEF TypeOK
<1>3. ASSUME NEW c \in Clients,
             Answer(c) \/ Connect(c) \/ Refused(c) \/ SendLine(c) \/ Quit(c) \/ Reset(c)
      PROVE  TypeOK'
  <2>1. /\ {up', buffer', down'} \subseteq [Clients -> Nat]
        /\ lines' \in [Clients -> Nat] /\ \A d \in Clients : lines'[d] <= MaxLines[d]
    BY <1>3, ClientMoves
  <2>2. UNCHANGED <<parent, connfd, open, chld, handler, kid, holds>>
    BY <1>3 DEF Answer, GetEcho, Premature, GetError, Connect, Refused, SendLine, Quit, Reset, serverVars
  <2>3. client' \in [Clients -> {"new", "typing", "await", "gone"}]
    BY <1>3 DEF Answer, GetEcho, Premature, GetError, Connect, Refused, SendLine, Quit, Reset,
                clientVars, TypeOK
  <2>4. err' \in [Clients -> {"no", "reset", "spent"}]
    BY <1>3 DEF Answer, GetEcho, Premature, GetError, Connect, Refused, SendLine, Quit, Reset, TypeOK
  <2>5. queue' \in Seq(Clients)
    <3>1. queue' = queue \/ queue' = Append(queue, c)
      BY <1>3 DEF Answer, GetEcho, Premature, GetError, Connect, Refused, SendLine, Quit, Reset
    <3>2. queue \in Seq(Clients)
      BY DEF TypeOK
    <3>3. QED
      BY <3>1, <3>2
  <2>6. QED
    BY <2>1, <2>2, <2>3, <2>4, <2>5 DEF TypeOK
<1>4. CASE UNCHANGED vars
  BY <1>4 DEF vars, serverVars, clientVars, dataVars, TypeOK
<1>5. QED
  BY <1>1, <1>2, <1>3, <1>4 DEF Next

(* Descriptors multiply in fork() only, where the parent has just the one   *)
(* connection open, and it closes that before it accepts another.           *)
LEMMA OwnStep ==
  ASSUME IInv, [Next]_vars
  PROVE  OwnConnectionOnly'
<1> USE DEF IInv
<1>1. /\ open \subseteq {connfd}
      /\ parent \in {"init", "accept", "dead"} => open = {}
      /\ holds \in [Clients -> SUBSET Clients] /\ \A c \in Clients : holds[c] \subseteq {c}
  BY DEF TypeOK, OwnConnectionOnly
<1>2. CASE UNCHANGED <<parent, connfd, open, holds>>
  BY <1>1, <1>2 DEF OwnConnectionOnly
<1>3. CASE Fork
  <2>1. ASSUME NEW c \in Clients PROVE holds'[c] \subseteq {c}
    <3>1. CASE c = connfd
      <4>1. holds'[c] = open
        BY <1>1, <1>3, <3>1 DEF Fork
      <4>2. QED
        BY <1>1, <3>1, <4>1
    <3>2. CASE c # connfd
      <4>1. holds'[c] = holds[c]
        BY <1>1, <1>3, <3>2 DEF Fork
      <4>2. QED
        BY <1>1, <4>1
    <3>3. QED
      BY <3>1, <3>2
  <2>2. QED
    BY <1>1, <1>3, <2>1 DEF Fork, OwnConnectionOnly
<1>4. CASE Start \/ Accept \/ ForkFails \/ CloseConn \/ AcceptFails
  BY <1>1, <1>4 DEF Start, Accept, ForkFails, CloseConn, AcceptFails, OwnConnectionOnly
<1>5. CASE SigChld \/ NoneLeft \/ \E c \in Clients : Reap(c)
  BY <1>2, <1>5 DEF SigChld, NoneLeft, Reap
<1>6. ASSUME NEW c \in Clients, Child(c) \/ Killed(c) PROVE OwnConnectionOnly'
  <2>1. UNCHANGED <<parent, connfd, open>>
    BY <1>6 DEF Child, Killed, CloseListenfd, Read, Write, Finish, SigPipe, Ends
  <2>2. holds' = holds \/ holds' = [holds EXCEPT ![c] = {}]
    BY <1>6 DEF Child, Killed, CloseListenfd, Read, Write, Finish, SigPipe, Ends
  <2>3. \A d \in Clients : holds'[d] \subseteq {d}
    BY <1>1, <2>2
  <2>4. QED
    BY <1>1, <2>1, <2>3 DEF OwnConnectionOnly
<1>7. ASSUME NEW c \in Clients,
             Answer(c) \/ Connect(c) \/ Refused(c) \/ SendLine(c) \/ Quit(c) \/ Reset(c)
      PROVE  OwnConnectionOnly'
  <2>1. UNCHANGED <<parent, connfd, open, holds>>
    BY <1>7 DEF Answer, GetEcho, Premature, GetError, Connect, Refused, SendLine, Quit, Reset, serverVars
  <2>2. QED
    BY <2>1, <1>2
<1>8. QED
  BY <1>2, <1>3, <1>4, <1>5, <1>6, <1>7 DEF Next, Parent, vars, serverVars

(* Only an ending child adds a zombie, with the signal; the handler returns *)
(* when none is left.                                                       *)
LEMMA ZombieStep ==
  ASSUME IInv, [Next]_vars
  PROVE  ZombiesAnnounced'
<1> USE DEF IInv
<1>1. /\ kid \in [Clients -> Living \cup {"none", "zombie", "reaped"}]
      /\ (\E c \in Clients : kid[c] = "zombie") => chld \/ handler
  BY DEF TypeOK, ZombiesAnnounced
<1>2. CASE UNCHANGED <<kid, chld, handler>>
  BY <1>1, <1>2 DEF ZombiesAnnounced
<1>3. CASE Start \/ Accept \/ ForkFails \/ CloseConn
  BY <1>2, <1>3 DEF Start, Accept, ForkFails, CloseConn
<1>4. CASE Fork
  <2>1. \A c \in Clients : kid'[c] = "zombie" => kid[c] = "zombie"
    BY <1>1, <1>4 DEF Fork
  <2>2. QED
    BY <1>1, <1>4, <2>1 DEF Fork, ZombiesAnnounced
<1>5. CASE AcceptFails
  <2>1. \A c \in Clients : kid'[c] # "zombie"
    BY <1>5 DEF AcceptFails
  <2>2. QED
    BY <2>1 DEF ZombiesAnnounced
<1>6. CASE SigChld \/ \E c \in Clients : Reap(c)
  <2>1. handler'
    BY <1>6 DEF SigChld, Reap
  <2>2. QED
    BY <2>1 DEF ZombiesAnnounced
<1>7. CASE NoneLeft
  BY <1>7 DEF NoneLeft, ZombiesAnnounced
<1>8. ASSUME NEW c \in Clients, Child(c) \/ Killed(c) PROVE ZombiesAnnounced'
  <2>1. CASE Ends(c)
    <3>1. /\ kid' = [kid EXCEPT ![c] = IF parent = "dead" THEN "reaped" ELSE "zombie"]
          /\ chld' = (chld \/ parent # "dead") /\ handler' = handler
      BY <2>1 DEF Ends
    <3>2. CASE parent = "dead"
      <4>1. \A d \in Clients : kid'[d] = "zombie" => kid[d] = "zombie"
        BY <1>1, <3>1, <3>2
      <4>2. QED
        BY <1>1, <3>1, <3>2, <4>1 DEF ZombiesAnnounced
    <3>3. CASE parent # "dead"
      BY <3>1, <3>3 DEF ZombiesAnnounced
    <3>4. QED
      BY <3>2, <3>3
  <2>2. CASE CloseListenfd(c) \/ Read(c) \/ Write(c)
    <3>1. /\ \A d \in Clients : kid'[d] = "zombie" => kid[d] = "zombie"
          /\ UNCHANGED <<chld, handler>>
      BY <1>1, <2>2 DEF CloseListenfd, Read, Write
    <3>2. QED
      BY <1>1, <3>1 DEF ZombiesAnnounced
  <2>3. QED
    BY <1>8, <2>1, <2>2 DEF Child, Killed, Finish, SigPipe
<1>9. ASSUME NEW c \in Clients,
             Answer(c) \/ Connect(c) \/ Refused(c) \/ SendLine(c) \/ Quit(c) \/ Reset(c)
      PROVE  ZombiesAnnounced'
  <2>1. UNCHANGED <<kid, chld, handler>>
    BY <1>9 DEF Answer, GetEcho, Premature, GetError, Connect, Refused, SendLine, Quit, Reset, serverVars
  <2>2. QED
    BY <2>1, <1>2
<1>10. QED
  BY <1>2, <1>3, <1>4, <1>5, <1>6, <1>7, <1>8, <1>9 DEF Next, Parent, vars, serverVars

(* Units come from lines and only move down. *)
LEMMA EchoStep ==
  ASSUME IInv, [Next]_vars
  PROVE  EchoOnly'
<1>1. CASE UNCHANGED <<clientVars, dataVars>>
  BY <1>1 DEF clientVars, dataVars, EchoOnly, IInv
<1>2. QED
  BY <1>1, ChildMoves, ClientMoves, ParentMoves DEF Next, vars, IInv

-----------------------------------------------------------------------------
(* The invariant of every number of clients and lines. *)
THEOREM Invariance == Spec => []IInv
<1>1. IInv /\ [Next]_vars => IInv'
  BY TypeStep, OwnStep, ZombieStep, EchoStep DEF IInv
<1>2. QED
  BY InitInv, <1>1, PTL DEF Spec

(* No process keeps a copy of a connection that is not its own. *)
THEOREM OwnershipCorrect == Spec => []OwnConnectionOnly
<1>1. IInv => OwnConnectionOnly
  BY DEF IInv
<1>2. QED
  BY Invariance, <1>1, PTL

(* A zombie is never forgotten, however many signals merge. *)
THEOREM ZombiesCorrect == Spec => []ZombiesAnnounced
<1>1. IInv => ZombiesAnnounced
  BY DEF IInv
<1>2. QED
  BY Invariance, <1>1, PTL
=============================================================================
