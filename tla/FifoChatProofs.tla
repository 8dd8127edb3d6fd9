--------------------------- MODULE FifoChatProofs ---------------------------
(***************************************************************************)
(* A running user of the FIFO chat is reachable under its name, and text   *)
(* is delivered in the order in which it was typed, never twice, though    *)
(* old text may be printed again behind the new, for any length of the     *)
(* lines, and any number of lines, starts, kills and interrupts.           *)
(***************************************************************************)
EXTENDS FifoChat, SequenceTheorems, TLAPS

LEMMA Friends ==
  ASSUME NEW u \in Users
  PROVE  Friend(u) \in Users /\ Friend(u) # u /\ Friend(Friend(u)) = u /\ Users = {u, Friend(u)}
  BY DEF Users, Friend

(* The prints before the n-th, and what one more adds *)
LEMMA PrintedMember ==
  ASSUME NEW p \in Seq(Seq(Unit)), NEW n \in 0..Len(p), NEW x
  PROVE  x \in Printed(p, n) <=> \E m \in 1..n : \E k \in 1..Len(p[m]) : x = p[m][k]
<1>1. x \in Printed(p, n) <=> \E m \in 1..n : x \in ToSet(p[m])
  BY DEF Printed
<1>2. ASSUME NEW m \in 1..n PROVE x \in ToSet(p[m]) <=> \E k \in 1..Len(p[m]) : x = p[m][k]
  <2>1. p[m] \in Seq(Unit)
    BY ElementOfSeq
  <2>2. DOMAIN p[m] = 1..Len(p[m])
    BY <2>1, LenProperties
  <2>3. QED
    BY <2>2 DEF ToSet
<1>3. QED
  BY <1>1, <1>2

LEMMA PrintedAppend ==
  ASSUME NEW p \in Seq(Seq(Unit)), NEW b \in Seq(Unit)
  PROVE  /\ \A n \in 0..Len(p) : Printed(Append(p, b), n) = Printed(p, n)
         /\ Printed(Append(p, b), Len(p) + 1) = Printed(p, Len(p)) \cup ToSet(b)
<1> DEFINE q == Append(p, b)
<1>1. /\ q \in Seq(Seq(Unit)) /\ Len(q) = Len(p) + 1 /\ Len(p) \in Nat
      /\ \A m \in 1..Len(p) : q[m] = p[m]
      /\ q[Len(p) + 1] = b
  BY AppendProperties, LenProperties
<1> HIDE DEF q
<1>2. ASSUME NEW n \in 0..Len(p) PROVE Printed(q, n) = Printed(p, n)
  <2>1. \A m \in 1..n : q[m] = p[m]
    BY <1>1
  <2>2. QED
    BY <2>1 DEF Printed
<1>3. Printed(q, Len(p) + 1) = Printed(p, Len(p)) \cup ToSet(b)
  <2>1. 1..(Len(p) + 1) = (1..Len(p)) \cup {Len(p) + 1}
    BY <1>1
  <2>2. \A m \in 1..Len(p) : q[m] = p[m]
    BY <1>1
  <2>3. ASSUME NEW x PROVE x \in Printed(q, Len(p) + 1) <=> x \in Printed(p, Len(p)) \/ x \in ToSet(b)
    <3>1. x \in Printed(q, Len(p) + 1) <=> \E m \in (1..Len(p)) \cup {Len(p) + 1} : x \in ToSet(q[m])
      BY <2>1 DEF Printed
    <3>2. x \in Printed(p, Len(p)) <=> \E m \in 1..Len(p) : x \in ToSet(q[m])
      BY <2>2 DEF Printed
    <3>3. QED
      BY <3>1, <3>2, <1>1
  <2>4. QED
    BY <2>3
<1>4. QED
  BY <1>2, <1>3 DEF q

(* Neither process has run. *)
LEMMA InitInv == Init => IInv /\ ShownInOrder
<1> SUFFICES ASSUME Init PROVE IInv /\ ShownInOrder
  OBVIOUS
<1> USE BoundsAssumption
<1>1. TypeOK
  BY DEF Init, TypeOK, Idle, Closed, Unit, Fifo, Sender, Receiver
<1>2. OffIsClosed /\ Reachable /\ HeldOpen
  BY Friends DEF Init, OffIsClosed, Reachable, HeldOpen, Idle, Closed
<1>3. OnItsWay
  <2>1. ASSUME NEW u \in Users PROVE Printed(shown[u], Len(shown[u])) = {} /\ ToSet(buffer[u]) = {}
    <3>1. shown[u] = <<>> /\ buffer[u] = <<>>
      BY DEF Init
    <3>2. Len(shown[u]) = 0 /\ DOMAIN buffer[u] = {}
      BY <3>1
    <3>3. 1..0 = {}
      OBVIOUS
    <3>4. QED
      BY <3>2, <3>3 DEF Printed, ToSet
  <2>2. QED
    BY <2>1, Friends DEF Init, OnItsWay, Ordered, Idle
<1>4. ShownInOrder
  BY DEF Init, ShownInOrder
<1>5. QED
  BY <1>1, <1>2, <1>3, <1>4 DEF IInv

-----------------------------------------------------------------------------
(* Threads that move on keep their FIFO, and the sender its line. *)
LEMMA SenderMoves ==
  ASSUME TypeOK, NEW u \in Users, NEW s \in {"input", "wait", "write", "close"},
         snd' = [snd EXCEPT ![u].at = s]
  PROVE  /\ snd' \in [Users -> Sender]
         /\ snd'[u].at = s /\ snd'[u].ino = snd[u].ino /\ snd'[u].line = snd[u].line
         /\ \A v \in Users : v # u => snd'[v] = snd[v]
<1>1. snd \in [Users -> Sender] /\ snd[u] \in Sender
  BY DEF TypeOK
<1>2. [snd[u] EXCEPT !.at = s] \in Sender
  BY <1>1 DEF Sender
<1>3. snd' = [snd EXCEPT ![u] = [snd[u] EXCEPT !.at = s]]
  BY Zenon
<1>4. /\ [snd[u] EXCEPT !.at = s].at = s /\ [snd[u] EXCEPT !.at = s].ino = snd[u].ino
      /\ [snd[u] EXCEPT !.at = s].line = snd[u].line
  BY <1>1 DEF Sender
<1>5. QED
  BY <1>1, <1>2, <1>3, <1>4

LEMMA ReceiverMoves ==
  ASSUME TypeOK, NEW u \in Users, NEW s \in {"open", "wait", "read", "close"},
         rcv' = [rcv EXCEPT ![u].at = s]
  PROVE  /\ rcv' \in [Users -> Receiver]
         /\ rcv'[u].at = s /\ rcv'[u].ino = rcv[u].ino
         /\ \A v \in Users : v # u => rcv'[v] = rcv[v]
<1>1. rcv \in [Users -> Receiver] /\ rcv[u] \in Receiver
  BY DEF TypeOK
<1>2. [rcv[u] EXCEPT !.at = s] \in Receiver
  BY <1>1 DEF Receiver
<1>3. rcv' = [rcv EXCEPT ![u] = [rcv[u] EXCEPT !.at = s]]
  BY Zenon
<1>4. [rcv[u] EXCEPT !.at = s].at = s /\ [rcv[u] EXCEPT !.at = s].ino = rcv[u].ino
  BY <1>1 DEF Receiver
<1>5. QED
  BY <1>1, <1>2, <1>3, <1>4

LEMMA ThreadTypes ==
  ASSUME TypeOK, NEW u \in Users
  PROVE  /\ snd[u] \in Sender /\ snd[u].at \in {"input", "wait", "write", "close"}
         /\ snd[u].ino \in 0..MaxStarts /\ snd[u].line \in Seq(Unit)
         /\ rcv[u] \in Receiver /\ rcv[u].at \in {"open", "wait", "read", "close"}
         /\ rcv[u].ino \in 0..MaxStarts
<1>1. snd[u] \in Sender /\ rcv[u] \in Receiver
  BY DEF TypeOK
<1>2. QED
  BY <1>1 DEF Sender, Receiver

(* What is left of the pipes after some ends were closed *)
LEMMA FreedPipes ==
  ASSUME TypeOK, FreeUnused
  PROVE  /\ pipe' \in [Users -> [Fifo -> Seq(Unit)]]
         /\ \A u \in Users : \A i \in Fifo :
              \/ pipe'[u][i] = <<>>
              \/ pipe'[u][i] = pipe[u][i] /\ (HasReader(u, i)' \/ HasWriter(u, i)')
<1>1. ASSUME NEW u \in Users, NEW i \in Fifo
      PROVE  /\ pipe'[u][i] \in Seq(Unit)
             /\ \/ pipe'[u][i] = <<>>
                \/ pipe'[u][i] = pipe[u][i] /\ (HasReader(u, i)' \/ HasWriter(u, i)')
  <2>1. pipe[u][i] \in Seq(Unit) /\ <<>> \in Seq(Unit)
    BY DEF TypeOK
  <2>2. pipe'[u][i] = IF HasReader(u, i)' \/ HasWriter(u, i)' THEN pipe[u][i] ELSE <<>>
    BY DEF FreeUnused
  <2>3. QED
    BY <2>1, <2>2
<1>2. pipe' = [u \in Users |-> [i \in Fifo |-> pipe'[u][i]]]
  BY DEF FreeUnused
<1>3. pipe' \in [Users -> [Fifo -> Seq(Unit)]]
  BY <1>1, <1>2
<1>4. QED
  BY <1>1, <1>3

(* What the steps change *)
LEMMA DiesFacts ==
  ASSUME TypeOK, NEW u \in Users, Dies(u), UNCHANGED named
  PROVE  /\ TypeOK'
         /\ proc'[u] = "off" /\ snd'[u] = Idle /\ rcv'[u] = Closed /\ buffer'[u] = <<>>
         /\ \A v \in Users : v # u => /\ proc'[v] = proc[v] /\ snd'[v] = snd[v]
                                      /\ rcv'[v] = rcv[v] /\ buffer'[v] = buffer[v]
         /\ FreeUnused /\ UNCHANGED <<typed, shown, named>>
<1>1. Idle \in Sender /\ Closed \in Receiver /\ <<>> \in Seq(Unit)
  BY BoundsAssumption DEF Idle, Closed, Sender, Receiver
<1>2. pipe' \in [Users -> [Fifo -> Seq(Unit)]]
  BY FreedPipes DEF Dies
<1>3. /\ proc' = [proc EXCEPT ![u] = "off"] /\ snd' = [snd EXCEPT ![u] = Idle]
      /\ rcv' = [rcv EXCEPT ![u] = Closed] /\ buffer' = [buffer EXCEPT ![u] = <<>>]
      /\ FreeUnused /\ UNCHANGED <<starts, typed, shown, named>>
  BY DEF Dies
<1>4. QED
  BY <1>1, <1>2, <1>3 DEF TypeOK

LEMMA OpenSendFacts ==
  ASSUME TypeOK, NEW u \in Users, OpenSend(u)
  PROVE  /\ TypeOK' /\ proc[u] # "off" /\ snd[u].at = "input" /\ named[Friend(u)] \in Fifo
         /\ snd'[u].at \in {"wait", "write"} /\ snd'[u].ino = named[Friend(u)]
         /\ \E n \in 1..RECV_SIZE : typed' = typed + n /\ snd'[u].line = [k \in 1..n |-> typed + k]
         /\ \A v \in Users : v # u => snd'[v] = snd[v]
         /\ \A v \in Users : rcv'[v].ino = rcv[v].ino /\ (rcv'[v].at # "open" <=> rcv[v].at # "open")
         /\ UNCHANGED <<proc, named, pipe, buffer, shown>>
<1> USE BoundsAssumption
<1> DEFINE f == Friend(u)
<1>1. f \in Users /\ f # u
  BY Friends
<1>2. PICK n \in 1..RECV_SIZE :
        /\ Typed(u, n) /\ named[f] # 0
        /\ snd' = [snd EXCEPT ![u] = [at |-> IF HasReader(f, named[f]) THEN "write" ELSE "wait",
                                      ino |-> named[f], line |-> [k \in 1..n |-> typed + k]]]
        /\ rcv' = [rcv EXCEPT ![f].at = IF @ = "wait" /\ HasReader(f, named[f]) THEN "read" ELSE @]
        /\ UNCHANGED <<proc, starts, named, pipe, buffer, shown>>
  BY DEF OpenSend
<1>3. /\ typed' = typed + n /\ typed' \in 0..MaxUnits /\ typed \in Nat /\ named[f] \in Fifo
      /\ named[f] \in 0..MaxStarts /\ proc[u] # "off" /\ snd[u].at = "input"
  BY <1>1, <1>2 DEF TypeOK, Typed, Fifo
<1>4. PICK line : line = [k \in 1..n |-> typed + k]
  OBVIOUS
<1>5. line \in Seq(Unit)
  <2>1. \A k \in 1..n : typed + k \in Unit
    BY <1>3 DEF Unit
  <2>2. n \in Nat
    OBVIOUS
  <2>3. QED
    BY <1>4, <2>1, <2>2
<1>6. PICK s \in {"write", "wait"} : snd' = [snd EXCEPT ![u] = [at |-> s, ino |-> named[f], line |-> line]]
  BY <1>2, <1>4
<1>7. [at |-> s, ino |-> named[f], line |-> line] \in Sender
  BY <1>3, <1>5 DEF Sender
<1>8. /\ snd' \in [Users -> Sender] /\ snd'[u] = [at |-> s, ino |-> named[f], line |-> line]
      /\ \A v \in Users : v # u => snd'[v] = snd[v]
  BY <1>6, <1>7 DEF TypeOK
<1>9. PICK r : r = (IF rcv[f].at = "wait" /\ HasReader(f, named[f]) THEN "read" ELSE rcv[f].at)
  OBVIOUS
<1>10. r \in {"open", "wait", "read", "close"} /\ (r # "open" <=> rcv[f].at # "open")
  BY <1>1, <1>9, ThreadTypes
<1>11. rcv' = [rcv EXCEPT ![f].at = r]
  BY <1>2, <1>9
<1>12. /\ rcv' \in [Users -> Receiver] /\ rcv'[f].at = r /\ rcv'[f].ino = rcv[f].ino
       /\ \A v \in Users : v # f => rcv'[v] = rcv[v]
  BY <1>1, <1>10, <1>11, ReceiverMoves
<1>13. TypeOK'
  BY <1>2, <1>3, <1>8, <1>12 DEF TypeOK
<1>14. QED
  BY <1>2, <1>3, <1>4, <1>8, <1>10, <1>12, <1>13

LEMMA OpenRecvFacts ==
  ASSUME TypeOK, NEW u \in Users, OpenRecv(u)
  PROVE  /\ TypeOK' /\ proc[u] # "off" /\ rcv[u].at = "open" /\ named[u] \in Fifo
         /\ rcv'[u].ino = named[u] /\ rcv'[u].at # "open"
         /\ \A v \in Users : v # u => rcv'[v] = rcv[v]
         /\ \A v \in Users : /\ snd'[v].line = snd[v].line /\ snd'[v].ino = snd[v].ino
                             /\ snd'[v].at \in {"wait", "write"} => snd[v].at \in {"wait", "write"}
                             /\ snd'[v].at # "input" <=> snd[v].at # "input"
                             /\ snd'[v] # snd[v] => snd[v].at = "wait"
         /\ UNCHANGED <<proc, named, pipe, buffer, shown, typed>>
<1> USE BoundsAssumption
<1> DEFINE f == Friend(u)
<1>1. f \in Users /\ f # u
  BY Friends
<1>2. /\ named[u] \in 0..MaxStarts /\ named[u] \in Fifo /\ proc[u] # "off" /\ rcv[u].at = "open"
      /\ UNCHANGED <<proc, starts, named, pipe, buffer, shown, typed>>
  BY DEF OpenRecv, TypeOK, Fifo
<1>3. PICK r \in {"read", "wait"} : rcv' = [rcv EXCEPT ![u] = [at |-> r, ino |-> named[u]]]
  BY DEF OpenRecv
<1>4. [at |-> r, ino |-> named[u]] \in Receiver
  BY <1>2 DEF Receiver
<1>5. /\ rcv' \in [Users -> Receiver] /\ rcv'[u].ino = named[u] /\ rcv'[u].at # "open"
      /\ \A v \in Users : v # u => rcv'[v] = rcv[v]
  BY <1>3, <1>4 DEF TypeOK
<1>6. PICK s : s = (IF snd[f].at = "wait" /\ HasWriter(u, named[u]) THEN "write" ELSE snd[f].at)
  OBVIOUS
<1>7. snd[f] \in Sender /\ snd[f].at \in {"input", "wait", "write", "close"}
  BY <1>1, ThreadTypes
<1>8. s \in {"input", "wait", "write", "close"} /\ (s = snd[f].at \/ (s = "write" /\ snd[f].at = "wait"))
  BY <1>6, <1>7
<1>9. snd' = [snd EXCEPT ![f].at = s]
  BY <1>6 DEF OpenRecv
<1>10. /\ snd' \in [Users -> Sender] /\ snd'[f].at = s /\ snd'[f].line = snd[f].line
       /\ snd'[f].ino = snd[f].ino /\ \A v \in Users : v # f => snd'[v] = snd[v]
  BY <1>1, <1>8, <1>9, SenderMoves
<1>11. snd'[f] # snd[f] => snd[f].at = "wait"
  <2>1. snd[f].at # "wait" => s = snd[f].at
    BY <1>6
  <2>2. s = snd[f].at => [snd EXCEPT ![f].at = s] = snd
    BY <1>7 DEF TypeOK, Sender
  <2>3. QED
    BY <2>1, <2>2, <1>9
<1>12. TypeOK'
  BY <1>2, <1>5, <1>10 DEF TypeOK
<1>13. QED
  BY <1>2, <1>5, <1>8, <1>10, <1>11, <1>12

LEMMA WriteFacts ==
  ASSUME TypeOK, OffIsClosed, NEW u \in Users, Write(u)
  PROVE  /\ TypeOK' /\ proc[u] # "off" /\ snd[u].ino \in Fifo /\ HasReader(Friend(u), snd[u].ino)
         /\ snd[u].at = "write" /\ snd'[u].at = "close"
         /\ snd'[u].line = snd[u].line /\ snd'[u].ino = snd[u].ino
         /\ \A v \in Users : v # u => snd'[v] = snd[v] /\ pipe'[Friend(v)] = pipe[Friend(v)]
         /\ pipe'[Friend(u)] = [pipe[Friend(u)] EXCEPT ![snd[u].ino] = @ \o snd[u].line]
         /\ UNCHANGED <<proc, named, rcv, buffer, shown, typed>>
<1>1. /\ snd[u].at = "write" /\ snd' = [snd EXCEPT ![u].at = "close"]
      /\ pipe' = [pipe EXCEPT ![Friend(u)][snd[u].ino] = @ \o snd[u].line]
      /\ proc[u] # "off" /\ HasReader(Friend(u), snd[u].ino)
      /\ UNCHANGED <<proc, starts, named, rcv, buffer, typed, shown>>
  BY DEF Write
<1>2. /\ snd' \in [Users -> Sender] /\ snd'[u].at = "close" /\ snd'[u].line = snd[u].line
      /\ snd'[u].ino = snd[u].ino /\ \A v \in Users : v # u => snd'[v] = snd[v]
  BY <1>1, SenderMoves
<1>3. snd[u].ino \in Fifo /\ snd[u].line \in Seq(Unit)
  BY <1>1, ThreadTypes, BoundsAssumption DEF OffIsClosed, Fifo
<1>4. PICK i \in Fifo, line \in Seq(Unit) : i = snd[u].ino /\ line = snd[u].line
  BY <1>3
<1>5. PICK f \in Users : f = Friend(u)
  BY Friends
<1>6. pipe \in [Users -> [Fifo -> Seq(Unit)]] /\ pipe' = [pipe EXCEPT ![f][i] = @ \o line]
  BY <1>1, <1>4, <1>5 DEF TypeOK
<1>7. pipe[f] \in [Fifo -> Seq(Unit)] /\ pipe[f][i] \in Seq(Unit)
  BY <1>6
<1>8. pipe[f][i] \o line \in Seq(Unit)
  BY <1>7, ConcatProperties
<1>9. [pipe[f] EXCEPT ![i] = @ \o line] \in [Fifo -> Seq(Unit)]
  BY <1>7, <1>8
<1>10. pipe' = [pipe EXCEPT ![f] = [pipe[f] EXCEPT ![i] = @ \o line]]
  BY <1>6
<1>11. /\ pipe' \in [Users -> [Fifo -> Seq(Unit)]]
       /\ pipe'[f] = [pipe[f] EXCEPT ![i] = @ \o line]
       /\ \A g \in Users : g # f => pipe'[g] = pipe[g]
  BY <1>6, <1>9, <1>10
<1>12. TypeOK'
  BY <1>1, <1>2, <1>11 DEF TypeOK
<1>13. \A v \in Users : v # u => Friend(v) \in Users /\ Friend(v) # f
  BY <1>5 DEF Users, Friend
<1>14. QED
  BY <1>1, <1>2, <1>3, <1>4, <1>5, <1>11, <1>12, <1>13

LEMMA CloseSendFacts ==
  ASSUME TypeOK, NEW u \in Users, CloseSend(u)
  PROVE  /\ TypeOK' /\ proc[u] # "off"
         /\ snd'[u] = Idle /\ \A v \in Users : v # u => snd'[v] = snd[v]
         /\ FreeUnused /\ UNCHANGED <<proc, named, rcv, buffer, shown, typed>>
<1>1. Idle \in Sender
  BY BoundsAssumption DEF Idle, Sender
<1>2. pipe' \in [Users -> [Fifo -> Seq(Unit)]]
  BY FreedPipes DEF CloseSend
<1>3. /\ snd' = [snd EXCEPT ![u] = Idle] /\ proc[u] # "off" /\ FreeUnused
      /\ UNCHANGED <<proc, starts, named, rcv, buffer, typed, shown>>
  BY DEF CloseSend
<1>4. QED
  BY <1>1, <1>2, <1>3 DEF TypeOK

LEMMA CloseRecvFacts ==
  ASSUME TypeOK, NEW u \in Users, CloseRecv(u)
  PROVE  /\ TypeOK' /\ proc[u] # "off"
         /\ rcv'[u] = Closed /\ \A v \in Users : v # u => rcv'[v] = rcv[v]
         /\ FreeUnused /\ UNCHANGED <<proc, named, snd, buffer, shown, typed>>
<1>1. Closed \in Receiver
  BY BoundsAssumption DEF Closed, Receiver
<1>2. pipe' \in [Users -> [Fifo -> Seq(Unit)]]
  BY FreedPipes DEF CloseRecv
<1>3. /\ rcv' = [rcv EXCEPT ![u] = Closed] /\ proc[u] # "off" /\ FreeUnused
      /\ UNCHANGED <<proc, starts, named, snd, buffer, typed, shown>>
  BY DEF CloseRecv
<1>4. QED
  BY <1>1, <1>2, <1>3 DEF TypeOK

LEMMA ReadEofFacts ==
  ASSUME TypeOK, NEW u \in Users, ReadEof(u)
  PROVE  /\ TypeOK' /\ proc[u] # "off"
         /\ rcv[u].at = "read" /\ rcv'[u].at = "close" /\ rcv'[u].ino = rcv[u].ino
         /\ \A v \in Users : v # u => rcv'[v] = rcv[v]
         /\ UNCHANGED <<proc, named, snd, pipe, buffer, shown, typed>>
<1>1. /\ rcv[u].at = "read" /\ rcv' = [rcv EXCEPT ![u].at = "close"] /\ proc[u] # "off"
      /\ UNCHANGED <<proc, starts, named, snd, pipe, buffer, typed, shown>>
  BY DEF ReadEof, AtEof
<1>2. /\ rcv' \in [Users -> Receiver] /\ rcv'[u].at = "close" /\ rcv'[u].ino = rcv[u].ino
      /\ \A v \in Users : v # u => rcv'[v] = rcv[v]
  BY <1>1, ReceiverMoves
<1>3. QED
  BY <1>1, <1>2 DEF TypeOK

(* A full pipe b is read: what is taken goes before what recv_buffer held   *)
(* behind it, and the rest stays.                                           *)
Taken(b, old, n, new, rest) ==
  /\ b \in Seq(Unit) /\ old \in Seq(Unit) /\ new \in Seq(Unit) /\ rest \in Seq(Unit)
  /\ Len(b) \in Nat /\ Len(old) \in Nat /\ Len(new) \in Nat /\ n \in 1..Len(b) /\ n \in 1..Len(new)
  /\ \A k \in 1..n : new[k] = b[k]
  /\ \A k \in n + 1..Len(new) : k \in 1..Len(old) /\ new[k] = old[k]
  /\ Len(rest) = Len(b) - n /\ \A k \in 1..Len(rest) : rest[k] = b[n + k]

LEMMA Take ==
  ASSUME NEW b \in Seq(Unit), b # <<>>, NEW old \in Seq(Unit), NEW n \in 1..Len(b)
  PROVE  Taken(b, old, n, SubSeq(b, 1, n) \o SubSeq(old, n + 1, Len(old)), SubSeq(b, n + 1, Len(b)))
<1>1. Len(b) \in Nat /\ Len(old) \in Nat /\ n \in Int /\ n + 1 \in Int /\ Len(b) \in Int /\ Len(old) \in Int
  BY LenProperties
<1>2. PICK head, tail, rest : /\ head = SubSeq(b, 1, n) /\ tail = SubSeq(old, n + 1, Len(old))
                              /\ rest = SubSeq(b, n + 1, Len(b))
  OBVIOUS
<1>3. head \in Seq(Unit) /\ Len(head) = n /\ \A k \in 1..n : head[k] = b[k]
  <2>1. \A k \in 1..n : b[k] \in Unit
    BY <1>1, ElementOfSeq
  <2>2. /\ SubSeq(b, 1, n) \in Seq(Unit) /\ Len(SubSeq(b, 1, n)) = IF 1 <= n THEN n - 1 + 1 ELSE 0
        /\ \A i \in 1 .. n - 1 + 1 : SubSeq(b, 1, n)[i] = b[1 + i - 1]
    BY <1>1, <2>1, SubSeqProperties
  <2>3. QED
    BY <1>2, <2>2
<1>4. /\ rest \in Seq(Unit) /\ Len(rest) = Len(b) - n /\ \A k \in 1..Len(rest) : rest[k] = b[n + k]
  <2>1. \A k \in n + 1..Len(b) : b[k] \in Unit
    BY <1>1, ElementOfSeq
  <2>2. /\ SubSeq(b, n + 1, Len(b)) \in Seq(Unit)
        /\ Len(SubSeq(b, n + 1, Len(b))) = IF n + 1 <= Len(b) THEN Len(b) - (n + 1) + 1 ELSE 0
        /\ \A i \in 1 .. Len(b) - (n + 1) + 1 : SubSeq(b, n + 1, Len(b))[i] = b[(n + 1) + i - 1]
    BY <1>1, <2>1, SubSeqProperties
  <2>3. QED
    BY <1>1, <1>2, <2>2
<1>5. /\ tail \in Seq(Unit) /\ Len(tail) = IF n + 1 <= Len(old) THEN Len(old) - n ELSE 0
      /\ \A k \in 1..Len(tail) : n + k \in 1..Len(old) /\ tail[k] = old[n + k]
  <2>1. \A k \in n + 1..Len(old) : old[k] \in Unit
    BY <1>1, ElementOfSeq
  <2>2. /\ SubSeq(old, n + 1, Len(old)) \in Seq(Unit)
        /\ Len(SubSeq(old, n + 1, Len(old))) = IF n + 1 <= Len(old) THEN Len(old) - (n + 1) + 1 ELSE 0
        /\ \A i \in 1 .. Len(old) - (n + 1) + 1 : SubSeq(old, n + 1, Len(old))[i] = old[(n + 1) + i - 1]
    BY <1>1, <2>1, SubSeqProperties
  <2>3. Len(tail) = IF n + 1 <= Len(old) THEN Len(old) - n ELSE 0
    BY <1>1, <1>2, <2>2
  <2>4. ASSUME NEW k \in 1..Len(tail) PROVE n + k \in 1..Len(old) /\ tail[k] = old[n + k]
    <3>1. k \in 1..Len(old) - (n + 1) + 1 /\ (n + 1) + k - 1 = n + k /\ n + k \in 1..Len(old)
      BY <1>1, <2>3
    <3>2. QED
      BY <1>2, <2>2, <3>1
  <2>5. QED
    BY <1>2, <2>2, <2>3, <2>4
<1>6. /\ head \o tail \in Seq(Unit) /\ Len(head \o tail) = n + Len(tail)
      /\ \A k \in 1..n + Len(tail) : (head \o tail)[k] = IF k <= n THEN head[k] ELSE tail[k - n]
  <2>1. head \in Seq(Unit) /\ tail \in Seq(Unit) /\ Len(head) = n
    BY <1>3, <1>5
  <2>2. /\ head \o tail \in Seq(Unit) /\ Len(head \o tail) = Len(head) + Len(tail)
        /\ \A k \in 1..Len(head) + Len(tail) :
             (head \o tail)[k] = IF k <= Len(head) THEN head[k] ELSE tail[k - Len(head)]
    BY <2>1, ConcatProperties
  <2>3. QED
    BY <2>1, <2>2
<1>7. PICK new : new = head \o tail
  OBVIOUS
<1>8. Taken(b, old, n, new, rest)
  <2>1. Len(tail) \in Nat
    BY <1>1, <1>5
  <2>2. \A k \in n + 1..Len(new) : k \in 1..Len(old) /\ new[k] = old[k]
    <3> SUFFICES ASSUME NEW k \in n + 1..Len(new) PROVE k \in 1..Len(old) /\ new[k] = old[k]
      OBVIOUS
    <3>1. k - n \in 1..Len(tail) /\ n + (k - n) = k /\ new[k] = tail[k - n]
      BY <1>1, <1>6, <1>7, <2>1
    <3>2. QED
      BY <1>5, <3>1
  <2>3. QED
    BY <1>1, <1>3, <1>4, <1>6, <1>7, <2>1, <2>2 DEF Taken
<1>9. QED
  BY <1>2, <1>7, <1>8

LEMMA ReadFacts ==
  ASSUME TypeOK, OffIsClosed, NEW u \in Users, Read(u)
  PROVE  /\ TypeOK' /\ proc[u] # "off" /\ rcv[u].ino \in Fifo
         /\ rcv[u].at = "read" /\ rcv'[u].at = "close" /\ rcv'[u].ino = rcv[u].ino
         /\ pipe[u][rcv[u].ino] # <<>>
         /\ \E n \in Nat, new, rest \in Seq(Unit) :
              /\ Taken(pipe[u][rcv[u].ino], buffer[u], n, new, rest)
              /\ pipe'[u] = [pipe[u] EXCEPT ![rcv[u].ino] = rest]
              /\ buffer'[u] = new /\ shown'[u] = Append(shown[u], new)
         /\ \A v \in Users : v # u => /\ rcv'[v] = rcv[v] /\ pipe'[v] = pipe[v]
                                      /\ buffer'[v] = buffer[v] /\ shown'[v] = shown[v]
         /\ UNCHANGED <<proc, named, snd, typed>>
<1>1. rcv[u].at = "read" /\ rcv[u].ino \in Fifo
  <2>1. rcv[u].at = "read"
    BY DEF Read
  <2>2. rcv[u].ino # 0 /\ rcv[u].ino \in 0..MaxStarts
    BY <2>1, ThreadTypes DEF OffIsClosed
  <2>3. QED
    BY <2>1, <2>2, BoundsAssumption DEF Fifo
<1>2. PICK i \in Fifo : i = rcv[u].ino
  BY <1>1
<1>3. PICK n : n = IF Len(pipe[u][i]) < RECV_SIZE THEN Len(pipe[u][i]) ELSE RECV_SIZE
  OBVIOUS
<1>4. /\ pipe[u][i] # <<>> /\ proc[u] # "off" /\ rcv' = [rcv EXCEPT ![u].at = "close"]
      /\ buffer' = [buffer EXCEPT ![u] = SubSeq(pipe[u][i], 1, n) \o SubSeq(@, n + 1, Len(@))]
      /\ pipe' = [pipe EXCEPT ![u][i] = SubSeq(@, n + 1, Len(@))]
      /\ shown' = [shown EXCEPT ![u] = Append(@, buffer'[u])]
      /\ UNCHANGED <<proc, starts, named, snd, typed>>
  BY <1>2, <1>3 DEF Read
<1>5. pipe \in [Users -> [Fifo -> Seq(Unit)]] /\ pipe[u] \in [Fifo -> Seq(Unit)] /\ pipe[u][i] \in Seq(Unit)
  BY DEF TypeOK
<1>6. n \in 1..Len(pipe[u][i]) /\ n \in Nat
  <2>1. Len(pipe[u][i]) \in Nat \ {0}
    BY <1>4, <1>5, EmptySeq
  <2>2. QED
    BY <1>3, <2>1, BoundsAssumption
<1>7. buffer \in [Users -> Seq(Unit)] /\ buffer[u] \in Seq(Unit) /\ shown[u] \in Seq(Seq(Unit))
  BY DEF TypeOK
<1>8. PICK new, rest : /\ new = SubSeq(pipe[u][i], 1, n) \o SubSeq(buffer[u], n + 1, Len(buffer[u]))
                       /\ rest = SubSeq(pipe[u][i], n + 1, Len(pipe[u][i]))
  OBVIOUS
<1>9. Taken(pipe[u][i], buffer[u], n, new, rest)
  BY <1>4, <1>5, <1>6, <1>7, <1>8, Take
<1>10. new \in Seq(Unit) /\ rest \in Seq(Unit)
  BY <1>9 DEF Taken
<1>11. buffer' = [buffer EXCEPT ![u] = new] /\ pipe' = [pipe EXCEPT ![u][i] = rest]
  BY <1>4, <1>8
<1>12. /\ buffer' \in [Users -> Seq(Unit)] /\ buffer'[u] = new
       /\ \A v \in Users : v # u => buffer'[v] = buffer[v]
  BY <1>7, <1>10, <1>11
<1>13. /\ pipe' \in [Users -> [Fifo -> Seq(Unit)]] /\ pipe'[u] = [pipe[u] EXCEPT ![i] = rest]
       /\ \A v \in Users : v # u => pipe'[v] = pipe[v]
  <2>1. [pipe[u] EXCEPT ![i] = rest] \in [Fifo -> Seq(Unit)]
    BY <1>5, <1>10
  <2>2. pipe' = [pipe EXCEPT ![u] = [pipe[u] EXCEPT ![i] = rest]]
    BY <1>11
  <2>3. QED
    BY <1>5, <2>1, <2>2
<1>14. /\ shown' \in [Users -> Seq(Seq(Unit))] /\ shown'[u] = Append(shown[u], new)
       /\ \A v \in Users : v # u => shown'[v] = shown[v]
  <2>1. Append(shown[u], new) \in Seq(Seq(Unit))
    BY <1>7, <1>10, AppendProperties
  <2>2. shown \in [Users -> Seq(Seq(Unit))]
    BY DEF TypeOK
  <2>3. shown' = [shown EXCEPT ![u] = Append(shown[u], new)]
    BY <1>4, <1>12
  <2>4. QED
    BY <2>1, <2>2, <2>3
<1>15. /\ rcv' \in [Users -> Receiver] /\ rcv'[u].at = "close" /\ rcv'[u].ino = rcv[u].ino
       /\ \A v \in Users : v # u => rcv'[v] = rcv[v]
  BY <1>4, ReceiverMoves
<1>16. TypeOK'
  BY <1>4, <1>12, <1>13, <1>14, <1>15 DEF TypeOK
<1>17. QED
  BY <1>1, <1>2, <1>4, <1>6, <1>9, <1>10, <1>12, <1>13, <1>14, <1>15, <1>16

LEMMA TypeStep ==
  ASSUME IInv, [Next]_vars
  PROVE  TypeOK'
<1> USE DEF IInv
<1>1. ASSUME NEW u \in Users, Start(u) PROVE TypeOK'
  <2>1. starts'[u] \in 1..MaxStarts
    BY <1>1, BoundsAssumption DEF Start, TypeOK
  <2>2. named' \in [Users -> 0..MaxStarts]
    BY <1>1, <2>1, BoundsAssumption DEF Start, TypeOK
  <2>3. QED
    BY <1>1, <2>1, <2>2, BoundsAssumption DEF Start, TypeOK
<1>2. ASSUME NEW u \in Users, NotOnline(u) PROVE TypeOK'
  BY <1>2, BoundsAssumption DEF NotOnline, Typed, TypeOK
<1>3. ASSUME NEW u \in Users, Interrupt(u) PROVE TypeOK'
  BY <1>3, BoundsAssumption DEF Interrupt, TypeOK
<1>4. ASSUME NEW u \in Users, OpenSend(u) \/ SendThread(u) PROVE TypeOK'
  BY <1>4, OpenSendFacts, WriteFacts, CloseSendFacts, DiesFacts DEF SendThread, SigPipe
<1>5. ASSUME NEW u \in Users, RecvThread(u) PROVE TypeOK'
  BY <1>5, OpenRecvFacts, ReadFacts, ReadEofFacts, CloseRecvFacts, DiesFacts DEF RecvThread, OpenRecvFails
<1>6. ASSUME NEW u \in Users, Exit(u) \/ Kill(u) PROVE TypeOK'
  BY <1>6, DiesFacts DEF Exit, Kill
<1>7. CASE UNCHANGED vars
  BY <1>7 DEF vars, TypeOK
<1>8. QED
  BY <1>1, <1>2, <1>3, <1>4, <1>5, <1>6, <1>7 DEF Next

(* Only a running process opens anything. *)
LEMMA OffStep ==
  ASSUME IInv, [Next]_vars
  PROVE  OffIsClosed'
<1> USE DEF OffIsClosed, IInv
<1>0. Idle.at = "input" /\ Closed.at = "open"
  BY DEF Idle, Closed
<1>1. ASSUME NEW u \in Users, Start(u) \/ NotOnline(u) \/ Interrupt(u) PROVE OffIsClosed'
  BY <1>1 DEF Start, NotOnline, Typed, Interrupt, TypeOK
<1>2. ASSUME NEW u \in Users, OpenSend(u) PROVE OffIsClosed'
  <2>1. /\ proc[u] # "off" /\ snd'[u].ino \in Fifo
        /\ \A v \in Users : v # u => snd'[v] = snd[v]
        /\ \A v \in Users : rcv'[v].ino = rcv[v].ino /\ (rcv'[v].at # "open" <=> rcv[v].at # "open")
        /\ TypeOK' /\ UNCHANGED <<proc, named>>
    BY <1>2, OpenSendFacts
  <2>2. ASSUME NEW v \in Users, rcv[v] = Closed PROVE rcv'[v] = Closed
    <3>1. rcv[v].at = "open" /\ rcv[v].ino = 0
      BY <2>2 DEF Closed
    <3>2. rcv'[v].at = "open" /\ rcv'[v].ino = 0
      BY <2>1, <3>1
    <3>3. rcv'[v] \in Receiver
      BY <2>1 DEF TypeOK
    <3>4. QED
      BY <3>2, <3>3 DEF Closed, Receiver
  <2>3. snd'[u].ino # 0
    BY <2>1 DEF Fifo
  <2>4. QED
    BY <2>1, <2>2, <2>3
<1>3. ASSUME NEW u \in Users, OpenRecv(u) PROVE OffIsClosed'
  <2>1. \A v \in Users : snd[v] = Idle => snd'[v] = Idle
    BY <1>3, OpenRecvFacts DEF Idle
  <2>2. named[u] # 0
    BY <1>3 DEF OpenRecv
  <2>3. QED
    BY <1>3, <2>1, <2>2, OpenRecvFacts
<1>4. ASSUME NEW u \in Users, Write(u) PROVE OffIsClosed'
  <2>1. /\ proc[u] # "off" /\ snd[u].at = "write" /\ snd'[u].ino = snd[u].ino
        /\ \A v \in Users : v # u => snd'[v] = snd[v]
        /\ UNCHANGED <<proc, named, rcv>>
    BY <1>4, WriteFacts
  <2>2. QED
    BY <2>1
<1>5. ASSUME NEW u \in Users, CloseSend(u) PROVE OffIsClosed'
  BY <1>0, <1>5, CloseSendFacts
<1>6. ASSUME NEW u \in Users, CloseRecv(u) PROVE OffIsClosed'
  BY <1>0, <1>6, CloseRecvFacts
<1>7. ASSUME NEW u \in Users, Read(u) \/ ReadEof(u) PROVE OffIsClosed'
  <2>1. /\ proc[u] # "off" /\ rcv[u].at = "read" /\ rcv'[u].ino = rcv[u].ino
        /\ \A v \in Users : v # u => rcv'[v] = rcv[v]
        /\ UNCHANGED <<proc, named, snd>>
    BY <1>7, ReadFacts, ReadEofFacts
  <2>2. QED
    BY <2>1
<1>8. ASSUME NEW u \in Users, SigPipe(u) \/ OpenRecvFails(u) \/ Exit(u) \/ Kill(u) PROVE OffIsClosed'
  BY <1>0, <1>8, DiesFacts DEF SigPipe, OpenRecvFails, Exit, Kill
<1>9. CASE UNCHANGED vars
  BY <1>9 DEF vars
<1>10. QED
  BY <1>1, <1>2, <1>3, <1>4, <1>5, <1>6, <1>7, <1>8, <1>9 DEF Next, SendThread, RecvThread

(* The name is taken away by its own user's handler only, and given back    *)
(* before the next run has a thread.                                        *)
LEMMA ReachableStep ==
  ASSUME IInv, [Next]_vars
  PROVE  Reachable'
<1> USE DEF Reachable, IInv
<1>0. Closed.at = "open"
  BY DEF Closed
<1>1. ASSUME NEW u \in Users, Start(u) PROVE Reachable'
  <2>1. rcv[u].at = "open" /\ starts'[u] # 0
    BY <1>1, BoundsAssumption DEF Start, OffIsClosed, Closed, TypeOK
  <2>2. named'[u] # 0
    BY <1>1, <2>1 DEF Start, TypeOK
  <2>3. QED
    BY <1>1, <2>1, <2>2 DEF Start, TypeOK
<1>2. ASSUME NEW u \in Users, NotOnline(u) \/ Interrupt(u) PROVE Reachable'
  BY <1>2 DEF NotOnline, Interrupt, TypeOK
<1>3. ASSUME NEW u \in Users, OpenSend(u) PROVE Reachable'
  BY <1>3, OpenSendFacts
<1>4. ASSUME NEW u \in Users, OpenRecv(u) PROVE Reachable'
  BY <1>4, OpenRecvFacts
<1>5. ASSUME NEW u \in Users, Write(u) \/ CloseSend(u) PROVE Reachable'
  <2>1. UNCHANGED <<proc, named, rcv>>
    BY <1>5, WriteFacts, CloseSendFacts
  <2>2. QED
    BY <2>1
<1>6. ASSUME NEW u \in Users, Read(u) \/ ReadEof(u) PROVE Reachable'
  <2>1. /\ rcv[u].at = "read" /\ rcv'[u].ino = rcv[u].ino
        /\ \A v \in Users : v # u => rcv'[v] = rcv[v]
        /\ UNCHANGED <<proc, named>>
    BY <1>6, ReadFacts, ReadEofFacts
  <2>2. QED
    BY <2>1
<1>7. ASSUME NEW u \in Users, CloseRecv(u) PROVE Reachable'
  BY <1>0, <1>7, CloseRecvFacts
<1>8. ASSUME NEW u \in Users, SigPipe(u) \/ OpenRecvFails(u) \/ Exit(u) \/ Kill(u) PROVE Reachable'
  BY <1>8, DiesFacts DEF SigPipe, OpenRecvFails, Exit, Kill
<1>9. CASE UNCHANGED vars
  BY <1>9 DEF vars
<1>10. QED
  BY <1>1, <1>2, <1>3, <1>4, <1>5, <1>6, <1>7, <1>8, <1>9 DEF Next, SendThread, RecvThread

(* A sender opens the FIFO that has the name, and that is the one the       *)
(* receiver holds; a pipe with no end open is freed.                        *)
LEMMA HeldStep ==
  ASSUME IInv, [Next]_vars
  PROVE  HeldOpen'
<1> USE DEF IInv
<1>0. Idle.at = "input" /\ Closed.at = "open"
  BY DEF Idle, Closed
<1>1. ASSUME FreeUnused,
             \A v \in Users : snd'[v] = snd[v] \/ snd'[v].at = "input"
      PROVE  HeldOpen'
  <2> SUFFICES ASSUME NEW v \in Users, NEW i \in Fifo, pipe'[v][i] # <<>>
               PROVE  IF snd'[Friend(v)].at = "input" THEN HasReader(v, i)' ELSE HasWriter(v, i)'
    BY DEF HeldOpen
  <2>1. pipe'[v][i] = pipe[v][i] /\ (HasReader(v, i)' \/ HasWriter(v, i)')
    BY <1>1, FreedPipes
  <2>2. CASE snd'[Friend(v)].at = "input"
    BY <2>1, <2>2 DEF HasWriter
  <2>3. CASE snd'[Friend(v)].at # "input"
    <3>1. snd'[Friend(v)] = snd[Friend(v)]
      BY <1>1, <2>3, Friends
    <3>2. HasWriter(v, i)
      BY <2>1, <2>3, <3>1 DEF HeldOpen
    <3>3. QED
      BY <2>3, <3>1, <3>2 DEF HasWriter
  <2>4. QED
    BY <2>2, <2>3
<1>2. ASSUME NEW u \in Users, Start(u) \/ NotOnline(u) \/ Interrupt(u) PROVE HeldOpen'
  <2>1. UNCHANGED <<snd, rcv, pipe>>
    BY <1>2 DEF Start, NotOnline, Interrupt
  <2>2. QED
    BY <2>1 DEF HeldOpen, HasReader, HasWriter
<1>3. ASSUME NEW u \in Users, OpenSend(u) PROVE HeldOpen'
  <2> SUFFICES ASSUME NEW v \in Users, NEW i \in Fifo, pipe'[v][i] # <<>>
               PROVE  IF snd'[Friend(v)].at = "input" THEN HasReader(v, i)' ELSE HasWriter(v, i)'
    BY DEF HeldOpen
  <2>1. /\ snd[u].at = "input" /\ snd'[u].at \in {"wait", "write"} /\ snd'[u].ino = named[Friend(u)]
        /\ \A w \in Users : w # u => snd'[w] = snd[w]
        /\ \A w \in Users : rcv'[w].ino = rcv[w].ino /\ (rcv'[w].at # "open" <=> rcv[w].at # "open")
        /\ named[Friend(u)] \in Fifo /\ pipe' = pipe
    BY <1>3, OpenSendFacts
  <2>2. CASE Friend(v) # u
    BY <2>1, <2>2, Friends DEF HeldOpen, HasReader, HasWriter
  <2>3. CASE Friend(v) = u
    <3>1. v = Friend(u)
      BY <2>3, Friends
    <3>2. HasReader(v, i)
      BY <2>1, <2>3 DEF HeldOpen
    <3>3. proc[v] # "off" /\ proc[v] # "unlinked"
      BY <2>1, <3>1, <3>2, <1>0 DEF HasReader, OffIsClosed, Fifo
    <3>4. named[v] = i
      BY <3>2, <3>3 DEF HasReader, Reachable, TypeOK
    <3>5. QED
      BY <2>1, <2>3, <3>1, <3>4 DEF HasWriter
  <2>4. QED
    BY <2>2, <2>3
<1>4. ASSUME NEW u \in Users, OpenRecv(u) PROVE HeldOpen'
  <2> SUFFICES ASSUME NEW v \in Users, NEW i \in Fifo, pipe'[v][i] # <<>>
               PROVE  IF snd'[Friend(v)].at = "input" THEN HasReader(v, i)' ELSE HasWriter(v, i)'
    BY DEF HeldOpen
  <2>1. /\ rcv[u].at = "open" /\ \A w \in Users : w # u => rcv'[w] = rcv[w]
        /\ \A w \in Users : snd'[w].ino = snd[w].ino /\ (snd'[w].at # "input" <=> snd[w].at # "input")
        /\ pipe' = pipe
    BY <1>4, OpenRecvFacts
  <2>2. IF snd[Friend(v)].at = "input" THEN HasReader(v, i) ELSE HasWriter(v, i)
    BY <2>1 DEF HeldOpen
  <2>3. HasReader(v, i) => v # u
    BY <2>1 DEF HasReader
  <2>4. QED
    BY <2>1, <2>2, <2>3, Friends DEF HasReader, HasWriter
<1>5. ASSUME NEW u \in Users, Write(u) PROVE HeldOpen'
  <2> SUFFICES ASSUME NEW v \in Users, NEW i \in Fifo, pipe'[v][i] # <<>>
               PROVE  IF snd'[Friend(v)].at = "input" THEN HasReader(v, i)' ELSE HasWriter(v, i)'
    BY DEF HeldOpen
  <2>1. /\ snd[u].at = "write" /\ snd'[u].at = "close" /\ snd'[u].ino = snd[u].ino /\ snd[u].ino \in Fifo
        /\ \A w \in Users : w # u => snd'[w] = snd[w] /\ pipe'[Friend(w)] = pipe[Friend(w)]
        /\ pipe'[Friend(u)] = [pipe[Friend(u)] EXCEPT ![snd[u].ino] = @ \o snd[u].line]
        /\ rcv' = rcv
    BY <1>5, WriteFacts
  <2>2. CASE v = Friend(u) /\ i = snd[u].ino
    BY <2>1, <2>2, Friends DEF HasWriter
  <2>3. CASE ~(v = Friend(u) /\ i = snd[u].ino)
    <3>1. pipe'[v][i] = pipe[v][i]
      <4>1. CASE v = Friend(u)
        <5>1. pipe[v] \in [Fifo -> Seq(Unit)]
          BY DEF TypeOK
        <5>2. QED
          BY <2>1, <2>3, <4>1, <5>1
      <4>2. CASE v # Friend(u)
        <5>1. Friend(v) \in Users /\ Friend(v) # u /\ Friend(Friend(v)) = v
          BY <4>2, Friends
        <5>2. QED
          BY <2>1, <5>1
      <4>3. QED
        BY <4>1, <4>2
    <3>2. IF snd[Friend(v)].at = "input" THEN HasReader(v, i) ELSE HasWriter(v, i)
      BY <3>1 DEF HeldOpen
    <3>3. QED
      BY <2>1, <3>2, Friends DEF HasReader, HasWriter
  <2>4. QED
    BY <2>2, <2>3
<1>6. ASSUME NEW u \in Users, CloseSend(u) PROVE HeldOpen'
  BY <1>0, <1>1, <1>6, CloseSendFacts
<1>7. ASSUME NEW u \in Users, CloseRecv(u) PROVE HeldOpen'
  BY <1>1, <1>7, CloseRecvFacts
<1>8. ASSUME NEW u \in Users, Read(u) \/ ReadEof(u) PROVE HeldOpen'
  <2> SUFFICES ASSUME NEW v \in Users, NEW i \in Fifo, pipe'[v][i] # <<>>
               PROVE  IF snd'[Friend(v)].at = "input" THEN HasReader(v, i)' ELSE HasWriter(v, i)'
    BY DEF HeldOpen
  <2>1. /\ rcv[u].at = "read" /\ rcv'[u].at = "close" /\ rcv'[u].ino = rcv[u].ino
        /\ \A w \in Users : w # u => rcv'[w] = rcv[w]
        /\ snd' = snd
    BY <1>8, ReadFacts, ReadEofFacts
  <2>2. pipe[v][i] # <<>>
    <3>1. CASE ReadEof(u)
      BY <3>1, ReadEofFacts
    <3>2. CASE Read(u)
      <4>1. /\ pipe[u][rcv[u].ino] # <<>>
            /\ \E rest : pipe'[u] = [pipe[u] EXCEPT ![rcv[u].ino] = rest]
            /\ \A w \in Users : w # u => pipe'[w] = pipe[w]
        BY <3>2, ReadFacts
      <4>2. pipe[u] \in [Fifo -> Seq(Unit)]
        BY DEF TypeOK
      <4>3. QED
        BY <4>1, <4>2
    <3>3. QED
      BY <1>8, <3>1, <3>2
  <2>3. IF snd[Friend(v)].at = "input" THEN HasReader(v, i) ELSE HasWriter(v, i)
    BY <2>2 DEF HeldOpen
  <2>4. QED
    BY <2>1, <2>3 DEF HasReader, HasWriter
<1>9. ASSUME NEW u \in Users, SigPipe(u) \/ OpenRecvFails(u) \/ Exit(u) \/ Kill(u) PROVE HeldOpen'
  BY <1>0, <1>1, <1>9, DiesFacts DEF SigPipe, OpenRecvFails, Exit, Kill
<1>10. CASE UNCHANGED vars
  BY <1>10 DEF vars, HeldOpen, HasReader, HasWriter
<1>11. QED
  BY <1>2, <1>3, <1>4, <1>5, <1>6, <1>7, <1>8, <1>9, <1>10 DEF Next, SendThread, RecvThread

-----------------------------------------------------------------------------
(* The text on its way to one user: old is what was printed, P his FIFOs,   *)
(* s the sender, and t counts what was typed.                               *)
InOrder(old, P, s, t) ==
  /\ \A x \in old : x <= t
  /\ \A i \in Fifo : /\ Ordered(P[i])
                     /\ \A k \in 1..Len(P[i]) : P[i][k] <= t /\ \A x \in old : x < P[i][k]
  /\ Ordered(s.line) /\ (s.at # "input" => s.line # <<>>)
  /\ \A k \in 1..Len(s.line) :
       /\ s.line[k] <= t
       /\ s.at \in {"wait", "write"} =>
            /\ \A x \in old : x < s.line[k]
            /\ \A i \in Fifo : \A j \in 1..Len(P[i]) : P[i][j] < s.line[k]

Old(u) == Printed(shown[u], Len(shown[u]))

LEMMA OrderParts ==
  OnItsWay <=> \A u \in Users : /\ ToSet(buffer[u]) \subseteq Old(u)
                                /\ InOrder(Old(u), pipe[u], snd[Friend(u)], typed)
  BY DEF OnItsWay, InOrder, Old

LEMMA OrderPartsNext ==
  OnItsWay' <=> \A u \in Users : /\ ToSet(buffer'[u]) \subseteq Old(u)'
                                 /\ InOrder(Old(u)', pipe'[u], snd'[Friend(u)], typed')
  BY DEF OnItsWay, InOrder, Old

LEMMA OldUnits ==
  ASSUME TypeOK, NEW u \in Users
  PROVE  Old(u) \subseteq Unit
<1>1. shown[u] \in Seq(Seq(Unit)) /\ Len(shown[u]) \in Nat
  BY DEF TypeOK
<1>2. ASSUME NEW x \in Old(u) PROVE x \in Unit
  <2> DEFINE p == shown[u]
  <2>0. PICK n : n = Len(p)
    OBVIOUS
  <2>1. p \in Seq(Seq(Unit)) /\ n \in 0..Len(p) /\ x \in Printed(p, n)
    BY <1>1, <1>2, <2>0 DEF Old
  <2>2. PICK m \in 1..Len(p) : \E k \in 1..Len(p[m]) : x = p[m][k]
    <3> HIDE DEF p
    <3>1. x \in Printed(p, n) <=> \E m \in 1..n : \E k \in 1..Len(p[m]) : x = p[m][k]
      BY <2>1, PrintedMember
    <3>2. QED
      BY <2>0, <2>1, <3>1
  <2>3. p[m] \in Seq(Unit)
    BY <1>1, ElementOfSeq
  <2>4. QED
    BY <2>2, <2>3, ElementOfSeq
<1>3. QED
  BY <1>2

LEMMA Numbers ==
  ASSUME NEW P \in [Fifo -> Seq(Unit)], NEW s \in Sender
  PROVE  /\ \A i \in Fifo : Len(P[i]) \in Nat /\ \A k \in 1..Len(P[i]) : P[i][k] \in Nat
         /\ s.line \in Seq(Unit) /\ Len(s.line) \in Nat /\ \A k \in 1..Len(s.line) : s.line[k] \in Nat
<1>1. Unit \subseteq Nat
  BY DEF Unit
<1>2. ASSUME NEW b \in Seq(Unit) PROVE Len(b) \in Nat /\ \A k \in 1..Len(b) : b[k] \in Nat
  BY <1>1, LenProperties, ElementOfSeq
<1>3. s.line \in Seq(Unit)
  BY DEF Sender
<1>4. QED
  BY <1>2, <1>3

(* Text that is lost leaves a gap; what is typed is newer than all else.    *)
LEMMA OrderFrame ==
  ASSUME NEW old \in SUBSET Unit, NEW P \in [Fifo -> Seq(Unit)], NEW Q \in [Fifo -> Seq(Unit)],
         NEW s \in Sender, NEW r \in Sender, NEW t \in Nat, NEW w \in Nat,
         InOrder(old, P, s, t), t <= w,
         \A i \in Fifo : Q[i] \in {P[i], <<>>},
         \/ r = Idle
         \/ /\ r.line = s.line /\ (r.at # "input" => s.at # "input")
            /\ r.at \in {"wait", "write"} => s.at \in {"wait", "write"}
         \/ \E n \in Nat \ {0} : w = t + n /\ r.line = [k \in 1..n |-> t + k]
  PROVE  InOrder(old, Q, r, w)
<1>1. old \subseteq Nat
  BY DEF Unit
<1>2. /\ \A i \in Fifo : Len(P[i]) \in Nat /\ \A k \in 1..Len(P[i]) : P[i][k] \in Nat
      /\ \A k \in 1..Len(s.line) : s.line[k] \in Nat
  BY Numbers
<1>3. \A x \in old : x <= t /\ x <= w
  BY <1>1 DEF InOrder
<1>4. ASSUME NEW i \in Fifo
      PROVE  /\ Ordered(Q[i])
             /\ \A k \in 1..Len(Q[i]) : /\ k \in 1..Len(P[i]) /\ Q[i][k] = P[i][k]
                                        /\ Q[i][k] <= w /\ Q[i][k] <= t /\ \A x \in old : x < Q[i][k]
  <2>1. CASE Q[i] = P[i]
    BY <1>2, <2>1 DEF InOrder
  <2>2. CASE Q[i] = <<>>
    BY <2>2 DEF Ordered
  <2>3. QED
    BY <2>1, <2>2
<1>5. CASE r = Idle
  <2>1. r.at = "input" /\ r.line = <<>>
    BY <1>5 DEF Idle
  <2>2. QED
    BY <1>3, <1>4, <2>1 DEF InOrder, Ordered
<1>6. CASE /\ r.line = s.line /\ (r.at # "input" => s.at # "input")
           /\ r.at \in {"wait", "write"} => s.at \in {"wait", "write"}
  <2>1. Ordered(r.line) /\ (r.at # "input" => r.line # <<>>)
    BY <1>6 DEF InOrder
  <2>2. ASSUME NEW k \in 1..Len(r.line)
        PROVE  /\ r.line[k] <= w
               /\ r.at \in {"wait", "write"} =>
                    /\ \A x \in old : x < r.line[k]
                    /\ \A i \in Fifo : \A j \in 1..Len(Q[i]) : Q[i][j] < r.line[k]
    <3>1. /\ s.line[k] <= t /\ s.line[k] \in Nat
          /\ s.at \in {"wait", "write"} =>
                    /\ \A x \in old : x < s.line[k]
                    /\ \A i \in Fifo : \A j \in 1..Len(P[i]) : P[i][j] < s.line[k]
      BY <1>2, <1>6 DEF InOrder
    <3>2. r.line[k] <= w
      BY <1>6, <3>1
    <3>3. QED
      BY <1>4, <1>6, <3>1, <3>2
  <2>3. QED
    BY <1>3, <1>4, <2>1, <2>2 DEF InOrder
<1>7. CASE \E n \in Nat \ {0} : w = t + n /\ r.line = [k \in 1..n |-> t + k]
  <2>1. PICK n \in Nat \ {0} : w = t + n /\ r.line = [k \in 1..n |-> t + k]
    BY <1>7
  <2>2. Len(r.line) = n /\ \A k \in 1..n : r.line[k] = t + k
    BY <2>1
  <2>3. Ordered(r.line) /\ r.line # <<>>
    BY <2>2 DEF Ordered
  <2>4. ASSUME NEW k \in 1..n
        PROVE  /\ r.line[k] <= w /\ \A x \in old : x < r.line[k]
               /\ \A i \in Fifo : \A j \in 1..Len(Q[i]) : Q[i][j] < r.line[k]
    <3>1. r.line[k] = t + k /\ t + k <= w
      BY <2>1, <2>2
    <3>2. \A x \in old : x < t + k
      BY <1>1, <1>3
    <3>3. ASSUME NEW i \in Fifo, NEW j \in 1..Len(Q[i]) PROVE Q[i][j] < t + k
      <4>1. Q[i][j] <= t /\ Q[i][j] \in Nat
        BY <1>2, <1>4
      <4>2. QED
        BY <4>1
    <3>4. QED
      BY <3>1, <3>2, <3>3
  <2>5. QED
    BY <1>3, <1>4, <2>2, <2>3, <2>4 DEF InOrder
<1>8. QED
  BY <1>5, <1>6, <1>7

(* A line that is written goes behind what is in the pipe. *)
LEMMA OrderWrite ==
  ASSUME NEW old \in SUBSET Unit, NEW P \in [Fifo -> Seq(Unit)],
         NEW s \in Sender, NEW r \in Sender, NEW t \in Nat, NEW i \in Fifo,
         InOrder(old, P, s, t), s.at = "write", r.at = "close", r.line = s.line
  PROVE  InOrder(old, [P EXCEPT ![i] = @ \o s.line], r, t)
<1>1. old \subseteq Nat
  BY DEF Unit
<1>2. /\ \A j \in Fifo : Len(P[j]) \in Nat /\ \A k \in 1..Len(P[j]) : P[j][k] \in Nat
      /\ s.line \in Seq(Unit) /\ Len(s.line) \in Nat /\ \A k \in 1..Len(s.line) : s.line[k] \in Nat
  BY Numbers
<1>3. PICK a, b, c : a \in Seq(Unit) /\ b \in Seq(Unit) /\ a = P[i] /\ b = s.line /\ c = a \o b
  BY <1>2
<1>4. /\ Len(c) = Len(a) + Len(b) /\ Len(a) \in Nat /\ Len(b) \in Nat
      /\ \A k \in 1..Len(a) + Len(b) : c[k] = IF k <= Len(a) THEN a[k] ELSE b[k - Len(a)]
  BY <1>2, <1>3, ConcatProperties
<1>5. /\ Ordered(a) /\ Ordered(b) /\ b # <<>>
      /\ \A k \in 1..Len(a) : a[k] <= t /\ \A x \in old : x < a[k]
      /\ \A k \in 1..Len(b) : b[k] <= t /\ (\A x \in old : x < b[k]) /\ \A j \in 1..Len(a) : a[j] < b[k]
  BY <1>3 DEF InOrder
<1>6. \A k \in 1..Len(c) : \/ k \in 1..Len(a) /\ c[k] = a[k]
                           \/ k > Len(a) /\ k - Len(a) \in 1..Len(b) /\ c[k] = b[k - Len(a)]
  BY <1>4
<1>7. Ordered(c)
  <2> SUFFICES ASSUME NEW j \in 1..Len(c), NEW k \in 1..Len(c), j < k PROVE c[j] < c[k]
    BY DEF Ordered
  <2>1. CASE k \in 1..Len(a) /\ c[k] = a[k]
    <3>1. j \in 1..Len(a) /\ c[j] = a[j]
      BY <1>4, <1>6, <2>1
    <3>2. QED
      BY <1>5, <2>1, <3>1 DEF Ordered
  <2>2. CASE k > Len(a) /\ k - Len(a) \in 1..Len(b) /\ c[k] = b[k - Len(a)]
    <3>1. CASE j \in 1..Len(a) /\ c[j] = a[j]
      BY <1>5, <2>2, <3>1
    <3>2. CASE j > Len(a) /\ j - Len(a) \in 1..Len(b) /\ c[j] = b[j - Len(a)]
      <4>1. j - Len(a) < k - Len(a)
        BY <1>4
      <4>2. QED
        BY <1>5, <2>2, <3>2, <4>1 DEF Ordered
    <3>3. QED
      BY <1>6, <3>1, <3>2
  <2>3. QED
    BY <1>6, <2>1, <2>2
<1>8. \A k \in 1..Len(c) : c[k] <= t /\ \A x \in old : x < c[k]
  BY <1>5, <1>6
<1>9. PICK Q : Q = [P EXCEPT ![i] = @ \o s.line]
  OBVIOUS
<1>10. Q[i] = c /\ \A j \in Fifo : j # i => Q[j] = P[j]
  BY <1>3, <1>9
<1>11. ASSUME NEW j \in Fifo
       PROVE  Ordered(Q[j]) /\ \A k \in 1..Len(Q[j]) : Q[j][k] <= t /\ \A x \in old : x < Q[j][k]
  <2>1. CASE j = i
    BY <1>7, <1>8, <1>10, <2>1
  <2>2. CASE j # i
    BY <1>10, <2>2 DEF InOrder
  <2>3. QED
    BY <2>1, <2>2
<1>12. InOrder(old, Q, r, t)
  BY <1>3, <1>5, <1>11 DEF InOrder
<1>13. QED
  BY <1>9, <1>12

(* What is read is newer than all that was printed, and older than what     *)
(* stays; the other FIFOs are empty.                                        *)
LEMMA OrderRead ==
  ASSUME NEW old \in SUBSET Unit, NEW P \in [Fifo -> Seq(Unit)], NEW i \in Fifo,
         NEW s \in Sender, NEW t \in Nat,
         NEW buf, NEW n, NEW new, NEW rest, Taken(P[i], buf, n, new, rest),
         InOrder(old, P, s, t), ToSet(buf) \subseteq old,
         \A j \in Fifo : j # i => P[j] = <<>>
  PROVE  /\ InOrder(old \cup ToSet(new), [P EXCEPT ![i] = rest], s, t)
         /\ \A k \in 1..n : (\A x \in old : x < new[k]) /\ (\A j \in 1..n : j < k => new[j] < new[k])
         /\ \A k \in n + 1..Len(new) : new[k] \in old
<1>1. old \subseteq Nat
  BY DEF Unit
<1>2. /\ \A j \in Fifo : Len(P[j]) \in Nat /\ \A k \in 1..Len(P[j]) : P[j][k] \in Nat
      /\ \A k \in 1..Len(s.line) : s.line[k] \in Nat
  BY Numbers
<1>3. PICK b : b = P[i]
  OBVIOUS
<1>4. /\ Len(b) \in Nat /\ Len(new) \in Nat /\ n \in 1..Len(b) /\ n \in 1..Len(new)
      /\ \A k \in 1..n : new[k] = b[k]
      /\ \A k \in n + 1..Len(new) : k \in 1..Len(buf) /\ new[k] = buf[k]
      /\ Len(rest) = Len(b) - n /\ \A k \in 1..Len(rest) : rest[k] = b[n + k]
      /\ new \in Seq(Unit) /\ buf \in Seq(Unit)
  BY <1>3 DEF Taken
<1>5. /\ Ordered(b) /\ \A k \in 1..Len(b) : b[k] \in Nat /\ b[k] <= t /\ \A x \in old : x < b[k]
  BY <1>2, <1>3 DEF InOrder
<1>6. ASSUME NEW k \in 1..n
      PROVE  /\ k \in 1..Len(b) /\ new[k] = b[k] /\ new[k] \in Nat /\ new[k] <= t
             /\ (\A x \in old : x < new[k]) /\ (\A j \in 1..n : j < k => new[j] < new[k])
  <2>1. k \in 1..Len(b) /\ new[k] = b[k] /\ \A j \in 1..n : j \in 1..Len(b) /\ new[j] = b[j]
    BY <1>4
  <2>2. QED
    BY <1>5, <2>1 DEF Ordered
<1>7. ASSUME NEW k \in n + 1..Len(new) PROVE new[k] \in old
  <2>1. k \in 1..Len(buf) /\ new[k] = buf[k] /\ DOMAIN buf = 1..Len(buf)
    BY <1>4, LenProperties
  <2>2. buf[k] \in ToSet(buf)
    BY <2>1 DEF ToSet
  <2>3. QED
    BY <2>1, <2>2
<1>8. PICK all : all = old \cup ToSet(new)
  OBVIOUS
<1>9. ASSUME NEW x \in all PROVE x \in old \/ \E k \in 1..n : x = new[k]
  <2>1. CASE x \in ToSet(new)
    <3>1. DOMAIN new = 1..Len(new)
      BY <1>4, LenProperties
    <3>2. PICK k \in 1..Len(new) : x = new[k]
      BY <2>1, <3>1 DEF ToSet
    <3>3. k \in 1..n \/ k \in n + 1..Len(new)
      BY <1>4
    <3>4. QED
      BY <1>7, <3>2, <3>3
  <2>2. QED
    BY <1>8, <2>1
<1>10. \A x \in all : x <= t /\ x \in Nat
  <2>1. \A x \in old : x <= t /\ x \in Nat
    BY <1>1 DEF InOrder
  <2>2. QED
    BY <1>6, <1>9, <2>1
<1>11. \A k \in 1..Len(rest) : n + k \in 1..Len(b) /\ rest[k] = b[n + k]
  BY <1>4
<1>12. Ordered(rest)
  <2> SUFFICES ASSUME NEW j \in 1..Len(rest), NEW k \in 1..Len(rest), j < k PROVE rest[j] < rest[k]
    BY DEF Ordered
  <2>1. n + j < n + k
    BY <1>4
  <2>2. QED
    BY <1>5, <1>11, <2>1 DEF Ordered
<1>13. ASSUME NEW k \in 1..Len(rest)
       PROVE  rest[k] <= t /\ \A x \in all : x < rest[k]
  <2>1. n + k \in 1..Len(b) /\ rest[k] = b[n + k]
    BY <1>11
  <2>2. ASSUME NEW j \in 1..n PROVE new[j] < rest[k]
    <3>1. j < n + k /\ j \in 1..Len(b) /\ new[j] = b[j]
      BY <1>4, <1>6
    <3>2. QED
      BY <1>5, <2>1, <3>1 DEF Ordered
  <2>3. QED
    BY <1>5, <1>9, <2>1, <2>2
<1>14. PICK Q : Q = [P EXCEPT ![i] = rest]
  OBVIOUS
<1>15. Q[i] = rest /\ \A j \in Fifo : j # i => Q[j] = <<>>
  BY <1>14
<1>16. ASSUME NEW j \in Fifo
       PROVE  Ordered(Q[j]) /\ \A k \in 1..Len(Q[j]) : Q[j][k] <= t /\ \A x \in all : x < Q[j][k]
  <2>1. CASE j = i
    BY <1>12, <1>13, <1>15, <2>1
  <2>2. CASE j # i
    <3>1. Q[j] = <<>>
      BY <1>15, <2>2
    <3>2. QED
      BY <3>1 DEF Ordered
  <2>3. QED
    BY <2>1, <2>2
<1>17. ASSUME NEW k \in 1..Len(s.line)
       PROVE  /\ s.line[k] <= t
              /\ s.at \in {"wait", "write"} =>
                   /\ \A x \in all : x < s.line[k]
                   /\ \A j \in Fifo : \A m \in 1..Len(Q[j]) : Q[j][m] < s.line[k]
  <2>1. /\ s.line[k] <= t
        /\ s.at \in {"wait", "write"} => /\ \A x \in old : x < s.line[k]
                                         /\ \A m \in 1..Len(b) : b[m] < s.line[k]
    BY <1>3 DEF InOrder
  <2>2. ASSUME s.at \in {"wait", "write"}, NEW x \in all PROVE x < s.line[k]
    BY <1>6, <1>9, <2>1, <2>2
  <2>3. ASSUME s.at \in {"wait", "write"}, NEW j \in Fifo, NEW m \in 1..Len(Q[j]) PROVE Q[j][m] < s.line[k]
    <3>1. CASE j = i
      BY <1>11, <1>15, <2>1, <2>3, <3>1
    <3>2. CASE j # i
      <4>1. Q[j] = <<>>
        BY <1>15, <3>2
      <4>2. QED
        BY <4>1, <2>3
    <3>3. QED
      BY <3>1, <3>2
  <2>4. QED
    BY <2>1, <2>2, <2>3
<1>18. InOrder(all, Q, s, t)
  <2>1. Ordered(s.line) /\ (s.at # "input" => s.line # <<>>)
    BY DEF InOrder
  <2>2. QED
    BY <1>10, <1>16, <1>17, <2>1 DEF InOrder
<1>19. QED
  BY <1>6, <1>7, <1>8, <1>14, <1>18

(* The steps that print nothing and write nothing *)
LEMMA OrderFrameStep ==
  ASSUME TypeOK, TypeOK', OnItsWay, UNCHANGED shown, typed <= typed',
         \A u \in Users : buffer'[u] \in {buffer[u], <<>>} /\ \A i \in Fifo : pipe'[u][i] \in {pipe[u][i], <<>>},
         \A u \in Users :
           \/ snd'[u] = Idle
           \/ /\ snd'[u].line = snd[u].line /\ (snd'[u].at # "input" => snd[u].at # "input")
              /\ snd'[u].at \in {"wait", "write"} => snd[u].at \in {"wait", "write"}
           \/ \E n \in Nat \ {0} : typed' = typed + n /\ snd'[u].line = [k \in 1..n |-> typed + k]
  PROVE  OnItsWay'
<1> SUFFICES ASSUME NEW u \in Users
             PROVE  /\ ToSet(buffer'[u]) \subseteq Old(u)'
                    /\ InOrder(Old(u)', pipe'[u], snd'[Friend(u)], typed')
  BY OrderPartsNext
<1>1. PICK old \in SUBSET Unit : old = Old(u)
  BY OldUnits
<1>2. Old(u)' = old
  BY <1>1 DEF Old
<1>3. Friend(u) \in Users
  BY Friends
<1>4. /\ pipe[u] \in [Fifo -> Seq(Unit)] /\ pipe'[u] \in [Fifo -> Seq(Unit)]
      /\ snd[Friend(u)] \in Sender /\ snd'[Friend(u)] \in Sender
      /\ typed \in Nat /\ typed' \in Nat
  <2>1. typed \in Nat /\ typed' \in Nat
    BY BoundsAssumption DEF TypeOK
  <2>2. snd[Friend(u)] \in Sender /\ snd'[Friend(u)] \in Sender
    BY <1>3 DEF TypeOK
  <2>3. pipe[u] \in [Fifo -> Seq(Unit)] /\ pipe'[u] \in [Fifo -> Seq(Unit)]
    BY DEF TypeOK
  <2>4. QED
    BY <2>1, <2>2, <2>3
<1>5. ToSet(buffer[u]) \subseteq old /\ InOrder(old, pipe[u], snd[Friend(u)], typed)
  BY <1>1, OrderParts
<1>6. ToSet(buffer'[u]) \subseteq old
  <2>1. CASE buffer'[u] = <<>>
    <3>1. DOMAIN buffer'[u] = {}
      BY <2>1
    <3>2. QED
      BY <3>1 DEF ToSet
  <2>2. QED
    BY <1>5, <2>1
<1>7. InOrder(old, pipe'[u], snd'[Friend(u)], typed')
  BY <1>3, <1>4, <1>5, OrderFrame
<1>8. QED
  BY <1>2, <1>6, <1>7

(* A receiver that reads has text in one FIFO only. *)
LEMMA OnePipe ==
  ASSUME HeldOpen, NEW u \in Users, NEW i \in Fifo, rcv[u].ino = i, pipe[u][i] # <<>>
  PROVE  \A j \in Fifo : j # i => pipe[u][j] = <<>>
  BY DEF HeldOpen, HasReader, HasWriter

LEMMA ReadStep ==
  ASSUME IInv, NEW u \in Users, Read(u)
  PROVE  /\ OnItsWay'
         /\ \A v \in Users : v # u => shown'[v] = shown[v]
         /\ \E new \in Seq(Unit) : \E n \in 1..Len(new) :
              /\ shown'[u] = Append(shown[u], new)
              /\ \A k \in 1..n : (\A x \in Old(u) : x < new[k]) /\ (\A j \in 1..n : j < k => new[j] < new[k])
              /\ \A k \in n + 1..Len(new) : new[k] \in Old(u)
<1> USE DEF IInv
<1>1. PICK i \in Fifo : i = rcv[u].ino
  BY ReadFacts
<1>2. PICK n \in Nat, new \in Seq(Unit), rest \in Seq(Unit) :
        /\ Taken(pipe[u][i], buffer[u], n, new, rest)
        /\ pipe'[u] = [pipe[u] EXCEPT ![i] = rest]
        /\ buffer'[u] = new /\ shown'[u] = Append(shown[u], new)
  BY <1>1, ReadFacts
<1>3. /\ pipe[u][i] # <<>>
      /\ \A v \in Users : v # u => /\ pipe'[v] = pipe[v] /\ buffer'[v] = buffer[v] /\ shown'[v] = shown[v]
      /\ UNCHANGED <<snd, typed>>
  BY <1>1, ReadFacts
<1>4. PICK old \in SUBSET Unit : old = Old(u)
  BY OldUnits
<1>5. Old(u)' = old \cup ToSet(new)
  <2>1. shown[u] \in Seq(Seq(Unit)) /\ new \in Seq(Unit)
    BY DEF TypeOK
  <2>2. Len(Append(shown[u], new)) = Len(shown[u]) + 1
    BY <2>1, AppendProperties
  <2>3. Printed(Append(shown[u], new), Len(shown[u]) + 1) = Printed(shown[u], Len(shown[u])) \cup ToSet(new)
    BY <2>1, PrintedAppend
  <2>4. Old(u)' = Printed(shown'[u], Len(shown'[u]))
    BY DEF Old
  <2>5. QED
    BY <1>2, <1>4, <2>2, <2>3, <2>4 DEF Old
<1>6. /\ Friend(u) \in Users /\ pipe[u] \in [Fifo -> Seq(Unit)] /\ snd[Friend(u)] \in Sender /\ typed \in Nat
      /\ buffer[u] \in Seq(Unit)
  BY Friends, BoundsAssumption DEF TypeOK
<1>7. ToSet(buffer[u]) \subseteq old /\ InOrder(old, pipe[u], snd[Friend(u)], typed)
  BY <1>4, OrderParts
<1>8. \A j \in Fifo : j # i => pipe[u][j] = <<>>
  BY <1>1, <1>3, OnePipe
<1>9. /\ InOrder(old \cup ToSet(new), [pipe[u] EXCEPT ![i] = rest], snd[Friend(u)], typed)
      /\ \A k \in 1..n : (\A x \in old : x < new[k]) /\ (\A j \in 1..n : j < k => new[j] < new[k])
      /\ \A k \in n + 1..Len(new) : new[k] \in old
  <2>1. PICK P \in [Fifo -> Seq(Unit)], s \in Sender, t \in Nat, buf \in Seq(Unit) :
          P = pipe[u] /\ s = snd[Friend(u)] /\ t = typed /\ buf = buffer[u]
    BY <1>6
  <2>2. /\ Taken(P[i], buf, n, new, rest) /\ InOrder(old, P, s, t) /\ ToSet(buf) \subseteq old
        /\ \A j \in Fifo : j # i => P[j] = <<>>
    BY <1>2, <1>7, <1>8, <2>1
  <2>3. /\ InOrder(old \cup ToSet(new), [P EXCEPT ![i] = rest], s, t)
        /\ \A k \in 1..n : (\A x \in old : x < new[k]) /\ (\A j \in 1..n : j < k => new[j] < new[k])
        /\ \A k \in n + 1..Len(new) : new[k] \in old
    BY <2>2, OrderRead
  <2>4. QED
    BY <2>1, <2>3
<1>10. OnItsWay'
  <2> SUFFICES ASSUME NEW v \in Users
               PROVE  /\ ToSet(buffer'[v]) \subseteq Old(v)'
                      /\ InOrder(Old(v)', pipe'[v], snd'[Friend(v)], typed')
    BY OrderPartsNext
  <2>1. CASE v = u
    BY <1>2, <1>3, <1>5, <1>9, <2>1
  <2>2. CASE v # u
    <3>1. Old(v)' = Old(v)
      BY <1>3, <2>2 DEF Old
    <3>2. QED
      BY <1>3, <2>2, <3>1, OrderParts
  <2>3. QED
    BY <2>1, <2>2
<1>11. n \in 1..Len(new)
  BY <1>2 DEF Taken
<1>12. QED
  BY <1>2, <1>3, <1>4, <1>9, <1>10, <1>11

LEMMA OrderStep ==
  ASSUME IInv, [Next]_vars
  PROVE  OnItsWay'
<1> USE DEF IInv
<1>1. TypeOK' /\ typed \in Nat /\ typed' \in Nat
  BY TypeStep, BoundsAssumption DEF TypeOK
<1>2. ASSUME NEW u \in Users, Start(u) \/ NotOnline(u) \/ Interrupt(u) PROVE OnItsWay'
  <2>1. UNCHANGED <<snd, pipe, buffer, shown>> /\ typed <= typed'
    BY <1>1, <1>2 DEF Start, NotOnline, Typed, Interrupt
  <2>2. QED
    BY <1>1, <2>1, OrderFrameStep
<1>3. ASSUME NEW u \in Users, OpenSend(u) PROVE OnItsWay'
  <2>1. /\ \E n \in 1..RECV_SIZE : typed' = typed + n /\ snd'[u].line = [k \in 1..n |-> typed + k]
        /\ \A v \in Users : v # u => snd'[v] = snd[v]
        /\ UNCHANGED <<pipe, buffer, shown>>
    BY <1>3, OpenSendFacts
  <2>2. \E n \in Nat \ {0} : typed' = typed + n /\ snd'[u].line = [k \in 1..n |-> typed + k]
    <3>1. PICK n \in 1..RECV_SIZE : typed' = typed + n /\ snd'[u].line = [k \in 1..n |-> typed + k]
      BY <2>1
    <3>2. n \in Nat \ {0}
      BY BoundsAssumption
    <3>3. QED
      BY <3>1, <3>2
  <2>3. typed <= typed'
    BY <1>1, <2>2
  <2>4. QED
    BY <1>1, <2>1, <2>2, <2>3, OrderFrameStep
<1>4. ASSUME NEW u \in Users, OpenRecv(u) PROVE OnItsWay'
  <2>1. /\ \A v \in Users : /\ snd'[v].line = snd[v].line
                            /\ snd'[v].at \in {"wait", "write"} => snd[v].at \in {"wait", "write"}
                            /\ snd'[v].at # "input" => snd[v].at # "input"
        /\ UNCHANGED <<pipe, buffer, shown, typed>>
    BY <1>4, OpenRecvFacts
  <2>2. QED
    BY <1>1, <2>1, OrderFrameStep
<1>5. ASSUME NEW u \in Users, Write(u) PROVE OnItsWay'
  <2> SUFFICES ASSUME NEW v \in Users
               PROVE  /\ ToSet(buffer'[v]) \subseteq Old(v)'
                      /\ InOrder(Old(v)', pipe'[v], snd'[Friend(v)], typed')
    BY OrderPartsNext
  <2>1. /\ snd[u].ino \in Fifo /\ snd[u].at = "write" /\ snd'[u].at = "close" /\ snd'[u].line = snd[u].line
        /\ \A w \in Users : w # u => snd'[w] = snd[w] /\ pipe'[Friend(w)] = pipe[Friend(w)]
        /\ pipe'[Friend(u)] = [pipe[Friend(u)] EXCEPT ![snd[u].ino] = @ \o snd[u].line]
        /\ UNCHANGED <<buffer, shown, typed>>
    BY <1>5, WriteFacts
  <2>2. /\ Old(v)' = Old(v) /\ Old(v) \in SUBSET Unit /\ ToSet(buffer[v]) \subseteq Old(v)
        /\ InOrder(Old(v), pipe[v], snd[Friend(v)], typed)
    BY <2>1, OldUnits, OrderParts DEF Old
  <2>3. Friend(v) \in Users /\ Friend(Friend(v)) = v
    BY Friends
  <2>4. CASE Friend(v) = u
    <3>1. v = Friend(u)
      BY <2>3, <2>4
    <3>2. pipe[v] \in [Fifo -> Seq(Unit)] /\ snd[u] \in Sender /\ snd'[u] \in Sender
      BY <1>1 DEF TypeOK
    <3>3. InOrder(Old(v), [pipe[v] EXCEPT ![snd[u].ino] = @ \o snd[u].line], snd'[u], typed)
      BY <1>1, <2>1, <2>2, <2>4, <3>2, OrderWrite
    <3>4. QED
      BY <2>1, <2>2, <2>4, <3>1, <3>3
  <2>5. CASE Friend(v) # u
    <3>1. pipe'[v] = pipe[v] /\ snd'[Friend(v)] = snd[Friend(v)]
      BY <2>1, <2>3, <2>5
    <3>2. QED
      BY <2>1, <2>2, <3>1
  <2>6. QED
    BY <2>4, <2>5
<1>6. ASSUME NEW u \in Users, CloseSend(u) \/ CloseRecv(u) PROVE OnItsWay'
  <2>1. /\ \A v \in Users : snd'[v] = snd[v] \/ snd'[v] = Idle
        /\ FreeUnused /\ UNCHANGED <<buffer, shown, typed>>
    BY <1>6, CloseSendFacts, CloseRecvFacts
  <2>2. \A v \in Users : \A i \in Fifo : pipe'[v][i] \in {pipe[v][i], <<>>}
    BY <2>1, FreedPipes
  <2>3. QED
    BY <1>1, <2>1, <2>2, OrderFrameStep
<1>7. ASSUME NEW u \in Users, Read(u) PROVE OnItsWay'
  BY <1>7, ReadStep
<1>8. ASSUME NEW u \in Users, ReadEof(u) PROVE OnItsWay'
  <2>1. UNCHANGED <<snd, pipe, buffer, shown, typed>>
    BY <1>8, ReadEofFacts
  <2>2. QED
    BY <1>1, <2>1, OrderFrameStep
<1>9. ASSUME NEW u \in Users, SigPipe(u) \/ OpenRecvFails(u) \/ Exit(u) \/ Kill(u) PROVE OnItsWay'
  <2>1. /\ \A v \in Users : snd'[v] = snd[v] \/ snd'[v] = Idle
        /\ \A v \in Users : buffer'[v] \in {buffer[v], <<>>}
        /\ FreeUnused /\ UNCHANGED <<typed, shown>>
    BY <1>9, DiesFacts DEF SigPipe, OpenRecvFails, Exit, Kill
  <2>2. \A v \in Users : \A i \in Fifo : pipe'[v][i] \in {pipe[v][i], <<>>}
    BY <2>1, FreedPipes
  <2>3. QED
    BY <1>1, <2>1, <2>2, OrderFrameStep
<1>10. CASE UNCHANGED vars
  <2>1. UNCHANGED <<snd, pipe, buffer, shown, typed>>
    BY <1>10 DEF vars
  <2>2. QED
    BY <1>1, <2>1, OrderFrameStep
<1>11. QED
  BY <1>2, <1>3, <1>4, <1>5, <1>6, <1>7, <1>8, <1>9, <1>10 DEF Next, SendThread, RecvThread

-----------------------------------------------------------------------------
(* The last print is new in front and old behind; the others stay as they   *)
(* were.                                                                    *)
Prints(p, m) ==
  \E n \in 1..Len(p[m]) :
    /\ \A k \in 1..n : /\ \A x \in Printed(p, m - 1) : x < p[m][k]
                       /\ \A j \in 1..n : j < k => p[m][j] < p[m][k]
    /\ \A k \in n + 1..Len(p[m]) : p[m][k] \in Printed(p, m - 1)

LEMMA ShownParts ==
  /\ ShownInOrder <=> \A u \in Users : \A m \in 1..Len(shown[u]) : Prints(shown[u], m)
  /\ ShownInOrder' <=> \A u \in Users : \A m \in 1..Len(shown'[u]) : Prints(shown'[u], m)
  BY DEF ShownInOrder, Prints

LEMMA PrintsAppend ==
  ASSUME NEW p \in Seq(Seq(Unit)), NEW b \in Seq(Unit),
         \A m \in 1..Len(p) : Prints(p, m),
         \E n \in 1..Len(b) :
           /\ \A k \in 1..n : /\ \A x \in Printed(p, Len(p)) : x < b[k]
                              /\ \A j \in 1..n : j < k => b[j] < b[k]
           /\ \A k \in n + 1..Len(b) : b[k] \in Printed(p, Len(p))
  PROVE  \A m \in 1..Len(Append(p, b)) : Prints(Append(p, b), m)
<1>1. PICK q : q = Append(p, b)
  OBVIOUS
<1>2. /\ Len(q) = Len(p) + 1 /\ Len(p) \in Nat /\ q[Len(p) + 1] = b
      /\ \A m \in 1..Len(p) : q[m] = p[m]
      /\ \A n \in 0..Len(p) : Printed(q, n) = Printed(p, n)
  BY <1>1, AppendProperties, LenProperties, PrintedAppend
<1>3. ASSUME NEW m \in 1..Len(q) PROVE Prints(q, m)
  <2>1. CASE m \in 1..Len(p)
    <3>1. m - 1 \in 0..Len(p) /\ q[m] = p[m]
      BY <1>2, <2>1
    <3>2. Printed(q, m - 1) = Printed(p, m - 1)
      BY <1>2, <3>1
    <3>3. Prints(p, m)
      BY <2>1
    <3>4. QED
      BY <3>1, <3>2, <3>3 DEF Prints
  <2>2. CASE m = Len(p) + 1
    <3>1. m - 1 = Len(p) /\ q[m] = b /\ Len(p) \in 0..Len(p)
      BY <1>2, <2>2
    <3>2. Printed(q, m - 1) = Printed(p, Len(p))
      BY <1>2, <3>1
    <3>3. QED
      BY <3>1, <3>2 DEF Prints
  <2>3. QED
    BY <1>2, <2>1, <2>2
<1>4. QED
  BY <1>1, <1>3

LEMMA ShownStep ==
  ASSUME IInv, ShownInOrder, [Next]_vars
  PROVE  ShownInOrder'
<1> USE DEF IInv
<1>1. ASSUME shown' = shown PROVE ShownInOrder'
  BY <1>1, ShownParts
<1>2. ASSUME NEW u \in Users, Read(u) PROVE ShownInOrder'
  <2>1. PICK new \in Seq(Unit) :
          /\ shown'[u] = Append(shown[u], new)
          /\ \E n \in 1..Len(new) :
               /\ \A k \in 1..n : (\A x \in Old(u) : x < new[k]) /\ (\A j \in 1..n : j < k => new[j] < new[k])
               /\ \A k \in n + 1..Len(new) : new[k] \in Old(u)
    BY <1>2, ReadStep
  <2>2. PICK p \in Seq(Seq(Unit)) : p = shown[u]
    BY DEF TypeOK
  <2>3. \A m \in 1..Len(p) : Prints(p, m)
    BY <2>2, ShownParts
  <2>4. Old(u) = Printed(p, Len(p))
    BY <2>2 DEF Old
  <2>5. \A m \in 1..Len(Append(p, new)) : Prints(Append(p, new), m)
    BY <2>1, <2>3, <2>4, PrintsAppend
  <2>6. \A v \in Users : v # u => shown'[v] = shown[v]
    BY <1>2, ReadStep
  <2>7. QED
    BY <2>1, <2>2, <2>5, <2>6, ShownParts
<1>3. ASSUME NEW u \in Users, Start(u) \/ NotOnline(u) \/ Interrupt(u) PROVE ShownInOrder'
  BY <1>1, <1>3 DEF Start, NotOnline, Interrupt
<1>4. ASSUME NEW u \in Users, OpenSend(u) \/ SendThread(u) PROVE ShownInOrder'
  BY <1>1, <1>4, OpenSendFacts, WriteFacts, CloseSendFacts, DiesFacts DEF SendThread, SigPipe
<1>5. ASSUME NEW u \in Users, RecvThread(u) PROVE ShownInOrder'
  BY <1>1, <1>2, <1>5, OpenRecvFacts, ReadEofFacts, CloseRecvFacts, DiesFacts DEF RecvThread, OpenRecvFails
<1>6. ASSUME NEW u \in Users, Exit(u) \/ Kill(u) PROVE ShownInOrder'
  BY <1>1, <1>6, DiesFacts DEF Exit, Kill
<1>7. CASE UNCHANGED vars
  BY <1>1, <1>7 DEF vars
<1>8. QED
  BY <1>3, <1>4, <1>5, <1>6, <1>7 DEF Next

-----------------------------------------------------------------------------
(* Types, reachability, what the pipes hold and the order of the text on    *)
(* its way, in every reachable state.                                       *)
THEOREM Invariance == Spec => []IInv
<1>1. Init => IInv
  BY InitInv
<1>2. IInv /\ [Next]_vars => IInv'
  BY TypeStep, OffStep, ReachableStep, HeldStep, OrderStep DEF IInv
<1>3. QED
  BY <1>1, <1>2, PTL DEF Spec

(* Whoever runs and was not interrupted reads the FIFO that has its name.   *)
THEOREM RunningIsReachable == Spec => []Reachable
<1>1. IInv => Reachable
  BY DEF IInv
<1>2. QED
  BY <1>1, Invariance, PTL

(* Every print begins with text not printed before and newer than all that  *)
(* was, in the order in which it was typed; only old text follows.          *)
THEOREM OrderCorrect == Spec => []ShownInOrder
<1>1. Init => ShownInOrder
  BY InitInv
<1>2. IInv /\ ShownInOrder /\ [Next]_vars => ShownInOrder'
  BY ShownStep
<1>3. QED
  BY <1>1, <1>2, Invariance, PTL DEF Spec
=============================================================================
