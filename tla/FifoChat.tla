------------------------------ MODULE FifoChat ------------------------------
(***************************************************************************)
(* section-05/lab/lab_1.c: two users chat over two FIFOs, each with a      *)
(* thread that sends and one that receives.  A process makes the FIFO it   *)
(* reads, if the name is not there yet, and unlinks it on SIGINT; killed   *)
(* by SIGKILL or SIGPIPE it leaves the name behind for its next start.     *)
(*                                                                         *)
(* Of the kernel: open() of one end waits until somebody opens the other,  *)
(* and returns then even if the partner has left again; a write that no    *)
(* reader has open raises SIGPIPE; what is in a pipe stays as long as      *)
(* either end is open; open() fails when nothing has the name.             *)
(*                                                                         *)
(* Text is cut into units, numbered in the order in which they are typed.  *)
(* A line is one or more of them; the longest fgets() returns is as long   *)
(* as what read() takes at once, so several lines may not fit one read().  *)
(***************************************************************************)
EXTENDS Integers, SequencesExt

CONSTANTS
  RECV_SIZE,   \* units in the longest line, and in a full recv_buffer
  MaxUnits,    \* bound: units both users type
  MaxStarts    \* bound: times each user starts the program

ASSUME BoundsAssumption == RECV_SIZE \in Nat \ {0} /\ MaxUnits \in Nat /\ MaxStarts \in Nat

Users     == {"Tom", "Jerry"}
Friend(u) == IF u = "Tom" THEN "Jerry" ELSE "Tom"

(* A FIFO is known by its reader, and by which of the reader's starts made  *)
(* it, 0 being none: fifo_recv of u is fifo_send of Friend(u).              *)
VARIABLES
  proc,     \* the process: "off", "on", or "unlinked" between cleanup_fifo's two calls
  starts,
  named,    \* per reader, the FIFO that has the name
  snd,      \* send thread: where it is, the FIFO it has open or opens, send_buffer
  rcv,      \* receive thread: where it is, the FIFO
  pipe,     \* per reader and FIFO, the units in it
  buffer,   \* recv_buffer up to its first zero byte
  typed,    \* units typed so far
  shown     \* history: what printf() printed to each user, all starts

vars == <<proc, starts, named, snd, rcv, pipe, buffer, typed, shown>>

Unit     == 1..MaxUnits
Fifo     == 1..MaxStarts
Sender   == [at : {"input", "wait", "write", "close"}, ino : 0..MaxStarts, line : Seq(Unit)]
Receiver == [at : {"open", "wait", "read", "close"}, ino : 0..MaxStarts]

TypeOK ==
  /\ proc \in [Users -> {"off", "on", "unlinked"}]
  /\ starts \in [Users -> 0..MaxStarts]
  /\ named \in [Users -> 0..MaxStarts]
  /\ snd \in [Users -> Sender]
  /\ rcv \in [Users -> Receiver]
  /\ pipe \in [Users -> [Fifo -> Seq(Unit)]]
  /\ buffer \in [Users -> Seq(Unit)]
  /\ typed \in 0..MaxUnits
  /\ shown \in [Users -> Seq(Seq(Unit))]

Idle   == [at |-> "input", ino |-> 0, line |-> <<>>]
Closed == [at |-> "open", ino |-> 0]

Init ==
  /\ proc = [u \in Users |-> "off"] /\ starts = [u \in Users |-> 0]
  /\ named = [u \in Users |-> 0]
  /\ snd = [u \in Users |-> Idle] /\ rcv = [u \in Users |-> Closed]
  /\ pipe = [u \in Users |-> [i \in Fifo |-> <<>>]]
  /\ buffer = [u \in Users |-> <<>>]
  /\ typed = 0
  /\ shown = [u \in Users |-> <<>>]

-----------------------------------------------------------------------------
(* Who has an end of FIFO i of reader u open, or waits in open() for it     *)
HasReader(u, i) == rcv[u].at # "open" /\ rcv[u].ino = i
HasWriter(u, i) == snd[Friend(u)].at # "input" /\ snd[Friend(u)].ino = i

(* The kernel frees a pipe's contents with its last end. *)
FreeUnused ==
  pipe' = [u \in Users |-> [i \in Fifo |->
             IF HasReader(u, i)' \/ HasWriter(u, i)' THEN pipe[u][i] ELSE <<>>]]

(* The process ends, whichever way: the kernel closes what it had open, and *)
(* the next run has a zeroed recv_buffer.                                   *)
Dies(u) ==
  /\ proc' = [proc EXCEPT ![u] = "off"]
  /\ snd' = [snd EXCEPT ![u] = Idle]
  /\ rcv' = [rcv EXCEPT ![u] = Closed]
  /\ buffer' = [buffer EXCEPT ![u] = <<>>]
  /\ FreeUnused
  /\ UNCHANGED <<starts, typed, shown>>

(* main(): mkfifo() fails if the name is taken, which nobody checks. *)
Start(u) ==
  /\ proc[u] = "off" /\ starts[u] < MaxStarts
  /\ proc' = [proc EXCEPT ![u] = "on"]
  /\ starts' = [starts EXCEPT ![u] = @ + 1]
  /\ named' = [named EXCEPT ![u] = IF @ = 0 THEN starts'[u] ELSE @]
  /\ UNCHANGED <<snd, rcv, pipe, buffer, typed, shown>>

(* send_thread_func: fgets() returns a line of n units *)
Typed(u, n) ==
  /\ proc[u] # "off" /\ snd[u].at = "input"
  /\ typed + n <= MaxUnits
  /\ typed' = typed + n

NotOnline(u) ==
  /\ \E n \in 1..RECV_SIZE : Typed(u, n)
  /\ named[Friend(u)] = 0
  /\ UNCHANGED <<proc, starts, named, snd, rcv, pipe, buffer, shown>>

(* open(fifo_send, O_WRONLY) *)
OpenSend(u) ==
  LET f == Friend(u)
      i == named[f]
  IN
  \E n \in 1..RECV_SIZE :
    /\ Typed(u, n)
    /\ i # 0
    /\ snd' = [snd EXCEPT ![u] = [at |-> IF HasReader(f, i) THEN "write" ELSE "wait",
                                  ino |-> i, line |-> [k \in 1..n |-> typed + k]]]
    /\ rcv' = [rcv EXCEPT ![f].at = IF @ = "wait" /\ HasReader(f, i) THEN "read" ELSE @]
    /\ UNCHANGED <<proc, starts, named, pipe, buffer, shown>>

Write(u) ==
  LET f == Friend(u)
      s == snd[u]
  IN
  /\ proc[u] # "off" /\ s.at = "write"
  /\ HasReader(f, s.ino)
  /\ pipe' = [pipe EXCEPT ![f][s.ino] = @ \o s.line]
  /\ snd' = [snd EXCEPT ![u].at = "close"]
  /\ UNCHANGED <<proc, starts, named, rcv, buffer, typed, shown>>

SigPipe(u) ==
  /\ proc[u] # "off" /\ snd[u].at = "write"
  /\ ~HasReader(Friend(u), snd[u].ino)
  /\ Dies(u) /\ UNCHANGED named

CloseSend(u) ==
  /\ proc[u] # "off" /\ snd[u].at = "close"
  /\ snd' = [snd EXCEPT ![u] = Idle]
  /\ UNCHANGED rcv /\ FreeUnused
  /\ UNCHANGED <<proc, starts, named, buffer, typed, shown>>

-----------------------------------------------------------------------------
(* recv_thread_func *)
OpenRecv(u) ==
  LET i == named[u] IN
  /\ proc[u] # "off" /\ rcv[u].at = "open"
  /\ i # 0
  /\ rcv' = [rcv EXCEPT ![u] = [at |-> IF HasWriter(u, i) THEN "read" ELSE "wait", ino |-> i]]
  /\ snd' = [snd EXCEPT ![Friend(u)].at = IF @ = "wait" /\ HasWriter(u, i) THEN "write" ELSE @]
  /\ UNCHANGED <<proc, starts, named, pipe, buffer, typed, shown>>

(* "fifo_recv got deleted by accident?" *)
OpenRecvFails(u) ==
  /\ proc[u] # "off" /\ rcv[u].at = "open"
  /\ named[u] = 0
  /\ Dies(u) /\ UNCHANGED named

AtEof(u) ==
  /\ proc[u] # "off" /\ rcv[u].at = "read"
  /\ pipe[u][rcv[u].ino] = <<>> /\ ~HasWriter(u, rcv[u].ino)

(* Mutant: recv_buffer is printed even if read() returned nothing. *)
ReadEofPrints(u) ==
  /\ AtEof(u)
  /\ rcv' = [rcv EXCEPT ![u].at = "close"]
  /\ shown' = [shown EXCEPT ![u] = Append(@, buffer[u])]
  /\ UNCHANGED <<proc, starts, named, snd, pipe, buffer, typed>>

(* Mutant: an empty read() is tried again. *)
ReadEofRetries(u) == AtEof(u) /\ UNCHANGED vars

(* The writers have gone without a word. *)
ReadEof(u) ==
  /\ AtEof(u)
  /\ rcv' = [rcv EXCEPT ![u].at = "close"]
  /\ UNCHANGED <<proc, starts, named, snd, pipe, buffer, typed, shown>>

(* read() takes what fits, and overwrites the beginning of recv_buffer; no  *)
(* zero byte is put behind, so that printf() goes on with what an earlier,  *)
(* longer read left there.                                                  *)
Read(u) ==
  LET i == rcv[u].ino
      n == IF Len(pipe[u][i]) < RECV_SIZE THEN Len(pipe[u][i]) ELSE RECV_SIZE
  IN
  /\ proc[u] # "off" /\ rcv[u].at = "read"
  /\ pipe[u][i] # <<>>
  /\ buffer' = [buffer EXCEPT ![u] = SubSeq(pipe[u][i], 1, n) \o SubSeq(@, n + 1, Len(@))]
  /\ pipe' = [pipe EXCEPT ![u][i] = SubSeq(@, n + 1, Len(@))]
  /\ shown' = [shown EXCEPT ![u] = Append(@, buffer'[u])]
  /\ rcv' = [rcv EXCEPT ![u].at = "close"]
  /\ UNCHANGED <<proc, starts, named, snd, typed>>

(* Mutant: the thread receives once. *)
CloseRecvForGood(u) ==
  /\ proc[u] # "off" /\ rcv[u].at = "close"
  /\ rcv' = [rcv EXCEPT ![u].ino = 0]
  /\ UNCHANGED <<proc, starts, named, snd, pipe, buffer, typed, shown>>

CloseRecv(u) ==
  /\ proc[u] # "off" /\ rcv[u].at = "close"
  /\ rcv' = [rcv EXCEPT ![u] = Closed]
  /\ UNCHANGED snd /\ FreeUnused
  /\ UNCHANGED <<proc, starts, named, buffer, typed, shown>>

-----------------------------------------------------------------------------
(* cleanup_fifo: the other threads run on between its two calls. *)

(* Mutant: the wrong FIFO. *)
InterruptSend(u) ==
  /\ proc[u] = "on"
  /\ named' = [named EXCEPT ![Friend(u)] = 0]
  /\ proc' = [proc EXCEPT ![u] = "unlinked"]
  /\ UNCHANGED <<starts, snd, rcv, pipe, buffer, typed, shown>>

Interrupt(u) ==
  /\ proc[u] = "on"
  /\ named' = [named EXCEPT ![u] = 0]
  /\ proc' = [proc EXCEPT ![u] = "unlinked"]
  /\ UNCHANGED <<starts, snd, rcv, pipe, buffer, typed, shown>>

Exit(u) == proc[u] = "unlinked" /\ Dies(u) /\ UNCHANGED named

(* SIGKILL: signal() cannot install a handler for it. *)
Kill(u) == proc[u] # "off" /\ Dies(u) /\ UNCHANGED named

SendThread(u) == Write(u) \/ SigPipe(u) \/ CloseSend(u)
RecvThread(u) == OpenRecv(u) \/ OpenRecvFails(u) \/ Read(u) \/ ReadEof(u) \/ CloseRecv(u)

Next ==
  \/ \E u \in Users : \/ Start(u) \/ NotOnline(u) \/ OpenSend(u)
                      \/ SendThread(u) \/ RecvThread(u)
                      \/ Interrupt(u) \/ Exit(u) \/ Kill(u)
  \/ (\A u \in Users : proc[u] = "off" /\ starts[u] = MaxStarts) /\ UNCHANGED vars

(* Both threads are scheduled; the handler need not get on, nor the users   *)
(* do anything.                                                             *)
Spec ==
  /\ Init /\ [][Next]_vars
  /\ \A u \in Users : WF_vars(SendThread(u)) /\ WF_vars(RecvThread(u))

-----------------------------------------------------------------------------
(* A process that has ended has nothing open, one that has unlinked its     *)
(* FIFO has no name, and a thread past open() has a FIFO.                   *)
OffIsClosed ==
  \A u \in Users :
    /\ proc[u] = "off" => rcv[u] = Closed /\ snd[u] = Idle
    /\ proc[u] = "unlinked" => named[u] = 0
    /\ rcv[u].at # "open" => rcv[u].ino # 0
    /\ snd[u].at # "input" => snd[u].ino # 0

(* Whoever runs, and has not been interrupted, is reachable: the name is    *)
(* there, and names the FIFO its receive thread opens and reads, whatever   *)
(* earlier runs of either user left behind.                                 *)
Reachable ==
  \A u \in Users : proc[u] = "on" =>
    named[u] # 0 /\ (rcv[u].at # "open" => rcv[u].ino = named[u])

(* Text only stays where an end is open, and only in one of a reader's      *)
(* FIFOs: the one the writer has open, if he has one.                       *)
HeldOpen ==
  \A u \in Users : \A i \in Fifo :
    pipe[u][i] # <<>> => IF snd[Friend(u)].at = "input" THEN HasReader(u, i) ELSE HasWriter(u, i)

(* What was printed in the first n of the prints p *)
Printed(p, n) == UNION {ToSet(p[m]) : m \in 1..n}

Ordered(s) == \A j, k \in 1..Len(s) : j < k => s[j] < s[k]

(* Every print begins with text newer than all that was printed before, in  *)
(* the order in which it was typed, though some may be lost; what follows   *)
(* it was printed before.  So no text is delivered twice or overtaken by    *)
(* later text, through ends of file, kills and restarts.  Old text may well *)
(* be printed again behind the new: lab_1.c:61 does not end the string.     *)
ShownInOrder ==
  \A u \in Users : \A m \in 1..Len(shown[u]) :
    LET p   == shown[u][m]
        old == Printed(shown[u], m - 1)
    IN \E n \in 1..Len(p) :
         /\ \A k \in 1..n : (\A x \in old : x < p[k]) /\ (\A j \in 1..n : j < k => p[j] < p[k])
         /\ \A k \in n + 1..Len(p) : p[k] \in old

(* Why: text on its way is newer than all that was printed, and what is     *)
(* about to be written is newer still; recv_buffer holds printed text.      *)
OnItsWay ==
  \A u \in Users :
    LET old == Printed(shown[u], Len(shown[u]))
        s   == snd[Friend(u)]
    IN  /\ ToSet(buffer[u]) \subseteq old
        /\ \A x \in old : x <= typed
        /\ \A i \in Fifo : /\ Ordered(pipe[u][i])
                           /\ \A k \in 1..Len(pipe[u][i]) : /\ pipe[u][i][k] <= typed
                                                            /\ \A x \in old : x < pipe[u][i][k]
        /\ Ordered(s.line) /\ (s.at # "input" => s.line # <<>>)
        /\ \A k \in 1..Len(s.line) :
             /\ s.line[k] <= typed
             /\ s.at \in {"wait", "write"} =>
                  /\ \A x \in old : x < s.line[k]
                  /\ \A i \in Fifo : \A j \in 1..Len(pipe[u][i]) : pipe[u][i][j] < s.line[k]

IInv == TypeOK /\ OffIsClosed /\ Reachable /\ HeldOpen /\ OnItsWay

(* A sender that waits in open() for a friend who is running, on the FIFO   *)
(* that has the name, gets through.                                         *)
SenderReleased ==
  \A u \in Users :
    (snd[u].at = "wait" /\ snd[u].ino = named[Friend(u)] /\ proc[Friend(u)] = "on")
      ~> (snd[u].at # "wait" \/ proc[Friend(u)] # "on")

(* A receiver does not hang in read(), even if the sender died half way.    *)
ReaderReleased == \A u \in Users : rcv[u].at = "read" ~> rcv[u].at # "read"
=============================================================================
