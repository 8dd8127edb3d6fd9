# Specifications of the Zhone Engineering Academy lab programs

The repository is a course in C and Linux system programming: some forty small programs,
most of them demonstrations of one system call. Those with state that outlives a function
call, and with more than one actor, are specified here in TLA+, checked with TLC on small
instances, and proved with TLAPS for every value of the parameters: every safety property
that the runs find to hold is a theorem, only liveness is not.

## The system

| Part | Source | State it keeps | Operations | Modelled by |
|---|---|---|---|---|
| Chat server on `select` | `section-07/lab/lab_4/server_select.c` | slot array `clients[]`, `allset`, `rset`, `maxfd`, descriptor table | accept, refuse, read a line (message, `/name`), disconnect, exit handler | `ChatCore`, `ServerSelect` |
| Chat server on `poll` | `section-07/lab/lab_4/server_poll.c` | the same with `pfds[]` | the same | `ChatCore`, `ServerPoll` |
| LED driver | `section-08/lab/led_device/led_device.c` | GPIO lines requested, kernel objects acquired, LED outputs | `my_init`, `my_exit`, open, `led_write`, `btn_read` | `LedDriver` |
| LED control program | `section-08/lab/led_device/led_control.c` | next instruction, last button state | the polling loop | `LedControl` |
| Shared-memory producer and consumer | `section-05/lab/lab_2.c` | two semaphores and a value in shared memory | produce, consume, SIGINT handler | `ShmHandoff` |
| TCP echo server and client | `section-07/lab/lab_1` | descriptors of parent and children, zombies | accept, fork, echo, SIGCHLD | `EchoServer` |
| FIFO chat | `section-05/lab/lab_1.c` | the names and open ends of two FIFOs | send, receive, clean up, start | `FifoChat` |
| Thread labs | `section-04/lab` (1, 2, 4, 5) | counters, mutexes, condition variable | per thread loop, watchdog | `ThreadLabs` |
| UDP echo, linked list, IPC and debugging demos, memory labs, hello module | `section-02`, `03`, `05`, `06`, `07/lab/lab_3`, `08` | see "Not modelled" | - | not modelled |

How the modelled parts interact. The chat servers are single threads that wait in
`select`/`poll` for the listening socket and their clients. Everything they share with the
outside are TCP connections: clients connect, send lines, stop reading, close or abort at
any time, and the kernel turns a write to a connection the peer has left into nothing, an
error, or SIGPIPE, depending on what happened before. The LED driver is a kernel module
shared by `led_control` and any other process that opens its devices; the person at the
button and other drivers that want the same GPIO lines are actors too.

What is hard in this code: the chat servers' three representations of "who is connected"
(slots, descriptor table, watch set) kept in step by hand over every order of events; one
blocking thread; descriptors reused while a report about the old one is still being worked
off; broadcasts interrupted by signals; uninitialized memory. In the driver: six failure
points with a `goto` chain, an early return without cleanup, device nodes that appear
before loading has succeeded, unlocked writes, and a program that acts on what it read
100 ms ago. In the echo server: descriptors that fork() copies, signals that merge, partial
echoes. In the shared-memory lab: a start-up order that only a sleep suggests, memory
that outlives its processes, and processes that outlive their run. In the FIFO chat: `open`
calls that wait for each other across two processes, a receiver that closes after each read
and never ends its string, names that outlive processes and processes that outlive names. In the thread labs: lost updates, lock order, lost and
spurious wake-ups. `PROJECT.json` lists these hazards with their lines and the properties aimed
at each.

## Modules

    ChatRoom                      what a chat server promises (abstract)
    ChatCore                      handlers, broadcast, exit handler, TCP
      ChatProperties              properties of both servers, refinement of ChatRoom
        ServerSelect              + allset, rset, maxfd, select()
          MCServerSelect          instances for TLC
        ServerPoll                + pfds[], poll()
          MCServerPoll
        ChatProofs                every action of ChatCore keeps CoreInv, is a step of
                                  ChatRoom or none, keeps the messages' pace and tells
                                  all on exit; ChatRoom keeps its promise
          ServerSelectProofs      theorems of the select server
          ServerPollProofs        theorems of the poll server
    LedDriver                     the kernel module and its files
      LedControl                  the program on top of it, and the whole system's Next
        MCLedControl
        LedProofs
    ShmHandoff                    producer and consumer in shared memory
      ShmProofs
    EchoServer                    the forking server and its clients
      MCEchoServer
      EchoProofs
    FifoChat                      two users, two FIFOs, four threads
      FifoChatProofs
    ThreadLabs                    the thread labs as programs of atomic steps
      ThreadLabsProofs

### ChatCore, ServerSelect, ServerPoll

`clients` is `clients[]` (`fd`, `name`, `last` for `last_msg_time`); `addr` is not used
after accept. `fdtab` maps the process's descriptors to connections, `link` is the state
of each connection in the server's kernel, `lines` what it holds for the server to read.
`pc` and `idx` say where the one thread is: waiting, about to accept, refusing, scanning
from slot `idx`, in the exit handler, ended.

*Steps.* A handler up to its first write is one step; each write of a broadcast is a step
(`WriteSlot`), so that other actors, the clock and SIGINT come in between. To say who must
receive what, the server's decisions are recorded in a history, `log`: each entry is a
message and its audience. `out[i]` is the entry still to be written to slot `i`; `got[c]`
are the entries that reached client `c`. In `Say` the code sets `last_msg_time` after the
writes; the model sets it with the decision, which no other step can tell.

*TCP* (external). `open`, `fin` (closed by the peer), `finw` (closed, and written to
since: a RST is on its way), `rst` (the next write raises SIGPIPE), `reset` (aborted: the
next write fails without a signal, the one after it raises SIGPIPE), `closed`. A client
that closes with unread data aborts. A delivery to a client of the set `Slow` may fill the
socket buffer; a write to it then blocks until the client reads, closes or is reset.

*Data.* A line is a member of `{"text", "badname"}` or a valid new name, numbered by
order of sending. One `read()` takes some or all of the lines that have arrived, and only
the first of them counts, because the handler cuts the buffer at the first line end. Bytes,
lines that arrive in parts and buffer lengths are not modelled.

*Uninitialized memory.* `last_msg_time` of a new client is any of `GarbageTimes`; the
`pollfd` entries of slots never used hold any of `GarbageFds` and any `events`.

*Failure.* `bind` or `listen` may fail (`StartFails`); SIGINT may come at any moment
(`SigInt`), including half-way through a broadcast, whose remaining writes are then lost;
SIGPIPE ends the process (`SigPipe`). A restarted server shares nothing with its
predecessor, so a restart is not modelled. SIGINT between two statements of a handler's
straight-line part is represented by SIGINT before or after it; the state of the C
library, which `exit()` in a signal handler may break, is not modelled.

`ServerSelect` adds `allset`, `rset` and `maxfd`; `select` with a closed descriptor in the
set fails and leaves `rset = allset`, as the code would then see it. `ServerPoll` adds the
entries of `pfds[]` that belong to slots.

`ChatRoom` is the promise: a room with at most `MAX_CLIENTS` members; each event is
told to a fixed audience, and each member hears what concerns it in order and without
gaps, until the room closes. `ImplementsChatRoom` maps `Members` (connections in slots) to
its members and the history to its log. What the room does for its members is stated in
terms of its log alone (`Promise`): the members are those who connected and have not
disconnected; every event is told to exactly them, or to the one it concerns, a message to
all but the speaker; whoever hears an event has heard all that concerned it before, except
for what the exit notice overtakes.

### LedDriver, LedControl

`mod` and `at` are the progress of `my_init`, its unwinding, or `my_exit`; `InitOrder` and
`ExitOrder` are the code's orders of acquisition and release. `pins` are the GPIO lines
requested, `taken` those held by other drivers. `call` is a `led_write` in progress, one
LED per step. A file pins a loaded module (`Rmmod`), but a load that fails is not stopped
by a file opened in the meantime: its user becomes an `orphan`. What the kernel does when
an orphan uses its file is undefined; the model stops at that point (`oops`).
`led_read` is left out: it changes nothing but the file's offset. The GPIO tests blink the
LEDs while nobody can have the devices open, except an orphan-to-be, and are represented
by their result, all LEDs off.

Writers overlap, because nothing locks the LEDs: `group` and `base` are a history of which
buffers are being, or were last, written together, and of what the LEDs showed before. They
exist to state what may be seen then (`LightStands`).

`LedControl` is the program: it may be killed and started again at any point outside a
system call. `fresh` is a history variable.

### ShmHandoff

A process is a run of the program and a role; `Start` may happen at any time, also while
one or both processes of an earlier run are alive. `pc` is where each process is (`sleep` is
the child's `usleep`), `mem` the memory it has mapped, `done` its loop variable. A memory
object is known by the run that created it; `named` is the one that has `SHM_NAME`, and
`sem`, `waiters` and `value` are what each holds. A producer that finds the name taken maps
what is there and initializes it again, statement by statement, whoever else works on it.
Memory with neither a name nor a mapping is gone (`Die`); the handler of any process takes
the name from whichever memory has it, and `mmap` may fail.

*Semaphores* (external) are those of the C library of Linux: a count of waiters decides
whether `sem_post` wakes anybody, a woken process looks at the value again and can be
overtaken, `sem_init` resets value and count without waking anyone, and `sem_destroy` does
nothing. Two unordered updates of `value` leave it `Garbled`, which is no number.

*Claim.* `claim` is history, and names the condition under which the code keeps its
promise. A run's claim is `init` from its first `sem_init`, if no living process had
that memory mapped, `ready` after the third initialization, `both` when its own consumer has
mapped it then, and lost as soon as any other process maps it. Nothing in the code brings
this about; without it, nothing is promised, and the model shows why. While a consumer
of a killed producer works, the second run initializes the same memory, and then there are two
tokens: the one just made and the one the survivor posts (`lab_2.c:109`). The survivor can also
take the new run's only `sem_full` (`lab_2.c:99`) and be killed with it, and the new run waits
for ever. That there are only two "binary semaphores" (`lab_2.c:61`) for one pair of processes is all the
program says of this, so it is a weakness of the program in the model and not a finding.

### EchoServer

`open` and `holds` are the connections for which the parent and each child have a
descriptor; a connection ends at the client's side when no process holds it (`Alive`), and
the listening socket lives until its last holder has closed it (`Listening`). `chld` is the
one pending bit of SIGCHLD, `handler` the parent inside `sig_chld`; the parent does nothing
else meanwhile, and `accept` is restarted (`signal()` of glibc implies `SA_RESTART`). A
child's `close(connfd)` and `exit(0)` are one step. A line is two units; `up`, `buffer`
and `down` count units on their way, so that lines arrive split or joined. `fork`,
`accept`, `bind` and `listen` may fail, a child may be killed, a client may leave at any
moment. Resets: a side that closed with units unread, or gets units afterwards, answers
with a RST; the client's socket then reports an error once (`err`) and raises SIGPIPE after
that. An error of `read()` passes for an echo in the client (`GetError`).

### FifoChat

Two users, Tom and Jerry, each a process with a send and a receive thread (`snd`, `rcv`).
A FIFO is known by its reader and by which of the reader's starts made it; `named` is the
one that has the name, because `mkfifo` of a name that is there fails unnoticed and the
new run takes over what the old one left.

*Text* is cut into units, numbered as they are typed; a line is one to `RECV_SIZE` units,
and `read` takes at most `RECV_SIZE`, because `fgets` and `read` have the same limit of 253.
So several lines may come in one `read`, and a line in two. `buffer` is `recv_buffer` up to
its first zero byte: `read` overwrites its beginning, and what an earlier, longer read left
behind is printed again. `shown` is the sequence of prints.

*The kernel* (external): `open` of one end waits for the other (`wait`) and then returns even
if the partner has gone again; a write without a reader raises SIGPIPE; each FIFO's contents
stay as long as either of its ends is open, whichever process that is, and vanish with the
last (`FreeUnused`, after every close and every death). A pipe does not fill up.
`cleanup_fifo` unlinks, then exits (`Interrupt`, `Exit`), and the threads run on in between.
A process may be killed at any point, since no handler can be installed for SIGKILL
(`lab_1.c:100`).

Four weaknesses of the program are in the model but in no property, because nothing
promises otherwise. What is in the pipe at the receiver's `close` is lost, although announced as sent,
unless a writer still has the other end open. Old text is printed again behind a shorter new one
(`lab_1.c:61`). SIGPIPE kills a sender when the receiver has closed
between its `open` and its `write`, and leaves its FIFO behind. A sender that waits on a
FIFO which is then unlinked waits for ever, even when the friend has started again.

### ThreadLabs

One module for four labs: `lab` selects a program per thread, a sequence of steps that
other threads can tell apart, so `counter++` is `load` and `add(1)`. The builds are
unoptimized. `owner` are the mutexes, `cond` who waits on the condition variable;
`pthread_cond_wait` gives back the mutex in one step, takes it again in another, and may
return for no reason. The watchdog of `lab_5` may find the counter unchanged at any time:
the model has no clock.

## Runs

| Run | Instance | What it shows |
|---|---|---|
| `select_room` | 3 clients, 2 slots, 1 line, one new name | the invariant of the proofs, no blocking read, complete delivery, exit notice, and refinement of `ChatRoom` with what the room promises, with a refused connection (0.64 M states) |
| `select_live` | 2 clients, 2 slots, one client slow, arbitrary garbage times | progress, whatever the uninitialized message times hold (0.19 M) |
| `select_exit` | 2 clients | expected violation: see Findings |
| `poll_safety` | 3 clients, 2 slots, 1 line, unused entries -1 | the poll server's counterpart, and that it sleeps when idle (0.65 M) |
| `poll_live` | 2 clients, 1 slot, 2 lines, clock 0..1, one new name, arbitrary garbage entries | cooldown and progress, whatever the uninitialized entries hold (0.55 M) |
| `poll_idle` | 2 clients, arbitrary garbage | expected violation: see Findings |
| `shm_handoff` | rounds of 2, the program started twice, at any times | alternation and progress of a run that has its memory for itself, over interrupts, kills, memory left behind and survivors of the other run (0.68 M) |
| `shm_start` | rounds of 2, one start | expected violation: see Findings |
| `echo_server` | 2 clients, with 2 and 1 lines | descriptors, zombies and waiting clients under every failure (0.31 M) |
| `fifo_chat` | 3 units of text in lines of 1 or 2, 2 starts of each user | reachability, order, and no hanging `open` or `read` (0.35 M) |
| `thread_labs` | 4 iterations (lab 1, 2), counters up to 7 (lab 4, 5) | results, lock order, condition variable (15 k) |
| `led_control` | 4 LEDs, `led_control` and one other user, one line wanted by another driver | the driver's life cycle, overlapping writes and the program (0.34 M) |

*Bounds.* `MaxLines` bounds the lines all clients send together, `MaxNow` the clock;
each connection is used once, so the number of connects is bounded by `Conn`; clients stop
sending once the server is ending. Two slots are enough for the order of slots, reuse of a
slot and of a descriptor within one scan, and a broadcast that is half done; a third client
makes the server refuse one. Two lines and two instants are enough for a line within the
cooldown, one after it, and a coalesced read. No fewer descriptors than clients: running
out of descriptors is not modelled. `MAX_LISTEN` never fills up. Clients are
interchangeable, so the runs without liveness use symmetry; the liveness runs do not. In the LED run
the sets are those of the code (four LEDs, one button, six objects), the other user writes
a pattern with an invalid character, and one LED line is contested. `MAX_SIZE` is 2 instead of 5 in
`shm_handoff`: a round can be entered, half done and over. Two starts are a survivor and a
new run, in either part: four processes, two memory objects. Two echo clients are enough
for two children that end before one signal is delivered, for a child forked while another
serves, and for one connection in the queue while another is being handed over; the second
line of one client meets the rest of its first echo. In `fifo_chat` three units with
a limit of two are the fewest for a short text behind a longer one, a text that does not fit one
`read`, and one unit shown, one in the pipe and one being sent; two starts let a run meet what the
previous one left. In `thread_labs` `LOOPS` is 4 instead of 1000000; the least
result of `lab_1`, 2, already needs three. `MaxCounter` keeps the producer of `lab_4` at
most seven items ahead (in the program it sleeps a second per item) and ends `lab_5`.

*Deadlock* is checked in every run but `echo_server`, which really stops once the server has
exited and the clients are gone; elsewhere a process that has ended stutters explicitly.

*Fairness.* Weak fairness of the server (`WF_vars(Server)`): the scheduler runs its one
thread. Weak fairness of `RstArrives` and `ClientReads` for each connection: the kernel's
answer arrives, and a client that stopped reading reads on or closes. The latter is not in
the code's hand, and is needed: a client that never reads blocks the server for ever
(`server_select.c:68`). Nothing is assumed of clients, the clock or SIGINT. In the LED
system only `led_control` is fair. In `ShmHandoff` a process in its loop is
scheduled; that one gets to its loop is not assumed. In
`EchoServer` the parent, the children, and a client waiting in `read` are; a failing
`accept` is never owed, nor is anything the clients decide. In `FifoChat` the two threads
of a process are scheduled once they can run; users need type nothing, nobody need start or die, and
the handler need not get on. In
`ThreadLabs` every thread is scheduled, but owed nothing of the mutex if others keep
taking it, and spurious wake-ups are not owed.

## Properties

Of both servers, in `ChatProperties`: `DescriptorsExact` and `ConnectionsExact` (no leak,
no sharing; parts of `IInv`), `NothingMissed`, `NothingMisdirected` (part of `IInv`), `Cooldown`,
`ExitTellsAll`, the refinement `ImplementsChatRoom`, `RoomPromise` (what a room promises, with no mention of slots and
descriptors) and three leads-to properties. Of each
server: its watch set is exact (`WatchSetExact`, `PollSetExact`, parts of `IInv`) and
`ReadNeverBlocks`. Of the driver: `HeldExact` (what is held follows from how far it got)
and `FilesBacked` (an open file pins the module), parts of `IInv`;
`OrphansFromFailedLoad`, `LeakIsForever` (after a `gpio_setup` that failed half-way no load
ever succeeds again), `LightStands` (each LED shows what one of the latest overlapping writes
has for it, or what it showed before them if none has come to it, so patterns mix and stay half
written, but no LED shows anything else); of the program on top: `OnePressOneStep`,
`PressNoticed`. Of the shared-memory lab: `HandsOver` (if a producer initialized memory that no
living process had mapped, its own consumer came after, and nobody of another run has come
since, the two take turns, and each finds `value` where the other left it, whatever an earlier
run left) and `TurnComes` (as long as this lasts and both live, turns come round). Of the echo server: `OwnConnectionOnly`, `ZombiesAnnounced`, and
that children are reaped, waiting clients answered and queued connections accepted or
reset. Of the FIFO chat: `Reachable` (whoever runs reads the FIFO that has its name; part
of `IInv`), `ShownInOrder` (every print begins with text newer than all printed before, and what
follows is old text), and that senders and receivers do not hang
(`SenderReleased`, `ReaderReleased`). Of the thread labs: `ResultRight` (what `lab_1` and
`lab_2` may print), `NoCircularWait`, `NeverOversold`, `GoodsConsumed`, and in `IInv` who
holds which mutex at each statement (`OwnersExact`).

## Findings

* `select_exit`: `exit_handler` says "Broadcast to all clients on exit"
  (`server_select.c:80`). A client that aborted its connection makes a write of that
  broadcast raise SIGPIPE; the clients in later slots are not told. `ExitTellsAll` is what
  remains true: a server that gets to the end of its exit handler has told everyone.
* `poll_idle`: section-07/README.md:726 promises a thread that "sleeps (no CPU) when idle
  and wakes only on activity". `server_poll.c:92` leaves the entries of unused slots
  uninitialized; one that holds a number which is no open descriptor makes every `poll`
  return at once. With negative garbage the property holds (`poll_safety`).
* `shm_start`: `lab_2.c:127` sleeps half a second to "Ensure producer starts first". A
  consumer that runs before the producer's `sem_init` waits on an uninitialized semaphore.
  `HandsOver` is what remains true when the order happens to be kept, and the memory is
  the run's own.

## Proofs

*Chat servers.* All theorems of `ServerSelectProofs` assume only `ConstantsAssumption` (descriptors are
numbers above the listening socket's, at least one slot, a positive cooldown); they hold
for any number of clients, slots, descriptors and lines.

`IInv` is the inductive invariant. `NothingMissed` alone is not inductive: to keep it, a
write must go to the slot it was meant for (`WritesPending`), no two slots may lead to one
connection (`DescriptorsExact`, `ConnectionsExact`), and a new connection must have nothing
addressed to it before (`WritesPending`). `ReadNeverBlocks` needs `ReportStands`: what
`select` reported of a slot stays true until the slot is scanned, because only the server
takes lines away and a descriptor handed out by `accept` was not open when `select` looked,
hence is not in `rset`. `ChatProofs` shows, one lemma per action, that `CoreInv` survives
every step of `ChatCore`; `ServerSelectProofs` adds the descriptor sets and concludes
`Spec => []IInv` and from it the type invariant, `WatchSetExact`, `ReadNeverBlocks`,
`DescriptorsExact`, `NothingMissed`, `NothingMisdirected` and the action property
`ReceivedInOrder`.

*Refinement.* `ChatProofs` also shows that every step of `ChatCore` is a step of `ChatRoom`
or leaves its variables alone. Besides `CoreInv` this needs `RoomInv`: nobody is
mentioned before it was accepted, a connection that is turned away was told nothing before, and
the exit handler writes nothing but its last entry. Both servers cite it.

*Promise.* `RoomKeepsPromise` is about `ChatRoom` alone: `Promise` is inductive. What is in
the log stays, and the members at an event are settled by the log up to it (`PastStays`),
so an action answers only for the events it adds. The audience of an event is what the
server computed from its slots at that moment; that it is also right by the log needs that
a connection joins at most once (`Fresh`). A member hears the least of what is due, so it
hears without gaps, but for the exit notice, which is the last entry (`LastIsCall`).
`PromiseKept` follows for each server from its refinement, whatever slots and descriptors
were reused.

*Pace and exit.* `Cooldown` needs `Paced` and `Queued`: the lines of a connection wait in the
order they were sent, what it published came before them, and its slot's `last` is no earlier
than its last message. A slot is filled with an uninitialized `last`, which is harmless only
because its new connection has published nothing (`RoomInv`: a connection is used once).
`ExitTellsAll` follows from `TellsAll`: until the exit handler ends, each member still
connected has the notice or a write of it to come. Both are proved for either server.

*The poll server* shares `ChatProofs`. Its `CoreInv`, its refinement and the order of
delivery, the pace and the exit notice hold whatever the uninitialized entries contain. That `read` never blocks, and
that the polled entries follow the slots, need `GarbageHarmless`: no garbage entry names
the listening socket or a client's descriptor. Without it the property is false: such an
entry, copied by chance, is reported readable for the slot that is then filled.
`SleepsWhenIdle` needs negative garbage; `poll_idle` shows why.

*LED system* (`LedProofs`). `HeldExact` is inductive with `AtInRange` and what is held
during removal. `OrphansFromFailedLoad` rests on `FilesBacked`. `LeakIsForever` follows
from `Leaked`, which a step never leaves: line 0 is requested and the next `gpio_setup`
asks for it first. `LightStands` is inductive with
`InGroup`: while the device is in use, every write in progress is one of the overlapping
ones (`Steady`). It holds for any number of LEDs, users and patterns.
`OnePressOneStep` needs `PressIsFresh`: while the program polls or sleeps, a button that is
down, or was seen down, went down since the last instruction, because the program polls
again only after it has seen the button up.

*Shared memory* (`ShmProofs`). `HandsOver` follows from `Alone` and `OneToken`, for every
`MAX_SIZE` and any number of runs, started at any time: a claimed memory is mapped by nobody
but the claiming run, so no other process reaches its semaphores; from the initialization on there is
at most one token, in a semaphore or with the process that works, and where it is tells
`value`. A process that dies working takes it along. `Fresh` is needed for new memory: nobody has
that of a run that has not opened any.

*FIFO chat* (`FifoChatProofs`). `ShownInOrder` alone is not inductive. `OnItsWay` is needed:
text in a FIFO is newer than all that was printed, what is about to be written is newer
still, and `recv_buffer` holds only what was printed; and `HeldOpen`: of a reader's FIFOs only
one holds text, so that a writer on a new FIFO cannot be overtaken by text in an old one. The proofs
hold for any length of lines, any text and any number of starts.

*Echo server* (`EchoProofs`). `OwnConnectionOnly` and `ZombiesAnnounced` are inductive with
the types; these need `EchoOnly`, since the units on their way are bounded by the lines
sent. The proofs hold for any number of clients and lines.

*Thread labs* (`ThreadLabsProofs`), for any number of rounds from 2 up and any limit of
the counter from 4 up. `OwnersExact` says who owns each mutex from where each thread is.
`NoCircularWait` follows: a thread that holds one mutex and waits for another holds
`mutex1` and waits for `mutex2`. For `lab_2`, `LoadCurrent` says that what the thread in the
section has loaded is still the counter, and `NoneLost` that the counter is the sum of the
rounds. For `lab_1` counter and registers never exceed the number of stores; the least
result, 2, needs `SomeKept`: a thread that has stored never again loads less than 1, so one
that brings the counter back to 1 had stored nothing before and still has rounds to go.
`NeverOversold` needs `WaitsInLoop` and `FourThere`: past the `while` of `lab_4` the four
items counted under the mutex are still there, however the consumer was woken.

Model-checked only: liveness, which is out of the prover's reach.

## Not modelled

* UDP echo (`section-07/lab/lab_3`): client and server are each a loop that keeps nothing
  between two datagrams and has no retry, number or timeout. A lost datagram leaves the
  client in `recvfrom` for ever; there is nothing in the program that a model could check
  against it.
* Linked list and dispatch table (`section-02/lab`): sequential and without a history;
  what they return for each list is a matter for tests.
* Debugging labs (`section-06/lab`): wrong on purpose, one fault each. After the data race of
  `lab_2` or the use of freed memory the behaviour is undefined; the pipe of `lab_3` is one
  process that waits for itself at once.
* IPC demos (`section-05/lab`): each process makes a fixed sequence of calls. In `lab_3`
  the alarm may come before `pause()`, which then never returns: one race between two
  statements.
* `section-04/lab/lab_3.c`: its threads share nothing in the variant that is built.
* Memory layout labs, hello module: they print and end.

## Plan

1. Done: the chat servers, their abstract specification, refinement and proofs; the LED
   driver and its program; `ShmHandoff`; `EchoServer`; `FifoChat`; `ThreadLabs`.
2. Done: proofs of every safety and action property that the runs find to hold, and of the
   refinement of `ChatRoom`.
3. To prove still: that `lab_2` implements an atomic counter, and facts of the operators
   of `EchoServer` that its liveness rests on, such as that a
   waiting client's units are somewhere on their way.
