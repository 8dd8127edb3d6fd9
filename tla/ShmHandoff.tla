----------------------------- MODULE ShmHandoff -----------------------------
(***************************************************************************)
(* section-05/lab/lab_2.c: a parent (the producer) and its child (the      *)
(* consumer) hand a counter to and fro in shared memory, with two          *)
(* semaphores inside that memory.  Either process may get SIGINT, whose    *)
(* handler takes the memory its name, or be killed, which leaves the name. *)
(* The program may be started again at any time, also while a process of   *)
(* an earlier run is alive: a producer that finds memory under the name    *)
(* initializes it again, whoever else works on it.  usleep() orders        *)
(* nothing: the consumer's half second may be over before the producer has *)
(* run.                                                                    *)
(*                                                                         *)
(* Of the C library: sem_destroy() does nothing; a semaphore counts those  *)
(* who have found it at zero; sem_post() wakes one sleeper, but only if    *)
(* that count is not zero; sem_init() resets it.  What a data race leaves  *)
(* in value is Garbled.                                                    *)
(***************************************************************************)
EXTENDS Integers

CONSTANTS
  MAX_SIZE,
  MaxStarts,   \* bound: times the program is started
  Garbled

ASSUME SizeAssumption == MAX_SIZE \in Nat \ {0} /\ MaxStarts \in Nat /\ Garbled \notin Int

Runs        == 1..MaxStarts
Producer(r) == <<r, "producer">>
Consumer(r) == <<r, "consumer">>
Proc        == {Producer(r) : r \in Runs} \cup {Consumer(r) : r \in Runs}
Sems        == {"sem_empty", "sem_full"}
WaitsOn(p)  == IF p[2] = "producer" THEN "sem_empty" ELSE "sem_full"
Posts(p)    == IF p[2] = "producer" THEN "sem_full" ELSE "sem_empty"
NoClaim     == [at |-> "no", mem |-> 0]

(* A memory object is known by the run that created it, 0 being none.       *)
VARIABLES
  pc,       \* where each process is
  mem,      \* the memory it has mapped
  done,     \* items produced or consumed in the current round
  asleep,   \* in sem_wait(): "no", "yes", or "woken" and about to look again
  named,    \* the memory that has SHM_NAME
  sem, waiters, value,   \* what is in each memory
  claim     \* history: how far each run got with a memory it has for itself

vars == <<pc, mem, done, asleep, named, sem, waiters, value, claim>>

TypeOK ==
  /\ pc \in [Proc -> {"none", "sleep", "open", "init_empty", "init_full", "init_value",
                      "wait", "work", "dead"}]
  /\ mem \in [Proc -> 0..MaxStarts]
  /\ done \in [Proc -> 0..MAX_SIZE]
  /\ asleep \in [Proc -> {"no", "yes", "woken"}]
  /\ named \in 0..MaxStarts
  /\ sem \in [Runs -> [Sems -> Nat]]
  /\ waiters \in [Runs -> [Sems -> Int]]
  /\ value \in [Runs -> Int \cup {Garbled}]
  /\ claim \in [Runs -> [at : {"no", "init", "ready", "both"}, mem : 0..MaxStarts]]

Init ==
  /\ pc = [p \in Proc |-> "none"]
  /\ mem = [p \in Proc |-> 0]
  /\ done = [p \in Proc |-> 0]
  /\ asleep = [p \in Proc |-> "no"]
  /\ named = 0
  /\ sem = [m \in Runs |-> [s \in Sems |-> 0]]
  /\ waiters = [m \in Runs |-> [s \in Sems |-> 0]]
  /\ value = [m \in Runs |-> 0]
  /\ claim = [r \in Runs |-> NoClaim]

-----------------------------------------------------------------------------
(* main(): fork() *)
Start(r) ==
  /\ pc[Producer(r)] = "none" /\ \A q \in Runs : q < r => pc[Producer(q)] # "none"
  /\ pc' = [pc EXCEPT ![Producer(r)] = "open", ![Consumer(r)] = "sleep"]
  /\ UNCHANGED <<mem, done, asleep, named, sem, waiters, value, claim>>

(* The process ends, with n the memory that has the name then.  Memory with *)
(* neither a name nor a mapping is gone.                                    *)
Die(p, n) ==
  /\ pc' = [pc EXCEPT ![p] = "dead"]
  /\ mem' = [mem EXCEPT ![p] = 0]
  /\ done' = [done EXCEPT ![p] = 0]
  /\ asleep' = [asleep EXCEPT ![p] = "no"]
  /\ named' = n
  /\ claim' = [claim EXCEPT ![p[1]] = IF \E q \in Proc \ {p} : q[1] = p[1] /\ pc[q] # "dead" THEN @ ELSE NoClaim]
  /\ LET Held(m) == n = m \/ \E q \in Proc \ {p} : mem[q] = m IN
     /\ sem' = [m \in Runs |-> IF Held(m) THEN sem[m] ELSE [s \in Sems |-> 0]]
     /\ waiters' = [m \in Runs |-> IF Held(m) THEN waiters[m] ELSE [s \in Sems |-> 0]]
     /\ value' = [m \in Runs |-> IF Held(m) THEN value[m] ELSE 0]

(* mmap: a run no longer has the memory for itself when anybody else comes, *)
(* and its own consumer counts if the memory was ready.                     *)
Attach(p, m) ==
  /\ mem' = [mem EXCEPT ![p] = m]
  /\ claim' = [r \in Runs |->
                 IF claim[r].mem # m THEN claim[r]
                 ELSE IF p = Consumer(r) /\ claim[r].at = "ready" THEN [at |-> "both", mem |-> m]
                 ELSE NoClaim]

(* shm_open(O_CREAT), ftruncate, mmap: new memory is zero, as in Init, old  *)
(* memory is as it was left                                                 *)
ProducerOpens(r) ==
  LET p == Producer(r)
      m == IF named = 0 THEN r ELSE named
  IN
  /\ pc[p] = "open"
  /\ \/ /\ Attach(p, m) /\ named' = m
        /\ pc' = [pc EXCEPT ![p] = "init_empty"]
        /\ UNCHANGED <<done, asleep, sem, waiters, value>>
     \/ Die(p, m)          \* mmap fails

SemInit(m, s, n) ==
  sem' = [sem EXCEPT ![m][s] = n] /\ waiters' = [waiters EXCEPT ![m][s] = 0]

InitEmpty(r) ==
  LET p == Producer(r) IN
  /\ pc[p] = "init_empty"
  /\ SemInit(mem[p], "sem_empty", 1)
  /\ claim' = [claim EXCEPT ![r] = IF \E q \in Proc \ {p} : mem[q] = mem[p] THEN NoClaim
                                        ELSE [at |-> "init", mem |-> mem[p]]]
  /\ pc' = [pc EXCEPT ![p] = "init_full"]
  /\ UNCHANGED <<mem, done, asleep, named, value>>

(* Mutant: both semaphores start at 1. *)
InitFullToo(r) ==
  LET p == Producer(r) IN
  /\ pc[p] = "init_full"
  /\ SemInit(mem[p], "sem_full", 1)
  /\ pc' = [pc EXCEPT ![p] = "init_value"]
  /\ UNCHANGED <<mem, done, asleep, named, value, claim>>

InitFull(r) ==
  LET p == Producer(r) IN
  /\ pc[p] = "init_full"
  /\ SemInit(mem[p], "sem_full", 0)
  /\ pc' = [pc EXCEPT ![p] = "init_value"]
  /\ UNCHANGED <<mem, done, asleep, named, value, claim>>

(* Somebody else accesses value in the same memory. *)
Raced(p) == \E q \in Proc \ {p} : mem[q] = mem[p] /\ pc[q] \in {"init_value", "work"}

InitValue(r) ==
  LET p == Producer(r) IN
  /\ pc[p] = "init_value"
  /\ value' = [value EXCEPT ![mem[p]] = IF Raced(p) THEN Garbled ELSE 0]
  /\ claim' = [claim EXCEPT ![r] = IF @.at = "init" THEN [@ EXCEPT !.at = "ready"] ELSE @]
  /\ pc' = [pc EXCEPT ![p] = "wait"]
  /\ UNCHANGED <<mem, done, asleep, named, sem, waiters>>

(* shm_open without O_CREAT: with no memory of that name mmap fails too *)
ConsumerOpens(r) ==
  LET p == Consumer(r) IN
  /\ pc[p] = "sleep"
  /\ \/ /\ named # 0 /\ Attach(p, named)
        /\ pc' = [pc EXCEPT ![p] = "wait"]
        /\ UNCHANGED <<done, asleep, named, sem, waiters, value>>
     \/ Die(p, named)

-----------------------------------------------------------------------------
(* One round of either loop *)

(* sem_wait(): who has slept no longer counts as a waiter *)
Enter(p) ==
  LET m == mem[p]
      s == WaitsOn(p)
  IN
  /\ pc[p] = "wait" /\ asleep[p] # "yes" /\ sem[m][s] > 0
  /\ sem' = [sem EXCEPT ![m][s] = @ - 1]
  /\ waiters' = [waiters EXCEPT ![m][s] = IF asleep[p] = "woken" THEN @ - 1 ELSE @]
  /\ asleep' = [asleep EXCEPT ![p] = "no"]
  /\ pc' = [pc EXCEPT ![p] = "work"]
  /\ UNCHANGED <<mem, done, named, value, claim>>

FallAsleep(p) ==
  LET m == mem[p]
      s == WaitsOn(p)
  IN
  /\ pc[p] = "wait" /\ asleep[p] # "yes" /\ sem[m][s] = 0
  /\ waiters' = [waiters EXCEPT ![m][s] = IF asleep[p] = "no" THEN @ + 1 ELSE @]
  /\ asleep' = [asleep EXCEPT ![p] = "yes"]
  /\ UNCHANGED <<pc, mem, done, named, sem, value, claim>>

Step(p) == IF p[2] = "producer" THEN 1 ELSE -1

(* Mutant: the for loop runs once too often. *)
WorkOver(p) ==
  /\ pc[p] = "work" /\ done[p] <= MAX_SIZE
  /\ value' = [value EXCEPT ![mem[p]] = IF Raced(p) \/ @ = Garbled THEN Garbled ELSE @ + Step(p)]
  /\ done' = [done EXCEPT ![p] = @ + 1]
  /\ UNCHANGED <<pc, mem, asleep, named, sem, waiters, claim>>

Work(p) ==
  /\ pc[p] = "work" /\ done[p] < MAX_SIZE
  /\ value' = [value EXCEPT ![mem[p]] = IF Raced(p) \/ @ = Garbled THEN Garbled ELSE @ + Step(p)]
  /\ done' = [done EXCEPT ![p] = @ + 1]
  /\ UNCHANGED <<pc, mem, asleep, named, sem, waiters, claim>>

(* Mutant: the waiter is not posted. *)
LeaveSilently(p) ==
  /\ pc[p] = "work" /\ done[p] = MAX_SIZE
  /\ pc' = [pc EXCEPT ![p] = "wait"] /\ done' = [done EXCEPT ![p] = 0]
  /\ UNCHANGED <<mem, asleep, named, sem, waiters, value, claim>>

(* sem_post() wakes one of those who sleep on this semaphore, if it knows   *)
(* of any                                                                   *)
Leave(p) ==
  LET m        == mem[p]
      s        == Posts(p)
      sleepers == {q \in Proc : mem[q] = m /\ WaitsOn(q) = s /\ asleep[q] = "yes"}
  IN
  /\ pc[p] = "work" /\ done[p] = MAX_SIZE
  /\ sem' = [sem EXCEPT ![m][s] = @ + 1]
  /\ IF waiters[m][s] # 0 /\ sleepers # {}
       THEN \E q \in sleepers : asleep' = [asleep EXCEPT ![q] = "woken"]
       ELSE UNCHANGED asleep
  /\ pc' = [pc EXCEPT ![p] = "wait"] /\ done' = [done EXCEPT ![p] = 0]
  /\ UNCHANGED <<mem, named, waiters, value, claim>>

-----------------------------------------------------------------------------
Live(p) == pc[p] \notin {"none", "dead"}

(* handler(): whichever memory has the name loses it, and whoever has it    *)
(* mapped keeps his mapping                                                 *)
SigInt(p)  == Live(p) /\ Die(p, 0)
SigKill(p) == Live(p) /\ Die(p, named)

Opens(r) == ProducerOpens(r) \/ InitEmpty(r) \/ InitFull(r) \/ InitValue(r)
Loop(p)  == Enter(p) \/ FallAsleep(p) \/ Work(p) \/ Leave(p)

Next ==
  \/ \E r \in Runs : Start(r) \/ Opens(r) \/ ConsumerOpens(r)
  \/ \E p \in Proc : Loop(p) \/ SigInt(p) \/ SigKill(p)
  \/ (\A p \in Proc : pc[p] = "dead") /\ UNCHANGED vars

(* A process in its loop is scheduled.                                      *)
Spec == Init /\ [][Next]_vars /\ \A p \in Proc : WF_vars(Loop(p))

-----------------------------------------------------------------------------
(* If a producer initialized memory that no other living process had        *)
(* mapped, its own consumer came after that, and nobody of another run has  *)
(* come since, the two take turns - whatever an earlier run left there -    *)
(* and each finds value where the other left it: 0 before production,       *)
(* MAX_SIZE before consumption.                                             *)
HandsOver ==
  \A r \in Runs : claim[r].at = "both" =>
    LET p == Producer(r)
        c == Consumer(r)
        v == value[claim[r].mem]
    IN  /\ ~(pc[p] = "work" /\ pc[c] = "work")
        /\ pc[p] = "work" => v = done[p]
        /\ pc[c] = "work" => v = MAX_SIZE - done[c]

(* Why: the memory a run has for itself is mapped by nobody else, and from  *)
(* the initialization on there is at most one token, in a semaphore or with *)
(* the process that works (it is lost with one that dies working); where it *)
(* is tells value.                                                          *)
Alone(r) ==
  LET p == Producer(r)
      c == Consumer(r)
  IN
  IF claim[r].at = "no" THEN claim[r] = NoClaim
  ELSE /\ claim[r].mem # 0
       /\ pc[p] # "dead" => mem[p] = claim[r].mem
       /\ \A q \in Proc : mem[q] = claim[r].mem => q = p \/ (q = c /\ claim[r].at = "both")
       /\ pc[p] \in (IF claim[r].at = "init" THEN {"init_full", "init_value", "dead"}
                                            ELSE {"wait", "work", "dead"})
       /\ (claim[r].at = "both" /\ pc[c] # "dead") => mem[c] = claim[r].mem

Turn(p) == IF pc[p] = "work" THEN 1 ELSE 0

OneToken(r) ==
  LET p == Producer(r)
      c == Consumer(r)
      m == claim[r].mem
  IN
  /\ (claim[r].at = "init" /\ pc[p] # "dead") =>
       sem[m]["sem_empty"] = 1 /\ (pc[p] = "init_value" => sem[m]["sem_full"] = 0)
  /\ claim[r].at \in {"ready", "both"} =>
       /\ sem[m]["sem_empty"] + sem[m]["sem_full"] + Turn(p)
            + (IF claim[r].at = "both" THEN Turn(c) ELSE 0) <= 1
       /\ sem[m]["sem_empty"] > 0 => value[m] = 0
       /\ sem[m]["sem_full"] > 0 => value[m] = MAX_SIZE
       /\ pc[p] = "work" => value[m] = done[p]
       /\ (claim[r].at = "both" /\ pc[c] = "work") => value[m] = MAX_SIZE - done[c]

(* A process has memory from its opening to its end, a run has both         *)
(* processes from its start, only the producer initializes, and nobody has  *)
(* the memory of a run that has not opened any.                             *)
Fresh ==
  /\ \A p \in Proc : /\ pc[p] \in {"none", "sleep", "open", "dead"} <=> mem[p] = 0
                     /\ pc[p] # "wait" => asleep[p] = "no"
                     /\ pc[p] # "work" => done[p] = 0
  /\ \A r \in Runs : /\ pc[Producer(r)] = "none" <=> pc[Consumer(r)] = "none"
                     /\ pc[Consumer(r)] \notin {"open", "init_empty", "init_full", "init_value"}
  /\ \A r \in Runs : pc[Producer(r)] \in {"none", "open"} =>
                       /\ named # r /\ claim[r].at = "no"
                       /\ \A p \in Proc : mem[p] # r

IInv == TypeOK /\ Fresh /\ \A r \in Runs : Alone(r) /\ OneToken(r)

(* As long as they have the memory for themselves and both live, turns come *)
(* round: the producer's again and again, and so the consumer's between     *)
(* them, since nobody else posts sem_empty.                                 *)
TurnComes ==
  \A r \in Runs :
    (claim[r].at = "both" /\ pc[Producer(r)] = "wait")
      ~> \/ pc[Producer(r)] = "work" \/ claim[r].at # "both"
         \/ \E p \in {Producer(r), Consumer(r)} : pc[p] = "dead"

(* main() puts the consumer to sleep to "Ensure producer starts first": it  *)
(* does not wait on a semaphore its producer has yet to initialize.         *)
ProducerFirst ==
  \A r \in Runs : pc[Consumer(r)] \in {"wait", "work"} =>
    pc[Producer(r)] \notin {"open", "init_empty", "init_full", "init_value"}
=============================================================================
