----------------------------- MODULE ThreadLabs -----------------------------
(***************************************************************************)
(* section-04/lab: lab_1.c (a counter without a lock), lab_2.c (with one), *)
(* lab_4.c (producer and consumer with a condition variable) and lab_5.c   *)
(* (two mutexes in a fixed order, and a watchdog).  Each lab is a program  *)
(* per thread, written as a sequence of the steps that other threads can   *)
(* tell apart; the actions are the steps.  The builds are unoptimized:     *)
(* counter++ is a load and a store.                                        *)
(***************************************************************************)
EXTENDS Integers, Sequences

CONSTANTS
  LOOPS,      \* bound: iterations of lab_1 and lab_2, 1000000 in the source
  MaxCounter  \* bound: lab_4 and lab_5 take no first lock at this count

ASSUME BoundsAssumption ==
  LOOPS \in Nat \ {0, 1} /\ MaxCounter \in Nat /\ MaxCounter >= 4

VARIABLES
  lab,      \* the program that runs
  at,       \* per thread, its next step
  reg,      \* per thread, the value it loaded
  loops,    \* per thread, iterations done
  owner,    \* the thread that holds a mutex, "none" if free
  cond,     \* per thread: not waiting on cond, waiting, or woken without the mutex
  counter,
  result,   \* what main printed, -1 before
  ended     \* the process has ended

vars == <<lab, at, reg, loops, owner, cond, counter, result, ended>>

Labs    == {"lab_1", "lab_2", "lab_4", "lab_5"}
Threads == {"t1", "t2", "t3"}
Mutexes == {"mutex1", "mutex2"}     \* mutex is mutex1 in lab_2 and lab_4

-----------------------------------------------------------------------------
(* The steps a program is made of *)
lock(m)   == [op |-> "lock", arg |-> m]
unlock(m) == [op |-> "unlock", arg |-> m]
add(n)    == [op |-> "add", arg |-> n]      \* store what was loaded, plus n
atleast(n) == [op |-> "atleast", arg |-> n] \* while (counter < n) pthread_cond_wait
load      == [op |-> "load"]
signal    == [op |-> "signal"]
again     == [op |-> "again"]
check     == [op |-> "check"]

lab_1_increment == <<load, add(1), again>>

(* Mutant: the mutex is given back too early. *)
lab_2_early == <<lock("mutex1"), load, unlock("mutex1"), add(1), again>>
lab_2_increment == <<lock("mutex1"), load, add(1), unlock("mutex1"), again>>

(* Mutant: no signal. *)
lab_4_mute == <<lock("mutex1"), load, add(1), unlock("mutex1"), again>>
lab_4_producer == <<lock("mutex1"), load, add(1), signal, unlock("mutex1"), again>>
lab_4_consumer == <<lock("mutex1"), atleast(4), load, add(-4), unlock("mutex1"), again>>

(* Mutant: the order that the comment in lab_5.c:14 stands for. *)
thread_a_reversed ==
  <<lock("mutex2"), lock("mutex1"), load, add(1), unlock("mutex1"), unlock("mutex2"), again>>
thread_a ==
  <<lock("mutex1"), lock("mutex2"), load, add(1), unlock("mutex2"), unlock("mutex1"), again>>
thread_b ==
  <<lock("mutex1"), lock("mutex2"), load, add(1), unlock("mutex2"), unlock("mutex1"), again>>
thread_c == <<load, check, again>>

Program ==
  [lab_1 |-> [t1 |-> lab_1_increment, t2 |-> lab_1_increment, t3 |-> <<>>],
   lab_2 |-> [t1 |-> lab_2_increment, t2 |-> lab_2_increment, t3 |-> <<>>],
   lab_4 |-> [t1 |-> lab_4_producer,  t2 |-> lab_4_consumer,  t3 |-> <<>>],
   lab_5 |-> [t1 |-> thread_a,        t2 |-> thread_b,        t3 |-> thread_c]]

(* The bound: who starts a round that raises the counter without end        *)
Capped == {<<"lab_4", "t1", 1>>, <<"lab_5", "t1", 1>>, <<"lab_5", "t2", 1>>}

Returned(t) == at[t] > Len(Program[lab][t])
Instr(t)    == Program[lab][t][at[t]]
Is(t, op)   == ~ended /\ cond[t] = "no" /\ ~Returned(t) /\ Instr(t).op = op
Advance(t)  == at' = [at EXCEPT ![t] = @ + 1]

TypeOK ==
  /\ lab \in Labs
  /\ at \in [Threads -> Nat]
  /\ \A t \in Threads : at[t] \in 1..Len(Program[lab][t]) + 1
  /\ reg \in [Threads -> Int]
  /\ loops \in [Threads -> 0..LOOPS]
  /\ owner \in [Mutexes -> Threads \cup {"none"}]
  /\ cond \in [Threads -> {"no", "waiting", "woken"}]
  /\ counter \in Int /\ result \in Int
  /\ ended \in BOOLEAN

Init ==
  /\ lab \in Labs
  /\ at = [t \in Threads |-> 1]
  /\ reg = [t \in Threads |-> 0]
  /\ loops = [t \in Threads |-> 0]
  /\ owner = [m \in Mutexes |-> "none"]
  /\ cond = [t \in Threads |-> "no"]
  /\ counter = 0 /\ result = -1 /\ ended = FALSE

-----------------------------------------------------------------------------
Lock(t) ==
  /\ Is(t, "lock") /\ owner[Instr(t).arg] = "none"
  /\ <<lab, t, at[t]>> \in Capped => counter < MaxCounter
  /\ owner' = [owner EXCEPT ![Instr(t).arg] = t]
  /\ Advance(t)
  /\ UNCHANGED <<lab, reg, loops, cond, counter, result, ended>>

Unlock(t) ==
  /\ Is(t, "unlock")
  /\ owner' = [owner EXCEPT ![Instr(t).arg] = "none"]
  /\ Advance(t)
  /\ UNCHANGED <<lab, reg, loops, cond, counter, result, ended>>

Load(t) ==
  /\ Is(t, "load")
  /\ reg' = [reg EXCEPT ![t] = counter]
  /\ Advance(t)
  /\ UNCHANGED <<lab, loops, owner, cond, counter, result, ended>>

Add(t) ==
  /\ Is(t, "add")
  /\ counter' = reg[t] + Instr(t).arg
  /\ Advance(t)
  /\ UNCHANGED <<lab, reg, loops, owner, cond, result, ended>>

(* Mutant: one iteration too many. *)
AgainOver(t) ==
  /\ Is(t, "again")
  /\ IF lab \in {"lab_1", "lab_2"}
     THEN /\ loops' = [loops EXCEPT ![t] = @ + 1]
          /\ at' = [at EXCEPT ![t] = IF loops'[t] <= LOOPS THEN 1 ELSE @ + 1]
     ELSE at' = [at EXCEPT ![t] = 1] /\ UNCHANGED loops
  /\ UNCHANGED <<lab, reg, owner, cond, counter, result, ended>>

Again(t) ==
  /\ Is(t, "again")
  /\ IF lab \in {"lab_1", "lab_2"}
     THEN /\ loops' = [loops EXCEPT ![t] = @ + 1]
          /\ at' = [at EXCEPT ![t] = IF loops'[t] < LOOPS THEN 1 ELSE @ + 1]
     ELSE at' = [at EXCEPT ![t] = 1] /\ UNCHANGED loops
  /\ UNCHANGED <<lab, reg, owner, cond, counter, result, ended>>

(* The condition variable.  pthread_cond_wait() may return without a signal. *)
AtLeast(t) ==
  /\ Is(t, "atleast")
  /\ IF counter >= Instr(t).arg THEN Advance(t) /\ UNCHANGED <<owner, cond>>
     ELSE /\ cond' = [cond EXCEPT ![t] = "waiting"]
          /\ owner' = [owner EXCEPT !["mutex1"] = "none"]
          /\ UNCHANGED at
  /\ UNCHANGED <<lab, reg, loops, counter, result, ended>>

Signal(t) ==
  /\ Is(t, "signal")
  /\ IF \E u \in Threads : cond[u] = "waiting"
     THEN \E u \in Threads : cond[u] = "waiting" /\ cond' = [cond EXCEPT ![u] = "woken"]
     ELSE UNCHANGED cond
  /\ Advance(t)
  /\ UNCHANGED <<lab, reg, loops, owner, counter, result, ended>>

Spurious(t) ==
  /\ ~ended /\ cond[t] = "waiting"
  /\ cond' = [cond EXCEPT ![t] = "woken"]
  /\ UNCHANGED <<lab, at, reg, loops, owner, counter, result, ended>>

(* Mutant: if instead of while. *)
RelockGoesOn(t) ==
  /\ ~ended /\ cond[t] = "woken" /\ owner["mutex1"] = "none"
  /\ owner' = [owner EXCEPT !["mutex1"] = t]
  /\ cond' = [cond EXCEPT ![t] = "no"]
  /\ Advance(t)
  /\ UNCHANGED <<lab, reg, loops, counter, result, ended>>

Relock(t) ==
  /\ ~ended /\ cond[t] = "woken" /\ owner["mutex1"] = "none"
  /\ owner' = [owner EXCEPT !["mutex1"] = t]
  /\ cond' = [cond EXCEPT ![t] = "no"]
  /\ UNCHANGED <<lab, at, reg, loops, counter, result, ended>>

(* thread_c after sleep(1): exit(-1) if the counter has stood still.        *)
Check(t) ==
  /\ Is(t, "check")
  /\ IF counter = reg[t] THEN ended' = TRUE /\ UNCHANGED at
                         ELSE Advance(t) /\ UNCHANGED ended
  /\ UNCHANGED <<lab, reg, loops, owner, cond, counter, result>>

(* Mutant: main joins the first thread only. *)
JoinFirst ==
  /\ lab \in {"lab_1", "lab_2"} /\ ~ended /\ Returned("t1")
  /\ result' = counter /\ ended' = TRUE
  /\ UNCHANGED <<lab, at, reg, loops, owner, cond, counter>>

Join ==
  /\ lab \in {"lab_1", "lab_2"} /\ ~ended /\ Returned("t1") /\ Returned("t2")
  /\ result' = counter /\ ended' = TRUE
  /\ UNCHANGED <<lab, at, reg, loops, owner, cond, counter>>

Step(t) ==
  \/ Lock(t) \/ Unlock(t) \/ Load(t) \/ Add(t) \/ Again(t)
  \/ AtLeast(t) \/ Signal(t) \/ Relock(t) \/ Check(t)

Next ==
  \/ \E t \in Threads : Step(t) \/ Spurious(t)
  \/ Join
  \/ ended /\ UNCHANGED vars

(* Every thread is scheduled.                                               *)
Spec == Init /\ [][Next]_vars /\ WF_vars(Join) /\ \A t \in Threads : WF_vars(Step(t))

-----------------------------------------------------------------------------
Workers == {"t1", "t2"}     \* the threads that change the counter

(* The steps before which a worker holds a mutex, unless it waits on cond   *)
Section ==
  [lab_1 |-> [mutex1 |-> {},   mutex2 |-> {}],
   lab_2 |-> [mutex1 |-> 2..4, mutex2 |-> {}],
   lab_4 |-> [mutex1 |-> 2..5, mutex2 |-> {}],
   lab_5 |-> [mutex1 |-> 2..6, mutex2 |-> 3..5]]

(* A mutex is held by the one worker that is between lock and unlock.       *)
OwnersExact ==
  \A m \in Mutexes :
    /\ owner[m] \in Workers \cup {"none"}
    /\ \A t \in Workers : owner[m] = t <=> at[t] \in Section[lab][m] /\ cond[t] = "no"

(* Only the consumer waits, and only where it tests the counter.            *)
WaitsInLoop ==
  \A t \in Threads : cond[t] # "no" => lab = "lab_4" /\ t = "t2" /\ at[t] = 2

(* Under the mutex, what a worker loaded is still the counter.              *)
LoadCurrent ==
  \A t \in Workers :
    lab # "lab_1" /\ ~Returned(t) /\ Instr(t).op = "add" => reg[t] = counter

(* lab_4: once past its test the consumer finds its four items.             *)
FourThere ==
  /\ counter >= 0
  /\ lab = "lab_4" /\ at["t2"] \in {3, 4} => counter >= 4

(* The rounds of lab_1 and lab_2, and the stores made in them               *)
Rounds ==
  lab \in {"lab_1", "lab_2"} =>
    /\ \A t \in Workers : Returned(t) <=> loops[t] = LOOPS
    /\ ended => result = counter /\ \A t \in Workers : Returned(t)

Stored(t) ==
  loops[t] + IF at[t] \in (IF lab = "lab_1" THEN {3} ELSE {4, 5}) THEN 1 ELSE 0

(* lab_2 loses none of them.                                                *)
NoneLost == lab = "lab_2" => counter = Stored("t1") + Stored("t2")

(* lab_1 may lose many: a store may be computed from an early value.  But a *)
(* thread that computes 1 from an untouched counter has stored nothing yet, *)
(* so whoever brings the counter back to 1 still has rounds to go.          *)
SomeKept ==
  lab = "lab_1" =>
    /\ counter <= Stored("t1") + Stored("t2")
    /\ \A t \in Workers :
         /\ reg[t] \in 0..Stored("t1") + Stored("t2")
         /\ Stored(t) > 0 => counter >= 1
         /\ Stored(t) > 0 /\ at[t] = 2 => reg[t] >= 1
    /\ counter <= 1 => \E t \in Workers : Stored(t) <= 1

(* Types, the mutexes, the condition variable and the count of stores.      *)
IInv ==
  /\ TypeOK
  /\ OwnersExact /\ WaitsInLoop /\ LoadCurrent /\ FourThere
  /\ Rounds /\ NoneLost /\ SomeKept

(* lab_2 prints the number it announces as expected.  lab_1 may lose        *)
(* almost everything, but never prints less than 2: a thread that           *)
(* overwrites the counter with an early value goes round once more.         *)
ResultRight ==
  /\ lab = "lab_2" /\ ended => result = 2 * LOOPS
  /\ lab = "lab_1" /\ ended => result \in 2..2 * LOOPS

(* No two threads each wait for a mutex the other holds.                    *)
WaitsFor(t, u) == Is(t, "lock") /\ owner[Instr(t).arg] = u
NoCircularWait == \A t, u \in Threads : ~(WaitsFor(t, u) /\ WaitsFor(u, t))

(* The consumer never takes items that are not there, although it may be    *)
(* woken for nothing.                                                       *)
NeverOversold == counter >= 0

(* Four items are consumed in the end: the wake-up for the fourth is not    *)
(* lost, whether the consumer is already waiting or not.                    *)
GoodsConsumed == (lab = "lab_4" /\ counter >= 4) ~> counter < 4
=============================================================================
