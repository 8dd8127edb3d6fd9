-------------------------- MODULE ThreadLabsProofs --------------------------
(***************************************************************************)
(* Theorems of ThreadLabs: what each program has at each step, who holds   *)
(* which mutex, and what the counters of the four labs then are.           *)
(***************************************************************************)
EXTENDS ThreadLabs, TLAPS

(* The programs, step by step *)
Length(l, t)   == Len(Program[l][t])
OpAt(l, t, n)  == Program[l][t][n].op
ArgAt(l, t, n) == Program[l][t][n].arg

LEMMA Steps ==
  /\ \A m : lock(m).op = "lock" /\ lock(m).arg = m
  /\ \A m : unlock(m).op = "unlock" /\ unlock(m).arg = m
  /\ \A n : add(n).op = "add" /\ add(n).arg = n
  /\ \A n : atleast(n).op = "atleast" /\ atleast(n).arg = n
  /\ load.op = "load" /\ signal.op = "signal" /\ again.op = "again" /\ check.op = "check"
  BY DEF lock, unlock, add, atleast, load, signal, again, check

LEMMA Programs ==
  /\ \A t \in Workers : /\ Program["lab_1"][t] = lab_1_increment
                        /\ Program["lab_2"][t] = lab_2_increment
                        /\ Program["lab_5"][t] = thread_a
  /\ Program["lab_4"]["t1"] = lab_4_producer /\ Program["lab_4"]["t2"] = lab_4_consumer
  /\ \A l \in {"lab_1", "lab_2", "lab_4"} : Program[l]["t3"] = <<>>
  /\ Program["lab_5"]["t3"] = thread_c
  BY DEF Program, Workers, thread_a, thread_b

LEMMA Lab1 ==
  \A t \in Workers :
    /\ Length("lab_1", t) = 3
    /\ OpAt("lab_1", t, 1) = "load"
    /\ OpAt("lab_1", t, 2) = "add" /\ ArgAt("lab_1", t, 2) = 1
    /\ OpAt("lab_1", t, 3) = "again"
<1> DEFINE p == lab_1_increment
<1>1. Len(p) = 3 /\ p[1] = load /\ p[2] = add(1) /\ p[3] = again
  BY DEF lab_1_increment
<1> HIDE DEF p
<1>2. ASSUME NEW t \in Workers PROVE Program["lab_1"][t] = p
  BY Programs DEF p
<1>3. QED
  BY <1>1, <1>2, Steps DEF Length, OpAt, ArgAt

LEMMA Lab2 ==
  \A t \in Workers :
    /\ Length("lab_2", t) = 5
    /\ OpAt("lab_2", t, 1) = "lock" /\ ArgAt("lab_2", t, 1) = "mutex1"
    /\ OpAt("lab_2", t, 2) = "load"
    /\ OpAt("lab_2", t, 3) = "add" /\ ArgAt("lab_2", t, 3) = 1
    /\ OpAt("lab_2", t, 4) = "unlock" /\ ArgAt("lab_2", t, 4) = "mutex1"
    /\ OpAt("lab_2", t, 5) = "again"
<1> DEFINE p == lab_2_increment
<1>1. /\ Len(p) = 5
      /\ p[1] = lock("mutex1") /\ p[2] = load /\ p[3] = add(1) /\ p[4] = unlock("mutex1") /\ p[5] = again
  BY DEF lab_2_increment
<1> HIDE DEF p
<1>2. ASSUME NEW t \in Workers PROVE Program["lab_2"][t] = p
  BY Programs DEF p
<1>3. QED
  BY <1>1, <1>2, Steps DEF Length, OpAt, ArgAt

LEMMA Lab4 ==
  /\ Length("lab_4", "t1") = 6
  /\ OpAt("lab_4", "t1", 1) = "lock" /\ ArgAt("lab_4", "t1", 1) = "mutex1"
  /\ OpAt("lab_4", "t1", 2) = "load"
  /\ OpAt("lab_4", "t1", 3) = "add" /\ ArgAt("lab_4", "t1", 3) = 1
  /\ OpAt("lab_4", "t1", 4) = "signal"
  /\ OpAt("lab_4", "t1", 5) = "unlock" /\ ArgAt("lab_4", "t1", 5) = "mutex1"
  /\ OpAt("lab_4", "t1", 6) = "again"
  /\ Length("lab_4", "t2") = 6
  /\ OpAt("lab_4", "t2", 1) = "lock" /\ ArgAt("lab_4", "t2", 1) = "mutex1"
  /\ OpAt("lab_4", "t2", 2) = "atleast" /\ ArgAt("lab_4", "t2", 2) = 4
  /\ OpAt("lab_4", "t2", 3) = "load"
  /\ OpAt("lab_4", "t2", 4) = "add" /\ ArgAt("lab_4", "t2", 4) = -4
  /\ OpAt("lab_4", "t2", 5) = "unlock" /\ ArgAt("lab_4", "t2", 5) = "mutex1"
  /\ OpAt("lab_4", "t2", 6) = "again"
<1> DEFINE p == lab_4_producer
           c == lab_4_consumer
<1>1. /\ Len(p) = 6
      /\ p[1] = lock("mutex1") /\ p[2] = load /\ p[3] = add(1) /\ p[4] = signal
      /\ p[5] = unlock("mutex1") /\ p[6] = again
  BY DEF lab_4_producer
<1>2. /\ Len(c) = 6
      /\ c[1] = lock("mutex1") /\ c[2] = atleast(4) /\ c[3] = load /\ c[4] = add(-4)
      /\ c[5] = unlock("mutex1") /\ c[6] = again
  BY DEF lab_4_consumer
<1> HIDE DEF p, c
<1>3. Program["lab_4"]["t1"] = p /\ Program["lab_4"]["t2"] = c
  BY Programs DEF p, c
<1>4. QED
  BY <1>1, <1>2, <1>3, Steps DEF Length, OpAt, ArgAt

LEMMA Lab5 ==
  /\ \A t \in Workers :
       /\ Length("lab_5", t) = 7
       /\ OpAt("lab_5", t, 1) = "lock" /\ ArgAt("lab_5", t, 1) = "mutex1"
       /\ OpAt("lab_5", t, 2) = "lock" /\ ArgAt("lab_5", t, 2) = "mutex2"
       /\ OpAt("lab_5", t, 3) = "load"
       /\ OpAt("lab_5", t, 4) = "add" /\ ArgAt("lab_5", t, 4) = 1
       /\ OpAt("lab_5", t, 5) = "unlock" /\ ArgAt("lab_5", t, 5) = "mutex2"
       /\ OpAt("lab_5", t, 6) = "unlock" /\ ArgAt("lab_5", t, 6) = "mutex1"
       /\ OpAt("lab_5", t, 7) = "again"
  /\ Length("lab_5", "t3") = 3
  /\ OpAt("lab_5", "t3", 1) = "load"
  /\ OpAt("lab_5", "t3", 2) = "check"
  /\ OpAt("lab_5", "t3", 3) = "again"
<1> DEFINE p == thread_a
           w == thread_c
<1>1. /\ Len(p) = 7
      /\ p[1] = lock("mutex1") /\ p[2] = lock("mutex2") /\ p[3] = load /\ p[4] = add(1)
      /\ p[5] = unlock("mutex2") /\ p[6] = unlock("mutex1") /\ p[7] = again
  BY DEF thread_a
<1>2. Len(w) = 3 /\ w[1] = load /\ w[2] = check /\ w[3] = again
  BY DEF thread_c
<1> HIDE DEF p, w
<1>3. ASSUME NEW t \in Workers PROVE Program["lab_5"][t] = p
  BY Programs DEF p
<1>4. Program["lab_5"]["t3"] = w
  BY Programs DEF w
<1>5. QED
  BY <1>1, <1>2, <1>3, <1>4, Steps DEF Length, OpAt, ArgAt

LEMMA Idle ==
  \A l \in {"lab_1", "lab_2", "lab_4"} : Length(l, "t3") = 0
  BY Programs DEF Length

-----------------------------------------------------------------------------
LEMMA Sections ==
  /\ \A m \in Mutexes : Section["lab_1"][m] = {}
  /\ \A l \in {"lab_2", "lab_4"} : Section[l]["mutex2"] = {}
  /\ Section["lab_2"]["mutex1"] = 2..4
  /\ Section["lab_4"]["mutex1"] = 2..5
  /\ Section["lab_5"]["mutex1"] = 2..6 /\ Section["lab_5"]["mutex2"] = 3..5
  BY DEF Section, Mutexes

(* Every program takes a mutex where its section begins, gives it back      *)
(* where that ends, and holds none at either end of a round.                *)
LEMMA Discipline ==
  ASSUME NEW l \in Labs, NEW t \in Workers, NEW n \in 1..Length(l, t), NEW m \in Mutexes
  PROVE  /\ CASE OpAt(l, t, n) = "lock" /\ ArgAt(l, t, n) = m ->
                    n \notin Section[l][m] /\ n + 1 \in Section[l][m]
              [] OpAt(l, t, n) = "unlock" /\ ArgAt(l, t, n) = m ->
                    n \in Section[l][m] /\ n + 1 \notin Section[l][m]
              [] OTHER -> n \in Section[l][m] <=> n + 1 \in Section[l][m]
         /\ OpAt(l, t, n) = "again" => n \notin Section[l][m]
         /\ 1 \notin Section[l][m]
<1> USE DEF Labs, Workers, Mutexes
<1>1. CASE l = "lab_1"
  BY <1>1, Lab1, Sections
<1>2. CASE l = "lab_2"
  BY <1>2, Lab2, Sections
<1>3. CASE l = "lab_4"
  BY <1>3, Lab4, Sections
<1>4. CASE l = "lab_5"
  BY <1>4, Lab5, Sections
<1>5. QED
  BY <1>1, <1>2, <1>3, <1>4

(* The programs are finite, and name mutexes and amounts where they should. *)
LEMMA Lengths == \A l \in Labs, t \in Threads : Length(l, t) \in Nat
<1>1. \A l \in Labs : Length(l, "t3") \in Nat
  BY Idle, Lab5 DEF Labs
<1>2. \A l \in Labs, t \in Workers : Length(l, t) \in Nat
  <2>1. \A t \in Workers : Length("lab_4", t) \in Nat
    BY Lab4 DEF Workers
  <2>2. QED
    BY <2>1, Lab1, Lab2, Lab5 DEF Labs
<1>3. QED
  BY <1>1, <1>2 DEF Threads, Workers

LEMMA Arguments ==
  ASSUME NEW l \in Labs, NEW t \in Workers, NEW n \in 1..Length(l, t)
  PROVE  /\ OpAt(l, t, n) \in {"lock", "unlock"} => ArgAt(l, t, n) \in Mutexes
         /\ OpAt(l, t, n) = "add" => ArgAt(l, t, n) = IF l = "lab_4" /\ t = "t2" THEN -4 ELSE 1
<1> USE DEF Labs, Workers, Mutexes
<1>1. CASE l = "lab_1"
  BY <1>1, Lab1
<1>2. CASE l = "lab_2"
  BY <1>2, Lab2
<1>3. CASE l = "lab_4"
  BY <1>3, Lab4
<1>4. CASE l = "lab_5"
  BY <1>4, Lab5
<1>5. QED
  BY <1>1, <1>2, <1>3, <1>4

(* What a thread that is about to do a step knows of its program *)
LEMMA IsAt ==
  ASSUME TypeOK, NEW t \in Threads, NEW op, Is(t, op)
  PROVE  /\ ~ended /\ cond[t] = "no" /\ ~Returned(t)
         /\ at[t] \in 1..Length(lab, t) /\ Length(lab, t) \in Nat
         /\ OpAt(lab, t, at[t]) = op
         /\ Instr(t).arg = ArgAt(lab, t, at[t])
         /\ t \notin Workers => t = "t3" /\ lab = "lab_5" /\ op \in {"load", "check", "again"}
<1>1. Length(lab, t) \in Nat
  BY Lengths DEF TypeOK
<1>2. at[t] \in 1..Length(lab, t)
  BY <1>1 DEF Is, TypeOK, Returned, Length
<1>3. OpAt(lab, t, at[t]) = op /\ Instr(t).arg = ArgAt(lab, t, at[t])
  BY DEF Is, Instr, OpAt, ArgAt
<1>4. t \notin Workers => t = "t3" /\ lab = "lab_5" /\ op \in {"load", "check", "again"}
  <2> SUFFICES ASSUME t \notin Workers PROVE lab = "lab_5" /\ op \in {"load", "check", "again"}
    BY DEF Threads, Workers
  <2>1. t = "t3"
    BY DEF Threads, Workers
  <2>2. lab = "lab_5"
    BY <1>2, <2>1, Idle DEF TypeOK, Labs
  <2>3. QED
    BY <1>2, <1>3, <2>1, <2>2, Lab5
<1>5. QED
  BY <1>1, <1>2, <1>3, <1>4 DEF Is

LEMMA InitInv == Init => IInv
<1> SUFFICES ASSUME Init PROVE IInv
  OBVIOUS
<1> USE BoundsAssumption
<1>0. lab \in Labs /\ counter = 0 /\ ~ended
  BY DEF Init
<1>1. \A t \in Threads : at[t] = 1 /\ reg[t] = 0 /\ loops[t] = 0 /\ cond[t] = "no"
  BY DEF Init
<1>2. \A t \in Threads : Len(Program[lab][t]) \in Nat
  BY <1>0, Lengths DEF Length
<1>3. TypeOK
  <2>1. loops \in [Threads -> 0..LOOPS]
    BY DEF Init
  <2>2. /\ at \in [Threads -> Nat] /\ reg \in [Threads -> Int]
        /\ \A t \in Threads : at[t] \in 1..Len(Program[lab][t]) + 1
    BY <1>1, <1>2 DEF Init
  <2>3. ended \in BOOLEAN
    BY Zenon DEF Init
  <2>4. QED
    BY <2>1, <2>2, <2>3 DEF Init, TypeOK
<1>4. OwnersExact
  <2>1. \A m \in Mutexes : owner[m] = "none" /\ 1 \notin Section[lab][m]
    BY Sections DEF Init, Labs, Mutexes
  <2>2. QED
    BY <1>1, <2>1 DEF OwnersExact, Workers, Threads
<1>5. WaitsInLoop
  BY <1>1 DEF WaitsInLoop
<1>6. LoadCurrent
  BY <1>0, <1>1 DEF LoadCurrent, Workers, Threads
<1>7. FourThere
  BY <1>0, <1>1 DEF FourThere, Threads
<1>8. Rounds
  <2>1. ASSUME NEW t \in Workers, lab \in {"lab_1", "lab_2"} PROVE ~Returned(t)
    <3>1. at[t] = 1
      BY <1>1 DEF Workers, Threads
    <3>2. Len(Program[lab][t]) = 3 \/ Len(Program[lab][t]) = 5
      BY <2>1, Lab1, Lab2 DEF Length
    <3>3. ~(1 > 3) /\ ~(1 > 5)
      OBVIOUS
    <3>4. QED
      BY <3>1, <3>2, <3>3, Zenon DEF Returned
  <2>2. QED
    BY <1>0, <1>1, <2>1 DEF Rounds, Workers, Threads
<1>9. NoneLost /\ SomeKept
  BY <1>0, <1>1 DEF NoneLost, SomeKept, Stored, Workers, Threads
<1>10. QED
  BY <1>3, <1>4, <1>5, <1>6, <1>7, <1>8, <1>9 DEF IInv

-----------------------------------------------------------------------------
(* A thread starts a round only while it has one to do. *)
LEMMA TypeStep ==
  ASSUME TypeOK, Rounds, Next \/ UNCHANGED vars
  PROVE  TypeOK'
<1> USE BoundsAssumption
<1>1. CASE UNCHANGED vars
  BY <1>1 DEF TypeOK, vars
<1>2. CASE Join
  BY <1>2 DEF TypeOK, Join
<1>3. ASSUME NEW t \in Threads, Spurious(t) PROVE TypeOK'
  BY <1>3 DEF TypeOK, Spurious
<1>4. ASSUME NEW t \in Threads, Step(t) PROVE TypeOK'
  <2> DEFINE Goes == Advance(t) /\ ~Returned(t)
             Stays == UNCHANGED <<lab, at>>
             Ranges == \A u \in Threads : at'[u] \in 1..Len(Program[lab][u]) + 1
  <2>1. Goes => at' \in [Threads -> Nat] /\ Ranges
    BY DEF Goes, Ranges, Advance, TypeOK, Returned
  <2>2. Stays => at' \in [Threads -> Nat] /\ Ranges
    BY DEF Stays, Ranges, TypeOK
  <2>3. CASE Lock(t)
    <3>1. Instr(t).arg \in Mutexes
      <4>1. t \in Workers /\ OpAt(lab, t, at[t]) = "lock"
        BY <2>3, IsAt DEF Lock
      <4>2. QED
        BY <2>3, <4>1, IsAt, Arguments DEF Lock, TypeOK
    <3>2. Goes
      BY <2>3, IsAt DEF Lock
    <3>3. QED
      BY <2>1, <2>3, <3>1, <3>2 DEF Lock, TypeOK
  <2>4. CASE Unlock(t)
    <3>1. Goes
      BY <2>4, IsAt DEF Unlock
    <3>2. QED
      BY <2>1, <2>4, <3>1 DEF Unlock, TypeOK
  <2>5. CASE Load(t)
    <3>1. Goes
      BY <2>5, IsAt DEF Load
    <3>2. QED
      BY <2>1, <2>5, <3>1 DEF Load, TypeOK
  <2>6. CASE Add(t)
    <3>1. Goes
      BY <2>6, IsAt DEF Add
    <3>2. Instr(t).arg \in Int
      <4>1. t \in Workers /\ OpAt(lab, t, at[t]) = "add"
        BY <2>6, IsAt DEF Add
      <4>2. QED
        BY <2>6, <4>1, IsAt, Arguments DEF Add, TypeOK
    <3>3. QED
      BY <2>1, <2>6, <3>1, <3>2 DEF Add, TypeOK
  <2>7. CASE Again(t)
    <3>1. ~Returned(t) /\ lab' = lab
      BY <2>7, IsAt DEF Again
    <3>2. lab \in {"lab_1", "lab_2"} => loops[t] + 1 \in 0..LOOPS
      <4>1. lab \in {"lab_1", "lab_2"} => t \in Workers
        BY <2>7, IsAt DEF Again
      <4>2. QED
        BY <3>1, <4>1 DEF Rounds, TypeOK
    <3>3. loops' \in [Threads -> 0..LOOPS]
      BY <2>7, <3>2 DEF Again, TypeOK
    <3>4. PICK n \in {1, at[t] + 1} : at' = [at EXCEPT ![t] = n]
      BY <2>7 DEF Again
    <3>5. at[t] \in Nat /\ n \in Nat
      BY <3>4 DEF TypeOK
    <3>6. at' \in [Threads -> Nat]
      BY <3>4, <3>5 DEF TypeOK
    <3>7. Ranges
      <4>1. n \in 1..Len(Program[lab][t]) + 1
        BY <3>1, <3>4, Lengths DEF TypeOK, Returned, Length
      <4>2. QED
        BY <3>4, <4>1 DEF TypeOK
    <3>8. QED
      BY <2>7, <3>3, <3>6, <3>7 DEF Again, TypeOK
  <2>8. CASE AtLeast(t)
    <3>1. Goes \/ Stays
      BY <2>8, IsAt DEF AtLeast
    <3>2. QED
      BY <2>1, <2>2, <2>8, <3>1 DEF AtLeast, TypeOK
  <2>9. CASE Signal(t)
    <3>1. Goes
      BY <2>9, IsAt DEF Signal
    <3>2. QED
      BY <2>1, <2>9, <3>1 DEF Signal, TypeOK
  <2>10. CASE Relock(t)
    BY <2>2, <2>10 DEF Relock, TypeOK
  <2>11. CASE Check(t)
    <3>1. Goes \/ Stays
      BY <2>11, IsAt DEF Check
    <3>2. QED
      BY <2>1, <2>2, <2>11, <3>1 DEF Check, TypeOK
  <2>12. QED
    BY <1>4, <2>3, <2>4, <2>5, <2>6, <2>7, <2>8, <2>9, <2>10, <2>11 DEF Step
<1>5. QED
  BY <1>1, <1>2, <1>3, <1>4 DEF Next

(* A mutex goes to the worker that enters its section and is free when that *)
(* worker leaves it, also for a wait on the condition variable.             *)
LEMMA OwnerStep ==
  ASSUME TypeOK, OwnersExact, WaitsInLoop, Next \/ UNCHANGED vars
  PROVE  OwnersExact' /\ WaitsInLoop'
<1>0. /\ lab \in Labs /\ Workers \subseteq Threads
      /\ owner \in [Mutexes -> Threads \cup {"none"}]
      /\ at \in [Threads -> Nat] /\ cond \in [Threads -> {"no", "waiting", "woken"}]
  BY DEF TypeOK, Workers, Threads
<1>1. CASE UNCHANGED <<lab, at, owner, cond>>
  BY <1>1 DEF OwnersExact, WaitsInLoop
<1>2. ASSUME NEW t \in Threads, Spurious(t) PROVE OwnersExact' /\ WaitsInLoop'
  BY <1>0, <1>2 DEF OwnersExact, WaitsInLoop, Spurious
<1>3. ASSUME NEW t \in Threads, Lock(t) PROVE OwnersExact' /\ WaitsInLoop'
  <2> DEFINE a == Instr(t).arg
  <2>1. /\ t \in Workers /\ OpAt(lab, t, at[t]) = "lock" /\ a = ArgAt(lab, t, at[t])
        /\ at[t] \in 1..Length(lab, t) /\ cond[t] = "no"
    BY <1>3, IsAt DEF Lock
  <2>2. a \in Mutexes
    BY <1>0, <2>1, Arguments
  <2>3. /\ owner[a] = "none" /\ owner' = [owner EXCEPT ![a] = t]
        /\ at' = [at EXCEPT ![t] = at[t] + 1] /\ UNCHANGED <<lab, cond>>
    BY <1>3 DEF Lock, Advance
  <2>4. ASSUME NEW m \in Mutexes
        PROVE  /\ m = a => at[t] \notin Section[lab][m] /\ at[t] + 1 \in Section[lab][m]
               /\ m # a => (at[t] \in Section[lab][m] <=> at[t] + 1 \in Section[lab][m])
    BY <1>0, <2>1, Discipline
  <2>5. OwnersExact'
    BY <1>0, <2>1, <2>2, <2>3, <2>4 DEF OwnersExact, Workers
  <2>6. WaitsInLoop'
    BY <1>0, <2>1, <2>3 DEF WaitsInLoop
  <2>7. QED
    BY <2>5, <2>6
<1>4. ASSUME NEW t \in Threads, Unlock(t) PROVE OwnersExact' /\ WaitsInLoop'
  <2> DEFINE a == Instr(t).arg
  <2>1. /\ t \in Workers /\ OpAt(lab, t, at[t]) = "unlock" /\ a = ArgAt(lab, t, at[t])
        /\ at[t] \in 1..Length(lab, t) /\ cond[t] = "no"
    BY <1>4, IsAt DEF Unlock
  <2>2. a \in Mutexes
    BY <1>0, <2>1, Arguments
  <2>3. /\ owner' = [owner EXCEPT ![a] = "none"]
        /\ at' = [at EXCEPT ![t] = at[t] + 1] /\ UNCHANGED <<lab, cond>>
    BY <1>4 DEF Unlock, Advance
  <2>4. ASSUME NEW m \in Mutexes
        PROVE  /\ m = a => at[t] \in Section[lab][m] /\ at[t] + 1 \notin Section[lab][m]
               /\ m # a => (at[t] \in Section[lab][m] <=> at[t] + 1 \in Section[lab][m])
    BY <1>0, <2>1, Discipline
  <2>5. OwnersExact'
    BY <1>0, <2>1, <2>2, <2>3, <2>4 DEF OwnersExact, Workers
  <2>6. WaitsInLoop'
    BY <1>0, <2>1, <2>3 DEF WaitsInLoop
  <2>7. QED
    BY <2>5, <2>6
<1>5. ASSUME NEW t \in Threads, cond[t] = "no", at[t] \in 1..Length(lab, t),
             OpAt(lab, t, at[t]) \in {"load", "add", "atleast", "signal", "check"},
             UNCHANGED <<lab, owner>>, Advance(t),
             \A u \in Threads : cond'[u] = "no" <=> cond[u] = "no"
      PROVE  OwnersExact' /\ WaitsInLoop'
  <2>1. at' = [at EXCEPT ![t] = at[t] + 1]
    BY <1>5 DEF Advance
  <2>2. ASSUME NEW m \in Mutexes, t \in Workers
        PROVE  at[t] \in Section[lab][m] <=> at[t] + 1 \in Section[lab][m]
    BY <1>0, <1>5, <2>2, Discipline
  <2>3. OwnersExact'
    BY <1>0, <1>5, <2>1, <2>2 DEF OwnersExact
  <2>4. WaitsInLoop'
    BY <1>0, <1>5, <2>1 DEF WaitsInLoop
  <2>5. QED
    BY <2>3, <2>4
<1>6. ASSUME NEW t \in Threads, Load(t) \/ Add(t) \/ Signal(t) PROVE OwnersExact' /\ WaitsInLoop'
  <2>1. /\ UNCHANGED <<lab, owner>> /\ Advance(t) /\ cond[t] = "no"
        /\ at[t] \in 1..Length(lab, t) /\ OpAt(lab, t, at[t]) \in {"load", "add", "signal"}
    BY <1>6, IsAt DEF Load, Add, Signal
  <2>2. \A u \in Threads : cond'[u] = "no" <=> cond[u] = "no"
    BY <1>0, <1>6 DEF Load, Add, Signal
  <2>3. QED
    BY <1>5, <2>1, <2>2
<1>7. ASSUME NEW t \in Threads, Check(t) PROVE OwnersExact' /\ WaitsInLoop'
  <2>1. CASE UNCHANGED at
    BY <1>1, <1>7, <2>1 DEF Check
  <2>2. CASE Advance(t)
    BY <1>5, <1>7, <2>2, IsAt DEF Check
  <2>3. QED
    BY <1>7, <2>1, <2>2 DEF Check
<1>8. ASSUME NEW t \in Threads, Again(t) PROVE OwnersExact' /\ WaitsInLoop'
  <2>1. /\ UNCHANGED <<lab, owner, cond>> /\ cond[t] = "no"
        /\ at[t] \in 1..Length(lab, t) /\ OpAt(lab, t, at[t]) = "again"
    BY <1>8, IsAt DEF Again
  <2>2. PICK n \in {1, at[t] + 1} : at' = [at EXCEPT ![t] = n]
    BY <1>8 DEF Again
  <2>3. ASSUME NEW m \in Mutexes, t \in Workers
        PROVE  at[t] \notin Section[lab][m] /\ n \notin Section[lab][m]
    <3>1. at[t] \notin Section[lab][m] /\ 1 \notin Section[lab][m] /\ at[t] + 1 \notin Section[lab][m]
      BY <1>0, <2>1, <2>3, Discipline
    <3>2. QED
      BY <2>2, <3>1
  <2>4. OwnersExact'
    BY <1>0, <2>1, <2>2, <2>3 DEF OwnersExact
  <2>5. WaitsInLoop'
    BY <1>0, <2>1, <2>2 DEF WaitsInLoop
  <2>6. QED
    BY <2>4, <2>5
<1>9. ASSUME NEW t \in Threads, AtLeast(t) PROVE OwnersExact' /\ WaitsInLoop'
  <2>1. CASE Advance(t) /\ UNCHANGED <<owner, cond>>
    BY <1>5, <1>9, <2>1, IsAt DEF AtLeast
  <2>2. CASE /\ cond' = [cond EXCEPT ![t] = "waiting"]
             /\ owner' = [owner EXCEPT !["mutex1"] = "none"]
             /\ UNCHANGED at
    <3>1. lab' = lab /\ cond[t] = "no" /\ t \in Workers
          /\ at[t] \in 1..Length(lab, t) /\ OpAt(lab, t, at[t]) = "atleast"
      BY <1>9, IsAt DEF AtLeast
    <3>2. lab = "lab_4" /\ t = "t2" /\ at[t] = 2
      BY <1>0, <3>1, Lab1, Lab2, Lab4, Lab5 DEF Labs, Workers
    <3>3. owner["mutex1"] = "t2" /\ 2 \notin Section["lab_4"]["mutex2"]
      BY <3>1, <3>2, Sections DEF OwnersExact, Mutexes
    <3>4. OwnersExact'
      BY <1>0, <2>2, <3>1, <3>2, <3>3 DEF OwnersExact, Mutexes, Workers
    <3>5. WaitsInLoop'
      BY <1>0, <2>2, <3>1, <3>2 DEF WaitsInLoop
    <3>6. QED
      BY <3>4, <3>5
  <2>3. QED
    BY <1>9, <2>1, <2>2 DEF AtLeast
<1>10. ASSUME NEW t \in Threads, Relock(t) PROVE OwnersExact' /\ WaitsInLoop'
  <2>1. /\ cond[t] = "woken" /\ owner["mutex1"] = "none"
        /\ owner' = [owner EXCEPT !["mutex1"] = t] /\ cond' = [cond EXCEPT ![t] = "no"]
        /\ UNCHANGED <<lab, at>>
    BY <1>10 DEF Relock
  <2>2. lab = "lab_4" /\ t = "t2" /\ at[t] = 2
    BY <2>1 DEF WaitsInLoop
  <2>3. 2 \in Section["lab_4"]["mutex1"] /\ Section["lab_4"]["mutex2"] = {}
    BY Sections
  <2>4. OwnersExact'
    BY <1>0, <2>1, <2>2, <2>3 DEF OwnersExact, Mutexes, Workers
  <2>5. WaitsInLoop'
    BY <1>0, <2>1 DEF WaitsInLoop
  <2>6. QED
    BY <2>4, <2>5
<1>11. QED
  BY <1>1, <1>2, <1>3, <1>4, <1>6, <1>7, <1>8, <1>9, <1>10 DEF Next, Step, Join, vars

-----------------------------------------------------------------------------
(* Where there is a mutex, a load and its store are in its section. *)
LEMMA Critical ==
  ASSUME NEW l \in Labs \ {"lab_1"}, NEW t \in Workers, NEW n \in 1..Length(l, t),
         OpAt(l, t, n) = "add"
  PROVE  /\ n > 2 /\ OpAt(l, t, n - 1) = "load"
         /\ n \in Section[l]["mutex1"]
         /\ l = "lab_4" => n = IF t = "t1" THEN 3 ELSE 4
<1> USE DEF Labs, Workers
<1>1. CASE l = "lab_2"
  BY <1>1, Lab2, Sections
<1>2. CASE l = "lab_4"
  BY <1>2, Lab4, Sections
<1>3. CASE l = "lab_5"
  BY <1>3, Lab5, Sections
<1>4. QED
  BY <1>1, <1>2, <1>3

(* So nobody stores between the two. *)
LEMMA LoadStep ==
  ASSUME TypeOK, TypeOK', OwnersExact, WaitsInLoop, LoadCurrent, Next \/ UNCHANGED vars
  PROVE  LoadCurrent'
<1> SUFFICES ASSUME NEW u \in Workers, lab' # "lab_1",
                    at'[u] <= Length(lab', u), OpAt(lab', u, at'[u]) = "add"
             PROVE  reg'[u] = counter'
  <2>1. at' \in [Threads -> Nat] /\ lab' \in Labs /\ Workers \subseteq Threads
    BY DEF TypeOK, Workers, Threads
  <2>2. \A u \in Workers : Length(lab', u) \in Nat
    BY <2>1, Lengths
  <2>3. ASSUME NEW u \in Workers, ~(at'[u] > Len(Program[lab'][u])) PROVE at'[u] <= Length(lab', u)
    BY <2>1, <2>2, <2>3 DEF Length
  <2>4. QED
    BY <2>3 DEF LoadCurrent, Returned, Instr, OpAt
<1>1. /\ lab' = lab /\ lab \in Labs \ {"lab_1"} /\ u \in Threads
      /\ at'[u] \in 1..Length(lab, u) /\ OpAt(lab, u, at'[u]) = "add"
  <2>1. lab' = lab
    BY DEF Next, Step, Lock, Unlock, Load, Add, Again, AtLeast, Signal, Relock, Check, Spurious, Join, vars
  <2>2. u \in Threads /\ lab \in Labs
    BY DEF TypeOK, Workers, Threads
  <2>3. Length(lab, u) \in Nat
    BY <2>2, Lengths
  <2>4. at'[u] \in 1..Length(lab, u) + 1
    BY <2>1, <2>2 DEF TypeOK, Length
  <2>5. at'[u] \in 1..Length(lab, u)
    BY <2>1, <2>3, <2>4
  <2>6. QED
    BY <2>1, <2>2, <2>5
<1>2. /\ at'[u] > 2 /\ OpAt(lab, u, at'[u] - 1) = "load"
      /\ at'[u] \in Section[lab]["mutex1"]
      /\ lab = "lab_4" /\ u = "t2" => at'[u] = 4
  BY <1>1, Critical DEF Workers
<1>3. at'[u] = at[u] => reg[u] = counter /\ cond[u] = "no" /\ owner["mutex1"] = u
  <2> SUFFICES ASSUME at'[u] = at[u] PROVE reg[u] = counter /\ cond[u] = "no" /\ owner["mutex1"] = u
    OBVIOUS
  <2>1. ~Returned(u) /\ Instr(u).op = "add"
    BY <1>1 DEF Returned, Instr, Length, OpAt
  <2>2. cond[u] = "no"
    BY <1>1, <1>2 DEF WaitsInLoop
  <2>3. owner["mutex1"] = u
    BY <1>2, <2>2 DEF OwnersExact, Mutexes
  <2>4. QED
    BY <1>1, <2>1, <2>2, <2>3 DEF LoadCurrent
<1>4. CASE UNCHANGED <<at, reg, counter>>
  BY <1>3, <1>4
<1>5. ASSUME NEW t \in Threads, Step(t), t = u PROVE reg'[u] = counter'
  <2>1. CASE Load(t)
    BY <1>5, <2>1 DEF Load, TypeOK
  <2>2. ASSUME NEW op \in {"lock", "unlock", "add", "again", "signal", "atleast", "check"}, Is(t, op),
               at' = [at EXCEPT ![t] = 1] \/ Advance(t)
        PROVE FALSE
    <3>1. OpAt(lab, u, at[u]) = op
      BY <1>5, <2>2, IsAt
    <3>2. at'[u] = 1 \/ at'[u] = at[u] + 1
      BY <1>1, <1>5, <2>2 DEF Advance, TypeOK
    <3>3. at[u] \in Nat
      BY <1>1 DEF TypeOK
    <3>4. QED
      BY <1>2, <3>1, <3>2, <3>3
  <2>3. CASE Again(t)
    <3>1. at' = [at EXCEPT ![t] = 1] \/ Advance(t)
      BY <2>3 DEF Again, Advance
    <3>2. QED
      BY <2>2, <2>3, <3>1 DEF Again
  <2>4. QED
    BY <1>4, <1>5, <2>1, <2>2, <2>3 DEF Step, Lock, Unlock, Add, AtLeast, Signal, Relock, Check
<1>6. ASSUME NEW t \in Threads, Step(t), t # u PROVE reg'[u] = counter'
  <2>1. at'[u] = at[u]
    BY <1>1, <1>6 DEF Step, Lock, Unlock, Load, Add, Again, AtLeast, Signal, Relock, Check, Advance, TypeOK
  <2>2. reg'[u] = reg[u]
    BY <1>1, <1>6 DEF Step, Lock, Unlock, Load, Add, Again, AtLeast, Signal, Relock, Check, TypeOK
  <2>3. ~Add(t)
    <3> SUFFICES ASSUME Add(t) PROVE FALSE
      OBVIOUS
    <3>1. t \in Workers /\ at[t] \in 1..Length(lab, t) /\ OpAt(lab, t, at[t]) = "add" /\ cond[t] = "no"
      BY IsAt DEF Add
    <3>2. owner["mutex1"] = t
      BY <1>1, <3>1, Critical DEF OwnersExact, Mutexes
    <3>3. QED
      BY <1>3, <1>6, <2>1, <3>2
  <2>4. counter' = counter
    BY <1>6, <2>3 DEF Step, Lock, Unlock, Load, Again, AtLeast, Signal, Relock, Check
  <2>5. QED
    BY <1>3, <2>1, <2>2, <2>4
<1>7. QED
  BY <1>4, <1>5, <1>6 DEF Next, Spurious, Join, vars

(* What an addition stores.  In lab_1 that is any value from before. *)
LEMMA AddIs ==
  ASSUME TypeOK, LoadCurrent, NEW t \in Threads, Add(t)
  PROVE  /\ t \in Workers /\ lab' = lab
         /\ counter' = reg[t] + IF lab = "lab_4" /\ t = "t2" THEN -4 ELSE 1
         /\ lab # "lab_1" => reg[t] = counter
<1>1. /\ t \in Workers /\ at[t] \in 1..Length(lab, t) /\ OpAt(lab, t, at[t]) = "add"
      /\ Instr(t).arg = ArgAt(lab, t, at[t]) /\ ~Returned(t)
  BY IsAt DEF Add
<1>2. Instr(t).arg = IF lab = "lab_4" /\ t = "t2" THEN -4 ELSE 1
  BY <1>1, Arguments DEF TypeOK
<1>3. Instr(t).op = "add"
  BY DEF Add, Is
<1>4. QED
  BY <1>1, <1>2, <1>3 DEF Add, LoadCurrent

(* The consumer gets past its test with four items, which only it takes.    *)
LEMMA FourStep ==
  ASSUME TypeOK, LoadCurrent, WaitsInLoop, FourThere, SomeKept, Next \/ UNCHANGED vars
  PROVE  FourThere'
<1>0. lab' = lab /\ lab \in Labs /\ "t2" \in Threads /\ "t2" \in Workers /\ counter \in Int
      /\ at \in [Threads -> Nat] /\ counter >= 0
      /\ reg \in [Threads -> Int]
  BY DEF Next, Step, Lock, Unlock, Load, Add, Again, AtLeast, Signal, Relock, Check, Spurious, Join, vars,
         TypeOK, Threads, Workers, FourThere
<1>1. ASSUME NEW t \in Threads, Add(t) PROVE FourThere'
  <2>1. /\ t \in Workers
        /\ counter' = reg[t] + IF lab = "lab_4" /\ t = "t2" THEN -4 ELSE 1
        /\ lab # "lab_1" => reg[t] = counter
    BY <1>1, AddIs
  <2>2. CASE lab = "lab_1"
    BY <1>0, <2>1, <2>2 DEF FourThere, SomeKept, Workers
  <2>3. CASE lab = "lab_4" /\ t = "t2"
    <3>1. at[t] = 4
      BY <1>0, <1>1, <2>3, IsAt, Critical DEF Add, Labs
    <3>2. at'[t] = 5
      BY <1>0, <1>1, <3>1 DEF Add, Advance
    <3>3. QED
      BY <1>0, <2>1, <2>3, <3>1, <3>2 DEF FourThere
  <2>4. CASE lab # "lab_1" /\ ~(lab = "lab_4" /\ t = "t2")
    <3>1. lab = "lab_4" => at'["t2"] = at["t2"]
      BY <1>0, <1>1, <2>4 DEF Add, Advance
    <3>2. QED
      BY <1>0, <2>1, <2>4, <3>1 DEF FourThere
  <2>5. QED
    BY <2>2, <2>3, <2>4
<1>2. CASE counter' = counter
  <2> SUFFICES ASSUME lab = "lab_4", at'["t2"] \in {3, 4} PROVE counter >= 4
    BY <1>0, <1>2 DEF FourThere
  <2>1. CASE at["t2"] \in {3, 4}
    BY <2>1 DEF FourThere
  <2>2. CASE at["t2"] \notin {3, 4}
    <3>1. PICK t \in Threads : Step(t)
      BY <1>0, <2>2 DEF Next, Spurious, Join, vars
    <3>2. t = "t2"
      BY <1>0, <2>2, <3>1 DEF Step, Lock, Unlock, Load, Add, Again, AtLeast, Signal, Relock, Check, Advance
    <3>3. at["t2"] = 2
      BY <1>0, <2>2, <3>1, <3>2 DEF Step, Lock, Unlock, Load, Add, Again, AtLeast, Signal, Relock, Check, Advance
    <3>4. ASSUME NEW op, Is(t, op) PROVE op = "atleast"
      BY <3>2, <3>3, <3>4, IsAt, Lab4
    <3>5. AtLeast(t)
      BY <3>1, <3>3, <3>4, <2>2, <3>2 DEF Step, Lock, Unlock, Load, Add, Again, Signal, Relock, Check
    <3>6. Instr(t).arg = 4
      BY <3>2, <3>3, <3>5, IsAt, Lab4 DEF AtLeast
    <3>7. QED
      BY <2>2, <3>2, <3>5, <3>6 DEF AtLeast
  <2>3. QED
    BY <2>1, <2>2
<1>3. QED
  BY <1>1, <1>2 DEF Next, Step, Lock, Unlock, Load, Again, AtLeast, Signal, Relock, Check, Spurious, Join, vars

-----------------------------------------------------------------------------
(* A round of lab_1 or lab_2 has one store, and each thread does LOOPS.     *)
Counted == {"lab_1", "lab_2"}

LEMMA RoundIs ==
  ASSUME TypeOK, WaitsInLoop, lab \in Counted, NEW t \in Threads, Step(t)
  PROVE  /\ t \in Workers /\ UNCHANGED <<lab, ended>> /\ ~ended
         /\ \/ Advance(t) /\ UNCHANGED loops /\ (Lock(t) \/ Unlock(t) \/ Load(t) \/ Add(t))
            \/ Again(t)
         /\ Lock(t) => lab = "lab_2" /\ at[t] = 1
         /\ Load(t) => at[t] = IF lab = "lab_1" THEN 1 ELSE 2
         /\ Add(t) => at[t] = IF lab = "lab_1" THEN 2 ELSE 3
         /\ Unlock(t) => lab = "lab_2" /\ at[t] = 4
         /\ Again(t) => at[t] = (IF lab = "lab_1" THEN 3 ELSE 5) /\ Length(lab, t) = at[t]
<1>1. cond[t] = "no"
  BY DEF WaitsInLoop, Counted
<1>2. ASSUME NEW op, Is(t, op)
      PROVE  /\ t \in Workers /\ op \in {"lock", "load", "add", "unlock", "again"}
             /\ op = "lock" => lab = "lab_2" /\ at[t] = 1
             /\ op = "load" => at[t] = IF lab = "lab_1" THEN 1 ELSE 2
             /\ op = "add" => at[t] = IF lab = "lab_1" THEN 2 ELSE 3
             /\ op = "unlock" => lab = "lab_2" /\ at[t] = 4
             /\ op = "again" => at[t] = (IF lab = "lab_1" THEN 3 ELSE 5) /\ Length(lab, t) = at[t]
  <2>1. t \in Workers /\ at[t] \in 1..Length(lab, t) /\ OpAt(lab, t, at[t]) = op
    BY <1>2, IsAt DEF Counted
  <2>2. CASE lab = "lab_1"
    BY <2>1, <2>2, Lab1
  <2>3. CASE lab = "lab_2"
    BY <2>1, <2>3, Lab2
  <2>4. QED
    BY <2>1, <2>2, <2>3 DEF Counted
<1>3. ~AtLeast(t) /\ ~Signal(t) /\ ~Check(t) /\ ~Relock(t)
  BY <1>1, <1>2 DEF AtLeast, Signal, Check, Relock
<1>4. CASE Lock(t)
  BY <1>2, <1>4 DEF Lock, Unlock, Load, Add, Again, Is
<1>5. CASE Unlock(t)
  BY <1>2, <1>5 DEF Lock, Unlock, Load, Add, Again, Is
<1>6. CASE Load(t)
  BY <1>2, <1>6 DEF Lock, Unlock, Load, Add, Again, Is
<1>7. CASE Add(t)
  BY <1>2, <1>7 DEF Lock, Unlock, Load, Add, Again, Is
<1>8. CASE Again(t)
  BY <1>2, <1>8 DEF Lock, Unlock, Load, Add, Again, Is
<1>9. QED
  BY <1>3, <1>4, <1>5, <1>6, <1>7, <1>8 DEF Step

LEMMA RoundStep ==
  ASSUME TypeOK, WaitsInLoop, Rounds, Next \/ UNCHANGED vars
  PROVE  Rounds'
<1> USE BoundsAssumption
<1>0. lab' = lab /\ Workers \subseteq Threads
  BY DEF Next, Step, Lock, Unlock, Load, Add, Again, AtLeast, Signal, Relock, Check, Spurious, Join, vars,
         Workers, Threads
<1> SUFFICES ASSUME lab \in Counted PROVE Rounds'
  BY <1>0 DEF Rounds, Counted
<1>1. CASE UNCHANGED vars
  BY <1>1 DEF Rounds, Returned, vars
<1>2. CASE Join
  BY <1>2 DEF Join, Rounds, Returned, Workers
<1>3. ASSUME NEW t \in Threads, Spurious(t) PROVE Rounds'
  BY <1>3 DEF Spurious, WaitsInLoop, Counted
<1>4. ASSUME NEW t \in Threads, Step(t) PROVE Rounds'
  <2>1. t \in Workers /\ UNCHANGED ended /\ ~ended
    BY <1>4, RoundIs
  <2>2. /\ loops \in [Threads -> 0..LOOPS] /\ at \in [Threads -> Nat]
        /\ \A u \in Workers : Len(Program[lab][u]) = IF lab = "lab_1" THEN 3 ELSE 5
    BY Lab1, Lab2 DEF TypeOK, Length, Counted
  <2>3. \A u \in Workers \ {t} : loops'[u] = loops[u] /\ at'[u] = at[u]
    BY <1>0, <1>4, <2>2, RoundIs DEF Again, Advance
  <2>4. Returned(t)' <=> loops'[t] = LOOPS
    <3>1. CASE Advance(t) /\ UNCHANGED loops /\ ~Again(t)
      <4>1. at[t] < Len(Program[lab][t]) /\ at'[t] = at[t] + 1
        <5>1. at'[t] = at[t] + 1
          BY <1>0, <2>1, <2>2, <3>1 DEF Advance
        <5>2. Lock(t) \/ Unlock(t) \/ Load(t) \/ Add(t)
          BY <1>4, <3>1, RoundIs
        <5>3. at[t] \in (IF lab = "lab_1" THEN {1, 2} ELSE {1, 2, 3, 4})
          BY <1>4, <5>2, RoundIs
        <5>4. QED
          BY <2>1, <2>2, <5>1, <5>3
      <4>2. at[t] \in Nat /\ Len(Program[lab][t]) \in Nat
        BY <2>1, <2>2, <1>0
      <4>3. ~Returned(t) /\ ~(Returned(t)')
        BY <1>0, <4>1, <4>2 DEF Returned
      <4>4. QED
        BY <2>1, <3>1, <4>3 DEF Rounds, Counted
    <3>2. CASE Again(t)
      <4>1. /\ at[t] = Len(Program[lab][t]) /\ ~Returned(t)
            /\ loops' = [loops EXCEPT ![t] = loops[t] + 1]
            /\ at'[t] = IF loops'[t] < LOOPS THEN 1 ELSE at[t] + 1
        BY <1>0, <1>4, <2>1, <2>2, <3>2, RoundIs, IsAt DEF Again, Counted, Length
      <4>2. loops[t] # LOOPS
        BY <2>1, <4>1 DEF Rounds, Counted
      <4>3. loops'[t] = loops[t] + 1 /\ loops[t] + 1 \in 0..LOOPS
        BY <1>0, <2>1, <2>2, <4>1, <4>2
      <4>4. Returned(t)' <=> at'[t] > at[t]
        BY <1>0, <4>1 DEF Returned
      <4>5. at[t] \in {3, 5}
        BY <2>1, <2>2, <4>1
      <4>6. loops'[t] \in 0..LOOPS
        BY <4>3
      <4>7. CASE loops'[t] < LOOPS
        <5>1. at'[t] = 1
          BY <4>1, <4>7
        <5>2. ~(at'[t] > at[t])
          BY <4>5, <5>1
        <5>3. loops'[t] # LOOPS
          BY <4>6, <4>7
        <5>4. QED
          BY <4>4, <5>2, <5>3
      <4>8. CASE ~(loops'[t] < LOOPS)
        <5>1. loops'[t] = LOOPS
          BY <4>6, <4>8
        <5>2. QED
          BY <4>1, <4>4, <4>5, <4>8, <5>1
      <4>9. QED
        BY <4>7, <4>8
    <3>3. QED
      BY <1>4, <3>1, <3>2, RoundIs
  <2>5. \A u \in Workers : Returned(u)' <=> loops'[u] = LOOPS
    BY <1>0, <2>3, <2>4 DEF Rounds, Returned, Counted
  <2>6. QED
    BY <1>0, <2>1, <2>5 DEF Rounds
<1>5. QED
  BY <1>1, <1>2, <1>3, <1>4 DEF Next

LEMMA StoredIs ==
  ASSUME TypeOK, WaitsInLoop, lab \in Counted, NEW t \in Threads, Step(t)
  PROVE  /\ \A u \in Workers \ {t} : Stored(u)' = Stored(u)
         /\ Add(t) => Stored(t)' = Stored(t) + 1
         /\ ~Add(t) => Stored(t)' = Stored(t)
<1>0. /\ t \in Workers /\ lab' = lab /\ Workers \subseteq Threads
      /\ loops \in [Threads -> 0..LOOPS] /\ at \in [Threads -> Nat]
      /\ \A u \in Threads : loops[u] \in Nat
  BY RoundIs, BoundsAssumption DEF TypeOK, Workers, Threads
<1>1. \A u \in Workers \ {t} : loops'[u] = loops[u] /\ at'[u] = at[u]
  BY <1>0, RoundIs DEF Again, Advance
<1>2. CASE ~Again(t)
  <2>1. at'[t] = at[t] + 1 /\ UNCHANGED loops /\ (Lock(t) \/ Unlock(t) \/ Load(t) \/ Add(t))
    BY <1>0, <1>2, RoundIs DEF Advance
  <2>2. QED
    BY <1>0, <1>1, <2>1, RoundIs DEF Stored
<1>3. CASE Again(t)
  <2>1. at[t] = IF lab = "lab_1" THEN 3 ELSE 5
    BY <1>3, RoundIs
  <2>2. loops'[t] = loops[t] + 1 /\ at'[t] \in {1, at[t] + 1}
    BY <1>0, <1>3 DEF Again, Counted
  <2>3. ~Add(t)
    BY <1>3, <2>1, RoundIs
  <2>4. QED
    BY <1>0, <1>1, <2>1, <2>2, <2>3 DEF Stored
<1>4. QED
  BY <1>2, <1>3

(* In lab_2 every store is one more than what was there.  In lab_1 a store  *)
(* of 1 is computed from the untouched counter.                             *)
LEMMA CountStep ==
  ASSUME TypeOK, WaitsInLoop, LoadCurrent, FourThere, NoneLost, SomeKept, Next \/ UNCHANGED vars
  PROVE  NoneLost' /\ SomeKept'
<1> USE BoundsAssumption
<1>0. /\ lab' = lab /\ "t1" \in Workers /\ "t2" \in Workers /\ Workers \subseteq Threads
      /\ \A u \in Workers : u = "t1" \/ u = "t2"
      /\ reg \in [Threads -> Int] /\ counter \in Int
  BY DEF Next, Step, Lock, Unlock, Load, Add, Again, AtLeast, Signal, Relock, Check, Spurious, Join, vars,
         Workers, Threads, TypeOK
<1> SUFFICES ASSUME lab \in Counted PROVE NoneLost' /\ SomeKept'
  BY <1>0 DEF NoneLost, SomeKept, Counted
<1>1. \A u \in Workers : Stored(u) \in Nat
  <2>1. \A u \in Workers : loops[u] \in Nat
    BY <1>0 DEF TypeOK
  <2>2. QED
    BY <2>1 DEF Stored
<1>2. CASE UNCHANGED <<at, reg, loops, counter>>
  <2>1. \A u \in Workers : Stored(u)' = Stored(u)
    BY <1>0, <1>2 DEF Stored
  <2>2. QED
    BY <1>0, <1>2, <2>1 DEF NoneLost, SomeKept
<1>3. ASSUME NEW t \in Threads, Add(t) PROVE NoneLost' /\ SomeKept'
  <2>1. /\ t \in Workers
        /\ counter' = reg[t] + 1 /\ reg' = reg
        /\ lab # "lab_1" => reg[t] = counter
        /\ Stored(t)' = Stored(t) + 1
        /\ \A u \in Workers \ {t} : Stored(u)' = Stored(u)
        /\ at[t] = IF lab = "lab_1" THEN 2 ELSE 3
        /\ \A u \in Workers \ {t} : at'[u] = at[u]
        /\ at'[t] = at[t] + 1
    BY <1>0, <1>3, AddIs, StoredIs, RoundIs DEF Step, Add, Advance, Counted, TypeOK
  <2>2. Stored("t1")' + Stored("t2")' = Stored("t1") + Stored("t2") + 1
    BY <1>0, <1>1, <2>1
  <2>3. NoneLost'
    BY <1>0, <2>1, <2>2 DEF NoneLost, Counted
  <2>4. SomeKept'
    <3> SUFFICES ASSUME lab = "lab_1" PROVE SomeKept'
      BY <1>0 DEF SomeKept
    <3>1. /\ at[t] = 2 /\ at'[t] = 3 /\ reg[t] >= 0 /\ reg[t] <= Stored("t1") + Stored("t2")
          /\ reg[t] = 0 => Stored(t) = 0
      BY <1>0, <1>1, <2>1 DEF SomeKept
    <3>2. counter' <= Stored("t1")' + Stored("t2")'
      BY <1>0, <1>1, <2>1, <2>2, <3>1
    <3>3. ASSUME NEW u \in Workers
          PROVE  /\ reg'[u] \in 0..Stored("t1")' + Stored("t2")'
                 /\ Stored(u)' > 0 => counter' >= 1
                 /\ Stored(u)' > 0 /\ at'[u] = 2 => reg'[u] >= 1
      <4>1. reg[u] \in 0..Stored("t1") + Stored("t2")
        BY DEF SomeKept
      <4>2. reg'[u] \in 0..Stored("t1")' + Stored("t2")'
        BY <1>0, <1>1, <2>1, <2>2, <4>1
      <4>3. counter' >= 1
        BY <1>0, <2>1, <3>1
      <4>4. Stored(u)' > 0 /\ at'[u] = 2 => reg'[u] >= 1
        BY <1>0, <2>1, <3>1 DEF SomeKept
      <4>5. QED
        BY <4>2, <4>3, <4>4
    <3>4. counter' <= 1 => Stored(t)' <= 1
      BY <1>0, <1>1, <2>1, <3>1
    <3>5. QED
      BY <1>0, <2>1, <3>2, <3>3, <3>4 DEF SomeKept
  <2>5. QED
    BY <2>3, <2>4
<1>4. ASSUME NEW t \in Threads, Step(t), ~Add(t) PROVE NoneLost' /\ SomeKept'
  <2>1. counter' = counter /\ t \in Workers
    BY <1>0, <1>4, RoundIs DEF Lock, Unlock, Load, Again
  <2>2. \A u \in Workers : Stored(u)' = Stored(u)
    BY <1>4, StoredIs
  <2>3. NoneLost'
    BY <1>0, <2>1, <2>2 DEF NoneLost
  <2>4. ASSUME lab = "lab_1", NEW u \in Workers
        PROVE  /\ reg'[u] \in 0..Stored("t1") + Stored("t2")
               /\ Stored(u) > 0 /\ at'[u] = 2 => reg'[u] >= 1
    <3>1. counter \in 0..Stored("t1") + Stored("t2") /\ (Stored(u) > 0 => counter >= 1)
      BY <1>0, <1>1, <2>4 DEF SomeKept, FourThere
    <3>2. CASE reg' = reg /\ (at'[u] = 2 => at[u] = 2)
      BY <2>4, <3>2 DEF SomeKept
    <3>3. CASE Load(t) /\ t = u
      BY <1>0, <3>1, <3>3 DEF Load
    <3>4. CASE Load(t) /\ t # u
      BY <1>0, <2>4, <3>4 DEF Load, Advance, SomeKept
    <3>5. ~Load(t) => reg' = reg /\ (at'[u] = 2 => at[u] = 2)
      <4>1. ~Load(t) => Again(t)
        BY <1>4, <2>4, RoundIs DEF Counted
      <4>2. Again(t) => at[t] = 3
        BY <1>4, <2>4, RoundIs
      <4>3. at \in [Threads -> Nat] /\ t \in Threads /\ u \in Threads
        BY <1>0, <1>4 DEF TypeOK
      <4>4. Again(t) => reg' = reg /\ at'[u] \in {1, at[u], 4}
        BY <2>4, <4>2, <4>3 DEF Again
      <4>5. QED
        BY <4>1, <4>2, <4>3, <4>4 DEF Again
    <3>6. QED
      BY <3>2, <3>3, <3>4, <3>5
  <2>5. SomeKept'
    <3>1. lab = "lab_1" => /\ counter <= Stored("t1") + Stored("t2")
                           /\ \A u \in Workers : Stored(u) > 0 => counter >= 1
                           /\ counter <= 1 => \E u \in Workers : Stored(u) <= 1
      BY DEF SomeKept
    <3>2. QED
      BY <1>0, <2>1, <2>2, <2>4, <3>1 DEF SomeKept
  <2>6. QED
    BY <2>3, <2>5
<1>5. QED
  BY <1>2, <1>3, <1>4 DEF Next, Spurious, Join, vars

-----------------------------------------------------------------------------
(* The mutexes, the condition variable and the counters of the four labs    *)
(* are as IInv says in every reachable state, for any number of rounds and  *)
(* any order of the threads.                                                *)
THEOREM Invariance == Spec => []IInv
<1>1. ASSUME IInv, [Next]_vars PROVE IInv'
  <2>1. TypeOK' /\ Rounds'
    BY <1>1, TypeStep, RoundStep DEF IInv
  <2>2. OwnersExact' /\ WaitsInLoop'
    BY <1>1, OwnerStep DEF IInv
  <2>3. LoadCurrent'
    BY <1>1, <2>1, LoadStep DEF IInv
  <2>4. FourThere'
    BY <1>1, FourStep DEF IInv
  <2>5. NoneLost' /\ SomeKept'
    BY <1>1, CountStep DEF IInv
  <2>6. QED
    BY <2>1, <2>2, <2>3, <2>4, <2>5 DEF IInv
<1>2. QED
  BY <1>1, InitInv, PTL DEF Spec

(* lab_2 prints twice the number of rounds, and lab_1 never less than 2.    *)
THEOREM ResultCorrect == Spec => []ResultRight
<1>1. ASSUME IInv PROVE ResultRight
  <2> SUFFICES ASSUME ended, lab \in Counted
               PROVE  /\ lab = "lab_2" => result = 2 * LOOPS
                      /\ lab = "lab_1" => result \in 2..2 * LOOPS
    BY DEF ResultRight, Counted
  <2>1. /\ "t1" \in Workers /\ "t2" \in Workers
        /\ \A t \in Workers : t \in Threads /\ (t = "t1" \/ t = "t2")
        /\ LOOPS \in Nat /\ LOOPS >= 2
    BY BoundsAssumption DEF Workers, Threads
  <2>2. result = counter /\ \A t \in Workers : Returned(t) /\ loops[t] = LOOPS
    BY <1>1 DEF IInv, Rounds, Counted
  <2>3. ASSUME NEW t \in Workers PROVE Stored(t) = LOOPS
    <3>1. at[t] > Len(Program[lab][t]) /\ loops[t] = LOOPS /\ at[t] \in Nat
      BY <1>1, <2>1, <2>2 DEF Returned, IInv, TypeOK
    <3>2. CASE lab = "lab_1"
      <4>1. Len(Program[lab][t]) = 3
        BY <3>2, Lab1 DEF Length
      <4>2. QED
        BY <2>1, <3>1, <3>2, <4>1 DEF Stored
    <3>3. CASE lab = "lab_2"
      <4>1. Len(Program[lab][t]) = 5
        BY <3>3, Lab2 DEF Length
      <4>2. QED
        BY <2>1, <3>1, <3>3, <4>1 DEF Stored
    <3>4. QED
      BY <3>2, <3>3 DEF Counted
  <2>4. lab = "lab_2" => counter = 2 * LOOPS
    BY <1>1, <2>1, <2>3 DEF IInv, NoneLost
  <2>5. lab = "lab_1" => counter <= 2 * LOOPS /\ counter > 1
    BY <1>1, <2>1, <2>3 DEF IInv, SomeKept, TypeOK
  <2>6. QED
    BY <1>1, <2>1, <2>2, <2>4, <2>5 DEF IInv, TypeOK
<1>2. QED
  BY <1>1, Invariance, PTL

(* The fixed order of the mutexes: whoever waits for one while it holds     *)
(* another waits for mutex2 with mutex1, so two threads never do.           *)
THEOREM NoCircularWaitCorrect == Spec => []NoCircularWait
<1>1. ASSUME IInv, NEW t \in Threads, NEW u \in Threads, WaitsFor(t, u)
      PROVE  /\ t \in Workers /\ u \in Workers /\ at[t] \in {1, 2}
             /\ at[t] = 1 => owner["mutex1"] = u
             /\ at[t] = 2 => owner["mutex2"] = u
  <2>1. /\ at[t] \in 1..Length(lab, t) /\ OpAt(lab, t, at[t]) = "lock" /\ t \in Workers
        /\ owner[ArgAt(lab, t, at[t])] = u /\ lab \in Labs
    <3>1. TypeOK /\ Is(t, "lock") /\ owner[Instr(t).arg] = u
      BY <1>1 DEF WaitsFor, IInv
    <3>2. lab \in Labs
      BY <3>1 DEF TypeOK
    <3>3. /\ at[t] \in 1..Length(lab, t) /\ OpAt(lab, t, at[t]) = "lock"
          /\ Instr(t).arg = ArgAt(lab, t, at[t])
      BY <3>1, IsAt
    <3>4. t \in Workers
      BY <3>1, IsAt
    <3>5. QED
      BY <3>1, <3>2, <3>3, <3>4
  <2>2. /\ at[t] \in {1, 2}
        /\ at[t] = 1 => ArgAt(lab, t, at[t]) = "mutex1"
        /\ at[t] = 2 => ArgAt(lab, t, at[t]) = "mutex2"
    <3>1. CASE lab = "lab_1"
      BY <2>1, <3>1, Lab1
    <3>2. CASE lab = "lab_2"
      BY <2>1, <3>2, Lab2
    <3>3. CASE lab = "lab_4"
      BY <2>1, <3>3, Lab4 DEF Workers
    <3>4. CASE lab = "lab_5"
      BY <2>1, <3>4, Lab5
    <3>5. QED
      BY <2>1, <3>1, <3>2, <3>3, <3>4 DEF Labs
  <2>3. u \in Workers
    <3>1. \A m \in Mutexes : owner[m] \in Workers \cup {"none"}
      BY <1>1 DEF IInv, OwnersExact
    <3>2. u # "none"
      BY DEF Threads
    <3>3. QED
      BY <2>1, <2>2, <3>1, <3>2 DEF Mutexes
  <2>4. QED
    BY <2>1, <2>2, <2>3
<1>2. ASSUME IInv PROVE NoCircularWait
  <2> SUFFICES ASSUME NEW t \in Threads, NEW u \in Threads, WaitsFor(t, u), WaitsFor(u, t) PROVE FALSE
    BY DEF NoCircularWait
  <2>1. ASSUME NEW w \in Workers, at[w] \in {1, 2}, NEW m \in Mutexes, owner[m] = w
        PROVE  m = "mutex1" /\ at[w] = 2
    <3>1. lab \in Labs /\ at[w] \in Section[lab][m]
      BY <1>2, <2>1 DEF IInv, TypeOK, OwnersExact
    <3>2. QED
      BY <2>1, <3>1, Sections DEF Labs, Mutexes
  <2>2. /\ t \in Workers /\ at[t] \in {1, 2} /\ u \in Workers /\ at[u] \in {1, 2}
        /\ at[t] = 1 => owner["mutex1"] = u
        /\ at[t] = 2 => owner["mutex2"] = u
        /\ at[u] = 1 => owner["mutex1"] = t
        /\ at[u] = 2 => owner["mutex2"] = t
    BY <1>1, <1>2
  <2>3. at[t] = 1 /\ at[u] = 2
    BY <2>1, <2>2 DEF Mutexes
  <2>4. QED
    BY <2>1, <2>2, <2>3 DEF Mutexes
<1>3. QED
  BY <1>2, Invariance, PTL

(* No thread takes items that are not there.                                *)
THEOREM NeverOversoldCorrect == Spec => []NeverOversold
<1>1. IInv => NeverOversold
  BY DEF IInv, FourThere, NeverOversold
<1>2. QED
  BY <1>1, Invariance, PTL
=============================================================================
