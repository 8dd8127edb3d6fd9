----------------------------- MODULE ShmProofs -----------------------------
(***************************************************************************)
(* Theorems of ShmHandoff, for every MAX_SIZE and every number of starts:  *)
(* a run whose producer initialized memory nobody else had mapped hands    *)
(* value to and fro with its own consumer, until a process of another run  *)
(* maps that memory.  The argument is Alone, that nobody else has it, and  *)
(* OneToken: whoever works has taken the only token there is, and value    *)
(* tells where it is.                                                      *)
(***************************************************************************)
EXTENDS ShmHandoff, TLAPS

(* Who is who, and which semaphore is whose *)
LEMMA Sides ==
  /\ \A r \in Runs : /\ Producer(r) \in Proc /\ Consumer(r) \in Proc
                     /\ WaitsOn(Producer(r)) = "sem_empty" /\ Posts(Producer(r)) = "sem_full"
                     /\ WaitsOn(Consumer(r)) = "sem_full" /\ Posts(Consumer(r)) = "sem_empty"
                     /\ Step(Producer(r)) = 1 /\ Step(Consumer(r)) = -1
                     /\ Producer(r)[1] = r /\ Consumer(r)[1] = r
  /\ \A r, q \in Runs : /\ Producer(r) # Consumer(q)
                        /\ (Producer(r) = Producer(q) \/ Consumer(r) = Consumer(q)) => r = q
  /\ \A p \in Proc : /\ p[1] \in Runs /\ (p = Producer(p[1]) \/ p = Consumer(p[1]))
                     /\ WaitsOn(p) \in Sems /\ Posts(p) \in Sems /\ Step(p) \in Int
  /\ Sems = {"sem_empty", "sem_full"}
  /\ \A r \in Runs : r \in 1..MaxStarts /\ r # 0
<1>1. \A r \in Runs : /\ Producer(r) \in Proc /\ Consumer(r) \in Proc
                      /\ Producer(r)[1] = r /\ Consumer(r)[1] = r
                      /\ Producer(r)[2] = "producer" /\ Consumer(r)[2] = "consumer"
  BY DEF Proc, Producer, Consumer
<1>2. \A r, q \in Runs : /\ Producer(r) # Consumer(q)
                         /\ (Producer(r) = Producer(q) \/ Consumer(r) = Consumer(q)) => r = q
  BY <1>1
<1>3. \A p \in Proc : p[1] \in Runs /\ (p = Producer(p[1]) \/ p = Consumer(p[1]))
  BY <1>1 DEF Proc
<1>4. \A p \in Proc : WaitsOn(p) \in Sems /\ Posts(p) \in Sems /\ Step(p) \in Int
  BY DEF WaitsOn, Posts, Step, Sems
<1>5. \A r \in Runs : /\ WaitsOn(Producer(r)) = "sem_empty" /\ Posts(Producer(r)) = "sem_full"
                      /\ WaitsOn(Consumer(r)) = "sem_full" /\ Posts(Consumer(r)) = "sem_empty"
                      /\ Step(Producer(r)) = 1 /\ Step(Consumer(r)) = -1
  BY <1>1 DEF WaitsOn, Posts, Step
<1>6. Sems = {"sem_empty", "sem_full"} /\ \A r \in Runs : r \in 1..MaxStarts /\ r # 0
  BY SizeAssumption DEF Sems, Runs
<1>7. QED
  BY <1>1, <1>2, <1>3, <1>4, <1>5, <1>6

LEMMA InitInv == Init => IInv
<1> SUFFICES ASSUME Init PROVE IInv
  OBVIOUS
<1>1. NoClaim.at = "no" /\ NoClaim \in [at : {"no", "init", "ready", "both"}, mem : 0..MaxStarts]
  BY SizeAssumption DEF NoClaim
<1>2. TypeOK
  BY <1>1, SizeAssumption DEF Init, TypeOK
<1>3. Fresh
  BY <1>1, Sides DEF Init, Fresh
<1>4. \A r \in Runs : Alone(r) /\ OneToken(r)
  BY <1>1 DEF Init, Alone, OneToken
<1>5. QED
  BY <1>2, <1>3, <1>4 DEF IInv

-----------------------------------------------------------------------------
(* Types *)

LEMMA DieType ==
  ASSUME TypeOK, NEW p \in Proc, NEW n \in 0..MaxStarts, Die(p, n)
  PROVE  TypeOK'
<1> USE SizeAssumption
<1>1. NoClaim \in [at : {"no", "init", "ready", "both"}, mem : 0..MaxStarts]
  BY DEF NoClaim
<1>2. pc' \in [Proc -> {"none", "sleep", "open", "init_empty", "init_full", "init_value",
                        "wait", "work", "dead"}]
      /\ mem' \in [Proc -> 0..MaxStarts] /\ done' \in [Proc -> 0..MAX_SIZE]
      /\ asleep' \in [Proc -> {"no", "yes", "woken"}] /\ named' \in 0..MaxStarts
  BY DEF Die, TypeOK
<1>3. claim' \in [Runs -> [at : {"no", "init", "ready", "both"}, mem : 0..MaxStarts]]
  BY <1>1, Sides DEF Die, TypeOK
<1>4. sem' \in [Runs -> [Sems -> Nat]]
  BY DEF Die, TypeOK
<1>5. waiters' \in [Runs -> [Sems -> Int]]
  BY DEF Die, TypeOK
<1>6. value' \in [Runs -> Int \cup {Garbled}]
  BY DEF Die, TypeOK
<1>7. QED
  BY <1>2, <1>3, <1>4, <1>5, <1>6 DEF TypeOK

LEMMA AttachType ==
  ASSUME TypeOK, NEW p \in Proc, NEW m \in 0..MaxStarts, Attach(p, m)
  PROVE  /\ mem' \in [Proc -> 0..MaxStarts]
         /\ claim' \in [Runs -> [at : {"no", "init", "ready", "both"}, mem : 0..MaxStarts]]
<1>1. NoClaim \in [at : {"no", "init", "ready", "both"}, mem : 0..MaxStarts]
      /\ [at |-> "both", mem |-> m] \in [at : {"no", "init", "ready", "both"}, mem : 0..MaxStarts]
  BY SizeAssumption DEF NoClaim
<1>2. QED
  BY <1>1 DEF Attach, TypeOK

LEMMA TypeStep ==
  ASSUME TypeOK, Fresh, Next
  PROVE  TypeOK'
<1> USE SizeAssumption
<1>0. /\ named \in 0..MaxStarts /\ 0 \in 0..MaxStarts
      /\ \A p \in Proc : mem[p] \in 0..MaxStarts
      /\ \A p \in Proc : pc[p] \notin {"none", "sleep", "open", "dead"} => mem[p] \in Runs
  BY DEF TypeOK, Fresh, Runs
<1>1. ASSUME NEW r \in Runs, Start(r) PROVE TypeOK'
  BY <1>1 DEF Start, TypeOK
<1>2. ASSUME NEW r \in Runs, ProducerOpens(r) PROVE TypeOK'
  <2>1. PICK m : m = IF named = 0 THEN r ELSE named
    OBVIOUS
  <2>2. m \in 0..MaxStarts /\ Producer(r) \in Proc
    BY <1>0, <2>1, Sides DEF Runs
  <2>3. CASE Die(Producer(r), m)
    BY <2>2, <2>3, DieType
  <2>4. CASE /\ Attach(Producer(r), m) /\ named' = m
             /\ pc' = [pc EXCEPT ![Producer(r)] = "init_empty"]
             /\ UNCHANGED <<done, asleep, sem, waiters, value>>
    BY <2>2, <2>4, AttachType DEF TypeOK
  <2>5. QED
    BY <1>2, <2>1, <2>3, <2>4 DEF ProducerOpens
<1>3. ASSUME NEW r \in Runs, InitEmpty(r) PROVE TypeOK'
  <2>1. PICK p : p = Producer(r)
    OBVIOUS
  <2>2. p \in Proc /\ mem[p] \in Runs /\ mem[p] \in 0..MaxStarts /\ "sem_empty" \in Sems
    BY <1>0, <1>3, <2>1, Sides DEF InitEmpty
  <2>3. NoClaim \in [at : {"no", "init", "ready", "both"}, mem : 0..MaxStarts]
        /\ [at |-> "init", mem |-> mem[p]] \in [at : {"no", "init", "ready", "both"}, mem : 0..MaxStarts]
    BY <2>2 DEF NoClaim
  <2>4. claim' \in [Runs -> [at : {"no", "init", "ready", "both"}, mem : 0..MaxStarts]]
    BY <1>3, <2>1, <2>3 DEF InitEmpty, TypeOK
  <2>5. sem' \in [Runs -> [Sems -> Nat]] /\ waiters' \in [Runs -> [Sems -> Int]]
    BY <1>3, <2>1, <2>2 DEF InitEmpty, SemInit, TypeOK
  <2>6. QED
    BY <1>3, <2>1, <2>4, <2>5 DEF InitEmpty, TypeOK
<1>4. ASSUME NEW r \in Runs, InitFull(r) PROVE TypeOK'
  <2>1. PICK p : p = Producer(r)
    OBVIOUS
  <2>2. p \in Proc /\ mem[p] \in Runs /\ "sem_full" \in Sems
    BY <1>0, <1>4, <2>1, Sides DEF InitFull
  <2>3. sem' \in [Runs -> [Sems -> Nat]] /\ waiters' \in [Runs -> [Sems -> Int]]
    BY <1>4, <2>1, <2>2 DEF InitFull, SemInit, TypeOK
  <2>4. QED
    BY <1>4, <2>1, <2>3 DEF InitFull, TypeOK
<1>5. ASSUME NEW r \in Runs, InitValue(r) PROVE TypeOK'
  <2>1. PICK p : p = Producer(r)
    OBVIOUS
  <2>2. claim[r] \in [at : {"no", "init", "ready", "both"}, mem : 0..MaxStarts]
    BY DEF TypeOK
  <2>3. [claim[r] EXCEPT !.at = "ready"] \in [at : {"no", "init", "ready", "both"}, mem : 0..MaxStarts]
    BY <2>2
  <2>4. claim' \in [Runs -> [at : {"no", "init", "ready", "both"}, mem : 0..MaxStarts]]
    BY <1>5, <2>1, <2>2, <2>3 DEF InitValue, TypeOK
  <2>5. value' \in [Runs -> Int \cup {Garbled}]
    <3>1. PICK v : v = IF Raced(p) THEN Garbled ELSE 0
      OBVIOUS
    <3>2. v \in Int \cup {Garbled}
      BY <3>1
    <3>3. value' = [value EXCEPT ![mem[p]] = v]
      BY <1>5, <2>1, <3>1 DEF InitValue
    <3>4. QED
      BY <3>2, <3>3 DEF TypeOK
  <2>6. QED
    BY <1>5, <2>1, <2>4, <2>5 DEF InitValue, TypeOK
<1>6. ASSUME NEW r \in Runs, ConsumerOpens(r) PROVE TypeOK'
  <2>1. Consumer(r) \in Proc
    BY Sides
  <2>2. CASE Die(Consumer(r), named)
    BY <1>0, <2>1, <2>2, DieType
  <2>3. CASE /\ Attach(Consumer(r), named)
             /\ pc' = [pc EXCEPT ![Consumer(r)] = "wait"]
             /\ UNCHANGED <<done, asleep, named, sem, waiters, value>>
    BY <1>0, <2>1, <2>3, AttachType DEF TypeOK
  <2>4. QED
    BY <1>6, <2>2, <2>3 DEF ConsumerOpens
<1>7. ASSUME NEW p \in Proc, Enter(p) PROVE TypeOK'
  <2>1. PICK m, s : m = mem[p] /\ s = WaitsOn(p)
    OBVIOUS
  <2>2. m \in Runs /\ s \in Sems
    BY <1>0, <1>7, <2>1, Sides DEF Enter
  <2>3. sem[m][s] - 1 \in Nat /\ waiters[m][s] - 1 \in Int /\ waiters[m][s] \in Int
    BY <1>7, <2>1, <2>2 DEF Enter, TypeOK
  <2>4. sem' \in [Runs -> [Sems -> Nat]]
    BY <1>7, <2>1, <2>2, <2>3 DEF Enter, TypeOK
  <2>5. waiters' \in [Runs -> [Sems -> Int]]
    BY <1>7, <2>1, <2>2, <2>3 DEF Enter, TypeOK
  <2>6. QED
    BY <1>7, <2>4, <2>5 DEF Enter, TypeOK
<1>8. ASSUME NEW p \in Proc, FallAsleep(p) PROVE TypeOK'
  <2>1. PICK m, s : m = mem[p] /\ s = WaitsOn(p)
    OBVIOUS
  <2>2. m \in Runs /\ s \in Sems
    BY <1>0, <1>8, <2>1, Sides DEF FallAsleep
  <2>3. waiters' \in [Runs -> [Sems -> Int]]
    BY <1>8, <2>1, <2>2 DEF FallAsleep, TypeOK
  <2>4. QED
    BY <1>8, <2>3 DEF FallAsleep, TypeOK
<1>9. ASSUME NEW p \in Proc, Work(p) PROVE TypeOK'
  <2>1. done[p] + 1 \in 0..MAX_SIZE /\ mem[p] \in Runs
    BY <1>0, <1>9 DEF Work, TypeOK
  <2>2. value' \in [Runs -> Int \cup {Garbled}]
    BY <1>9, <2>1, Sides DEF Work, TypeOK
  <2>3. QED
    BY <1>9, <2>1, <2>2 DEF Work, TypeOK
<1>10. ASSUME NEW p \in Proc, Leave(p) PROVE TypeOK'
  <2>1. PICK m, s : m = mem[p] /\ s = Posts(p)
    OBVIOUS
  <2>2. m \in Runs /\ s \in Sems
    BY <1>0, <1>10, <2>1, Sides DEF Leave
  <2>3. sem' \in [Runs -> [Sems -> Nat]]
    BY <1>10, <2>1, <2>2 DEF Leave, TypeOK
  <2>4. asleep' \in [Proc -> {"no", "yes", "woken"}]
    BY <1>10, <2>1 DEF Leave, TypeOK
  <2>5. done' \in [Proc -> 0..MAX_SIZE]
    BY <1>10 DEF Leave, TypeOK
  <2>6. QED
    BY <1>10, <2>3, <2>4, <2>5 DEF Leave, TypeOK
<1>11. ASSUME NEW p \in Proc, SigInt(p) \/ SigKill(p) PROVE TypeOK'
  BY <1>0, <1>11, DieType DEF SigInt, SigKill
<1>12. CASE UNCHANGED vars
  BY <1>12 DEF vars, TypeOK
<1>13. QED
  BY <1>1, <1>2, <1>3, <1>4, <1>5, <1>6, <1>7, <1>8, <1>9, <1>10, <1>11, <1>12
  DEF Next, Opens, Loop

-----------------------------------------------------------------------------
(* Who has memory, and whose *)

LEMMA FreshStep ==
  ASSUME TypeOK, Fresh, Next
  PROVE  Fresh'
<1>0. /\ \A p \in Proc : /\ pc[p] \in {"none", "sleep", "open", "dead"} <=> mem[p] = 0
                         /\ pc[p] # "wait" => asleep[p] = "no"
                         /\ pc[p] # "work" => done[p] = 0
      /\ \A r \in Runs : /\ pc[Producer(r)] = "none" <=> pc[Consumer(r)] = "none"
                         /\ pc[Consumer(r)] \notin {"open", "init_empty", "init_full", "init_value"}
      /\ \A r \in Runs : pc[Producer(r)] \in {"none", "open"} =>
                           /\ named # r /\ claim[r].at = "no"
                           /\ \A p \in Proc : mem[p] # r
      /\ NoClaim.at = "no"
  BY DEF Fresh, NoClaim
<1>a. ASSUME NEW a \in Proc, NEW n \in 0..MaxStarts, Die(a, n), pc[a] # "none",
             n # named => a = Producer(n) \/ n = 0
      PROVE  Fresh'
  <2>1. \A p \in Proc : /\ pc'[p] = (IF p = a THEN "dead" ELSE pc[p])
                        /\ mem'[p] = (IF p = a THEN 0 ELSE mem[p])
                        /\ done'[p] = (IF p = a THEN 0 ELSE done[p])
                        /\ asleep'[p] = (IF p = a THEN "no" ELSE asleep[p])
    BY <1>a DEF Die, TypeOK
  <2>2. \A r \in Runs : claim'[r] = claim[r] \/ claim'[r] = NoClaim
    BY <1>a, Sides DEF Die, TypeOK
  <2>3. \A p \in Proc : /\ pc'[p] \in {"none", "sleep", "open", "dead"} <=> mem'[p] = 0
                        /\ pc'[p] # "wait" => asleep'[p] = "no"
                        /\ pc'[p] # "work" => done'[p] = 0
    BY <1>0, <2>1
  <2>4. named' = n
    BY <1>a DEF Die
  <2>5. ASSUME NEW r \in Runs, pc'[Producer(r)] \in {"none", "open"}
        PROVE  /\ named' # r /\ claim'[r].at = "no"
               /\ \A p \in Proc : mem'[p] # r
    BY <1>0, <1>a, <2>1, <2>2, <2>4, <2>5, Sides
  <2>6. \A r \in Runs : /\ pc'[Producer(r)] = "none" <=> pc'[Consumer(r)] = "none"
                        /\ pc'[Consumer(r)] \notin {"open", "init_empty", "init_full", "init_value"}
    BY <1>0, <1>a, <2>1, Sides
  <2>7. QED
    BY <2>3, <2>5, <2>6 DEF Fresh
<1>b. ASSUME NEW a \in Proc, NEW m \in Runs, NEW at, Attach(a, m), named' = m,
             UNCHANGED <<done, asleep>>, pc' = [pc EXCEPT ![a] = at],
             pc[a] \in {"open", "sleep"}, at = IF pc[a] = "open" THEN "init_empty" ELSE "wait",
             m # named => a = Producer(m)
      PROVE  Fresh'
  <2>1. \A p \in Proc : /\ pc'[p] = (IF p = a THEN at ELSE pc[p])
                        /\ mem'[p] = (IF p = a THEN m ELSE mem[p])
                        /\ done'[p] = done[p] /\ asleep'[p] = asleep[p]
    BY <1>b DEF Attach, TypeOK
  <2>2. \A p \in Proc : /\ pc'[p] \in {"none", "sleep", "open", "dead"} <=> mem'[p] = 0
                        /\ pc'[p] # "wait" => asleep'[p] = "no"
                        /\ pc'[p] # "work" => done'[p] = 0
    BY <1>0, <1>b, <2>1, Sides
  <2>3. ASSUME NEW r \in Runs, pc'[Producer(r)] \in {"none", "open"}
        PROVE  /\ named' # r /\ claim'[r].at = "no"
               /\ \A p \in Proc : mem'[p] # r
    <3>1. Producer(r) \in Proc /\ Producer(r) # a /\ pc[Producer(r)] \in {"none", "open"}
      BY <1>b, <2>1, <2>3, Sides
    <3>2. named # r /\ claim[r].at = "no" /\ \A p \in Proc : mem[p] # r
      BY <1>0, <3>1
    <3>3. m # r
      BY <1>b, <3>1, <3>2
    <3>4. claim'[r] = claim[r] \/ claim'[r] = NoClaim
      BY <1>b, <3>2 DEF Attach
    <3>5. QED
      BY <1>0, <1>b, <2>1, <3>2, <3>3, <3>4
  <2>4. \A r \in Runs : /\ pc'[Producer(r)] = "none" <=> pc'[Consumer(r)] = "none"
                        /\ pc'[Consumer(r)] \notin {"open", "init_empty", "init_full", "init_value"}
    BY <1>0, <1>b, <2>1, Sides
  <2>5. QED
    BY <2>2, <2>3, <2>4 DEF Fresh
<1>c. ASSUME UNCHANGED <<mem, named>>,
             \A p \in Proc : /\ pc'[p] \in {"none", "sleep", "open", "dead"} <=> mem[p] = 0
                             /\ pc'[p] # "wait" => asleep'[p] = "no"
                             /\ pc'[p] # "work" => done'[p] = 0,
             \A r \in Runs : /\ pc'[Producer(r)] = "none" <=> pc'[Consumer(r)] = "none"
                             /\ pc'[Consumer(r)] \notin {"open", "init_empty", "init_full", "init_value"},
             \A r \in Runs : pc'[Producer(r)] \in {"none", "open"} =>
                               /\ pc[Producer(r)] \in {"none", "open"}
                               /\ claim'[r] = claim[r]
      PROVE  Fresh'
  BY <1>0, <1>c DEF Fresh
<1>d. ASSUME NEW a \in Proc, NEW at, UNCHANGED <<mem, named>>, pc[a] \notin {"none", "sleep", "open", "dead"},
             at \notin {"none", "sleep", "open", "dead"}, at \in {"wait", "work"} \/ pc[a] \notin {"wait", "work"},
             pc' = [pc EXCEPT ![a] = at],
             \A p \in Proc : p # a => asleep'[p] = asleep[p] \/ asleep[p] # "no",
             \A p \in Proc : p # a => done'[p] = done[p],
             at # "wait" => asleep'[a] = "no", at # "work" => done'[a] = 0,
             \A r \in Runs : claim'[r] = claim[r] \/ a = Producer(r)
      PROVE  Fresh'
  <2>1. \A p \in Proc : pc'[p] = (IF p = a THEN at ELSE pc[p])
    BY <1>d DEF TypeOK
  <2>2. \A p \in Proc : /\ pc'[p] \in {"none", "sleep", "open", "dead"} <=> mem[p] = 0
                        /\ pc'[p] # "wait" => asleep'[p] = "no"
                        /\ pc'[p] # "work" => done'[p] = 0
    BY <1>0, <1>d, <2>1
  <2>3. \A r \in Runs : /\ pc'[Producer(r)] = "none" <=> pc'[Consumer(r)] = "none"
                        /\ pc'[Consumer(r)] \notin {"open", "init_empty", "init_full", "init_value"}
    BY <1>0, <1>d, <2>1, Sides DEF TypeOK
  <2>4. \A r \in Runs : pc'[Producer(r)] \in {"none", "open"} =>
                          /\ pc[Producer(r)] \in {"none", "open"}
                          /\ claim'[r] = claim[r]
    BY <1>d, <2>1, Sides
  <2>5. QED
    BY <1>c, <1>d, <2>2, <2>3, <2>4
<1>1. ASSUME NEW r \in Runs, Start(r) PROVE Fresh'
  <2>1. \A p \in Proc : pc'[p] = (IF p = Consumer(r) THEN "sleep" ELSE IF p = Producer(r) THEN "open" ELSE pc[p])
    BY <1>1, Sides DEF Start, TypeOK
  <2>2. pc[Producer(r)] = "none" /\ pc[Consumer(r)] = "none"
    BY <1>0, <1>1 DEF Start
  <2>3. UNCHANGED <<mem, named, claim, asleep, done>>
    BY <1>1 DEF Start
  <2>4. \A q \in Runs : /\ pc'[Producer(q)] = "none" <=> pc'[Consumer(q)] = "none"
                        /\ pc'[Consumer(q)] \notin {"open", "init_empty", "init_full", "init_value"}
    BY <1>0, <2>1, Sides
  <2>5. \A p \in Proc : /\ pc'[p] \in {"none", "sleep", "open", "dead"} <=> mem[p] = 0
                        /\ pc'[p] # "wait" => asleep'[p] = "no"
                        /\ pc'[p] # "work" => done'[p] = 0
    BY <1>0, <2>1, <2>2, <2>3
  <2>6. \A q \in Runs : pc'[Producer(q)] \in {"none", "open"} => pc[Producer(q)] \in {"none", "open"}
    BY <2>1, <2>2, Sides
  <2>7. QED
    BY <1>c, <2>3, <2>4, <2>5, <2>6
<1>2. ASSUME NEW r \in Runs, ProducerOpens(r) PROVE Fresh'
  <2>1. PICK m : m = IF named = 0 THEN r ELSE named
    OBVIOUS
  <2>2. m \in Runs /\ m \in 0..MaxStarts /\ Producer(r) \in Proc /\ (m # named => m = r)
    BY <2>1, Sides DEF Runs, TypeOK
  <2>3. CASE Die(Producer(r), m)
    BY <1>2, <1>a, <2>2, <2>3 DEF ProducerOpens
  <2>4. CASE /\ Attach(Producer(r), m) /\ named' = m
             /\ pc' = [pc EXCEPT ![Producer(r)] = "init_empty"]
             /\ UNCHANGED <<done, asleep, sem, waiters, value>>
    BY <1>2, <1>b, <2>2, <2>4 DEF ProducerOpens
  <2>5. QED
    BY <1>2, <2>1, <2>3, <2>4 DEF ProducerOpens
<1>3. ASSUME NEW r \in Runs, NEW at,
             \/ InitEmpty(r) /\ at = "init_full"
             \/ InitFull(r) /\ at = "init_value"
             \/ InitValue(r) /\ at = "wait"
      PROVE Fresh'
  <2>1. PICK a \in Proc : a = Producer(r)
    BY Sides
  <2>2. /\ pc[a] \in {"init_empty", "init_full", "init_value"} /\ pc' = [pc EXCEPT ![a] = at]
        /\ at \in {"init_full", "init_value", "wait"}
        /\ UNCHANGED <<mem, named, done, asleep>>
    BY <1>3, <2>1 DEF InitEmpty, InitFull, InitValue
  <2>3. \A q \in Runs : claim'[q] = claim[q] \/ a = Producer(q)
    BY <1>3, <2>1 DEF InitEmpty, InitFull, InitValue, TypeOK
  <2>4. asleep[a] = "no" /\ done[a] = 0
    BY <1>0, <2>2
  <2>5. QED
    BY <1>d, <2>2, <2>3, <2>4
<1>4. ASSUME NEW r \in Runs, ConsumerOpens(r) PROVE Fresh'
  <2>1. PICK a \in Proc : a = Consumer(r)
    BY Sides
  <2>2. CASE Die(a, named)
    BY <1>4, <1>a, <2>1, <2>2 DEF ConsumerOpens, TypeOK
  <2>3. CASE /\ named # 0 /\ Attach(a, named)
             /\ pc' = [pc EXCEPT ![a] = "wait"]
             /\ UNCHANGED <<done, asleep, named, sem, waiters, value>>
    <3>1. named \in Runs
      BY <2>3 DEF Runs, TypeOK
    <3>2. QED
      BY <1>4, <1>b, <2>1, <2>3, <3>1 DEF ConsumerOpens
  <2>4. QED
    BY <1>4, <2>1, <2>2, <2>3 DEF ConsumerOpens
<1>5. ASSUME NEW a \in Proc, NEW at,
             \/ Enter(a) /\ at = "work"
             \/ FallAsleep(a) /\ at = "wait"
             \/ Work(a) /\ at = "work"
             \/ Leave(a) /\ at = "wait"
      PROVE Fresh'
  <2>1. /\ pc[a] \in {"wait", "work"} /\ pc' = [pc EXCEPT ![a] = at] /\ at \in {"wait", "work"}
        /\ UNCHANGED <<mem, named, claim>>
    BY <1>5 DEF Enter, FallAsleep, Work, Leave, TypeOK
  <2>2. \A p \in Proc : p # a => asleep'[p] = asleep[p] \/ asleep[p] # "no"
    BY <1>5 DEF Enter, FallAsleep, Work, Leave, TypeOK
  <2>3. \A p \in Proc : p # a => done'[p] = done[p]
    BY <1>5 DEF Enter, FallAsleep, Work, Leave, TypeOK
  <2>4. at # "wait" => asleep'[a] = "no"
    BY <1>0, <1>5 DEF Enter, FallAsleep, Work, Leave, TypeOK
  <2>5. at # "work" => done'[a] = 0
    BY <1>0, <1>5 DEF Enter, FallAsleep, Work, Leave, TypeOK
  <2>6. QED
    BY <1>d, <2>1, <2>2, <2>3, <2>4, <2>5
<1>6. ASSUME NEW a \in Proc, SigInt(a) \/ SigKill(a) PROVE Fresh'
  BY <1>6, <1>a, SizeAssumption DEF SigInt, SigKill, Live, TypeOK
<1>7. CASE UNCHANGED vars
  BY <1>7 DEF vars, Fresh
<1>8. QED
  BY <1>1, <1>2, <1>3, <1>4, <1>5, <1>6, <1>7 DEF Next, Opens, Loop

-----------------------------------------------------------------------------
(* The token of a run that has its memory for itself: OneToken, of the      *)
(* values it speaks of (the semaphores, value, and for the producer and the *)
(* consumer where each is and what it has done).                            *)
Tokens(at, e, f, v, ap, ac, dp, dc) ==
  /\ (at = "init" /\ ap # "dead") => e = 1 /\ (ap = "init_value" => f = 0)
  /\ at \in {"ready", "both"} =>
       /\ e + f + (IF ap = "work" THEN 1 ELSE 0)
            + (IF at = "both" THEN (IF ac = "work" THEN 1 ELSE 0) ELSE 0) <= 1
       /\ e > 0 => v = 0
       /\ f > 0 => v = MAX_SIZE
       /\ ap = "work" => v = dp
       /\ (at = "both" /\ ac = "work") => v = MAX_SIZE - dc

LEMMA TokensOf ==
  ASSUME NEW r \in Runs, NEW p, NEW c, p = Producer(r), c = Consumer(r), NEW m, m = claim[r].mem
  PROVE  OneToken(r) <=> Tokens(claim[r].at, sem[m]["sem_empty"], sem[m]["sem_full"], value[m],
                                pc[p], pc[c], done[p], done[c])
BY Zenon DEF OneToken, Tokens, Turn

LEMMA TokensOfNext ==
  ASSUME NEW r \in Runs, NEW p, NEW c, p = Producer(r), c = Consumer(r), NEW m, m = claim'[r].mem
  PROVE  OneToken(r)' <=> Tokens(claim'[r].at, sem'[m]["sem_empty"], sem'[m]["sem_full"], value'[m],
                                 pc'[p], pc'[c], done'[p], done'[c])
BY Zenon DEF OneToken, Tokens, Turn

(* A run without a claim promises nothing. *)
LEMMA Unclaimed ==
  ASSUME NEW r \in Runs, claim'[r] = NoClaim
  PROVE  Alone(r)' /\ OneToken(r)'
BY DEF Alone, OneToken, NoClaim

(* A step that leaves the run's processes and its memory as they are, or    *)
(* ends one of them, does no harm.                                          *)
LEMMA Frame ==
  ASSUME TypeOK, NEW r \in Runs, Alone(r), OneToken(r), claim[r].at # "no", claim'[r] = claim[r],
         NEW p \in Proc, NEW c \in Proc, p = Producer(r), c = Consumer(r),
         NEW m \in Runs, m = claim[r].mem,
         \/ pc'[p] = pc[p] /\ mem'[p] = mem[p] /\ done'[p] = done[p]
         \/ pc'[p] = "dead",
         claim[r].at = "both" =>
           \/ pc'[c] = pc[c] /\ mem'[c] = mem[c] /\ done'[c] = done[c]
           \/ pc'[c] = "dead",
         \A q \in Proc : mem'[q] = mem[q] \/ mem'[q] # m,
         \/ sem'[m] = sem[m] /\ value'[m] = value[m]
         \/ /\ sem'[m] = [s \in Sems |-> 0] /\ pc'[p] = "dead"
            /\ claim[r].at = "both" => pc'[c] = "dead"
  PROVE  Alone(r)' /\ OneToken(r)'
<1>1. Alone(r)'
  BY DEF Alone
<1>2. PICK at, e, f, v, ap, ac, dp, dc :
        /\ at = claim[r].at /\ e = sem[m]["sem_empty"] /\ f = sem[m]["sem_full"] /\ v = value[m]
        /\ ap = pc[p] /\ ac = pc[c] /\ dp = done[p] /\ dc = done[c]
  OBVIOUS
<1>3. PICK e2, f2, v2, ap2, ac2, dp2, dc2 :
        /\ e2 = sem'[m]["sem_empty"] /\ f2 = sem'[m]["sem_full"] /\ v2 = value'[m]
        /\ ap2 = pc'[p] /\ ac2 = pc'[c] /\ dp2 = done'[p] /\ dc2 = done'[c]
  OBVIOUS
<1>4. Tokens(at, e, f, v, ap, ac, dp, dc)
  BY <1>2, TokensOf
<1>5. e \in Nat /\ f \in Nat
  BY <1>2, Sides DEF TypeOK
<1>6. /\ (ap2 = ap /\ dp2 = dp) \/ ap2 = "dead"
      /\ at = "both" => (ac2 = ac /\ dc2 = dc) \/ ac2 = "dead"
  BY <1>2, <1>3
<1>7. (e2 = e /\ f2 = f /\ v2 = v) \/ (e2 = 0 /\ f2 = 0 /\ ap2 = "dead" /\ (at = "both" => ac2 = "dead"))
  BY <1>2, <1>3, Sides
<1>8. Tokens(at, e2, f2, v2, ap2, ac2, dp2, dc2)
  BY <1>4, <1>5, <1>6, <1>7 DEF Tokens
<1>9. OneToken(r)'
  BY <1>2, <1>3, <1>8, TokensOfNext
<1>10. QED
  BY <1>1, <1>9

(* Only its own processes have the memory of a run with a claim. *)
LEMMA Stranger ==
  ASSUME NEW r \in Runs, Alone(r), claim[r].at # "no", NEW a \in Proc,
         a # Producer(r), ~(a = Consumer(r) /\ claim[r].at = "both")
  PROVE  mem[a] # claim[r].mem
BY DEF Alone

LEMMA LoopTokens ==
  ASSUME TypeOK, NEW r \in Runs, Alone(r), OneToken(r), NEW a \in Proc, Loop(a), mem[a] \in Runs,
         pc[Consumer(r)] # "init_value", pc[a] # "work" => done[a] = 0
  PROVE  Alone(r)' /\ OneToken(r)'
<1>1. claim' = claim /\ mem' = mem
  BY DEF Loop, Enter, FallAsleep, Work, Leave
<1>2. CASE claim[r].at = "no"
  BY <1>1, <1>2, Unclaimed DEF Alone
<1>3. CASE claim[r].at # "no"
  <2>1. PICK p \in Proc, c \in Proc : p = Producer(r) /\ c = Consumer(r)
    BY Sides
  <2>2. PICK m \in Runs : m = claim[r].mem
    <3>1. claim[r].mem \in 0..MaxStarts /\ claim[r].mem # 0
      BY <1>3 DEF Alone, TypeOK
    <3>2. QED
      BY <3>1, SizeAssumption DEF Runs
  <2>3. /\ claim[r].at \in {"init", "ready", "both"}
        /\ sem[m]["sem_empty"] \in Nat /\ sem[m]["sem_full"] \in Nat /\ value[m] \in Int \cup {Garbled}
        /\ done[p] \in 0..MAX_SIZE /\ done[c] \in 0..MAX_SIZE
    BY <1>3, Sides, SizeAssumption DEF TypeOK
  <2>4. pc[a] \in {"wait", "work"} /\ \A q \in Proc : q # a => pc'[q] = pc[q] /\ done'[q] = done[q]
    BY DEF Loop, Enter, FallAsleep, Work, Leave, TypeOK
  <2>5. \A k \in Runs : k # mem[a] => sem'[k] = sem[k] /\ value'[k] = value[k]
    BY DEF Loop, Enter, FallAsleep, Work, Leave, TypeOK
  <2>6. CASE a # p /\ ~(a = c /\ claim[r].at = "both")
    <3>1. mem[a] # m
      BY <1>3, <2>1, <2>2, <2>6, Stranger
    <3>2. QED
      BY <1>1, <1>3, <2>1, <2>2, <2>4, <2>5, <2>6, <3>1, Frame
  <2>7. ASSUME a = p \/ (a = c /\ claim[r].at = "both") PROVE Alone(r)' /\ OneToken(r)'
    <3>1. mem[a] = m /\ claim[r].at \in {"ready", "both"}
      BY <1>3, <2>1, <2>2, <2>3, <2>4, <2>7 DEF Alone
    <3>2. pc'[a] \in {"wait", "work"}
      BY DEF Loop, Enter, FallAsleep, Work, Leave, TypeOK
    <3>3. Alone(r)'
      BY <1>1, <2>1, <2>2, <2>4, <2>7, <3>1, <3>2 DEF Alone
    <3>4. \A q \in Proc : mem[q] = m => q = p \/ (q = c /\ claim[r].at = "both")
      BY <1>3, <2>1, <2>2 DEF Alone
    <3>5. PICK at, e, f, v, ap, ac, dp, dc :
            /\ at = claim[r].at /\ e = sem[m]["sem_empty"] /\ f = sem[m]["sem_full"] /\ v = value[m]
            /\ ap = pc[p] /\ ac = pc[c] /\ dp = done[p] /\ dc = done[c]
      OBVIOUS
    <3>6. PICK e2, f2, v2, ap2, ac2, dp2, dc2 :
            /\ e2 = sem'[m]["sem_empty"] /\ f2 = sem'[m]["sem_full"] /\ v2 = value'[m]
            /\ ap2 = pc'[p] /\ ac2 = pc'[c] /\ dp2 = done'[p] /\ dc2 = done'[c]
      OBVIOUS
    <3>7. Tokens(at, e, f, v, ap, ac, dp, dc)
      BY <2>1, <2>2, <3>5, TokensOf
    <3>8. /\ e \in Nat /\ f \in Nat /\ dp \in 0..MAX_SIZE /\ dc \in 0..MAX_SIZE
          /\ v \in Int \cup {Garbled} /\ at \in {"ready", "both"} /\ MAX_SIZE \in Nat \ {0}
      BY <2>3, <3>1, <3>5, SizeAssumption
    <3>9. pc[a] = "work" => ~Raced(a)
      <4>1. ASSUME pc[a] = "work", NEW q \in Proc \ {a}, mem[q] = mem[a], pc[q] \in {"init_value", "work"}
            PROVE  FALSE
        <5>1. q = p \/ (q = c /\ at = "both")
          BY <3>1, <3>4, <3>5, <4>1
        <5>2. at = "both" /\ ap \in {"init_value", "work"} /\ ac \in {"init_value", "work"}
          BY <2>7, <3>5, <4>1, <5>1
        <5>3. pc[p] \in {"wait", "work", "dead"} /\ ac # "init_value"
          BY <2>1, <2>4, <2>7, <3>1, <3>5, <4>1, <5>1 DEF Alone
        <5>4. QED
          BY <3>5, <3>7, <3>8, <5>2, <5>3 DEF Tokens
      <4>2. QED
        BY <4>1 DEF Raced
    <3>10. Tokens(at, e2, f2, v2, ap2, ac2, dp2, dc2)
      <4>1. CASE Enter(a)
        <5>1. /\ a = p => /\ e > 0 /\ e2 = e - 1 /\ f2 = f /\ ap2 = "work" /\ dp = 0
                          /\ ac2 = ac /\ ap = "wait"
              /\ a = c => /\ f > 0 /\ f2 = f - 1 /\ e2 = e /\ ac2 = "work" /\ dc = 0
                          /\ ap2 = ap /\ ac = "wait"
              /\ dp2 = dp /\ dc2 = dc /\ v2 = v
          BY <2>1, <3>1, <3>5, <3>6, <4>1, Sides DEF Enter, TypeOK
        <5>2. CASE a = p
          BY <3>7, <3>8, <5>1, <5>2 DEF Tokens
        <5>3. CASE a = c /\ at = "both"
          BY <3>7, <3>8, <5>1, <5>3 DEF Tokens
        <5>4. QED
          BY <2>7, <3>5, <5>2, <5>3
      <4>2. CASE FallAsleep(a)
        <5>1. e2 = e /\ f2 = f /\ v2 = v /\ ap2 = ap /\ ac2 = ac /\ dp2 = dp /\ dc2 = dc
          BY <3>5, <3>6, <4>2 DEF FallAsleep
        <5>2. QED
          BY <3>7, <5>1
      <4>3. CASE Work(a)
        <5>1. /\ a = p => v2 = (IF v = Garbled THEN Garbled ELSE v + 1) /\ dp2 = dp + 1 /\ dc2 = dc /\ ap = "work"
              /\ a = c => v2 = (IF v = Garbled THEN Garbled ELSE v - 1) /\ dc2 = dc + 1 /\ dp2 = dp /\ ac = "work"
              /\ e2 = e /\ f2 = f /\ ap2 = ap /\ ac2 = ac
          BY <2>1, <3>1, <3>5, <3>6, <3>9, <4>3, Sides DEF Work, TypeOK
        <5>2. QED
          BY <2>7, <3>5, <3>7, <3>8, <5>1, SizeAssumption DEF Tokens
      <4>4. CASE Leave(a)
        <5>1. /\ a = p => /\ f2 = f + 1 /\ e2 = e /\ ap = "work" /\ ap2 = "wait" /\ dp = MAX_SIZE
                          /\ ac2 = ac /\ dc2 = dc
              /\ a = c => /\ e2 = e + 1 /\ f2 = f /\ ac = "work" /\ ac2 = "wait" /\ dc = MAX_SIZE
                          /\ ap2 = ap /\ dp2 = dp
              /\ v2 = v
          BY <2>1, <3>1, <3>5, <3>6, <4>4, Sides DEF Leave, TypeOK
        <5>2. QED
          BY <2>7, <3>5, <3>7, <3>8, <5>1 DEF Tokens
      <4>5. QED
        BY <4>1, <4>2, <4>3, <4>4 DEF Loop
    <3>11. QED
      BY <1>1, <2>1, <2>2, <3>3, <3>5, <3>6, <3>10, TokensOfNext
  <2>8. QED
    BY <2>6, <2>7
<1>4. QED
  BY <1>2, <1>3

LEMMA DieTokens ==
  ASSUME TypeOK, NEW r \in Runs, Alone(r), OneToken(r), NEW a \in Proc, NEW n \in 0..MaxStarts, Die(a, n)
  PROVE  Alone(r)' /\ OneToken(r)'
<1>1. claim'[r] = claim[r] \/ claim'[r] = NoClaim
  BY Sides DEF Die, TypeOK
<1>2. CASE claim[r].at = "no" \/ claim'[r] = NoClaim
  BY <1>1, <1>2, Unclaimed DEF Alone
<1>3. CASE claim[r].at # "no" /\ claim'[r] = claim[r]
  <2>1. PICK p \in Proc, c \in Proc : p = Producer(r) /\ c = Consumer(r)
    BY Sides
  <2>2. PICK m \in Runs : m = claim[r].mem
    <3>1. claim[r].mem \in 0..MaxStarts /\ claim[r].mem # 0
      BY <1>3 DEF Alone, TypeOK
    <3>2. QED
      BY <3>1, SizeAssumption DEF Runs
  <2>3. \A q \in Proc : /\ q # a => pc'[q] = pc[q] /\ mem'[q] = mem[q] /\ done'[q] = done[q]
                        /\ q = a => pc'[q] = "dead" /\ mem'[q] = 0
    BY DEF Die, TypeOK
  <2>4. m # 0
    BY Sides
  <2>5. \/ sem'[m] = sem[m] /\ value'[m] = value[m]
        \/ sem'[m] = [s \in Sems |-> 0] /\ \A q \in Proc \ {a} : mem[q] # m
    BY DEF Die
  <2>6. ASSUME \A q \in Proc \ {a} : mem[q] # m
        PROVE  pc'[p] = "dead" /\ (claim[r].at = "both" => pc'[c] = "dead")
    BY <1>3, <2>1, <2>2, <2>3, <2>6 DEF Alone
  <2>7. \A q \in Proc : mem'[q] = mem[q] \/ mem'[q] # m
    BY <2>3, <2>4
  <2>8. \/ sem'[m] = sem[m] /\ value'[m] = value[m]
        \/ /\ sem'[m] = [s \in Sems |-> 0] /\ pc'[p] = "dead"
           /\ claim[r].at = "both" => pc'[c] = "dead"
    BY <2>5, <2>6
  <2>9. /\ \/ pc'[p] = pc[p] /\ mem'[p] = mem[p] /\ done'[p] = done[p]
           \/ pc'[p] = "dead"
        /\ \/ pc'[c] = pc[c] /\ mem'[c] = mem[c] /\ done'[c] = done[c]
           \/ pc'[c] = "dead"
    BY <2>3
  <2>10. QED
    BY <1>3, <2>1, <2>2, <2>7, <2>8, <2>9, Frame
<1>4. QED
  BY <1>1, <1>2, <1>3

LEMMA AttachTokens ==
  ASSUME TypeOK, Fresh, NEW r \in Runs, Alone(r), OneToken(r),
         NEW a \in Proc, NEW m0 \in Runs, NEW at, Attach(a, m0),
         pc' = [pc EXCEPT ![a] = at], pc[a] \in {"open", "sleep"},
         at = IF pc[a] = "open" THEN "init_empty" ELSE "wait", UNCHANGED <<done, sem, value>>
  PROVE  Alone(r)' /\ OneToken(r)'
<1>1. PICK p \in Proc, c \in Proc : p = Producer(r) /\ c = Consumer(r) /\ p # c
  BY Sides
<1>2. \A q \in Proc : /\ q # a => pc'[q] = pc[q] /\ mem'[q] = mem[q]
                      /\ q = a => pc'[q] = at /\ mem'[q] = m0
  BY DEF Attach, TypeOK
<1>3. mem[a] = 0 /\ m0 # 0
  BY Sides DEF Fresh
<1>4. CASE claim'[r] = NoClaim \/ (claim[r].at = "no" /\ claim'[r] = claim[r])
  BY <1>4, Unclaimed DEF Alone
<1>5. CASE claim[r].at # "no" /\ claim'[r] = claim[r] /\ claim[r].mem # m0
  <2>1. PICK m \in Runs : m = claim[r].mem
    <3>1. claim[r].mem \in 0..MaxStarts /\ claim[r].mem # 0
      BY <1>5 DEF Alone, TypeOK
    <3>2. QED
      BY <3>1, SizeAssumption DEF Runs
  <2>2. a # p
    BY <1>1, <1>5 DEF Alone
  <2>3. claim[r].at = "both" => a # c
    BY <1>1, <1>3, <1>5 DEF Alone
  <2>4. /\ sem'[m] = sem[m] /\ value'[m] = value[m]
        /\ \A q \in Proc : done'[q] = done[q]
    OBVIOUS
  <2>5. \A q \in Proc : mem'[q] = mem[q] \/ mem'[q] # m
    BY <1>2, <1>5, <2>1
  <2>6. /\ pc'[p] = pc[p] /\ mem'[p] = mem[p] /\ done'[p] = done[p]
        /\ claim[r].at = "both" => pc'[c] = pc[c] /\ mem'[c] = mem[c] /\ done'[c] = done[c]
    BY <1>2, <2>2, <2>3, <2>4
  <2>7. QED
    BY <1>1, <1>5, <2>1, <2>4, <2>5, <2>6, Frame
<1>6. CASE a = c /\ claim[r].at = "ready" /\ claim[r].mem = m0 /\ claim'[r] = [at |-> "both", mem |-> m0]
  <2>1. claim'[r].at = "both" /\ claim'[r].mem = m0
    BY <1>6
  <2>2. Alone(r)'
    BY <1>1, <1>2, <1>3, <1>6, <2>1 DEF Alone
  <2>3. PICK e, f, v, ap, ac, dp, dc :
          /\ e = sem[m0]["sem_empty"] /\ f = sem[m0]["sem_full"] /\ v = value[m0]
          /\ ap = pc[p] /\ ac = pc[c] /\ dp = done[p] /\ dc = done[c]
    OBVIOUS
  <2>4. Tokens("ready", e, f, v, ap, ac, dp, dc)
    BY <1>1, <1>6, <2>3, TokensOf
  <2>5. e \in Nat /\ f \in Nat
    BY <2>3, Sides DEF TypeOK
  <2>6. at = "wait"
    BY <1>1, <1>6 DEF Fresh
  <2>7. Tokens("both", e, f, v, ap, "wait", dp, dc)
    BY <2>4, <2>5 DEF Tokens
  <2>8. /\ sem'[m0]["sem_empty"] = e /\ sem'[m0]["sem_full"] = f /\ value'[m0] = v
        /\ pc'[p] = ap /\ pc'[c] = "wait" /\ done'[p] = dp /\ done'[c] = dc
    BY <1>1, <1>2, <1>6, <2>3, <2>6
  <2>9. OneToken(r)'
    BY <1>1, <2>1, <2>7, <2>8, TokensOfNext
  <2>10. QED
    BY <2>2, <2>9
<1>7. QED
  <2>1. \/ claim'[r] = claim[r] /\ claim[r].mem # m0
        \/ a = c /\ claim[r].at = "ready" /\ claim[r].mem = m0 /\ claim'[r] = [at |-> "both", mem |-> m0]
        \/ claim'[r] = NoClaim
    BY <1>1 DEF Attach
  <2>2. QED
    BY <1>4, <1>5, <1>6, <2>1

(* The producer of q initializes its memory. *)
LEMMA InitTokens ==
  ASSUME TypeOK, Fresh, NEW r \in Runs, Alone(r), OneToken(r),
         NEW q \in Runs, InitEmpty(q) \/ InitFull(q) \/ InitValue(q)
  PROVE  Alone(r)' /\ OneToken(r)'
<1>1. PICK p \in Proc, c \in Proc : p = Producer(r) /\ c = Consumer(r) /\ p # c
  BY Sides
<1>2. PICK a \in Proc : a = Producer(q) /\ a # c
  BY <1>1, Sides
<1>3. PICK at : at = IF pc[a] = "init_empty" THEN "init_full" ELSE IF pc[a] = "init_full" THEN "init_value" ELSE "wait"
  OBVIOUS
<1>4. /\ pc[a] \in {"init_empty", "init_full", "init_value"} /\ pc' = [pc EXCEPT ![a] = at]
      /\ UNCHANGED <<mem, done>>
      /\ \A k \in Runs : k # q => claim'[k] = claim[k]
      /\ \A k \in Runs : k # mem[a] => sem'[k] = sem[k] /\ value'[k] = value[k]
  BY <1>2, <1>3 DEF InitEmpty, InitFull, InitValue, SemInit, TypeOK
<1>5. mem[a] \in Runs /\ mem[a] # 0
  <2>1. mem[a] # 0 /\ mem[a] \in 0..MaxStarts
    BY <1>4 DEF Fresh, TypeOK
  <2>2. QED
    BY <2>1, SizeAssumption DEF Runs
<1>6. CASE claim'[r].at = "no" /\ (claim'[r] = claim[r] \/ claim'[r] = NoClaim)
  BY <1>6, Unclaimed DEF Alone
<1>7. CASE r # q /\ claim[r].at # "no"
  <2>1. PICK m \in Runs : m = claim[r].mem
    <3>1. claim[r].mem \in 0..MaxStarts /\ claim[r].mem # 0
      BY <1>7 DEF Alone, TypeOK
    <3>2. QED
      BY <3>1, SizeAssumption DEF Runs
  <2>2. a # p
    BY <1>1, <1>2, <1>7, Sides
  <2>3. mem[a] # m
    BY <1>1, <1>2, <1>7, <2>1, <2>2, Stranger
  <2>4. \A k \in Proc : mem'[k] = mem[k] /\ done'[k] = done[k] /\ (k # a => pc'[k] = pc[k])
    BY <1>4 DEF TypeOK
  <2>5. sem'[m] = sem[m] /\ value'[m] = value[m] /\ claim'[r] = claim[r]
    BY <1>4, <1>7, <2>3
  <2>6. QED
    BY <1>1, <1>2, <1>7, <2>1, <2>2, <2>4, <2>5, Frame
<1>8. CASE r = q /\ claim'[r].at # "no"
  <2>1. PICK m \in Runs : m = mem[a] /\ a = p
    BY <1>1, <1>2, <1>5, <1>8
  <2>2. pc'[p] = at /\ \A k \in Proc : mem'[k] = mem[k] /\ done'[k] = done[k] /\ (k # p => pc'[k] = pc[k])
    BY <1>4, <2>1 DEF TypeOK
  <2>3. CASE InitEmpty(q)
    <3>1. pc[a] = "init_empty" /\ at = "init_full"
      BY <1>2, <1>3, <2>3 DEF InitEmpty
    <3>2. /\ claim'[r] = [at |-> "init", mem |-> m]
          /\ \A k \in Proc : k # p => mem[k] # m
      BY <1>2, <1>8, <2>1, <2>3 DEF InitEmpty, NoClaim, TypeOK
    <3>3. claim'[r].at = "init" /\ claim'[r].mem = m
      BY <3>2
    <3>4. Alone(r)'
      BY <1>1, <1>5, <2>1, <2>2, <3>1, <3>2, <3>3 DEF Alone
    <3>5. sem'[m]["sem_empty"] = 1
      <4>1. sem' = [sem EXCEPT ![m]["sem_empty"] = 1]
        BY <1>2, <2>1, <2>3 DEF InitEmpty, SemInit
      <4>2. QED
        BY <4>1, Sides DEF TypeOK
    <3>6. Tokens("init", 1, sem'[m]["sem_full"], value'[m], "init_full", pc'[c], done'[p], done'[c])
      BY DEF Tokens
    <3>7. QED
      BY <1>1, <2>2, <3>1, <3>3, <3>4, <3>5, <3>6, TokensOfNext
  <2>4. CASE InitFull(q)
    <3>1. pc[a] = "init_full" /\ at = "init_value" /\ claim' = claim
      BY <1>2, <1>3, <2>4 DEF InitFull
    <3>2. claim[r].at = "init" /\ claim[r].mem = m
      BY <1>1, <1>8, <2>1, <3>1 DEF Alone, TypeOK
    <3>3. Alone(r)'
      BY <1>1, <2>1, <2>2, <3>1, <3>2 DEF Alone
    <3>4. sem'[m]["sem_full"] = 0 /\ sem'[m]["sem_empty"] = sem[m]["sem_empty"]
      <4>1. sem' = [sem EXCEPT ![m]["sem_full"] = 0]
        BY <1>2, <2>1, <2>4 DEF InitFull, SemInit
      <4>2. QED
        BY <4>1, Sides DEF TypeOK
    <3>5. sem[m]["sem_empty"] = 1
      BY <1>1, <2>1, <3>1, <3>2 DEF OneToken
    <3>6. Tokens("init", 1, 0, value'[m], "init_value", pc'[c], done'[p], done'[c])
      BY DEF Tokens
    <3>7. QED
      BY <1>1, <2>2, <3>1, <3>2, <3>3, <3>4, <3>5, <3>6, TokensOfNext
  <2>5. CASE InitValue(q)
    <3>1. pc[a] = "init_value" /\ at = "wait"
      BY <1>2, <1>3, <2>5 DEF InitValue
    <3>2. claim[r].at # "no"
      BY <1>8, <2>5 DEF InitValue, TypeOK
    <3>3. claim[r].at = "init" /\ claim[r].mem = m /\ \A k \in Proc : mem[k] = m => k = p
      BY <1>1, <2>1, <3>1, <3>2 DEF Alone, TypeOK
    <3>4. claim'[r].at = "ready" /\ claim'[r].mem = m
      BY <1>8, <2>5, <3>3 DEF InitValue, TypeOK
    <3>5. Alone(r)'
      BY <1>1, <2>1, <2>2, <3>1, <3>3, <3>4, Sides DEF Alone
    <3>6. ~Raced(p)
      BY <2>1, <3>3 DEF Raced
    <3>7. value'[m] = 0 /\ sem' = sem
      BY <1>2, <2>1, <2>5, <3>6 DEF InitValue, TypeOK
    <3>8. sem[m]["sem_empty"] = 1 /\ sem[m]["sem_full"] = 0
      BY <1>1, <2>1, <3>1, <3>3 DEF OneToken
    <3>9. Tokens("ready", 1, 0, 0, "wait", pc'[c], done'[p], done'[c])
      BY DEF Tokens
    <3>10. QED
      BY <1>1, <2>2, <3>1, <3>4, <3>5, <3>7, <3>8, <3>9, TokensOfNext
  <2>6. QED
    BY <2>3, <2>4, <2>5
<1>9. claim'[r] = claim[r] \/ claim'[r] = NoClaim \/ claim'[r].at # "no"
  <2>1. CASE r # q
    BY <1>4, <2>1
  <2>2. CASE r = q
    BY <2>2 DEF InitEmpty, InitFull, InitValue, TypeOK
  <2>3. QED
    BY <2>1, <2>2
<1>10. QED
  BY <1>4, <1>6, <1>7, <1>8, <1>9

LEMMA TokenStep ==
  ASSUME IInv, Next, NEW r \in Runs
  PROVE  Alone(r)' /\ OneToken(r)'
<1>0. TypeOK /\ Fresh /\ Alone(r) /\ OneToken(r)
  BY DEF IInv
<1>1. ASSUME NEW q \in Runs, Start(q) PROVE Alone(r)' /\ OneToken(r)'
  <2>1. PICK p \in Proc, c \in Proc : p = Producer(r) /\ c = Consumer(r)
    BY Sides
  <2>2. UNCHANGED <<mem, done, sem, value, claim>>
    BY <1>1 DEF Start
  <2>3. CASE claim[r].at = "no"
    BY <1>0, <2>2, <2>3, Unclaimed DEF Alone
  <2>4. CASE claim[r].at # "no"
    <3>1. PICK m \in Runs : m = claim[r].mem
      <4>1. claim[r].mem \in 0..MaxStarts /\ claim[r].mem # 0
        BY <1>0, <2>4 DEF Alone, TypeOK
      <4>2. QED
        BY <4>1, SizeAssumption DEF Runs
    <3>2. q # r
      BY <1>0, <1>1, <2>4 DEF Start, Fresh
    <3>3. pc'[p] = pc[p] /\ pc'[c] = pc[c]
      BY <1>0, <1>1, <2>1, <3>2, Sides DEF Start, TypeOK
    <3>4. QED
      BY <1>0, <2>1, <2>2, <2>4, <3>1, <3>3, Frame
  <2>5. QED
    BY <2>3, <2>4
<1>2. ASSUME NEW q \in Runs, ProducerOpens(q) PROVE Alone(r)' /\ OneToken(r)'
  <2>1. PICK m : m = IF named = 0 THEN q ELSE named
    OBVIOUS
  <2>2. m \in Runs /\ m \in 0..MaxStarts
    BY <1>0, <2>1, Sides DEF Runs, TypeOK
  <2>3. PICK a \in Proc : a = Producer(q)
    BY Sides
  <2>4. pc[a] = "open"
    BY <1>2, <2>3 DEF ProducerOpens
  <2>5. CASE Die(a, m)
    BY <1>0, <2>2, <2>5, DieTokens
  <2>6. CASE Attach(a, m) /\ pc' = [pc EXCEPT ![a] = "init_empty"] /\ UNCHANGED <<done, sem, value>>
    BY <1>0, <2>2, <2>4, <2>6, AttachTokens
  <2>7. QED
    BY <1>2, <2>1, <2>3, <2>5, <2>6 DEF ProducerOpens
<1>3. ASSUME NEW q \in Runs, ConsumerOpens(q) PROVE Alone(r)' /\ OneToken(r)'
  <2>1. PICK a \in Proc : a = Consumer(q)
    BY Sides
  <2>2. pc[a] = "sleep" /\ named \in 0..MaxStarts
    BY <1>0, <1>3, <2>1 DEF ConsumerOpens, TypeOK
  <2>3. CASE Die(a, named)
    BY <1>0, <2>2, <2>3, DieTokens
  <2>4. CASE named # 0 /\ Attach(a, named) /\ pc' = [pc EXCEPT ![a] = "wait"] /\ UNCHANGED <<done, sem, value>>
    <3>1. named \in Runs
      BY <2>2, <2>4 DEF Runs
    <3>2. QED
      BY <1>0, <2>2, <2>4, <3>1, AttachTokens
  <2>5. QED
    BY <1>3, <2>1, <2>3, <2>4 DEF ConsumerOpens
<1>4. ASSUME NEW q \in Runs, InitEmpty(q) \/ InitFull(q) \/ InitValue(q) PROVE Alone(r)' /\ OneToken(r)'
  BY <1>0, <1>4, InitTokens
<1>5. ASSUME NEW a \in Proc, Loop(a) PROVE Alone(r)' /\ OneToken(r)'
  <2>1. pc[a] \in {"wait", "work"}
    BY <1>5 DEF Loop, Enter, FallAsleep, Work, Leave
  <2>2. mem[a] \in Runs
    <3>1. mem[a] # 0 /\ mem[a] \in 0..MaxStarts
      BY <1>0, <2>1 DEF Fresh, TypeOK
    <3>2. QED
      BY <3>1, SizeAssumption DEF Runs
  <2>3. pc[Consumer(r)] # "init_value" /\ (pc[a] # "work" => done[a] = 0)
    BY <1>0 DEF Fresh
  <2>4. QED
    BY <1>0, <1>5, <2>2, <2>3, LoopTokens
<1>6. ASSUME NEW a \in Proc, SigInt(a) \/ SigKill(a) PROVE Alone(r)' /\ OneToken(r)'
  <2>1. PICK n \in 0..MaxStarts : Die(a, n)
    BY <1>0, <1>6, SizeAssumption DEF SigInt, SigKill, TypeOK
  <2>2. QED
    BY <1>0, <2>1, DieTokens
<1>7. CASE UNCHANGED vars
  BY <1>0, <1>7 DEF vars, Alone, OneToken, Turn
<1>8. QED
  BY <1>1, <1>2, <1>3, <1>4, <1>5, <1>6, <1>7 DEF Next, Opens

-----------------------------------------------------------------------------
(* Types, who has which memory, and the single token of each run that has   *)
(* initialized memory nobody else had mapped, in every reachable state: for *)
(* every number of starts, at any time, and every kill and interrupt.       *)
THEOREM Invariance == Spec => []IInv
<1>1. ASSUME IInv, [Next]_vars PROVE IInv'
  <2>1. CASE Next
    BY <1>1, <2>1, TypeStep, FreshStep, TokenStep DEF IInv
  <2>2. CASE UNCHANGED vars
    BY <1>1, <2>2 DEF vars, IInv, TypeOK, Fresh, Alone, OneToken, Turn
  <2>3. QED
    BY <1>1, <2>1, <2>2
<1>2. QED
  BY <1>1, InitInv, PTL DEF Spec

(* Such a run's two processes take turns, and each finds value where the    *)
(* other left it, for as long as nobody of another run maps that memory.    *)
THEOREM HandOverCorrect == Spec => []HandsOver
<1>1. ASSUME IInv PROVE HandsOver
  <2>1. SUFFICES ASSUME NEW r \in Runs, claim[r].at = "both"
                 PROVE  LET p == Producer(r)
                            c == Consumer(r)
                            v == value[claim[r].mem]
                        IN  /\ ~(pc[p] = "work" /\ pc[c] = "work")
                            /\ pc[p] = "work" => v = done[p]
                            /\ pc[c] = "work" => v = MAX_SIZE - done[c]
    BY DEF HandsOver
  <2>2. PICK p \in Proc, c \in Proc : p = Producer(r) /\ c = Consumer(r)
    BY Sides
  <2>3. PICK m \in Runs : m = claim[r].mem
    <3>1. claim[r].mem \in 0..MaxStarts /\ claim[r].mem # 0
      BY <1>1, <2>1 DEF IInv, Alone, TypeOK
    <3>2. QED
      BY <3>1, SizeAssumption DEF Runs
  <2>4. PICK e, f, ap, ac : e = sem[m]["sem_empty"] /\ f = sem[m]["sem_full"] /\ ap = pc[p] /\ ac = pc[c]
    OBVIOUS
  <2>5. e \in Nat /\ f \in Nat
    BY <1>1, <2>4, Sides DEF IInv, TypeOK
  <2>6. Tokens("both", e, f, value[m], ap, ac, done[p], done[c])
    BY <1>1, <2>1, <2>2, <2>3, <2>4, TokensOf DEF IInv
  <2>7. /\ ~(ap = "work" /\ ac = "work")
        /\ ap = "work" => value[m] = done[p]
        /\ ac = "work" => value[m] = MAX_SIZE - done[c]
    BY <2>5, <2>6 DEF Tokens
  <2>8. QED
    BY <2>2, <2>3, <2>4, <2>7
<1>2. QED
  BY <1>1, Invariance, PTL
=============================================================================
