----------------------------- MODULE LedProofs -----------------------------
(***************************************************************************)
(* Theorems of LedControl: the driver's bookkeeping (IInv), one step of    *)
(* the light per press, the one way in which a file loses its driver, the  *)
(* leak that is for ever, and what the LEDs show while the device is in    *)
(* use.                                                                    *)
(*                                                                         *)
(* The bookkeeping is inductive once it is said what is held while the     *)
(* module is being removed, how far each phase may have come (AtInRange)   *)
(* and that open files pin the module (FilesBacked): the last is why       *)
(* rmmod, unlike a load that fails, orphans nobody.                        *)
(***************************************************************************)
EXTENDS LedControl, TLAPS

(* Every object is acquired once and released once. *)
LEMMA Orders ==
  /\ \A n \in 1..6 : InitOrder[n] \in Objects /\ ExitOrder[n] \in Objects
  /\ \A n, k \in 1..6 : n # k => InitOrder[n] # InitOrder[k]
  /\ Objects = {ExitOrder[n] : n \in 1..6}
<1>1. /\ InitOrder[1] = "region" /\ InitOrder[2] = "led_cdev" /\ InitOrder[3] = "btn_cdev"
      /\ InitOrder[4] = "class" /\ InitOrder[5] = "led_dev" /\ InitOrder[6] = "btn_dev"
  BY DEF InitOrder
<1>2. /\ ExitOrder[1] = "led_dev" /\ ExitOrder[2] = "btn_dev" /\ ExitOrder[3] = "class"
      /\ ExitOrder[4] = "led_cdev" /\ ExitOrder[5] = "btn_cdev" /\ ExitOrder[6] = "region"
  BY DEF ExitOrder
<1>3. \A n \in 1..6 : n = 1 \/ n = 2 \/ n = 3 \/ n = 4 \/ n = 5 \/ n = 6
  OBVIOUS
<1>4. Objects = {"region", "led_cdev", "btn_cdev", "class", "led_dev", "btn_dev"}
  BY <1>1, <1>3 DEF Objects
<1>5. Objects = {ExitOrder[n] : n \in 1..6}
  BY <1>2, <1>3, <1>4
<1>6. \A n, k \in 1..6 : n # k => InitOrder[n] # InitOrder[k]
  BY <1>1, <1>3
<1>7. QED
  BY <1>4, <1>5, <1>6 DEF Objects

LEMMA InitInv == Init => IInv
<1> SUFFICES ASSUME Init PROVE IInv
  OBVIOUS
<1>1. DriverTypeOK
  BY DriverAssumption DEF Init, DriverInit, DriverTypeOK, Dark, LEDs, Pins
<1>2. TypeOK
  <2>1. pc = "off" /\ i = 1 /\ seen = "?" /\ fresh = FALSE
    BY DEF Init
  <2>2. fresh \in BOOLEAN
    BY <2>1, Zenon
  <2>3. QED
    BY <1>1, <2>1, <2>2 DEF TypeOK
<1>3. HeldExact
  <2>1. Upto(0) = {}
    BY DriverAssumption DEF Upto, Pins
  <2>2. QED
    BY <2>1 DEF Init, DriverInit, HeldExact
<1>4. AtInRange /\ FilesBacked
  BY DEF Init, DriverInit, AtInRange, FilesBacked
<1>5. PressIsFresh
  BY DEF Init, PressIsFresh
<1>6. QED
  BY <1>1, <1>2, <1>3, <1>4, <1>5 DEF IInv, DriverInv

-----------------------------------------------------------------------------
(* Loading, unwinding and removal *)
LEMMA ModuleStep ==
  ASSUME DriverInv, Module
  PROVE  DriverInv'
<1> USE DriverAssumption DEF DriverInv, DriverTypeOK, AtInRange, history
<1> DEFINE Held(n) == {InitOrder[k] : k \in 1..n}
           Gone(n) == {ExitOrder[k] : k \in 1..n}
<1>1. CASE Insmod
  <2>1. /\ DriverTypeOK' /\ AtInRange' /\ FilesBacked'
    BY <1>1 DEF Insmod, FilesBacked
  <2>2. held = {} /\ \E n \in LEDs \cup {0} : pins = Upto(n)
    BY <1>1 DEF Insmod, HeldExact
  <2>3. HeldExact'
    BY <1>1, <2>2 DEF Insmod, HeldExact, Upto, Pins, LEDs
  <2>4. QED
    BY <2>1, <2>3
<1>2. CASE RequestPin
  <2>1. at \in Pins /\ at \in 0..NUM_LEDS /\ mod = "setup" /\ mod' = "setup"
    BY <1>2 DEF RequestPin, Pins
  <2>2. DriverTypeOK'
    BY <1>2, <2>1 DEF RequestPin, Pins, LEDs
  <2>3. AtInRange' /\ FilesBacked'
    BY <1>2, <2>1 DEF RequestPin, FilesBacked
  <2>4. pins = Upto(at)
    BY <1>2, <2>1 DEF RequestPin, HeldExact, Upto, Pins, LEDs
  <2>5. pins' = Upto(at + 1)
    BY <1>2, <2>1, <2>4 DEF RequestPin, Upto, Pins
  <2>6. HeldExact'
    BY <1>2, <2>1, <2>5 DEF RequestPin, HeldExact, Upto
  <2>7. QED
    BY <2>2, <2>3, <2>6
<1>3. CASE SetupFails
  <2>1. DriverTypeOK' /\ AtInRange' /\ FilesBacked'
    BY <1>3 DEF SetupFails, FilesBacked
  <2>2. at \in 0..NUM_LEDS /\ held = {}
    BY <1>3 DEF SetupFails, HeldExact, Pins
  <2>3. \E n \in LEDs \cup {0} : pins = Upto(n)
    <3>1. pins = Upto(at) \/ \E n \in LEDs : pins = Upto(n)
      BY <1>3 DEF SetupFails, HeldExact
    <3>2. at \in LEDs \cup {0}
      BY <2>2 DEF LEDs
    <3>3. QED
      BY <3>1, <3>2
  <2>4. HeldExact'
    BY <1>3, <2>2, <2>3 DEF SetupFails, HeldExact, Upto
  <2>5. QED
    BY <2>1, <2>4
<1>4. CASE SetupDone
  <2>1. DriverTypeOK' /\ AtInRange' /\ FilesBacked'
    BY <1>4 DEF SetupDone, FilesBacked, Dark
  <2>2. held = {} /\ pins = Pins
    <3>1. held = {} /\ pins = Upto(NUM_LEDS + 1)
      BY <1>4 DEF SetupDone, HeldExact
    <3>2. \A p \in Pins : p < NUM_LEDS + 1
      BY DEF Pins
    <3>3. QED
      BY <3>1, <3>2 DEF Upto
  <2>3. mod' = "init" /\ held' = Held(at' - 1) /\ pins' = Pins
    BY <1>4, <2>2 DEF SetupDone
  <2>4. QED
    BY <2>1, <2>3 DEF HeldExact
<1>5. CASE Acquire
  <2>1. at \in 1..6 /\ mod = "init" /\ mod' = "init" /\ at' = at + 1 /\ pins' = pins
        /\ held' = held \cup {InitOrder[at]}
    BY <1>5 DEF Acquire
  <2>2. DriverTypeOK' /\ AtInRange' /\ FilesBacked'
    BY <1>5, <2>1, Orders DEF Acquire, FilesBacked
  <2>3. held = Held(at - 1) /\ pins = Pins
    BY <2>1 DEF HeldExact
  <2>4. held' = Held(at' - 1)
    BY <2>1, <2>3
  <2>5. QED
    BY <2>1, <2>2, <2>3, <2>4 DEF HeldExact
<1>6. CASE Loaded
  <2>1. DriverTypeOK' /\ AtInRange' /\ FilesBacked'
    BY <1>6 DEF Loaded, FilesBacked
  <2>2. held = Objects /\ pins = Pins
    BY <1>6 DEF Loaded, HeldExact, Objects
  <2>3. QED
    BY <1>6, <2>1, <2>2 DEF Loaded, HeldExact
<1>7. CASE AcquireFails
  <2>1. DriverTypeOK' /\ AtInRange' /\ FilesBacked'
    BY <1>7 DEF AcquireFails, FilesBacked
  <2>2. held = Held(at - 1) /\ pins = Pins
    BY <1>7 DEF AcquireFails, HeldExact
  <2>3. QED
    BY <1>7, <2>1, <2>2 DEF AcquireFails, HeldExact
<1>8. CASE Unwind
  <2>1. at \in 1..6 /\ mod = "unwind" /\ mod' = "unwind" /\ at' = at - 1 /\ pins' = pins
        /\ held' = held \ {InitOrder[at]}
    BY <1>8 DEF Unwind
  <2>2. DriverTypeOK' /\ AtInRange' /\ FilesBacked'
    BY <1>8, <2>1 DEF Unwind, FilesBacked
  <2>3. held = Held(at) /\ pins = Pins
    BY <2>1 DEF HeldExact
  <2>4. held' = Held(at')
    BY <2>1, <2>3, Orders
  <2>5. QED
    BY <2>1, <2>2, <2>3, <2>4 DEF HeldExact
<1>9. CASE Cleanup
  <2>1. held = {}
    <3>1. CASE mod = "unwind" /\ at = 0
      BY <3>1 DEF HeldExact
    <3>2. CASE mod = "exit" /\ at = 7
      BY <3>2, Orders DEF HeldExact
    <3>3. QED
      BY <1>9, <3>1, <3>2 DEF Cleanup
  <2>2. DriverTypeOK' /\ AtInRange'
    BY <1>9 DEF Cleanup, Dark
  <2>3. FilesBacked'
    BY <1>9 DEF Cleanup, FilesBacked
  <2>4. Upto(0) = {}
    BY DEF Upto, Pins
  <2>5. HeldExact'
    BY <1>9, <2>1, <2>4 DEF Cleanup, HeldExact, Upto
  <2>6. QED
    BY <2>2, <2>3, <2>5
<1>10. CASE Rmmod
  <2>1. DriverTypeOK' /\ AtInRange'
    BY <1>10 DEF Rmmod
  <2>2. FilesBacked'
    BY <1>10 DEF Rmmod, InUseBy, FilesBacked
  <2>3. held = Objects /\ pins = Pins
    BY <1>10 DEF Rmmod, HeldExact
  <2>4. HeldExact'
    BY <1>10, <2>3 DEF Rmmod, HeldExact
  <2>5. QED
    BY <2>1, <2>2, <2>4
<1>11. CASE ExitStep
  <2>1. at \in 1..6 /\ mod = "exit" /\ mod' = "exit" /\ at' = at + 1 /\ pins' = pins
        /\ held' = held \ {ExitOrder[at]}
    BY <1>11 DEF ExitStep
  <2>2. DriverTypeOK' /\ AtInRange' /\ FilesBacked'
    BY <1>11, <2>1 DEF ExitStep, FilesBacked
  <2>3. held = Objects \ Gone(at - 1) /\ pins = Pins
    BY <2>1 DEF HeldExact
  <2>4. held' = Objects \ Gone(at' - 1)
    BY <2>1, <2>3
  <2>5. QED
    BY <2>1, <2>2, <2>3, <2>4 DEF HeldExact
<1>12. QED
  BY <1>1, <1>2, <1>3, <1>4, <1>5, <1>6, <1>7, <1>8, <1>9, <1>10, <1>11 DEF Module

(* The file operations leave the module alone. *)
LEMMA FileStep ==
  ASSUME DriverInv, NEW u \in Users,
         \/ Open(u, "led") \/ Open(u, "btn") \/ Close(u) \/ WriteLed(u)
         \/ \E buf \in [LEDs -> {"0", "1", "x"}] : StartWrite(u, buf)
  PROVE  DriverInv'
<1> USE DriverAssumption DEF DriverInv, history
<1>1. UNCHANGED moduleVars /\ UNCHANGED <<button, orphan>>
  BY DEF Open, Close, WriteLed, StartWrite
<1>2. HeldExact' /\ AtInRange'
  BY <1>1 DEF HeldExact, AtInRange, moduleVars, Upto
<1>3. DriverTypeOK'
  <2>1. ASSUME NEW d \in {"led", "btn"}, Open(u, d) PROVE DriverTypeOK'
    BY <1>1, <2>1 DEF Open, DriverTypeOK, moduleVars
  <2>2. CASE Close(u)
    <3>1. Dark \in [LEDs -> {"0", "1"}]
      BY DEF Dark
    <3>2. group' \subseteq [LEDs -> {"0", "1", "x"}] /\ base' \in [LEDs -> {"0", "1"}]
      BY <2>2, <3>1 DEF Close, DriverTypeOK
    <3>3. QED
      BY <1>1, <2>2, <3>2 DEF Close, DriverTypeOK, moduleVars
  <2>3. ASSUME NEW buf \in [LEDs -> {"0", "1", "x"}], StartWrite(u, buf) PROVE DriverTypeOK'
    <3>1. 1 \in LEDs
      BY DEF LEDs
    <3>2. [buf |-> buf, next |-> 1] \in [buf : [LEDs -> {"0", "1", "x"}], next : LEDs]
      BY <3>1
    <3>3. call' \in [Users -> {NoCall} \cup [buf : [LEDs -> {"0", "1", "x"}], next : LEDs]]
      BY <2>3, <3>2 DEF StartWrite, DriverTypeOK
    <3>4. QED
      BY <1>1, <2>3, <3>3 DEF StartWrite, DriverTypeOK, moduleVars
  <2>4. CASE WriteLed(u)
    <3> DEFINE l == call[u].next
    <3>1. call[u] \in [buf : [LEDs -> {"0", "1", "x"}], next : LEDs]
      BY <2>4 DEF WriteLed, DriverTypeOK
    <3>2. l \in LEDs /\ call[u].buf[l] \in {"0", "1", "x"}
      BY <3>1
    <3>3. l # NUM_LEDS => l + 1 \in LEDs
      BY <3>2 DEF LEDs
    <3>4. [call[u] EXCEPT !.next = l] \in [buf : [LEDs -> {"0", "1", "x"}], next : LEDs]
      BY <3>1
    <3>5. l # NUM_LEDS => [call[u] EXCEPT !.next = l + 1] \in [buf : [LEDs -> {"0", "1", "x"}], next : LEDs]
      BY <3>1, <3>3
    <3>6. /\ call' \in [Users -> {NoCall} \cup [buf : [LEDs -> {"0", "1", "x"}], next : LEDs]]
          /\ led' \in [LEDs -> {"0", "1"}]
      BY <2>4, <3>2, <3>5 DEF WriteLed, DriverTypeOK
    <3>7. QED
      BY <1>1, <2>4, <3>6 DEF WriteLed, DriverTypeOK, moduleVars
  <2>5. QED
    BY <2>1, <2>2, <2>3, <2>4
<1>4. FilesBacked'
  <2>1. CASE WriteLed(u) \/ \E buf \in [LEDs -> {"0", "1", "x"}] : StartWrite(u, buf)
    <3>1. files' = files /\ \A v \in Users : call'[v] # NoCall => call[v] # NoCall \/ (v = u /\ "led" \in files[u])
      BY <2>1 DEF WriteLed, StartWrite, DriverTypeOK
    <3>2. QED
      BY <1>1, <3>1 DEF FilesBacked, moduleVars
  <2>2. CASE Close(u)
    BY <1>1, <2>2 DEF Close, FilesBacked, DriverTypeOK, moduleVars
  <2>3. ASSUME NEW d \in {"led", "btn"}, Open(u, d) PROVE FilesBacked'
    BY <1>1, <2>3 DEF Open, CanOpen, FilesBacked, moduleVars
  <2>4. QED
    BY <2>1, <2>2, <2>3
<1>5. QED
  BY <1>2, <1>3, <1>4

(* So does what goes on outside. *)
LEMMA OutsideStep ==
  ASSUME DriverInv, OthersTake \/ UseOrphan \/ PushButton \/ UNCHANGED driverVars
  PROVE  DriverInv'
<1> USE DriverAssumption DEF DriverInv, history
<1>1. /\ mod' = mod \/ mod' = "oops"
      /\ taken' \subseteq Contested \ pins
      /\ button' \in {"0", "1"}
      /\ UNCHANGED <<at, held, pins, led, files, call, orphan, group, base>>
  BY DEF OthersTake, UseOrphan, PushButton, driverVars, moduleVars, history, DriverTypeOK
<1>2. DriverTypeOK'
  BY <1>1 DEF DriverTypeOK
<1>3. HeldExact' /\ AtInRange' /\ FilesBacked'
  BY <1>1 DEF HeldExact, AtInRange, FilesBacked, Upto
<1>4. QED
  BY <1>2, <1>3

(* The button alone makes a press new, and only a new press leaves "release". *)
LEMMA PressStep ==
  ASSUME TypeOK, PressIsFresh, Next \/ UNCHANGED vars
  PROVE  PressIsFresh'
<1> USE DEF PressIsFresh
<1>0. fresh \in BOOLEAN
  BY DEF TypeOK
<1>1. CASE UNCHANGED <<pc, seen, button, fresh>>
  BY <1>1
<1>2. CASE Start
  BY <1>2, Zenon DEF Start, driverVars
<1>3. CASE Quit
  BY <1>3, Zenon DEF Quit
<1>4. CASE OpenLed \/ OpenBtn
  <2>1. UNCHANGED <<button, fresh>> /\ pc \in {"start", "open"} /\ pc' \in {"open", "poll"}
    BY <1>4 DEF OpenLed, OpenBtn, Open
  <2>2. QED
    BY <2>1
<1>5. CASE ReadButton
  BY <1>5 DEF ReadButton, BtnRead, driverVars
<1>6. CASE Wake
  <2>1. CASE pc' = "write"
    BY <2>1
  <2>2. CASE pc' # "write"
    BY <1>6, <2>2 DEF Wake, driverVars
  <2>3. QED
    BY <2>1, <2>2
<1>7. CASE Written
  BY <1>7 DEF Written
<1>8. CASE AwaitRelease
  BY <1>8 DEF AwaitRelease, BtnRead, driverVars
<1>9. CASE Others
  BY <1>1, <1>9 DEF Others, Open, Close, StartWrite, WriteLed, controlVars
<1>10. CASE Push
  <2>1. fresh' = (fresh \/ button' = Pressed) /\ UNCHANGED <<pc, seen>>
    BY <1>10 DEF Push
  <2>2. (button' = Pressed => fresh') /\ (fresh => fresh')
    BY <1>0, <2>1, Zenon
  <2>3. QED
    BY <2>1, <2>2
<1>11. CASE (Module \/ OthersTake \/ UseOrphan) /\ UNCHANGED controlVars
  BY <1>1, <1>11 DEF controlVars, OthersTake, UseOrphan, Module, Insmod, RequestPin, SetupFails, SetupDone,
                     Acquire, Loaded, AcquireFails, Unwind, Cleanup, Rmmod, ExitStep
<1>12. CASE UNCHANGED vars
  BY <1>1, <1>12 DEF vars, driverVars, moduleVars, history, controlVars
<1>13. QED
  BY <1>2, <1>3, <1>4, <1>5, <1>6, <1>7, <1>8, <1>9, <1>10, <1>11, <1>12 DEF Next, Control

-----------------------------------------------------------------------------
(* Types, and what the driver holds and has open, are as IInv says in every *)
(* reachable state, whichever loads fail and whoever uses the devices.      *)
LEMMA InvStep ==
  ASSUME IInv, Next \/ UNCHANGED vars
  PROVE  IInv'
<1> USE DEF IInv
<1>0. /\ TypeOK /\ DriverInv /\ Ctl \in Users /\ NUM_LEDS = 4
      /\ \A n \in 1..6 : Light(n) \in [LEDs -> {"0", "1"}] /\ Light(n) \in [LEDs -> {"0", "1", "x"}]
  BY ControlAssumption DEF Light
<1>1. DriverInv'
  <2>1. CASE UNCHANGED driverVars
    BY <1>0, <2>1, OutsideStep
  <2>2. CASE Quit
    BY <1>0, <2>1, <2>2, FileStep DEF Quit
  <2>3. CASE OpenLed \/ OpenBtn
    BY <1>0, <2>3, FileStep DEF OpenLed, OpenBtn
  <2>4. CASE Wake
    <3>1. UNCHANGED driverVars \/ StartWrite(Ctl, Light(i))
      BY <2>4 DEF Wake
    <3>2. i \in 1..6
      BY <1>0 DEF TypeOK
    <3>3. QED
      BY <1>0, <2>1, <3>1, <3>2, FileStep
  <2>5. CASE Written
    BY <1>0, <2>5, FileStep DEF Written
  <2>6. CASE Others
    <3>1. PICK u \in Users : \/ Open(u, "led") \/ Close(u) \/ WriteLed(u)
                             \/ \E buf \in Patterns : StartWrite(u, buf)
      BY <2>6 DEF Others
    <3>2. Patterns \subseteq [LEDs -> {"0", "1", "x"}]
      BY DriverAssumption DEF LEDs
    <3>3. QED
      BY <1>0, <3>1, <3>2, FileStep
  <2>7. CASE Push
    BY <1>0, <2>7, OutsideStep DEF Push
  <2>8. CASE Module
    BY <1>0, <2>8, ModuleStep
  <2>9. CASE OthersTake \/ UseOrphan
    BY <1>0, <2>9, OutsideStep
  <2>10. QED
    BY <2>1, <2>2, <2>3, <2>4, <2>5, <2>6, <2>7, <2>8, <2>9
       DEF Next, Control, Start, ReadButton, AwaitRelease, vars
<1>2. TypeOK'
  <2>1. DriverTypeOK'
    BY <1>1 DEF DriverInv
  <2>2. fresh \in BOOLEAN /\ button \in {"0", "1"}
    BY <1>0 DEF TypeOK, DriverTypeOK
  <2>3. i \in 1..6 /\ (i % 6) + 1 \in 1..6
    BY <1>0 DEF TypeOK
  <2>4. fresh' \in BOOLEAN
    BY <2>2, Zenon DEF Next, Start, Quit, Control, OpenLed, OpenBtn, ReadButton, Wake, Written,
                       AwaitRelease, Others, Push, vars, controlVars
  <2>5. /\ pc' \in {"off", "start", "open", "poll", "sleep", "write", "release"}
        /\ i' \in 1..6 /\ seen' \in {"0", "1", "?"}
    BY <1>0, <2>2, <2>3 DEF TypeOK, Next, Start, Quit, Control, OpenLed, OpenBtn, ReadButton, BtnRead, Wake,
                       Written, AwaitRelease, Others, Push, vars, controlVars
  <2>6. QED
    BY <2>1, <2>4, <2>5 DEF TypeOK
<1>3. PressIsFresh'
  BY <1>0, PressStep
<1>4. QED
  BY <1>1, <1>2, <1>3

THEOREM Invariance == Spec => []IInv
<1>1. IInv /\ [Next \/ (mod = "oops" /\ UNCHANGED vars)]_vars => IInv'
  BY InvStep
<1>2. QED
  BY <1>1, InitInv, PTL DEF Spec

(* The light moves once for each press, however long the button is held and *)
(* whenever it is pressed: also during a sleep or while the LEDs are set.   *)
THEOREM OnePressCorrect == Spec => OnePressOneStep
<1>1. ASSUME IInv, [Next \/ (mod = "oops" /\ UNCHANGED vars)]_vars
      PROVE  [pc = "sleep" /\ pc' = "write" => fresh]_vars
  <2> SUFFICES ASSUME Next, pc = "sleep", pc' = "write" PROVE fresh
    BY <1>1
  <2>1. Wake
    BY DEF Next, Start, Quit, Control, OpenLed, OpenBtn, ReadButton, Written, AwaitRelease, Others, Push, controlVars
  <2>2. seen = Pressed
    BY <2>1 DEF Wake
  <2>3. QED
    BY <1>1, <2>2 DEF IInv, PressIsFresh
<1>2. QED
  BY <1>1, Invariance, PTL DEF Spec, OnePressOneStep

(* A file loses its driver only when my_init() fails, never by rmmod.       *)
THEOREM OrphansCorrect == Spec => OrphansFromFailedLoad
<1>1. ASSUME IInv, [Next \/ (mod = "oops" /\ UNCHANGED vars)]_vars
      PROVE  [orphan' # orphan => mod = "unwind"]_driverVars
  <2>1. orphan' = orphan \/ Cleanup
    BY <1>1 DEF Next, Start, Quit, Control, OpenLed, OpenBtn, ReadButton, Wake, Written, AwaitRelease,
                Others, Push, Open, Close, StartWrite, WriteLed, PushButton, OthersTake, UseOrphan, Module,
                Insmod, RequestPin, SetupFails, SetupDone, Acquire, Loaded, AcquireFails, Unwind, Rmmod,
                ExitStep, vars, driverVars, moduleVars, history
  <2>2. Cleanup /\ mod # "unwind" => orphan' = orphan
    BY <1>1 DEF IInv, DriverInv, DriverTypeOK, FilesBacked, Cleanup
  <2>3. QED
    BY <2>1, <2>2
<1>2. QED
  BY <1>1, Invariance, PTL DEF Spec, OrphansFromFailedLoad

-----------------------------------------------------------------------------
(* Lines are left requested: the module is absent, or starts to load and    *)
(* finds the button requested.                                              *)
Leaked ==
  /\ mod \in {"absent", "setup"} => 0 \in pins
  /\ mod = "setup" => at = 0
  /\ mod \in {"absent", "setup", "oops"}

(* No module is loaded any more once gpio_setup() has left lines requested. *)
THEOREM LeakCorrect == Spec => LeakIsForever
<1> USE DriverAssumption
<1>1. ASSUME IInv, mod = "absent", pins # {} PROVE Leaked
  <2>1. PICK n \in LEDs \cup {0} : pins = Upto(n)
    BY <1>1 DEF IInv, DriverInv, HeldExact
  <2>2. n \in Nat /\ n # 0
    BY <1>1, <2>1 DEF LEDs, Upto, Pins
  <2>3. QED
    BY <1>1, <2>1, <2>2 DEF Leaked, Upto, Pins
<1>2. ASSUME Leaked, [Next \/ (mod = "oops" /\ UNCHANGED vars)]_vars
      PROVE  Leaked'
  <2>1. CASE UNCHANGED <<mod, at, pins>>
    BY <1>2, <2>1 DEF Leaked
  <2>2. CASE Module
    BY <1>2, <2>2 DEF Leaked, Module, Insmod, RequestPin, SetupFails, SetupDone, Acquire, Loaded, AcquireFails,
                      Unwind, Cleanup, Rmmod, ExitStep
  <2>3. CASE UseOrphan
    BY <2>3 DEF UseOrphan, Leaked
  <2>4. QED
    BY <1>2, <2>1, <2>2, <2>3
       DEF Next, Start, Quit, Control, OpenLed, OpenBtn, ReadButton, Wake, Written, AwaitRelease, Others, Push,
           Open, Close, StartWrite, WriteLed, PushButton, OthersTake, vars, driverVars, moduleVars, history
<1>3. Leaked => mod # "live"
  BY DEF Leaked
<1>4. QED
  BY <1>1, <1>2, <1>3, Invariance, PTL DEF Spec, LeakIsForever

-----------------------------------------------------------------------------
(* Why the light stands: a write in progress is one of the group, and has   *)
(* come to no invalid character yet.                                        *)
InGroup ==
  \A u \in Users \ orphan : call[u] # NoCall =>
    call[u].buf \in group /\ \A k \in LEDs : k < call[u].next => call[u].buf[k] # "x"

Steady == InGroup /\ LightStands

(* Nothing is said when nobody has the device open. *)
LEMMA Unused ==
  ASSUME DriverInv', InUseBy' = {}
  PROVE  Steady'
BY DEF Steady, InGroup, LightStands, InUseBy, DriverInv, FilesBacked

LEMMA SameLight ==
  ASSUME Steady, UNCHANGED <<led, call, group, base, orphan>>, InUseBy' # {} => InUseBy # {}
  PROVE  Steady'
BY DEF Steady, InGroup, LightStands, Covering

LEMMA StartWriteSteady ==
  ASSUME DriverInv, Steady, NEW u \in Users, NEW buf \in [LEDs -> {"0", "1", "x"}], StartWrite(u, buf)
  PROVE  Steady'
<1> USE DriverAssumption
<1>0. /\ u \notin orphan /\ call[u] = NoCall /\ InUseBy # {}
      /\ UNCHANGED <<led, files, orphan>>
      /\ call'[u] = [buf |-> buf, next |-> 1] /\ \A v \in Users \ {u} : call'[v] = call[v]
      /\ \A l \in LEDs : l \in Nat /\ 1 <= l
  BY DEF StartWrite, DriverInv, DriverTypeOK, InUseBy, LEDs
<1>1. call'[u].buf = buf /\ call'[u].next = 1
  BY <1>0
<1>2. CASE \A v \in Users \ orphan : call[v] = NoCall
  <2>1. group' = {buf} /\ base' = led
    BY <1>2 DEF StartWrite
  <2>2. InGroup'
    BY <1>0, <1>1, <1>2, <2>1 DEF InGroup
  <2>3. LightStands'
    BY <1>0, <1>1, <2>1 DEF LightStands, Covering
  <2>4. QED
    BY <2>2, <2>3 DEF Steady
<1>3. CASE ~ \A v \in Users \ orphan : call[v] = NoCall
  <2>1. group' = group \cup {buf} /\ base' = base
    BY <1>3 DEF StartWrite
  <2>2. InGroup'
    BY <1>0, <1>1, <2>1 DEF InGroup, Steady
  <2>3. ASSUME NEW l \in LEDs, \E b \in Covering(l) : led[l] = b[l]
        PROVE  \E b \in Covering(l)' : led'[l] = b[l]
    BY <1>0, <2>1, <2>3 DEF Covering
  <2>4. ASSUME NEW l \in LEDs, led[l] = base[l], NEW b \in Covering(l)',
               \A c \in Covering(l) : \E v \in Users \ orphan : call[v].buf = c /\ call[v].next <= l
        PROVE  \E v \in Users \ orphan : call'[v].buf = b /\ call'[v].next <= l
    <3>1. CASE b = buf
      BY <1>0, <1>1, <3>1
    <3>2. CASE b # buf
      <4>1. b \in Covering(l) /\ b \in [LEDs -> {"0", "1", "x"}]
        BY <2>1, <2>4, <3>2 DEF Covering, DriverInv, DriverTypeOK
      <4>2. PICK v \in Users \ orphan : call[v].buf = b /\ call[v].next <= l
        BY <2>4, <4>1
      <4>3. 1 \in DOMAIN b
        BY <4>1 DEF LEDs
      <4>4. b # <<>>
        BY <4>3
      <4>5. v # u
        BY <1>0, <4>2, <4>4 DEF NoCall
      <4>6. QED
        BY <1>0, <4>2, <4>5
    <3>3. QED
      BY <3>1, <3>2
  <2>5. LightStands'
    <3> SUFFICES ASSUME NEW l \in LEDs
                 PROVE  \/ \E b \in Covering(l)' : led'[l] = b[l]
                        \/ /\ led'[l] = base'[l]
                           /\ \A b \in Covering(l)' : \E v \in Users \ orphan : call'[v].buf = b /\ call'[v].next <= l
      BY <1>0 DEF LightStands
    <3>1. \/ \E b \in Covering(l) : led[l] = b[l]
          \/ /\ led[l] = base[l]
             /\ \A b \in Covering(l) : \E v \in Users \ orphan : call[v].buf = b /\ call[v].next <= l
      BY <1>0 DEF Steady, LightStands
    <3>2. QED
      BY <1>0, <2>1, <2>3, <2>4, <3>1
  <2>6. QED
    BY <2>2, <2>5 DEF Steady
<1>4. QED
  BY <1>2, <1>3

LEMMA WriteLedSteady ==
  ASSUME DriverInv, Steady, NEW u \in Users, WriteLed(u)
  PROVE  Steady'
<1> USE DriverAssumption
<1>0. /\ u \in Users \ orphan /\ call[u] # NoCall
      /\ UNCHANGED <<files, orphan, group, base>>
  BY DEF WriteLed, history
<1>1. PICK b, k : b = call[u].buf /\ k = call[u].next
  OBVIOUS
<1>2. /\ call[u] \in [buf : [LEDs -> {"0", "1", "x"}], next : LEDs]
      /\ led \in [LEDs -> {"0", "1"}] /\ call \in [Users -> {NoCall} \cup [buf : [LEDs -> {"0", "1", "x"}], next : LEDs]]
  BY <1>0 DEF DriverInv, DriverTypeOK
<1>3. /\ k \in LEDs /\ b \in group /\ InUseBy # {}
      /\ \A n \in LEDs : n < k => b[n] # "x"
  BY <1>0, <1>1, <1>2 DEF Steady, InGroup, InUseBy, DriverInv, FilesBacked
<1>4. \A v \in Users : v # u => call'[v] = call[v]
  BY <1>2 DEF WriteLed
<1>5. \A l \in LEDs : Covering(l)' = Covering(l)
  BY <1>0 DEF Covering
<1>6. \A l \in LEDs : l \in Nat /\ 1 <= l /\ l <= NUM_LEDS
  BY DEF LEDs
<1>7. CASE b[k] = "x"
  <2>1. call'[u] = NoCall /\ led' = led
    BY <1>0, <1>1, <1>2, <1>7 DEF WriteLed
  <2>2. InGroup'
    BY <1>0, <1>4, <2>1 DEF Steady, InGroup
  <2>3. ASSUME NEW l \in LEDs, NEW c \in Covering(l), NEW v \in Users \ orphan, call[v].buf = c, call[v].next <= l
        PROVE  v # u
    <3>1. SUFFICES ASSUME v = u PROVE FALSE
      OBVIOUS
    <3>2. c = b /\ k <= l
      BY <1>1, <2>3, <3>1
    <3>3. k \in 1..l
      BY <1>3, <1>6, <3>2
    <3>4. QED
      BY <1>7, <3>2, <3>3 DEF Covering
  <2>4. LightStands'
    BY <1>0, <1>3, <1>4, <1>5, <2>1, <2>3 DEF Steady, LightStands
  <2>5. QED
    BY <2>2, <2>4 DEF Steady
<1>8. CASE b[k] # "x"
  <2>1. /\ led' = [led EXCEPT ![k] = b[k]]
        /\ call'[u] = IF k = NUM_LEDS THEN NoCall ELSE [call[u] EXCEPT !.next = k + 1]
    BY <1>0, <1>1, <1>2, <1>8 DEF WriteLed
  <2>2. k # NUM_LEDS => call'[u].buf = b /\ call'[u].next = k + 1
    BY <1>1, <1>2, <2>1
  <2>3. \A n \in LEDs : n < k + 1 => b[n] # "x"
    BY <1>3, <1>6, <1>8
  <2>4. InGroup'
    <3> SUFFICES ASSUME NEW v \in Users \ orphan, call'[v] # NoCall
                 PROVE  call'[v].buf \in group /\ \A n \in LEDs : n < call'[v].next => call'[v].buf[n] # "x"
      BY <1>0 DEF InGroup
    <3>1. CASE v # u
      BY <1>4, <3>1 DEF Steady, InGroup
    <3>2. CASE v = u
      <4>1. call'[v].buf = b /\ call'[v].next = k + 1
        BY <2>1, <2>2, <3>2
      <4>2. QED
        BY <1>3, <2>3, <4>1
    <3>3. QED
      BY <3>1, <3>2
  <2>5. b \in Covering(k)
    BY <1>3, <1>6, <2>3 DEF Covering, LEDs
  <2>6. ASSUME NEW l \in LEDs, l # k
        PROVE  led'[l] = led[l] /\ \A c \in Covering(l) :
                 (\E v \in Users \ orphan : call[v].buf = c /\ call[v].next <= l)
                   => \E v \in Users \ orphan : call'[v].buf = c /\ call'[v].next <= l
    <3>1. led'[l] = led[l]
      BY <1>2, <2>1, <2>6
    <3>2. ASSUME NEW c \in Covering(l), NEW v \in Users \ orphan, call[v].buf = c, call[v].next <= l
          PROVE  call'[v].buf = c /\ call'[v].next <= l
      <4>1. CASE v # u
        BY <1>4, <3>2, <4>1
      <4>2. CASE v = u
        <5>1. c = b /\ k <= l /\ k < l /\ k # NUM_LEDS
          BY <1>1, <1>3, <1>6, <2>6, <3>2, <4>2
        <5>2. k + 1 <= l
          BY <1>3, <1>6, <5>1
        <5>3. QED
          BY <2>2, <4>2, <5>1, <5>2
      <4>3. QED
        BY <4>1, <4>2
    <3>3. QED
      BY <3>1, <3>2
  <2>7. led'[k] = b[k]
    BY <1>2, <1>3, <2>1
  <2>8. ASSUME NEW l \in LEDs
        PROVE  \/ \E c \in Covering(l)' : led'[l] = c[l]
               \/ /\ led'[l] = base'[l]
                  /\ \A c \in Covering(l)' : \E v \in Users \ orphan : call'[v].buf = c /\ call'[v].next <= l
    <3>1. CASE l = k
      BY <1>5, <2>5, <2>7, <3>1
    <3>2. CASE l # k
      <4>1. \/ \E c \in Covering(l) : led[l] = c[l]
            \/ /\ led[l] = base[l]
               /\ \A c \in Covering(l) : \E v \in Users \ orphan : call[v].buf = c /\ call[v].next <= l
        BY <1>3 DEF Steady, LightStands
      <4>2. QED
        BY <1>0, <1>5, <2>6, <3>2, <4>1
    <3>3. QED
      BY <3>1, <3>2
  <2>9. LightStands'
    BY <1>0, <2>8 DEF LightStands
  <2>10. QED
    BY <2>4, <2>9 DEF Steady
<1>9. QED
  BY <1>7, <1>8

LEMMA SteadyStep ==
  ASSUME IInv, IInv', Steady, Next \/ UNCHANGED vars
  PROVE  Steady'
<1>0. DriverInv /\ DriverInv'
  BY DEF IInv
<1>1. ASSUME NEW u \in Users, NEW d, Open(u, d) PROVE Steady'
  <2>1. CASE InUseBy = {}
    <3>1. group' = {} /\ base' = led /\ led' = led /\ call' = call /\ orphan' = orphan
      BY <1>1, <2>1 DEF Open
    <3>2. \A v \in Users \ orphan : call[v] = NoCall
      BY <1>0, <2>1 DEF InUseBy, DriverInv, FilesBacked
    <3>3. QED
      BY <3>1, <3>2 DEF Steady, InGroup, LightStands, Covering
  <2>2. CASE InUseBy # {}
    BY <1>1, <2>2, SameLight DEF Open, history
  <2>3. QED
    BY <2>1, <2>2
<1>2. ASSUME NEW u \in Users, Close(u) PROVE Steady'
  <2>1. InUseBy' = InUseBy \ {u} /\ u \in InUseBy
    BY <1>0, <1>2 DEF Close, InUseBy, DriverInv, DriverTypeOK
  <2>2. CASE InUseBy = {u}
    BY <1>0, <2>1, <2>2, Unused
  <2>3. CASE InUseBy # {u}
    BY <1>2, <2>1, <2>3, SameLight DEF Close, history
  <2>4. QED
    BY <2>2, <2>3
<1>3. CASE Module
  <2>1. CASE Cleanup
    <3>1. InUseBy' = {}
      BY <1>0, <2>1 DEF Cleanup, InUseBy
    <3>2. QED
      BY <1>0, <3>1, Unused
  <2>2. CASE ~Cleanup
    <3>1. UNCHANGED <<call, group, base, orphan, files>> /\ InUseBy' = InUseBy
      BY <1>3, <2>2 DEF Module, Insmod, RequestPin, SetupFails, SetupDone, Acquire, Loaded, AcquireFails,
                        Unwind, Rmmod, ExitStep, InUseBy, history
    <3>2. UNCHANGED led \/ mod = "setup"
      BY <1>3, <2>2 DEF Module, Insmod, RequestPin, SetupFails, SetupDone, Acquire, Loaded, AcquireFails,
                        Unwind, Rmmod, ExitStep
    <3>3. mod = "setup" => InUseBy = {}
      BY <1>0 DEF DriverInv, FilesBacked, InUseBy
    <3>4. QED
      BY <1>0, <3>1, <3>2, <3>3, SameLight, Unused
  <2>3. QED
    BY <2>1, <2>2
<1>4. CASE UNCHANGED <<led, call, group, base, orphan, files>>
  BY <1>4, SameLight DEF InUseBy
<1>5. CASE OthersTake \/ UseOrphan \/ Push \/ UNCHANGED vars
  BY <1>4, <1>5 DEF OthersTake, UseOrphan, Push, PushButton, vars, driverVars, history
<1>6. CASE Start \/ ReadButton \/ AwaitRelease
  BY <1>4, <1>6 DEF Start, ReadButton, AwaitRelease, driverVars, history
<1>7. CASE Quit
  BY <1>2, <1>4, <1>7, ControlAssumption DEF Quit, driverVars, history
<1>8. CASE OpenLed \/ OpenBtn
  BY <1>1, <1>8, ControlAssumption DEF OpenLed, OpenBtn
<1>9. CASE Wake
  <2>1. CASE seen # Pressed
    BY <1>4, <1>9, <2>1 DEF Wake, driverVars, history
  <2>2. CASE seen = Pressed
    <3>1. Light(i) \in [LEDs -> {"0", "1", "x"}] /\ StartWrite(Ctl, Light(i))
      BY <1>9, <2>2 DEF Wake, Light
    <3>2. QED
      BY <1>0, <3>1, StartWriteSteady, ControlAssumption
  <2>3. QED
    BY <2>1, <2>2
<1>10. CASE Written
  BY <1>0, <1>10, WriteLedSteady, ControlAssumption DEF Written
<1>11. CASE Others
  <2>1. PICK u \in Users : \/ Open(u, "led") \/ Close(u) \/ WriteLed(u)
                           \/ \E buf \in Patterns : StartWrite(u, buf)
    BY <1>11 DEF Others
  <2>2. Patterns \subseteq [LEDs -> {"0", "1", "x"}]
    BY DriverAssumption DEF LEDs
  <2>3. QED
    BY <1>0, <1>1, <1>2, <2>1, <2>2, WriteLedSteady, StartWriteSteady
<1>12. QED
  BY <1>3, <1>5, <1>6, <1>7, <1>8, <1>9, <1>10, <1>11 DEF Next, Control

(* While the device is in use each LED shows what one of the latest writes  *)
(* that overlap has for it, or what it showed before them if none of them   *)
(* has come to it - whoever writes, valid or not.                           *)
THEOREM LightCorrect == Spec => []LightStands
<1>1. Init => Steady
  BY DEF Init, DriverInit, Steady, InGroup, LightStands, InUseBy
<1>2. IInv /\ IInv' /\ Steady /\ [Next \/ (mod = "oops" /\ UNCHANGED vars)]_vars => Steady'
  BY SteadyStep
<1>3. Steady => LightStands
  BY DEF Steady
<1>4. QED
  BY <1>1, <1>2, <1>3, Invariance, PTL DEF Spec
=============================================================================
