------------------------------ MODULE LedDriver ------------------------------
(***************************************************************************)
(* section-08/lab/led_device/led_device.c: a kernel module that owns five  *)
(* GPIO lines and offers four LEDs and a button as character devices.      *)
(* Loading acquires the lines, then the kernel objects; any acquisition    *)
(* may fail.  Open files keep a loaded module from being removed (.owner), *)
(* but not one whose my_init() fails: a file opened on the LED device      *)
(* between its device_create() and the failure is left without a driver.   *)
(*                                                                         *)
(* led_write() sets one LED after the other without a lock, so two writers *)
(* interleave; the GPIO tests, which only blink, leave every LED off.      *)
(***************************************************************************)
EXTENDS Integers, Sequences, FiniteSets

CONSTANTS
  NUM_LEDS,
  Users,       \* processes that may open the devices
  Patterns,    \* what other users write: sequences over "0", "1" and "x" (invalid)
  Contested    \* lines another driver may hold for a while

ASSUME DriverAssumption ==
  /\ NUM_LEDS \in Nat \ {0}
  /\ Patterns \subseteq [1..NUM_LEDS -> {"0", "1", "x"}]
  /\ Contested \subseteq 0..NUM_LEDS

VARIABLES
  mod,      \* life of the module
  at,       \* progress of the current my_init or my_exit
  held,     \* kernel objects acquired
  pins,     \* lines requested by the driver: 0 is the button
  taken,    \* lines requested by others
  led,      \* output lines
  button,   \* input line
  files,    \* devices each user has open
  call,     \* led_write in progress: the buffer and the next LED
  orphan,   \* users whose file belongs to a module that no longer exists
  group,    \* history: the buffers of the latest led_write()s, those that overlap
  base      \* history: the LEDs before these

moduleVars == <<mod, at, held, pins, taken>>
history    == <<group, base>>
driverVars == <<moduleVars, led, button, files, call, orphan, history>>

LEDs      == 1..NUM_LEDS
Pins      == 0..NUM_LEDS
InitOrder == <<"region", "led_cdev", "btn_cdev", "class", "led_dev", "btn_dev">>
ExitOrder == <<"led_dev", "btn_dev", "class", "led_cdev", "btn_cdev", "region">>
Objects   == {InitOrder[n] : n \in 1..6}
Node(d)   == IF d = "led" THEN "led_dev" ELSE "btn_dev"
NoCall    == [buf |-> <<>>, next |-> 0]
Dark      == [l \in LEDs |-> "0"]
InUseBy   == {u \in Users \ orphan : files[u] # {}}

DriverTypeOK ==
  /\ mod \in {"absent", "setup", "init", "unwind", "live", "exit", "oops"}
  /\ at \in 0..7 \cup 0..NUM_LEDS + 1
  /\ held \subseteq Objects
  /\ pins \subseteq Pins /\ taken \subseteq Contested \ pins
  /\ led \in [LEDs -> {"0", "1"}]
  /\ button \in {"0", "1"}
  /\ files \in [Users -> SUBSET {"led", "btn"}]
  /\ call \in [Users -> {NoCall} \cup [buf : [LEDs -> {"0", "1", "x"}], next : LEDs]]
  /\ orphan \subseteq Users
  /\ group \subseteq [LEDs -> {"0", "1", "x"}] /\ base \in [LEDs -> {"0", "1"}]

DriverInit ==
  /\ mod = "absent" /\ at = 0
  /\ held = {} /\ pins = {} /\ taken = {}
  /\ led = Dark /\ button \in {"0", "1"}
  /\ files = [u \in Users |-> {}]
  /\ call = [u \in Users |-> NoCall]
  /\ orphan = {}
  /\ group = {} /\ base = Dark

-----------------------------------------------------------------------------
(* insmod: gpio_setup() requests the button, then the LEDs one by one *)

Insmod ==
  /\ mod = "absent"
  /\ mod' = "setup" /\ at' = 0
  /\ UNCHANGED <<held, pins, taken, led, button, files, call, orphan, history>>

(* Mutant: a line the driver already holds may be requested again. *)
RequestPinAgain ==
  /\ mod = "setup" /\ at \in Pins \ taken
  /\ pins' = pins \cup {at} /\ at' = at + 1
  /\ led' = [l \in LEDs |-> IF l = at THEN "0" ELSE led[l]]
  /\ UNCHANGED <<mod, held, taken, button, files, call, orphan, history>>

RequestPin ==
  /\ mod = "setup" /\ at \in Pins \ (pins \cup taken)
  /\ pins' = pins \cup {at} /\ at' = at + 1
  /\ led' = [l \in LEDs |-> IF l = at THEN "0" ELSE led[l]]
  /\ UNCHANGED <<mod, held, taken, button, files, call, orphan, history>>

(* gpio_request() fails; the lines requested so far stay requested *)
SetupFails ==
  /\ mod = "setup" /\ at \in pins \cup taken
  /\ mod' = "absent"
  /\ UNCHANGED <<at, held, pins, taken, led, button, files, call, orphan, history>>

SetupDone ==
  /\ mod = "setup" /\ at = NUM_LEDS + 1
  /\ mod' = "init" /\ at' = 1
  /\ led' = Dark
  /\ UNCHANGED <<held, pins, taken, button, files, call, orphan, history>>

(* my_init() after gpio_setup(), and its goto chain *)

Acquire ==
  /\ mod = "init" /\ at <= 6
  /\ held' = held \cup {InitOrder[at]} /\ at' = at + 1
  /\ UNCHANGED <<mod, pins, taken, led, button, files, call, orphan, history>>

Loaded ==
  /\ mod = "init" /\ at = 7
  /\ mod' = "live"
  /\ UNCHANGED <<at, held, pins, taken, led, button, files, call, orphan, history>>

(* Mutant: the goto lands one label too late. *)
AcquireSkips ==
  /\ mod = "init" /\ at <= 6
  /\ mod' = "unwind" /\ at' = IF at > 2 THEN at - 2 ELSE 0
  /\ UNCHANGED <<held, pins, taken, led, button, files, call, orphan, history>>

AcquireFails ==
  /\ mod = "init" /\ at <= 6
  /\ mod' = "unwind" /\ at' = at - 1
  /\ UNCHANGED <<held, pins, taken, led, button, files, call, orphan, history>>

Unwind ==
  /\ mod = "unwind" /\ at > 0
  /\ held' = held \ {InitOrder[at]} /\ at' = at - 1
  /\ UNCHANGED <<mod, pins, taken, led, button, files, call, orphan, history>>

(* gpio_cleanup(), after which the module's code is gone *)
Cleanup ==
  /\ \/ mod = "unwind" /\ at = 0
     \/ mod = "exit" /\ at = 7
  /\ mod' = "absent" /\ at' = 0
  /\ pins' = {} /\ led' = Dark
  /\ orphan' = orphan \cup {u \in Users : files[u] # {}}
  /\ group' = {} /\ base' = Dark
  /\ UNCHANGED <<held, taken, button, files, call>>

(* rmmod: refused while a file of this module is open; my_exit() *)

(* Mutant: .owner is not set. *)
RmmodUnowned ==
  /\ mod = "live"
  /\ mod' = "exit" /\ at' = 1
  /\ UNCHANGED <<held, pins, taken, led, button, files, call, orphan, history>>

Rmmod ==
  /\ mod = "live" /\ InUseBy = {}
  /\ mod' = "exit" /\ at' = 1
  /\ UNCHANGED <<held, pins, taken, led, button, files, call, orphan, history>>

ExitStep ==
  /\ mod = "exit" /\ at <= 6
  /\ held' = held \ {ExitOrder[at]} /\ at' = at + 1
  /\ UNCHANGED <<mod, pins, taken, led, button, files, call, orphan, history>>

-----------------------------------------------------------------------------
(* File operations *)

CanOpen(d) == Node(d) \in held /\ mod \in {"init", "unwind", "live"}

Open(u, d) ==
  /\ CanOpen(d) /\ u \notin orphan
  /\ files' = [files EXCEPT ![u] = @ \cup {d}]
  /\ IF InUseBy = {} THEN group' = {} /\ base' = led ELSE UNCHANGED history
  /\ UNCHANGED <<moduleVars, led, button, call, orphan>>

Close(u) ==
  /\ u \notin orphan /\ files[u] # {} /\ call[u] = NoCall
  /\ files' = [files EXCEPT ![u] = {}]
  /\ IF InUseBy = {u} THEN group' = {} /\ base' = Dark ELSE UNCHANGED history
  /\ UNCHANGED <<moduleVars, led, button, call, orphan>>

StartWrite(u, buf) ==
  /\ u \notin orphan /\ "led" \in files[u] /\ call[u] = NoCall
  /\ call' = [call EXCEPT ![u] = [buf |-> buf, next |-> 1]]
  /\ IF \A v \in Users \ orphan : call[v] = NoCall
       THEN group' = {buf} /\ base' = led
       ELSE group' = group \cup {buf} /\ UNCHANGED base
  /\ UNCHANGED <<moduleVars, led, button, files, orphan>>

(* Mutant: a "0" is skipped. *)
WriteLedOn(u) ==
  LET l == call[u].next IN
  /\ u \notin orphan /\ call[u] # NoCall
  /\ led' = [led EXCEPT ![l] = IF call[u].buf[l] = "1" THEN "1" ELSE @]
  /\ call' = [call EXCEPT ![u] = IF l = NUM_LEDS THEN NoCall ELSE [@ EXCEPT !.next = l + 1]]
  /\ UNCHANGED <<moduleVars, button, files, orphan, history>>

(* One turn of led_write()'s loop; an invalid character ends it at once,    *)
(* and the LEDs before it stay set.                                         *)
WriteLed(u) ==
  LET l == call[u].next IN
  /\ u \notin orphan /\ call[u] # NoCall
  /\ IF call[u].buf[l] = "x"
     THEN call' = [call EXCEPT ![u] = NoCall] /\ UNCHANGED led
     ELSE /\ led' = [led EXCEPT ![l] = call[u].buf[l]]
          /\ call' = [call EXCEPT ![u] = IF l = NUM_LEDS THEN NoCall ELSE [@ EXCEPT !.next = l + 1]]
  /\ UNCHANGED <<moduleVars, button, files, orphan, history>>

(* Any further use of an orphaned file runs freed code.                     *)
UseOrphan ==
  /\ orphan # {} /\ mod # "oops"
  /\ mod' = "oops"
  /\ UNCHANGED <<at, held, pins, taken, led, button, files, call, orphan, history>>

-----------------------------------------------------------------------------
(* Other drivers and the person at the button *)

OthersTake ==
  /\ mod # "oops"
  /\ \/ \E p \in Contested \ (pins \cup taken) : taken' = taken \cup {p}
     \/ \E p \in taken : taken' = taken \ {p}
  /\ UNCHANGED <<mod, at, held, pins, led, button, files, call, orphan, history>>

PushButton ==
  /\ mod # "oops"
  /\ button' = IF button = "0" THEN "1" ELSE "0"
  /\ UNCHANGED <<moduleVars, led, files, call, orphan, history>>

Module ==
  \/ Insmod \/ RequestPin \/ SetupFails \/ SetupDone
  \/ Acquire \/ Loaded \/ AcquireFails \/ Unwind \/ Cleanup
  \/ Rmmod \/ ExitStep

-----------------------------------------------------------------------------
(* What is held follows from how far the module has come: after a load that *)
(* failed or a removal nothing is left - except the lines a failed          *)
(* gpio_setup() had requested, always the button and the LEDs before the    *)
(* one that was busy.                                                       *)
Upto(n) == {p \in Pins : p < n}

HeldExact ==
  /\ mod = "absent" => held = {} /\ \E n \in LEDs \cup {0} : pins = Upto(n)
  /\ mod = "setup"  => held = {} /\ (pins = Upto(at) \/ (at = 0 /\ \E n \in LEDs : pins = Upto(n)))
  /\ mod = "init"   => held = {InitOrder[n] : n \in 1..at - 1} /\ pins = Pins
  /\ mod = "unwind" => held = {InitOrder[n] : n \in 1..at} /\ pins = Pins
  /\ mod = "live"   => held = Objects /\ pins = Pins
  /\ mod = "exit"   => held = Objects \ {ExitOrder[n] : n \in 1..at - 1} /\ pins = Pins

(* Whatever is open, and has not lost its driver, is open on a module that  *)
(* is there: not on one that is absent, is still requesting lines or is     *)
(* being removed.  Who writes has the LEDs open.                            *)
FilesBacked ==
  \A u \in Users \ orphan :
    /\ files[u] # {} => mod \in {"init", "unwind", "live", "oops"}
    /\ call[u] # NoCall => "led" \in files[u]

(* How far the module has come bounds the steps left.                       *)
AtInRange ==
  /\ mod = "setup"  => at \in 0..NUM_LEDS + 1
  /\ mod = "init"   => at \in 1..7
  /\ mod = "unwind" => at \in 0..6
  /\ mod = "exit"   => at \in 1..7

DriverInv == DriverTypeOK /\ AtInRange /\ HeldExact /\ FilesBacked

(* While the device is in use, neither loading nor removal of the module,   *)
(* nor the test pattern they show, touches the LEDs: each shows what one of *)
(* the latest, overlapping writes has for it, or still what it showed       *)
(* before them, if none of them has come to it.  A write with an invalid    *)
(* character comes to the LEDs before it and leaves the others alone.       *)
Covering(l) == {buf \in group : \A k \in 1..l : buf[k] # "x"}

LightStands ==
  InUseBy # {} =>
    \A l \in LEDs :
      \/ \E buf \in Covering(l) : led[l] = buf[l]
      \/ /\ led[l] = base[l]
         /\ \A buf \in Covering(l) : \E u \in Users \ orphan : call[u].buf = buf /\ call[u].next <= l

(* A file loses its driver only when my_init() fails: never by rmmod.       *)
OrphansFromFailedLoad ==
  [][orphan' # orphan => mod = "unwind"]_driverVars

(* The price of gpio_setup()'s early return: once it has left lines         *)
(* requested, no later insmod succeeds, although the line that was busy may *)
(* be free again.                                                           *)
LeakIsForever ==
  [](mod = "absent" /\ pins # {} => [](mod # "live"))
=============================================================================
