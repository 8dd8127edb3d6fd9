----------------------------- MODULE LedControl -----------------------------
(***************************************************************************)
(* section-08/lab/led_device/led_control.c on top of the driver: a process *)
(* that moves the light one step on each press of the button.  It may be   *)
(* killed and started again; other users of the devices may be at work.    *)
(***************************************************************************)
EXTENDS LedDriver

CONSTANTS Ctl    \* the user that runs led_control

ASSUME ControlAssumption == Ctl \in Users /\ NUM_LEDS = 4

VARIABLES
  pc,
  i,        \* next instruction
  seen,     \* btn_state[0]; "?" before the first read
  fresh     \* history: the button went down since the last instruction was sent

controlVars == <<pc, i, seen, fresh>>
vars == <<driverVars, controlVars>>

Pressed == "0"

(* Positions of the one LED that is lit: "1000", "0100", ... *)
instructions == <<1, 2, 3, 4, 3, 2>>
Light(n) == [l \in LEDs |-> IF l = instructions[n] THEN "1" ELSE "0"]

TypeOK ==
  /\ DriverTypeOK
  /\ pc \in {"off", "start", "open", "poll", "sleep", "write", "release"}
  /\ i \in 1..6
  /\ seen \in {"0", "1", "?"}
  /\ fresh \in BOOLEAN

Init ==
  /\ DriverInit
  /\ pc = "off" /\ i = 1 /\ seen = "?" /\ fresh = FALSE

Start ==
  /\ pc = "off" /\ Ctl \notin orphan /\ mod # "oops"
  /\ pc' = "start" /\ i' = 1 /\ seen' = "?" /\ fresh' = (button = Pressed)
  /\ UNCHANGED driverVars

(* The process ends: by a failed open(), or killed while in no system call *)
Quit ==
  /\ pc \in {"start", "open", "poll", "sleep", "release"}
  /\ pc' = "off"
  /\ IF files[Ctl] = {} THEN UNCHANGED driverVars ELSE Close(Ctl)
  /\ UNCHANGED <<i, seen, fresh>>

OpenLed ==
  /\ pc = "start" /\ Open(Ctl, "led")
  /\ pc' = "open"
  /\ UNCHANGED <<i, seen, fresh>>

OpenBtn ==
  /\ pc = "open" /\ Open(Ctl, "btn")
  /\ pc' = "poll"
  /\ UNCHANGED <<i, seen, fresh>>

(* Mutant: btn_read() does not reset the offset, later reads return nothing. *)
BtnReadOnce(old) == IF old = "?" THEN button ELSE old

(* btn_read(): the line as it is, whatever was read before *)
BtnRead(old) == button

ReadButton ==
  /\ pc = "poll" /\ Ctl \notin orphan
  /\ seen' = BtnRead(seen)
  /\ pc' = "sleep"
  /\ UNCHANGED <<driverVars, i, fresh>>

(* After usleep() the program acts on what it read before *)
Wake ==
  /\ pc = "sleep" /\ Ctl \notin orphan
  /\ \/ seen # Pressed /\ pc' = "poll" /\ UNCHANGED <<driverVars, fresh>>
     \/ /\ seen = Pressed
        /\ StartWrite(Ctl, Light(i))
        /\ fresh' = FALSE
        /\ pc' = "write"
  /\ UNCHANGED <<i, seen>>

(* Mutant: the do loop is missing. *)
WrittenNoWait ==
  /\ pc = "write" /\ WriteLed(Ctl)
  /\ IF call'[Ctl] = NoCall
     THEN pc' = "poll" /\ i' = (i % 6) + 1
     ELSE UNCHANGED <<pc, i>>
  /\ UNCHANGED <<seen, fresh>>

(* A step of led_write(); when it returns, i moves on and the program waits *)
Written ==
  /\ pc = "write" /\ WriteLed(Ctl)
  /\ IF call'[Ctl] = NoCall
     THEN pc' = "release" /\ i' = (i % 6) + 1
     ELSE UNCHANGED <<pc, i>>
  /\ UNCHANGED <<seen, fresh>>

AwaitRelease ==
  /\ pc = "release" /\ Ctl \notin orphan
  /\ seen' = BtnRead(seen)
  /\ pc' = IF seen' = Pressed THEN "release" ELSE "poll"
  /\ UNCHANGED <<driverVars, i, fresh>>

Control == OpenLed \/ OpenBtn \/ ReadButton \/ Wake \/ Written \/ AwaitRelease

(* The other users of the devices *)
Others ==
  /\ \E u \in Users \ {Ctl} :
       Open(u, "led") \/ Close(u) \/ WriteLed(u) \/ \E buf \in Patterns : StartWrite(u, buf)
  /\ UNCHANGED controlVars

Push ==
  /\ PushButton
  /\ fresh' = (fresh \/ button' = Pressed)
  /\ UNCHANGED <<pc, i, seen>>

Next ==
  /\ mod # "oops"
  /\ \/ Start \/ Quit \/ Control \/ Others \/ Push
     \/ (Module \/ OthersTake \/ UseOrphan) /\ UNCHANGED controlVars

(* The kernel is in an undefined state after "oops": nothing is said of it. *)
Spec == Init /\ [][Next \/ (mod = "oops" /\ UNCHANGED vars)]_vars

(* The scheduler runs led_control. *)
FairSpec == Spec /\ WF_vars(mod # "oops" /\ Control)

-----------------------------------------------------------------------------
(* A press that the program sees, or is about to see, is a new one.         *)
PressIsFresh ==
  /\ pc \in {"start", "open", "poll", "sleep"} /\ button = Pressed => fresh
  /\ pc = "sleep" /\ seen = Pressed => fresh

(* Types, what the driver holds and has open, and whether a press is new.   *)
IInv == TypeOK /\ DriverInv /\ PressIsFresh

(* An instruction is sent only if the button went down since the previous   *)
(* one: a press held over several polls, or over the 100 ms sleep, moves    *)
(* the light once.                                                          *)
OnePressOneStep ==
  [][pc = "sleep" /\ pc' = "write" => fresh]_vars

(* A button that stays down is noticed.                                     *)
PressNoticed ==
  (pc = "poll" /\ button = Pressed)
    ~> (button # Pressed \/ pc \in {"write", "off"} \/ Ctl \in orphan \/ mod = "oops")
=============================================================================
