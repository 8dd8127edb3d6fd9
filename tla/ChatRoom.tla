------------------------------ MODULE ChatRoom ------------------------------
(***************************************************************************)
(* What the chat servers of section-07/lab/lab_4 promise, without sockets, *)
(* descriptors, slots or a loop: a room of at most MAX_CLIENTS members in  *)
(* which every event is told to a fixed audience and each member hears     *)
(* what concerns it in the order of the room's log and without gaps, until *)
(* the room closes.                                                        *)
(***************************************************************************)
EXTENDS Integers, Sequences, FiniteSets

CONSTANTS Conn, NoConn, MAX_CLIENTS

VARIABLES
  phase,    \* "open", "closing" (last call), "closed"
  members,
  log,      \* the events, each with its audience
  got       \* the log positions each connection has heard

vars == <<phase, members, log, got>>

Event(kind, c, to) == [kind |-> kind, who |-> c, to |-> to]

Init ==
  /\ phase = "open" /\ members = {}
  /\ log = <<>>
  /\ got = [c \in Conn |-> {}]

Fresh(c) == \A k \in 1..Len(log) : log[k].who # c

Due(c) == {k \in 1..Len(log) : c \in log[k].to} \ got[c]

Join(c) ==
  /\ phase = "open" /\ Fresh(c)
  /\ Cardinality(members) < MAX_CLIENTS
  /\ members' = members \cup {c}
  /\ log' = Append(log, Event("connected", c, members'))
  /\ UNCHANGED <<phase, got>>

TurnAway(c) ==
  /\ phase = "open" /\ Fresh(c)
  /\ Cardinality(members) = MAX_CLIENTS
  /\ log' = Append(log, Event("full", c, {c}))
  /\ UNCHANGED <<phase, members, got>>

Leave(c) ==
  /\ phase = "open" /\ c \in members
  /\ members' = members \ {c}
  /\ log' = Append(log, Event("disconnected", c, members'))
  /\ UNCHANGED <<phase, got>>

Speak(c) ==
  /\ phase = "open" /\ c \in members
  /\ log' = log \o << Event("you", c, {c}), Event("say", c, members \ {c}) >>
  /\ UNCHANGED <<phase, members, got>>

Rename(c) ==
  /\ phase = "open" /\ c \in members
  /\ log' \in { Append(log, Event("renamed", c, members)),
                Append(log, Event("badname", c, {c})) }
  /\ UNCHANGED <<phase, members, got>>

Hear(c) ==
  /\ phase = "open"
  /\ \E k \in Due(c) :
       /\ \A j \in Due(c) : k <= j
       /\ got' = [got EXCEPT ![c] = @ \cup {k}]
  /\ UNCHANGED <<phase, members, log>>

LastCall ==
  /\ phase = "open"
  /\ phase' = "closing"
  /\ log' = Append(log, Event("shutdown", NoConn, members))
  /\ UNCHANGED <<members, got>>

HearLastCall(c) ==
  /\ phase = "closing"
  /\ Len(log) \in Due(c)
  /\ got' = [got EXCEPT ![c] = @ \cup {Len(log)}]
  /\ UNCHANGED <<phase, members, log>>

Close ==
  /\ phase # "closed"
  /\ phase' = "closed"
  /\ UNCHANGED <<members, log, got>>

Next ==
  \/ \E c \in Conn : \/ Join(c) \/ TurnAway(c) \/ Leave(c) \/ Speak(c) \/ Rename(c)
                     \/ Hear(c) \/ HearLastCall(c)
  \/ LastCall \/ Close

Spec == Init /\ [][Next]_vars

-----------------------------------------------------------------------------
(* What follows, in terms of the log alone: who was in the room after the   *)
(* first k events, and whom an event concerns.                              *)
Kinds == {"connected", "disconnected", "renamed", "badname", "you", "say", "full", "shutdown"}

TypeOK ==
  /\ phase \in {"open", "closing", "closed"}
  /\ members \subseteq Conn
  /\ log \in Seq([kind : Kinds, who : Conn \cup {NoConn}, to : SUBSET Conn])
  /\ got \in [Conn -> SUBSET Nat]

Happened(kind, c, k) == \E i \in 1..k : log[i].kind = kind /\ log[i].who = c

MembersAt(k) == {c \in Conn : Happened("connected", c, k) /\ ~Happened("disconnected", c, k)}

Private == {"you", "badname", "full"}

Audience(k) ==
  CASE log[k].kind \in Private -> {log[k].who}
    [] log[k].kind = "say"     -> MembersAt(k) \ {log[k].who}
    [] OTHER                   -> MembersAt(k)

(* Every event is told to whoever is in the room when it happens, a message *)
(* to all but the one who speaks; and only members speak.                   *)
AudienceRight ==
  /\ members = MembersAt(Len(log))
  /\ \A k \in 1..Len(log) :
       /\ log[k].to = Audience(k)
       /\ log[k].kind \in {"you", "say", "renamed", "badname"} => log[k].who \in MembersAt(k)

(* Who hears something was meant to, and has heard all before it; only the  *)
(* last call may overtake what was still to be told.                        *)
HeardWithoutGaps ==
  \A c \in Conn : \A k \in got[c] :
    /\ k \in 1..Len(log) /\ c \in log[k].to
    /\ log[k].kind # "shutdown" => \A j \in 1..k : c \in log[j].to => j \in got[c]

LastIsCall == phase = "closing" => Len(log) > 0 /\ log[Len(log)].kind = "shutdown"

Promise == TypeOK /\ AudienceRight /\ HeardWithoutGaps /\ LastIsCall
=============================================================================
