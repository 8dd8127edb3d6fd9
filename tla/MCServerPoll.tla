---------------------------- MODULE MCServerPoll ----------------------------
(* Small instances of ServerPoll for TLC. *)
EXTENDS ServerPoll, TLC

CONSTANTS c1, c2, c3

LongAgo == {-1}               \* garbage that lets the first message through
Bob     == {"bob"}
NoNames == {}
Zeroed  == {-1}               \* unused entries that poll() skips
Stack   == {-1, 99}           \* ... or that name a descriptor nobody opened
TwoFds  == 4..5
ThreeFds == 4..6

Symmetry == Permutations(Conn)
=============================================================================
