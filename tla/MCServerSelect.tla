--------------------------- MODULE MCServerSelect ---------------------------
(* Small instances of ServerSelect for TLC. *)
EXTENDS ServerSelect, TLC

CONSTANTS c1, c2, c3

LongAgo == {-1}               \* garbage that lets the first message through
AnyTime == {-1, MaxNow + 1}   \* ... or silences the client
Bob     == {"bob"}
NoNames == {}
TwoFds  == 4..5
ThreeFds == 4..6

Symmetry == Permutations(Conn)
=============================================================================
