---------------------------- MODULE MCLedControl ----------------------------
(* A small instance of LedControl for TLC. *)
EXTENDS LedControl

CONSTANTS ctl, other

HalfInvalid == {<<"1", "1", "x", "0">>}
=============================================================================
