------------------------------ MODULE MCBlends ------------------------------
(* A creator and two friends, with a device each. *)
EXTENDS Blends
CONSTANTS a, b, c
MCFriends == {b, c}
=============================================================================
