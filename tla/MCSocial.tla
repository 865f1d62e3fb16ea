------------------------------ MODULE MCSocial ------------------------------
(* Accounts with one session each, and one that is signed in twice. *)
EXTENDS Social, TLC

CONSTANTS a, b, a1, b1, b2

MCAccount == a1 :> a @@ b1 :> b @@ b2 :> b
=============================================================================
