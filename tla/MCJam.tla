------------------------------- MODULE MCJam -------------------------------
(***************************************************************************)
(* An instance of Jam for TLC: a host and a guest, each with one device.   *)
(***************************************************************************)
EXTENDS Jam, TLC

CONSTANTS host, guest, h1, g1

OneClientEach == (h1 :> host) @@ (g1 :> guest)
=============================================================================
