---------------------------- MODULE MCLiveStream ----------------------------
(***************************************************************************)
(* Instances of LiveStream for TLC.                                        *)
(***************************************************************************)
EXTENDS LiveStream, TLC

CONSTANTS alice, bob, phone, laptop

BothOfAlice == (phone :> alice) @@ (laptop :> alice)
=============================================================================
