----------------------------- MODULE MCLibrary -----------------------------
(***************************************************************************)
(* An instance of Library for TLC: an account with one device, which is    *)
(* or is not an admin and may or may not archive, and whose quota is two   *)
(* chunks; a file of one chunk and one of two, whose tags put them in the  *)
(* same place.                                                             *)
(***************************************************************************)
EXTENDS Library, TLC

CONSTANTS user, phone, single, remix, place

OneDevice == phone :> user

Sizes == (single :> 1) @@ (remix :> 2)

SamePlace == (single :> place) @@ (remix :> place)

EveryFile == Devices \X Hashes
=============================================================================
