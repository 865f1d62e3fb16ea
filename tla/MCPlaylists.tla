---------------------------- MODULE MCPlaylists ----------------------------
(* The owner and one guest, each with one device. *)
EXTENDS Playlists
CONSTANTS o, g, o1, g1
MCGuests == {g}
MCClients == {o1, g1}
MCAccountOf == [c \in MCClients |-> IF c = g1 THEN g ELSE o]
=============================================================================
