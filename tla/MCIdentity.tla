----------------------------- MODULE MCIdentity -----------------------------
(* Two names and two handlers, two identities, and enough secrets and      *)
(* recovery codes for an enrolment to be begun again and another to cross. *)
EXTENDS Identity, TLC

CONSTANTS ada, bob, c1, c2, s1, s2

MCNames == {ada, bob}
MCClients == {c1, c2}
MCSubjects == {s1, s2}
MCSymmetry ==
  Permutations(MCNames) \cup Permutations(MCClients)
    \cup Permutations(MCSubjects)
=============================================================================
