----------------------------- MODULE MCAccounts -----------------------------
(* Two names, two clients and two tokens: enough for a name to be taken    *)
(* again, for two handlers to cross and for one token to outlive another.  *)
EXTENDS Accounts, TLC

CONSTANTS ada, bob, c1, c2, t1, t2, t3, k1

MCNames == {ada, bob}
MCClients == {c1, c2}
MCTokens == {t1, t2, t3}
MCCodes == {k1}
MCSymmetry == Permutations(MCNames) \cup Permutations(MCClients)
                \cup Permutations(MCTokens)
=============================================================================
