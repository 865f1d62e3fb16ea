----------------------------- MODULE MCSharing -----------------------------
(* Two devices of one account, which race each other, and one of another. *)
EXTENDS Sharing, TLC
CONSTANTS a, b, a1, a2, b1, i1, i2, i3
MCClients == {a1, a2, b1}
MCAccountOf == [c \in MCClients |-> IF c = b1 THEN b ELSE a]
MCIds == {i1, i2, i3}
Budget(l, d, r, k) == [links |-> l, drops |-> d, rest |-> r, crashes |-> k]
MCBudgets == {Budget(3, 0, 0, 0), Budget(2, 0, 1, 0), Budget(0, 3, 1, 1),
              Budget(1, 1, 2, 0)}
MCSymmetry == Permutations(MCIds) \cup Permutations({a1, a2})
=============================================================================
