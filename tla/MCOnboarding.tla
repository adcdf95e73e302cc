----------------------------- MODULE MCOnboarding -----------------------------
(* Two of each request that races with its like: first logins,             *)
(* registrations, of one email or two, and approvals of one purchase, with *)
(* a third that finds what the two have made.                              *)
EXTENDS Onboarding, TLC
CONSTANTS l1, l2, r1, r2, a1, a2, a3
MCLogins        == {l1, l2}
MCRegistrations == {r1, r2}
MCApprovals     == {a1, a2, a3}
Alike == Permutations(MCLogins) \union Permutations(MCRegistrations)
           \union Permutations(MCApprovals)
=============================================================================
