---------------------------- MODULE MCOnboarding ----------------------------
(* Two tabs of one browser, behind one proxy. *)
EXTENDS Onboarding, TLC

Symmetry == Permutations(Tab) \cup Permutations(Passphrase)
=============================================================================
