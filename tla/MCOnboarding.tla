---------------------------- MODULE MCOnboarding ----------------------------
(* Small instances of Onboarding: every constant is a set of model values,   *)
(* and peers, configs, CAs and tokens are interchangeable.                   *)
EXTENDS Onboarding, TLC

Symmetry ==
    Permutations(Clients) \cup Permutations(Valid)
        \cup Permutations(Bootstraps) \cup Permutations(Tokens)
=============================================================================
