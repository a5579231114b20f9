---------------------------- MODULE MCNodeReset ----------------------------
(* Small instances of NodeReset: configs, CAs and tokens are interchangeable, *)
(* and so are the peers that do not call ApplyConfig.                         *)
EXTENDS NodeReset, TLC

Symmetry ==
    Permutations(Clients \ Appliers) \cup Permutations(Valid)
        \cup Permutations(Bootstraps) \cup Permutations(Tokens)
=============================================================================
