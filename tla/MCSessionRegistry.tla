--------------------------- MODULE MCSessionRegistry ---------------------------
(* Small instances of the session registry.                                      *)
EXTENDS SessionRegistry, TLC
CONSTANTS h1, h2, c1
HookSymmetry == Permutations(Hook)
=============================================================================
