----------------------------- MODULE MCSettings -----------------------------
(* Values of the constants of Settings for model checking: a key that a flag *)
(* is bound to and that is always written, and one that is left out when it  *)
(* is empty and filled in when it is read.                                   *)
EXTENDS Settings, TLC
CONSTANTS p1, p2
MCKeys == {"password", "log-level"}
MCPages == {p1, p2}
MCSymmetry == Permutations(MCPages)
=============================================================================
