--------------------------- MODULE MCAppRegistry ---------------------------
(* Small instances of AppRegistry.                                         *)
EXTENDS AppRegistry, TLC

Symmetry == Permutations(Keys)
=============================================================================
