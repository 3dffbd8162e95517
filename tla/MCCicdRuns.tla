----------------------------- MODULE MCCicdRuns -----------------------------
(* Small instances of CicdRuns.                                            *)
EXTENDS CicdRuns, TLC

Symmetry == Permutations(Runs)
=============================================================================
