--------------------------- MODULE MCTrendBuffer ---------------------------
(* Small instances of TrendBuffer: every constant is given by the cfg.     *)
EXTENDS TrendBuffer
=============================================================================
