----------------------------- MODULE MCServices -----------------------------
(* Small instances of the parts of Services: one application has log       *)
(* files, and two of the names are the same for an archive.                *)
EXTENDS Services

MCAppOf == [s \in Sources \ {Default} |-> "app"]
MCSanitize == [n \in Names |-> IF n = "Daily" THEN "daily" ELSE n]
=============================================================================
