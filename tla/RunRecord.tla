----------------------------- MODULE RunRecord -----------------------------
(***************************************************************************)
(* What the tables cicd_runs, script_runs and backups promise of a job     *)
(* started in the background: its row appears as running, and gets one     *)
(* final status at most once.  A row may stay running for ever: the        *)
(* process can die, or the write of the final status can fail.             *)
(***************************************************************************)
CONSTANTS
  Runs,     \* the jobs (row ids)
  Final     \* the final statuses

VARIABLE status

Init == status = [r \in Runs |-> "none"]

Create(r) ==
  /\ status[r] = "none"
  /\ status' = [status EXCEPT ![r] = "running"]

Finish(r, final) ==
  /\ status[r] = "running"
  /\ status' = [status EXCEPT ![r] = final]

Next == \E r \in Runs : Create(r) \/ \E final \in Final : Finish(r, final)

Spec == Init /\ [][Next]_status

=============================================================================
