------------------------------ MODULE CicdRuns ------------------------------
(***************************************************************************)
(* The pipeline runs of internal/cicd/service.go, their rows in cicd_runs  *)
(* (internal/store/store.go) and the run and stop requests                 *)
(* (internal/web/cicd_handlers.go).  A run is a goroutine that executes    *)
(* the stages one after the other, each a child process bound to the run's *)
(* context; Stop cancels the context, a timeout expires it.                *)
(*                                                                         *)
(* A pipeline is abstracted to the continue_on_error flags of its stages;  *)
(* a stage with an empty command or a command that cannot be started fails *)
(* like one that exits with an error.  The output is in RunOutput.         *)
(* Operators marked FAULT are seeded errors that no action uses: each      *)
(* replaces the definition that follows it.                                *)
(***************************************************************************)
EXTENDS Naturals, Sequences, FiniteSets

CONSTANTS
  Runs,        \* ids of the runs; each is requested at most once
  MaxStages,   \* bound on the stages of a pipeline
  MaxRestarts  \* bound on the restarts of the server

ASSUME CicdAssumption ==
  /\ MaxStages \in Nat
  /\ MaxRestarts \in Nat

Final == {"success", "failed", "cancelled"}

\* EnsurePipelineDefaults adds a stage to an empty list; a configuration that
\* PUT /api/config brings is taken without it.
Pipelines == UNION {[1 .. n -> BOOLEAN] : n \in 0 .. MaxStages}

VARIABLES
  rows,      \* status column of cicd_runs; "none" while there is no row
  running,   \* Manager.running: the runs that have a cancel function
  pipeline,  \* the pipeline a run was started with
  ctx,       \* the run's context: live, stopped (cancelled) or expired
  pc,        \* where the run's goroutine (first: its handler) is
  stage,     \* index of the stage it is at
  child,     \* the stage's process: none, run, ok, bad (killed or failed)
  results,   \* history: which stages ended well
  outcome,   \* the status the goroutine is going to write
  acked,     \* history: runs a stop request was accepted for
  refused,   \* history: rows that were running when a stop was refused
  writeFailed, \* history: runs whose final status could not be written
  restarts   \* number of restarts of the server so far

runVars == <<pipeline, ctx, pc, stage, child, results, outcome>>
history == <<acked, refused, writeFailed>>
vars == <<rows, running, runVars, history, restarts>>

Active(r) == pc[r] \in {"top", "start", "stage", "finish", "leave"}

\* The types; and the map holds live runs only, it does not grow for ever.
TypeOK ==
  /\ rows \in [Runs -> {"none", "running"} \cup Final]
  /\ running \subseteq {r \in Runs : Active(r)}
  /\ pipeline \in [Runs -> Seq(BOOLEAN)]
  /\ ctx \in [Runs -> {"live", "stopped", "expired"}]
  /\ pc \in [Runs -> {"none", "created", "top", "start", "stage", "finish",
                      "leave", "done", "dead"}]
  /\ stage \in [Runs -> Nat]
  /\ child \in [Runs -> {"none", "run", "ok", "bad"}]
  /\ results \in [Runs -> Seq(BOOLEAN)]
  /\ outcome \in [Runs -> Final]
  /\ acked \subseteq Runs
  /\ refused \subseteq Runs
  /\ writeFailed \subseteq Runs
  /\ restarts \in Nat

Init ==
  /\ rows = [r \in Runs |-> "none"]
  /\ running = {}
  /\ pipeline = [r \in Runs |-> <<>>]
  /\ ctx = [r \in Runs |-> "live"]
  /\ pc = [r \in Runs |-> "none"]
  /\ stage = [r \in Runs |-> 1]
  /\ child = [r \in Runs |-> "none"]
  /\ results = [r \in Runs |-> <<>>]
  /\ outcome = [r \in Runs |-> "success"]
  /\ acked = {}
  /\ refused = {}
  /\ writeFailed = {}
  /\ restarts = 0

Goto(r, label) == pc' = [pc EXCEPT ![r] = label]

-----------------------------------------------------------------------------
(* Manager.Start: the row is written first, the run is registered after.   *)

CreateRow(r) ==
  /\ pc[r] = "none"
  /\ rows' = [rows EXCEPT ![r] = "running"]
  /\ \E p \in Pipelines : pipeline' = [pipeline EXCEPT ![r] = p]
  /\ Goto(r, "created")
  /\ UNCHANGED <<running, ctx, stage, child, results, outcome, history, restarts>>

\* FAULT: the goroutine is started and the run is not registered.
RunUnregistered(r) ==
  /\ pc[r] = "created"
  /\ Goto(r, "top")
  /\ UNCHANGED <<rows, running, pipeline, ctx, stage, child, results, outcome,
                 history, restarts>>

Register(r) ==
  /\ pc[r] = "created"
  /\ running' = running \cup {r}
  /\ Goto(r, "top")
  /\ UNCHANGED <<rows, pipeline, ctx, stage, child, results, outcome, history, restarts>>

-----------------------------------------------------------------------------
(* Manager.run.                                                            *)

Leave(r, final) ==
  /\ outcome' = [outcome EXCEPT ![r] = final]
  /\ Goto(r, "finish")

\* The check of the context before every stage, and the end of the loop.
LoopTop(r) ==
  /\ pc[r] = "top"
  /\ IF stage[r] > Len(pipeline[r]) THEN Leave(r, "success")
     ELSE IF ctx[r] # "live" THEN Leave(r, "cancelled")
     ELSE Goto(r, "start") /\ UNCHANGED outcome
  /\ UNCHANGED <<rows, running, pipeline, ctx, stage, child, results, history, restarts>>

\* FAULT: the command is not bound to the context.
StartsAnyway(r) == TRUE

\* exec.Cmd.Start refuses to start when the context is over.
MayStart(r) == ctx[r] = "live"

StartStage(r) ==
  /\ pc[r] = "start"
  /\ child' = [child EXCEPT ![r] = IF MayStart(r) THEN "run" ELSE "bad"]
  /\ Goto(r, "stage")
  /\ UNCHANGED <<rows, running, pipeline, ctx, stage, results, outcome, history, restarts>>

FailureStatus(r) == IF ctx[r] # "live" THEN "cancelled" ELSE "failed"

\* FAULT: every failed stage is passed over.
AlwaysContinues(r) == TRUE

ContinuesOnError(r) == pipeline[r][stage[r]]

StageReturns(r) ==
  /\ pc[r] = "stage" /\ child[r] \in {"ok", "bad"}
  /\ results' = [results EXCEPT ![r] = Append(@, child[r] = "ok")]
  /\ child' = [child EXCEPT ![r] = "none"]
  /\ IF child[r] = "ok" \/ ContinuesOnError(r)
     THEN /\ stage' = [stage EXCEPT ![r] = @ + 1]
          /\ Goto(r, "top")
          /\ UNCHANGED outcome
     ELSE /\ Leave(r, FailureStatus(r))
          /\ UNCHANGED stage
  /\ UNCHANGED <<rows, running, pipeline, ctx, history, restarts>>

\* FAULT: the return after FinishCICDRun is missing.
GoesOn(r) == "top"

AfterFinish(r) == "leave"

\* FinishCICDRun; its error is ignored.
FinishRow(r) ==
  /\ pc[r] = "finish"
  /\ \/ /\ rows' = [rows EXCEPT ![r] = outcome[r]]
        /\ UNCHANGED writeFailed
     \/ /\ writeFailed' = writeFailed \cup {r}
        /\ UNCHANGED rows
  /\ Goto(r, AfterFinish(r))
  /\ UNCHANGED <<running, pipeline, ctx, stage, child, results, outcome, acked,
                 refused, restarts>>

\* The deferred delete.
Unregister(r) ==
  /\ pc[r] = "leave"
  /\ running' = running \ {r}
  /\ Goto(r, "done")
  /\ UNCHANGED <<rows, pipeline, ctx, stage, child, results, outcome, history, restarts>>

-----------------------------------------------------------------------------
(* The child process and the context.                                      *)

ChildExits(r) ==
  /\ child[r] = "run"
  /\ \E end \in {"ok", "bad"} : child' = [child EXCEPT ![r] = end]
  /\ UNCHANGED <<rows, running, pipeline, ctx, pc, stage, results, outcome, history, restarts>>

\* The end of the context kills the process.
ChildKilled(r) ==
  /\ child[r] = "run" /\ ctx[r] # "live"
  /\ child' = [child EXCEPT ![r] = "bad"]
  /\ UNCHANGED <<rows, running, pipeline, ctx, pc, stage, results, outcome, history, restarts>>

\* FAULT: the context has no timeout.
NeverExpires(r) == FALSE /\ UNCHANGED vars

\* TimeoutMinutes have passed.
Expire(r) ==
  /\ Active(r) /\ ctx[r] = "live"
  /\ ctx' = [ctx EXCEPT ![r] = "expired"]
  /\ UNCHANGED <<rows, running, pipeline, pc, stage, child, results, outcome, history, restarts>>

-----------------------------------------------------------------------------
(* handleCICDRunStop: Manager.Stop cancels a registered run; the answer    *)
(* for any other is "run not found or already finished".                   *)

StopAccepted(r) ==
  /\ r \in running
  /\ ctx' = [ctx EXCEPT ![r] = IF @ = "live" THEN "stopped" ELSE @]
  /\ acked' = acked \cup {r}
  /\ UNCHANGED <<rows, running, pipeline, pc, stage, child, results, outcome,
                 refused, writeFailed, restarts>>

StopRefused(r) ==
  /\ r \notin running
  /\ refused' = IF rows[r] = "running" THEN refused \cup {r} ELSE refused
  /\ UNCHANGED <<rows, running, runVars, acked, writeFailed, restarts>>

-----------------------------------------------------------------------------
(* The server ends, by Shutdown or a crash, without waiting for the runs;  *)
(* at the restart no run is registered and the rows are as they were left. *)

Restart ==
  /\ restarts < MaxRestarts
  /\ restarts' = restarts + 1
  /\ running' = {}
  /\ pc' = [r \in Runs |-> IF Active(r) \/ pc[r] = "created" THEN "dead" ELSE pc[r]]
  /\ child' = [r \in Runs |-> "none"]
  /\ UNCHANGED <<rows, pipeline, ctx, stage, results, outcome, history>>

-----------------------------------------------------------------------------

Goroutine(r) ==
  LoopTop(r) \/ StartStage(r) \/ StageReturns(r) \/ FinishRow(r) \/ Unregister(r)

Next ==
  \/ \E r \in Runs : \/ CreateRow(r) \/ Register(r) \/ Goroutine(r)
                     \/ ChildExits(r) \/ ChildKilled(r) \/ Expire(r)
                     \/ StopAccepted(r) \/ StopRefused(r)
  \/ Restart

Spec == Init /\ [][Next]_vars

(* The goroutines run, time passes and a killed process dies; a command    *)
(* may hang, and nobody has to ask for a run or for a stop.                *)
Fairness ==
  \A r \in Runs : /\ WF_vars(Register(r))
                  /\ WF_vars(Goroutine(r))
                  /\ WF_vars(ChildKilled(r))
                  /\ WF_vars(Expire(r))

FairSpec == Spec /\ Fairness

-----------------------------------------------------------------------------
(* Properties.                                                             *)

Record == INSTANCE RunRecord WITH status <- rows

\* The rows behave like run records: a final status is written once and
\* never changes, whatever stops, timeouts and restarts come in between.
RecordSpec == Record!Spec

\* The stages run so far, their pipeline and the context justify a status.
Justified(r, final) ==
  /\ final = "success" =>
       /\ Len(results[r]) = Len(pipeline[r])
       /\ \A i \in 1 .. Len(pipeline[r]) : results[r][i] \/ pipeline[r][i]
  /\ final = "failed" =>
       \E last \in 1 .. Len(pipeline[r]) :
         last = Len(results[r]) /\ ~results[r][last] /\ ~pipeline[r][last]
  /\ final = "cancelled" => ctx[r] # "live"

\* A final status tells what happened: success means that every stage was
\* run and ended well or may fail, failed that the last stage run failed and
\* may not, cancelled that a stop or the timeout came first.
StatusExplained == \A r \in Runs : rows[r] \in Final => Justified(r, rows[r])

\* A run that is shown as running is one that Stop can reach, unless its
\* handler has not registered it yet, its server is gone, or its final
\* status could not be written.
RunningIsReachable ==
  \A r \in Runs :
    rows[r] = "running" =>
      r \in running \/ pc[r] \in {"created", "dead"} \/ r \in writeFailed

\* After a stop or the timeout no stage's process is started any more.
NothingStartsAfterStop ==
  [][\A r \in Runs : ctx[r] # "live" /\ child'[r] = "run" => child[r] = "run"]_vars

\* Every run ends: its row gets a final status, or that write failed, or the
\* server is gone; a hanging command is killed at the timeout at the latest.
RunsEnd ==
  \A r \in Runs :
    rows[r] = "running" ~> rows[r] \in Final \/ r \in writeFailed \/ pc[r] = "dead"

\* A stop is refused with "run not found or already finished" only for runs
\* that have no row or a final status.
RefusalIsTrue == refused = {}

=============================================================================
