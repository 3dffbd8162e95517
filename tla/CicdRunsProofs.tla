--------------------------- MODULE CicdRunsProofs ---------------------------
(***************************************************************************)
(* Safety of CicdRuns for every set of runs, pipelines of any length and   *)
(* any number of restarts, and that it implements RunRecord.               *)
(***************************************************************************)
EXTENDS CicdRuns, TLAPS

USE CicdAssumption DEF Final, Goto, Active

\* The initial state is well typed.
LEMMA InitTyped == Init => TypeOK
BY DEF Init, TypeOK

\* A pipeline is a sequence of flags.
LEMMA PipelineIsSequence ==
  ASSUME NEW p \in Pipelines
  PROVE  p \in Seq(BOOLEAN)
<1>1. PICK n \in 0 .. MaxStages : p \in [1 .. n -> BOOLEAN]
  BY DEF Pipelines
<1>2. n \in Nat
  OBVIOUS
<1> QED
  BY <1>1, <1>2

\* The variables keep their types, and the map of running runs has no run
\* whose goroutine has ended.
THEOREM TypeCorrect == Spec => []TypeOK
<1>1. TypeOK /\ [Next]_vars => TypeOK'
  <2> SUFFICES ASSUME TypeOK, [Next]_vars PROVE TypeOK'
    OBVIOUS
  <2>1. ASSUME NEW r \in Runs, CreateRow(r) PROVE TypeOK'
    <3>1. PICK p \in Pipelines : pipeline' = [pipeline EXCEPT ![r] = p]
      BY <2>1 DEF CreateRow
    <3>2. pipeline' \in [Runs -> Seq(BOOLEAN)]
      BY <3>1, PipelineIsSequence DEF TypeOK
    <3> QED
      BY <2>1, <3>2 DEF CreateRow, TypeOK, history
  <2>2. ASSUME NEW r \in Runs, Register(r) PROVE TypeOK'
    BY <2>2 DEF Register, TypeOK, history
  <2>3. ASSUME NEW r \in Runs, LoopTop(r) PROVE TypeOK'
    <3>1. PICK to \in {"finish", "start"} : pc' = [pc EXCEPT ![r] = to]
      BY <2>3 DEF LoopTop, Leave
    <3>2. \/ outcome' = outcome
          \/ outcome' = [outcome EXCEPT ![r] = "success"]
          \/ outcome' = [outcome EXCEPT ![r] = "cancelled"]
      BY <2>3 DEF LoopTop, Leave
    <3>3. outcome' \in [Runs -> Final]
      BY <3>2 DEF TypeOK
    <3>4. /\ pc' \in [Runs -> {"none", "created", "top", "start", "stage", "finish",
                               "leave", "done", "dead"}]
          /\ \A q \in Runs : Active(q) => Active(q)'
      BY <3>1 DEF TypeOK
    <3>5. UNCHANGED <<rows, running, pipeline, ctx, stage, child, results,
                      acked, refused, writeFailed, restarts>>
      BY <2>3 DEF LoopTop, history
    <3> QED
      BY <3>3, <3>4, <3>5 DEF TypeOK
  <2>4. ASSUME NEW r \in Runs, StartStage(r) PROVE TypeOK'
    BY <2>4 DEF StartStage, TypeOK, history
  <2>5. ASSUME NEW r \in Runs, StageReturns(r) PROVE TypeOK'
    <3>1. results' \in [Runs -> Seq(BOOLEAN)]
      BY <2>5 DEF StageReturns, TypeOK
    <3>2. /\ stage' \in [Runs -> Nat]
          /\ child' \in [Runs -> {"none", "run", "ok", "bad"}]
      BY <2>5 DEF StageReturns, TypeOK
    <3>4. outcome' \in [Runs -> Final]
      <4>1. FailureStatus(r) \in Final
        BY DEF FailureStatus
      <4>2. outcome' = outcome \/ outcome' = [outcome EXCEPT ![r] = FailureStatus(r)]
        BY <2>5 DEF StageReturns, Leave
      <4> QED
        BY <4>1, <4>2 DEF TypeOK
    <3>3. /\ pc' \in [Runs -> {"none", "created", "top", "start", "stage", "finish",
                               "leave", "done", "dead"}]
          /\ \A q \in Runs : Active(q) => Active(q)'
      <4>1. PICK to \in {"top", "finish"} : pc' = [pc EXCEPT ![r] = to]
        BY <2>5 DEF StageReturns, Leave
      <4> QED
        BY <4>1 DEF TypeOK
    <3>5. UNCHANGED <<rows, running, pipeline, ctx, acked, refused, writeFailed,
                      restarts>>
      BY <2>5 DEF StageReturns, history
    <3> QED
      BY <3>1, <3>2, <3>3, <3>4, <3>5 DEF TypeOK
  <2>6. ASSUME NEW r \in Runs, FinishRow(r) PROVE TypeOK'
    BY <2>6 DEF FinishRow, AfterFinish, TypeOK
  <2>7. ASSUME NEW r \in Runs, Unregister(r) PROVE TypeOK'
    BY <2>7 DEF Unregister, TypeOK, history
  <2>8. ASSUME NEW r \in Runs, ChildExits(r) \/ ChildKilled(r) PROVE TypeOK'
    <3>1. CASE ChildExits(r)
      BY <3>1 DEF ChildExits, TypeOK, history
    <3>2. CASE ChildKilled(r)
      BY <3>2 DEF ChildKilled, TypeOK, history
    <3> QED
      BY <2>8, <3>1, <3>2
  <2>9. ASSUME NEW r \in Runs, Expire(r) PROVE TypeOK'
    BY <2>9 DEF Expire, TypeOK, history
  <2>10. ASSUME NEW r \in Runs, StopAccepted(r) PROVE TypeOK'
    BY <2>10 DEF StopAccepted, TypeOK
  <2>11. ASSUME NEW r \in Runs, StopRefused(r) PROVE TypeOK'
    BY <2>11 DEF StopRefused, TypeOK, runVars
  <2>12. CASE Restart
    BY <2>12 DEF Restart, TypeOK, history
  <2>13. CASE UNCHANGED vars
    BY <2>13 DEF vars, TypeOK, history, runVars
  <2> QED
    BY <2>1, <2>2, <2>3, <2>4, <2>5, <2>6, <2>7, <2>8, <2>9, <2>10, <2>11, <2>12,
       <2>13 DEF Next, Goroutine
<1> QED
  BY <1>1, InitTyped, PTL DEF Spec

-----------------------------------------------------------------------------

\* Where a run's goroutine is tells what its row and the map of running runs
\* say: the row is running from CreateRow to FinishRow, the run is in the map
\* from Register to Unregister.
RowInv ==
  \A r \in Runs :
    /\ pc[r] = "none" => rows[r] = "none"
    /\ pc[r] \in {"created", "top", "start", "stage", "finish"} => rows[r] = "running"
    /\ Active(r) => r \in running
    /\ pc[r] \in {"leave", "done"} => rows[r] # "running" \/ r \in writeFailed

\* RowInv is inductive, given the types.
LEMMA RowInvariant == Spec => []RowInv
<1>1. Init => RowInv
  BY DEF Init, RowInv
<1>2. TypeOK /\ RowInv /\ [Next]_vars => RowInv'
  <2> SUFFICES ASSUME TypeOK, RowInv, [Next]_vars PROVE RowInv'
    OBVIOUS
  <2> USE DEF RowInv
  <2>0. DOMAIN pc = Runs /\ DOMAIN rows = Runs
    BY DEF TypeOK
  <2>1. ASSUME NEW r \in Runs, CreateRow(r) PROVE RowInv'
    BY <2>0, <2>1 DEF CreateRow, history
  <2>2. ASSUME NEW r \in Runs, Register(r) PROVE RowInv'
    BY <2>0, <2>2 DEF Register, history
  <2>3. ASSUME NEW r \in Runs, LoopTop(r) PROVE RowInv'
    BY <2>0, <2>3 DEF LoopTop, Leave, history
  <2>4. ASSUME NEW r \in Runs, StartStage(r) PROVE RowInv'
    BY <2>0, <2>4 DEF StartStage, history
  <2>5. ASSUME NEW r \in Runs, StageReturns(r) PROVE RowInv'
    BY <2>0, <2>5 DEF StageReturns, Leave, history
  <2>6. ASSUME NEW r \in Runs, FinishRow(r) PROVE RowInv'
    <3>1. outcome[r] # "running"
      BY DEF TypeOK
    <3> QED
      BY <2>0, <2>6, <3>1 DEF FinishRow, AfterFinish
  <2>7. ASSUME NEW r \in Runs, Unregister(r) PROVE RowInv'
    BY <2>0, <2>7 DEF Unregister, history
  <2>8. ASSUME UNCHANGED <<rows, running, pc, writeFailed>> PROVE RowInv'
    BY <2>8
  <2>9. ASSUME NEW r \in Runs, \/ ChildExits(r) \/ ChildKilled(r) \/ Expire(r)
                               \/ StopAccepted(r) \/ StopRefused(r)
        PROVE  RowInv'
    BY <2>8, <2>9 DEF ChildExits, ChildKilled, Expire, StopAccepted, StopRefused,
                      runVars, history
  <2>10. CASE Restart
    BY <2>0, <2>10 DEF Restart, history
  <2>11. CASE UNCHANGED vars
    BY <2>8, <2>11 DEF vars, runVars, history
  <2> QED
    BY <2>1, <2>2, <2>3, <2>4, <2>5, <2>6, <2>7, <2>9, <2>10, <2>11
       DEF Next, Goroutine
<1> QED
  BY <1>1, <1>2, TypeCorrect, PTL DEF Spec

\* A row that says running is a run that Stop reaches, or one of the three
\* exceptions that the property names.
THEOREM Reachable == Spec => []RunningIsReachable
<1>1. TypeOK /\ RowInv => RunningIsReachable
  BY DEF TypeOK, RowInv, RunningIsReachable
<1> QED
  BY <1>1, TypeCorrect, RowInvariant, PTL

\* The rows of the pipeline runs implement the run record: a row gets its
\* final status once, whatever stops, timeouts and restarts come in between.
THEOREM Refinement == Spec => RecordSpec
<1>1. Init => Record!Init
  BY DEF Init, Record!Init
<1>2. TypeOK /\ RowInv /\ [Next]_vars => [Record!Next]_rows
  <2> SUFFICES ASSUME TypeOK, RowInv, Next PROVE Record!Next \/ rows' = rows
    BY DEF vars
  <2>1. ASSUME NEW r \in Runs, CreateRow(r) PROVE Record!Create(r)
    BY <2>1 DEF CreateRow, RowInv, Record!Create
  <2>2. ASSUME NEW r \in Runs, FinishRow(r)
        PROVE  rows' = rows \/ \E final \in Final : Record!Finish(r, final)
    BY <2>2 DEF FinishRow, TypeOK, RowInv, Record!Finish
  <2>3. ASSUME NEW r \in Runs, \/ Register(r) \/ LoopTop(r) \/ StartStage(r)
                               \/ StageReturns(r) \/ Unregister(r) \/ ChildExits(r)
                               \/ ChildKilled(r) \/ Expire(r) \/ StopAccepted(r)
                               \/ StopRefused(r)
        PROVE  rows' = rows
    BY <2>3 DEF Register, LoopTop, StartStage, StageReturns, Unregister, ChildExits,
                ChildKilled, Expire, StopAccepted, StopRefused
  <2>4. Restart => rows' = rows
    BY DEF Restart
  <2> QED
    BY <2>1, <2>2, <2>3, <2>4 DEF Next, Goroutine, Record!Next
<1> QED
  BY <1>1, <1>2, TypeCorrect, RowInvariant, PTL DEF Spec, RecordSpec, Record!Spec

\* No process of a stage is started when the run's context is over.
THEOREM StopIsFinal == Spec => NothingStartsAfterStop
<1>1. TypeOK /\ [Next]_vars =>
        [\A r \in Runs : ctx[r] # "live" /\ child'[r] = "run" => child[r] = "run"]_vars
  <2> SUFFICES ASSUME TypeOK, Next, NEW r \in Runs, ctx[r] # "live", child'[r] = "run"
               PROVE  child[r] = "run"
    OBVIOUS
  <2>0. DOMAIN child = Runs
    BY DEF TypeOK
  <2>1. ASSUME NEW q \in Runs, StartStage(q) PROVE child[r] = "run"
    BY <2>0, <2>1 DEF StartStage, MayStart
  <2>2. ASSUME NEW q \in Runs, \/ StageReturns(q) \/ ChildExits(q) \/ ChildKilled(q)
        PROVE child[r] = "run"
    BY <2>0, <2>2 DEF StageReturns, ChildExits, ChildKilled
  <2>3. ASSUME NEW q \in Runs, \/ CreateRow(q) \/ Register(q) \/ LoopTop(q)
                               \/ FinishRow(q) \/ Unregister(q) \/ Expire(q)
                               \/ StopAccepted(q) \/ StopRefused(q)
        PROVE child[r] = "run"
    BY <2>3 DEF CreateRow, Register, LoopTop, FinishRow, Unregister, Expire,
                StopAccepted, StopRefused, runVars
  <2>4. CASE Restart
    BY <2>4 DEF Restart
  <2> QED
    BY <2>1, <2>2, <2>3, <2>4 DEF Next, Goroutine
<1> QED
  BY <1>1, TypeCorrect, PTL DEF Spec, NothingStartsAfterStop

-----------------------------------------------------------------------------

\* Every stage before n was run, and ended well or may fail.
PassedUpTo(r, n) ==
  /\ Len(results[r]) = n - 1
  /\ \A i \in 1 .. n - 1 : results[r][i] \/ pipeline[r][i]

\* What the goroutine knows at each place of its loop, and that a status that
\* it is going to write, or has written, is justified.
StageInvAt(r) ==
  /\ stage[r] \in Nat \ {0}
  /\ pc[r] \in {"none", "created", "top", "start", "stage"} => PassedUpTo(r, stage[r])
  /\ pc[r] = "top" => stage[r] <= Len(pipeline[r]) + 1
  /\ pc[r] \in {"start", "stage"} => stage[r] <= Len(pipeline[r])
  /\ pc[r] \in {"none", "created"} => stage[r] = 1
  /\ pc[r] = "finish" => Justified(r, outcome[r])
  /\ rows[r] \in Final => pc[r] \in {"leave", "done", "dead"} /\ Justified(r, rows[r])

StageInv == \A r \in Runs : StageInvAt(r)

\* StageInv is inductive, given the types.
LEMMA StageInvariant == Spec => []StageInv
<1> USE DEF PassedUpTo, Justified
<1>1. Init => StageInv
  BY DEF Init, StageInv, StageInvAt
<1>2. TypeOK /\ StageInv /\ [Next]_vars => StageInv'
  <2> SUFFICES ASSUME TypeOK, StageInv, [Next]_vars, NEW r \in Runs PROVE StageInvAt(r)'
    BY DEF StageInv
  <2>0. StageInvAt(r)
    BY DEF StageInv
  <2>types. /\ pipeline[r] \in Seq(BOOLEAN) /\ results[r] \in Seq(BOOLEAN)
        /\ stage[r] \in Nat /\ outcome[r] \in Final
        /\ DOMAIN pc = Runs /\ DOMAIN rows = Runs /\ DOMAIN pipeline = Runs
        /\ DOMAIN stage = Runs /\ DOMAIN results = Runs /\ DOMAIN outcome = Runs
        /\ DOMAIN ctx = Runs
    BY DEF TypeOK
  <2>1. ASSUME /\ rows'[r] = rows[r] /\ pipeline'[r] = pipeline[r] /\ pc'[r] = pc[r]
               /\ stage'[r] = stage[r] /\ results'[r] = results[r]
               /\ outcome'[r] = outcome[r] /\ (ctx[r] # "live" => ctx'[r] # "live")
        PROVE  StageInvAt(r)'
    BY <2>0, <2>1 DEF StageInvAt
  <2>2. ASSUME NEW q \in Runs, q # r, CreateRow(q) \/ Register(q) \/ Goroutine(q)
        PROVE  StageInvAt(r)'
    BY <2>1, <2>2, <2>types DEF CreateRow, Register, Goroutine, LoopTop, Leave, StartStage,
                            StageReturns, FinishRow, Unregister
  <2>3. CASE CreateRow(r)
    <3>1. PICK p \in Pipelines : pipeline' = [pipeline EXCEPT ![r] = p]
      BY <2>3 DEF CreateRow
    <3>2. pipeline'[r] \in Seq(BOOLEAN)
      BY <3>1, <2>types, PipelineIsSequence
    <3>3. stage[r] = 1 /\ Len(results[r]) = 0
      BY <2>0, <2>3 DEF CreateRow, StageInvAt
    <3> QED
      BY <2>3, <2>types, <3>2, <3>3 DEF CreateRow, StageInvAt
  <2>4. CASE Register(r)
    BY <2>0, <2>types, <2>4 DEF Register, StageInvAt
  <2>5. CASE LoopTop(r)
    BY <2>0, <2>types, <2>5 DEF LoopTop, Leave, StageInvAt
  <2>6. CASE StartStage(r)
    BY <2>0, <2>types, <2>6 DEF StartStage, StageInvAt
  <2>7. CASE StageReturns(r)
    <3> DEFINE n == stage[r]
    <3>0. pc[r] = "stage"
      BY <2>7 DEF StageReturns
    <3>1. /\ Len(results[r]) = n - 1 /\ n \in 1 .. Len(pipeline[r])
          /\ \A i \in 1 .. n - 1 : results[r][i] \/ pipeline[r][i]
          /\ rows[r] \notin Final
      <4>1. n \in Nat \ {0} /\ n <= Len(pipeline[r])
        BY <2>0, <3>0 DEF StageInvAt
      <4>2. PassedUpTo(r, n) /\ rows[r] \notin Final
        BY <2>0, <3>0 DEF StageInvAt
      <4> QED
        BY <2>types, <4>1, <4>2
    <3>2. /\ results'[r] \in Seq(BOOLEAN) /\ Len(results'[r]) = n
          /\ \A i \in 1 .. n - 1 : results'[r][i] = results[r][i]
          /\ results'[r][n] = (child[r] = "ok")
      BY <2>types, <2>7, <3>1 DEF StageReturns
    <3>3. CASE child[r] = "ok" \/ ContinuesOnError(r)
      <4>1. ASSUME NEW i \in 1 .. n PROVE results'[r][i] \/ pipeline[r][i]
        <5>1. CASE i = n
          BY <3>2, <3>3, <5>1 DEF ContinuesOnError
        <5>2. CASE i # n
          <6>1. i \in 1 .. n - 1
            BY <2>types, <5>2
          <6> QED
            BY <3>1, <3>2, <6>1
        <5> QED
          BY <5>1, <5>2
      <4>2. stage'[r] = n + 1 /\ pc'[r] = "top" /\ rows' = rows /\ pipeline' = pipeline
        BY <2>types, <2>7, <3>3 DEF StageReturns
      <4> QED
        BY <3>1, <3>2, <4>1, <4>2 DEF StageInvAt
    <3>4. CASE ~(child[r] = "ok" \/ ContinuesOnError(r))
      <4>1. /\ pc'[r] = "finish" /\ outcome'[r] = FailureStatus(r)
            /\ stage' = stage /\ rows' = rows /\ pipeline' = pipeline /\ ctx' = ctx
        BY <2>types, <2>7, <3>4 DEF StageReturns, Leave
      <4>2. ~results'[r][n] /\ ~pipeline[r][n]
        BY <3>2, <3>4 DEF ContinuesOnError
      <4>3. Justified(r, outcome[r])'
        BY <3>1, <3>2, <4>1, <4>2 DEF FailureStatus
      <4> QED
        BY <2>types, <3>1, <4>1, <4>3 DEF StageInvAt
    <3> QED
      BY <3>3, <3>4
  <2>8. CASE FinishRow(r)
    BY <2>0, <2>types, <2>8 DEF FinishRow, AfterFinish, StageInvAt
  <2>9. CASE Unregister(r)
    BY <2>0, <2>types, <2>9 DEF Unregister, StageInvAt
  <2>10. ASSUME NEW q \in Runs, \/ ChildExits(q) \/ ChildKilled(q) \/ Expire(q)
                                \/ StopAccepted(q) \/ StopRefused(q)
         PROVE  StageInvAt(r)'
    BY <2>1, <2>10, <2>types DEF ChildExits, ChildKilled, Expire, StopAccepted, StopRefused,
                             runVars
  <2>11. CASE Restart
    BY <2>0, <2>types, <2>11 DEF Restart, StageInvAt
  <2>12. CASE UNCHANGED vars
    BY <2>1, <2>12 DEF vars, runVars
  <2> QED
    BY <2>2, <2>3, <2>4, <2>5, <2>6, <2>7, <2>8, <2>9, <2>10, <2>11, <2>12
       DEF Next, Goroutine
<1> QED
  BY <1>1, <1>2, TypeCorrect, PTL DEF Spec

\* A final status tells what happened to the stages and to the context.
THEOREM Explained == Spec => []StatusExplained
<1>1. StageInv => StatusExplained
  BY DEF StageInv, StageInvAt, StatusExplained
<1> QED
  BY <1>1, StageInvariant, PTL
=============================================================================
