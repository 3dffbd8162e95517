------------------------------- MODULE JobRows -------------------------------
(***************************************************************************)
(* The rows of script runs and backups, and the archives of the backups:   *)
(* Run and runAsync of internal/script/runner.go, Start and runBackup of   *)
(* internal/backup/manager.go, with the tables script_runs and backups of  *)
(* internal/store/store.go.  A row is made by the request, the work is     *)
(* done by a goroutine, and nothing looks at the rows when the process     *)
(* starts again.  The name of an archive is that of the backup, cleaned of *)
(* case, spaces and slashes, and the second of its start; backups go to    *)
(* one directory.  What a script's output does is in RunOutput.            *)
(* FAULT: a seeded error that replaces the definition after it.            *)
(***************************************************************************)
EXTENDS Naturals

CONSTANTS
  Jobs,        \* row ids, used from 1 on
  Names,       \* names of backups
  Sanitize,    \* sanitize: what becomes of a name, which may be that of another one
  MaxSecond    \* bound: the clock

VARIABLES
  rows,      \* the rows, none for an id that is not used
  work,      \* what the goroutine of a job does
  archive,   \* whose bytes a file has
  past       \* the second, jobs whose row cannot be finished any more

vars == <<rows, work, archive, past>>

Kinds == {"script", "files", "command"}
NoRow == [status |-> "none", kind |-> "script", name |-> "", second |-> 0]

\* FAULT: the time is left out.
Untimed(name, second) == <<Sanitize[name], 0>>

FileName(name, second) == <<Sanitize[name], second>>

PathOf(j) == FileName(rows[j].name, rows[j].second)

Paths == {Sanitize[n] : n \in Names} \X (0 .. MaxSecond)
Row == [status : {"none", "running", "success", "failed"}, kind : Kinds,
        name : Names \union {""}, second : 0 .. MaxSecond]

TypeOK ==
  /\ rows \in [Jobs -> Row]
  /\ work \in [Jobs -> {"none", "made", "open", "packed", "good", "bad"}]
  /\ archive \in [Paths -> SUBSET Jobs]
  /\ past \in [second : 0 .. MaxSecond, orphans : SUBSET Jobs]

Init ==
  /\ rows = [j \in Jobs |-> NoRow]
  /\ work = [j \in Jobs |-> "none"]
  /\ archive = [p \in Paths |-> {}]
  /\ past = [second |-> 0, orphans |-> {}]

-----------------------------------------------------------------------------

\* CreateScriptRun or CreateBackupRecord, whose failure leaves nothing, and
\* the start of the goroutine.
Start(kind, name) ==
  \E j \in Jobs :
    /\ rows[j].status = "none" /\ \A i \in Jobs : i < j => rows[i].status # "none"
    /\ rows' = [rows EXCEPT ![j] = [status |-> "running", kind |-> kind, name |-> name,
                                    second |-> past.second]]
    /\ work' = [work EXCEPT ![j] = "made"]
    /\ UNCHANGED <<archive, past>>

\* A script ends one way or the other.
RunScript(j) ==
  /\ work[j] = "made" /\ rows[j].kind = "script"
  /\ \E end \in {"good", "bad"} : work' = [work EXCEPT ![j] = end]
  /\ UNCHANGED <<rows, archive, past>>

\* A command that fails makes no file; else its output becomes the file.
RunCommand(j) ==
  /\ work[j] = "made" /\ rows[j].kind = "command"
  /\ \/ /\ work' = [work EXCEPT ![j] = "bad"]
        /\ UNCHANGED archive
     \/ /\ work' = [work EXCEPT ![j] = "good"]
        /\ archive' = [archive EXCEPT ![PathOf(j)] = {j}]
  /\ UNCHANGED <<rows, past>>

\* os.Create empties a file that is there.
Create(j) ==
  /\ work[j] = "made" /\ rows[j].kind = "files"
  /\ \/ /\ work' = [work EXCEPT ![j] = "bad"]
        /\ UNCHANGED archive
     \/ /\ work' = [work EXCEPT ![j] = "open"]
        /\ archive' = [archive EXCEPT ![PathOf(j)] = {}]
  /\ UNCHANGED <<rows, past>>

\* The paths are packed, those that cannot be read left out.
Pack(j) ==
  /\ work[j] = "open"
  /\ archive' = [archive EXCEPT ![PathOf(j)] = @ \union {j}]
  /\ work' = [work EXCEPT ![j] = "packed"]
  /\ UNCHANGED <<rows, past>>

\* FAULT: the result of the packing is that of opening the file.
NotClosed == {"open", "packed"}

MayClose == {"packed"}

Close(j) ==
  /\ work[j] \in MayClose
  /\ \E end \in {"good", "bad"} : work' = [work EXCEPT ![j] = end]
  /\ UNCHANGED <<rows, archive, past>>

\* FAULT: every end is a success.
AlwaysSuccess(end) == "success"

StatusOf(end) == IF end = "good" THEN "success" ELSE "failed"

\* FAULT: the row of the newest job of the name is finished.
ByName(j) == CHOOSE i \in Jobs : /\ rows[i].status # "none" /\ rows[i].name = rows[j].name
                                 /\ \A k \in Jobs : rows[k].status # "none" /\ rows[k].name = rows[j].name => k <= i

RowOf(j) == j

\* FinishScriptRun or FinishBackupRecord, whose error is ignored.
Finish(j) ==
  /\ work[j] \in {"good", "bad"}
  /\ work' = [work EXCEPT ![j] = "none"]
  /\ \/ /\ rows' = [rows EXCEPT ![RowOf(j)].status = StatusOf(work[j])]
        /\ UNCHANGED past
     \/ /\ past' = [past EXCEPT !.orphans = @ \union {j}]
        /\ UNCHANGED rows
  /\ UNCHANGED archive

Tick ==
  /\ past.second < MaxSecond
  /\ past' = [past EXCEPT !.second = @ + 1]
  /\ UNCHANGED <<rows, work, archive>>

\* The process ends and starts again, in a later second.
Restart ==
  /\ past.second < MaxSecond
  /\ past' = [past EXCEPT !.second = @ + 1, !.orphans = @ \union {j \in Jobs : work[j] # "none"}]
  /\ work' = [j \in Jobs |-> "none"]
  /\ UNCHANGED <<rows, archive>>

Next ==
  \/ \E kind \in Kinds, name \in Names : Start(kind, name)
  \/ \E j \in Jobs : RunScript(j) \/ RunCommand(j) \/ Create(j) \/ Pack(j) \/ Close(j) \/ Finish(j)
  \/ Tick \/ Restart

Spec == Init /\ [][Next]_vars

-----------------------------------------------------------------------------
(* Properties.                                                             *)

Backup(j) == rows[j].kind # "script" /\ rows[j].status # "none"
Twins(i, j) ==
  /\ Backup(i) /\ Backup(j)
  /\ Sanitize[rows[i].name] = Sanitize[rows[j].name] /\ rows[i].second = rows[j].second

\* A row that says running has a goroutine that will finish it, except when
\* the process has ended meanwhile or the final write has failed.
RunningExplained ==
  \A j \in Jobs : rows[j].status = "running" => work[j] # "none" \/ j \in past.orphans

\* A backup that says success has its archive, with nobody else's bytes, as
\* long as no other backup of that name, or of one that is cleaned to the
\* same, was started in the same second.
ArchiveIsOwn ==
  \A j \in Jobs :
    Backup(j) /\ rows[j].status = "success" /\ (\A i \in Jobs : Twins(i, j) => i = j)
      => archive[PathOf(j)] = {j}
=============================================================================
