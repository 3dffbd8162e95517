----------------------------- MODULE RunOutput -----------------------------
(***************************************************************************)
(* How the output of a child process reaches the output column of its row: *)
(* runAsync and scanPipe of internal/script/runner.go, runStage and        *)
(* capturePipe of internal/cicd/service.go.  Two goroutines scan the two   *)
(* pipes line by line and append every line to the row, while the run's    *)
(* goroutine waits for the process, then for the two scanners, and goes    *)
(* on.  Lines are numbered; a long one exceeds the scanner's buffer limit. *)
(* Operators marked FAULT are seeded errors that no action uses: each      *)
(* replaces the definition that follows it.                                *)
(***************************************************************************)
EXTENDS Naturals, Sequences

CONSTANTS
  MaxLines,     \* bound: the process writes this many lines and exits
  PipeCap       \* capacity of the operating system's pipe, in lines

ASSUME OutputAssumption ==
  /\ MaxLines \in Nat
  /\ PipeCap \in Nat \ {0}

Streams == {"stdout", "stderr"}
Line == [no : Nat, long : BOOLEAN]

VARIABLES
  caller,   \* whose process it is: the script runner's or a pipeline's
  child,    \* the process: running or exited
  written,  \* number of lines it has written, on both streams together
  pipe,     \* lines in a pipe that nobody has read
  open,     \* the reading end of the pipe is open
  scanned,  \* lines a scanner has read and not handed out yet
  scanner,  \* a scanner's goroutine: scanning, giving up, done
  log,      \* the row's output, the lines of a stream in a sequence
  kept,     \* history: lines of a stream that were written
  excused,  \* history: a line was too long or its append failed
  waiter,   \* the run's goroutine: in Wait, joining the scanners, finished
  expired   \* the context is over

pipeVars == <<pipe, open>>
scanVars == <<scanned, scanner>>
rowVars == <<log, kept, excused>>
runVars == <<waiter, expired>>
vars == <<caller, child, written, pipeVars, scanVars, rowVars, runVars>>

\* The types; a full pipe takes nothing, and the row has numbered lines only.
TypeOK ==
  /\ caller \in {"script", "pipeline"}
  /\ child \in {"run", "exited"}
  /\ written \in 0 .. MaxLines
  /\ pipe \in [Streams -> Seq(Line)]
  /\ \A s \in Streams : Len(pipe[s]) <= PipeCap
  /\ open \in [Streams -> BOOLEAN]
  /\ scanned \in [Streams -> Seq(Line)]
  /\ scanner \in [Streams -> {"scan", "quit", "done"}]
  /\ log \in [Streams -> Seq(1 .. MaxLines)]
  /\ kept \in [Streams -> Seq(1 .. MaxLines)]
  /\ excused \in BOOLEAN
  /\ waiter \in {"wait", "join", "finished"}
  /\ expired \in BOOLEAN

Init ==
  /\ caller \in {"script", "pipeline"}
  /\ child = "run"
  /\ written = 0
  /\ pipe = [s \in Streams |-> <<>>]
  /\ open = [s \in Streams |-> TRUE]
  /\ scanned = [s \in Streams |-> <<>>]
  /\ scanner = [s \in Streams |-> "scan"]
  /\ log = [s \in Streams |-> <<>>]
  /\ kept = [s \in Streams |-> <<>>]
  /\ excused = FALSE
  /\ waiter = "wait"
  /\ expired = FALSE

-----------------------------------------------------------------------------
(* The process.  It blocks while a pipe is full and open; a write on a     *)
(* pipe nobody reads any more ends it, unless it ignores the signal.       *)

Write(s) ==
  /\ child = "run" /\ written < MaxLines
  /\ open[s] /\ Len(pipe[s]) < PipeCap
  /\ written' = written + 1
  /\ \E long \in BOOLEAN :
       pipe' = [pipe EXCEPT ![s] = Append(@, [no |-> written + 1, long |-> long])]
  /\ kept' = [kept EXCEPT ![s] = Append(@, written + 1)]
  /\ UNCHANGED <<caller, child, open, scanVars, log, excused, runVars>>

WriteBroken(s) ==
  /\ child = "run" /\ written < MaxLines /\ ~open[s]
  /\ written' = written + 1
  /\ child' \in {"run", "exited"}
  /\ kept' = [kept EXCEPT ![s] = Append(@, written + 1)]
  /\ UNCHANGED <<caller, pipeVars, scanVars, log, excused, runVars>>

Exit ==
  /\ child = "run" /\ written = MaxLines
  /\ child' = "exited"
  /\ UNCHANGED <<caller, written, pipeVars, scanVars, rowVars, runVars>>

\* FAULT: the command is started without the context.
NoTimeout == FALSE /\ UNCHANGED vars

Timeout ==
  /\ ~expired /\ waiter = "wait"
  /\ expired' = TRUE
  /\ UNCHANGED <<caller, child, written, pipeVars, scanVars, rowVars, waiter>>

Kill ==
  /\ child = "run" /\ expired
  /\ child' = "exited"
  /\ UNCHANGED <<caller, written, pipeVars, scanVars, rowVars, runVars>>

-----------------------------------------------------------------------------
(* The scanners.                                                           *)

ReadPipe(s) ==
  /\ scanner[s] = "scan" /\ open[s]
  /\ scanned[s] = <<>> /\ pipe[s] # <<>>
  /\ scanned' = [scanned EXCEPT ![s] = pipe[s]]
  /\ pipe' = [pipe EXCEPT ![s] = <<>>]
  /\ UNCHANGED <<caller, child, written, open, scanner, rowVars, runVars>>

\* FAULT: every line is handed to a goroutine of its own and may be passed.
Unordered(seq, n) == {Append(seq, n), <<n>> \o seq}

\* FAULT: an empty chunk is appended for a line.
Blank(seq, n) == {Append(seq, 0)}

\* AppendScriptRunOutput or AppendCICDRunOutput; its error is ignored.
Appended(seq, n) == {Append(seq, n), seq}

HandOut(s) ==
  /\ scanner[s] = "scan" /\ scanned[s] # <<>>
  /\ IF Head(scanned[s]).long
     THEN /\ scanner' = [scanner EXCEPT ![s] = "quit"]
          /\ scanned' = [scanned EXCEPT ![s] = <<>>]
          /\ excused' = TRUE
          /\ UNCHANGED log
     ELSE /\ \E seq \in Appended(log[s], Head(scanned[s]).no) :
               log' = [log EXCEPT ![s] = seq]
          /\ scanned' = [scanned EXCEPT ![s] = Tail(@)]
          /\ excused' = (excused \/ log' = log)
          /\ UNCHANGED scanner
  /\ UNCHANGED <<caller, child, written, pipeVars, kept, runVars>>

\* End of file, or a read on the pipe that Wait has closed.
ScanEnds(s) ==
  /\ scanner[s] = "scan" /\ scanned[s] = <<>>
  /\ ~open[s] \/ (child = "exited" /\ pipe[s] = <<>>)
  /\ scanner' = [scanner EXCEPT ![s] = "quit"]
  /\ UNCHANGED <<caller, child, written, pipeVars, scanned, rowVars, runVars>>

\* scanPipe closes its pipe at the end, capturePipe leaves it open.
ClosesPipe == caller = "script"

ScannerReturns(s) ==
  /\ scanner[s] = "quit"
  /\ scanner' = [scanner EXCEPT ![s] = "done"]
  /\ open' = [open EXCEPT ![s] = @ /\ ~ClosesPipe]
  /\ pipe' = [pipe EXCEPT ![s] = IF ClosesPipe THEN <<>> ELSE @]
  /\ UNCHANGED <<caller, child, written, scanned, rowVars, runVars>>

-----------------------------------------------------------------------------
(* The run's goroutine: cmd.Wait closes both pipes as soon as the process  *)
(* has exited, and only then are the scanners waited for.                  *)

Wait ==
  /\ waiter = "wait" /\ child = "exited"
  /\ waiter' = "join"
  /\ open' = [s \in Streams |-> FALSE]
  /\ pipe' = [s \in Streams |-> <<>>]
  /\ UNCHANGED <<caller, child, written, scanVars, rowVars, expired>>

\* FAULT: the scanners are not waited for.
NoJoin == TRUE

Joined == \A s \in Streams : scanner[s] = "done"

Finish ==
  /\ waiter = "join" /\ Joined
  /\ waiter' = "finished"
  /\ UNCHANGED <<caller, child, written, pipeVars, scanVars, rowVars, expired>>

-----------------------------------------------------------------------------

Process == Exit \/ \E s \in Streams : Write(s) \/ WriteBroken(s)

Scanner(s) == ReadPipe(s) \/ HandOut(s) \/ ScanEnds(s) \/ ScannerReturns(s)

Next ==
  \/ Process \/ Timeout \/ Kill
  \/ \E s \in Streams : Scanner(s)
  \/ Wait \/ Finish

Spec == Init /\ [][Next]_vars

(* The scanners and the run's goroutine run, time passes, and a killed     *)
(* process dies.                                                           *)
Fairness ==
  /\ \A s \in Streams : WF_vars(Scanner(s))
  /\ WF_vars(Wait \/ Finish)
  /\ WF_vars(Timeout)
  /\ WF_vars(Kill)

FairSpec == Spec /\ Fairness

-----------------------------------------------------------------------------
(* Properties.                                                             *)

\* The lines of a stream are in the row in the order they were written, and
\* none is there twice.
LogInOrder ==
  \A s \in Streams :
    \A i, j \in DOMAIN log[s] : i < j => log[s][i] < log[s][j]

\* Once the run's goroutine goes on to write the next stage's output or the
\* final status, the row gets no more of this process's output.
NothingAfterFinish == [][waiter = "finished" => UNCHANGED log]_vars

\* The run's goroutine gets past the process, also when a scanner has given
\* up on a long line and the process is blocked on a full pipe.
RunGoesOn == <>(waiter = "finished")

\* The history of a run that did not time out has every line its process
\* wrote, as long as no line was too long and no append failed.
OutputKept ==
  waiter = "finished" /\ ~expired /\ ~excused => log = kept

=============================================================================
