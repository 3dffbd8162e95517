------------------------------ MODULE Services ------------------------------
(***************************************************************************)
(* What runs in the background of the server, in one specification: a      *)
(* process and its output (RunOutput, whose names are used as they are),   *)
(* the rows of jobs, the runtime log and the configuration document.  They *)
(* share no state: a behaviour of this module is one of the part in focus. *)
(***************************************************************************)
EXTENDS RunOutput, FiniteSets

CONSTANTS
  None,                                        \* the state of a part without focus
  Jobs, Names, Sanitize, MaxSecond,            \* of JobRows
  Writers, LogLines, Sizes, MaxFiles,          \* of RuntimeLog
  Sources, Default, AppOf, Scripts, Pages, MaxChanges \* of ConfigDocument

ASSUME ServicesAssumption ==
  /\ MaxSecond \in Nat
  /\ LogLines \in Nat /\ MaxFiles \in Nat
  /\ Sizes \subseteq Nat \ {0}
  /\ "log" \notin Writers
  /\ Default \in Sources
  /\ MaxChanges \in Nat \ {0}

\* Log sources are no applications, and neither are uploads or values.
ASSUME PartsAssumption ==
  LET apps == {AppOf[s] : s \in Sources \ {Default}} IN
  /\ apps \intersect (Sources \union Scripts \union {"target", "option"}) = {}
  /\ Sources \intersect (Scripts \union {"target", "option"}) = {}

VARIABLES
  focus,                  \* the part
  rows, work, past, more  \* the state of a part that is not RunOutput

partVars == <<rows, work, past, more>>
allVars == <<focus, vars, partVars>>

Lines == INSTANCE RuntimeLog WITH
  MaxLines <- LogLines, center <- rows, disk <- work, writers <- more, past <- past

Rows == INSTANCE JobRows WITH archive <- more

Document == INSTANCE ConfigDocument WITH
  memory <- rows, file <- work, copy <- more, past <- past

\* The rows of the jobs, as the abstract record has them.
Status == [j \in Jobs |-> IF focus = "rows" THEN rows[j].status ELSE "none"]

Record == INSTANCE RunRecord WITH Runs <- Jobs, Final <- {"success", "failed"}, status <- Status

-----------------------------------------------------------------------------

NoPart == rows = None /\ work = None /\ past = None /\ more = None

ServicesInit ==
  /\ Init
  /\ \/ focus = "output" /\ NoPart
     \/ focus = "lines" /\ caller = "script" /\ Lines!Init
     \/ focus = "rows" /\ caller = "script" /\ Rows!Init
     \/ focus = "document" /\ caller = "script" /\ Document!Init

In(part) == focus = part /\ focus' = part
Output == In("output") /\ UNCHANGED partVars

ServicesNext ==
  \/ Output /\ Next
  \/ In("lines") /\ UNCHANGED vars /\ Lines!Next
  \/ In("rows") /\ UNCHANGED vars /\ Rows!Next
  \/ In("document") /\ UNCHANGED vars /\ Document!Next

\* The fairness of RunOutput.
ServicesSpec ==
  /\ ServicesInit /\ [][ServicesNext]_allVars
  /\ \A s \in Streams : WF_allVars(Output /\ Scanner(s))
  /\ WF_allVars(Output /\ (Wait \/ Finish))
  /\ WF_allVars(Output /\ Timeout)
  /\ WF_allVars(Output /\ Kill)

-----------------------------------------------------------------------------
(* Properties: those of the parts, which say what they mean.               *)

\* The variables of every part keep their types.
ServiceTypes ==
  /\ TypeOK
  /\ focus = "lines" => Lines!TypeOK
  /\ focus = "rows" => Rows!TypeOK
  /\ focus = "document" => Document!TypeOK

\* The output of a process and the lines of the runtime log are kept in
\* order and whole, rows and archives say what has been done, and the
\* configuration is what was asked for last.
ServicesKeepTheirWord ==
  /\ LogInOrder
  /\ focus = "lines" => Lines!RingIsNewest /\ Lines!LinesReachTheFile
  /\ focus = "rows" => Rows!RunningExplained /\ Rows!ArchiveIsOwn
  /\ focus = "document" => Document!LastAskedHolds /\ Document!FileFollows

\* The output of a process ends with its run, and the rows of script runs
\* and backups implement the abstract record: one final status, for good.
RowsAreFinal == NothingAfterFinish /\ Record!Spec

\* The run's goroutine gets past its process.
ProcessesEnd == focus = "output" => RunGoesOn
=============================================================================
