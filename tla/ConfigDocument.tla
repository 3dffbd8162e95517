--------------------------- MODULE ConfigDocument ---------------------------
(***************************************************************************)
(* The configuration: one document in the server's memory and in the file. *)
(* Some requests change a part of it, a save of the page replaces it by    *)
(* the page's own copy, with a part changed and the applications left as   *)
(* the server has them, and nothing is taken back when the file cannot be  *)
(* written.  handleUpdateConfig, handleBackupRun, handleLogApps,           *)
(* handleLogAppCreate, handleLogAppDelete, handleScriptUpload of           *)
(* internal/web/server.go and Save, EnsureLogSources of                    *)
(* internal/config/config.go.  Each handler holds the server's lock.  A    *)
(* part is a log source, a script or an application that is enabled and    *)
(* has log files, which is there or not, or a value.  What requests for    *)
(* applications do beside their part of the document is in AppRegistry.    *)
(* FAULT: a seeded error that replaces the definition after it.            *)
(***************************************************************************)
EXTENDS Naturals

CONSTANTS
  Sources, Default,   \* log sources, the system's own, which is made when there is none
  AppOf,              \* the application that each of the others is named after
  Scripts,            \* uploads
  Pages,              \* open pages
  MaxChanges          \* bound: requests

Values == {"target", "option"}      \* where backups go, what the page edits
Apps == {AppOf[s] : s \in Sources \ {Default}}
Parts == Sources \union Apps \union Scripts \union Values
Settings == 0 .. MaxChanges

VARIABLES
  memory,   \* the server's document
  file,     \* the one in the file
  copy,     \* the pages' copies
  past      \* what the users asked for, parts that differ for a reason

vars == <<memory, file, copy, past>>

Absent == 0
TypeOK ==
  /\ memory \in [Parts -> Settings] /\ file \in [Parts -> Settings]
  /\ copy \in [Pages -> [Parts -> Settings]]
  /\ past \in [asked : [Parts -> Settings], excused : SUBSET Parts,
               behind : [Pages -> SUBSET Parts], unsaved : BOOLEAN, changes : Settings]

First == [p \in Parts |-> IF p = Default THEN 1 ELSE Absent]

Init ==
  /\ memory = First /\ file = First
  /\ copy = [b \in Pages |-> First]
  /\ past = [asked |-> First, excused |-> {}, behind |-> [b \in Pages |-> {}], unsaved |-> FALSE, changes |-> 0]

-----------------------------------------------------------------------------

\* EnsureLogSources: when there is none, the system's own source and one for
\* each application with log files.
Ensured(doc) ==
  IF \E s \in Sources : doc[s] # Absent THEN doc
  ELSE [p \in Parts |-> IF p = Default THEN 1 ELSE IF p \in Sources THEN doc[AppOf[p]] ELSE doc[p]]

\* The parts in which a document differs from an older one.
Changed(doc, old) == {p \in Parts : doc[p] # old[p]}

\* A request changes the document to doc; the users asked for the parts in
\* own, and those in other change with them.  The file is written, then the
\* settings table; when either fails the request is refused.  The sender, if
\* it is a page, keeps what it sent when it is not.
Change(doc, own, other, sender, sent) ==
  /\ past.changes < MaxChanges
  /\ memory' = doc
  /\ \E end \in {"done", "no file", "no table"} :
       /\ file' = IF end = "no file" THEN file ELSE doc
       /\ copy' = [b \in Pages |-> IF b \in sender /\ end = "done" THEN sent ELSE copy[b]]
       /\ past' = [past EXCEPT
            !.asked = [p \in Parts |-> IF p \in own THEN doc[p] ELSE @[p]],
            !.excused = (@ \ own) \union other,
            !.behind = [b \in Pages |->
              IF b \in sender /\ end = "done" THEN Changed(doc, sent)
              ELSE @[b] \union Changed(doc, memory)],
            !.unsaved = (end = "no file"), !.changes = @ + 1]

\* FAULT: the memory is changed and the file is not.
NotSaved(doc, p) ==
  /\ past.changes < MaxChanges
  /\ memory' = doc
  /\ past' = [past EXCEPT !.asked[p] = doc[p], !.excused = @ \ {p},
                          !.behind = [b \in Pages |-> @[b] \union {p}], !.changes = @ + 1]
  /\ UNCHANGED <<file, copy>>

SetPart(doc, p) == Change(doc, {p}, {}, {}, doc)

Created(p) == [memory EXCEPT ![p] = past.changes + 1]

\* A log source whose name is taken is refused.
CreateSource(s) ==
  /\ s \in Sources /\ memory[s] = Absent
  /\ SetPart(Created(s), s)

DeleteSource(s) ==
  /\ s \in Sources /\ memory[s] # Absent
  /\ SetPart([memory EXCEPT ![s] = Absent], s)

\* The list of the sources makes new ones when there is none left.
ListSources ==
  /\ Ensured(memory) # memory
  /\ Change(Ensured(memory), {}, Changed(Ensured(memory), memory), {}, memory)

\* An application is made, enabled or changed; a new name makes another one.
SetApp(a) == SetPart(Created(a), a)

\* It is removed, disabled or has no log file any more: its source stays.
DropApp(a) ==
  /\ memory[a] # Absent
  /\ SetPart([memory EXCEPT ![a] = Absent], a)

\* Every upload adds an item, also under a name that is taken.
UploadScript(s) ==
  /\ s \in Scripts /\ memory[s] = Absent
  /\ SetPart(Created(s), s)

\* A backup to another place makes it the place of all that follow.
BackUp == SetPart(Created("target"), "target")

Load(b) ==
  /\ copy[b] # memory
  /\ copy' = [copy EXCEPT ![b] = memory]
  /\ past' = [past EXCEPT !.behind[b] = {}]
  /\ UNCHANGED <<memory, file>>

\* FAULT: the page's document lacks the part it does not show.
OnlyShown(b) == [copy[b] EXCEPT !["option"] = past.changes + 1, !["target"] = Absent]

\* The page's copy with what it edits.
Incoming(b) == [copy[b] EXCEPT !["option"] = past.changes + 1]

\* FAULT: the page's applications come with its copy.
AppsToo(came) == came

\* The applications stay those of the server, whatever the page has sent.
WithApps(came) == [p \in Parts |-> IF p \in Apps THEN memory[p] ELSE came[p]]

SaveAll(b) ==
  LET came == Incoming(b)
      doc == Ensured(WithApps(came)) IN
  Change(doc, {"option"}, (past.behind[b] \ Apps) \union (Changed(doc, came) \ Apps), {b}, came)

\* The process ends, reads the file at the next start and completes it.
Restart ==
  LET doc == Ensured(file)
      lost == Changed(doc, memory) IN
  /\ lost # {}
  /\ memory' = doc /\ file' = doc
  /\ past' = [past EXCEPT !.excused = @ \union lost, !.unsaved = FALSE,
                          !.behind = [b \in Pages |-> @[b] \union lost]]
  /\ UNCHANGED copy

Next ==
  \/ \E s \in Sources : CreateSource(s) \/ DeleteSource(s)
  \/ \E s \in Scripts : UploadScript(s)
  \/ \E a \in Apps : SetApp(a) \/ DropApp(a)
  \/ ListSources \/ BackUp
  \/ \E b \in Pages : Load(b) \/ SaveAll(b)
  \/ Restart

Spec == Init /\ [][Next]_vars

-----------------------------------------------------------------------------
(* Properties.                                                             *)

\* What the server works with is what was asked for last, part by part,
\* except for parts that a page with an older copy has saved over, that a
\* restart has lost with an unwritten file, and log sources that were made
\* because there was none.  An application is never saved over.
LastAskedHolds == \A p \in Parts : memory[p] = past.asked[p] \/ p \in past.excused

\* The file has what the memory has, or the last write of it failed.
FileFollows == file = memory \/ past.unsaved

=============================================================================
