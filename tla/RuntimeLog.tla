----------------------------- MODULE RuntimeLog -----------------------------
(***************************************************************************)
(* internal/systemlog/service.go: the ring of the newest lines, which the  *)
(* page lists, and the file, which a save of the configuration may change  *)
(* while lines are being written.  The ring and the handle of the file are *)
(* guarded by one lock; the write to the file comes after it.  Lines come  *)
(* from the log package, through a writer that puts them together, and     *)
(* from the goroutines of pipelines; they are numbered.                    *)
(* FAULT: a seeded error that replaces the definition after it.            *)
(***************************************************************************)
EXTENDS Naturals, Sequences, SequencesExt

CONSTANTS
  Writers,    \* goroutines that add a line at a time
  MaxLines,   \* bound: numbered lines
  Sizes,      \* the values of max_entries
  MaxFiles    \* bound: files opened

VARIABLES
  center,     \* the ring, its size, the handle of the file (0: none)
  disk,       \* the lines in the log file
  writers,    \* lines to add, and the line and handle of an unfinished write
  past        \* lines so far, the piece kept, the order of adding, open handles, excuses

vars == <<center, disk, writers, past>>

Log == "log"      \* the writer of the log package
All == Writers \union {Log}
Idle == [todo |-> <<>>, line |-> 0, file |-> 0]

TypeOK ==
  /\ center \in [ring : Seq(1 .. MaxLines), max : Sizes, file : 0 .. MaxFiles]
  /\ disk \in Seq(1 .. MaxLines)
  /\ writers \in [All -> [todo : Seq(1 .. MaxLines), line : 0 .. MaxLines, file : 0 .. MaxFiles]]
  /\ past \in [lines : 0 .. MaxLines, piece : 0 .. MaxLines, order : Seq(1 .. MaxLines), lost : SUBSET (1 .. MaxLines),
               files : 0 .. MaxFiles, open : SUBSET (1 .. MaxFiles), excused : SUBSET (1 .. MaxLines)]

Init ==
  /\ center \in [ring : {<<>>}, max : Sizes, file : {0}]
  /\ disk = <<>>
  /\ writers = [w \in All |-> Idle]
  /\ past = [lines |-> 0, piece |-> 0, order |-> <<>>, lost |-> {}, files |-> 0, open |-> {}, excused |-> {}]

-----------------------------------------------------------------------------
(* Lines.                                                                  *)

New(n) == [i \in 1 .. n |-> past.lines + i]

\* FAULT: the last piece is handed on as a line and kept as well.
HandsAll(text, ends, short) ==
  [lines |-> SubSeq(text, 1, short), piece |-> IF ends \/ short = 0 THEN 0 ELSE text[short]]

\* What Write makes of the kept piece and the new text, of which the scanner
\* gives the first lines, those before one that is longer than its 64 KiB:
\* lines to add, and the last one when the text has not got its end.
Split(text, ends, short) ==
  IF ends \/ short = 0 THEN [lines |-> SubSeq(text, 1, short), piece |-> 0]
  ELSE [lines |-> SubSeq(text, 1, short - 1), piece |-> text[short]]

\* A write of the log package, under the writer's own lock: n new lines after
\* the kept piece.  What begins with a line too long is lost.
Write(n, ends) ==
  /\ writers[Log] = Idle
  /\ past.lines + n <= MaxLines
  /\ LET text == (IF past.piece = 0 THEN <<>> ELSE <<past.piece>>) \o New(n) IN
     /\ text # <<>>
     /\ \E short \in 0 .. Len(text) :
          LET got == Split(text, ends, short) IN
          /\ writers' = [writers EXCEPT ![Log].todo = got.lines]
          /\ past' = [past EXCEPT !.lines = @ + n, !.piece = got.piece,
                                  !.lost = @ \union {text[i] : i \in short + 1 .. Len(text)}]
  /\ UNCHANGED <<center, disk>>

\* Add, called by a goroutine of its own.
Say(w) ==
  /\ writers[w] = Idle /\ past.lines < MaxLines
  /\ writers' = [writers EXCEPT ![w].todo = New(1)]
  /\ past' = [past EXCEPT !.lines = @ + 1]
  /\ UNCHANGED <<center, disk>>

\* FAULT: the oldest lines stay.
Oldest(ring, max) == SubSeq(ring, 1, IF Len(ring) > max THEN max ELSE Len(ring))

Newest(ring, max) ==
  IF Len(ring) > max THEN SubSeq(ring, Len(ring) - max + 1, Len(ring)) ELSE ring

\* The part of add under the lock.
Enter(w) ==
  /\ writers[w].todo # <<>> /\ writers[w].line = 0
  /\ LET line == Head(writers[w].todo) IN
     /\ center' = [center EXCEPT !.ring = Newest(Append(@, line), center.max)]
     /\ writers' = [writers EXCEPT ![w] = [todo |-> Tail(@.todo), line |-> line, file |-> center.file]]
     /\ past' = [past EXCEPT !.order = Append(@, line),
                             !.excused = IF center.file = 0 THEN @ \union {line} ELSE @]
  /\ UNCHANGED disk

\* The part after it; the error of the write is ignored.
Store(w) ==
  /\ writers[w].line # 0
  /\ writers' = [writers EXCEPT ![w].line = 0, ![w].file = 0]
  /\ \/ /\ writers[w].file \in past.open
        /\ disk' = Append(disk, writers[w].line)
        /\ UNCHANGED past
     \/ /\ writers[w].file \notin past.open
        /\ UNCHANGED <<disk, past>>
     \/ /\ writers[w].file \in past.open
        /\ past' = [past EXCEPT !.excused = @ \union {writers[w].line}]
        /\ UNCHANGED disk
  /\ UNCHANGED center

-----------------------------------------------------------------------------
(* Configure, called at the start and under the server's lock.             *)

Resize(max) ==
  /\ max \in Sizes \ {center.max} /\ past.open \subseteq {center.file}
  /\ center' = [center EXCEPT !.max = max]
  /\ UNCHANGED <<disk, writers, past>>

\* The lines whose write is under way with a handle.
Under(file) == {writers[w].line : w \in {x \in All : writers[x].line # 0 /\ writers[x].file = file}}

\* FAULT: the old file is closed before the new one takes its place.
ClosesFirst ==
  \/ /\ past.files < MaxFiles /\ center.file = past.files
     /\ past' = [past EXCEPT !.files = @ + 1, !.open = {past.files + 1}, !.excused = @ \union Under(center.file)]
     /\ UNCHANGED <<center, disk, writers>>
  \/ /\ center.file # past.files
     /\ center' = [center EXCEPT !.file = past.files]
     /\ UNCHANGED <<disk, writers, past>>

\* The new file takes the place of the old one under the lock, which is
\* closed afterwards, also when a line is still to be written to it.
Configure ==
  \/ /\ past.files < MaxFiles /\ past.open \subseteq {center.file}
     /\ past' = [past EXCEPT !.files = @ + 1, !.open = @ \union {past.files + 1}]
     /\ center' = [center EXCEPT !.file = past.files + 1]
     /\ UNCHANGED <<disk, writers>>
  \/ \E file \in past.open \ {center.file} :
       /\ past' = [past EXCEPT !.open = @ \ {file}, !.excused = @ \union Under(file)]
       /\ UNCHANGED <<center, disk, writers>>

Next ==
  \/ \E n \in 0 .. 2, ends \in BOOLEAN : Write(n, ends)
  \/ \E w \in Writers : Say(w)
  \/ \E w \in All : Enter(w) \/ Store(w)
  \/ \E max \in Sizes : Resize(max)
  \/ Configure

Spec == Init /\ [][Next]_vars

-----------------------------------------------------------------------------
(* Properties.                                                             *)

\* The page lists the newest lines, without a gap and in the order they were
\* added; no line is added twice, and when nothing is under way every line has
\* been added but the piece that is kept, and those that were lost with a line
\* too long for the scanner.
RingIsNewest ==
  /\ center.ring = Newest(past.order, Len(center.ring))
  /\ IsInjective(past.order)
  /\ (\A w \in All : writers[w] = Idle) =>
       \A n \in 1 .. past.lines : n \in Range(past.order) \/ n = past.piece \/ n \in past.lost

\* A line that was added while there was a file is in the log, once, except
\* when its write failed or its file was closed under it.
LinesReachTheFile ==
  /\ \A i \in DOMAIN past.order :
       past.order[i] \in Range(disk)
         \/ past.order[i] \in past.excused
         \/ \E w \in All : writers[w].line = past.order[i]
  /\ IsInjective(disk)

=============================================================================
