------------------------------ MODULE Clipboard ------------------------------
(***************************************************************************)
(* Copying from the page (frontend/src/legacy-app.js): a card of the       *)
(* system or a row of a log is put on the clipboard, and a message says    *)
(* whether it was.                                                         *)
(*                                                                         *)
(* A page from a secure place asks the browser, which works on what it was *)
(* asked for in any order and tells the page in the order in which it has  *)
(* finished; when it refuses, and on any other page, the page copies from  *)
(* a field it makes.  Operators marked FAULT are seeded errors that no     *)
(* action uses: each replaces the definition that follows it.              *)
(***************************************************************************)
EXTENDS Naturals, Sequences

CONSTANTS
  Texts,      \* what can be copied
  Foreign,    \* what other programs put on the clipboard
  Failed,     \* the message that copying has failed, or that there was nothing
  MaxCopies,  \* bound on the clicks
  None

VARIABLES
  board,   \* the clipboard
  page,    \* whether its place is secure, and the text the last message is about
  browser, \* what it was asked for and what it has finished
  past     \* history: what the page has put there, and what came between

vars == <<board, page, browser, past>>

TypeOK ==
  /\ board \in Texts \cup {Foreign}
  /\ page \in [secure : BOOLEAN, said : Texts \cup {Failed, None}]
  /\ browser \in [asked : SUBSET Texts, finished : Seq([text : Texts, ok : BOOLEAN])]
  /\ past \in [clicks : 0 .. MaxCopies, put : SUBSET Texts, other : BOOLEAN]

Init ==
  /\ board = Foreign
  /\ page \in [secure : BOOLEAN, said : {None}]
  /\ browser = [asked |-> {}, finished |-> <<>>]
  /\ past = [clicks |-> 0, put |-> {}, other |-> FALSE]

-----------------------------------------------------------------------------

\* FAULT: the page believes that the field was copied.
Believes(t, ok) == t

\* What the message says after copying from a field.
Says(t, ok) == IF ok THEN t ELSE Failed

\* The second half of copyText, which nothing interrupts.  It may overtake
\* what the browser has finished and not told yet.
FromField(t, before, untold) ==
  \E ok \in BOOLEAN :
    /\ board' = IF ok THEN t ELSE board
    /\ page' = [page EXCEPT !.said = Says(t, ok)]
    /\ past' = [before EXCEPT !.put = IF ok THEN @ \cup {t} ELSE @,
                              !.other = @ \/ (ok /\ untold # <<>>)]

\* FAULT: the message does not wait for the browser.
SaysAtOnce(p, t) == [p EXCEPT !.said = t]

Waits(p, t) == p

\* copyText of a text.
Copy(t) ==
  /\ past.clicks < MaxCopies /\ t \notin browser.asked
  /\ LET clicked == [past EXCEPT !.clicks = @ + 1]
     IN  IF page.secure
         THEN /\ page' = Waits(page, t)
              /\ browser' = [browser EXCEPT !.asked = @ \cup {t}]
              /\ past' = clicked
              /\ UNCHANGED board
         ELSE FromField(t, clicked, browser.finished) /\ UNCHANGED browser

\* copySystemInfoCard: a card without a value says so.  The rows of a log
\* that have no text do nothing at all.
CopyRow(t) == Copy(t)

CopyCard(t) ==
  \/ Copy(t)
  \/ /\ page' = [page EXCEPT !.said = Failed]
     /\ UNCHANGED <<board, browser, past>>

-----------------------------------------------------------------------------
(* The browser and other programs.                                         *)

\* The browser does what it was asked for, or refuses.
Finish(t) ==
  /\ t \in browser.asked
  /\ \E ok \in BOOLEAN :
       /\ browser' = [asked |-> browser.asked \ {t},
                      finished |-> Append(browser.finished, [text |-> t, ok |-> ok])]
       /\ board' = IF ok THEN t ELSE board
       /\ past' = IF ok THEN [past EXCEPT !.put = @ \cup {t}] ELSE past
  /\ UNCHANGED page

\* The page hears of it.
Told ==
  /\ browser.finished # <<>>
  /\ LET first == Head(browser.finished)
     IN  IF first.ok
         THEN page' = [page EXCEPT !.said = first.text] /\ UNCHANGED <<board, past>>
         ELSE FromField(first.text, past, Tail(browser.finished))
  /\ browser' = [browser EXCEPT !.finished = Tail(@)]

Elsewhere ==
  /\ board' = Foreign
  /\ past' = [past EXCEPT !.other = TRUE]
  /\ UNCHANGED <<page, browser>>

-----------------------------------------------------------------------------

Next ==
  \/ \E t \in Texts : CopyCard(t) \/ CopyRow(t) \/ Finish(t)
  \/ Told \/ Elsewhere

Spec == Init /\ [][Next]_vars

-----------------------------------------------------------------------------
(* Properties.                                                             *)

\* The page never claims to have copied what it has not put there.
NothingClaimed == page.said \in past.put \cup {Failed, None}

\* The last message tells what is there once the browser has nothing left to
\* tell, unless another program used the clipboard or a field overtook it.
LastIsThere ==
  browser.finished = <<>> /\ ~past.other => page.said \in {board, Failed, None}
=============================================================================
