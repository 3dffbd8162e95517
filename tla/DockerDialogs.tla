---------------------------- MODULE DockerDialogs ----------------------------
(***************************************************************************)
(* The dialogs of the Docker page (frontend/src/legacy-app.js): the page   *)
(* has one modal window, and the details of a container, the question      *)
(* before it is removed and its log, which is asked for again every two    *)
(* seconds, are all shown in it.                                           *)
(*                                                                         *)
(* Details are shown when they arrive, whatever the window shows then; and *)
(* other parts of the page open and close it when their own answers        *)
(* arrive.  Operators marked FAULT are seeded errors that no action uses:  *)
(* each replaces the definition that follows it.                           *)
(***************************************************************************)
EXTENDS Naturals, Requests

CONSTANTS
  Containers,
  None,
  MaxDialogs   \* bound on the dialogs that are opened

VARIABLES
  dialog,   \* the modal window and the fields of the page's state about it
  flight,   \* requests
  dialogs,  \* counter for the bound
  agreed    \* history: containers the user agreed to remove

vars == <<dialog, flight, dialogs, agreed>>

Opt == Containers \cup {None}

TypeOK ==
  /\ dialog \in [open : BOOLEAN,                                     \* the window is shown
                 shows : {"nothing", "details", "question", "log"},  \* modalBody
                 title : Opt,                                        \* the container in the title
                 text : Opt,                                         \* whose log the viewer holds
                 stream : Opt,             \* dockerLogContainerID, with dockerLogTimer set
                 asking : SUBSET Containers]  \* promises of promptDockerRemoveOptions not settled
  /\ flight \in [Slots -> {Unused} \cup [ask : {"log", "details", "remove"}, id : Containers]]
  /\ dialogs \in 0 .. MaxDialogs
  /\ agreed \subseteq Containers

Init ==
  /\ dialog = [open |-> FALSE, shows |-> "nothing", title |-> None, text |-> None,
               stream |-> None, asking |-> {}]
  /\ flight = NoRequests
  /\ dialogs = 0
  /\ agreed = {}

-----------------------------------------------------------------------------
(* The functions the handlers call, as changes of the window.              *)

\* openModal.
OpenModal(d, shows, c) == [d EXCEPT !.open = TRUE, !.shows = shows, !.title = c, !.text = None]

\* stopDockerLogStream.
StopStream(d) == [d EXCEPT !.stream = None]

\* FAULT: closing the window leaves the log's timer on.
CloseOnly(d) == [d EXCEPT !.open = FALSE]

\* closeModal.
CloseModal(d) == [StopStream(d) EXCEPT !.open = FALSE]

Do(d, fl) ==
  /\ dialog' = d
  /\ flight' = fl

Opens == dialogs < MaxDialogs /\ dialogs' = dialogs + 1

-----------------------------------------------------------------------------
(* The user.                                                               *)

\* openDockerLogStream: the first poll goes out at once.
OpenLog(c) ==
  /\ ~dialog.open /\ Opens
  /\ Do([OpenModal(StopStream(dialog), "log", c) EXCEPT !.stream = c],
        Send(flight, [ask |-> "log", id |-> c]))
  /\ UNCHANGED agreed

\* The stop button in the window.
StopLog ==
  /\ dialog.open /\ dialog.shows = "log"
  /\ Do(StopStream(dialog), flight)
  /\ UNCHANGED <<dialogs, agreed>>

AskDetails(c) ==
  /\ ~dialog.open /\ Opens
  /\ Do(dialog, Send(flight, [ask |-> "details", id |-> c]))
  /\ UNCHANGED agreed

\* promptDockerRemoveOptions.
AskRemove(c) ==
  /\ ~dialog.open /\ Opens
  /\ Do([OpenModal(dialog, "question", c) EXCEPT !.asking = @ \cup {c}], flight)
  /\ UNCHANGED agreed

\* FAULT: the button settles every question that is open.
ConfirmsAll(d) == d.asking

\* The button in the window belongs to the question that the window shows.
Confirms(d) == {d.title}

Confirm ==
  /\ dialog.open /\ dialog.shows = "question" /\ Room(flight)
  /\ \E c \in Confirms(dialog) :
       Do([CloseModal(dialog) EXCEPT !.asking = @ \ {c}], Send(flight, [ask |-> "remove", id |-> c]))
  /\ agreed' = agreed \cup {dialog.title}
  /\ UNCHANGED dialogs

\* The window's own button: every question that waits is answered with no.
Close ==
  /\ dialog.open
  /\ Do([CloseModal(dialog) EXCEPT !.asking = {}], flight)
  /\ UNCHANGED <<dialogs, agreed>>

\* The button of the question that says no: other questions go on waiting.
Cancel ==
  /\ dialog.open /\ dialog.shows = "question"
  /\ Do([CloseModal(dialog) EXCEPT !.asking = @ \ {dialog.title}], flight)
  /\ UNCHANGED <<dialogs, agreed>>

-----------------------------------------------------------------------------
(* Timers, answers and the rest of the page.                               *)

\* FAULT: the timer asks for the container in the viewer.
PollsText(d) == IF d.text = None THEN d.stream ELSE d.text

Polled(d) == d.stream

Poll ==
  /\ dialog.stream # None
  /\ Do(dialog, Send(flight, [ask |-> "log", id |-> Polled(dialog)]))
  /\ UNCHANGED <<dialogs, agreed>>

\* The log goes into the viewer that is in the document then.
LogArrives(s) ==
  /\ flight[s].ask = "log"
  /\ Do(IF dialog.shows = "log" THEN [dialog EXCEPT !.text = flight[s].id] ELSE dialog, Over(flight, s))
  /\ UNCHANGED <<dialogs, agreed>>

DetailsArrive(s) ==
  /\ flight[s].ask = "details"
  /\ Do(OpenModal(dialog, "details", flight[s].id), Over(flight, s))
  /\ UNCHANGED <<dialogs, agreed>>

\* A request fails, or the removal ends.
Fails(s) ==
  /\ flight[s] # Unused
  /\ Do(dialog, Over(flight, s))
  /\ UNCHANGED <<dialogs, agreed>>

\* An answer to another part of the page opens or closes the window.
OthersOpen ==
  /\ Opens
  /\ Do(OpenModal(dialog, "nothing", None), flight)
  /\ UNCHANGED agreed

OthersClose ==
  /\ dialog.open
  /\ Do(CloseModal(dialog), flight)
  /\ UNCHANGED <<dialogs, agreed>>

-----------------------------------------------------------------------------

Answered(s) == LogArrives(s) \/ DetailsArrive(s)

Next ==
  \/ /\ Room(flight)
     /\ \/ \E c \in Containers : OpenLog(c) \/ AskDetails(c)
        \/ Poll
  \/ \E c \in Containers : AskRemove(c)
  \/ StopLog \/ Confirm \/ Close \/ Cancel \/ OthersOpen \/ OthersClose
  \/ \E s \in Slots : Answered(s) \/ Fails(s)

Spec == Init /\ [][Next]_vars

(* The fairness of the browser and the server: the log's timer fires, a    *)
(* request ends within its timeout, and a log that is asked for again and  *)
(* again comes at last.                                                    *)
Timers == Room(flight) /\ Poll

Ends(s) == Answered(s) \/ Fails(s)

-----------------------------------------------------------------------------
(* Properties.                                                             *)

\* No log is polled behind a closed window, and nothing is removed that the
\* user has not agreed to in a question that named it, also when the window
\* was taken over by an answer that came late.
NothingUnasked ==
  /\ dialog.stream # None => dialog.open
  /\ \A s \in Slots : flight[s].ask = "remove" => flight[s].id \in agreed

\* A log window that stays open comes to hold the log of the container in
\* its title, and keeps it, although late answers of an earlier one are
\* written into it too.
Chosen == <<dialog.stream, dialog.shows>>

ShowsChosen ==
  dialog.stream # None /\ dialog.shows = "log" =>
    dialog.text = dialog.stream /\ dialog.title = dialog.stream
=============================================================================
