----------------------------- MODULE MCPageLive -----------------------------
(***************************************************************************)
(* The parts of the page that something is to come of in the long run: the *)
(* monitor's socket and polling (the variables of MonitorSocket), the log  *)
(* page, the windows of the Docker page, and the start of the page (the    *)
(* variables below).  As in MCPage a behaviour is one of the part in       *)
(* focus; the variables of the others stay as they are.  The panels are    *)
(* smaller here than in MCPage, which has their safety.                    *)
(***************************************************************************)
EXTENDS MonitorSocket, FiniteSets

CONSTANTS Slots, s1, s2, s3

VARIABLES
  focus,   \* the part
  view,    \* a panel's state in the page
  flight,  \* its requests
  server,  \* what it sees of the server
  extra    \* its counters and history

panelVars == <<view, flight, server, extra>>
pageVars == <<focus, panelVars, vars>>

-----------------------------------------------------------------------------

Logs == INSTANCE LogPanel WITH
  Cards <- {"sys", "app"}, System <- "sys", Filters <- {"all", "warning"}, MaxExports <- 0, MaxChanges <- 0,
  log <- view, sources <- server, changes <- extra

Dialogs == INSTANCE DockerDialogs WITH
  Containers <- {"c1", "c2"}, MaxDialogs <- 2,
  dialog <- view, dialogs <- server, agreed <- extra

Frame == INSTANCE PageFrame WITH
  Sections <- <<"monitor", "traffic", "system">>, BootSteps <- <<"config", "panel">>,
  Starts <- {1, 2}, MaxChanges <- 1, frame <- view, past <- extra

-----------------------------------------------------------------------------

\* A panel is in focus: nobody is logged in to the monitor.
NoMonitor == Init /\ ~session

NoPanel == view = None /\ flight = None /\ server = None /\ extra = None

PageInit ==
  \/ focus = "monitor" /\ Init /\ NoPanel
  \/ focus = "logs" /\ Logs!Init /\ NoMonitor
  \/ focus = "dialogs" /\ Dialogs!Init /\ NoMonitor
  \/ focus = "frame" /\ Frame!Init /\ NoMonitor

In(panel) == focus = panel /\ UNCHANGED <<focus, vars>>

PageNext ==
  \/ focus = "monitor" /\ Next /\ UNCHANGED <<focus, panelVars>>
  \/ In("logs") /\ Logs!Next
  \/ In("dialogs") /\ Dialogs!Next
  \/ In("frame") /\ Frame!Next

\* The timers and answers of the panels, as each of them says it.
PanelTimers ==
  \/ In("logs") /\ Logs!Timers
  \/ In("dialogs") /\ Dialogs!Timers
  \/ In("frame") /\ Frame!Timers

PanelEnds(s) ==
  \/ In("logs") /\ Logs!Ends(s)
  \/ In("dialogs") /\ Dialogs!Ends(s)
  \/ In("frame") /\ Frame!Ends(s)

PanelAnswered(s) ==
  \/ In("logs") /\ Logs!Answered(s)
  \/ In("dialogs") /\ Dialogs!Answered(s)
  \/ In("frame") /\ Frame!InTime(s)

PageFairness ==
  /\ Fairness
  /\ WF_pageVars(PanelTimers)
  /\ \A s \in Slots :
       /\ WF_pageVars(PanelEnds(s))
       /\ SF_pageVars(PanelAnswered(s))
       /\ SF_pageVars(In("frame") /\ Frame!ReadInTime(s))

PageSpec == PageInit /\ [][PageNext]_pageVars /\ PageFairness

-----------------------------------------------------------------------------
(* Properties: those of the parts, which say what they mean.               *)

\* When the user leaves a panel alone it comes to show what was chosen, and
\* keeps it: the log of the source and level, the container's log in the
\* window.  And the page does not stay behind the overlay of its start.
Chosen ==
  CASE focus = "logs" -> Logs!Chosen
    [] focus = "dialogs" -> Dialogs!Chosen
    [] focus = "frame" -> <<Frame!Started>>
    [] OTHER -> <<>>

Shown ==
  /\ focus = "logs" => Logs!ShowsChosen
  /\ focus = "dialogs" => Dialogs!ShowsChosen
  /\ focus = "frame" => Frame!Started

PanelsSettle == <>[][FALSE]_Chosen => <>[]Shown
=============================================================================
