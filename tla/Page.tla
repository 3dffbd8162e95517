-------------------------------- MODULE Page --------------------------------
(***************************************************************************)
(* The panels of the page.  A panel does not read the state of another     *)
(* one: a behaviour of this module is one of the panel in focus, which     *)
(* uses the variables below as its own.  MCPage has a small instance of    *)
(* every panel, PageProofs and PageChoiceProofs what is proved for all of  *)
(* them; what comes of some in the long run is in MCPageLive.              *)
(***************************************************************************)
EXTENDS Integers, Sequences, FiniteSets

CONSTANTS
  Slots, None,
  Containers, Images, PageSize, TableMatching, MaxActions,                 \* DockerTables
  MaxDialogs,                                                              \* DockerDialogs
  LogCards, System, LogFilters, MaxExports, MaxSources,                       \* LogPanel
  FlowKeys, Kinds, MaxRows,                                                \* FlowMonitor
  MaxTime, Counter, Running, Cpu, Keep, MiniKeep, Series,                  \* MonitorView
  Names, MaxAppChanges,                                                    \* AppPanel
  MaxSockets,                                                              \* RemoteDesktop
  KeyboardKeys,                                                            \* RemoteKeys
  MaxSessions,                                                             \* SshTerminal
  Sections, BootSteps, Starts, MaxFrameChanges,                            \* PageFrame
  MaxPoints, MaxDrawn, MinWidth, PointWidth, View, Slack, Edge,            \* TrendChart
  Devices, Matches, Size, Hardware, NoSerials, MaxWork,                    \* DiskReadings
  MaxScripts, Pieces, MaxRuns,                                             \* ScriptPanel
  Root, Below, Fresh, Configured, MaxPicks,                                \* BackupPanel
  Texts, Foreign, Failed, MaxCopies,                                       \* Clipboard
  PartFilters, Connections, PartMatching, MaxMessages, MaxClicks           \* PageParts

VARIABLES
  focus,   \* the panel
  view,    \* its state in the page
  flight,  \* its requests
  server,  \* what it sees of the server, or more of its own state
  extra    \* its counters and history

vars == <<focus, view, flight, server, extra>>

-----------------------------------------------------------------------------

Tables == INSTANCE DockerTables WITH
  Matching <- TableMatching, docker <- view, engine <- server, past <- extra

Dialogs == INSTANCE DockerDialogs WITH
  dialog <- view, dialogs <- server, agreed <- extra

Logs == INSTANCE LogPanel WITH
  Cards <- LogCards, Filters <- LogFilters, MaxChanges <- MaxSources,
  log <- view, sources <- server, changes <- extra

Flows == INSTANCE FlowMonitor WITH
  Keys <- FlowKeys, flow <- view, live <- server, forced <- extra

Monitor == INSTANCE MonitorView WITH
  page <- view, clock <- server

Apps == INSTANCE AppPanel WITH
  MaxChanges <- MaxAppChanges, panel <- view, past <- extra

Remote == INSTANCE RemoteDesktop WITH
  remote <- view, sockets <- server, past <- extra

Keyboard == INSTANCE RemoteKeys WITH
  Keys <- KeyboardKeys, desk <- view, held <- server, past <- extra

Ssh == INSTANCE SshTerminal WITH
  ssh <- view, sessions <- server, timers <- flight, ended <- extra

Frame == INSTANCE PageFrame WITH
  MaxChanges <- MaxFrameChanges, frame <- view, past <- extra

Chart == INSTANCE TrendChart WITH
  points <- server, chart <- view, reader <- extra

Readings == INSTANCE DiskReadings WITH
  machine <- server, page <- view, past <- extra

Scripts == INSTANCE ScriptPanel WITH
  panel <- view, past <- extra

Backups == INSTANCE BackupPanel WITH
  MaxClicks <- MaxPicks, picker <- view, form <- server, past <- extra

Copying == INSTANCE Clipboard WITH
  board <- server, page <- view, browser <- flight, past <- extra

Parts == INSTANCE PageParts WITH
  Filters <- PartFilters, Matching <- PartMatching,
  bar <- view, parts <- server, past <- extra

\* What the panels may be given.  The bounds are numbers and None is no name
\* of anything; a page has places for rows; the menu begins with a section
\* that does not poll and has "system", which is never hidden; the start of
\* the page has steps; a library has a script, the configured sources are
\* directories there can be, and the search for everything is a search.
\* There is more than one snapshot, and a process is in each of the two lists
\* once at most; a chart draws two points or more and is wider than its edges;
\* a description of the hardware has a disk with a size.
ASSUME PageAssumption ==
  /\ MaxActions \in Nat /\ MaxDialogs \in Nat /\ MaxSources \in Nat
  /\ MaxAppChanges \in Nat /\ MaxFrameChanges \in Nat
  /\ None \notin Containers /\ None \notin Names /\ None \notin Starts /\ None \notin BOOLEAN
  /\ None \notin 1 .. MaxSockets /\ None \notin 1 .. MaxSessions
  /\ IsFiniteSet(Containers) /\ Containers # {} /\ PageSize \in Nat \ {0}
  /\ Sections \in Seq(Frame!All) /\ Sections # <<>>
  /\ Sections[1] # "traffic" /\ "system" \in Frame!All
  /\ BootSteps \in Seq({"config", "panel"}) /\ BootSteps # <<>>
  /\ Pieces \in Nat /\ MaxRuns \in Nat /\ MaxScripts \in Nat \ {0}
  /\ MaxPicks \in Nat /\ Configured \subseteq {Root, Below, Fresh}
  /\ MaxCopies \in Nat /\ MaxMessages \in Nat /\ MaxClicks \in Nat
  /\ "all" \in DOMAIN PartMatching
  /\ MaxTime \in Nat \ {0, 1} /\ Counter \in [0 .. MaxTime -> Nat] /\ Keep \in Nat /\ MiniKeep \in Nat
  /\ Cpu \in [Monitor!Pids -> Nat] /\ Monitor!Pids \subseteq Nat
  /\ Running \in [1 .. MaxTime -> [top : Seq(Monitor!Pids), jvm : Seq(Monitor!Pids)]]
  /\ \A t \in 1 .. MaxTime : \A list \in {Running[t].top, Running[t].jvm} :
       \A i, j \in DOMAIN list : list[i] = list[j] => i = j
  /\ MaxPoints \in Nat /\ MaxDrawn \in Nat \ {0, 1} /\ Slack \in Nat /\ None \notin Chart!Lefts
  /\ MinWidth \in Nat /\ PointWidth \in Nat /\ View \in Nat /\ Edge \in Nat /\ 2 * Edge < MinWidth
  /\ IsFiniteSet(Devices) /\ MaxWork \in Nat /\ None \notin 0 .. MaxWork
  /\ Matches \in Seq(SUBSET Devices) /\ \A v \in DOMAIN Matches : Size[v].size \in Nat
  /\ DOMAIN Hardware = 1 .. Len(Hardware) /\ Len(Hardware) \in Nat
  /\ \A i \in DOMAIN Hardware : Hardware[i].size \in Nat
  /\ \E i \in DOMAIN Hardware : Hardware[i].size > 0

-----------------------------------------------------------------------------

Init ==
  \/ focus = "tables" /\ Tables!Init
  \/ focus = "dialogs" /\ Dialogs!Init
  \/ focus = "logs" /\ Logs!Init
  \/ focus = "flows" /\ Flows!Init
  \/ focus = "monitor" /\ Monitor!Init /\ extra = None
  \/ focus = "apps" /\ Apps!Init
  \/ focus = "remote" /\ Remote!Init
  \/ focus = "keyboard" /\ Keyboard!Init /\ flight = None
  \/ focus = "chart" /\ Chart!Init /\ flight = None
  \/ focus = "readings" /\ Readings!Init /\ flight = None
  \/ focus = "ssh" /\ Ssh!Init
  \/ focus = "frame" /\ Frame!Init
  \/ focus = "scripts" /\ Scripts!Init
  \/ focus = "backups" /\ Backups!Init
  \/ focus = "copying" /\ Copying!Init
  \/ focus = "parts" /\ Parts!Init

In(panel) == focus = panel /\ focus' = panel

Next ==
  \/ In("tables") /\ Tables!Next
  \/ In("dialogs") /\ Dialogs!Next
  \/ In("logs") /\ Logs!Next
  \/ In("flows") /\ Flows!Next
  \/ In("monitor") /\ Monitor!Next /\ UNCHANGED extra
  \/ In("apps") /\ Apps!Next
  \/ In("remote") /\ Remote!Next
  \/ In("keyboard") /\ Keyboard!Next /\ UNCHANGED flight
  \/ In("chart") /\ Chart!Next /\ UNCHANGED flight
  \/ In("readings") /\ Readings!Next /\ UNCHANGED flight
  \/ In("ssh") /\ Ssh!Next
  \/ In("frame") /\ Frame!Next
  \/ In("scripts") /\ Scripts!Next
  \/ In("backups") /\ Backups!Next
  \/ In("copying") /\ Copying!Next
  \/ In("parts") /\ Parts!Next

Spec == Init /\ [][Next]_vars

-----------------------------------------------------------------------------
(* Properties: those of the panels, which say what they mean.              *)

\* The variables of every panel keep their types.
PanelTypes ==
  /\ focus = "tables" => Tables!TypeOK
  /\ focus = "dialogs" => Dialogs!TypeOK
  /\ focus = "logs" => Logs!TypeOK
  /\ focus = "flows" => Flows!TypeOK
  /\ focus = "monitor" => Monitor!TypeOK
  /\ focus = "apps" => Apps!TypeOK
  /\ focus = "remote" => Remote!TypeOK
  /\ focus = "keyboard" => Keyboard!TypeOK
  /\ focus = "chart" => Chart!TypeOK
  /\ focus = "readings" => Readings!TypeOK
  /\ focus = "ssh" => Ssh!TypeOK
  /\ focus = "frame" => Frame!TypeOK
  /\ focus = "scripts" => Scripts!TypeOK
  /\ focus = "backups" => Backups!TypeOK
  /\ focus = "copying" => Copying!TypeOK
  /\ focus = "parts" => Parts!TypeOK

\* A batch action on containers reaches only rows that are on the screen,
\* and the table, its page and its boxes belong together.
TablesShowWhatTheyAct ==
  focus = "tables" => Tables!TickedIsShown /\ Tables!TableAgrees

\* The log page's loop runs for the source that is shown and its exports have
\* that source's files, no container's log
\* is polled behind a closed window, and nothing is removed unasked.
LoopsFollowThePage ==
  /\ focus = "logs" => Logs!LoopFollowsPage /\ Logs!ExportsItsOwn
  /\ focus = "dialogs" => Dialogs!NothingUnasked

\* A connection that is shown can be opened, and the flag that holds the
\* refreshes of the connections back goes off again.
FlowsAreReachable ==
  focus = "flows" => Flows!ShownCanBeOpened /\ Flows!LoadingEnds

\* Rates, trend, window and process table show what the snapshots say, in
\* whatever order they arrive; a chart stays where the user has scrolled it.
MonitorShowsWhatWas ==
  /\ focus = "monitor" =>
       /\ Monitor!DiskRateIsBounded
       /\ Monitor!TrendKeepsToItsWindow
       /\ Monitor!OneRowEach
       /\ Monitor!TrendOfThePast
  /\ focus = "chart" => Chart!ScrollIsKept /\ Chart!EndsAreDrawn /\ Chart!TipIsNearest
  /\ focus = "readings" => Readings!RatesAreWork /\ Readings!StorageCountsOnce

\* Detail and buttons of the applications are those of the selected one.
AppsShowTheSelected ==
  focus = "apps" => Apps!DetailStays /\ Apps!ButtonsAgree /\ Apps!LoadingExplained

\* The two terminals have one live socket each, come back or end for a
\* reason, and say what is the case; no key stays pressed by their doing.
TerminalsSayWhatIs ==
  /\ focus = "remote" => Remote!OneDesktop /\ Remote!ComesBack /\ Remote!ButtonReleased
  /\ focus = "keyboard" => Keyboard!NoKeyStuck
  /\ focus = "ssh" => Ssh!SaysWhatIs /\ Ssh!OwnEnd

\* Menu, section, polling, login and the start's overlay agree with each
\* other and with the stored configuration.
FrameAgrees ==
  focus = "frame" =>
    /\ Frame!ShownIsAllowed
    /\ Frame!PollsWhileShown
    /\ Frame!MenuAgrees
    /\ Frame!LoginOrPage

\* Script runs are followed to their end, backups take what was picked, what
\* is said to be copied is, and side bar, messages, log and connections keep to what the user chose last.
PanelsKeepTheChoice ==
  /\ focus = "scripts" => Scripts!FollowedToTheEnd /\ Scripts!TableOfTheEnd
  /\ focus = "backups" => Backups!OnlyWhatWasPicked /\ Backups!WindowTellsTheTruth
  /\ focus = "copying" => Copying!NothingClaimed /\ Copying!LastIsThere
  /\ focus = "parts" =>
       /\ Parts!ChoiceIsKept
       /\ Parts!MessageStays
       /\ Parts!LogFollowsFilter
       /\ Parts!RowsOfSearch
=============================================================================
