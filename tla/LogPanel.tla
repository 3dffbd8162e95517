------------------------------ MODULE LogPanel ------------------------------
(***************************************************************************)
(* The log page (frontend/src/legacy-app.js): the list of log sources, the *)
(* one that is chosen, the level filter, queries, and the loop that asks   *)
(* again every two seconds while the page shows a source.                  *)
(*                                                                         *)
(* Answers carry no number: the result of an earlier source or level may   *)
(* arrive last.  The server is its list of sources.  A result is the       *)
(* source and the level it was asked for; its entries are left out.        *)
(* Operators marked FAULT are seeded errors that no action uses: each      *)
(* replaces the definition that follows it.                                *)
(***************************************************************************)
EXTENDS Naturals, FiniteSets, Requests

CONSTANTS
  Cards,      \* names of log sources
  System,     \* the source of the system's own log
  None,
  Filters,    \* what the level filter is asked to be
  MaxExports, \* bound on exports that are under way
  MaxChanges  \* bound on sources that are added or deleted

VARIABLES
  log,      \* the fields of the page's state that are about logs
  flight,   \* its requests
  sources,  \* the server's list
  changes   \* counter for the bound

vars == <<log, flight, sources, changes>>

Levels == {"all", "error", "warn", "info", "debug"}

Result == [card : Cards, level : Levels]
NoResult == [card |-> None, level |-> "all"]

TypeOK ==
  /\ log \in [auth : BOOLEAN, visible : BOOLEAN,  \* authAuthenticated, the panel is shown
              apps : SUBSET Cards,                \* apps
              current : Cards \cup {None},        \* currentApp
              selected : Cards \cup {None},       \* value of logSourceSelect
              files : Cards \cup {None},          \* whose files have boxes in logFileSelector
              level : Levels,                     \* value of logLevel
              timer : BOOLEAN,                    \* logRealtimeTimer is set
              stats : Result \cup {NoResult},     \* what logStats was made of
              shown : Result \cup {NoResult}]     \* and logResult
  /\ flight \in [Slots -> {Unused}
                   \cup [ask : {"query"}, card : Cards, level : Levels]
                   \cup [ask : {"export"}, card : Cards, files : Cards \cup {None}]
                   \cup [ask : {"apps"}, apps : {None} \cup SUBSET Cards]
                   \cup [ask : {"create", "delete"}, card : Cards, done : BOOLEAN]]
  /\ sources \subseteq Cards
  /\ changes \in 0 .. MaxChanges

AskApps == [ask |-> "apps", apps |-> None]

Init ==
  /\ log = [auth |-> TRUE, visible |-> FALSE, apps |-> {}, current |-> None, selected |-> None,
            files |-> None, level |-> "all", timer |-> FALSE, stats |-> NoResult, shown |-> NoResult]
  /\ flight = Send(NoRequests, AskApps)
  /\ sources \in SUBSET Cards
  /\ changes = 0

-----------------------------------------------------------------------------
(* The functions the handlers call, as changes of the panel.               *)

\* normalizeLogLevelFilter.
Normalized(raw) ==
  IF raw = "warning" THEN "warn" ELSE IF raw \in Levels THEN raw ELSE "all"

\* FAULT: leaving the page does not stop the loop.
KeepLoop(lg, visible) == [lg EXCEPT !.visible = visible, !.timer = @ \/ (visible /\ lg.current # None)]

\* syncLogRealtimeState.
Sync(lg, visible) == [lg EXCEPT !.visible = visible, !.timer = visible /\ lg.current # None]

\* resolveDefaultLogCard.
DefaultCard(apps) ==
  IF apps = {} THEN None ELSE IF System \in apps THEN System ELSE CHOOSE c \in apps : TRUE

\* renderAppCards.
Rendered(lg) == [lg EXCEPT !.selected = IF lg.current \in lg.apps THEN lg.current ELSE None]

\* FAULT: the boxes of the files wait for the user to choose.
BoxesWait(lg) == lg

\* renderLogFileSelector.
Boxes(lg) == [lg EXCEPT !.files = lg.current]

\* ensureCurrentLogCard: without a source the counts stay as they are.
Ensured(lg) ==
  LET card == IF lg.current \in lg.apps THEN lg.current ELSE DefaultCard(lg.apps)
      chosen == Boxes(Rendered([lg EXCEPT !.current = card]))
  IN  IF lg.apps = {} THEN [chosen EXCEPT !.timer = FALSE, !.shown = NoResult]
      ELSE Sync(chosen, lg.visible)

\* queryLogs up to its request: the level filter shows what was asked for.
Query(lg, fl, raw) ==
  /\ log' = IF lg.current = None THEN lg ELSE [lg EXCEPT !.level = Normalized(raw)]
  /\ flight' = IF lg.current = None THEN fl
               ELSE Send(fl, [ask |-> "query", card |-> lg.current, level |-> Normalized(raw)])

-----------------------------------------------------------------------------
(* The user.                                                               *)

\* handleLogSourceChange.
Choose(c) ==
  /\ log.visible /\ log.auth
  /\ c \in log.apps
  /\ Query(Sync(Boxes(Rendered([log EXCEPT !.current = c])), TRUE), flight, log.level)
  /\ UNCHANGED <<sources, changes>>

ChooseNone ==
  /\ log.visible /\ log.auth
  /\ log' = [Boxes(Rendered([log EXCEPT !.current = None])) EXCEPT
               !.timer = FALSE, !.stats = NoResult, !.shown = NoResult]
  /\ UNCHANGED <<flight, sources, changes>>

\* The query button, the button for errors, a click on one of the counts.
Ask(raw) ==
  /\ log.visible /\ log.auth
  /\ Query(log, flight, raw)
  /\ UNCHANGED <<sources, changes>>

\* exportLogs: the files that are ticked go to the chosen source's export.
Export ==
  /\ log.visible /\ log.auth /\ log.current # None
  /\ Cardinality({s \in Slots : flight[s].ask = "export"}) < MaxExports
  /\ flight' = Send(flight, [ask |-> "export", card |-> log.current, files |-> log.files])
  /\ UNCHANGED <<log, sources, changes>>

SwitchSection(visible) ==
  /\ log.auth
  /\ log' = Sync(log, visible)
  /\ UNCHANGED <<flight, sources, changes>>

\* The form for a new source, and the button that deletes the chosen one.
Change(ask, card) ==
  /\ log.auth
  /\ changes < MaxChanges
  /\ changes' = changes + 1
  /\ flight' = Send(flight, [ask |-> ask, card |-> card, done |-> FALSE])
  /\ UNCHANGED <<log, sources>>

Create(c) == log.visible /\ Change("create", c)

Delete == log.visible /\ log.current # None /\ Change("delete", log.current)

-----------------------------------------------------------------------------
(* The loop and the answers.                                               *)

\* FAULT: the loop does not ask again when there is a result.
LoopOnce ==
  /\ log.timer /\ log.shown = NoResult
  /\ Query(log, flight, log.level)
  /\ UNCHANGED <<sources, changes>>

Loop ==
  /\ log.timer
  /\ Query(log, flight, log.level)
  /\ UNCHANGED <<sources, changes>>

\* The server does what a request asks for, or reads its list.
Serve(s) ==
  /\ \/ /\ flight[s].ask = "apps" /\ flight[s].apps = None
        /\ flight' = [flight EXCEPT ![s].apps = sources]
        /\ UNCHANGED sources
     \/ /\ flight[s].ask \in {"create", "delete"} /\ ~flight[s].done
        /\ flight' = [flight EXCEPT ![s].done = TRUE]
        /\ sources' = IF flight[s].ask = "create" THEN sources \cup {flight[s].card}
                      ELSE sources \ {flight[s].card}
  /\ UNCHANGED <<log, changes>>

QueryArrives(s) ==
  /\ flight[s].ask = "query"
  /\ LET result == [card |-> flight[s].card, level |-> flight[s].level]
     IN  log' = [log EXCEPT !.stats = result, !.shown = result]
  /\ flight' = Over(flight, s)
  /\ UNCHANGED <<sources, changes>>

\* loadApps: the list is replaced and the chosen source queried.
AppsArrive(s) ==
  /\ flight[s].ask = "apps" /\ flight[s].apps # None
  /\ Query(Ensured([log EXCEPT !.apps = flight[s].apps]), Over(flight, s), log.level)
  /\ UNCHANGED <<sources, changes>>

\* deleteLogCard: the source that is deleted is no longer chosen.
Forgotten(lg, card) ==
  IF lg.current = card THEN [lg EXCEPT !.current = None, !.timer = FALSE] ELSE lg

\* The page asks for the list when its change is done.
Changed(s) ==
  /\ flight[s].ask \in {"create", "delete"} /\ flight[s].done
  /\ log' = IF flight[s].ask = "create" THEN log ELSE Forgotten(log, flight[s].card)
  /\ flight' = [flight EXCEPT ![s] = AskApps]
  /\ UNCHANGED <<sources, changes>>

\* The archive is opened in a window of its own.
Exported(s) ==
  /\ flight[s].ask = "export"
  /\ flight' = Over(flight, s)
  /\ UNCHANGED <<log, sources, changes>>

\* A request fails, is refused or takes too long, with its work done or not.
Fails(s) ==
  /\ flight[s] # Unused
  /\ flight' = Over(flight, s)
  /\ UNCHANGED <<log, sources, changes>>

\* handleAuthRequired.
AuthLost ==
  /\ log.auth
  /\ log' = [log EXCEPT !.auth = FALSE, !.timer = FALSE]
  /\ UNCHANGED <<flight, sources, changes>>

-----------------------------------------------------------------------------

Answered(s) == QueryArrives(s) \/ AppsArrive(s) \/ Changed(s) \/ Exported(s)

Next ==
  \/ ChooseNone \/ AuthLost
  \/ \E v \in BOOLEAN : SwitchSection(v)
  \/ \E s \in Slots : Serve(s) \/ Answered(s) \/ Fails(s)
  \/ /\ Room(flight)
     /\ \/ \E c \in Cards : Choose(c) \/ Create(c)
        \/ \E raw \in Filters : Ask(raw)
        \/ Delete \/ Export \/ Loop

Spec == Init /\ [][Next]_vars

(* The fairness of the browser and the server: the loop's timer fires, a   *)
(* request ends within its timeout, and one that is made again and again   *)
(* is answered at last.                                                    *)
Timers == Room(flight) /\ Loop

Ends(s) == Answered(s) \/ Fails(s)

-----------------------------------------------------------------------------
(* Properties.                                                             *)

\* The loop runs for a source that is shown and never behind another page,
\* and the source is one of the list, whatever was chosen, deleted, loaded
\* and answered in between.
LoopFollowsPage ==
  /\ log.timer => log.visible /\ log.current # None
  /\ log.auth /\ log.visible /\ log.current # None => log.timer
  /\ log.current \in log.apps \cup {None}

\* The files of an export are those of the source it is asked of: the boxes
\* follow the choice, whoever changed it.
ExportsItsOwn ==
  /\ log.current # None => log.files = log.current
  /\ \A s \in Slots : flight[s].ask = "export" => flight[s].files = flight[s].card

\* A result of another source or level that came late does not stay: a page
\* that keeps its choice comes to show what belongs to it, and keeps that.
Chosen == <<log.auth, log.visible, log.current, log.level>>

ShowsChosen ==
  log.auth /\ log.visible /\ log.current # None =>
    /\ log.shown = [card |-> log.current, level |-> log.level]
    /\ log.stats = log.shown
=============================================================================
