------------------------------ MODULE AppPanel ------------------------------
(***************************************************************************)
(* The page of the applications (frontend/src/legacy-app.js): the list,    *)
(* the selected application with its detail, and the buttons that start,   *)
(* change and delete it.                                                   *)
(*                                                                         *)
(* An application is its name and whether it is enabled; the words and     *)
(* boxes that filter the table are left out, and the rest of the form.     *)
(* The server is the state of each name.  Operators marked FAULT are       *)
(* seeded errors that no action uses: each replaces the definition that    *)
(* follows it.                                                             *)
(***************************************************************************)
EXTENDS Naturals, FiniteSets, Requests

CONSTANTS
  Names,      \* of applications
  None,
  MaxChanges  \* bound on what is created, changed, deleted and started

VARIABLES
  panel,    \* the fields of the page's state about applications
  flight,   \* requests
  server,   \* what the server knows of each name
  past      \* history: the answer that came for the selection; may loading last?; changes

vars == <<panel, flight, server, past>>

Opt == Names \cup {None}
Known == [Names -> {"none", "on", "off"}]
Nothing == [n \in Names |-> "none"]
Listed(apps) == {n \in Names : apps[n] # "none"}

TypeOK ==
  /\ panel \in [apps : Known,          \* managedApps
                selected : Opt,        \* appManagerSelectedName
                detail : Opt,          \* the name in appManagerDetail
                loading : BOOLEAN,     \* appManagerDetailLoading
                start : BOOLEAN, edit : BOOLEAN]  \* the buttons for the selected one are enabled
  /\ flight \in [Slots -> {Unused}
        \cup [ask : {"apps"}, then : Opt, answer : Known, made : BOOLEAN]
        \cup [ask : {"detail"}, name : Names, then : Opt]
        \cup [ask : {"save", "delete", "start"}, old : Opt, name : Opt, done : BOOLEAN]]
  /\ server \in Known
  /\ past \in [answered : Opt, excused : BOOLEAN, changes : 0 .. MaxChanges]

Init ==
  /\ panel = [apps |-> Nothing, selected |-> None, detail |-> None, loading |-> FALSE,
              start |-> FALSE, edit |-> FALSE]
  /\ flight = NoRequests
  /\ server \in Known
  /\ past = [answered |-> None, excused |-> FALSE, changes |-> 0]

-----------------------------------------------------------------------------
(* The functions the handlers call, as changes of the panel.               *)

\* FAULT: a button that is enabled stays so.
StaysEnabled(p) ==
  [p EXCEPT !.edit = @ \/ p.selected \in Listed(p.apps),
            !.start = @ \/ (p.selected \in Listed(p.apps) /\ p.apps[p.selected] = "on")]

\* renderManagedAppsTable with updateAppManagerActionButtons.
Rendered(p) ==
  [p EXCEPT !.edit = p.selected \in Listed(p.apps),
            !.start = p.selected \in Listed(p.apps) /\ p.apps[p.selected] = "on"]

AskApps(then) == [ask |-> "apps", then |-> then, answer |-> Nothing, made |-> FALSE]

\* selectManagedApp up to the request for the detail, in slot s; a detail
\* that is there is loaded again only when it is forced.
Select(p, n, s, then, force) ==
  LET chosen == Rendered([p EXCEPT !.selected = n])
  IN  /\ panel' = IF force \/ p.detail # n THEN [chosen EXCEPT !.loading = TRUE] ELSE chosen
      /\ flight' = IF force \/ p.detail # n
                   THEN [flight EXCEPT ![s] = [ask |-> "detail", name |-> n, then |-> then]]
                   ELSE flight
      /\ past' = [past EXCEPT !.answered = IF p.selected = n THEN @ ELSE None,
                              !.excused = chosen.loading /\ (@ \/ (~force /\ p.detail = n))]

FreeSlot == CHOOSE s \in Slots : flight[s] = Unused

\* What the detail shows: renderManagedAppDetail.
Shows(p) ==
  IF p.selected = None THEN "choose" ELSE IF p.loading THEN "loading"
  ELSE IF p.detail = p.selected THEN "detail" ELSE "no detail"

-----------------------------------------------------------------------------
(* The user.                                                               *)

\* loadManagedApps, by its button or because the page is entered; a list
\* that is there is only drawn again when it is not forced.
Load(force) ==
  /\ IF ~force /\ Listed(panel.apps) # {}
     THEN panel' = Rendered(panel) /\ UNCHANGED flight
     ELSE panel' = panel /\ flight' = Send(flight, AskApps(None))
  /\ UNCHANGED <<server, past>>

ClickRow(n, force) ==
  /\ n \in Listed(panel.apps)
  /\ Select(panel, n, FreeSlot, None, force)
  /\ UNCHANGED server

Change(ask, old, new) ==
  /\ past.changes < MaxChanges
  /\ past' = [past EXCEPT !.changes = @ + 1]
  /\ flight' = Send(flight, [ask |-> ask, old |-> old, name |-> new, done |-> FALSE])
  /\ UNCHANGED <<panel, server>>

\* The buttons for the selected application, and the row's own start button.
Start ==
  \/ panel.start /\ panel.selected # None /\ Change("start", panel.selected, panel.selected)
  \/ \E n \in Names : panel.apps[n] = "on" /\ Change("start", n, n)

Delete == panel.edit /\ panel.selected # None /\ Change("delete", panel.selected, None)

\* openManagedAppEditorModal and its button: a new one, or the selected one
\* under any name.
Save ==
  \E n \in Names :
    \/ Change("save", None, n)
    \/ panel.edit /\ panel.selected \in Listed(panel.apps) /\ Change("save", panel.selected, n)

-----------------------------------------------------------------------------
(* The server.                                                             *)

Refused(q) ==
  \/ q.ask = "save" /\ q.old = None /\ server[q.name] # "none"
  \/ q.ask = "save" /\ q.old # None /\ (server[q.old] = "none" \/ (q.name # q.old /\ server[q.name] # "none"))
  \/ q.ask \in {"delete", "start"} /\ server[q.old] = "none"

Without(known, n) == [known EXCEPT ![n] = "none"]

Serve(s) ==
  /\ \/ /\ flight[s].ask = "apps" /\ ~flight[s].made
        /\ flight' = [flight EXCEPT ![s].answer = server, ![s].made = TRUE]
        /\ UNCHANGED server
     \/ /\ flight[s].ask \in {"save", "delete", "start"} /\ ~flight[s].done /\ ~Refused(flight[s])
        /\ flight' = [flight EXCEPT ![s].done = TRUE]
        /\ \/ /\ flight[s].ask = "save"
              /\ \E state \in {"on", "off"} :
                   server' = [(IF flight[s].old = None THEN server ELSE Without(server, flight[s].old))
                                EXCEPT ![flight[s].name] = state]
           \/ flight[s].ask = "delete" /\ server' = Without(server, flight[s].old)
           \/ flight[s].ask = "start" /\ UNCHANGED server
  /\ UNCHANGED <<panel, past>>

-----------------------------------------------------------------------------
(* Answers.                                                                *)

\* loadManagedApps from its answer on: the selection stays when the list has
\* it, else the first takes its place.
AppsArrive(s) ==
  /\ flight[s].ask = "apps" /\ flight[s].made
  /\ LET p == Rendered([panel EXCEPT !.apps = flight[s].answer])
         then == flight[s].then
         next == IF p.selected \in Listed(p.apps) THEN p.selected
                 ELSE IF Listed(p.apps) = {} THEN None ELSE CHOOSE n \in Listed(p.apps) : TRUE
         empty == Rendered([p EXCEPT !.selected = None, !.detail = None, !.loading = FALSE])
     IN  IF next # None THEN Select(p, next, s, then, TRUE)
         ELSE IF then # None THEN Select(empty, then, s, None, TRUE)
         ELSE /\ panel' = empty
              /\ flight' = Over(flight, s)
              /\ past' = [past EXCEPT !.answered = None, !.excused = FALSE]
  /\ UNCHANGED server

\* FAULT: a detail is taken whatever has been selected since.
TakesAny(p, n) == TRUE

Takes(p, n) == p.selected = n

\* loadManagedAppDetail from its answer on; what was saved or started is
\* selected after it.
DetailArrives(s) ==
  /\ flight[s].ask = "detail"
  /\ LET n == flight[s].name
         then == flight[s].then
         took == IF Takes(panel, n) THEN [panel EXCEPT !.detail = n, !.loading = FALSE] ELSE panel
     IN  IF then # None THEN Select(took, then, s, None, TRUE)
         ELSE /\ panel' = took
              /\ flight' = Over(flight, s)
              /\ past' = [past EXCEPT !.answered = IF panel.selected = n THEN n ELSE @,
                                      !.excused = @ /\ took.loading]
  /\ UNCHANGED server

\* FAULT: a detail that is refused leaves the panel loading.
StillLoading(p) == p

NotLoading(p) == [p EXCEPT !.loading = FALSE]

\* The server refuses a detail: whatever is loading, the panel says it is not.
DetailRefused(s) ==
  /\ flight[s].ask = "detail"
  /\ panel' = NotLoading(panel)
  /\ flight' = Over(flight, s)
  /\ past' = [past EXCEPT !.excused = FALSE]
  /\ UNCHANGED server

\* deleteManagedApp from its answer on.
Deselected(p, n) == IF p.selected = n THEN [p EXCEPT !.selected = None, !.detail = None] ELSE p

Changed(s) ==
  /\ flight[s].ask \in {"save", "delete", "start"} /\ flight[s].done
  /\ panel' = IF flight[s].ask = "delete" THEN Deselected(panel, flight[s].old) ELSE panel
  /\ past' = IF panel'.selected = panel.selected THEN past ELSE [past EXCEPT !.answered = None]
  /\ flight' = [flight EXCEPT ![s] = AskApps(flight[s].name)]
  /\ UNCHANGED server

\* A request fails or takes too long, or what it asks for is refused.  A
\* detail that fails leaves the panel loading.
Fails(s) ==
  /\ flight[s] # Unused
  /\ flight' = Over(flight, s)
  /\ past' = IF flight[s].ask = "detail" THEN [past EXCEPT !.excused = TRUE] ELSE past
  /\ UNCHANGED <<panel, server>>

-----------------------------------------------------------------------------

Next ==
  \/ /\ Room(flight)
     /\ \/ Start \/ Delete \/ Save
        \/ \E force \in BOOLEAN : Load(force) \/ \E n \in Names : ClickRow(n, force)
  \/ \E s \in Slots :
       \/ Serve(s) \/ AppsArrive(s) \/ DetailArrives(s) \/ DetailRefused(s)
       \/ Changed(s) \/ Fails(s)

Spec == Init /\ [][Next]_vars

-----------------------------------------------------------------------------
(* Properties.                                                             *)

\* A detail that has come for the selected application stays its detail: no
\* late answer for another one takes its place.
DetailStays == past.answered # None => panel.detail = panel.selected

\* The buttons for the selected application are enabled only for one that
\* the list has, and the start button only for one that is enabled, through
\* renames, deletions and lists that come late.
ButtonsAgree ==
  panel.selected # None =>
    /\ panel.edit => panel.selected \in Listed(panel.apps)
    /\ panel.start => panel.apps[panel.selected] = "on"

\* The panel says that a detail is loading only while it is, with two
\* exceptions after which it says so until the next load: a request for one
\* was lost, or the user went back to a detail that was there while another
\* one was loading (its answer is then passed over and ends nothing).
LoadingExplained ==
  Shows(panel) = "loading" => Awaits(flight, "detail") \/ past.excused
=============================================================================
