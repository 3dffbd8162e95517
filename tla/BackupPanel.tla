---------------------------- MODULE BackupPanel ----------------------------
(***************************************************************************)
(* The page's panel of backups and the window directories are picked in    *)
(* (frontend/src/legacy-app.js).  The window is one for both uses: what is *)
(* picked, for whom, and which directories are unfolded are variables of   *)
(* the module, set before the directories are loaded; the answer of a      *)
(* directory that was unfolded or made draws the window with what they are *)
(* then, and opens it again if it was closed.  Operators marked FAULT are  *)
(* seeded errors that no action uses: each replaces the definition that    *)
(* follows it.                                                             *)
(***************************************************************************)
EXTENDS Integers, FiniteSets, Requests

CONSTANTS
  Root, Below,   \* a root and a directory in it
  Fresh,         \* the directory that can be made
  Configured,    \* the sources of the configuration
  MaxClicks,     \* bound on the clicks
  None

VARIABLES
  picker,   \* the variables of the window
  form,     \* backupSelectedSources, backupTarget and the list of backups
  flight,   \* requests
  past      \* history

vars == <<picker, form, flight, past>>

Paths == {Root, Below, Fresh}
Uses == {"sources", "target"}

TypeOK ==
  /\ picker \in [use : Uses \cup {None},        \* fsModalConfirmHandler, fsModalMulti, fsModalAllowCreate
                 selected : SUBSET Paths, unfolded : SUBSET Paths,
                 roots : BOOLEAN,               \* fsModalRoots is loaded
                 cache : SUBSET Paths,          \* keys of fsTreeCache
                 drawn : {None} \cup [use : Uses, selected : SUBSET Paths]]
  /\ form \in [sources : SUBSET Paths, target : Paths \cup {None}]
  /\ flight \in [Slots -> {Unused} \cup [ask : {"open", "unfold", "make", "makeTarget", "refold", "run", "list"},
                                         path : Paths \cup {None}]]
  /\ past \in [clicks : 0 .. MaxClicks, ticked : [Uses -> SUBSET Paths],
               strayed : BOOLEAN]

Init ==
  /\ picker = [use |-> None, selected |-> {}, unfolded |-> {}, roots |-> FALSE,
               cache |-> {}, drawn |-> None]
  /\ form = [sources |-> {}, target |-> None]
  /\ flight = NoRequests
  /\ past = [clicks |-> 0, ticked |-> [u \in Uses |-> {}], strayed |-> FALSE]

Click ==
  /\ past.clicks < MaxClicks
  /\ past' = [past EXCEPT !.clicks = @ + 1]

Closed == picker.drawn = None

-----------------------------------------------------------------------------
(* The window.                                                             *)

\* renderDirectoryPickerModal: it opens the window.
Drawn(p) == [p EXCEPT !.drawn = [use |-> p.use, selected |-> p.selected]]

Multi(use) == use = "sources"

\* FAULT: who the directories are for is kept from the time before.
ForWhomBefore(p, use, selected) ==
  [p EXCEPT !.use = IF @ = None THEN use ELSE @, !.selected = selected, !.unfolded = {}]

Prepared(p, use, selected) ==
  [p EXCEPT !.use = use, !.selected = selected, !.unfolded = {}]

\* The roots are unfolded when the window opens.
Opened(p) == Drawn([p EXCEPT !.roots = TRUE, !.cache = @ \cup {Root}, !.unfolded = @ \cup {Root}])

Loaded == picker.roots /\ Root \in picker.cache

\* openDirectoryPicker: it waits for what has not been loaded yet.
Open(use) ==
  /\ Closed /\ Click
  /\ LET p == Prepared(picker, use, IF use = "sources" THEN form.sources ELSE {form.target} \ {None})
     IN  \/ /\ Loaded
            /\ picker' = Opened(p)
            /\ UNCHANGED flight
         \/ /\ ~Loaded /\ Room(flight)
            /\ picker' = p
            /\ flight' = Send(flight, [ask |-> "open", path |-> None])
  /\ UNCHANGED form

OpenArrives(s) ==
  /\ flight[s].ask = "open"
  /\ picker' = Opened(picker)
  /\ flight' = Over(flight, s)
  /\ UNCHANGED <<form, past>>

\* FAULT: a directory that is ticked is added, to a target as well.
AlwaysAdds(selected, path) == selected \cup {path}

Added(selected, path) == IF Multi(picker.use) THEN selected \cup {path} ELSE {path}

Visible(path) == path = Root \/ (Root \in picker.unfolded /\ Root \in picker.cache /\ path # Fresh)

Tick(path) ==
  /\ ~Closed /\ Visible(path)
  /\ past.clicks < MaxClicks
  /\ past' = [past EXCEPT !.clicks = @ + 1, !.ticked[picker.use] = @ \cup {path}]
  /\ LET selected == IF path \in picker.selected THEN picker.selected \ {path}
                     ELSE Added(picker.selected, path)
     IN  picker' = Drawn([picker EXCEPT !.selected = selected])
  /\ UNCHANGED <<form, flight>>

\* A directory is folded, or unfolded when its tree is there.
Unfold(path) ==
  /\ ~Closed /\ Visible(path) /\ Click
  /\ IF path \in picker.unfolded
     THEN /\ picker' = Drawn([picker EXCEPT !.unfolded = @ \ {path}])
          /\ UNCHANGED flight
     ELSE IF path \in picker.cache
     THEN /\ picker' = Drawn([picker EXCEPT !.unfolded = @ \cup {path}])
          /\ UNCHANGED flight
     ELSE /\ Room(flight)
          /\ picker' = [picker EXCEPT !.unfolded = @ \cup {path}]
          /\ flight' = Send(flight, [ask |-> "unfold", path |-> path])
  /\ UNCHANGED form

UnfoldArrives(s) ==
  /\ flight[s].ask = "unfold"
  /\ picker' = Drawn([picker EXCEPT !.cache = @ \cup {flight[s].path}])
  /\ flight' = Over(flight, s)
  /\ UNCHANGED <<form, past>>

Confirmed(f, use, selected) ==
  IF use = "sources" THEN [f EXCEPT !.sources = selected]
  ELSE [f EXCEPT !.target = IF selected = {} THEN None ELSE CHOOSE p \in selected : TRUE]

Confirm ==
  /\ ~Closed /\ Click
  /\ form' = Confirmed(form, picker.use, picker.selected)
  /\ picker' = [picker EXCEPT !.drawn = None]
  /\ UNCHANGED flight

Cancel ==
  /\ ~Closed /\ Click
  /\ picker' = [picker EXCEPT !.drawn = None]
  /\ UNCHANGED <<form, flight>>

-----------------------------------------------------------------------------
(* A directory is made.                                                    *)

\* The button of the window; it is there for a target only.
Make ==
  /\ ~Closed /\ picker.drawn.use = "target"
  /\ Room(flight) /\ Click
  /\ flight' = Send(flight, [ask |-> "make", path |-> Fresh])
  /\ UNCHANGED <<picker, form>>

\* The tree of its parent is loaded again.
Made(s) ==
  /\ flight[s].ask = "make"
  /\ picker' = [picker EXCEPT !.cache = @ \ {Root}, !.unfolded = @ \cup {Root}]
  /\ flight' = [flight EXCEPT ![s].ask = "refold"]
  /\ UNCHANGED <<form, past>>

\* It is ticked, in the window as it is now.
RefoldArrives(s) ==
  /\ flight[s].ask = "refold"
  /\ LET selected == IF flight[s].path \in picker.selected THEN picker.selected
                     ELSE Added(picker.selected, flight[s].path)
     IN  picker' = Drawn([picker EXCEPT !.cache = @ \cup {Root}, !.selected = selected])
  /\ past' = [past EXCEPT !.strayed = @ \/ picker.use # "target",
                          !.ticked["target"] = @ \cup {flight[s].path}]
  /\ flight' = Over(flight, s)
  /\ UNCHANGED form

\* The button of the panel, which asks for a name.
MakeTarget ==
  /\ Closed /\ Room(flight) /\ Click
  /\ flight' = Send(flight, [ask |-> "makeTarget", path |-> Fresh])
  /\ UNCHANGED <<picker, form>>

TargetMade(s) ==
  /\ flight[s].ask = "makeTarget"
  /\ form' = [form EXCEPT !.target = flight[s].path]
  /\ past' = [past EXCEPT !.ticked["target"] = @ \cup {flight[s].path}]
  /\ flight' = Over(flight, s)
  /\ UNCHANGED picker

-----------------------------------------------------------------------------
(* Backups.                                                                *)

Remove(path) ==
  /\ Closed /\ path \in form.sources /\ Click
  /\ form' = [form EXCEPT !.sources = @ \ {path}]
  /\ UNCHANGED <<picker, flight>>

Ask(ask) ==
  /\ Closed /\ Room(flight) /\ Click
  /\ flight' = Send(flight, [ask |-> ask, path |-> None])
  /\ UNCHANGED <<picker, form>>

\* The backup has been made, and the list is read again.
RunArrives(s) ==
  /\ flight[s].ask = "run"
  /\ flight' = [flight EXCEPT ![s].ask = "list"]
  /\ UNCHANGED <<picker, form, past>>

\* loadBackups fills in what the user has not chosen.
Listed(f) ==
  [f EXCEPT !.sources = IF @ = {} THEN Configured ELSE @,
            !.target = IF @ = None THEN Root ELSE @]

ListArrives(s) ==
  /\ flight[s].ask = "list"
  /\ form' = Listed(form)
  /\ flight' = Over(flight, s)
  /\ UNCHANGED <<picker, past>>

Fails(s) ==
  /\ flight[s] # Unused
  /\ flight' = Over(flight, s)
  /\ UNCHANGED <<picker, form, past>>

-----------------------------------------------------------------------------

Next ==
  \/ \E u \in Uses : Open(u)
  \/ \E p \in Paths : Tick(p) \/ Unfold(p) \/ Remove(p)
  \/ Confirm \/ Cancel \/ Make \/ MakeTarget \/ Ask("run") \/ Ask("list")
  \/ \E s \in Slots :
       \/ OpenArrives(s) \/ UnfoldArrives(s) \/ Made(s) \/ RefoldArrives(s)
       \/ TargetMade(s) \/ RunArrives(s) \/ ListArrives(s) \/ Fails(s)

Spec == Init /\ [][Next]_vars

-----------------------------------------------------------------------------
(* Properties.                                                             *)

\* A directory is archived only if it was ticked for that or configured, and
\* a target that was ticked is not: unless a directory that was being made
\* for the target came when the window was open for the sources.
OnlyWhatWasPicked ==
  ~past.strayed => form.sources \subseteq past.ticked["sources"] \cup Configured

\* The window shows what its buttons would confirm, whatever answer drew it,
\* and a target is one directory.
WindowTellsTheTruth ==
  ~Closed =>
    /\ picker.drawn = [use |-> picker.use, selected |-> picker.selected]
    /\ ~Multi(picker.use) => Cardinality(picker.selected) <= 1

=============================================================================
