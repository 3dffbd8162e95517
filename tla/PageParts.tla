----------------------------- MODULE PageParts -----------------------------
(***************************************************************************)
(* Four small parts of the page that live by themselves: the side bar,     *)
(* the messages that go after a while, the list of the server's own log    *)
(* with its filter, and the table of connections with its search           *)
(* (frontend/src/legacy-app.js).  Operators marked FAULT are seeded errors *)
(* that no action uses: each replaces the definition that follows it.      *)
(***************************************************************************)
EXTENDS Integers, Requests

CONSTANTS
  Filters,      \* what the log can be filtered by
  Connections,  \* a set of connections
  Matching,     \* for each search the connections it finds; "all" finds all
  MaxMessages,  \* bound on the messages
  MaxClicks     \* bound on the other things the user does

VARIABLES
  bar,      \* the side bar
  parts,    \* message, log and connections
  flight,   \* requests
  past      \* history

vars == <<bar, parts, flight, past>>

Searches == DOMAIN Matching

TypeOK ==
  /\ bar \in [narrow : BOOLEAN, collapsed : BOOLEAN, stored : BOOLEAN]
  /\ parts \in [message : 0 .. MaxMessages, visible : BOOLEAN, timers : SUBSET (1 .. MaxMessages),
                filter : Filters, lines : Filters, waits : BOOLEAN,
                search : Searches, known : SUBSET Connections, rows : SUBSET Connections]
  /\ flight \in [Slots -> {Unused} \cup [ask : {"log"}, filter : Filters] \cup
                          [ask : {"traffic"}, found : SUBSET Connections]]
  /\ past \in [clicks : 0 .. MaxClicks, chosen : BOOLEAN, overtaken : BOOLEAN, failed : BOOLEAN]

\* The page is loaded: a narrow window shows the side bar whatever is stored.
Init ==
  /\ \E narrow, stored \in BOOLEAN :
       /\ bar = [narrow |-> narrow, collapsed |-> stored /\ ~narrow, stored |-> stored]
       /\ past = [clicks |-> 0, chosen |-> stored, overtaken |-> FALSE, failed |-> FALSE]
  /\ \E filter \in Filters :
       parts = [message |-> 0, visible |-> FALSE, timers |-> {},
                filter |-> filter, lines |-> filter, waits |-> FALSE,
                search |-> "all", known |-> {}, rows |-> {}]
  /\ flight = NoRequests

Click == past.clicks < MaxClicks

Clicked == [past EXCEPT !.clicks = @ + 1]

-----------------------------------------------------------------------------
(* The side bar (bindSidebarToggle).                                       *)

\* A click counts on a narrow window as well, and is stored.
Collapse ==
  /\ Click
  /\ bar' = [bar EXCEPT !.collapsed = ~@, !.stored = ~bar.collapsed]
  /\ past' = [Clicked EXCEPT !.chosen = ~bar.collapsed]
  /\ UNCHANGED <<parts, flight>>

\* FAULT: what a narrow window does to the side bar is stored.
StoresWidth(b) ==
  [b EXCEPT !.narrow = ~@, !.collapsed = @ /\ b.narrow, !.stored = @ /\ b.narrow]

\* A window that becomes narrow shows the side bar; a wide one leaves it.
Resized(b) == [b EXCEPT !.narrow = ~@, !.collapsed = @ /\ b.narrow]

Resize ==
  /\ Click /\ past' = Clicked
  /\ bar' = Resized(bar)
  /\ UNCHANGED <<parts, flight>>

-----------------------------------------------------------------------------
(* Messages (showCopyToast, showAppToast).                                 *)

\* FAULT: the timer of the message before goes on.
TimersKept(p, n) == p.timers \cup {n}

Timers(p, n) == {n}

\* Something is copied, answered or has failed.
Tell ==
  /\ parts.message < MaxMessages
  /\ LET n == parts.message + 1
     IN  parts' = [parts EXCEPT !.message = n, !.visible = TRUE, !.timers = Timers(parts, n)]
  /\ UNCHANGED <<bar, flight, past>>

Hide(n) ==
  /\ n \in parts.timers
  /\ parts' = [parts EXCEPT !.visible = FALSE, !.timers = @ \ {n}]
  /\ UNCHANGED <<bar, flight, past>>

-----------------------------------------------------------------------------
(* The server's log.                                                       *)

\* loadRuntimeLogs reads the filter when it asks.
AskLog(p) == Send(flight, [ask |-> "log", filter |-> p.filter])

\* The keyword is changed: the list is asked for when typing pauses.
Type ==
  /\ Click /\ past' = Clicked
  /\ \E f \in Filters : parts' = [parts EXCEPT !.filter = f, !.waits = TRUE]
  /\ UNCHANGED <<bar, flight>>

Pauses ==
  /\ parts.waits /\ Room(flight)
  /\ parts' = [parts EXCEPT !.waits = FALSE]
  /\ flight' = AskLog(parts)
  /\ UNCHANGED <<bar, past>>

\* FAULT: nothing is asked while an answer is awaited.
AskOnce(p) == IF Awaits(flight, "log") THEN flight ELSE AskLog(p)

AskNow(p) == AskLog(p)

\* The level is changed, or the button is clicked.
Level ==
  /\ Click /\ past' = Clicked /\ Room(flight)
  /\ \E f \in Filters :
       LET p == [parts EXCEPT !.filter = f] IN parts' = p /\ flight' = AskNow(p)
  /\ UNCHANGED bar

\* The list is drawn whatever the filter is by now.
LogArrives(s) ==
  /\ flight[s].ask = "log"
  /\ parts' = [parts EXCEPT !.lines = flight[s].filter]
  /\ past' = [past EXCEPT !.overtaken = @ \/ flight[s].filter # parts.filter]
  /\ flight' = Over(flight, s)
  /\ UNCHANGED bar

-----------------------------------------------------------------------------
(* The connections.                                                        *)

\* Every two seconds while they are shown, or a click.
AskTraffic ==
  /\ Click /\ past' = Clicked /\ Room(flight)
  /\ \E found \in SUBSET Connections : flight' = Send(flight, [ask |-> "traffic", found |-> found])
  /\ UNCHANGED <<bar, parts>>

\* FAULT: a new answer is drawn without the search.
AllRows(p) == [p EXCEPT !.rows = p.known]

\* renderTrafficConnectionTable.
Rows(p) == [p EXCEPT !.rows = p.known \cap Matching[p.search]]

TrafficArrives(s) ==
  /\ flight[s].ask = "traffic"
  /\ parts' = Rows([parts EXCEPT !.known = flight[s].found])
  /\ flight' = Over(flight, s)
  /\ UNCHANGED <<bar, past>>

Search ==
  /\ Click /\ past' = Clicked
  /\ \E q \in Searches : parts' = Rows([parts EXCEPT !.search = q])
  /\ UNCHANGED <<bar, flight>>

\* What was shown stays.
Fails(s) ==
  /\ flight[s] # Unused
  /\ flight' = Over(flight, s)
  /\ past' = [past EXCEPT !.failed = @ \/ flight[s].ask = "log"]
  /\ UNCHANGED <<bar, parts>>

-----------------------------------------------------------------------------

Next ==
  \/ Collapse \/ Resize \/ Tell \/ Type \/ Pauses \/ Level \/ AskTraffic \/ Search
  \/ \E n \in 1 .. MaxMessages : Hide(n)
  \/ \E s \in Slots : LogArrives(s) \/ TrafficArrives(s) \/ Fails(s)

Spec == Init /\ [][Next]_vars

-----------------------------------------------------------------------------
(* Properties.                                                             *)

\* The side bar a page finds when it is loaded again is what the user chose
\* last, whatever widths the window had meanwhile.
ChoiceIsKept == bar.stored = past.chosen

\* A message goes with its own timer: an earlier one does not hide it.
MessageStays == parts.visible <=> parts.message \in parts.timers

\* The lines are those of the filter, or they are on their way: unless an
\* answer was overtaken by a change of the filter, or failed.
LogFollowsFilter ==
  ~past.overtaken /\ ~past.failed =>
    \/ parts.lines = parts.filter \/ parts.waits
    \/ \E s \in Slots : flight[s].ask = "log" /\ flight[s].filter = parts.filter

\* A poll does not undo the search.
RowsOfSearch == parts.rows = parts.known \cap Matching[parts.search]

=============================================================================
