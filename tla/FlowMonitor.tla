----------------------------- MODULE FlowMonitor -----------------------------
(***************************************************************************)
(* The connections on the monitor page (frontend/src/legacy-app.js): the   *)
(* list that is loaded again with the snapshots, the window with all of    *)
(* them and its boxes, and the details of one.                             *)
(*                                                                         *)
(* A connection is a key with the protocol and the status that Kinds gives *)
(* it; the order of the rows and the words to search for are left out.     *)
(* Operators marked FAULT are seeded errors that no action uses: each      *)
(* replaces the definition that follows it.                                *)
(***************************************************************************)
EXTENDS Naturals, FiniteSets, Requests

CONSTANTS
  Keys,      \* connections
  Kinds,     \* their protocol and status
  MaxRows,   \* FLOW_MONITOR_MAX_ROWS
  None

VARIABLES
  flow,    \* the fields of the page's state about connections, and the window
  flight,  \* requests
  live,    \* the connections there are
  forced   \* history: the refresh of the start of the page has been made

vars == <<flow, flight, live, forced>>

Protocols == {"all", "tcp", "udp"}
Groups == {"all", "established", "listen", "closing", "unknown"}
Boxes == [protocol : Protocols, status : Groups]
AllBoxes == [protocol |-> "all", status |-> "all"]

TypeOK ==
  /\ flow \in [raw : SUBSET Keys,      \* flowMonitorRawItems
               rows : SUBSET Keys,     \* flowMonitorItems, the rows of the table
               loading : BOOLEAN,      \* flowMonitorLoading
               fresh : BOOLEAN,        \* loaded less than FLOW_MONITOR_REFRESH_MS ago
               window : {"closed", "all", "detail"},
               boxes : Boxes,          \* the boxes of the window
               listed : SUBSET Keys,   \* filteredItems of the window
               about : Keys \cup {None},
               missed : BOOLEAN]       \* a click found no connection
  /\ flight \in [Slots -> {Unused}
                   \cup [ask : {"flows"}, answer : SUBSET Keys, made : BOOLEAN]]
  /\ live \subseteq Keys
  /\ forced \in BOOLEAN

Init ==
  /\ flow = [raw |-> {}, rows |-> {}, loading |-> FALSE, fresh |-> FALSE, window |-> "closed",
             boxes |-> AllBoxes, listed |-> {}, about |-> None, missed |-> FALSE]
  /\ flight = NoRequests
  /\ live \in SUBSET Keys
  /\ forced = FALSE

-----------------------------------------------------------------------------
(* Which connections are shown.                                            *)

Closing == {"FIN_WAIT1", "FIN_WAIT2", "CLOSE_WAIT", "CLOSING", "LAST_ACK", "TIME_WAIT",
            "CLOSED", "CLOSE"}

\* normalizeFlowConnectionStatus.
Status(key) == IF Kinds[key].status = "" THEN "UNKNOWN" ELSE Kinds[key].status

\* flowStatusGroupMatch: FIN_WAIT and the like have WAIT or CLOSE in their name.
InGroup(status, group) ==
  \/ group = "all"
  \/ group = "established" /\ status = "ESTABLISHED"
  \/ group = "listen" /\ status = "LISTEN"
  \/ group = "closing" /\ status \in Closing
  \/ group = "unknown" /\ status \in {"UNKNOWN", "NONE"}

\* flowConnectionBadgeClass.
Badge(status) ==
  IF status \in {"ESTABLISHED", "LISTEN", "SYN_SENT", "SYN_RECV"} THEN "up"
  ELSE IF status \in {"ERROR", "FAILED", "DOWN"} THEN "down" ELSE "unknown"

\* applyFlowMonitorFilters.
Filtered(keys, boxes) ==
  {k \in keys : /\ boxes.protocol \in {"all", Kinds[k].protocol}
                /\ InGroup(Status(k), boxes.status)}

\* buildFlowMonitorSummary: the counts over the window's list.
Summary(keys) ==
  [tcp |-> Cardinality({k \in keys : Kinds[k].protocol = "tcp"}),
   udp |-> Cardinality({k \in keys : Kinds[k].protocol = "udp"}),
   established |-> Cardinality({k \in keys : Status(k) = "ESTABLISHED"}),
   listen |-> Cardinality({k \in keys : Status(k) = "LISTEN"})]

\* renderFlowMonitorTable: the page has no boxes for the table, so its
\* filters stay as resetFlowMonitorFilters left them; at most MaxRows rows.
Tables(f) ==
  {[f EXCEPT !.rows = rows] : rows \in
     {r \in SUBSET Filtered(f.raw, AllBoxes) :
        \/ r = Filtered(f.raw, AllBoxes) /\ Cardinality(r) <= MaxRows
        \/ Cardinality(r) = MaxRows}}

-----------------------------------------------------------------------------
(* Loading.                                                                *)

Ask == [ask |-> "flows", answer |-> {}, made |-> FALSE]

\* refreshFlowMonitor comes back at once.
Skipped(f) == f.loading \/ f.fresh

Asks(f) ==
  /\ flow' = [f EXCEPT !.loading = TRUE]
  /\ flight' = Send(flight, Ask)

\* renderMonitor draws the table and asks for the connections.
Snapshot ==
  /\ \E f \in Tables(flow) :
       IF Skipped(f) THEN flow' = f /\ UNCHANGED flight ELSE Asks(f)
  /\ UNCHANGED <<live, forced>>

\* The start of the page asks whatever is under way.
Boot ==
  /\ ~forced
  /\ forced' = TRUE
  /\ Asks(flow)
  /\ UNCHANGED live

Serve(s) ==
  /\ flight[s].ask = "flows" /\ ~flight[s].made
  /\ flight' = [flight EXCEPT ![s].answer = live, ![s].made = TRUE]
  /\ UNCHANGED <<flow, live, forced>>

\* FAULT: the new list is kept and the table is left for the next snapshot.
KeepsTable(f) == {f}

Redrawn(f) == Tables(f)

Arrives(s) ==
  /\ flight[s].ask = "flows" /\ flight[s].made
  /\ flow' \in Redrawn([flow EXCEPT !.raw = flight[s].answer, !.fresh = TRUE, !.loading = FALSE])
  /\ flight' = Over(flight, s)
  /\ UNCHANGED <<live, forced>>

\* FAULT: a request that fails leaves the flag on.
KeepsFlag(f) == f

Finally(f) == [f EXCEPT !.loading = FALSE]

Fails(s) ==
  /\ flight[s] # Unused
  /\ flow' = Finally(flow)
  /\ flight' = Over(flight, s)
  /\ UNCHANGED <<live, forced>>

Expires ==
  /\ flow.fresh
  /\ flow' = [flow EXCEPT !.fresh = FALSE]
  /\ UNCHANGED <<flight, live, forced>>

Traffic ==
  /\ live' \in SUBSET Keys
  /\ UNCHANGED <<flow, flight, forced>>

-----------------------------------------------------------------------------
(* The user.                                                               *)

User == UNCHANGED <<flight, live, forced>>

\* openFlowMonitorSingleDetailModal.
Detail(f, key) == [f EXCEPT !.window = "detail", !.about = key, !.listed = {}, !.boxes = AllBoxes]

\* openFlowMonitorDetailModalByKey: the row is looked for in the whole list.
ClickRow ==
  /\ flow.window = "closed"
  /\ \E k \in flow.rows :
       flow' = IF k \in flow.raw THEN Detail(flow, k) ELSE [flow EXCEPT !.missed = TRUE]
  /\ User

\* renderInModal.
Rendered(f, boxes) == [f EXCEPT !.window = "all", !.boxes = boxes, !.listed = Filtered(f.raw, boxes)]

\* openFlowMonitorAllModal.
OpenAll ==
  /\ flow.window = "closed"
  /\ flow' = Rendered(flow, AllBoxes)
  /\ User

\* A box is changed, or all are put back.
SetBoxes ==
  /\ flow.window = "all"
  /\ flow' \in {Rendered(flow, b) : b \in Boxes}
  /\ User

\* FAULT: the click looks the connection up in the list that came since.
FoundNow(f, k) == k \in f.raw

FoundListed(f, k) == k \in f.listed

ClickListed ==
  /\ flow.window = "all"
  /\ \E k \in flow.listed :
       flow' = IF FoundListed(flow, k) THEN Detail(flow, k) ELSE [flow EXCEPT !.missed = TRUE]
  /\ User

Close ==
  /\ flow.window # "closed"
  /\ flow' = [flow EXCEPT !.window = "closed", !.about = None, !.listed = {}, !.boxes = AllBoxes]
  /\ User

-----------------------------------------------------------------------------

Next ==
  \/ Room(flight) /\ (Snapshot \/ Boot)
  \/ \E s \in Slots : Serve(s) \/ Arrives(s) \/ Fails(s)
  \/ Expires \/ Traffic
  \/ ClickRow \/ OpenAll \/ SetBoxes \/ ClickListed \/ Close

Spec == Init /\ [][Next]_vars

-----------------------------------------------------------------------------
(* Properties.                                                             *)

\* Every connection that is shown can be opened, in the table and in the
\* window, although the list is loaded again behind both; and the window's
\* counts are about the rows under them.
ShownCanBeOpened ==
  /\ ~flow.missed
  /\ flow.rows \subseteq flow.raw
  /\ LET counts == Summary(flow.listed)
     IN  /\ flow.boxes.protocol = "tcp" => counts.udp = 0
         /\ flow.boxes.status = "listen" => counts.established = 0
         /\ flow.boxes.status = "closing" => \A k \in flow.listed : Badge(Status(k)) # "up"

\* While the flag that holds refreshes back is on, one is under way: no
\* failure and no overlap with the one of the start leaves it on for ever.
LoadingEnds == flow.loading => Awaits(flight, "flows")
=============================================================================
