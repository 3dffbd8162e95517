----------------------------- MODULE MonitorView -----------------------------
(***************************************************************************)
(* The monitor page as it draws snapshots (frontend/src/legacy-app.js):    *)
(* rates, the trend lists and their window, the table of processes and the *)
(* report that can be downloaded.                                          *)
(*                                                                         *)
(* A snapshot is the time it was taken at; Counter is a counter of bytes   *)
(* and Running the processes at that time.  Snapshots come over the socket *)
(* in their order and as answers to requests, which may be late.  Whatever *)
(* the page draws it times by its arrival: the time in a snapshot is text, *)
(* which parseTrendTimestamp takes for no time at all.  What the server    *)
(* has stored of the trends has numbers for times.  Values of trends are   *)
(* left out, and with them the network's rate.  Operators marked FAULT are *)
(* seeded errors that no action uses: each replaces the definition that    *)
(* follows it.                                                             *)
(***************************************************************************)
EXTENDS Integers, Sequences, FiniteSets, FiniteSetsExt, Requests

CONSTANTS
  MaxTime,   \* snapshots are taken at 1 .. MaxTime
  Counter,   \* the disk's counter, and the network's, at each time
  Running,   \* the processes at each time: sequences top and jvm of numbers
  Cpu,       \* their use of the processor
  Keep,      \* TREND_KEEP_MS
  MiniKeep,  \* TREND_MINI_MS
  Series,    \* keys of TREND_SERIES
  None

VARIABLES
  page,    \* the fields of the page's state, and the modal window
  flight,  \* requests
  clock    \* time, of the server and of the page

vars == <<page, flight, clock>>

Times == 0 .. MaxTime
Pids == DOMAIN Cpu

\* Growth and time that a rate was made of; history: how late the snapshot
\* it starts from was, and whether it leads to an older one.
Rate == [diff : Nat, dt : Times, late : Times, older : BOOLEAN]
NoRate == [diff |-> 0, dt |-> 0, late |-> 0, older |-> FALSE]
Sorts == [key : {"cpu", "pid"}, dir : {"asc", "desc"}]   \* what toggleProcessSort can choose

TypeOK ==
  /\ page \in [snapshot : Times,               \* monitorSnapshot
               disk : [at : Times, of : Times],  \* diskLastSample: when it came, and which
               rate : Rate,                    \* lastDiskRealtime
               late : Times,                   \* history: how late the one drawn last was
               trend : Seq(Times),             \* trendHistory, of each series
               cards : Seq(Times),             \* what the small charts show of it
               processes : Seq(Pids),          \* combinedProcesses
               key : Series \cup {None},       \* activeTrendKey
               window : Series \cup {"closed", "other"}]
  /\ flight \in [Slots -> {Unused} \cup [ask : {"poll", "report", "trends"}, at : Times]
                          \cup [ask : {"detail", "kill"}, pid : Pids]]
  /\ clock \in Times

Init ==
  /\ page = [snapshot |-> 0, disk |-> [at |-> 0, of |-> 0], rate |-> NoRate, late |-> 0,
             trend |-> <<>>, cards |-> <<>>, processes |-> <<>>,
             key |-> None, window |-> "closed"]
  /\ flight = NoRequests
  /\ clock = 1

-----------------------------------------------------------------------------
(* The table of processes.                                                 *)

Members(list) == {list[i] : i \in DOMAIN list}

\* Array.filter: the wanted members of a list, in their order.
Filtered(list, wanted) ==
  LET of[n \in 0 .. Len(list)] ==    \* of the first n
        IF n = 0 THEN <<>>
        ELSE IF list[n] \in wanted THEN Append(of[n - 1], list[n]) ELSE of[n - 1]
  IN  of[Len(list)]

\* FAULT: a process that is in both lists has two rows.
BothLists(top, jvm) == top \o jvm

\* mergeProcessList.
Merged(top, jvm) == top \o Filtered(jvm, Pids \ Members(top))

\* FAULT: processes that use the same share are equal.
NoTieBreak(p, q, sort) ==
  LET a == IF sort.dir = "asc" THEN p ELSE q
      b == IF sort.dir = "asc" THEN q ELSE p
  IN  IF sort.key = "cpu" THEN Cpu[a] < Cpu[b] ELSE a < b

\* compareProcess: is p above q?  Ties are broken whatever the direction is.
Above(p, q, sort) ==
  LET a == IF sort.dir = "asc" THEN p ELSE q
      b == IF sort.dir = "asc" THEN q ELSE p
  IN  IF sort.key = "cpu" THEN Cpu[a] < Cpu[b] \/ (Cpu[p] = Cpu[q] /\ p < q) ELSE a < b

-----------------------------------------------------------------------------
(* Drawing a snapshot.                                                     *)

Grown(from, to) == IF Counter[to] > Counter[from] THEN Counter[to] - Counter[from] ELSE 0

\* FAULT: the time in a snapshot is read.
OwnTime(t) == t

\* parseTrendTimestamp(data.time, Date.now()).
Stamp(t) == clock

\* calculateDiskRealtime: measured from one arrival to the other.
DiskRate(p, t) ==
  IF p.disk.of > 0 /\ Stamp(t) > p.disk.at
  THEN [diff |-> Grown(p.disk.of, t), dt |-> Stamp(t) - p.disk.at, late |-> p.late, older |-> t < p.disk.of]
  ELSE NoRate

\* FAULT: the totals of the first sample are kept, its time is not.
TotalsKept(p, t) == [at |-> Stamp(t), of |-> IF p.disk.of = 0 THEN t ELSE p.disk.of]

\* The sample that the next rate starts from.
Sample(p, t) == [at |-> Stamp(t), of |-> t]

\* Old points leave at the front of a list.
Shifted(list, after) ==
  LET kept == {i \in DOMAIN list : list[i] >= after}
  IN  IF kept = {} THEN <<>> ELSE SubSeq(list, Min(kept), Len(list))

\* pushTrendPoint: the point of a time that is last already is replaced.
Pushed(list, t) ==
  Shifted(IF list # <<>> /\ list[Len(list)] = t THEN list ELSE Append(list, t), t - Keep)

\* selectTrendWindow: the window ends with the last point of the list.
Recent(list) == Filtered(list, {t \in Members(list) : t >= list[Len(list)] - MiniKeep})

\* FAULT: the small charts wait for the next snapshot.
CardsWait(p) == p

\* renderTrendCards.
Cards(p) == [p EXCEPT !.cards = Recent(p.trend)]

\* refreshTrendModalIfOpen.
TrendRefreshed(p) ==
  IF p.key = None THEN p
  ELSE IF p.window = "closed" THEN [p EXCEPT !.key = None]
  ELSE [p EXCEPT !.window = p.key]

\* applyMonitorSnapshot and renderMonitor.
Drawn(p, t) ==
  TrendRefreshed(Cards(
    [p EXCEPT !.snapshot = t, !.disk = Sample(p, t), !.rate = DiskRate(p, t),
              !.late = clock - t,
              !.trend = Pushed(@, Stamp(t)),
              !.processes = Merged(Running[t].top, Running[t].jvm)]))

-----------------------------------------------------------------------------
(* Snapshots.                                                              *)

Tick ==
  /\ clock < MaxTime
  /\ clock' = clock + 1
  /\ UNCHANGED <<page, flight>>

\* handleMonitorSocketMessage: what is broadcast now is drawn now.
Push ==
  /\ page' = Drawn(page, clock)
  /\ UNCHANGED <<flight, clock>>

\* refreshMonitor, loadTrendHistory, the button of the report.
Ask(ask) ==
  /\ flight' = Send(flight, [ask |-> ask, at |-> 0])
  /\ UNCHANGED <<page, clock>>

Serve(s) ==
  /\ flight[s].ask \in {"poll", "report", "trends"} /\ flight[s].at = 0
  /\ flight' = [flight EXCEPT ![s].at = clock]
  /\ UNCHANGED <<page, clock>>

PollArrives(s) ==
  /\ flight[s].ask = "poll" /\ flight[s].at > 0
  /\ page' = Drawn(page, flight[s].at)
  /\ flight' = Over(flight, s)
  /\ UNCHANGED clock

\* downloadRealtimeStatusTxt: the snapshot is kept and not drawn.
ReportArrives(s) ==
  /\ flight[s].ask = "report" /\ flight[s].at > 0
  /\ page' = [page EXCEPT !.snapshot = flight[s].at]
  /\ flight' = Over(flight, s)
  /\ UNCHANGED clock

\* normalizeTrendPoints: what the server has stored replaces the lists.
TrendsArrive(s) ==
  /\ flight[s].ask = "trends" /\ flight[s].at > 0
  /\ LET stored == [t \in 1 .. flight[s].at |-> t]
     IN  page' = Cards([page EXCEPT !.trend = Filtered(stored, {t \in Times : t >= clock - Keep})])
  /\ flight' = Over(flight, s)
  /\ UNCHANGED clock

Fails(s) ==
  /\ flight[s] # Unused
  /\ flight' = Over(flight, s)
  /\ UNCHANGED <<page, clock>>

-----------------------------------------------------------------------------
(* The user.                                                               *)

\* FAULT: another window leaves the trend's key as it is.
OpenOver(p) == [p EXCEPT !.window = "other"]

\* openModal without keepTrend.
OpenModal(p) == [p EXCEPT !.window = "other", !.key = None]

\* The ports are those of the snapshot: without one there is no window.
OpenPorts ==
  /\ page.snapshot > 0
  /\ page' = OpenModal(page)
  /\ UNCHANGED <<flight, clock>>

\* The windows of the disks and of the system say so when there is nothing.
OpenDisks ==
  /\ page' = OpenModal(page)
  /\ UNCHANGED <<flight, clock>>

OpenSystem ==
  /\ page' = OpenModal(page)
  /\ UNCHANGED <<flight, clock>>

\* openTrendModal, from a card of the page.
OpenTrend ==
  /\ page.window = "closed"
  /\ \E k \in Series : page' = [page EXCEPT !.key = k, !.window = k]
  /\ UNCHANGED <<flight, clock>>

\* FAULT: the trend's key outlives its window.
CloseWindow(p) == [p EXCEPT !.window = "closed"]

\* closeModal.
CloseModal(p) == [p EXCEPT !.window = "closed", !.key = None]

Close ==
  /\ page.window # "closed"
  /\ page' = CloseModal(page)
  /\ UNCHANGED <<flight, clock>>

\* showProcessDetail and killProcess, on a row.
OnProcess(ask) ==
  /\ \E p \in Members(page.processes) : flight' = Send(flight, [ask |-> ask, pid |-> p])
  /\ UNCHANGED <<page, clock>>

DetailArrives(s) ==
  /\ flight[s].ask = "detail"
  /\ page' = OpenModal(page)
  /\ flight' = Over(flight, s)
  /\ UNCHANGED clock

\* The page asks for a snapshot when the process has been ended.
Killed(s) ==
  /\ flight[s].ask = "kill"
  /\ flight' = [flight EXCEPT ![s] = [ask |-> "poll", at |-> 0]]
  /\ UNCHANGED <<page, clock>>

-----------------------------------------------------------------------------

Next ==
  \/ Tick \/ Push \/ OpenPorts \/ OpenDisks \/ OpenSystem \/ OpenTrend \/ Close
  \/ /\ Room(flight)
     /\ \/ \E ask \in {"poll", "report", "trends"} : Ask(ask)
        \/ \E ask \in {"detail", "kill"} : OnProcess(ask)
  \/ \E s \in Slots :
       \/ Serve(s) \/ PollArrives(s) \/ ReportArrives(s) \/ TrendsArrive(s)
       \/ DetailArrives(s) \/ Killed(s) \/ Fails(s)

Spec == Init /\ [][Next]_vars

-----------------------------------------------------------------------------
(* Properties.                                                             *)

CounterFalls == \E a, b \in 1 .. MaxTime : a < b /\ Counter[b] < Counter[a]

\* A disk rate that is shown is above what the disk ever did only as far as
\* the snapshot it starts from came late: that time is missing from the one
\* it is divided by.  Between two snapshots that come when they are taken it
\* is never above the largest step of the counter, whatever came before
\* them.  Only where counters fall may a snapshot that is older than the one
\* before it show more.
DiskRateIsBounded ==
  LET steps == {Grown(t - 1, t) : t \in 2 .. MaxTime}
  IN  \/ page.rate.diff <= (page.rate.dt + page.rate.late) * Max(steps)
      \/ page.rate.older /\ CounterFalls

\* A snapshot redraws the window only while it is the trend's own: a window
\* that was opened over it, by an answer too, is never overwritten.
TrendKeepsToItsWindow == page.key # None => page.window = page.key

\* Every process has one row, and whatever order a header chooses is a strict
\* one on the rows, so the table does not jump from one redraw to the next.
OneRowEach ==
  /\ Len(page.processes) = Cardinality(Members(page.processes))
  /\ \A p, q \in Members(page.processes), sort \in Sorts :
       p # q => (Above(p, q, sort) <=> ~Above(q, p, sort))

\* The trend is a line through time that ends by now, each point later than
\* the one before it, though snapshots come late and twice and what the
\* server has stored replaces it; the small charts show the end of it as it
\* is, whatever replaced it.
TrendOfThePast ==
  /\ \A i \in DOMAIN page.trend : page.trend[i] <= clock
  /\ \A i \in 2 .. Len(page.trend) : page.trend[i] > page.trend[i - 1]
  /\ page.cards = Recent(page.trend)
=============================================================================
