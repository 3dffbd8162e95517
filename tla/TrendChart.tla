------------------------------ MODULE TrendChart ------------------------------
(***************************************************************************)
(* The window of one trend (frontend/src/legacy-app.js): the points it     *)
(* draws of its list, how far the chart is scrolled from one redraw to the *)
(* next, and the point that is told under the pointer.                     *)
(*                                                                         *)
(* A redraw makes the chart anew; it is scrolled in the frame that comes   *)
(* next, and the newest point is told in the one after.  Scrolling is told *)
(* to the page by an event, which comes before the frame: one that belongs *)
(* to a chart that has been replaced may be lost or may find that nothing  *)
(* of it is left.  A list is the number of its points.  Lengths are in     *)
(* units of the chart.  Operators marked FAULT are seeded errors that no   *)
(* action uses: each replaces the definition that follows it.              *)
(***************************************************************************)
EXTENDS Integers, Sequences, FiniteSetsExt

CONSTANTS
  MaxPoints,  \* bound on the points of the list (what fits into TREND_KEEP_MS)
  MaxDrawn,   \* TREND_MAX_RENDER_POINTS
  MinWidth,   \* TREND_DETAIL_MIN_WIDTH
  PointWidth, \* TREND_DETAIL_POINT_PX
  View,       \* what the window shows of the chart
  Slack,      \* as near to the end as this is at the end
  Edge,       \* room left and right of the line (padX), less than half of MinWidth
  None

VARIABLES
  points,  \* the points of the list
  chart,   \* the window
  reader   \* history: where the user wants to be, None when it is the end

vars == <<points, chart, reader>>

-----------------------------------------------------------------------------
(* What is drawn.                                                          *)

\* Math.round(a / b).
Nearest(a, b) == (2 * a + b) \div (2 * b)

\* FAULT: the steps are one too long.
StepsTooLong(n) ==
  IF n <= MaxDrawn THEN [i \in 1 .. n |-> i]
  ELSE [i \in 1 .. MaxDrawn |-> 1 + Min({n - 1, Nearest((i - 1) * n, MaxDrawn - 1)})]

\* downsampleTrendPoints, as the places in the list of the points that stay.
Kept(n) ==
  IF n <= MaxDrawn THEN [i \in 1 .. n |-> i]
  ELSE [i \in 1 .. MaxDrawn |-> 1 + Min({n - 1, Nearest((i - 1) * (n - 1), MaxDrawn - 1)})]

Width(n) == Max({MinWidth, n * PointWidth})

\* getTrendGeometry: where point i of n is, times n - 1.
Across(i, n) == IF n = 1 THEN Edge ELSE Edge * (n - 1) + (i - 1) * (Width(n) - 2 * Edge)

\* FAULT: the room at the left is forgotten.
FromTheEdge(x, n) ==
  IF n = 1 THEN 1 ELSE 1 + Max({0, Min({n - 1, Nearest(x * (n - 1), Width(n) - 2 * Edge)})})

\* onMove and renderAt: the point that is told at x.
Told(x, n) ==
  IF n = 1 THEN 1 ELSE 1 + Max({0, Min({n - 1, Nearest((x - Edge) * (n - 1), Width(n) - 2 * Edge)})})

\* buildTrendTimeAxis: the points that have their time below them.
Labelled(n) == {1, 1 + (n - 1) \div 2, n}

MaxLeft(n) == Max({0, Width(n) - View})

Drawn == Len(chart.kept)

-----------------------------------------------------------------------------

Lefts == 0 .. MaxLeft(MaxDrawn)

TypeOK ==
  /\ points \in 0 .. MaxPoints
  /\ chart \in [open : BOOLEAN, kept : Seq(1 .. MaxPoints), of : 0 .. MaxPoints,
                left : Lefts,                           \* scrollLeft
                event : {"none", "scroll", "gone"},     \* that has not come yet
                frame : {"none", "place", "tell"},      \* what the next one does
                follow : BOOLEAN, remember : Lefts,     \* activeTrendAutoFollow, -ScrollLeft
                tip : 0 .. MaxDrawn]
  /\ reader \in Lefts \cup {None}

Init ==
  /\ points \in 0 .. MaxPoints
  /\ chart = [open |-> FALSE, kept |-> <<>>, of |-> 0, left |-> 0, event |-> "none",
              frame |-> "none", follow |-> TRUE, remember |-> 0, tip |-> 0]
  /\ reader = None

-----------------------------------------------------------------------------
(* Redraws.                                                                *)

\* FAULT: the tip stays when the chart below it is replaced.
KeepsTip(c, n) ==
  [c EXCEPT !.kept = Kept(n), !.of = n, !.left = 0,
            !.event = IF @ = "none" THEN "none" ELSE "gone",
            !.frame = IF n = 0 THEN "none" ELSE "place"]

\* renderTrendModal: the chart, its box and its tip are made anew.
Redrawn(c, n) ==
  [c EXCEPT !.kept = Kept(n), !.of = n, !.left = 0, !.tip = 0,
            !.event = IF @ = "none" THEN "none" ELSE "gone",
            !.frame = IF n = 0 THEN "none" ELSE "place"]

\* A snapshot is drawn; at the bound the oldest point leaves.
Grow ==
  LET n == Min({points + 1, MaxPoints})
  IN  /\ points' = n
      /\ chart' = IF chart.open THEN Redrawn(chart, n) ELSE chart
      /\ UNCHANGED reader

\* What the server has stored replaces the list; the window is not redrawn.
Replace ==
  /\ points' \in 0 .. MaxPoints
  /\ UNCHANGED <<chart, reader>>

\* openTrendModal.
Open ==
  /\ ~chart.open
  /\ chart' = Redrawn([chart EXCEPT !.open = TRUE, !.follow = TRUE, !.remember = 0], points)
  /\ reader' = None
  /\ UNCHANGED points

\* closeModal, or openModal for another window: clearActiveTrendModalState.
Close ==
  /\ chart.open
  /\ chart' = [chart EXCEPT !.open = FALSE, !.kept = <<>>, !.of = 0, !.left = 0, !.event = "none",
                            !.frame = "none", !.follow = TRUE, !.remember = 0, !.tip = 0]
  /\ reader' = None
  /\ UNCHANGED points

-----------------------------------------------------------------------------
(* Frames and events.                                                      *)

\* FAULT: the chart always goes to its end.
AtTheEnd(c) == MaxLeft(Len(c.kept))

\* Where the frame scrolls the chart to.
Place(c) ==
  IF c.follow THEN MaxLeft(Len(c.kept)) ELSE Min({MaxLeft(Len(c.kept)), c.remember})

\* A scroll that changes nothing has no event.
Frame ==
  /\ chart.frame = "place" /\ chart.event = "none"
  /\ chart' = [chart EXCEPT !.left = Place(chart), !.frame = "tell",
                            !.event = IF Place(chart) = chart.left THEN "none" ELSE "scroll"]
  \* The end of a shorter chart has come to where the user is, and is heard of.
  /\ reader' = IF reader # None /\ Place(chart) # chart.left /\ reader >= MaxLeft(Drawn) - Slack
               THEN None ELSE reader
  /\ UNCHANGED points

\* showLatest.
Tell ==
  /\ chart.frame = "tell" /\ chart.event = "none"
  /\ chart' = [chart EXCEPT !.tip = Drawn, !.frame = "none"]
  /\ UNCHANGED <<points, reader>>

\* FAULT: whoever has scrolled is no longer taken along.
NeverAgain(c) == [c EXCEPT !.remember = c.left, !.follow = FALSE]

\* syncFollowState.
Synced(c) == [c EXCEPT !.remember = c.left, !.follow = c.left >= MaxLeft(Len(c.kept)) - Slack]

Scrolled ==
  /\ chart.event = "scroll"
  /\ chart' = [Synced(chart) EXCEPT !.event = "none"]
  /\ UNCHANGED <<points, reader>>

\* A chart that is gone has no width: it counts as one that is at its end.
GoneScrolled ==
  /\ chart.event = "gone"
  /\ \/ chart' = [chart EXCEPT !.event = "none"]
     \/ chart' = [chart EXCEPT !.event = "none", !.remember = 0, !.follow = TRUE]
  /\ reader' = IF chart'.follow THEN None ELSE chart'.remember
  /\ UNCHANGED points

-----------------------------------------------------------------------------
(* The user.                                                               *)

Scroll ==
  /\ Drawn > 0 /\ chart.frame # "place"
  /\ \E x \in (0 .. MaxLeft(Drawn)) \ {chart.left} :
       /\ chart' = [chart EXCEPT !.left = x, !.event = "scroll"]
       /\ reader' = IF x >= MaxLeft(Drawn) - Slack THEN None ELSE x
  /\ UNCHANGED points

Move ==
  /\ Drawn > 0
  /\ \E i \in {Told(x, Drawn) : x \in 0 .. Width(Drawn)} : chart' = [chart EXCEPT !.tip = i]
  /\ UNCHANGED <<points, reader>>

Leave ==
  /\ Drawn > 0
  /\ chart' = [chart EXCEPT !.tip = 0]
  /\ UNCHANGED <<points, reader>>

-----------------------------------------------------------------------------

Next ==
  \/ Grow \/ Replace \/ Open \/ Close
  \/ Frame \/ Tell \/ Scrolled \/ GoneScrolled
  \/ Scroll \/ Move \/ Leave

Spec == Init /\ [][Next]_vars

-----------------------------------------------------------------------------
(* Properties.                                                             *)

\* The frame has placed the chart and its event has been heard.
Settled == chart.open /\ Drawn > 0 /\ chart.frame # "place" /\ chart.event = "none"

\* Whoever looks at the newest points goes on seeing them, and whoever has
\* scrolled back stays where he is, however many snapshots redraw the chart,
\* as long as its end does not come to him and a scroll is not overtaken by
\* the redraw.
ScrollIsKept ==
  Settled => IF reader = None THEN chart.left >= MaxLeft(Drawn) - Slack
             ELSE chart.left = Min({reader, MaxLeft(Drawn)})

\* However few points of a list are drawn, the first and the last are among
\* them and each is later than the one before.
EndsAreDrawn ==
  Drawn > 0 =>
    /\ chart.kept[1] = 1 /\ chart.kept[Drawn] = chart.of
    /\ \A i \in 2 .. Drawn : chart.kept[i - 1] < chart.kept[i]
    /\ Labelled(Drawn) \subseteq 1 .. Drawn

\* The tip is of a point that is drawn, and wherever the pointer is no other
\* point is nearer than the one that is told.
TipIsNearest ==
  /\ chart.tip <= Drawn
  /\ Drawn > 1 => \A x \in 0 .. Width(Drawn), i \in 1 .. Drawn :
       LET Far(k) == LET d == x * (Drawn - 1) - Across(k, Drawn) IN IF d < 0 THEN -d ELSE d
       IN  Far(Told(x, Drawn)) <= Far(i)
=============================================================================
