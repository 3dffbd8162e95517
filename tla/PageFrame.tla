----------------------------- MODULE PageFrame -----------------------------
(***************************************************************************)
(* The frame of the page: the login, the start of the page in steps, the   *)
(* menu and its sections, and the configuration the menu is made from      *)
(* (frontend/src/legacy-app.js).  A step of the start that takes too long  *)
(* is given up and tried again while its request goes on.  What a section  *)
(* does when it is shown is modelled with its panel; here a section has    *)
(* its timer, if it polls.  Of the configuration only the sections it      *)
(* hides are told apart.  Operators marked FAULT are seeded errors that no *)
(* action uses: each replaces the definition that follows it.              *)
(***************************************************************************)
EXTENDS Sequences, SequencesExt, FiniteSets, Integers, Requests

CONSTANTS
  Sections,    \* the sections in the order of the menu; "system" is the last
  BootSteps,   \* what the start does: "config" first, "panel" for what loads a panel's data
  Starts,      \* runs of bootstrap that could be under way at a time
  MaxChanges,  \* bound on the clicks and the changes made elsewhere
  None

VARIABLES
  frame,    \* the page's own state
  flight,   \* requests for the configuration, and those that save it
  server,   \* the session and the sections the stored configuration hides
  past      \* history: changes so far, and whether page and server must agree

vars == <<frame, flight, server, past>>

All == ToSet(Sections)
CanHide == SUBSET (All \ {"system"})
Retries == 1   \* of most steps

Frame ==
  [auth : BOOLEAN \cup {None},             \* authAuthenticated; None before the status is known
   booting : BOOLEAN, login : BOOLEAN,     \* the two overlays
   running : BOOLEAN, finished : BOOLEAN,  \* bootRunning, bootFinished
   done : 0 .. Len(BootSteps),             \* bootState.done
   starts : [Starts -> [step : 0 .. Len(BootSteps), tries : 0 .. Retries, asleep : BOOLEAN]],
   again : BOOLEAN, fallback : BOOLEAN,    \* the timers of 1.5 s and 180 s
   config : CanHide \cup {None},
   off : CanHide, active : SUBSET All,     \* classes of the menu's buttons
   panel : All, blank : BOOLEAN,           \* the visible panel; style.display is "none"
   polls : BOOLEAN]                        \* trafficPollTimer

\* The types; and two starts never run at a time.
TypeOK ==
  /\ frame \in Frame
  /\ Cardinality({b \in Starts : frame.starts[b].step > 0}) = (IF frame.running THEN 1 ELSE 0)
  /\ server \in [session : BOOLEAN, hides : CanHide]
  /\ past \in [changes : 0 .. MaxChanges, agree : BOOLEAN]

Resting == [step |-> 0, tries |-> 0, asleep |-> FALSE]

\* A page that is being loaded and asks for the state of its login.
Loading ==
  [auth |-> None, booting |-> TRUE, login |-> FALSE,
   running |-> FALSE, finished |-> FALSE, done |-> 0,
   starts |-> [b \in Starts |-> Resting], again |-> FALSE, fallback |-> TRUE,
   config |-> None, off |-> {}, active |-> {Sections[1]}, panel |-> Sections[1],
   blank |-> FALSE, polls |-> FALSE]

Init ==
  /\ frame = Loading
  /\ flight = NoRequests
  /\ server \in [session : BOOLEAN, hides : CanHide]
  /\ past = [changes |-> 0, agree |-> TRUE]

-----------------------------------------------------------------------------
(* Sections and menu.                                                      *)

\* FAULT: a section that is left keeps its timer.
NeverStops(f, section) == f.polls \/ section = "traffic"

PollsIn(f, section) == section = "traffic"

\* switchSection.
Switch(f, section) ==
  [f EXCEPT !.panel = section, !.blank = FALSE, !.polls = PollsIn(f, section)]

\* A hidden button is left as it is.
Activate(f, section) ==
  [f EXCEPT !.active = (f.active \cap f.off) \cup {section}]

FirstShown(f) ==
  Sections[CHOOSE k \in 1 .. Len(Sections) :
             Sections[k] \notin f.off /\ \A m \in 1 .. k - 1 : Sections[m] \in f.off]

FallBack(f, section) == Switch([f EXCEPT !.active = @ \cup {section}], section)

\* FAULT: a marked button counts although it is hidden.
AnyMarked(f) == f.active # {}

SomeMarked(f) == ~(f.active \subseteq f.off)

\* applySystemMenuVisibility, with a new configuration.
Menu(f, hides) ==
  LET g == [f EXCEPT !.config = hides, !.off = hides, !.blank = @ \/ f.panel \in hides]
  IN  IF SomeMarked(g) THEN g ELSE FallBack(g, FirstShown(g))

-----------------------------------------------------------------------------
(* The start of the page.                                                  *)

\* FAULT: a start that runs does not keep another from starting.
MayAlways(f) == f.auth = TRUE /\ ~f.finished

MayStart(f) == f.auth = TRUE /\ ~f.finished /\ ~f.running

\* bootstrap.
Bootstrap(f) ==
  IF MayStart(f) /\ \E b \in Starts : f.starts[b] = Resting
  THEN LET b == CHOOSE s \in Starts : f.starts[s] = Resting
       IN  [f EXCEPT !.running = TRUE, !.done = 0,
                     !.starts[b] = [Resting EXCEPT !.step = 1]]
  ELSE f

Finish(f, b) ==
  [f EXCEPT !.finished = TRUE, !.fallback = FALSE, !.booting = FALSE,
            !.running = FALSE, !.starts[b] = Resting]

\* FAULT: a start that failed is not tried again.
GivesUp(f, b, why) == [f EXCEPT !.running = FALSE, !.starts[b] = Resting]

\* A start without a configuration: it is tried again unless the login is gone.
Fails(f, b, why) ==
  [f EXCEPT !.running = FALSE, !.starts[b] = Resting, !.again = @ \/ why # "denied"]

\* The last try of a step is over.
StepOver(f, b, why) ==
  LET k == f.starts[b].step
      g == [f EXCEPT !.done = @ + 1]
  IN  IF why # "ok" /\ BootSteps[k] = "config" THEN Fails(g, b, why)
      ELSE IF k = Len(BootSteps) THEN Finish(g, b)
      ELSE [g EXCEPT !.starts[b] = [Resting EXCEPT !.step = k + 1]]

\* runBootStep: a try has ended, well or not.
TryOver(f, b, why) ==
  IF why # "ok" /\ f.starts[b].tries < Retries
  THEN [f EXCEPT !.starts[b].tries = @ + 1, !.starts[b].asleep = TRUE]
  ELSE StepOver(f, b, why)

\* handleAuthRequired, as far as the frame goes.
LoggedOut(f) == [f EXCEPT !.auth = FALSE, !.booting = FALSE, !.login = TRUE]

Doing(b) == IF frame.starts[b].step = 0 THEN "none" ELSE BootSteps[frame.starts[b].step]

\* The answer about the login, or that there is none (initializeApp).
StatusKnown ==
  /\ frame.auth = None
  /\ \E auth \in {server.session, FALSE} :
       frame' = IF auth THEN Bootstrap([frame EXCEPT !.auth = TRUE])
                ELSE LoggedOut(frame)
  /\ UNCHANGED <<flight, server, past>>

Trying(b) == Doing(b) # "none" /\ ~frame.starts[b].asleep

\* The request of the step that loads the configuration.
AskConfig(b) ==
  /\ Trying(b) /\ Doing(b) = "config"
  /\ \A s \in Slots : flight[s].ask = "config" => flight[s].by # b
  /\ Room(flight)
  /\ flight' = Send(flight, [ask |-> "config", by |-> b, got |-> "nothing", hides |-> {}])
  /\ UNCHANGED <<frame, server, past>>

\* The server answers a request for the configuration.
ConfigRead(s) ==
  /\ flight[s].ask = "config" /\ flight[s].got = "nothing"
  /\ flight' = [flight EXCEPT ![s].got = IF server.session THEN "ok" ELSE "denied",
                              ![s].hides = server.hides]
  /\ UNCHANGED <<frame, server, past>>

\* The answer arrives; it is taken also when the try was given up meanwhile.
ConfigArrives(s) ==
  /\ flight[s].ask = "config" /\ flight[s].got # "nothing"
  /\ LET f == IF flight[s].got = "ok" THEN Menu(frame, flight[s].hides) ELSE LoggedOut(frame)
     IN  frame' = IF flight[s].by = None THEN f ELSE TryOver(f, flight[s].by, flight[s].got)
  /\ past' = [past EXCEPT !.agree = @ /\ flight[s].by # None]
  /\ flight' = Over(flight, s)
  /\ UNCHANGED server

ConfigFails(s) ==
  /\ flight[s].ask = "config"
  /\ frame' = IF flight[s].by = None THEN frame ELSE TryOver(frame, flight[s].by, "failed")
  /\ flight' = Over(flight, s)
  /\ UNCHANGED <<server, past>>

\* withTimeout: the try is over and the request is not.
ConfigGivenUp(s) ==
  /\ flight[s].ask = "config" /\ flight[s].by # None
  /\ frame' = TryOver(frame, flight[s].by, "late")
  /\ flight' = [flight EXCEPT ![s].by = None]
  /\ UNCHANGED <<server, past>>

\* A step that loads a panel's data, or fills the form of the system panel.
PanelStep(b) ==
  /\ Trying(b) /\ Doing(b) = "panel"
  /\ \E why \in {"ok", "failed"} \cup (IF server.session THEN {} ELSE {"denied"}) :
       frame' = TryOver(IF why = "denied" THEN LoggedOut(frame) ELSE frame, b, why)
  /\ UNCHANGED <<flight, server, past>>

\* The half second between two tries.
Awakes(b) ==
  /\ frame.starts[b].asleep
  /\ frame' = [frame EXCEPT !.starts[b].asleep = FALSE]
  /\ UNCHANGED <<flight, server, past>>

Again ==
  /\ frame.again
  /\ frame' = Bootstrap([frame EXCEPT !.again = FALSE])
  /\ UNCHANGED <<flight, server, past>>

\* The start has taken 180 s.
FallbackFires ==
  /\ frame.fallback /\ frame.auth # None
  /\ frame' = Bootstrap([frame EXCEPT !.fallback = FALSE, !.done = 0])
  /\ UNCHANGED <<flight, server, past>>

\* Any other request of the page is refused.
OtherRefused ==
  /\ ~server.session /\ frame.finished /\ frame.auth = TRUE
  /\ frame' = LoggedOut(frame)
  /\ UNCHANGED <<flight, server, past>>

-----------------------------------------------------------------------------
(* The user.                                                               *)

Change == past.changes < MaxChanges

Changed == [past EXCEPT !.changes = @ + 1]

AtWork == ~frame.booting /\ ~frame.login

\* The login was right: the page is loaded again, with nothing under way.
LogIn ==
  /\ frame.login /\ Change /\ past' = [Changed EXCEPT !.agree = TRUE]
  /\ server' = [server EXCEPT !.session = TRUE]
  /\ frame' = Loading
  /\ flight' = NoRequests

ClickMenu(section) ==
  /\ AtWork /\ section \notin frame.off
  /\ frame' = Switch(Activate(frame, section), section)
  /\ UNCHANGED <<flight, server, past>>

\* saveSystemConfig: the configuration the page has, with the form's ticks.
Save(hides) ==
  /\ AtWork /\ frame.panel = "system" /\ ~frame.blank /\ frame.config # None
  /\ Change /\ Room(flight)
  /\ past' = [Changed EXCEPT !.agree = @ /\ ~Awaits(flight, "save")]
  /\ flight' = Send(flight, [ask |-> "save", by |-> None, got |-> "nothing", hides |-> hides])
  /\ UNCHANGED <<frame, server>>

\* The server has a session and can write its file, or says why not.
Saves(s) ==
  /\ flight[s].ask = "save" /\ flight[s].got = "nothing"
  /\ \/ /\ server.session
        /\ server' = [server EXCEPT !.hides = flight[s].hides]
        /\ flight' = [flight EXCEPT ![s].got = "ok"]
     \/ /\ flight' = [flight EXCEPT ![s].got = "refused"]
        /\ UNCHANGED server
  /\ UNCHANGED <<frame, past>>

\* FAULT: the page takes what it has sent, whatever the answer says.
TakesSent(f, answer) == Menu(f, answer.hides)

Taken(f, answer) == IF answer.got = "ok" THEN Menu(f, answer.hides) ELSE f

Saved(s) ==
  /\ flight[s].ask = "save" /\ flight[s].got # "nothing"
  /\ frame' = Taken(frame, flight[s])
  /\ flight' = Over(flight, s)
  /\ UNCHANGED <<server, past>>

\* The answer is lost: nothing says whether the server has saved it.
SaveLost(s) ==
  /\ flight[s].ask = "save"
  /\ past' = [past EXCEPT !.agree = FALSE]
  /\ flight' = Over(flight, s)
  /\ UNCHANGED <<frame, server>>

-----------------------------------------------------------------------------
(* Elsewhere.                                                              *)

\* Another page saves its configuration.
SavedElsewhere ==
  /\ Change
  /\ \E hides \in CanHide \ {server.hides} : server' = [server EXCEPT !.hides = hides]
  /\ past' = [Changed EXCEPT !.agree = @ /\ frame.config = None /\ flight = NoRequests]
  /\ UNCHANGED <<frame, flight>>

Expire ==
  /\ server.session /\ Change /\ past' = Changed
  /\ server' = [server EXCEPT !.session = FALSE]
  /\ UNCHANGED <<frame, flight>>

-----------------------------------------------------------------------------

Next ==
  \/ StatusKnown \/ Again \/ FallbackFires \/ OtherRefused
  \/ \E b \in Starts : AskConfig(b) \/ PanelStep(b) \/ Awakes(b)
  \/ \E s \in Slots : ConfigRead(s) \/ ConfigArrives(s) \/ ConfigFails(s) \/ ConfigGivenUp(s)
  \/ \E s \in Slots : Saves(s) \/ Saved(s) \/ SaveLost(s)
  \/ LogIn \/ SavedElsewhere \/ Expire
  \/ \E section \in All : ClickMenu(section)
  \/ \E hides \in CanHide : Save(hides)

Spec == Init /\ [][Next]_vars

(* The fairness of the browser and the server: timers fire, a try for the  *)
(* configuration ends or is given up, the answer to one that was given up  *)
(* ends at last (it holds a slot till then), and a page that asks again    *)
(* and again is answered in time at last.                                  *)
Timers ==
  \/ StatusKnown \/ Again
  \/ \E b \in Starts : AskConfig(b) \/ PanelStep(b) \/ Awakes(b)

Tried(s) == flight[s].ask = "config" /\ flight[s].by # None

Ends(s) == ConfigArrives(s) \/ ConfigFails(s) \/ ConfigGivenUp(s)

ReadInTime(s) == Tried(s) /\ ConfigRead(s)

InTime(s) == Tried(s) /\ ConfigArrives(s)

-----------------------------------------------------------------------------
(* Properties.                                                             *)

\* The section that is shown is marked in the menu, and it is one that the
\* configuration shows: unless a button that was marked when it was hidden
\* has come back and is marked as well.
ShownIsAllowed ==
  /\ frame.panel \in frame.active
  /\ frame.panel \in frame.off => \E b \in frame.active : b \notin frame.off \cup {frame.panel}
  /\ frame.blank => Cardinality(frame.active) > 1

\* The only section with a timer polls exactly while it is the one shown.
PollsWhileShown == frame.polls <=> frame.panel = "traffic"

\* The page shows the menu the stored configuration asks for, once nothing
\* is under way: unless saves overtook each other, an answer was lost or
\* late, or somebody else has saved.
MenuAgrees ==
  past.agree /\ frame.config # None /\ ~Awaits(flight, "save") => frame.config = server.hides

\* Whoever is not logged in sees the login, whatever the start still does;
\* and once the page has started nobody waits behind the start's overlay.
LoginOrPage ==
  /\ frame.auth = FALSE <=> frame.login
  /\ frame.booting => frame.auth # FALSE /\ ~frame.finished

\* The overlay of the start goes: whatever fails or hangs, the page comes
\* to work or asks for a login.
Started == ~frame.booting

=============================================================================
