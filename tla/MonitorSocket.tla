--------------------------- MODULE MonitorSocket ---------------------------
(***************************************************************************)
(* The browser's side of the monitor: one WebSocket that is opened again   *)
(* when it closes, a timer that polls /api/monitor while the socket is not *)
(* connected, a button that pauses both, and the loss of the session       *)
(* (frontend/src/legacy-app.js).  The page has one thread: every event     *)
(* handler is one step, and what it waits for comes back in a later one.   *)
(*                                                                         *)
(* The server is what this page sees of it: it numbers its snapshots,      *)
(* sends them in order on an open socket, and refuses requests without a   *)
(* session.  Delays are left out: a timer that is set may fire at any      *)
(* time.  Operators marked FAULT are seeded errors that no action uses:    *)
(* each replaces the definition that follows it.                           *)
(***************************************************************************)
EXTENDS Integers

CONSTANTS
  Sockets,       \* WebSocket objects that are alive at a time (a bound)
  Polls,         \* requests for /api/monitor under way at a time (a bound)
  MaxSnapshots,  \* bound on the snapshots of the server
  MaxToggles,    \* bound on the clicks on the pause button
  MaxLoads,      \* bound on the times the page is loaded again
  None

ASSUME SocketAssumption ==
  /\ None \notin Sockets
  /\ MaxSnapshots \in Nat \ {0}
  /\ MaxToggles \in Nat
  /\ MaxLoads \in Nat

VARIABLES
  session,     \* the server knows the session of the cookie
  latest,      \* number of the server's latest snapshot
  page,        \* the fields of the page's state that are about the monitor
  sock,        \* state of every WebSocket; "none" before it exists and after its close event
  got,         \* number of the last snapshot that came on a socket
  poll,        \* requests under way: what was answered, or one of the numbers below
  shown,       \* number of the snapshot the page shows
  overlapped,  \* history: a socket was opened while an earlier one was still closing
  toggles, loads

serverVars == <<session, latest>>
counters == <<toggles, loads>>
vars == <<serverVars, page, sock, got, poll, shown, overlapped, counters>>

Idle == -1
Asked == -2
Denied == -3

Page ==
  [auth : BOOLEAN,                                  \* authAuthenticated
   boot : {"login", "running", "done", "failed"},   \* bootRunning, bootFinished
   paused : BOOLEAN,                                \* monitorPaused
   ws : Sockets \cup {None},                        \* monitorWS
   connected : BOOLEAN,                             \* monitorWSConnected
   retry : BOOLEAN,                                 \* monitorWSRetryTimer is set
   timer : BOOLEAN]                                 \* monitorTimer is set

\* The types; and the socket in monitorWS is one that can still be used.
TypeOK ==
  /\ session \in BOOLEAN
  /\ latest \in 1 .. MaxSnapshots
  /\ page \in Page
  /\ sock \in [Sockets -> {"none", "connecting", "open", "closing"}]
  /\ page.ws # None => sock[page.ws] \in {"connecting", "open"}
  /\ got \in [Sockets -> 0 .. latest]
  /\ poll \in [Polls -> {Idle, Asked, Denied} \cup 1 .. latest]
  /\ shown \in 0 .. latest
  /\ overlapped \in BOOLEAN
  /\ toggles \in 0 .. MaxToggles
  /\ loads \in 0 .. MaxLoads

\* A page that has asked /api/auth/status: bootstrap runs if it is logged in.
Loaded(auth) ==
  [auth |-> auth, boot |-> IF auth THEN "running" ELSE "login", paused |-> FALSE,
   ws |-> None, connected |-> FALSE, retry |-> FALSE, timer |-> FALSE]

Init ==
  /\ session \in BOOLEAN
  /\ latest = 1
  /\ page = Loaded(session)
  /\ sock = [s \in Sockets |-> "none"]
  /\ got = [s \in Sockets |-> 0]
  /\ poll = [p \in Polls |-> Idle]
  /\ shown = 0
  /\ overlapped = FALSE
  /\ toggles = 0 /\ loads = 0

-----------------------------------------------------------------------------
(* The functions the handlers call, as changes of the page.                *)

Wanted(pg) == pg.auth /\ ~pg.paused

\* scheduleMonitorSocketReconnect.
Schedule(pg) ==
  IF Wanted(pg) /\ pg.ws = None /\ ~pg.retry THEN [pg EXCEPT !.retry = TRUE] ELSE pg

Unused == {s \in Sockets : sock[s] = "none"}

\* startMonitorSocket; the constructor of WebSocket may throw.
Start(pg) ==
  IF Wanted(pg) /\ pg.ws = None
  THEN \/ /\ Unused # {}
          /\ LET s == CHOOSE u \in Unused : TRUE
             IN  /\ page' = [pg EXCEPT !.ws = s]
                 /\ sock' = [sock EXCEPT ![s] = "connecting"]
       \/ /\ page' = Schedule(pg)
          /\ UNCHANGED sock
  ELSE /\ page' = pg
       /\ UNCHANGED sock

\* FAULT: the socket is forgotten and not closed.
HangUpNothing(pg) == UNCHANGED sock

HangUp(pg) ==
  IF pg.ws = None THEN UNCHANGED sock ELSE sock' = [sock EXCEPT ![pg.ws] = "closing"]

\* FAULT: stopping leaves monitorWSConnected as it is.
StillConnected(pg) == pg.connected

AfterStop(pg) == FALSE

\* stopMonitorSocket: it does not wait for the close event.
Stop(pg) ==
  /\ page' = [pg EXCEPT !.ws = None, !.connected = AfterStop(pg), !.retry = FALSE]
  /\ HangUp(pg)

\* FAULT: a lost session does not stop the polling timer.
PollsOn(pg) == [pg EXCEPT !.auth = FALSE]

LoggedOut(pg) == [pg EXCEPT !.auth = FALSE, !.timer = FALSE]

\* handleAuthRequired.
AuthRequired == Stop(LoggedOut(page))

\* refreshMonitor sends its request.
Refresh ==
  IF \E p \in Polls : poll[p] = Idle
  THEN poll' = [poll EXCEPT ![CHOOSE p \in Polls : poll[p] = Idle] = Asked]
  ELSE UNCHANGED poll

-----------------------------------------------------------------------------
(* The page is set up.                                                     *)

\* One of bootstrap's steps takes a first snapshot.
BootRefresh ==
  /\ page.boot = "running"
  /\ Refresh
  /\ UNCHANGED <<serverVars, page, sock, got, shown, overlapped, counters>>

\* The last step of bootstrap.  A step that may fail has perhaps lost the
\* session before: then the timer runs and the socket is not opened.
Boot ==
  /\ page.boot = "running"
  /\ Start([page EXCEPT !.boot = "done", !.timer = TRUE])
  /\ UNCHANGED <<serverVars, got, poll, shown, overlapped, counters>>

\* The configuration could not be loaded for want of a session.
BootFails ==
  /\ page.boot = "running" /\ ~page.auth
  /\ page' = [page EXCEPT !.boot = "failed"]
  /\ UNCHANGED <<serverVars, sock, got, poll, shown, overlapped, counters>>

\* The page is loaded again, after a login or not.  The status request may
\* fail and then counts as not logged in.
Load ==
  /\ loads < MaxLoads
  /\ loads' = loads + 1
  /\ session' \in {session, TRUE}
  /\ \E auth \in {session', FALSE} : page' = Loaded(auth)
  /\ sock' = [s \in Sockets |-> "none"]
  /\ got' = [s \in Sockets |-> 0]
  /\ poll' = [p \in Polls |-> Idle]
  /\ shown' = 0
  /\ overlapped' = FALSE
  /\ UNCHANGED <<latest, toggles>>

-----------------------------------------------------------------------------
(* Events of a socket.                                                     *)

\* The server sends its latest snapshot first.
Opens(s) ==
  /\ sock[s] = "connecting" /\ session
  /\ sock' = [sock EXCEPT ![s] = "open"]
  /\ got' = [got EXCEPT ![s] = latest - 1]
  /\ page' = [page EXCEPT !.connected = TRUE, !.retry = FALSE]
  /\ UNCHANGED <<serverVars, poll, shown, overlapped, counters>>

Message(s) ==
  /\ sock[s] = "open" /\ got[s] < latest
  /\ got' = [got EXCEPT ![s] = @ + 1]
  /\ shown' = IF page.paused THEN shown ELSE got[s] + 1
  /\ UNCHANGED <<serverVars, page, sock, poll, overlapped, counters>>

\* FAULT: the flag is not reset.
ClosedButConnected(pg) == [pg EXCEPT !.ws = None]

Closed(pg) == [pg EXCEPT !.ws = None, !.connected = FALSE]

\* FAULT: a socket that never opened is not opened again.
IfItWasOpen(pg) == IF page.connected THEN Schedule(pg) ELSE pg

Again(pg) == Schedule(pg)

\* The close event: after close(), or because the connection failed, was
\* refused or has ended.  The handler does not look which socket it is for.
Closes(s) ==
  /\ sock[s] # "none"
  /\ sock' = [sock EXCEPT ![s] = "none"]
  /\ got' = [got EXCEPT ![s] = 0]
  /\ IF Wanted(page)
     THEN /\ page' = Again(Closed(page))
          /\ IF page.connected THEN Refresh ELSE UNCHANGED poll
     ELSE /\ page' = Closed(page)
          /\ UNCHANGED poll
  /\ UNCHANGED <<serverVars, shown, overlapped, counters>>

-----------------------------------------------------------------------------
(* Timers and the user.                                                    *)

RetryFires ==
  /\ page.retry
  /\ Start([page EXCEPT !.retry = FALSE])
  /\ UNCHANGED <<serverVars, got, poll, shown, overlapped, counters>>

PollTimer ==
  /\ page.timer /\ ~page.paused /\ ~page.connected
  /\ \E p \in Polls : poll[p] = Idle
  /\ Refresh
  /\ UNCHANGED <<serverVars, page, sock, got, shown, overlapped, counters>>

\* killProcess ends with a refresh, whatever the socket does.
UserRefresh ==
  /\ page.boot = "done" /\ page.auth
  /\ Refresh
  /\ UNCHANGED <<serverVars, page, sock, got, shown, overlapped, counters>>

Toggle ==
  /\ page.boot = "done" /\ page.auth
  /\ toggles < MaxToggles
  /\ toggles' = toggles + 1

Pause ==
  /\ Toggle /\ ~page.paused
  /\ Stop([page EXCEPT !.paused = TRUE])
  /\ UNCHANGED <<serverVars, got, poll, shown, overlapped, loads>>

Resume ==
  /\ Toggle /\ page.paused
  /\ Refresh
  /\ Start([page EXCEPT !.paused = FALSE])
  /\ overlapped' = (overlapped \/ \E s \in Sockets : sock[s] # "none")
  /\ UNCHANGED <<serverVars, got, shown, loads>>

-----------------------------------------------------------------------------
(* Requests.                                                               *)

Answer(p) ==
  /\ poll[p] = Asked
  /\ poll' = [poll EXCEPT ![p] = IF session THEN latest ELSE Denied]
  /\ UNCHANGED <<serverVars, page, sock, got, shown, overlapped, counters>>

\* The answer is shown also when the page has been paused meanwhile.
Arrives(p) ==
  /\ poll[p] > 0
  /\ poll' = [poll EXCEPT ![p] = Idle]
  /\ shown' = poll[p]
  /\ UNCHANGED <<serverVars, page, sock, got, overlapped, counters>>

Refused(p) ==
  /\ poll[p] = Denied
  /\ poll' = [poll EXCEPT ![p] = Idle]
  /\ AuthRequired
  /\ UNCHANGED <<serverVars, got, shown, overlapped, counters>>

\* The network fails, or the answer takes longer than 45 s.
PollFails(p) ==
  /\ poll[p] # Idle
  /\ poll' = [poll EXCEPT ![p] = Idle]
  /\ UNCHANGED <<serverVars, page, sock, got, shown, overlapped, counters>>

\* Any other request of the page is refused.
OtherRefused ==
  /\ ~session /\ page.auth
  /\ AuthRequired
  /\ UNCHANGED <<serverVars, got, poll, shown, overlapped, counters>>

-----------------------------------------------------------------------------
(* The server.                                                             *)

Collect ==
  /\ latest < MaxSnapshots
  /\ latest' = latest + 1
  /\ UNCHANGED <<session, page, sock, got, poll, shown, overlapped, counters>>

\* The session ends: its day is over, a logout, a restart of the server.
Expire ==
  /\ session
  /\ session' = FALSE
  /\ UNCHANGED <<latest, page, sock, got, poll, shown, overlapped, counters>>

-----------------------------------------------------------------------------

Next ==
  \/ BootRefresh \/ Boot \/ BootFails \/ Load
  \/ \E s \in Sockets : Opens(s) \/ Message(s) \/ Closes(s)
  \/ RetryFires \/ PollTimer \/ UserRefresh \/ Pause \/ Resume
  \/ \E p \in Polls : Answer(p) \/ Arrives(p) \/ Refused(p) \/ PollFails(p)
  \/ OtherRefused \/ Collect \/ Expire

Spec == Init /\ [][Next]_vars

(* The polling timer fires, connections come to an end of their handshake  *)
(* and messages on an open one arrive; a request that is made again and    *)
(* again is answered at last.  The retry timer need not bring a socket:    *)
(* the constructor may throw every time.                                   *)
Fairness ==
  /\ WF_vars(Boot \/ BootFails)
  /\ WF_vars(PollTimer)
  /\ \A s \in Sockets :
       /\ WF_vars(sock[s] = "connecting" /\ (Opens(s) \/ Closes(s)))
       /\ WF_vars(sock[s] = "closing" /\ Closes(s))
       /\ WF_vars(Message(s))
  /\ \A p \in Polls : SF_vars(Answer(p)) /\ SF_vars(Arrives(p) \/ Refused(p))

FairSpec == Spec /\ Fairness

-----------------------------------------------------------------------------
(* Properties.                                                             *)

\* The polling timer stands back only while a socket is really open, also
\* when the close event of an earlier socket comes late.
ConnectedIsOpen == page.connected => \E s \in Sockets : sock[s] = "open"

\* A page that wants snapshots polls, and it has a timer that will open a
\* socket or a socket whose close event will set one: it never gives up.
CanReconnect ==
  page.boot = "done" /\ Wanted(page) =>
    page.timer /\ (page.retry \/ \E s \in Sockets : sock[s] # "none")

\* Unless the user resumed while an earlier socket was still closing, the
\* only socket that works is the one in monitorWS: a pause or a lost session
\* leaves none behind.
OneSocket ==
  ~overlapped => \A s \in Sockets : sock[s] \in {"connecting", "open"} => page.ws = s

\* Every snapshot, or a later one, gets to a page that keeps watching, with
\* an answer or on an open socket, whatever its sockets do.  (An answer that
\* was under way may hide it again until the next one.)
Reached(n) == shown >= n \/ \E s \in Sockets : sock[s] = "open" /\ got[s] >= n

EventuallyShown ==
  \A n \in 1 .. MaxSnapshots :
    latest >= n /\ Wanted(page) ~> Reached(n) \/ ~Wanted(page)

\* A page that stays logged out stops all its timers, also when the session
\* was lost before the timers were made.
LoggedOutQuiet ==
  <>[](~page.auth) => <>[](~page.timer /\ ~page.retry /\ page.ws = None)

=============================================================================
