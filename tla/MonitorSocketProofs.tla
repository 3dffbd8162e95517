------------------------ MODULE MonitorSocketProofs ------------------------
(***************************************************************************)
(* Safety of MonitorSocket for any number of sockets, requests, clicks and *)
(* loads of the page.                                                      *)
(***************************************************************************)
EXTENDS MonitorSocket, TLAPS

USE SocketAssumption DEF serverVars, counters

\* What startMonitorSocket does to the page: nothing, or it opens an unused
\* socket, or, when the constructor throws, it leaves the retry timer set.
LEMMA StartCases ==
  ASSUME NEW pg \in Page, Start(pg)
  PROVE  \/ page' = pg /\ sock' = sock /\ ~(Wanted(pg) /\ pg.ws = None)
         \/ /\ Wanted(pg) /\ pg.ws = None
            /\ \E s \in Unused : /\ page' = [pg EXCEPT !.ws = s]
                                 /\ sock' = [sock EXCEPT ![s] = "connecting"]
         \/ /\ Wanted(pg) /\ pg.ws = None
            /\ page' = [pg EXCEPT !.retry = TRUE] /\ sock' = sock
<1>1. CASE ~(Wanted(pg) /\ pg.ws = None)
  BY <1>1 DEF Start
<1>2. CASE Wanted(pg) /\ pg.ws = None /\ Unused # {}
                      /\ LET s == CHOOSE u \in Unused : TRUE
                         IN  /\ page' = [pg EXCEPT !.ws = s]
                             /\ sock' = [sock EXCEPT ![s] = "connecting"]
  BY <1>2
<1>3. CASE Wanted(pg) /\ pg.ws = None /\ page' = Schedule(pg) /\ UNCHANGED sock
  <2>1. Schedule(pg) = [pg EXCEPT !.retry = TRUE]
    BY <1>3 DEF Schedule, Page
  <2> QED
    BY <1>3, <2>1
<1> QED
  BY <1>1, <1>2, <1>3 DEF Start

\* A request that is sent leaves the types of the requests alone.
LEMMA RefreshTyped ==
  ASSUME TypeOK, Refresh
  PROVE  poll' \in [Polls -> {Idle, Asked, Denied} \cup 1 .. latest]
BY DEF Refresh, TypeOK

SockTypes == [Sockets -> {"none", "connecting", "open", "closing"}]

\* Opening a socket keeps the part of the types that is about page and sockets.
LEMMA StartTyped ==
  ASSUME TypeOK, NEW pg \in Page, pg.ws = page.ws, Start(pg)
  PROVE  /\ page' \in Page /\ sock' \in SockTypes
         /\ page'.ws # None => sock'[page'.ws] \in {"connecting", "open"}
<1>1. CASE page' = pg /\ sock' = sock
  BY <1>1 DEF TypeOK, SockTypes
<1>2. CASE \E s \in Unused : /\ page' = [pg EXCEPT !.ws = s]
                             /\ sock' = [sock EXCEPT ![s] = "connecting"]
  <2>1. PICK s \in Unused : /\ page' = [pg EXCEPT !.ws = s]
                            /\ sock' = [sock EXCEPT ![s] = "connecting"]
    BY <1>2
  <2>2. s \in Sockets
    BY DEF Unused
  <2> QED
    BY <2>1, <2>2 DEF TypeOK, SockTypes, Page
<1>3. CASE page' = [pg EXCEPT !.retry = TRUE] /\ sock' = sock
  BY <1>3 DEF TypeOK, SockTypes, Page
<1> QED
  BY <1>1, <1>2, <1>3, StartCases

\* So does stopping.
LEMMA StopTyped ==
  ASSUME TypeOK, NEW pg \in Page, pg.ws = page.ws, Stop(pg)
  PROVE  /\ page' \in Page /\ sock' \in SockTypes
         /\ page'.ws = None
<1>1. page' \in Page /\ page'.ws = None
  BY DEF Stop, AfterStop, Page
<1>2. sock' \in SockTypes
  BY DEF Stop, HangUp, TypeOK, SockTypes
<1> QED
  BY <1>1, <1>2

-----------------------------------------------------------------------------

\* A page that has just been loaded has no socket and no timer.
LEMMA LoadedTyped ==
  ASSUME NEW auth \in BOOLEAN
  PROVE  /\ Loaded(auth) \in Page
         /\ Loaded(auth).auth = auth /\ Loaded(auth).boot # "done"
         /\ Loaded(auth).ws = None /\ ~Loaded(auth).retry /\ ~Loaded(auth).connected
<1>1. CASE auth
  BY <1>1 DEF Loaded, Page
<1>2. CASE ~auth
  BY <1>2 DEF Loaded, Page
<1> QED
  BY <1>1, <1>2

\* So it is after Load.
LEMMA LoadTyped ==
  ASSUME TypeOK, Load
  PROVE  /\ page' \in Page /\ page'.boot # "done"
         /\ page'.ws = None /\ ~page'.retry /\ ~page'.connected
<1>1. session' \in BOOLEAN
  BY DEF Load, TypeOK
<1>2. PICK auth \in BOOLEAN : page' = Loaded(auth)
  BY <1>1 DEF Load
<1> QED
  BY <1>2, LoadedTyped

\* A close event leaves the page without a socket; it sets the retry timer
\* of a page that wants snapshots, and changes nothing else.
LEMMA CloseCases ==
  ASSUME TypeOK, NEW s \in Sockets, Closes(s)
  PROVE  /\ page' \in Page /\ page'.ws = None /\ ~page'.connected
         /\ page'.auth = page.auth /\ page'.paused = page.paused
         /\ page'.boot = page.boot /\ page'.timer = page.timer
         /\ IF Wanted(page) THEN page'.retry ELSE page'.retry = page.retry
<1> DEFINE c == Closed(page)
<1>1. page \in Page
  BY DEF TypeOK
<1>2. /\ c \in Page /\ c.ws = None /\ ~c.connected
      /\ c.auth = page.auth /\ c.paused = page.paused
      /\ c.boot = page.boot /\ c.timer = page.timer /\ c.retry = page.retry
  BY <1>1 DEF Closed, Page
<1>3. page' = IF Wanted(page) THEN Schedule(c) ELSE c
  BY DEF Closes, Again
<1> HIDE DEF c
<1>4. CASE Wanted(page) /\ ~c.retry
  <2>1. page' = [c EXCEPT !.retry = TRUE]
    BY <1>2, <1>3, <1>4 DEF Schedule, Wanted
  <2> QED
    BY <1>2, <1>4, <2>1 DEF Page
<1>5. CASE Wanted(page) /\ c.retry
  BY <1>2, <1>3, <1>5 DEF Schedule
<1>6. CASE ~Wanted(page)
  BY <1>2, <1>3, <1>6
<1> QED
  BY <1>4, <1>5, <1>6

\* The variables keep their types, and what the page lists as its socket is
\* one that has not been closed.
THEOREM TypeCorrect == Spec => []TypeOK
<1>1. Init => TypeOK
  <2> SUFFICES ASSUME Init PROVE TypeOK
    OBVIOUS
  <2>1. page \in Page /\ page.ws = None
    BY LoadedTyped DEF Init
  <2>2. session \in BOOLEAN /\ overlapped \in BOOLEAN
    BY DEF Init
  <2>3. /\ latest \in 1 .. MaxSnapshots /\ shown \in 0 .. latest
        /\ toggles \in 0 .. MaxToggles /\ loads \in 0 .. MaxLoads
    BY SocketAssumption DEF Init
  <2>4. got \in [Sockets -> 0 .. latest] /\ sock \in SockTypes
    BY DEF Init, SockTypes
  <2>5. poll \in [Polls -> {Idle, Asked, Denied} \cup 1 .. latest]
    BY DEF Init
  <2> QED
    BY <2>1, <2>2, <2>3, <2>4, <2>5 DEF TypeOK, SockTypes
<1>2. TypeOK /\ [Next]_vars => TypeOK'
  <2> SUFFICES ASSUME TypeOK, [Next]_vars PROVE TypeOK'
    OBVIOUS
  <2> USE DEF SockTypes
  <2>1. ASSUME BootRefresh \/ PollTimer \/ UserRefresh PROVE TypeOK'
    <3>1. poll' \in [Polls -> {Idle, Asked, Denied} \cup 1 .. latest]
      BY <2>1, RefreshTyped DEF BootRefresh, PollTimer, UserRefresh
    <3> QED
      BY <2>1, <3>1 DEF TypeOK, BootRefresh, PollTimer, UserRefresh
  <2>2. CASE Boot
    <3>1. [page EXCEPT !.boot = "done", !.timer = TRUE] \in Page
      BY DEF TypeOK, Page
    <3>2. [page EXCEPT !.boot = "done", !.timer = TRUE].ws = page.ws
      BY DEF TypeOK, Page
    <3>3. /\ page' \in Page /\ sock' \in SockTypes
          /\ page'.ws # None => sock'[page'.ws] \in {"connecting", "open"}
      BY <2>2, <3>1, <3>2, StartTyped DEF Boot
    <3> QED
      BY <2>2, <3>3 DEF TypeOK, Boot
  <2>3. CASE BootFails
    BY <2>3 DEF TypeOK, BootFails, Page
  <2>4. CASE Load
    <3>1. page' \in Page /\ page'.ws = None
      BY <2>4, LoadTyped
    <3>2. session' \in BOOLEAN
      BY <2>4 DEF Load, TypeOK
    <3>3. loads' \in 0 .. MaxLoads
      <4>1. loads < MaxLoads /\ loads' = loads + 1 /\ loads \in 0 .. MaxLoads
        BY <2>4 DEF Load, TypeOK
      <4> QED
        BY <4>1, SocketAssumption
    <3>4. got' \in [Sockets -> 0 .. latest'] /\ sock' \in SockTypes
      BY <2>4 DEF Load, TypeOK
    <3>5. poll' \in [Polls -> {Idle, Asked, Denied} \cup 1 .. latest']
      BY <2>4 DEF Load
    <3>6. /\ latest' \in 1 .. MaxSnapshots /\ shown' \in 0 .. latest'
          /\ toggles' \in 0 .. MaxToggles
      BY <2>4 DEF Load, TypeOK
    <3>7. overlapped' \in BOOLEAN
      BY <2>4 DEF Load
    <3> QED
      BY <3>1, <3>2, <3>3, <3>4, <3>5, <3>6, <3>7 DEF TypeOK
  <2>5. ASSUME NEW s \in Sockets, Opens(s) PROVE TypeOK'
    <3>1. page' \in Page /\ page'.ws = page.ws
      BY <2>5 DEF TypeOK, Opens, Page
    <3>2. /\ sock' \in SockTypes
          /\ page.ws # None => sock'[page.ws] \in {"connecting", "open"}
      BY <2>5 DEF TypeOK, Opens, Page
    <3>3. got' \in [Sockets -> 0 .. latest]
      BY <2>5 DEF TypeOK, Opens
    <3> QED
      BY <2>5, <3>1, <3>2, <3>3 DEF TypeOK, Opens
  <2>6. ASSUME NEW s \in Sockets, Message(s) PROVE TypeOK'
    BY <2>6 DEF TypeOK, Message
  <2>7. ASSUME NEW s \in Sockets, Closes(s) PROVE TypeOK'
    <3>1. page' \in Page /\ page'.ws = None
      BY <2>7, CloseCases
    <3>2. poll' \in [Polls -> {Idle, Asked, Denied} \cup 1 .. latest]
      <4>1. Refresh \/ UNCHANGED poll
        BY <2>7 DEF Closes
      <4> QED
        BY <4>1, RefreshTyped DEF TypeOK
    <3>3. sock' \in SockTypes /\ got' \in [Sockets -> 0 .. latest]
      BY <2>7 DEF Closes, TypeOK
    <3> QED
      BY <2>7, <3>1, <3>2, <3>3 DEF Closes, TypeOK
  <2>8. CASE RetryFires
    <3>1. [page EXCEPT !.retry = FALSE] \in Page
      BY DEF TypeOK, Page
    <3>2. [page EXCEPT !.retry = FALSE].ws = page.ws
      BY DEF TypeOK, Page
    <3>3. /\ page' \in Page /\ sock' \in SockTypes
          /\ page'.ws # None => sock'[page'.ws] \in {"connecting", "open"}
      BY <2>8, <3>1, <3>2, StartTyped DEF RetryFires
    <3> QED
      BY <2>8, <3>3 DEF TypeOK, RetryFires
  <2>9. CASE Pause
    <3>1. [page EXCEPT !.paused = TRUE] \in Page
      BY DEF TypeOK, Page
    <3>2. [page EXCEPT !.paused = TRUE].ws = page.ws
      BY DEF TypeOK, Page
    <3>3. page' \in Page /\ sock' \in SockTypes /\ page'.ws = None
      BY <2>9, <3>1, <3>2, StopTyped DEF Pause
    <3> QED
      BY <2>9, <3>3 DEF TypeOK, Pause, Toggle
  <2>10. CASE Resume
    <3>1. [page EXCEPT !.paused = FALSE] \in Page
      BY DEF TypeOK, Page
    <3>2. [page EXCEPT !.paused = FALSE].ws = page.ws
      BY DEF TypeOK, Page
    <3>3. /\ page' \in Page /\ sock' \in SockTypes
          /\ page'.ws # None => sock'[page'.ws] \in {"connecting", "open"}
      BY <2>10, <3>1, <3>2, StartTyped DEF Resume
    <3>4. poll' \in [Polls -> {Idle, Asked, Denied} \cup 1 .. latest]
      BY <2>10, RefreshTyped DEF Resume
    <3> QED
      BY <2>10, <3>3, <3>4 DEF TypeOK, Resume, Toggle
  <2>11. ASSUME NEW p \in Polls, Answer(p) \/ Arrives(p) \/ PollFails(p) PROVE TypeOK'
    <3>1. CASE Answer(p)
      BY <3>1 DEF TypeOK, Answer
    <3>2. CASE Arrives(p)
      BY <3>2 DEF TypeOK, Arrives, Idle, Asked, Denied
    <3>3. CASE PollFails(p)
      BY <3>3 DEF TypeOK, PollFails
    <3> QED
      BY <2>11, <3>1, <3>2, <3>3
  <2>12. ASSUME AuthRequired
         PROVE  page' \in Page /\ sock' \in SockTypes /\ page'.ws = None
    <3>1. LoggedOut(page) \in Page /\ LoggedOut(page).ws = page.ws
      BY DEF LoggedOut, TypeOK, Page
    <3> QED
      BY <2>12, <3>1, StopTyped DEF AuthRequired
  <2>13. ASSUME NEW p \in Polls, Refused(p) PROVE TypeOK'
    BY <2>12, <2>13 DEF TypeOK, Refused
  <2>14. CASE OtherRefused
    BY <2>12, <2>14 DEF TypeOK, OtherRefused
  <2>15. CASE Collect
    BY <2>15 DEF TypeOK, Collect
  <2>16. CASE Expire
    BY <2>16 DEF TypeOK, Expire
  <2>17. CASE UNCHANGED vars
    BY <2>17 DEF TypeOK, vars
  <2> QED
    BY <2>1, <2>2, <2>3, <2>4, <2>5, <2>6, <2>7, <2>8, <2>9, <2>10, <2>11, <2>13,
       <2>14, <2>15, <2>16, <2>17 DEF Next
<1> QED
  BY <1>1, <1>2, PTL DEF Spec

-----------------------------------------------------------------------------

\* The steps that change the page or a socket; all others leave both alone.
LEMMA StepCases ==
  ASSUME [Next]_vars
  PROVE  \/ UNCHANGED <<page, sock, overlapped>>
         \/ Boot \/ BootFails \/ Load \/ RetryFires \/ Pause \/ Resume
         \/ \E s \in Sockets : Opens(s) \/ Closes(s)
         \/ AuthRequired /\ UNCHANGED overlapped
<1>1. CASE BootRefresh \/ PollTimer \/ UserRefresh \/ Collect \/ Expire \/ UNCHANGED vars
  BY <1>1 DEF BootRefresh, PollTimer, UserRefresh, Collect, Expire, vars
<1>2. CASE \E s \in Sockets : Message(s)
  BY <1>2 DEF Message
<1>3. CASE \E p \in Polls : Answer(p) \/ Arrives(p) \/ Refused(p) \/ PollFails(p)
  BY <1>3 DEF Answer, Arrives, Refused, PollFails
<1>4. CASE OtherRefused
  BY <1>4 DEF OtherRefused
<1> QED
  BY <1>1, <1>2, <1>3, <1>4 DEF Next

\* Opening a socket changes no flag but the retry timer's, and no socket that
\* is in use.
LEMMA StartKeeps ==
  ASSUME TypeOK, NEW pg \in Page, Start(pg)
  PROVE  /\ page'.connected = pg.connected /\ page'.auth = pg.auth
         /\ page'.paused = pg.paused /\ page'.boot = pg.boot /\ page'.timer = pg.timer
         /\ \A s \in Sockets : sock[s] # "none" => sock'[s] = sock[s]
<1>1. CASE page' = pg /\ sock' = sock
  BY <1>1
<1>2. CASE \E s \in Unused : /\ page' = [pg EXCEPT !.ws = s]
                             /\ sock' = [sock EXCEPT ![s] = "connecting"]
  BY <1>2 DEF TypeOK, Unused, Page
<1>3. CASE page' = [pg EXCEPT !.retry = TRUE] /\ sock' = sock
  BY <1>3 DEF Page
<1> QED
  BY <1>1, <1>2, <1>3, StartCases

\* The polling timer stands back only while a socket is really open.
THEOREM Connected == Spec => []ConnectedIsOpen
<1>1. Init => ConnectedIsOpen
  BY LoadedTyped DEF Init, ConnectedIsOpen
<1>2. TypeOK /\ ConnectedIsOpen /\ [Next]_vars => ConnectedIsOpen'
  <2> SUFFICES ASSUME TypeOK, ConnectedIsOpen, [Next]_vars PROVE ConnectedIsOpen'
    OBVIOUS
  <2> USE DEF ConnectedIsOpen
  <2>1. CASE UNCHANGED <<page, sock, overlapped>>
    BY <2>1
  <2>2. ASSUME NEW pg \in Page, pg.connected = page.connected, Start(pg)
        PROVE  ConnectedIsOpen'
    BY <2>2, StartKeeps
  <2>3. CASE Boot
    <3>1. /\ [page EXCEPT !.boot = "done", !.timer = TRUE] \in Page
          /\ [page EXCEPT !.boot = "done", !.timer = TRUE].connected = page.connected
      BY DEF TypeOK, Page
    <3> QED
      BY <2>2, <2>3, <3>1 DEF Boot
  <2>4. CASE BootFails
    BY <2>4 DEF BootFails, TypeOK, Page
  <2>5. CASE Load
    BY <2>5, LoadTyped
  <2>6. CASE RetryFires
    <3>1. /\ [page EXCEPT !.retry = FALSE] \in Page
          /\ [page EXCEPT !.retry = FALSE].connected = page.connected
      BY DEF TypeOK, Page
    <3> QED
      BY <2>2, <2>6, <3>1 DEF RetryFires
  <2>7. ASSUME NEW pg \in Page, Stop(pg) PROVE ConnectedIsOpen'
    BY <2>7 DEF Stop, AfterStop, Page
  <2>8. CASE Pause
    <3>1. [page EXCEPT !.paused = TRUE] \in Page
      BY DEF TypeOK, Page
    <3> QED
      BY <2>7, <2>8, <3>1 DEF Pause
  <2>9. CASE Resume
    <3>1. /\ [page EXCEPT !.paused = FALSE] \in Page
          /\ [page EXCEPT !.paused = FALSE].connected = page.connected
      BY DEF TypeOK, Page
    <3> QED
      BY <2>2, <2>9, <3>1 DEF Resume
  <2>10. ASSUME NEW s \in Sockets, Opens(s) PROVE ConnectedIsOpen'
    BY <2>10 DEF Opens, TypeOK
  <2>11. ASSUME NEW s \in Sockets, Closes(s) PROVE ConnectedIsOpen'
    BY <2>11, CloseCases
  <2>12. CASE AuthRequired
    <3>1. LoggedOut(page) \in Page
      BY DEF LoggedOut, TypeOK, Page
    <3> QED
      BY <2>7, <2>12, <3>1 DEF AuthRequired
  <2> QED
    BY <2>1, <2>3, <2>4, <2>5, <2>6, <2>8, <2>9, <2>10, <2>11, <2>12, StepCases
<1> QED
  BY <1>1, <1>2, TypeCorrect, PTL DEF Spec

-----------------------------------------------------------------------------

\* Before the end of bootstrap there is no socket and no timer.
BootInv ==
  page.boot # "done" => ~page.retry /\ \A s \in Sockets : sock[s] = "none"

\* A page that wants snapshots and is set up can always get a socket.
ReconnectInv ==
  /\ BootInv
  /\ page.boot = "done" /\ page.auth => page.timer
  /\ CanReconnect

\* A paused page has no retry timer.  While no resume has overlapped a close there is one socket at most, none
\* when the retry timer is set, and a socket that works is the listed one.
OverlapInv ==
  /\ page.paused => ~page.retry
  /\ ~overlapped =>
       /\ \A s, t \in Sockets : sock[s] # "none" /\ sock[t] # "none" => s = t
       /\ page.retry => \A s \in Sockets : sock[s] = "none"
       /\ \A s \in Sockets : sock[s] \in {"connecting", "open"} => page.ws = s

\* A page that wants snapshots polls and is on its way to a socket: it never
\* gives up, in whatever order the events of its sockets come.
THEOREM Reconnects == Spec => []CanReconnect
<1>1. Init => ReconnectInv
  BY LoadedTyped DEF Init, ReconnectInv, BootInv, CanReconnect
<1>2. TypeOK /\ ReconnectInv /\ [Next]_vars => ReconnectInv'
  <2> SUFFICES ASSUME TypeOK, ReconnectInv, [Next]_vars PROVE ReconnectInv'
    OBVIOUS
  <2> USE DEF ReconnectInv, BootInv, CanReconnect, Wanted
  <2>1. CASE UNCHANGED <<page, sock, overlapped>>
    BY <2>1
  <2>2. ASSUME NEW pg \in Page, pg.ws = page.ws, pg.boot = "done", Start(pg),
               pg.auth => pg.timer
        PROVE  ReconnectInv'
    <3>1. CASE page' = pg /\ sock' = sock /\ ~(Wanted(pg) /\ pg.ws = None)
      BY <2>2, <3>1 DEF TypeOK, Page
    <3>2. CASE \E s \in Unused : /\ page' = [pg EXCEPT !.ws = s]
                                 /\ sock' = [sock EXCEPT ![s] = "connecting"]
      BY <2>2, <3>2 DEF TypeOK, Unused, Page
    <3>3. CASE page' = [pg EXCEPT !.retry = TRUE]
      BY <2>2, <3>3 DEF Page
    <3> QED
      BY <2>2, <3>1, <3>2, <3>3, StartCases
  <2>3. CASE Boot
    <3>1. [page EXCEPT !.boot = "done", !.timer = TRUE] \in Page
      BY DEF TypeOK, Page
    <3> QED
      BY <2>2, <2>3, <3>1 DEF Boot, TypeOK, Page
  <2>4. CASE BootFails
    BY <2>4 DEF BootFails, TypeOK, Page
  <2>5. CASE Load
    <3>1. page'.boot # "done" /\ ~page'.retry
      BY <2>5, LoadTyped
    <3> QED
      BY <2>5, <3>1 DEF Load
  <2>6. CASE RetryFires
    <3>1. [page EXCEPT !.retry = FALSE] \in Page
      BY DEF TypeOK, Page
    <3> QED
      BY <2>2, <2>6, <3>1 DEF RetryFires, TypeOK, Page
  <2>7. CASE Pause
    BY <2>7 DEF Pause, Toggle, Stop, TypeOK, Page
  <2>8. CASE Resume
    <3>1. [page EXCEPT !.paused = FALSE] \in Page
      BY DEF TypeOK, Page
    <3>2. page.boot = "done" /\ page.auth
      BY <2>8 DEF Resume, Toggle
    <3> QED
      BY <2>2, <2>8, <3>1, <3>2 DEF Resume, TypeOK, Page
  <2>9. ASSUME NEW s \in Sockets, Opens(s) PROVE ReconnectInv'
    BY <2>9 DEF Opens, TypeOK, Page
  <2>10. ASSUME NEW s \in Sockets, Closes(s) PROVE ReconnectInv'
    <3>1. /\ page'.auth = page.auth /\ page'.paused = page.paused
          /\ page'.boot = page.boot /\ page'.timer = page.timer
      BY <2>10, CloseCases
    <3>2. Wanted(page) => page'.retry
      BY <2>10, CloseCases
    <3>3. page.boot = "done"
      BY <2>10 DEF Closes
    <3> QED
      BY <3>1, <3>2, <3>3
  <2>11. CASE AuthRequired
    BY <2>11 DEF AuthRequired, LoggedOut, Stop, HangUp, TypeOK, Page
  <2> QED
    BY <2>1, <2>3, <2>4, <2>5, <2>6, <2>7, <2>8, <2>9, <2>10, <2>11, StepCases
<1>3. ReconnectInv => CanReconnect
  BY DEF ReconnectInv
<1> QED
  BY <1>1, <1>2, <1>3, TypeCorrect, PTL DEF Spec

-----------------------------------------------------------------------------

\* A pause, a lost session or a connection that ends leaves no socket behind:
\* only a resume that overtakes a close event can.
THEOREM Single == Spec => []OneSocket
<1> DEFINE Inv == BootInv /\ OverlapInv
<1>1. Init => Inv
  BY LoadedTyped DEF Init, BootInv, OverlapInv
<1>2. TypeOK /\ Inv /\ [Next]_vars => Inv'
  <2> SUFFICES ASSUME TypeOK, Inv, [Next]_vars PROVE Inv'
    OBVIOUS
  <2> USE DEF BootInv, OverlapInv
  <2>1. CASE UNCHANGED <<page, sock, overlapped>>
    BY <2>1
  <2>2. ASSUME NEW pg \in Page, pg.ws = page.ws, pg.boot = "done", Start(pg),
               ~pg.retry,
               ~overlapped' => ~overlapped,
               ~overlapped' /\ pg.ws = None => \A s \in Sockets : sock[s] = "none"
        PROVE  Inv'
    <3>1. CASE page' = pg /\ sock' = sock
      BY <2>2, <3>1 DEF TypeOK
    <3>2. CASE Wanted(pg) /\ pg.ws = None /\ \E s \in Unused : /\ page' = [pg EXCEPT !.ws = s]
                                                 /\ sock' = [sock EXCEPT ![s] = "connecting"]
      <4>1. PICK s \in Unused : /\ page' = [pg EXCEPT !.ws = s]
                                /\ sock' = [sock EXCEPT ![s] = "connecting"]
        BY <3>2
      <4>2. s \in Sockets
        BY DEF Unused
      <4>3. page'.ws = s /\ page'.boot = "done" /\ ~page'.retry
        BY <2>2, <4>1, <4>2 DEF Page
      <4>4. ~overlapped' => \A t \in Sockets : t # s => sock'[t] = "none"
        BY <2>2, <3>2, <4>1 DEF TypeOK
      <4> QED
        BY <4>2, <4>3, <4>4
    <3>3. CASE Wanted(pg) /\ pg.ws = None /\ page' = [pg EXCEPT !.retry = TRUE] /\ sock' = sock
      <4>1. page'.ws = pg.ws /\ page'.boot = "done" /\ ~page'.paused
        BY <2>2, <3>3 DEF Page, Wanted
      <4> QED
        BY <2>2, <3>3, <4>1
    <3> QED
      BY <2>2, <3>1, <3>2, <3>3, StartCases
  <2>3. CASE Boot
    <3>1. [page EXCEPT !.boot = "done", !.timer = TRUE] \in Page
      BY DEF TypeOK, Page
    <3> QED
      BY <2>2, <2>3, <3>1 DEF Boot, TypeOK, Page
  <2>4. CASE BootFails
    BY <2>4 DEF BootFails, TypeOK, Page
  <2>5. CASE Load
    <3>1. page'.boot # "done" /\ ~page'.retry
      BY <2>5, LoadTyped
    <3> QED
      BY <2>5, <3>1 DEF Load
  <2>6. CASE RetryFires
    <3>1. [page EXCEPT !.retry = FALSE] \in Page
      BY DEF TypeOK, Page
    <3> QED
      BY <2>2, <2>6, <3>1 DEF RetryFires, TypeOK, Page
  <2>7. ASSUME NEW pg \in Page, pg.ws = page.ws, pg.boot = page.boot, Stop(pg),
               UNCHANGED overlapped
        PROVE  Inv'
    <3>1. ~page'.retry /\ page'.ws = None /\ page'.boot = page.boot
      BY <2>7 DEF Stop, Page
    <3>2. \A s \in Sockets : sock'[s] = "none" <=> sock[s] = "none"
      BY <2>7 DEF Stop, HangUp, TypeOK
    <3>3. ~overlapped => \A s \in Sockets : sock'[s] \notin {"connecting", "open"}
      BY <2>7 DEF Stop, HangUp, TypeOK
    <3> QED
      BY <2>7, <3>1, <3>2, <3>3
  <2>8. CASE Pause
    <3>1. [page EXCEPT !.paused = TRUE] \in Page
      BY DEF TypeOK, Page
    <3> QED
      BY <2>7, <2>8, <3>1 DEF Pause, TypeOK, Page
  <2>9. CASE Resume
    <3>1. [page EXCEPT !.paused = FALSE] \in Page
      BY DEF TypeOK, Page
    <3> QED
      BY <2>2, <2>9, <3>1 DEF Resume, Toggle, TypeOK, Page
  <2>10. ASSUME NEW s \in Sockets, Opens(s) PROVE Inv'
    BY <2>10 DEF Opens, TypeOK, Page
  <2>11. ASSUME NEW s \in Sockets, Closes(s) PROVE Inv'
    <3>1. page'.boot = page.boot /\ page'.paused = page.paused
      BY <2>11, CloseCases
    <3>2. page.boot = "done" /\ overlapped' = overlapped
      BY <2>11 DEF Closes
    <3>3. ~overlapped => \A t \in Sockets : sock'[t] = "none"
      BY <2>11 DEF Closes, TypeOK
    <3>4. page.paused => ~page'.retry
      BY <2>11, CloseCases DEF Wanted
    <3> QED
      BY <3>1, <3>2, <3>3, <3>4
  <2>12. CASE AuthRequired /\ UNCHANGED overlapped
    <3>1. /\ LoggedOut(page) \in Page /\ LoggedOut(page).ws = page.ws
          /\ LoggedOut(page).boot = page.boot
      BY DEF LoggedOut, TypeOK, Page
    <3> QED
      BY <2>7, <2>12, <3>1 DEF AuthRequired
  <2> QED
    BY <2>1, <2>3, <2>4, <2>5, <2>6, <2>8, <2>9, <2>10, <2>11, <2>12, StepCases
<1>3. Inv => OneSocket
  BY DEF OverlapInv, OneSocket
<1> QED
  BY <1>1, <1>2, <1>3, TypeCorrect, PTL DEF Spec
=============================================================================
