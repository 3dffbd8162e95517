---------------------------- MODULE RemoteDesktop ----------------------------
(***************************************************************************)
(* The remote desktop (frontend/src/legacy-app.js): the data about it that *)
(* is loaded once, the socket that brings its pictures, the timer that     *)
(* connects again, and the mouse.                                          *)
(*                                                                         *)
(* A socket that the page has closed delivers no more messages, and its    *)
(* close event comes later.  Answers with the data may differ and come in  *)
(* any order.  Pictures, keys and the layout are left out, and a machine   *)
(* that takes no input at all.                                             *)
(* Operators marked FAULT are seeded errors that no action uses: each      *)
(* replaces the definition that follows it.                                *)
(***************************************************************************)
EXTENDS Naturals, FiniteSets, Requests

CONSTANTS
  MaxSockets,  \* bound on the sockets that are made
  None

VARIABLES
  remote,   \* the fields and variables of the page about the desktop
  flight,   \* requests for the data about it
  sockets,  \* readyState of each socket that was made
  past      \* history: is the desktop wanted, the buttons of the mouse

vars == <<remote, flight, sockets, past>>

Ids == 1 .. MaxSockets

\* mapMouseButton; what is sent of the middle one is sent as of the right one.
MouseButtons == {"left", "right"}

TypeOK ==
  /\ remote \in [meta : {"unknown", "available", "unavailable"},  \* remoteMeta
                 ws : Ids \cup {None},                            \* remoteWS
                 connected : BOOLEAN, manual : BOOLEAN,           \* remoteConnected, remoteManualClose
                 timer : BOOLEAN,                                 \* remoteReconnectTimer
                 connect : BOOLEAN, disconnect : BOOLEAN,         \* the buttons are enabled
                 mouse : BOOLEAN]                                 \* remoteMouseDown
  /\ flight \in [Slots -> {Unused} \cup [ask : {"meta"}, for : {"page", "button"}]]
  /\ sockets \in [Ids -> {"new", "connecting", "open", "closing", "closed"}]
  /\ past \in [wanted : BOOLEAN,
               denied : BOOLEAN,               \* the data says unavailable, since it was connected
               held : [MouseButtons -> {"up", "down", "away"}],  \* by the user; the pointer is away
               pressed : SUBSET MouseButtons,  \* down on the machine
               lost : SUBSET MouseButtons,     \* were so when a connection ended
               shared : BOOLEAN]               \* another one came up while the left one was down

Init ==
  /\ remote = [meta |-> "unknown", ws |-> None, connected |-> FALSE, manual |-> FALSE,
               timer |-> FALSE, connect |-> TRUE, disconnect |-> FALSE, mouse |-> FALSE]
  /\ flight = NoRequests
  /\ sockets = [i \in Ids |-> "new"]
  /\ past = [wanted |-> FALSE, denied |-> FALSE, held |-> [b \in MouseButtons |-> "up"],
             pressed |-> {}, lost |-> {}, shared |-> FALSE]

-----------------------------------------------------------------------------
(* Connecting.                                                             *)

Live(i) == sockets[i] \in {"connecting", "open"}

\* updateRemoteControlButtons.
Buttons(r, on) == [r EXCEPT !.connect = ~on, !.disconnect = on]

\* A connection that ends with a button of the mouse down leaves it so.
Ends == [past EXCEPT !.lost = @ \cup past.pressed]

\* FAULT: nobody looks for a socket after the wait for the data.
NotLooked(r) == FALSE

HasSocket(r) == r.ws # None /\ Live(r.ws)

\* FAULT: a timer that finds the desktop unavailable is the last one.
GivenUp(r, reason) == r

\* connectRemoteTerminal throws: the timer that called it is set again.
Refused(r, reason) == [r EXCEPT !.timer = @ \/ reason = "timer"]

\* connectRemoteTerminal once the data is there.
Dial(r, fl, reason) ==
  /\ flight' = fl
  /\ IF r.meta = "unavailable" \/ HasSocket(r)
     THEN /\ remote' = IF r.meta = "unavailable" THEN Refused(r, reason) ELSE r
          /\ UNCHANGED <<sockets, past>>
     ELSE \E i \in Ids :
          /\ sockets[i] = "new" /\ \A j \in Ids : j < i => sockets[j] # "new"
          /\ sockets' = [sockets EXCEPT ![i] = "connecting"]
          /\ remote' = Buttons([r EXCEPT !.ws = i, !.manual = FALSE, !.connected = FALSE, !.timer = FALSE],
                               FALSE)
          /\ past' = [Ends EXCEPT !.wanted = TRUE]

\* connectRemoteTerminal: ensureRemoteTerminalReady asks for the data once.
Connect(r, reason) ==
  IF r.meta = "unknown"
  THEN /\ Room(flight)
       /\ remote' = r
       /\ flight' = Send(flight, [ask |-> "meta", for |-> reason])
       /\ UNCHANGED <<sockets, past>>
  ELSE Dial(r, flight, reason)

\* The section is shown.
Enter ==
  /\ remote.meta = "unknown" /\ Room(flight)
  /\ flight' = Send(flight, [ask |-> "meta", for |-> "page"])
  /\ UNCHANGED <<remote, sockets, past>>

ConnectButton == remote.connect /\ Connect(remote, "button")

\* loadRemoteMeta from its answer on, and who asked for it.
MetaArrives(s) ==
  /\ flight[s].ask = "meta"
  /\ LET r == [remote EXCEPT !.meta = "available"]
     IN  IF flight[s].for = "page"
         THEN remote' = r /\ flight' = Over(flight, s) /\ UNCHANGED <<sockets, past>>
         ELSE Dial(r, Over(flight, s), flight[s].for)

\* The answer says that the desktop is not available, even to a page that
\* is connected.
MetaDenies(s) ==
  /\ flight[s].ask = "meta"
  /\ remote' = Refused(Buttons([remote EXCEPT !.meta = "unavailable"], FALSE), flight[s].for)
  /\ flight' = Over(flight, s)
  /\ past' = [past EXCEPT !.denied = TRUE]
  /\ UNCHANGED sockets

MetaFails(s) ==
  /\ flight[s].ask = "meta"
  /\ remote' = Refused(remote, flight[s].for)
  /\ flight' = Over(flight, s)
  /\ UNCHANGED <<sockets, past>>

\* disconnectRemoteTerminal.
Disconnected(r) ==
  Buttons([r EXCEPT !.manual = TRUE, !.timer = FALSE, !.ws = None, !.connected = FALSE], FALSE)

Closed == IF HasSocket(remote) THEN [sockets EXCEPT ![remote.ws] = "closing"] ELSE sockets

DisconnectButton ==
  /\ remote.disconnect
  /\ remote' = Disconnected(remote)
  /\ sockets' = Closed
  /\ past' = [Ends EXCEPT !.wanted = FALSE]
  /\ UNCHANGED flight

\* reconnectRemoteDesktop: the rate, quality or size is changed.
Reconnect ==
  /\ remote.connected /\ remote.meta = "available"
  /\ \E i \in Ids :
       /\ sockets[i] = "new" /\ \A j \in Ids : j < i => sockets[j] # "new"
       /\ sockets' = [Closed EXCEPT ![i] = "connecting"]
       /\ remote' = [Disconnected(remote) EXCEPT !.ws = i, !.manual = FALSE]
  /\ past' = Ends
  /\ UNCHANGED flight

\* With data that says unavailable it ends there: the desktop is given up.
ReconnectDenied ==
  /\ remote.connected /\ remote.meta = "unavailable"
  /\ remote' = Disconnected(remote)
  /\ sockets' = Closed
  /\ past' = [Ends EXCEPT !.wanted = FALSE]
  /\ UNCHANGED flight

-----------------------------------------------------------------------------
(* The socket and its timer.                                               *)

Open(i) ==
  /\ sockets[i] = "connecting"
  /\ sockets' = [sockets EXCEPT ![i] = "open"]
  /\ UNCHANGED <<remote, flight, past>>

\* The message meta; the listener does not ask whose socket it is.
Meta(i) ==
  /\ sockets[i] = "open"
  /\ remote' = Buttons([remote EXCEPT !.connected = TRUE, !.timer = FALSE], TRUE)
  /\ past' = [past EXCEPT !.denied = FALSE]
  /\ UNCHANGED <<flight, sockets>>

\* FAULT: the close event of a socket that was replaced is taken for the
\* current one's.
AnySocket(i) == TRUE

Current(i) == remote.ws = i

\* FAULT: a close without an open connection is not followed by another try.
OnlyIfConnected(r) == r.timer \/ (~r.manual /\ r.connected)

\* scheduleRemoteReconnect, unless the user has disconnected.
Scheduled(r) == r.timer \/ ~r.manual

CloseEvent(i) ==
  /\ sockets[i] \in {"connecting", "open", "closing"}
  /\ sockets' = [sockets EXCEPT ![i] = "closed"]
  /\ remote' = IF Current(i)
               THEN Buttons([remote EXCEPT !.ws = None, !.connected = FALSE, !.timer = Scheduled(remote)], FALSE)
               ELSE remote
  /\ past' = IF Current(i) THEN Ends ELSE past
  /\ UNCHANGED flight

TimerFires ==
  /\ remote.timer
  /\ LET r == [remote EXCEPT !.timer = FALSE]
     IN  IF r.manual THEN remote' = r /\ UNCHANGED <<flight, sockets, past>> ELSE Connect(r, "timer")

-----------------------------------------------------------------------------
(* The mouse.  A button that goes down off the picture is not seen; one    *)
(* that comes up over it is, wherever it went down.                        *)

\* sendRemoteDesktopInput sends only while connected.
Sends(r, b, down) ==
  IF ~r.connected THEN past
  ELSE [past EXCEPT !.pressed = IF down THEN @ \cup {b} ELSE @ \ {b}, !.lost = @ \ {b}]

MouseDown(b) ==
  /\ past.held[b] # "down"
  /\ remote' = [remote EXCEPT !.mouse = TRUE]
  /\ past' = [Sends(remote, b, TRUE) EXCEPT !.held[b] = "down", !.shared = @ /\ b # "left"]
  /\ UNCHANGED <<flight, sockets>>

MouseUp(b) ==
  /\ remote' = [remote EXCEPT !.mouse = FALSE]
  /\ past' = [Sends(remote, b, FALSE) EXCEPT
                !.held[b] = "up", !.shared = @ \/ (b # "left" /\ past.held["left"] = "down")]
  /\ UNCHANGED <<flight, sockets>>

\* FAULT: the pointer leaves and nothing is sent.
LeavesQuietly(r) == past

\* The pointer leaves the picture: the left button comes up, whichever are down.
Releases(r) == IF r.mouse THEN Sends(r, "left", FALSE) ELSE past

MouseLeave ==
  /\ \E b \in MouseButtons : past.held[b] = "down"
  /\ remote' = [remote EXCEPT !.mouse = FALSE]
  /\ past' = [Releases(remote) EXCEPT
                !.held = [b \in MouseButtons |-> IF @[b] = "down" THEN "away" ELSE @[b]]]
  /\ UNCHANGED <<flight, sockets>>

-----------------------------------------------------------------------------

Next ==
  \/ Enter \/ ConnectButton \/ DisconnectButton \/ Reconnect \/ ReconnectDenied \/ TimerFires \/ MouseLeave
  \/ \E b \in MouseButtons : MouseDown(b) \/ MouseUp(b)
  \/ \E s \in Slots : MetaArrives(s) \/ MetaDenies(s) \/ MetaFails(s)
  \/ \E i \in Ids : Open(i) \/ Meta(i) \/ CloseEvent(i)

Spec == Init /\ [][Next]_vars

-----------------------------------------------------------------------------
(* Properties.                                                             *)

\* The page has one live socket, the one it lists, and says it is connected
\* only while that one is open, through double clicks, answers that come
\* late and close events of sockets that were replaced.  A connected desktop
\* can be disconnected, unless a late answer has denied that there is one.
OneDesktop ==
  /\ \A i \in Ids : Live(i) => remote.ws = i
  /\ remote.connected => remote.ws # None /\ sockets[remote.ws] \in {"open", "closing"}
  /\ remote.connected /\ ~past.denied => remote.disconnect /\ ~remote.connect

\* A desktop that was connected and not given up has a socket, or a timer
\* that will make one, even when the data says that it is not available; one
\* that was given up has neither.
ComesBack ==
  /\ past.wanted => remote.ws # None \/ remote.timer
  /\ ~past.wanted => ~remote.timer

\* A button of the mouse that is down on the machine is one the user holds
\* over the picture, unless the connection ended meanwhile or the pointer
\* has left with it.  The left one is let go then, too: it stays down only
\* if another button came up while it was held, which the page takes for the
\* end of both.  No other button is ever let go when the pointer leaves.
ButtonReleased ==
  \A b \in past.pressed \ past.lost :
    \/ past.held[b] = "down"
    \/ past.held[b] = "away" /\ (b = "left" => past.shared)
=============================================================================
