----------------------------- MODULE SshTerminal -----------------------------
(***************************************************************************)
(* The SSH terminal (frontend/src/legacy-app.js): a session is a socket to *)
(* the server, which reports that it is ready, has failed or has ended.    *)
(*                                                                         *)
(* Each socket has a timer of fifteen seconds.  It is meant for the        *)
(* connecting, but only the close event takes it away, so it also ends a   *)
(* session that works.  What the server does behind the socket is not part *)
(* of the repository: it may report anything at any time.  Operators       *)
(* marked FAULT are seeded errors that no action uses: each replaces the   *)
(* definition that follows it.                                             *)
(***************************************************************************)
EXTENDS Naturals, FiniteSets

CONSTANTS
  MaxSessions,  \* bound on the sessions that are started
  None

VARIABLES
  ssh,       \* the fields and variables of the page about the terminal
  sessions,  \* readyState of each socket that was made
  timers,    \* sockets whose timer has not fired
  ended      \* history: why each socket has been closed or given up

vars == <<ssh, sessions, timers, ended>>

Ids == 1 .. MaxSessions

TypeOK ==
  /\ ssh \in [ws : Ids \cup {None},                         \* sshWS
              connecting : BOOLEAN, connected : BOOLEAN,    \* sshConnecting, sshConnected
              manual : BOOLEAN,                             \* sshManualClose
              status : {"unknown", "up", "down"}]           \* the badge
  /\ sessions \in [Ids -> {"new", "connecting", "open", "closing", "closed"}]
  /\ timers \subseteq Ids
  /\ ended \in [Ids -> SUBSET {"user", "timer", "report", "socket"}]

Init ==
  /\ ssh = [ws |-> None, connecting |-> FALSE, connected |-> FALSE, manual |-> FALSE, status |-> "unknown"]
  /\ sessions = [i \in Ids |-> "new"]
  /\ timers = {}
  /\ ended = [i \in Ids |-> {}]

-----------------------------------------------------------------------------

Live(i) == sessions[i] \in {"connecting", "open"}

Because(i, reason) == [ended EXCEPT ![i] = @ \cup {reason}]

Idle(s, status) == [s EXCEPT !.connecting = FALSE, !.connected = FALSE, !.status = status]

\* FAULT: a session that is ready can be started again.
MayRestart(s) == ~s.connecting

\* The first test of connectSSHSession, and the button.
MayStart(s) == ~s.connecting /\ ~s.connected

\* connectSSHSession with a form that is filled in.
Start ==
  /\ MayStart(ssh)
  /\ \E i \in Ids :
       /\ sessions[i] = "new" /\ \A j \in Ids : j < i => sessions[j] # "new"
       /\ sessions' = [sessions EXCEPT ![i] = "connecting"]
       /\ timers' = timers \cup {i}
       /\ ssh' = [Idle(ssh, "unknown") EXCEPT !.ws = i, !.connecting = TRUE, !.manual = FALSE]
  /\ UNCHANGED ended

\* disconnectSSHSession, by its button.
Disconnect ==
  /\ ssh.connecting \/ ssh.connected
  /\ ssh' = IF ssh.ws = None THEN [Idle(ssh, "unknown") EXCEPT !.manual = TRUE]
            ELSE [ssh EXCEPT !.manual = TRUE]
  /\ sessions' = IF ssh.ws # None /\ Live(ssh.ws) THEN [sessions EXCEPT ![ssh.ws] = "closing"] ELSE sessions
  /\ ended' = IF ssh.ws = None THEN ended ELSE Because(ssh.ws, "user")
  /\ UNCHANGED timers

\* FAULT: the timer of a socket that was replaced ends the current session.
TimersTarget(i) == ssh.ws

Target(i) == IF ssh.ws = i THEN i ELSE None

TimerFires(i) ==
  /\ i \in timers
  /\ timers' = timers \ {i}
  /\ LET w == Target(i)
     IN  /\ sessions' = IF w # None /\ Live(w) THEN [sessions EXCEPT ![w] = "closing"] ELSE sessions
         /\ ended' = IF w # None THEN Because(i, "timer") ELSE ended
  /\ UNCHANGED ssh

-----------------------------------------------------------------------------
(* The socket.                                                             *)

\* The open event: the page sends what the form said.
Open(i) ==
  /\ sessions[i] = "connecting"
  /\ sessions' = [sessions EXCEPT ![i] = "open"]
  /\ UNCHANGED <<ssh, timers, ended>>

\* FAULT: messages of a socket that was replaced are taken.
AnySocket(i) == TRUE

Current(i) == ssh.ws = i

\* handleSSHMessage: ready, error and closed; the socket stays open.
Message(i) ==
  /\ sessions[i] = "open"
  /\ \E type \in {"ready", "error", "closed"} :
       /\ ssh' = IF ~Current(i) THEN ssh
                 ELSE IF type = "ready"
                 THEN [ssh EXCEPT !.connecting = FALSE, !.connected = TRUE, !.status = "up"]
                 ELSE Idle(ssh, IF type = "error" THEN "down" ELSE "unknown")
       /\ ended' = IF type = "ready" THEN ended ELSE Because(i, "report")
  /\ UNCHANGED <<sessions, timers>>

\* The error event, which a close event follows.
Error(i) ==
  /\ sessions[i] \in {"connecting", "open"}
  /\ sessions' = [sessions EXCEPT ![i] = "closing"]
  /\ ssh' = IF Current(i) THEN Idle(ssh, "down") ELSE ssh
  /\ ended' = Because(i, "socket")
  /\ UNCHANGED timers

\* The close event: its timer goes too, when it is the current one's.
CloseEvent(i) ==
  /\ sessions[i] \in {"connecting", "open", "closing"}
  /\ sessions' = [sessions EXCEPT ![i] = "closed"]
  /\ timers' = IF Current(i) THEN timers \ {i} ELSE timers
  /\ ssh' = IF ~Current(i) THEN ssh
            ELSE IF ssh.connected \/ ssh.connecting
            THEN [Idle(ssh, IF ssh.manual THEN "unknown" ELSE "down") EXCEPT !.ws = None]
            ELSE [ssh EXCEPT !.ws = None]
  /\ ended' = IF sessions[i] = "closing" THEN ended ELSE Because(i, "socket")

-----------------------------------------------------------------------------

Next ==
  \/ Start \/ Disconnect
  \/ \E i \in Ids : TimerFires(i) \/ Open(i) \/ Message(i) \/ Error(i) \/ CloseEvent(i)

Spec == Init /\ [][Next]_vars

-----------------------------------------------------------------------------
(* Properties.                                                             *)

\* The page says it is connected only over the socket it lists, and while
\* that one lives; a socket it no longer lists and that lives on is one the
\* server has reported as failed or ended.
SaysWhatIs ==
  /\ ssh.connected => ssh.ws # None /\ sessions[ssh.ws] \in {"open", "closing"}
  /\ ssh.connected => ssh.status = "up"
  /\ \A i \in Ids : Live(i) => ssh.ws = i \/ "report" \in ended[i]

\* A session ends because of its user, its server, its socket or its own
\* timer, never by what happened to another one.
OwnEnd == \A i \in Ids : sessions[i] \in {"closing", "closed"} => ended[i] # {}
=============================================================================
