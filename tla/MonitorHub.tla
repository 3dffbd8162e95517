----------------------------- MODULE MonitorHub -----------------------------
(***************************************************************************)
(* The real-time monitor feed of the web server (internal/web/server.go):  *)
(* one collector goroutine takes hardware snapshots, every WebSocket       *)
(* connection has a handler, a reader and a writer goroutine and a bounded *)
(* send channel, and HTTP pollers collect a first snapshot when there is   *)
(* none.  A snapshot is abstracted to its number in order of collection.   *)
(*                                                                         *)
(* Locks: monitorCollectMu is held over several steps and is a variable;   *)
(* the critical sections of wsMu and monitorMu are single steps.           *)
(*                                                                         *)
(* The operators marked FAULT are seeded errors: no action uses them, they *)
(* replace the definition that follows them to show what a property is     *)
(* able to catch.                                                          *)
(***************************************************************************)
EXTENDS Naturals, Sequences, FiniteSets

CONSTANTS
  Clients,    \* WebSocket connections; each connects at most once
  Pollers,    \* GET /api/monitor requests; each is made at most once
  Collector,  \* the collector goroutine
  Nobody,     \* nobody holds monitorCollectMu
  SendCap,    \* capacity of a send channel (8 in the code)
  MaxSnapshots \* bound: the timer fires only below this number of snapshots

ASSUME HubAssumption ==
  /\ Collector \notin Clients \cup Pollers
  /\ Clients \cap Pollers = {}
  /\ Nobody \notin Clients \cup Pollers \cup {Collector}
  /\ SendCap \in Nat \ {0}
  /\ MaxSnapshots \in Nat

VARIABLES
  pc,         \* where each collecting goroutine is
  collectMu,  \* holder of monitorCollectMu
  snapshot,   \* number of the latest snapshot; 0 while monitorReady is false
  held,       \* the snapshot a goroutine is broadcasting or about to push
  targets,    \* clients a running broadcast has copied and not served yet
  wsClients,  \* the registered clients
  chan,       \* state of each client's send channel
  queue,      \* payloads buffered in it
  shown,      \* the last broadcast snapshot the peer received
  conn,       \* the TCP connection: "gone" when the peer left or went silent
  reader, writer, \* the two goroutines of a connection
  stopping,   \* monitorStopChan is closed
  closing,    \* clients Shutdown took out of the map and closes one by one
  shutdown,   \* progress of Server.Shutdown
  process     \* the operating-system process

collectVars == <<collectMu, snapshot, held, targets>>
chanVars == <<wsClients, chan, queue>>
connVars == <<shown, conn, reader, writer>>
procVars == <<stopping, closing, shutdown, process>>
vars == <<pc, collectVars, chanVars, connVars, procVars>>

Procs == Clients \cup Pollers \cup {Collector}
Payload == [gen : Nat, via : {"broadcast", "push"}]

TypeOK ==
  /\ pc \in [Procs -> {"idle", "check", "lock", "gather", "copy", "send",
                       "recheck", "push", "sleep", "done"}]
  /\ collectMu \in Procs \cup {Nobody}
  /\ snapshot \in Nat
  /\ held \in [Procs -> Nat]
  /\ targets \in [Procs -> SUBSET Clients]
  /\ wsClients \subseteq Clients
  /\ chan \in [Clients -> {"none", "open", "closed"}]
  /\ queue \in [Clients -> Seq(Payload)]
  /\ \A c \in Clients : Len(queue[c]) <= SendCap
  /\ shown \in [Clients -> Nat]
  /\ conn \in [Clients -> {"none", "open", "gone", "closed"}]
  /\ reader \in [Clients -> {"none", "run", "done"}]
  /\ writer \in [Clients -> {"none", "run", "done"}]
  /\ stopping \in BOOLEAN
  /\ closing \subseteq Clients
  /\ shutdown \in {"no", "stopped", "closing"}
  /\ process \in {"running", "crashed", "exited"}

Init ==
  /\ pc = [p \in Procs |-> IF p = Collector THEN "lock" ELSE "idle"]
  /\ collectMu = Nobody
  /\ snapshot = 0
  /\ held = [p \in Procs |-> 0]
  /\ targets = [p \in Procs |-> {}]
  /\ wsClients = {}
  /\ chan = [c \in Clients |-> "none"]
  /\ queue = [c \in Clients |-> <<>>]
  /\ shown = [c \in Clients |-> 0]
  /\ conn = [c \in Clients |-> "none"]
  /\ reader = [c \in Clients |-> "none"]
  /\ writer = [c \in Clients |-> "none"]
  /\ stopping = FALSE
  /\ closing = {}
  /\ shutdown = "no"
  /\ process = "running"

IsBroadcast(m) == m.via = "broadcast"

Up == process = "running"
At(p, label) == Up /\ pc[p] = label
Goto(p, label) == pc' = [pc EXCEPT ![p] = label]

-----------------------------------------------------------------------------
(* Unregistering deletes the client and closes its channel, both under     *)
(* wsMu, and only when the client is still in the map.                     *)

\* FAULT: closes the channel and leaves the client in the map.
UnregisterKeepsEntry(c) ==
  /\ chan' = [chan EXCEPT ![c] = IF c \in wsClients THEN "closed" ELSE @]
  /\ UNCHANGED wsClients

\* FAULT: deletes the client and leaves its channel open.
UnregisterKeepsChannel(c) ==
  /\ wsClients' = wsClients \ {c}
  /\ UNCHANGED chan

Unregister(c) ==
  /\ wsClients' = wsClients \ {c}
  /\ chan' = [chan EXCEPT ![c] = IF c \in wsClients THEN "closed" ELSE @]

HangUp(c) ==
  /\ Unregister(c)
  /\ conn' = [conn EXCEPT ![c] = "closed"]

-----------------------------------------------------------------------------
(* The non-blocking send on a client's channel (the select of              *)
(* enqueueMonitorSnapshot and broadcastMonitorSnapshot).                   *)

HasRoom(c) == Len(queue[c]) < SendCap

SendAccepted(c, payload) ==
  /\ chan[c] = "open"
  /\ HasRoom(c)
  /\ queue' = [queue EXCEPT ![c] = Append(@, payload)]
  /\ UNCHANGED <<wsClients, chan, conn>>

\* The default case of the select: the channel is full, the client is dropped.
SendRefused(c) ==
  /\ chan[c] = "open"
  /\ ~HasRoom(c)
  /\ HangUp(c)
  /\ UNCHANGED queue

\* FAULT: the mutex is released by a call at the end, not by a defer.
LockAfterPanicKept(p) == collectMu

LockAfterPanic(p) == IF collectMu = p THEN Nobody ELSE collectMu

(* A send on a closed channel panics.  Nothing recovers the collector's    *)
(* goroutine and the process dies; a handler is recovered by the router's  *)
(* Recoverer, after its deferred Unlock has run.                           *)
SendPanics(p, c) ==
  /\ chan[c] = "closed"
  /\ process' = IF p = Collector THEN "crashed" ELSE process
  /\ Goto(p, "done")
  /\ targets' = [targets EXCEPT ![p] = {}]
  /\ collectMu' = LockAfterPanic(p)
  /\ UNCHANGED <<chanVars, conn>>

-----------------------------------------------------------------------------
(* collectMonitorSnapshot: run by the collector, and by a handler that     *)
(* finds no snapshot.                                                      *)

\* FAULT: a collection does not take monitorCollectMu.
LockIgnored(p) == TRUE

LockFree(p) == collectMu = Nobody

Lock(p) ==
  /\ At(p, "lock")
  /\ LockFree(p)
  /\ collectMu' = p
  /\ Goto(p, "gather")
  /\ UNCHANGED <<snapshot, held, targets, chanVars, connVars, procVars>>

Gather(p) ==
  /\ At(p, "gather")
  /\ snapshot' = snapshot + 1
  /\ held' = [held EXCEPT ![p] = snapshot + 1]
  /\ Goto(p, "copy")
  /\ UNCHANGED <<collectMu, targets, chanVars, connVars, procVars>>

CopyClients(p) ==
  /\ At(p, "copy")
  /\ targets' = [targets EXCEPT ![p] = wsClients]
  /\ Goto(p, "send")
  /\ UNCHANGED <<collectMu, snapshot, held, chanVars, connVars, procVars>>

Broadcast(p, c) ==
  /\ At(p, "send") /\ c \in targets[p]
  /\ \/ /\ \/ SendAccepted(c, [gen |-> held[p], via |-> "broadcast"])
           \/ SendRefused(c)
        /\ targets' = [targets EXCEPT ![p] = @ \ {c}]
        /\ UNCHANGED <<pc, collectMu, process>>
     \/ SendPanics(p, c)
  /\ UNCHANGED <<snapshot, held, shown, reader, writer, stopping, closing, shutdown>>

(* The trend sample is appended here too: see TrendBuffer.                 *)
EndCollect(p) ==
  /\ At(p, "send") /\ targets[p] = {}
  /\ collectMu' = Nobody
  /\ held' = [held EXCEPT ![p] = 0]
  /\ Goto(p, IF p = Collector THEN "sleep" ELSE IF p \in Clients THEN "recheck" ELSE "done")
  /\ UNCHANGED <<snapshot, targets, chanVars, connVars, procVars>>

-----------------------------------------------------------------------------
(* The collector's loop.                                                   *)

Tick ==
  /\ At(Collector, "sleep")
  /\ snapshot < MaxSnapshots
  /\ Goto(Collector, "lock")
  /\ UNCHANGED <<collectVars, chanVars, connVars, procVars>>

CollectorStops ==
  /\ At(Collector, "sleep") /\ stopping
  /\ Goto(Collector, "done")
  /\ UNCHANGED <<collectVars, chanVars, connVars, procVars>>

-----------------------------------------------------------------------------
(* HTTP handlers.                                                          *)

\* handleMonitorWS up to the start of the two goroutines.
Connect(c) ==
  /\ At(c, "idle")
  /\ Goto(c, "check")
  /\ wsClients' = wsClients \cup {c}
  /\ chan' = [chan EXCEPT ![c] = "open"]
  /\ conn' = [conn EXCEPT ![c] = "open"]
  /\ reader' = [reader EXCEPT ![c] = "run"]
  /\ writer' = [writer EXCEPT ![c] = "run"]
  /\ UNCHANGED <<collectVars, queue, shown, procVars>>

PollerArrives(p) ==
  /\ At(p, "idle")
  /\ Goto(p, "check")
  /\ UNCHANGED <<collectVars, chanVars, connVars, procVars>>

\* getMonitorSnapshot: a ready snapshot is pushed (or written to the poller).
Ready(p) ==
  /\ At(p, "check") \/ At(p, "recheck")
  /\ snapshot > 0
  /\ held' = [held EXCEPT ![p] = IF p \in Clients THEN snapshot ELSE 0]
  /\ Goto(p, IF p \in Clients THEN "push" ELSE "done")
  /\ UNCHANGED <<collectMu, snapshot, targets, chanVars, connVars, procVars>>

NotReady(p) ==
  /\ At(p, "check")
  /\ snapshot = 0
  /\ Goto(p, "lock")
  /\ UNCHANGED <<collectVars, chanVars, connVars, procVars>>

\* enqueueMonitorSnapshot on the handler's own connection.
Push(c) ==
  /\ At(c, "push")
  /\ \/ /\ \/ SendAccepted(c, [gen |-> held[c], via |-> "push"])
           \/ SendRefused(c)
        /\ Goto(c, "done")
        /\ UNCHANGED <<collectMu, targets, process>>
     \/ SendPanics(c, c)
  /\ held' = [held EXCEPT ![c] = 0]
  /\ UNCHANGED <<snapshot, shown, reader, writer, stopping, closing, shutdown>>

-----------------------------------------------------------------------------
(* The goroutines of a connection, and its peer.                           *)

PeerLeaves(c) ==
  /\ Up /\ conn[c] = "open"
  /\ conn' = [conn EXCEPT ![c] = "gone"]
  /\ UNCHANGED <<pc, collectVars, chanVars, shown, reader, writer, procVars>>

\* The read fails or its deadline passes; the deferred function hangs up.
ReaderExits(c) ==
  /\ Up /\ reader[c] = "run" /\ conn[c] # "open"
  /\ reader' = [reader EXCEPT ![c] = "done"]
  /\ HangUp(c)
  /\ UNCHANGED <<pc, collectVars, queue, shown, writer, procVars>>

\* A payload is written; a peer that has left may leave the write unnoticed.
WriterSends(c) ==
  /\ Up /\ writer[c] = "run" /\ conn[c] \in {"open", "gone"}
  /\ queue[c] # <<>>
  /\ queue' = [queue EXCEPT ![c] = Tail(@)]
  /\ shown' = [shown EXCEPT ![c] = IF conn[c] = "open" /\ IsBroadcast(Head(queue[c]))
                                   THEN Head(queue[c]).gen ELSE @]
  /\ UNCHANGED <<pc, collectVars, wsClients, chan, conn, reader, writer, procVars>>

\* A failed write of a payload or of a ping ends the writer.
WriterFails(c) ==
  /\ Up /\ writer[c] = "run" /\ conn[c] # "open"
  /\ queue' = [queue EXCEPT ![c] = IF @ = <<>> THEN @ ELSE Tail(@)]
  /\ writer' = [writer EXCEPT ![c] = "done"]
  /\ HangUp(c)
  /\ UNCHANGED <<pc, collectVars, shown, reader, procVars>>

\* The channel is closed and drained: a close message, then the end.
WriterEnds(c) ==
  /\ Up /\ writer[c] = "run" /\ chan[c] = "closed" /\ queue[c] = <<>>
  /\ writer' = [writer EXCEPT ![c] = "done"]
  /\ HangUp(c)
  /\ UNCHANGED <<pc, collectVars, queue, shown, reader, procVars>>

-----------------------------------------------------------------------------
(* Server.Shutdown, as far as the hub is concerned, and the end of main.   *)

StopCollector ==
  /\ Up /\ shutdown = "no"
  /\ shutdown' = "stopped"
  /\ stopping' = TRUE
  /\ UNCHANGED <<pc, collectVars, chanVars, connVars, closing, process>>

TakeAllClients ==
  /\ Up /\ shutdown = "stopped"
  /\ shutdown' = "closing"
  /\ closing' = wsClients
  /\ wsClients' = {}
  /\ UNCHANGED <<pc, collectVars, chan, queue, connVars, stopping, process>>

CloseOne(c) ==
  /\ Up /\ c \in closing
  /\ closing' = closing \ {c}
  /\ chan' = [chan EXCEPT ![c] = "closed"]
  /\ conn' = [conn EXCEPT ![c] = "closed"]
  /\ UNCHANGED <<pc, collectVars, wsClients, queue, shown, reader, writer,
                 stopping, shutdown, process>>

ProcessExits ==
  /\ Up /\ shutdown = "closing" /\ closing = {}
  /\ process' = "exited"
  /\ UNCHANGED <<pc, collectVars, chanVars, connVars, stopping, closing, shutdown>>

-----------------------------------------------------------------------------

Collect(p) ==
  \/ Lock(p) \/ Gather(p) \/ CopyClients(p) \/ EndCollect(p)
  \/ \E c \in Clients : Broadcast(p, c)

Handler(c) == Ready(c) \/ NotReady(c) \/ Push(c)

Writer(c) == WriterSends(c) \/ WriterFails(c) \/ WriterEnds(c)

Next ==
  \/ \E p \in Procs : Collect(p)
  \/ Tick \/ CollectorStops
  \/ \E c \in Clients : Connect(c) \/ Handler(c) \/ PeerLeaves(c)
                        \/ ReaderExits(c) \/ Writer(c) \/ CloseOne(c)
  \/ \E p \in Pollers : PollerArrives(p) \/ Ready(p) \/ NotReady(p)
  \/ StopCollector \/ TakeAllClients \/ ProcessExits

Spec == Init /\ [][Next]_vars

(* Goroutines that can run do run and reads and writes return within their *)
(* deadlines; nothing forces a peer to come, to leave, or a signal.        *)
Fairness ==
  /\ \A p \in Procs : WF_vars(Collect(p))
  /\ WF_vars(Tick \/ CollectorStops)
  /\ \A c \in Clients : /\ WF_vars(Handler(c))
                        /\ WF_vars(ReaderExits(c))
                        /\ WF_vars(Writer(c))
                        /\ WF_vars(CloseOne(c))
  /\ \A p \in Pollers : WF_vars(Ready(p) \/ NotReady(p))

FairSpec == Spec /\ Fairness

-----------------------------------------------------------------------------
(* Properties.                                                             *)

\* A client in the map, or one Shutdown has still to close, has an open
\* channel: every close goes through the map under wsMu, whoever drops the
\* client first (reader, writer, a full queue or closeMonitorWSClients).
ListedChannelsOpen ==
  /\ \A c \in wsClients \cup closing : chan[c] = "open"
  /\ wsClients \cap closing = {}

\* Only one goroutine is between taking a snapshot and the end of its
\* broadcast, and a mutex is never left behind by a goroutine that panicked.
CollectionsExclusive ==
  \A p \in Procs : pc[p] \in {"gather", "copy", "send"} <=> collectMu = p

\* The broadcast snapshots a client gets are in the order they were taken;
\* the one payload that may be older than its predecessor is the handler's
\* own first push.
BroadcastsInOrder ==
  \A c \in Clients :
    \A i \in DOMAIN queue[c] :
      IsBroadcast(queue[c][i]) =>
        /\ shown[c] < queue[c][i].gen
        /\ \A j \in DOMAIN queue[c] :
             i < j /\ IsBroadcast(queue[c][j]) => queue[c][i].gen < queue[c][j].gen

\* No send of the collector hits a closed channel: the feed the README
\* promises keeps running when clients come and go.
FeedSurvives == process # "crashed"

\* A collection that has begun ends, whatever the clients do: a slow or dead
\* peer never makes the collector wait.
CollectionsEnd ==
  \A p \in Procs :
    pc[p] \in {"lock", "gather", "copy", "send"}
      ~> pc[p] \notin {"lock", "gather", "copy", "send"} \/ process # "running"

\* A client that is dropped for any reason is wound up completely: both its
\* goroutines end and its connection is closed.
DroppedClientsWindUp ==
  \A c \in Clients :
    conn[c] \in {"gone", "closed"} \/ chan[c] = "closed"
      ~> \/ reader[c] = "done" /\ writer[c] = "done" /\ conn[c] = "closed"
            /\ c \notin wsClients /\ chan[c] = "closed"
         \/ process # "running"

=============================================================================
