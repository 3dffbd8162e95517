--------------------------- MODULE ServerLifecycle ---------------------------
(***************************************************************************)
(* The start and the end of the process: main (cmd/ops/main.go), the       *)
(* goroutine that runs Server.Start, and Server.Shutdown                   *)
(* (internal/web/server.go).  The two goroutines share, without a lock,    *)
(* httpServer and the stop channels of the background loops: Start makes   *)
(* them one after the other while a signal may already be shutting down.   *)
(* What main does before it starts the goroutine has no other actor and is *)
(* left out.  Operators marked FAULT are seeded errors that no action      *)
(* uses: each replaces the definition that follows it.                     *)
(***************************************************************************)
EXTENDS ProcessState

stopVars == <<stopChan, onceDone, overtaken>>
vars == <<main, server, httpServer, stopVars, running, sigCh, errCh,
          requests, deadline, db, process>>

Init ==
  /\ main = "start"
  /\ server = "none"
  /\ httpServer = "nil"
  /\ stopChan = [l \in Loops |-> "nil"]
  /\ onceDone = {}
  /\ overtaken = {}
  /\ running = {}
  /\ sigCh = 0
  /\ errCh = "empty"
  /\ requests = 0
  /\ deadline = FALSE
  /\ db = "open"
  /\ process = "running"

Up == process = "running"

-----------------------------------------------------------------------------
(* Server.Start.                                                           *)

MakeServer ==
  /\ Up /\ server = "make"
  /\ httpServer' = "made"
  /\ server' = "flusher"
  /\ UNCHANGED <<main, stopVars, running, sigCh, errCh, requests,
                 deadline, db, process>>

\* startTrendFlusher, then startMonitorCollector.
StartLoop(l) ==
  /\ Up /\ server = l
  /\ stopChan' = [stopChan EXCEPT ![l] = "open"]
  /\ running' = running \cup {l}
  /\ server' = IF l = "flusher" THEN "collector" ELSE "listen"
  /\ UNCHANGED <<main, httpServer, onceDone, overtaken, sigCh, errCh, requests, deadline, db, process>>

Listen ==
  /\ Up /\ server = "listen" /\ httpServer = "made"
  /\ server' = "serve"
  /\ UNCHANGED <<main, httpServer, stopVars, running, sigCh, errCh,
                 requests, deadline, db, process>>

Report(result) ==
  /\ errCh' = result
  /\ server' = "done"
  /\ UNCHANGED <<main, httpServer, stopVars, running, sigCh, requests,
                 deadline, db, process>>

\* The address cannot be bound, or accepting fails.
ListenFails ==
  /\ Up /\ server \in {"listen", "serve"} /\ httpServer = "made"
  /\ Report("error")

\* FAULT: only a server that serves already notices that it is closed.
NoticesCloseLate == server = "serve"

NoticesClose == server \in {"listen", "serve"}

\* http.ErrServerClosed, also when Shutdown came before ListenAndServe.
ServerClosed ==
  /\ Up /\ NoticesClose /\ httpServer = "closed"
  /\ Report("nil")

RequestArrives ==
  /\ Up /\ server = "serve" /\ httpServer = "made"
  /\ requests < MaxRequests
  /\ requests' = requests + 1
  /\ UNCHANGED <<main, server, httpServer, stopVars, running, sigCh,
                 errCh, deadline, db, process>>

RequestEnds ==
  /\ Up /\ requests > 0
  /\ requests' = requests - 1
  /\ UNCHANGED <<main, server, httpServer, stopVars, running, sigCh,
                 errCh, deadline, db, process>>

\* A loop sees its closed channel.
LoopEnds(l) ==
  /\ Up /\ l \in running /\ stopChan[l] = "closed"
  /\ running' = running \ {l}
  /\ UNCHANGED <<main, server, httpServer, stopVars, sigCh, errCh,
                 requests, deadline, db, process>>

-----------------------------------------------------------------------------
(* main.                                                                   *)

StartServer ==
  /\ Up /\ main = "start"
  /\ main' = "notify"
  /\ server' = "make"
  /\ UNCHANGED <<httpServer, stopVars, running, sigCh, errCh, requests,
                 deadline, db, process>>

Notify ==
  /\ Up /\ main = "notify"
  /\ main' = "select"
  /\ UNCHANGED <<server, httpServer, stopVars, running, sigCh, errCh,
                 requests, deadline, db, process>>

\* FAULT: every signal is kept.
KeepSignal == sigCh + 1

KeepOneSignal == 1

\* Before signal.Notify a signal ends the process; later it is put into the
\* channel of one place, or dropped when one is there already.
Signal ==
  /\ Up
  /\ IF main \in {"start", "notify"}
     THEN process' = "killed" /\ UNCHANGED sigCh
     ELSE sigCh' = KeepOneSignal /\ UNCHANGED process
  /\ UNCHANGED <<main, server, httpServer, stopVars, running, errCh,
                 requests, deadline, db>>

\* log.Fatalf ends the process without the deferred Close.
SelectResult ==
  /\ Up /\ main = "select" /\ errCh # "empty"
  /\ errCh' = "empty"
  /\ IF errCh = "error" THEN process' = "failed" /\ UNCHANGED main
                        ELSE main' = "return" /\ UNCHANGED process
  /\ UNCHANGED <<server, httpServer, stopVars, running, sigCh,
                 requests, deadline, db>>

SelectSignal ==
  /\ Up /\ main = "select" /\ sigCh > 0
  /\ sigCh' = sigCh - 1
  /\ main' = "stop collector"
  /\ UNCHANGED <<server, httpServer, stopVars, running, errCh,
                 requests, deadline, db, process>>

Deadline ==
  /\ Up /\ main \in Stopping /\ ~deadline
  /\ deadline' = TRUE
  /\ UNCHANGED <<main, server, httpServer, stopVars, running, sigCh,
                 errCh, requests, db, process>>

\* FAULT: the Once is used and the channel is not closed.
StopForgotten(l) ==
  /\ onceDone' = onceDone \cup {l}
  /\ UNCHANGED <<stopChan, overtaken>>

\* stopMonitorCollector and stopTrendFlusher: once, and only what was made.
Stop(l) ==
  /\ onceDone' = onceDone \cup {l}
  /\ stopChan' = [stopChan EXCEPT ![l] = IF @ = "open" /\ l \notin onceDone
                                         THEN "closed" ELSE @]
  /\ overtaken' = IF stopChan[l] = "nil" THEN overtaken \cup {l} ELSE overtaken

StopLoop(l) ==
  /\ Up /\ main = (IF l = "collector" THEN "stop collector" ELSE "stop flusher")
  /\ Stop(l)
  /\ main' = IF l = "collector" THEN "stop flusher" ELSE "flush"
  /\ UNCHANGED <<server, httpServer, running, sigCh, errCh, requests, deadline,
                 db, process>>

\* The connections are closed and the buffer is flushed: MonitorHub, TrendBuffer.
Flush ==
  /\ Up /\ main = "flush"
  /\ main' = "http"
  /\ UNCHANGED <<server, httpServer, stopVars, running, sigCh, errCh,
                 requests, deadline, db, process>>

\* A server that is not made yet is not shut down.
CloseServer ==
  /\ Up /\ main = "http"
  /\ httpServer' = IF httpServer = "nil" THEN "nil" ELSE "closed"
  /\ main' = IF httpServer = "nil" THEN "await" ELSE "drain"
  /\ UNCHANGED <<server, stopVars, running, sigCh, errCh, requests,
                 deadline, db, process>>

\* FAULT: the listener is closed and the requests are not waited for.
DrainedAtOnce == TRUE

Drained == requests = 0 \/ deadline

Drain ==
  /\ Up /\ main = "drain" /\ Drained
  /\ main' = "await"
  /\ UNCHANGED <<server, httpServer, stopVars, running, sigCh, errCh,
                 requests, deadline, db, process>>

Await ==
  /\ Up /\ main = "await" /\ errCh # "empty"
  /\ errCh' = "empty"
  /\ main' = "return"
  /\ UNCHANGED <<server, httpServer, stopVars, running, sigCh,
                 requests, deadline, db, process>>

\* The deferred Close, then the end of the process.
CloseStore ==
  /\ Up /\ main = "return" /\ db = "open"
  /\ db' = "closed"
  /\ UNCHANGED <<main, server, httpServer, stopVars, running, sigCh,
                 errCh, requests, deadline, process>>

Exit ==
  /\ Up /\ main = "return" /\ db = "closed"
  /\ process' = "exited"
  /\ UNCHANGED <<main, server, httpServer, stopVars, running, sigCh,
                 errCh, requests, deadline, db>>

-----------------------------------------------------------------------------

Start ==
  \/ MakeServer \/ Listen \/ ServerClosed
  \/ \E l \in Loops : StartLoop(l)

Main ==
  \/ StartServer \/ Notify \/ SelectResult \/ SelectSignal
  \/ \E l \in Loops : StopLoop(l)
  \/ Flush \/ CloseServer \/ Drain \/ Await \/ CloseStore \/ Exit

Next ==
  \/ Start \/ ListenFails \/ Main \/ Signal \/ Deadline
  \/ RequestArrives \/ RequestEnds
  \/ \E l \in Loops : LoopEnds(l)

Spec == Init /\ [][Next]_vars

(* Both goroutines run and time passes; requests may hang, nothing has to  *)
(* fail, and nobody has to send a signal.                                  *)
Fairness == WF_vars(Start) /\ WF_vars(Main) /\ WF_vars(Deadline)

FairSpec == Spec /\ Fairness

-----------------------------------------------------------------------------
(* Properties.                                                             *)

\* A signal that comes when the HTTP server is made ends the process, within
\* the shutdown's deadline even if requests hang.
LateSignalEnds ==
  main = "stop collector" /\ httpServer # "nil" ~> process # "running"

\* Every signal that main takes ends the process, as main says when it takes
\* it ("received signal, shutting down").
SignalEnds == main = "stop collector" ~> process # "running"

=============================================================================
