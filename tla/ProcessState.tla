---------------------------- MODULE ProcessState ----------------------------
(***************************************************************************)
(* The state of the process that ServerLifecycle starts and ends, and what *)
(* has to hold of it when the database is closed.  It is a module of its   *)
(* own because the proofs about the trend buffer, which the end of the     *)
(* process writes for the last time, have the buffer's state beside it.    *)
(***************************************************************************)
EXTENDS Naturals

CONSTANT MaxRequests   \* bound on the HTTP requests served at a time

ASSUME LifecycleAssumption == MaxRequests \in Nat

Loops == {"collector", "flusher"}

VARIABLES
  main,        \* where main is
  server,      \* where the goroutine that runs Server.Start is
  httpServer,  \* Server.httpServer: nil, made, or shut down
  stopChan,    \* a loop's stop channel: nil, open, closed
  onceDone,    \* loops whose stop sync.Once was used
  overtaken,   \* history: loops that were to stop before Start made their channel
  running,     \* loops that run
  sigCh,       \* signals buffered in sigCh
  errCh,       \* serverErrCh: empty, or the result of Start
  requests,    \* HTTP requests being served
  deadline,    \* the 10 s of the shutdown context have passed
  db,          \* the SQLite handle
  process      \* the operating-system process

Stopping == {"stop collector", "stop flusher", "flush", "http", "drain", "await"}

\* The types, and the sizes of the two channels.
LifecycleTypes ==
  /\ main \in {"start", "notify", "select", "return"} \cup Stopping
  /\ server \in {"none", "make", "flusher", "collector", "listen", "serve", "done"}
  /\ httpServer \in {"nil", "made", "closed"}
  /\ stopChan \in [Loops -> {"nil", "open", "closed"}]
  /\ onceDone \subseteq Loops
  /\ overtaken \subseteq Loops
  /\ running \subseteq Loops
  /\ sigCh \in 0 .. 1
  /\ errCh \in {"empty", "nil", "error"}
  /\ requests \in 0 .. MaxRequests
  /\ deadline \in BOOLEAN
  /\ db \in {"open", "closed"}
  /\ process \in {"running", "exited", "failed", "killed"}

-----------------------------------------------------------------------------

\* The database is closed under a request that is still served only when the
\* shutdown's deadline has passed, or when the shutdown came too early to see
\* the HTTP server and accepting has failed since.  A loop that may still
\* write then has been told to stop, unless the signal came before Start had
\* made its channel: then the Once is used up and nothing stops it any more.
QuietBeforeClose ==
  db = "closed" =>
    /\ requests > 0 => deadline \/ httpServer = "made"
    /\ \A l \in running : stopChan[l] = "closed" \/ l \in overtaken
=============================================================================
