---------------------------- MODULE ScriptPanel ----------------------------
(***************************************************************************)
(* The page's panel of scripts: the scripts that can be chosen, starting   *)
(* one and following its output (frontend/src/legacy-app.js).  The page    *)
(* follows the run in currentRunId: a loop asks for it, then for the table *)
(* of runs, and sleeps; another start begins another loop, and every loop  *)
(* turns to the run that was started last.  A run is the pieces of output  *)
(* it has written.  Operators marked FAULT are seeded errors that no       *)
(* action uses: each replaces the definition that follows it.              *)
(***************************************************************************)
EXTENDS Integers, Sequences, Requests

CONSTANTS
  MaxScripts,  \* bound on the scripts of the library, which are numbered
  Pieces,      \* pieces of output of a run that has ended
  MaxRuns      \* bound on the runs

VARIABLES
  panel,    \* currentRunId, and what the page shows
  flight,   \* requests and loops
  server,   \* the runs in their order, and the scripts of the library
  past      \* history: what excuses an output or a table that is not the last

vars == <<panel, flight, server, past>>

NoOutput == [run |-> 0, pieces |-> 0]
Asks == {"start", "upload", "scripts", "detail", "table"}

TypeOK ==
  /\ panel \in [current : 0 .. MaxRuns,
                output : [run : 0 .. MaxRuns, pieces : 0 .. Pieces],
                table : UNION {[1 .. n -> BOOLEAN] : n \in 0 .. MaxRuns},   \* has it ended?
                listed : 0 .. MaxScripts, chosen : 0 .. MaxScripts]
  /\ panel.chosen <= panel.listed
  /\ server \in [runs : UNION {[1 .. n -> 0 .. Pieces] : n \in 0 .. MaxRuns},
                 library : 0 .. MaxScripts]
  /\ past \in [crossed : BOOLEAN, failed : BOOLEAN, loops : BOOLEAN]

Init ==
  /\ panel = [current |-> 0, output |-> NoOutput, table |-> <<>>, listed |-> 1, chosen |-> 1]
  /\ flight = NoRequests
  /\ server = [runs |-> <<>>, library |-> 1]
  /\ past = [crossed |-> FALSE, failed |-> FALSE, loops |-> FALSE]

-----------------------------------------------------------------------------
(* The server.                                                             *)

Write(r) ==
  /\ server.runs[r] < Pieces
  /\ server' = [server EXCEPT !.runs[r] = @ + 1]
  /\ UNCHANGED <<panel, flight, past>>

\* What is answered is a sequence of numbers: one, or the pieces of every run.
Answer(s, got) == flight' = [flight EXCEPT ![s].back = "ok", ![s].got = got]

\* A request is answered; what it answers is what holds now.
Served(s) ==
  /\ flight[s].ask \in Asks /\ flight[s].back = "no"
  /\ \/ /\ flight[s].ask = "start" /\ Len(server.runs) < MaxRuns
        /\ server' = [server EXCEPT !.runs = Append(@, 0)]
        /\ Answer(s, <<Len(server.runs) + 1>>)
     \/ /\ flight[s].ask = "upload" /\ server.library < MaxScripts
        /\ server' = [server EXCEPT !.library = @ + 1]
        /\ Answer(s, <<>>)
     \/ /\ flight[s].ask = "detail"
        /\ Answer(s, <<server.runs[flight[s].run]>>)
        /\ UNCHANGED server
     \/ /\ flight[s].ask = "table"
        /\ Answer(s, server.runs)
        /\ UNCHANGED server
     \/ /\ flight[s].ask = "scripts"
        /\ Answer(s, <<server.library>>)
        /\ UNCHANGED server
  /\ UNCHANGED <<panel, past>>

\* What the server refuses is shown as a message; a refused start begins no
\* loop.
Refused(s) ==
  /\ flight[s].ask \in {"start", "upload"} /\ flight[s].back = "no"
  /\ flight' = Over(flight, s)
  /\ UNCHANGED <<panel, server, past>>

-----------------------------------------------------------------------------
(* A script is started and its run is followed.                            *)

Request(ask, run, running) == [ask |-> ask, run |-> run, running |-> running, back |-> "no", got |-> <<>>]

Loops == {s \in Slots : flight[s].ask \in {"detail", "table", "sleep"}}

\* The click on the button; the panel must have a script that is chosen.
Start ==
  /\ panel.chosen > 0 /\ Room(flight)
  /\ flight' = Send(flight, Request("start", 0, FALSE))
  /\ UNCHANGED <<panel, server, past>>

\* The run has a number: it is the current one, and a loop begins.
Started(s) ==
  /\ flight[s].ask = "start" /\ flight[s].back = "ok"
  /\ panel' = [panel EXCEPT !.current = flight[s].got[1]]
  /\ flight' = [flight EXCEPT ![s] = Request("detail", flight[s].got[1], TRUE)]
  /\ past' = [past EXCEPT !.loops = @ \/ Loops # {}]
  /\ UNCHANGED server

\* FAULT: the last piece is not shown, for the run is over.
WhileRunning(p, q) ==
  IF q.got[1] < Pieces THEN [p EXCEPT !.output = [run |-> q.run, pieces |-> q.got[1]]] ELSE p

Shows(p, q) == [p EXCEPT !.output = [run |-> q.run, pieces |-> q.got[1]]]

\* The answer is shown whatever run is the current one.
DetailArrives(s) ==
  /\ flight[s].ask = "detail" /\ flight[s].back = "ok"
  /\ panel' = Shows(panel, flight[s])
  /\ flight' = [flight EXCEPT ![s] = Request("table", 0, flight[s].got[1] < Pieces)]
  /\ past' = [past EXCEPT !.crossed = @ \/ flight[s].run # panel.current]
  /\ UNCHANGED server

Sleeping == [ask |-> "sleep"]

TableArrives(s) ==
  /\ flight[s].ask = "table" /\ flight[s].back = "ok"
  /\ panel' = [panel EXCEPT !.table = [r \in DOMAIN flight[s].got |-> flight[s].got[r] = Pieces]]
  /\ flight' = IF flight[s].running THEN [flight EXCEPT ![s] = Sleeping] ELSE Over(flight, s)
  /\ UNCHANGED <<server, past>>

\* FAULT: the loop does not go on.
OneTurnOnly(f, s) == Over(f, s)

NextTurn(f, s) == [f EXCEPT ![s] = Request("detail", panel.current, TRUE)]

Awakes(s) ==
  /\ flight[s].ask = "sleep"
  /\ flight' = NextTurn(flight, s)
  /\ UNCHANGED <<panel, server, past>>

\* Nothing catches what the loop's requests throw: it ends.  A request that
\* is refused for want of a session ends it too.
Fails(s) ==
  /\ flight[s].ask \in Asks
  /\ flight' = Over(flight, s)
  /\ past' = [past EXCEPT !.failed = @ \/ s \in Loops]
  /\ UNCHANGED <<panel, server>>

-----------------------------------------------------------------------------
(* The library.                                                            *)

Choose(k) ==
  /\ k # panel.chosen
  /\ panel' = [panel EXCEPT !.chosen = k]
  /\ UNCHANGED <<flight, server, past>>

Upload ==
  /\ Room(flight) /\ server.library < MaxScripts
  /\ flight' = Send(flight, Request("upload", 0, FALSE))
  /\ UNCHANGED <<panel, server, past>>

\* The library is read again when the upload has been answered.
Uploaded(s) ==
  /\ flight[s].ask = "upload" /\ flight[s].back = "ok"
  /\ flight' = [flight EXCEPT ![s] = Request("scripts", 0, FALSE)]
  /\ UNCHANGED <<panel, server, past>>

\* loadScripts: the list is made anew and its first script is chosen.
ScriptsArrive(s) ==
  /\ flight[s].ask = "scripts" /\ flight[s].back = "ok"
  /\ panel' = [panel EXCEPT !.listed = flight[s].got[1], !.chosen = 1]
  /\ flight' = Over(flight, s)
  /\ UNCHANGED <<server, past>>

-----------------------------------------------------------------------------

Next ==
  \/ Start \/ Upload
  \/ \E r \in DOMAIN server.runs : Write(r)
  \/ \E k \in 1 .. panel.listed : Choose(k)
  \/ \E s \in Slots :
       \/ Served(s) \/ Refused(s) \/ Started(s) \/ DetailArrives(s) \/ TableArrives(s) \/ Awakes(s)
       \/ Uploaded(s) \/ ScriptsArrive(s) \/ Fails(s)

Spec == Init /\ [][Next]_vars

-----------------------------------------------------------------------------
(* Properties.                                                             *)

\* When the page stops following, it shows all the run that was started last
\* has written, and the run is over: unless a request failed, or the answer
\* for an earlier run came after the start.
FollowedToTheEnd ==
  panel.current > 0 /\ Loops = {} /\ ~past.failed /\ ~past.crossed =>
    panel.output = [run |-> panel.current, pieces |-> Pieces]

\* Then the table says so too, unless two loops followed at a time.
TableOfTheEnd ==
  panel.current > 0 /\ Loops = {} /\ ~past.failed /\ ~past.crossed /\ ~past.loops =>
    panel.current \in DOMAIN panel.table /\ panel.table[panel.current]

=============================================================================
