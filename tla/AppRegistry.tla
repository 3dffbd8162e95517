---------------------------- MODULE AppRegistry ----------------------------
(***************************************************************************)
(* The registered applications (handleApps in internal/web/server.go): the *)
(* list is part of the configuration, kept in memory, in the YAML file and *)
(* in the settings table (persistConfigLocked), while what the form says   *)
(* and the result of the last start are a row of app_meta                  *)
(* (internal/store/store.go).  The list finds an application by its name   *)
(* without regard to case, the table by its exact name.                    *)
(*                                                                         *)
(* Create, update and delete hold Server.mu over all their steps; a start  *)
(* reads the application under the lock and records its result later,      *)
(* without it.  A name is a key and a spelling; the form's text is a       *)
(* number.  An update refused with an error of the database leaves what it *)
(* has done.  Operators marked FAULT are seeded errors that no action      *)
(* uses: each replaces the definition that follows it.                     *)
(***************************************************************************)
EXTENDS Naturals, FiniteSets

CONSTANTS
  Keys,         \* names, all lower case
  MaxRequests,  \* bound on the requests that change the list
  MaxStarts,    \* bound on the starts
  MaxRestarts   \* bound on the restarts of the server

ASSUME RegistryAssumption ==
  /\ MaxRequests \in Nat
  /\ MaxStarts \in Nat
  /\ MaxRestarts \in Nat

\* The spellings of a key, numbered in the order of SQLite's ORDER BY.
Names == [key : Keys, spelling : 1 .. 2]
Row == [text : Nat, start : Nat]
NoRow == [text |-> 0, start |-> 0, none |-> TRUE]
Idle == [op |-> "none"]

VARIABLES
  apps,      \* cfg.Applications in memory
  file,      \* the applications in config.yaml
  settings,  \* the applications in the settings table
  meta,      \* table app_meta
  req,       \* the request that holds Server.mu, and how far it is
  pending,   \* starts whose result is not recorded yet
  unsynced,  \* the last SyncConfig or Save failed
  acked,     \* history: text of the last update of a key that wrote its row
  started,   \* history: the last recorded start of a key
  excused,   \* history: keys that ShowsOwnRow leaves out
  requests, starts, restarts  \* counters for the bounds

listVars == <<apps, file, settings>>
history == <<acked, started, excused>>
vars == <<listVars, meta, req, pending, unsynced, history, requests, starts, restarts>>

Request == [op : {"create", "update", "delete"}, pc : {"sync", "read", "write", "drop"},
            url : Names, new : Names, text : Nat, base : Row \cup {NoRow}]

TypeOK ==
  /\ apps \subseteq Names /\ file \subseteq Names /\ settings \subseteq Names
  /\ meta \in [Names -> Row \cup {NoRow}]
  /\ req \in Request \cup {Idle}
  /\ pending \subseteq [name : Names, id : 1 .. MaxStarts]
  /\ unsynced \in BOOLEAN
  /\ acked \in [Keys -> 0 .. MaxRequests]
  /\ started \in [Keys -> 0 .. MaxStarts]
  /\ excused \subseteq Keys
  /\ requests \in 0 .. MaxRequests
  /\ starts \in 0 .. MaxStarts
  /\ restarts \in 0 .. MaxRestarts

Init ==
  /\ apps = {} /\ file = {} /\ settings = {}
  /\ meta = [n \in Names |-> NoRow]
  /\ req = Idle
  /\ pending = {}
  /\ unsynced = FALSE
  /\ acked = [k \in Keys |-> 0]
  /\ started = [k \in Keys |-> 0]
  /\ excused = {}
  /\ requests = 0 /\ starts = 0 /\ restarts = 0

\* FAULT: the list is searched by the exact name.
FindExact(n) == apps \cap {n}

\* findAppByName: equal but for the case of the letters.
Find(n) == {a \in apps : a.key = n.key}

-----------------------------------------------------------------------------
(* The requests.  The list changes in memory and is saved; when Save fails *)
(* the request ends with an error and the memory stays changed.            *)

Change(op, url, new, list, respelled) ==
  /\ req = Idle /\ requests < MaxRequests
  /\ requests' = requests + 1
  /\ apps' = list
  /\ \/ /\ file' = list
        /\ req' = [op |-> op, pc |-> "sync", url |-> url, new |-> new,
                   text |-> requests + 1, base |-> NoRow]
        /\ excused' = excused \cup respelled
        /\ UNCHANGED unsynced
     \/ /\ unsynced' = TRUE
        /\ excused' = excused \cup {url.key, new.key}
        /\ UNCHANGED <<file, req>>
  /\ acked' = [k \in Keys |-> IF k \in {url.key, new.key} THEN 0 ELSE acked[k]]
  /\ UNCHANGED <<settings, meta, pending, started, starts, restarts>>

Create(n) ==
  /\ Find(n) = {}
  /\ Change("create", n, n, apps \cup {n}, {})

\* A request that spells the name unlike the list, or changes only the
\* spelling, is one that the exact names of the table do not follow.
Respells(url, new) ==
  url \notin apps \/ (url.key = new.key /\ url # new)

Update(url, new) ==
  /\ Find(url) # {}
  /\ url.key = new.key \/ Find(new) = {}
  /\ Change("update", url, new, (apps \ Find(url)) \cup {new},
            IF Respells(url, new) THEN {url.key, new.key} ELSE {})

Delete(url) ==
  /\ Find(url) # {}
  /\ Change("delete", url, url, apps \ Find(url),
            IF Respells(url, url) THEN {url.key} ELSE {})

-----------------------------------------------------------------------------
(* The rest of a request: the settings table, then the row of app_meta.    *)

Continue(pc) == req' = [req EXCEPT !.pc = pc]

\* The request ends with an error and leaves what it has done.
Fail ==
  /\ req' = Idle
  /\ excused' = excused \cup {req.url.key, req.new.key}

\* SyncConfig writes setting by setting and stops at the first error.
Sync ==
  /\ req # Idle /\ req.pc = "sync"
  /\ \/ /\ settings' = apps
        /\ unsynced' = FALSE
        /\ Continue(CASE req.op = "create" -> "write"
                      [] req.op = "update" -> "read"
                      [] req.op = "delete" -> "drop")
        /\ UNCHANGED excused
     \/ /\ settings' \in {settings, apps}
        /\ unsynced' = TRUE
        /\ Fail
  /\ UNCHANGED <<apps, file, meta, pending, acked, started, requests, starts, restarts>>

\* FAULT: an update does not look at the row it replaces.
BaseOfNothing == NoRow

Base == meta[req.url]

ReadRow ==
  /\ req # Idle /\ req.pc = "read"
  /\ \/ req' = [req EXCEPT !.pc = "write", !.base = Base] /\ UNCHANGED excused
     \/ Fail
  /\ UNCHANGED <<listVars, meta, pending, unsynced, acked, started, requests, starts, restarts>>

BaseStart == IF req.base = NoRow THEN 0 ELSE req.base.start

WriteRow ==
  /\ req # Idle /\ req.pc = "write"
  /\ \/ /\ meta' = [meta EXCEPT ![req.new] = [text |-> req.text, start |-> BaseStart]]
        /\ acked' = [acked EXCEPT ![req.new.key] = req.text]
        /\ started' = [started EXCEPT ![req.new.key] =
                         IF req.op = "create" THEN 0 ELSE started[req.url.key]]
        /\ IF req.url.key = req.new.key THEN req' = Idle ELSE Continue("drop")
        /\ excused' = IF req.url.key \in excused THEN excused \cup {req.new.key} ELSE excused
     \/ /\ Fail
        /\ UNCHANGED <<meta, acked, started>>
  /\ UNCHANGED <<listVars, pending, unsynced, requests, starts, restarts>>

\* FAULT: the row of a deleted or renamed application stays.
RowKept(n) == meta[n]

RowDropped(n) == NoRow

\* DeleteAppMeta of the name in the URL; its error is ignored.
DropRow ==
  /\ req # Idle /\ req.pc = "drop"
  /\ \/ /\ meta' = [meta EXCEPT ![req.url] = RowDropped(req.url)]
        /\ UNCHANGED excused
     \/ /\ excused' = excused \cup {req.url.key}
        /\ UNCHANGED meta
  /\ req' = Idle
  /\ UNCHANGED <<listVars, pending, unsynced, acked, started, requests, starts, restarts>>

-----------------------------------------------------------------------------
(* handleAppsStart: the lock is given up before the command is started.    *)

BeginStart(url) ==
  /\ req = Idle /\ starts < MaxStarts
  /\ starts' = starts + 1
  /\ \E a \in Find(url) : pending' = pending \cup {[name |-> a, id |-> starts + 1]}
  /\ UNCHANGED <<listVars, meta, req, unsynced, history, requests, restarts>>

\* FAULT: the result of a start replaces the whole row.
ResultAlone(s) == [text |-> 0, start |-> s.id]

\* FAULT: the result is written to a row that may not be there.
ResultOnNothing(s) == [meta[s.name] EXCEPT !.start = s.id]

\* The upsert changes the result of an existing row, and makes one for a name
\* that has none.
WithResult(s) ==
  [text |-> IF meta[s.name] = NoRow THEN 0 ELSE meta[s.name].text, start |-> s.id]

\* The request that is going to write its row from what it has read before.
Overwrites(s) == req # Idle /\ req.pc = "write" /\ req.url.key = s.name.key

\* UpdateAppStartResult; its error is ignored.
RecordStart(s) ==
  /\ s \in pending
  /\ pending' = pending \ {s}
  /\ \/ /\ meta' = [meta EXCEPT ![s.name] = WithResult(s)]
        /\ started' = [started EXCEPT ![s.name.key] = s.id]
        /\ excused' = IF s.name \notin apps \/ Overwrites(s)
                      THEN excused \cup {s.name.key} ELSE excused
     \/ UNCHANGED <<meta, started, excused>>
  /\ UNCHANGED <<listVars, req, unsynced, acked, requests, starts, restarts>>

-----------------------------------------------------------------------------
(* The process ends at any moment; main loads the file and syncs the       *)
(* settings before it serves requests.                                     *)

\* FAULT: the settings are not synced at the start.
SettingsLeft == settings

SettingsAtStart == file

Restart ==
  /\ restarts < MaxRestarts
  /\ restarts' = restarts + 1
  /\ apps' = file
  /\ settings' = SettingsAtStart
  /\ req' = Idle
  /\ excused' = IF req = Idle THEN excused ELSE excused \cup {req.url.key, req.new.key}
  /\ pending' = {}
  /\ unsynced' = FALSE
  /\ UNCHANGED <<file, meta, acked, started, requests, starts>>

-----------------------------------------------------------------------------

Next ==
  \/ \E n \in Names : Create(n) \/ Delete(n) \/ BeginStart(n)
  \/ \E url, new \in Names : Update(url, new)
  \/ Sync \/ ReadRow \/ WriteRow \/ DropRow
  \/ \E s \in pending : RecordStart(s)
  \/ Restart

Spec == Init /\ [][Next]_vars

-----------------------------------------------------------------------------
(* Properties.                                                             *)

\* No two applications have names that differ only in case, in memory or in
\* the file, whatever is created, renamed, lost or reloaded; and memory, YAML
\* and SQLite agree between requests, unless the last one ended with an error
\* of Save or SyncConfig.  A restart makes them agree again.
ConfigAgrees ==
  /\ \A m, n \in apps : m.key = n.key => m = n
  /\ \A m, n \in file : m.key = n.key => m = n
  /\ req = Idle /\ ~unsynced => apps = file /\ file = settings

\* loadAppMetaMap: the last row of a key is the one that the list shows.
Shown(n) ==
  IF meta[[n EXCEPT !.spelling = 2]] # NoRow
  THEN meta[[n EXCEPT !.spelling = 2]] ELSE meta[[n EXCEPT !.spelling = 1]]

\* The list shows an application with its own row, except for keys that were
\* respelled, had a request that failed or was cut off, or got the result of a
\* start after they were deleted or renamed.
ShowsOwnRow ==
  req = Idle =>
    \A n \in apps : acked[n.key] # 0 /\ n.key \notin excused => Shown(n) = meta[n]

\* An application whose last update wrote its row still has that text, also
\* when starts are recorded and other names are deleted or renamed meanwhile.
\* With the exceptions above, and except for a start recorded while an update
\* was between reading and writing the row, it has the last start's result.
OwnRowKept ==
  req = Idle =>
    \A n \in apps : acked[n.key] # 0 =>
      /\ meta[n] # NoRow /\ meta[n].text = acked[n.key]
      /\ n.key \notin excused => meta[n].start = started[n.key]

=============================================================================
