-------------------------- MODULE AppRegistryProofs --------------------------
(***************************************************************************)
(* Safety of AppRegistry for any set of names and any number of requests,  *)
(* starts and restarts: memory, file and settings agree, and an            *)
(* application keeps, and shows, its own row.                              *)
(***************************************************************************)
EXTENDS AppRegistry, TLAPS

USE RegistryAssumption

\* Where a request can be after it has saved the list.
Places == {"sync", "read", "write", "drop"}

\* A name has a key of Keys.
LEMMA NameFacts == \A n \in Names : n.key \in Keys
BY DEF Names

\* The row made of a text and a start is a row, and not the missing one.
LEMMA RowFacts ==
  /\ NoRow \notin Row
  /\ \A r \in Row : r.text \in Nat /\ r.start \in Nat
  /\ \A a, b \in Nat :
       /\ [text |-> a, start |-> b] \in Row
       /\ [text |-> a, start |-> b].text = a
       /\ [text |-> a, start |-> b].start = b
<1>1. NoRow \notin Row
  <2>1. DOMAIN NoRow = {"text", "start", "none"}
    BY DEF NoRow
  <2>2. \A r \in Row : "none" \notin DOMAIN r
    BY DEF Row
  <2> QED
    BY <2>1, <2>2
<1> QED
  BY <1>1 DEF Row

\* What a request in progress is made of.
LEMMA RequestFacts ==
  /\ Idle \notin Request
  /\ \A r \in Request :
       /\ r.op \in {"create", "update", "delete"}
       /\ r.pc \in Places
       /\ r.url \in Names /\ r.new \in Names
       /\ r.text \in Nat
       /\ r.base \in Row \cup {NoRow}
<1>1. Idle \notin Request
  <2>1. DOMAIN Idle = {"op"}
    BY DEF Idle
  <2>2. \A r \in Request : "pc" \in DOMAIN r
    BY DEF Request
  <2> QED
    BY <2>1, <2>2
<1> HIDE DEF Row, NoRow, Names
<1> QED
  BY <1>1 DEF Request, Places

\* A request that goes on stays what it is but for its place.
LEMMA ContinueFacts ==
  ASSUME NEW r \in Request, NEW p \in Places, NEW next, next = [r EXCEPT !.pc = p]
  PROVE  /\ next \in Request
         /\ next.pc = p /\ next.op = r.op /\ next.url = r.url /\ next.new = r.new
         /\ next.text = r.text /\ next.base = r.base
BY DEF Request, Places

\* A request that begins.
LEMMA BeginFacts ==
  ASSUME NEW o \in {"create", "update", "delete"}, NEW u \in Names, NEW n \in Names,
         NEW t \in Nat, NEW next,
         next = [op |-> o, pc |-> "sync", url |-> u, new |-> n, text |-> t, base |-> NoRow]
  PROVE  /\ next \in Request
         /\ next.pc = "sync" /\ next.op = o /\ next.url = u
         /\ next.new = n /\ next.text = t /\ next.base = NoRow
BY DEF Request

-----------------------------------------------------------------------------
(* The three requests that change the list, seen as one.                   *)

\* Requests that leave no application with the key of the URL.
Unlisted(op, url, new) == op = "delete" \/ url.key # new.key

\* What a request may do to the list: only the keys it names change, and what
\* it does with a spelling that the list does not have is respelled.
Fits(op, url, new, list, respelled) ==
  /\ \A n \in Names : n.key \notin {url.key, new.key} => (n \in list <=> n \in apps)
  /\ op # "delete" => new \in list /\ \A n \in list : n.key = new.key => n = new
  /\ Unlisted(op, url, new) => \A n \in list : n.key # url.key
  /\ op = "delete" => url = new
  /\ op = "create" => url = new /\ \A n \in apps : n.key # new.key
  /\ Unlisted(op, url, new) /\ op # "delete" => \A n \in apps : n.key # new.key
  /\ op # "create" /\ url.key \notin respelled => url \in apps
  /\ url.key = new.key /\ url.key \notin respelled => url = new

\* The requests that change the list.
Changing ==
  \/ \E n \in Names : Create(n) \/ Delete(n)
  \/ \E url, new \in Names : Update(url, new)

\* Each of the three requests changes the list as Fits says.
LEMMA ChangingFits ==
  ASSUME apps \subseteq Names, Changing
  PROVE  \E op \in {"create", "update", "delete"}, url \in Names, new \in Names,
            list \in SUBSET Names, respelled \in SUBSET Keys :
           Fits(op, url, new, list, respelled) /\ Change(op, url, new, list, respelled)
<1> USE NameFacts
<1> HIDE DEF Names, Change
<1>1. ASSUME NEW n \in Names, Create(n)
      PROVE  /\ Fits("create", n, n, apps \cup {n}, {})
             /\ Change("create", n, n, apps \cup {n}, {})
  BY <1>1 DEF Create, Fits, Unlisted, Find
<1>2. ASSUME NEW n \in Names, Delete(n)
      PROVE  \E r \in SUBSET Keys : /\ Fits("delete", n, n, apps \ Find(n), r)
                                    /\ Change("delete", n, n, apps \ Find(n), r)
  <2> DEFINE r == IF Respells(n, n) THEN {n.key} ELSE {}
  <2>1. Fits("delete", n, n, apps \ Find(n), r)
    BY DEF Fits, Unlisted, Find, Respells
  <2> QED
    BY <1>2, <2>1 DEF Delete
<1>3. ASSUME NEW url \in Names, NEW new \in Names, Update(url, new)
      PROVE  \E r \in SUBSET Keys :
               /\ Fits("update", url, new, (apps \ Find(url)) \cup {new}, r)
               /\ Change("update", url, new, (apps \ Find(url)) \cup {new}, r)
  <2> DEFINE r == IF Respells(url, new) THEN {url.key, new.key} ELSE {}
  <2>1. Fits("update", url, new, (apps \ Find(url)) \cup {new}, r)
    BY <1>3 DEF Update, Fits, Unlisted, Find, Respells
  <2> QED
    BY <1>3, <2>1 DEF Update
<1>4. \A n \in Names : /\ apps \cup {n} \in SUBSET Names
                       /\ apps \ Find(n) \in SUBSET Names
                       /\ \A m \in Names : (apps \ Find(m)) \cup {n} \in SUBSET Names
  OBVIOUS
<1>5. CASE \E n \in Names : Create(n)
  <2>1. PICK n \in Names : Create(n)
    BY <1>5
  <2>2. {} \in SUBSET Keys
    OBVIOUS
  <2> QED
    BY <1>1, <1>4, <2>1, <2>2
<1>6. CASE \E n \in Names : Delete(n)
  BY <1>2, <1>4, <1>6
<1>7. CASE \E url, new \in Names : Update(url, new)
  <2>1. PICK url \in Names, new \in Names : Update(url, new)
    BY <1>7
  <2>2. (apps \ Find(url)) \cup {new} \in SUBSET Names
    BY <1>4
  <2> QED
    BY <1>3, <2>1, <2>2
<1> QED
  BY <1>5, <1>6, <1>7 DEF Changing

-----------------------------------------------------------------------------

(* How the request goes on: the two outcomes of each step.                 *)

\* Two records of one request.
Same(a, b) == a.op = b.op /\ a.url = b.url /\ a.new = b.new /\ a.text = b.text

\* The request goes on at a place, from the base it has.
GoesOn(place) ==
  /\ req' \in Request /\ req'.pc = place /\ Same(req', req) /\ req'.base = req.base

\* SyncConfig has written the settings, or the request has failed.
LEMMA SyncCases ==
  ASSUME req \in Request \cup {Idle}, Sync
  PROVE  /\ req \in Request /\ req # Idle /\ req.pc = "sync"
         /\ \/ /\ settings' = apps /\ unsynced' = FALSE /\ excused' = excused
               /\ \E p \in Places : /\ GoesOn(p)
                                    /\ req.op = "create" => p = "write"
                                    /\ req.op = "update" => p = "read"
                                    /\ req.op = "delete" => p = "drop"
            \/ unsynced' = TRUE /\ Fail
<1> HIDE DEF Request, Idle, Fail
<1>1. req \in Request /\ req # Idle /\ req.pc = "sync"
  BY DEF Sync
<1>2. CASE unsynced' = TRUE /\ Fail
  BY <1>1, <1>2
<1>3. CASE settings' = apps /\ unsynced' = FALSE /\ excused' = excused
           /\ Continue(CASE req.op = "create" -> "write"
                         [] req.op = "update" -> "read"
                         [] req.op = "delete" -> "drop")
  <2> DEFINE p == CASE req.op = "create" -> "write"
                    [] req.op = "update" -> "read"
                    [] req.op = "delete" -> "drop"
  <2>1. /\ p \in Places
        /\ req.op = "create" => p = "write"
        /\ req.op = "update" => p = "read"
        /\ req.op = "delete" => p = "drop"
    BY <1>1, RequestFacts DEF Places
  <2>2. req' = [req EXCEPT !.pc = p]
    BY <1>3 DEF Continue
  <2> HIDE DEF p
  <2>3. GoesOn(p)
    BY <1>1, <2>1, <2>2, ContinueFacts DEF GoesOn, Same
  <2> QED
    BY <1>1, <1>3, <2>1, <2>3
<1> QED
  BY <1>2, <1>3 DEF Sync

\* The row to replace has been read, or the request has failed.
LEMMA ReadCases ==
  ASSUME req \in Request \cup {Idle}, meta \in [Names -> Row \cup {NoRow}], ReadRow
  PROVE  /\ req \in Request /\ req # Idle /\ req.pc = "read"
         /\ \/ /\ req' \in Request /\ req'.pc = "write" /\ Same(req', req)
               /\ req'.base = meta[req.url] /\ excused' = excused
            \/ Fail
<1> HIDE DEF Request, Idle, Fail, Row, NoRow, Names
<1>1. req \in Request /\ req # Idle /\ req.pc = "read"
  BY DEF ReadRow
<1>2. meta[req.url] \in Row \cup {NoRow}
  BY <1>1, RequestFacts
<1>3. CASE req' = [req EXCEPT !.pc = "write", !.base = meta[req.url]] /\ excused' = excused
  <2>1. req' \in Request /\ req'.pc = "write" /\ Same(req', req) /\ req'.base = meta[req.url]
    <3> DEFINE row == meta[req.url]
    <3>1. row \in Row \cup {NoRow} /\ req' = [req EXCEPT !.pc = "write", !.base = row]
      BY <1>2, <1>3
    <3> HIDE DEF row
    <3>2. /\ req' \in Request /\ req'.pc = "write" /\ req'.base = row
          /\ req'.op = req.op /\ req'.url = req.url /\ req'.new = req.new
          /\ req'.text = req.text
      BY <1>1, <3>1 DEF Request
    <3> QED
      BY <3>2 DEF Same, row
  <2> QED
    BY <1>1, <1>3, <2>1
<1> QED
  BY <1>1, <1>3 DEF ReadRow, Base

\* The row is written, or the request has failed.
LEMMA WriteCases ==
  ASSUME req \in Request \cup {Idle}, WriteRow
  PROVE  /\ req \in Request /\ req # Idle /\ req.pc = "write"
         /\ \/ /\ meta' = [meta EXCEPT ![req.new] = [text |-> req.text, start |-> BaseStart]]
               /\ acked' = [acked EXCEPT ![req.new.key] = req.text]
               /\ started' = [started EXCEPT ![req.new.key] =
                                IF req.op = "create" THEN 0 ELSE started[req.url.key]]
               /\ excused' = IF req.url.key \in excused
                             THEN excused \cup {req.new.key} ELSE excused
               /\ \/ req.url.key = req.new.key /\ req' = Idle
                  \/ req.url.key # req.new.key /\ GoesOn("drop")
            \/ Fail /\ UNCHANGED <<meta, acked, started>>
<1> HIDE DEF Request, Idle, Fail, Row, NoRow, Names
<1>1. req \in Request /\ req # Idle /\ req.pc = "write"
  BY DEF WriteRow
<1>2. Continue("drop") => GoesOn("drop")
  <2> SUFFICES ASSUME req' = [req EXCEPT !.pc = "drop"] PROVE GoesOn("drop")
    BY DEF Continue
  <2>1. "drop" \in Places
    BY DEF Places
  <2> QED
    BY <1>1, <2>1, ContinueFacts DEF GoesOn, Same
<1> HIDE DEF Continue, GoesOn
<1> QED
  BY <1>1, <1>2 DEF WriteRow

-----------------------------------------------------------------------------

\* The invariant of the types: the text of a request is one that was counted.
Typed ==
  /\ TypeOK
  /\ req # Idle => req.text \in 1 .. requests

\* A request that changes the list keeps the types.
LEMMA ChangeTyped ==
  ASSUME Typed,
         NEW op \in {"create", "update", "delete"}, NEW url \in Names, NEW new \in Names,
         NEW list \in SUBSET Names, NEW respelled \in SUBSET Keys,
         Change(op, url, new, list, respelled)
  PROVE  Typed'
<1> USE DEF Typed, TypeOK, Change
<1> HIDE DEF Names, Row, NoRow, Request, Idle
<1>1. /\ UNCHANGED <<settings, meta, pending, started, starts, restarts>>
      /\ apps' \subseteq Names /\ file' \subseteq Names
  OBVIOUS
<1>2. requests' = requests + 1 /\ requests < MaxRequests
  OBVIOUS
<1>3. requests \in Nat /\ requests' \in 0 .. MaxRequests
  BY <1>2
<1>4. acked' \in [Keys -> 0 .. MaxRequests]
  OBVIOUS
<1>5. excused' \subseteq Keys
  BY NameFacts
<1>6. unsynced' \in BOOLEAN
  <2>1. unsynced' = unsynced \/ unsynced' = TRUE
    OBVIOUS
  <2> QED
    BY <2>1
<1>7. req' \in Request \cup {Idle} /\ (req' # Idle => req'.text \in 1 .. requests')
  <2>1. CASE req' = req
    BY <2>1
  <2>2. CASE req' = [op |-> op, pc |-> "sync", url |-> url, new |-> new,
                     text |-> requests + 1, base |-> NoRow]
    <3>1. req' \in Request /\ req'.text = requests + 1
      BY <1>3, <2>2, BeginFacts
    <3> QED
      BY <1>2, <1>3, <3>1
  <2> QED
    BY <2>1, <2>2
<1> HIDE DEF Change
<1> QED
  BY <1>1, <1>3, <1>4, <1>5, <1>6, <1>7

\* The variables keep their types, whatever fails.
LEMMA TypedInvariant == Spec => []Typed
<1>1. Init => Typed
  <2>1. Init => unsynced \in BOOLEAN
    BY DEF Init
  <2> QED
    BY <2>1 DEF Init, Typed, TypeOK
<1>2. Typed /\ [Next]_vars => Typed'
  <2> SUFFICES ASSUME Typed, [Next]_vars PROVE Typed'
    OBVIOUS
  <2> USE DEF Typed, TypeOK
  <2> HIDE DEF Names, Row, NoRow, Request, Idle
  <2>1. CASE Changing
    BY <2>1, ChangingFits, ChangeTyped
  <2>2. req # Idle => req \in Request
    OBVIOUS
  <2>3. CASE Sync
    <3>1. /\ settings' \subseteq Names
          /\ unsynced' \in BOOLEAN
      BY <2>3 DEF Sync
    <3>2. excused' \subseteq Keys
      BY <2>2, <2>3, NameFacts, RequestFacts DEF Sync, Fail
    <3>3. req' \in Request \cup {Idle} /\ (req' # Idle => req'.text = req.text /\ req # Idle)
      BY <2>3, SyncCases DEF GoesOn, Same, Fail
    <3>4. UNCHANGED <<apps, file, meta, pending, acked, started, requests, starts, restarts>>
      BY <2>3 DEF Sync
    <3> QED
      BY <3>1, <3>2, <3>3, <3>4
  <2>4. CASE ReadRow
    <3>1. excused' \subseteq Keys
      BY <2>2, <2>4, NameFacts, RequestFacts DEF ReadRow, Fail
    <3>2. req' \in Request \cup {Idle} /\ (req' # Idle => req'.text = req.text /\ req # Idle)
      BY <2>4, ReadCases DEF Same, Fail
    <3>3. UNCHANGED <<listVars, meta, pending, unsynced, acked, started, requests, starts,
                      restarts>>
      BY <2>4 DEF ReadRow
    <3> QED
      BY <3>1, <3>2, <3>3 DEF listVars
  <2>5. CASE WriteRow
    <3>1. req \in Request /\ req.text \in 1 .. requests /\ req.new.key \in Keys
      BY <2>2, <2>5, RequestFacts, NameFacts DEF WriteRow
    <3>2. [text |-> req.text, start |-> BaseStart] \in Row
      BY <2>2, <3>1, RowFacts, RequestFacts DEF BaseStart
    <3>3. meta' \in [Names -> Row \cup {NoRow}]
      BY <2>5, <3>2 DEF WriteRow
    <3>4. /\ acked' \in [Keys -> 0 .. MaxRequests]
          /\ started' \in [Keys -> 0 .. MaxStarts]
      <4>1. req.text \in 0 .. MaxRequests
        BY <3>1
      <4>2. started[req.url.key] \in 0 .. MaxStarts /\ 0 \in 0 .. MaxStarts
        BY <3>1, RequestFacts, NameFacts
      <4> QED
        BY <2>5, <3>1, <4>1, <4>2 DEF WriteRow
    <3>5. excused' \subseteq Keys
      BY <2>5, <3>1, NameFacts, RequestFacts DEF WriteRow, Fail
    <3>6. req' \in Request \cup {Idle} /\ (req' # Idle => req'.text = req.text /\ req # Idle)
      BY <2>5, WriteCases DEF GoesOn, Same, Fail
    <3>7. UNCHANGED <<listVars, pending, unsynced, requests, starts, restarts>>
      BY <2>5 DEF WriteRow
    <3> QED
      BY <3>3, <3>4, <3>5, <3>6, <3>7 DEF listVars
  <2>6. CASE DropRow
    <3>1. meta' \in [Names -> Row \cup {NoRow}]
      BY <2>6 DEF DropRow, RowDropped
    <3>2. excused' \subseteq Keys /\ req' = Idle
      BY <2>2, <2>6, NameFacts, RequestFacts DEF DropRow
    <3>3. UNCHANGED <<listVars, pending, unsynced, acked, started, requests, starts, restarts>>
      BY <2>6 DEF DropRow
    <3> QED
      BY <3>1, <3>2, <3>3 DEF listVars
  <2>7. ASSUME NEW url \in Names, BeginStart(url) PROVE Typed'
    <3>1. starts' = starts + 1 /\ starts < MaxStarts
      BY <2>7 DEF BeginStart
    <3>2. starts + 1 \in 1 .. MaxStarts /\ starts' \in 0 .. MaxStarts
      BY <3>1
    <3>3. pending' \subseteq [name : Names, id : 1 .. MaxStarts]
      BY <2>7, <3>2 DEF BeginStart, Find
    <3>4. UNCHANGED <<listVars, meta, req, unsynced, history, requests, restarts>>
      BY <2>7 DEF BeginStart
    <3> QED
      BY <3>2, <3>3, <3>4 DEF listVars, history
  <2>8. ASSUME NEW s \in pending, RecordStart(s) PROVE Typed'
    <3>1. s.name \in Names /\ s.id \in 1 .. MaxStarts /\ s.name.key \in Keys
      BY NameFacts
    <3>2. WithResult(s) \in Row
      <4>1. meta[s.name] = NoRow \/ meta[s.name].text \in Nat
        BY <3>1, RowFacts
      <4> QED
        BY <3>1, <4>1, RowFacts DEF WithResult
    <3>3. meta' \in [Names -> Row \cup {NoRow}]
      BY <2>8, <3>2 DEF RecordStart
    <3>4. started' \in [Keys -> 0 .. MaxStarts] /\ excused' \subseteq Keys
      <4>1. s.id \in 0 .. MaxStarts
        BY <3>1
      <4> QED
        BY <2>8, <3>1, <4>1 DEF RecordStart
    <3>5. pending' \subseteq pending
      BY <2>8 DEF RecordStart
    <3>6. UNCHANGED <<listVars, req, unsynced, acked, requests, starts, restarts>>
      BY <2>8 DEF RecordStart
    <3> QED
      BY <3>3, <3>4, <3>5, <3>6 DEF listVars
  <2>9. CASE Restart
    <3>1. restarts' \in 0 .. MaxRestarts
      BY <2>9 DEF Restart
    <3>2. excused' \subseteq Keys
      BY <2>2, <2>9, NameFacts, RequestFacts DEF Restart
    <3>3. /\ apps' = file /\ settings' = file /\ req' = Idle /\ pending' = {}
          /\ UNCHANGED <<file, meta, acked, started, requests, starts>>
      BY <2>9 DEF Restart, SettingsAtStart
    <3>4. unsynced' \in BOOLEAN
      BY <2>9 DEF Restart
    <3> QED
      BY <3>1, <3>2, <3>3, <3>4
  <2>10. CASE UNCHANGED vars
    BY <2>10 DEF vars, listVars, history
  <2> QED
    BY <2>1, <2>3, <2>4, <2>5, <2>6, <2>7, <2>8, <2>9, <2>10 DEF Next, Changing
<1> QED
  BY <1>1, <1>2, PTL DEF Spec

\* The lists are lists of names, the table has a row or nothing for each name,
\* and the counters stay in their bounds.
THEOREM TypeCorrect == Spec => []TypeOK
<1>1. Typed => TypeOK
  BY DEF Typed
<1> QED
  BY <1>1, TypedInvariant, PTL

-----------------------------------------------------------------------------

\* One application for a key.
Unique(list) == \A m, n \in list : m.key = n.key => m = n

\* While a request is open, memory and file agree, and the settings too once
\* they are written; between requests all three do unless the last failed.
ListInv ==
  /\ Unique(apps) /\ Unique(file)
  /\ req # Idle => apps = file
  /\ req # Idle /\ req.pc # "sync" => file = settings /\ ~unsynced
  /\ req = Idle /\ ~unsynced => apps = file /\ file = settings

\* A change of the list leaves one application for a key.
LEMMA UniqueAfter ==
  ASSUME apps \subseteq Names, Unique(apps),
         NEW op \in {"create", "update", "delete"}, NEW url \in Names, NEW new \in Names,
         NEW list \in SUBSET Names, NEW respelled \in SUBSET Keys,
         Fits(op, url, new, list, respelled)
  PROVE  Unique(list)
<1> SUFFICES ASSUME NEW m \in list, NEW n \in list, m.key = n.key
             PROVE  m = n
  BY DEF Unique
<1>1. CASE m.key \notin {url.key, new.key}
  BY <1>1 DEF Fits, Unique
<1>2. CASE m.key = new.key /\ op # "delete"
  BY <1>2 DEF Fits
<1>3. CASE m.key = url.key /\ Unlisted(op, url, new)
  BY <1>3 DEF Fits
<1> QED
  BY <1>1, <1>2, <1>3 DEF Unlisted, Fits

\* ListInv is inductive, given the types.
LEMMA ListInvariant == Spec => []ListInv
<1>1. Init => ListInv
  BY DEF Init, ListInv, Unique
<1>2. Typed /\ ListInv /\ [Next]_vars => ListInv'
  <2> SUFFICES ASSUME Typed, ListInv, [Next]_vars PROVE ListInv'
    OBVIOUS
  <2>0. /\ apps \subseteq Names /\ req \in Request \cup {Idle}
        /\ meta \in [Names -> Row \cup {NoRow}]
    BY DEF Typed, TypeOK
  <2> USE DEF ListInv
  <2> HIDE DEF Names, Row, NoRow, Request, Idle, Unique
  <2>1. CASE Changing
    <3>1. PICK op \in {"create", "update", "delete"}, url \in Names, new \in Names,
               list \in SUBSET Names, respelled \in SUBSET Keys :
            Fits(op, url, new, list, respelled) /\ Change(op, url, new, list, respelled)
      BY <2>0, <2>1, ChangingFits
    <3>2. apps' = list /\ Unique(list)
      BY <2>0, <3>1, UniqueAfter DEF Change
    <3>3. CASE file' = list /\ unsynced' = unsynced /\
               req' = [op |-> op, pc |-> "sync", url |-> url, new |-> new,
                       text |-> requests + 1, base |-> NoRow]
      <4>1. requests + 1 \in Nat
        BY DEF Typed, TypeOK
      <4>2. req' # Idle /\ req'.pc = "sync"
        BY <3>3, <4>1, BeginFacts, RequestFacts
      <4> QED
        BY <3>2, <3>3, <4>2 DEF Unique
    <3>4. CASE unsynced' = TRUE /\ UNCHANGED <<file, req>>
      <4>1. req' = Idle
        BY <3>1, <3>4 DEF Change
      <4> QED
        BY <3>2, <3>4, <4>1 DEF Unique
    <3> QED
      BY <3>1, <3>3, <3>4 DEF Change
  <2>2. CASE Sync
    <3>1. UNCHANGED <<apps, file>>
      BY <2>2 DEF Sync
    <3> QED
      BY <2>0, <2>2, <3>1, SyncCases DEF GoesOn, Fail, Unique
  <2>3. CASE ReadRow
    <3>1. UNCHANGED <<apps, file, settings, unsynced>>
      BY <2>3 DEF ReadRow, listVars
    <3> QED
      BY <2>0, <2>3, <3>1, ReadCases DEF Fail, Unique
  <2>4. CASE WriteRow
    <3>1. UNCHANGED <<apps, file, settings, unsynced>>
      BY <2>4 DEF WriteRow, listVars
    <3> QED
      BY <2>0, <2>4, <3>1, WriteCases DEF GoesOn, Fail, Unique
  <2>5. CASE DropRow
    BY <2>5 DEF DropRow, listVars, Unique
  <2>6. ASSUME NEW url \in Names, BeginStart(url) PROVE ListInv'
    BY <2>6 DEF BeginStart, listVars, Unique
  <2>7. ASSUME NEW s \in pending, RecordStart(s) PROVE ListInv'
    BY <2>7 DEF RecordStart, listVars, Unique
  <2>8. CASE Restart
    BY <2>8 DEF Restart, SettingsAtStart, Unique
  <2>9. CASE UNCHANGED vars
    BY <2>9 DEF vars, listVars, Unique
  <2> QED
    BY <2>1, <2>2, <2>3, <2>4, <2>5, <2>6, <2>7, <2>8, <2>9 DEF Next, Changing
<1> QED
  BY <1>1, <1>2, TypedInvariant, PTL DEF Spec

\* Memory, file and settings agree between requests unless one has failed,
\* and no list has two applications of one key.
THEOREM ListsAgree == Spec => []ConfigAgrees
<1>1. ListInv => ConfigAgrees
  BY DEF ListInv, Unique, ConfigAgrees
<1> QED
  BY <1>1, ListInvariant, PTL

-----------------------------------------------------------------------------

\* What an open request knows of the list: the new application is in it, the
\* one it deletes or renames is not, and a key that is not excused is spelled
\* as the list has it.
ReqInv ==
  req # Idle =>
    /\ req.pc = "read" => req.op = "update"
    /\ req.pc = "write" => req.op # "delete"
    /\ req.pc = "drop" => Unlisted(req.op, req.url, req.new)
    /\ req.op # "delete" => req.new \in apps
    /\ req.op = "create" => req.url = req.new /\ req.base = NoRow
    /\ req.op = "delete" => req.url = req.new
    /\ Unlisted(req.op, req.url, req.new) => \A n \in apps : n.key # req.url.key
    /\ req.url.key = req.new.key /\ req.url.key \notin excused => req.url = req.new

\* ReqInv is inductive, given the types.
LEMMA ReqInvariant == Spec => []ReqInv
<1>1. Init => ReqInv
  BY DEF Init, ReqInv
<1>2. Typed /\ ReqInv /\ [Next]_vars => ReqInv'
  <2> SUFFICES ASSUME Typed, ReqInv, [Next]_vars PROVE ReqInv'
    OBVIOUS
  <2>0. /\ apps \subseteq Names /\ req \in Request \cup {Idle}
        /\ meta \in [Names -> Row \cup {NoRow}]
        /\ requests \in Nat
    BY DEF Typed, TypeOK
  <2> USE DEF ReqInv
  <2> HIDE DEF Names, Row, NoRow, Request, Idle
  <2>1. CASE Changing
    <3>1. PICK op \in {"create", "update", "delete"}, url \in Names, new \in Names,
               list \in SUBSET Names, respelled \in SUBSET Keys :
            Fits(op, url, new, list, respelled) /\ Change(op, url, new, list, respelled)
      BY <2>0, <2>1, ChangingFits
    <3>2. CASE apps' = list /\ excused' = excused \cup respelled /\
               req' = [op |-> op, pc |-> "sync", url |-> url, new |-> new,
                       text |-> requests + 1, base |-> NoRow]
      <4>1. requests + 1 \in Nat
        BY <2>0
      <4>2. /\ req'.op = op /\ req'.pc = "sync" /\ req'.url = url /\ req'.new = new
            /\ req'.base = NoRow
        BY <3>2, <4>1, BeginFacts
      <4> QED
        BY <3>1, <3>2, <4>2 DEF Fits, Unlisted
    <3>3. CASE UNCHANGED req
      BY <3>1, <3>3 DEF Change
    <3> QED
      BY <3>1, <3>2, <3>3 DEF Change
  <2>2. CASE Sync
    <3>1. UNCHANGED apps
      BY <2>2 DEF Sync
    <3> QED
      <4>1. CASE Fail
        BY <4>1 DEF Fail
      <4>2. ASSUME NEW p \in Places, GoesOn(p), excused' = excused,
                   req \in Request, req # Idle,
                   req.op = "create" => p = "write",
                   req.op = "update" => p = "read",
                   req.op = "delete" => p = "drop"
            PROVE  ReqInv'
        BY <3>1, <4>2, RequestFacts DEF GoesOn, Same, Unlisted
      <4> QED
        BY <2>0, <2>2, <4>1, <4>2, SyncCases
  <2>3. CASE ReadRow
    <3>1. UNCHANGED apps
      BY <2>3 DEF ReadRow, listVars
    <3> QED
      BY <2>0, <2>3, <3>1, ReadCases DEF Same, Fail, Unlisted
  <2>4. CASE WriteRow
    <3>1. UNCHANGED apps
      BY <2>4 DEF WriteRow, listVars
    <3> QED
      BY <2>0, <2>4, <3>1, WriteCases DEF GoesOn, Same, Fail, Unlisted
  <2>5. CASE DropRow
    BY <2>5 DEF DropRow
  <2>6. ASSUME NEW url \in Names, BeginStart(url) PROVE ReqInv'
    BY <2>6 DEF BeginStart, listVars, history
  <2>7. ASSUME NEW s \in pending, RecordStart(s) PROVE ReqInv'
    <3>1. UNCHANGED <<apps, req>> /\ excused \subseteq excused'
      BY <2>7 DEF RecordStart, listVars
    <3> QED
      BY <3>1
  <2>8. CASE Restart
    BY <2>8 DEF Restart
  <2>9. CASE UNCHANGED vars
    BY <2>9 DEF vars, listVars, history
  <2> QED
    BY <2>1, <2>2, <2>3, <2>4, <2>5, <2>6, <2>7, <2>8, <2>9 DEF Next, Changing
<1> QED
  BY <1>1, <1>2, TypedInvariant, PTL DEF Spec

-----------------------------------------------------------------------------

\* A key whose row was written, or that is not excused, is in memory as it is
\* in the file, and the written row has the text of the last update.
TextInv ==
  /\ \A n \in Names : acked[n.key] # 0 \/ n.key \notin excused => (n \in apps <=> n \in file)
  /\ \A n \in apps : acked[n.key] # 0 => meta[n] # NoRow /\ meta[n].text = acked[n.key]

\* TextInv is inductive, given what is known of the list and the request.
LEMMA TextInvariant == Spec => []TextInv
<1>1. Init => TextInv
  BY NameFacts DEF Init, TextInv
<1>2. Typed /\ ListInv /\ ReqInv /\ TextInv /\ [Next]_vars => TextInv'
  <2> SUFFICES ASSUME Typed, ListInv, ReqInv, TextInv, [Next]_vars PROVE TextInv'
    OBVIOUS
  <2>0. /\ apps \subseteq Names /\ req \in Request \cup {Idle}
        /\ meta \in [Names -> Row \cup {NoRow}] /\ acked \in [Keys -> 0 .. MaxRequests]
        /\ file \subseteq Names
    BY DEF Typed, TypeOK
  <2> USE NameFacts DEF TextInv
  <2> HIDE DEF Names, Row, NoRow, Request, Idle
  <2>1. CASE Changing
    <3>1. PICK op \in {"create", "update", "delete"}, url \in Names, new \in Names,
               list \in SUBSET Names, respelled \in SUBSET Keys :
            Fits(op, url, new, list, respelled) /\ Change(op, url, new, list, respelled)
      BY <2>0, <2>1, ChangingFits
    <3>2. /\ apps' = list /\ UNCHANGED meta
          /\ \A k \in Keys : acked'[k] = IF k \in {url.key, new.key} THEN 0 ELSE acked[k]
      BY <3>1 DEF Change
    <3>3. \A n \in Names : n.key \notin {url.key, new.key} => (n \in list <=> n \in apps)
      BY <3>1 DEF Fits
    <3>4. CASE file' = list
      BY <2>0, <3>2, <3>3, <3>4
    <3>5. CASE excused' = excused \cup {url.key, new.key} /\ UNCHANGED file
      BY <2>0, <3>2, <3>3, <3>5
    <3> QED
      BY <3>1, <3>4, <3>5 DEF Change
  <2>2. CASE Sync
    <3>1. UNCHANGED <<apps, file, meta, acked>> /\ excused \subseteq excused'
      BY <2>2 DEF Sync, Fail
    <3> QED
      BY <2>0, <3>1
  <2>3. CASE ReadRow
    <3>1. UNCHANGED <<apps, file, meta, acked>> /\ excused \subseteq excused'
      BY <2>3 DEF ReadRow, Fail, listVars
    <3> QED
      BY <2>0, <3>1
  <2>4. CASE WriteRow
    <3>1. apps' = apps /\ file' = file /\ apps = file
      BY <2>4 DEF WriteRow, listVars, ListInv
    <3>2. CASE UNCHANGED <<meta, acked>>
      BY <3>1, <3>2
    <3>3. CASE /\ meta' = [meta EXCEPT ![req.new] = [text |-> req.text, start |-> BaseStart]]
               /\ acked' = [acked EXCEPT ![req.new.key] = req.text]
      <4>1. /\ req \in Request /\ req # Idle /\ req.pc = "write"
            /\ req.new \in apps /\ req.new.key \in Keys
        BY <2>0, <2>4, WriteCases, RequestFacts DEF ReqInv
      <4>2. \A n \in apps : n.key = req.new.key => n = req.new
        BY <4>1 DEF ListInv, Unique
      <4>3. BaseStart \in Nat
        BY <4>1, RowFacts, RequestFacts DEF BaseStart
      <4>4. meta'[req.new] # NoRow /\ meta'[req.new].text = req.text
        BY <2>0, <3>3, <4>1, <4>3, RowFacts, RequestFacts
      <4>5. \A n \in Names \ {req.new} : meta'[n] = meta[n]
        BY <2>0, <3>3
      <4>6. \A k \in Keys : acked'[k] = IF k = req.new.key THEN req.text ELSE acked[k]
        BY <2>0, <3>3
      <4> QED
        BY <2>0, <3>1, <4>2, <4>4, <4>5, <4>6
    <3> QED
      BY <2>0, <2>4, <3>2, <3>3, WriteCases
  <2>5. CASE DropRow
    <3>1. UNCHANGED <<apps, file, acked>> /\ excused \subseteq excused'
      BY <2>5 DEF DropRow, listVars
    <3>2. \A n \in apps : n # req.url
      BY <2>0, <2>5 DEF DropRow, ReqInv
    <3>3. \A n \in apps : meta'[n] = meta[n]
      BY <2>0, <2>5, <3>2 DEF DropRow
    <3> QED
      BY <2>0, <3>1, <3>3
  <2>6. ASSUME NEW url \in Names, BeginStart(url) PROVE TextInv'
    BY <2>6 DEF BeginStart, listVars, history
  <2>7. ASSUME NEW s \in pending, RecordStart(s) PROVE TextInv'
    <3>1. UNCHANGED <<apps, file, acked>> /\ excused \subseteq excused'
      BY <2>7 DEF RecordStart, listVars
    <3>2. \A n \in apps : meta[n] # NoRow => meta'[n] # NoRow /\ meta'[n].text = meta[n].text
      <4> SUFFICES ASSUME NEW n \in apps, meta[n] # NoRow
                   PROVE  meta'[n] # NoRow /\ meta'[n].text = meta[n].text
        OBVIOUS
      <4>1. CASE meta'[n] = meta[n]
        BY <4>1
      <4>2. CASE n = s.name /\ meta' = [meta EXCEPT ![s.name] = WithResult(s)]
        <5>1. meta[n].text \in Nat /\ s.id \in Nat
          BY <2>0, RowFacts DEF Typed, TypeOK
        <5>2. meta'[n] = [text |-> meta[n].text, start |-> s.id]
          BY <2>0, <4>2 DEF WithResult
        <5> QED
          BY <5>1, <5>2, RowFacts
      <4> QED
        BY <2>0, <2>7, <4>1, <4>2 DEF RecordStart
    <3> QED
      BY <2>0, <3>1, <3>2
  <2>8. CASE Restart
    <3>1. /\ apps' = file /\ UNCHANGED <<file, meta, acked>> /\ excused \subseteq excused'
      BY <2>8 DEF Restart
    <3> QED
      BY <2>0, <3>1
  <2>9. CASE UNCHANGED vars
    BY <2>9 DEF vars, listVars, history
  <2> QED
    BY <2>1, <2>2, <2>3, <2>4, <2>5, <2>6, <2>7, <2>8, <2>9 DEF Next, Changing
<1> QED
  BY <1>1, <1>2, TypedInvariant, ListInvariant, ReqInvariant, PTL DEF Spec

-----------------------------------------------------------------------------

\* The result of the last start in a row; 0 when there is none.
StartOf(row) == IF row = NoRow THEN 0 ELSE row.start

\* The open request is going to write the row of a key.
Rewriting(k) == req # Idle /\ req.pc # "drop" /\ req.new.key = k

\* The row of a key that is not excused has the last start, and so has the row
\* that an update is going to read or has read to write it again.
StartInv ==
  /\ \A n \in apps : n.key \notin excused /\ ~Rewriting(n.key) =>
       StartOf(meta[n]) = started[n.key]
  /\ req # Idle /\ req.op = "update" /\ req.url.key \notin excused =>
       /\ req.pc \in {"sync", "read"} => StartOf(meta[req.url]) = started[req.url.key]
       /\ req.pc = "write" => StartOf(req.base) = started[req.url.key]

\* What WriteRow does to a row and to the last start of its key.
LEMMA WriteStart ==
  ASSUME Typed, ReqInv, req # Idle, req.pc = "write",
         meta' = [meta EXCEPT ![req.new] = [text |-> req.text, start |-> BaseStart]],
         started' = [started EXCEPT ![req.new.key] =
                       IF req.op = "create" THEN 0 ELSE started[req.url.key]]
  PROVE  /\ meta'[req.new] # NoRow
         /\ StartOf(meta'[req.new]) = StartOf(req.base)
         /\ req.op = "create" => started'[req.new.key] = StartOf(req.base)
         /\ req.op = "update" => started'[req.new.key] = started[req.url.key]
         /\ \A n \in Names : n # req.new => meta'[n] = meta[n]
         /\ \A n \in Names : n.key # req.new.key => started'[n.key] = started[n.key]
<1> HIDE DEF Names, Row, NoRow, Request, Idle
<1>1. /\ req \in Request /\ meta \in [Names -> Row \cup {NoRow}]
      /\ started \in [Keys -> 0 .. MaxStarts]
      /\ req.new \in Names /\ req.text \in Nat /\ req.new.key \in Keys
  BY RequestFacts, NameFacts DEF Typed, TypeOK
<1>2. BaseStart \in Nat /\ BaseStart = StartOf(req.base)
  BY <1>1, RequestFacts, RowFacts DEF BaseStart, StartOf
<1>3. meta'[req.new] = [text |-> req.text, start |-> BaseStart]
  BY <1>1
<1>4. meta'[req.new] # NoRow /\ meta'[req.new].start = BaseStart
  BY <1>1, <1>2, <1>3, RowFacts
<1>5. StartOf(meta'[req.new]) = StartOf(req.base)
  BY <1>2, <1>4 DEF StartOf
<1>6. req.op = "create" => StartOf(req.base) = 0
  BY DEF ReqInv, StartOf
<1>7. started'[req.new.key] = IF req.op = "create" THEN 0 ELSE started[req.url.key]
  BY <1>1
<1>8. /\ \A n \in Names : n # req.new => meta'[n] = meta[n]
      /\ \A n \in Names : n.key # req.new.key => started'[n.key] = started[n.key]
  BY <1>1, NameFacts
<1> QED
  BY <1>4, <1>5, <1>6, <1>7, <1>8

\* What a recorded start does to a row and to the last start of its key.
LEMMA ResultStart ==
  ASSUME Typed, NEW s \in pending,
         meta' = [meta EXCEPT ![s.name] = WithResult(s)],
         started' = [started EXCEPT ![s.name.key] = s.id]
  PROVE  /\ s.name \in Names
         /\ StartOf(meta'[s.name]) = started'[s.name.key]
         /\ \A n \in Names : n # s.name => meta'[n] = meta[n]
         /\ \A n \in Names : n.key # s.name.key => started'[n.key] = started[n.key]
<1> HIDE DEF Names, Row, NoRow
<1>1. /\ meta \in [Names -> Row \cup {NoRow}] /\ started \in [Keys -> 0 .. MaxStarts]
      /\ s.name \in Names /\ s.name.key \in Keys /\ s.id \in Nat
  BY NameFacts DEF Typed, TypeOK
<1>2. PICK t \in Nat : WithResult(s) = [text |-> t, start |-> s.id]
  BY <1>1, RowFacts DEF WithResult
<1>3. StartOf(meta'[s.name]) = s.id
  BY <1>1, <1>2, RowFacts DEF StartOf
<1>4. started'[s.name.key] = s.id
  BY <1>1
<1>5. /\ \A n \in Names : n # s.name => meta'[n] = meta[n]
      /\ \A n \in Names : n.key # s.name.key => started'[n.key] = started[n.key]
  BY <1>1, NameFacts
<1> QED
  BY <1>1, <1>3, <1>4, <1>5

\* StartInv is inductive, given what is known of the list and the request.
LEMMA StartInvariant == Spec => []StartInv
<1>1. Init => StartInv
  BY DEF Init, StartInv
<1>2. Typed /\ ListInv /\ ReqInv /\ TextInv /\ StartInv /\ [Next]_vars => StartInv'
  <2> SUFFICES ASSUME Typed, ListInv, ReqInv, TextInv, StartInv, [Next]_vars
               PROVE  StartInv'
    OBVIOUS
  <2>0. /\ apps \subseteq Names /\ file \subseteq Names /\ req \in Request \cup {Idle}
        /\ meta \in [Names -> Row \cup {NoRow}]
        /\ requests + 1 \in Nat
    BY DEF Typed, TypeOK
  <2> USE DEF StartInv, Rewriting
  <2> HIDE DEF Names, Row, NoRow, Request, Idle
  <2>1. CASE Changing
    <3>1. PICK op \in {"create", "update", "delete"}, url \in Names, new \in Names,
               list \in SUBSET Names, respelled \in SUBSET Keys :
            Fits(op, url, new, list, respelled) /\ Change(op, url, new, list, respelled)
      BY <2>0, <2>1, ChangingFits
    <3>2. apps' = list /\ req = Idle /\ UNCHANGED <<meta, started>>
      BY <3>1 DEF Change
    <3>3. \A n \in apps : n.key \notin excused => StartOf(meta[n]) = started[n.key]
      BY <3>2
    <3>4. CASE /\ excused' = excused \cup respelled
               /\ req' = [op |-> op, pc |-> "sync", url |-> url, new |-> new,
                          text |-> requests + 1, base |-> NoRow]
      <4>1. /\ req'.op = op /\ req'.pc = "sync" /\ req'.url = url /\ req'.new = new
            /\ req' # Idle
        BY <2>0, <3>4, BeginFacts, RequestFacts
      <4>2. ASSUME NEW n \in list, n.key # new.key PROVE n \in apps
        BY <3>1, <4>2 DEF Fits, Unlisted
      <4>3. op = "update" /\ url.key \notin respelled => url \in apps
        BY <3>1 DEF Fits
      <4> QED
        BY <3>2, <3>3, <3>4, <4>1, <4>2, <4>3 DEF StartOf
    <3>5. CASE excused' = excused \cup {url.key, new.key} /\ UNCHANGED req
      <4>1. ASSUME NEW n \in list, n.key \notin {url.key, new.key} PROVE n \in apps
        BY <3>1, <4>1 DEF Fits
      <4> QED
        BY <3>2, <3>3, <3>5, <4>1 DEF StartOf
    <3> QED
      BY <3>1, <3>4, <3>5 DEF Change
  <2>2. CASE Sync
    <3>1. UNCHANGED <<apps, meta, started>>
      BY <2>2 DEF Sync
    <3>2. CASE Fail
      BY <3>1, <3>2 DEF Fail, StartOf
    <3>3. ASSUME NEW p \in Places, GoesOn(p), excused' = excused,
                 req \in Request, req # Idle, req.pc = "sync",
                 req.op = "create" => p = "write",
                 req.op = "update" => p = "read",
                 req.op = "delete" => p = "drop"
          PROVE  StartInv'
      <4>1. /\ req' # Idle /\ req'.pc = p
            /\ req'.op = req.op /\ req'.url = req.url /\ req'.new = req.new
        BY <3>3, RequestFacts DEF GoesOn, Same
      <4>2. p = "drop" => \A n \in apps : n.key # req.new.key
        BY <3>3, RequestFacts DEF ReqInv, Unlisted
      <4> QED
        BY <3>1, <3>3, <4>1, <4>2 DEF StartOf
    <3> QED
      BY <2>0, <2>2, <3>2, <3>3, SyncCases
  <2>3. CASE ReadRow
    <3>1. UNCHANGED <<apps, meta, started>>
      BY <2>3 DEF ReadRow, listVars
    <3>2. CASE Fail
      BY <3>1, <3>2 DEF Fail, StartOf
    <3>3. CASE /\ req' \in Request /\ req'.pc = "write" /\ Same(req', req)
               /\ req'.base = meta[req.url] /\ excused' = excused
      <4>1. req # Idle /\ req.pc = "read" /\ req' # Idle
        BY <2>0, <2>3, <3>3, ReadCases, RequestFacts
      <4> QED
        BY <3>1, <3>3, <4>1 DEF Same, StartOf
    <3> QED
      BY <2>0, <2>3, <3>2, <3>3, ReadCases
  <2>4. CASE WriteRow
    <3>1. UNCHANGED apps
      BY <2>4 DEF WriteRow, listVars
    <3>2. CASE Fail /\ UNCHANGED <<meta, acked, started>>
      BY <3>1, <3>2 DEF Fail, StartOf
    <3>3. CASE /\ meta' = [meta EXCEPT ![req.new] = [text |-> req.text, start |-> BaseStart]]
               /\ started' = [started EXCEPT ![req.new.key] =
                                IF req.op = "create" THEN 0 ELSE started[req.url.key]]
               /\ excused' = IF req.url.key \in excused
                             THEN excused \cup {req.new.key} ELSE excused
               /\ req' = Idle \/ req'.pc = "drop"
      <4>1. /\ req \in Request /\ req # Idle /\ req.pc = "write"
            /\ req.op \in {"create", "update"} /\ req.new \in apps
        BY <2>0, <2>4, WriteCases, RequestFacts DEF ReqInv
      <4>2. \A n \in apps : n.key = req.new.key => n = req.new
        BY <4>1 DEF ListInv, Unique
      <4>3. req.url.key \notin excused =>
              StartOf(meta'[req.new]) = started'[req.new.key]
        BY <3>3, <4>1, WriteStart
      <4>4. ASSUME NEW n \in apps, n.key \notin excused', n.key # req.new.key
            PROVE  StartOf(meta'[n]) = started'[n.key]
        <5>1. meta'[n] = meta[n] /\ started'[n.key] = started[n.key]
          BY <2>0, <3>3, <4>1, <4>4, WriteStart
        <5> QED
          BY <3>3, <4>4, <5>1
      <4>5. ASSUME NEW n \in apps, n.key \notin excused', n.key = req.new.key
            PROVE  StartOf(meta'[n]) = started'[n.key]
        BY <3>3, <4>2, <4>3, <4>5
      <4>6. \A n \in apps' : n.key \notin excused' => StartOf(meta'[n]) = started'[n.key]
        BY <3>1, <4>4, <4>5
      <4> QED
        BY <3>3, <4>6 DEF StartOf
    <3> QED
      BY <2>0, <2>4, <3>2, <3>3, WriteCases DEF GoesOn
  <2>5. CASE DropRow
    <3>1. /\ UNCHANGED <<apps, started>> /\ excused \subseteq excused' /\ req' = Idle
          /\ req # Idle /\ req.pc = "drop"
      BY <2>5 DEF DropRow, listVars
    <3>2. \A n \in apps : n # req.url
      BY <3>1 DEF ReqInv
    <3>3. \A n \in apps : meta'[n] = meta[n]
      BY <2>0, <2>5, <3>2 DEF DropRow
    <3> QED
      BY <3>1, <3>3 DEF StartOf
  <2>6. ASSUME NEW url \in Names, BeginStart(url) PROVE StartInv'
    BY <2>6 DEF BeginStart, listVars, history, StartOf
  <2>7. ASSUME NEW s \in pending, RecordStart(s) PROVE StartInv'
    <3>1. UNCHANGED <<apps, req>>
      BY <2>7 DEF RecordStart, listVars
    <3>2. CASE UNCHANGED <<meta, started, excused>>
      BY <3>1, <3>2 DEF StartOf
    <3>3. CASE /\ meta' = [meta EXCEPT ![s.name] = WithResult(s)]
               /\ started' = [started EXCEPT ![s.name.key] = s.id]
               /\ excused' = IF s.name \notin apps \/ Overwrites(s)
                             THEN excused \cup {s.name.key} ELSE excused
      <4>1. /\ s.name \in Names
            /\ StartOf(meta'[s.name]) = started'[s.name.key]
            /\ \A n \in Names : n # s.name => meta'[n] = meta[n]
            /\ \A n \in Names : n.key # s.name.key => started'[n.key] = started[n.key]
        BY <3>3, ResultStart
      <4>2. /\ excused \subseteq excused'
            /\ s.name.key \notin excused' => s.name \in apps /\ ~Overwrites(s)
        BY <3>3
      <4>3. ASSUME NEW n \in Names, n.key # s.name.key
            PROVE  meta'[n] = meta[n] /\ started'[n.key] = started[n.key]
        BY <4>1, <4>3
      <4>4. ASSUME NEW n \in apps, n.key \notin excused', n.key = s.name.key
            PROVE  n = s.name
        BY <4>2, <4>4 DEF ListInv, Unique
      <4>5. ASSUME NEW n \in apps, n.key \notin excused', ~Rewriting(n.key)
            PROVE  StartOf(meta'[n]) = started'[n.key]
        <5>1. CASE n.key = s.name.key
          BY <4>1, <4>4, <4>5, <5>1
        <5>2. CASE n.key # s.name.key
          <6>1. StartOf(meta[n]) = started[n.key]
            BY <4>2, <4>5
          <6> QED
            BY <2>0, <4>3, <5>2, <6>1
        <5> QED
          BY <5>1, <5>2
      <4>6. ASSUME req # Idle, req.op = "update", req.url.key \notin excused'
            PROVE  /\ req.pc \in {"sync", "read"} =>
                        StartOf(meta'[req.url]) = started'[req.url.key]
                   /\ req.pc = "write" => StartOf(req.base) = started'[req.url.key]
        <5>1. req.url \in Names
          BY <2>0, <4>6, RequestFacts
        <5>2. CASE req.url.key # s.name.key
          <6>1. meta'[req.url] = meta[req.url] /\ started'[req.url.key] = started[req.url.key]
            BY <4>3, <5>1, <5>2
          <6> QED
            BY <4>2, <4>6, <6>1
        <5>3. CASE req.url.key = s.name.key
          <6>1. s.name \in apps /\ ~Overwrites(s)
            BY <4>2, <4>6, <5>3
          <6>2. req.url = req.new /\ req.new \in apps
            BY <4>2, <4>6, <5>3, <6>1 DEF ReqInv, Unlisted
          <6>3. req.url = s.name
            BY <4>4, <4>6, <5>3, <6>2
          <6> QED
            BY <4>1, <4>6, <5>3, <6>1, <6>3 DEF Overwrites
        <5> QED
          BY <5>2, <5>3
      <4> QED
        BY <3>1, <4>5, <4>6 DEF StartOf
    <3> QED
      BY <2>7, <3>2, <3>3 DEF RecordStart
  <2>8. CASE Restart
    <3>1. /\ apps' = file /\ req' = Idle /\ UNCHANGED <<meta, started>>
          /\ excused \subseteq excused'
          /\ req # Idle => req.new.key \in excused'
      BY <2>8 DEF Restart
    <3>2. ASSUME NEW n \in file, n.key \notin excused' PROVE n \in apps /\ ~Rewriting(n.key)
      BY <2>0, <3>1, <3>2 DEF TextInv
    <3> QED
      BY <3>1, <3>2 DEF StartOf
  <2>9. CASE UNCHANGED vars
    BY <2>9 DEF vars, listVars, history, StartOf
  <2> QED
    BY <2>1, <2>2, <2>3, <2>4, <2>5, <2>6, <2>7, <2>8, <2>9 DEF Next, Changing
<1> QED
  BY <1>1, <1>2, TypedInvariant, ListInvariant, ReqInvariant, TextInvariant, PTL DEF Spec

\* An application keeps the text of its last update, and the last start's
\* result unless its key is excused.
THEOREM RowsKept == Spec => []OwnRowKept
<1>1. Typed /\ TextInv /\ StartInv => OwnRowKept
  <2> SUFFICES ASSUME Typed, TextInv, StartInv, req = Idle,
                      NEW n \in apps, acked[n.key] # 0
               PROVE  /\ meta[n] # NoRow /\ meta[n].text = acked[n.key]
                      /\ n.key \notin excused => meta[n].start = started[n.key]
    BY DEF OwnRowKept
  <2>1. meta[n] # NoRow /\ meta[n].text = acked[n.key]
    BY DEF TextInv
  <2>2. n.key \notin excused => StartOf(meta[n]) = started[n.key]
    BY DEF StartInv, Rewriting
  <2> QED
    BY <2>1, <2>2 DEF StartOf
<1> QED
  BY <1>1, TypedInvariant, TextInvariant, StartInvariant, PTL

-----------------------------------------------------------------------------

\* A row of a key that is not excused belongs to an application of the list, or
\* to the one that the open request deletes or renames.
OnlyInv ==
  \A m \in Names : meta[m] # NoRow /\ m.key \notin excused =>
    m \in apps \/ (req # Idle /\ m = req.url)

\* OnlyInv is inductive, given what is known of the list and the request.
LEMMA OnlyInvariant == Spec => []OnlyInv
<1>1. Init => OnlyInv
  BY DEF Init, OnlyInv
<1>2. Typed /\ ListInv /\ ReqInv /\ TextInv /\ OnlyInv /\ [Next]_vars => OnlyInv'
  <2> SUFFICES ASSUME Typed, ListInv, ReqInv, TextInv, OnlyInv, [Next]_vars
               PROVE  OnlyInv'
    OBVIOUS
  <2>0. /\ apps \subseteq Names /\ file \subseteq Names /\ req \in Request \cup {Idle}
        /\ meta \in [Names -> Row \cup {NoRow}]
        /\ requests + 1 \in Nat
    BY DEF Typed, TypeOK
  <2> USE DEF OnlyInv
  <2> HIDE DEF Names, Row, NoRow, Request, Idle
  <2>1. CASE Changing
    <3>1. PICK op \in {"create", "update", "delete"}, url \in Names, new \in Names,
               list \in SUBSET Names, respelled \in SUBSET Keys :
            Fits(op, url, new, list, respelled) /\ Change(op, url, new, list, respelled)
      BY <2>0, <2>1, ChangingFits
    <3>2. apps' = list /\ UNCHANGED meta
      BY <3>1 DEF Change
    <3>3. ASSUME NEW m \in Names, meta[m] # NoRow, m.key \notin excused
          PROVE  m \in apps /\ (m.key \notin {url.key, new.key} => m \in list)
      BY <3>1, <3>3 DEF Change, Fits
    <3>4. CASE /\ excused' = excused \cup respelled
               /\ req' = [op |-> op, pc |-> "sync", url |-> url, new |-> new,
                          text |-> requests + 1, base |-> NoRow]
      <4>1. req'.url = url /\ req' # Idle
        BY <2>0, <3>4, BeginFacts, RequestFacts
      <4>2. ASSUME NEW m \in Names, meta[m] # NoRow, m.key \notin excused',
                   m.key \in {url.key, new.key}
            PROVE  m = url
        <5>1. m \in apps
          BY <3>3, <3>4, <4>2
        <5>2. m.key = url.key /\ op # "create"
          BY <3>1, <4>2, <5>1 DEF Fits, Unlisted
        <5>3. url \in apps
          BY <3>1, <3>4, <4>2, <5>2 DEF Fits
        <5> QED
          BY <5>1, <5>2, <5>3 DEF ListInv, Unique
      <4> QED
        BY <3>2, <3>3, <3>4, <4>1, <4>2
    <3>5. CASE excused' = excused \cup {url.key, new.key}
      BY <3>2, <3>3, <3>5
    <3> QED
      BY <3>1, <3>4, <3>5 DEF Change
  <2>2. CASE Sync
    <3>1. UNCHANGED <<apps, meta>>
      BY <2>2 DEF Sync
    <3>2. CASE Fail
      BY <3>1, <3>2 DEF Fail
    <3>3. ASSUME NEW p \in Places, GoesOn(p), excused' = excused, req # Idle
          PROVE  OnlyInv'
      BY <3>1, <3>3, RequestFacts DEF GoesOn, Same
    <3> QED
      BY <2>0, <2>2, <3>2, <3>3, SyncCases
  <2>3. CASE ReadRow
    <3>1. UNCHANGED <<apps, meta>>
      BY <2>3 DEF ReadRow, listVars
    <3>2. CASE Fail
      BY <3>1, <3>2 DEF Fail
    <3>3. CASE req' \in Request /\ Same(req', req) /\ excused' = excused
      BY <3>1, <3>3, RequestFacts DEF Same
    <3> QED
      BY <2>0, <2>3, <3>2, <3>3, ReadCases
  <2>4. CASE WriteRow
    <3>1. UNCHANGED apps
      BY <2>4 DEF WriteRow, listVars
    <3>2. CASE Fail /\ UNCHANGED meta
      BY <3>1, <3>2 DEF Fail
    <3>3. CASE /\ meta' = [meta EXCEPT ![req.new] = [text |-> req.text, start |-> BaseStart]]
               /\ excused' = IF req.url.key \in excused
                             THEN excused \cup {req.new.key} ELSE excused
               /\ \/ req.url.key = req.new.key /\ req' = Idle
                  \/ req' \in Request /\ Same(req', req)
      <4>1. req \in Request /\ req # Idle /\ req.new \in apps
        BY <2>0, <2>4, WriteCases, RequestFacts DEF ReqInv
      <4>2. ASSUME NEW m \in Names, meta'[m] # NoRow, m.key \notin excused'
            PROVE  m \in apps \/ m = req.url
        BY <2>0, <3>3, <4>1, <4>2
      <4>3. req.url.key = req.new.key /\ req.url.key \notin excused => req.url \in apps
        BY <4>1 DEF ReqInv
      <4> QED
        BY <3>1, <3>3, <4>2, <4>3, RequestFacts DEF Same
    <3> QED
      BY <2>0, <2>4, <3>2, <3>3, WriteCases DEF GoesOn
  <2>5. CASE DropRow
    <3>1. UNCHANGED apps
      BY <2>5 DEF DropRow, listVars
    <3>2. CASE meta' = [meta EXCEPT ![req.url] = NoRow] /\ excused' = excused
      BY <2>0, <3>1, <3>2
    <3>3. CASE excused' = excused \cup {req.url.key} /\ meta' = meta
      BY <3>1, <3>3
    <3> QED
      BY <2>5, <3>2, <3>3 DEF DropRow, RowDropped
  <2>6. ASSUME NEW url \in Names, BeginStart(url) PROVE OnlyInv'
    BY <2>6 DEF BeginStart, listVars, history
  <2>7. ASSUME NEW s \in pending, RecordStart(s) PROVE OnlyInv'
    <3>1. UNCHANGED <<apps, req>>
      BY <2>7 DEF RecordStart, listVars
    <3>2. CASE UNCHANGED <<meta, excused>>
      BY <3>1, <3>2
    <3>3. CASE /\ meta' = [meta EXCEPT ![s.name] = WithResult(s)]
               /\ excused \subseteq excused'
               /\ s.name \notin apps => s.name.key \in excused'
      <4>1. \A m \in Names : m # s.name => meta'[m] = meta[m]
        BY <2>0, <3>3
      <4> QED
        BY <3>1, <3>3, <4>1
    <3> QED
      BY <2>7, <3>2, <3>3 DEF RecordStart
  <2>8. CASE Restart
    <3>1. /\ apps' = file /\ UNCHANGED meta /\ excused \subseteq excused'
          /\ req # Idle => req.url.key \in excused'
      BY <2>8 DEF Restart
    <3> QED
      BY <3>1 DEF TextInv
  <2>9. CASE UNCHANGED vars
    BY <2>9 DEF vars, listVars, history
  <2> QED
    BY <2>1, <2>2, <2>3, <2>4, <2>5, <2>6, <2>7, <2>8, <2>9 DEF Next, Changing
<1> QED
  BY <1>1, <1>2, TypedInvariant, ListInvariant, ReqInvariant, TextInvariant, PTL DEF Spec

\* The list shows an application with its own row and never with the row of
\* another spelling, unless its key is excused.
THEOREM OwnRowShown == Spec => []ShowsOwnRow
<1>1. Typed /\ ListInv /\ TextInv /\ OnlyInv => ShowsOwnRow
  <2> SUFFICES ASSUME Typed, ListInv, TextInv, OnlyInv, req = Idle,
                      NEW n \in apps, acked[n.key] # 0, n.key \notin excused
               PROVE  Shown(n) = meta[n]
    BY DEF ShowsOwnRow
  <2> DEFINE low == [n EXCEPT !.spelling = 1]
             high == [n EXCEPT !.spelling = 2]
  <2>1. n \in Names
    BY DEF Typed, TypeOK
  <2>2. /\ low \in Names /\ high \in Names
        /\ low.key = n.key /\ high.key = n.key
        /\ n = low \/ n = high
    <3>1. PICK k \in Keys, i \in 1 .. 2 : n = [key |-> k, spelling |-> i]
      BY <2>1 DEF Names
    <3>2. low = [key |-> k, spelling |-> 1] /\ high = [key |-> k, spelling |-> 2]
      BY <3>1
    <3>3. i = 1 \/ i = 2
      OBVIOUS
    <3> QED
      BY <3>1, <3>2, <3>3 DEF Names
  <2> HIDE DEF low, high
  <2>3. meta[n] # NoRow
    BY DEF TextInv
  <2>4. ASSUME NEW m \in Names, m.key = n.key, meta[m] # NoRow PROVE m = n
    BY <2>4 DEF OnlyInv, ListInv, Unique
  <2>5. Shown(n) = IF meta[high] # NoRow THEN meta[high] ELSE meta[low]
    BY DEF Shown, low, high
  <2> QED
    BY <2>2, <2>3, <2>4, <2>5
<1> QED
  BY <1>1, TypedInvariant, ListInvariant, TextInvariant, OnlyInvariant, PTL

=============================================================================
