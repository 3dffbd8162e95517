---------------------------- MODULE DockerTables ----------------------------
(***************************************************************************)
(* The tables of the Docker page (frontend/src/legacy-app.js): containers  *)
(* page by page, images, the search box with its delay, the ticked rows    *)
(* and the actions on them.                                                *)
(*                                                                         *)
(* The boxes over the table (search text, scope, page size) are one        *)
(* filter.  The engine is its set of containers, in the order of their     *)
(* numbers, and its images; start, stop and restart change neither and are *)
(* the action without effect.  Operators marked FAULT are seeded errors    *)
(* that no action uses: each replaces the definition that follows it.      *)
(***************************************************************************)
EXTENDS Naturals, FiniteSets, FiniteSetsExt, Requests

CONSTANTS
  Containers,  \* a set of numbers
  Images,
  Matching,    \* containers that a filter lets through
  PageSize,
  MaxActions   \* bound on the actions on containers and images

VARIABLES
  docker,  \* the fields of the page's state, and the boxes
  flight,  \* requests
  engine,  \* what the server finds
  past     \* history: is the table the answer to the newest request; actions done

vars == <<docker, flight, engine, past>>

Filters == DOMAIN Matching
NoAnswer == [page |-> 0]
Pages == 0 .. Cardinality(Containers)
Answers == [items : SUBSET Containers, page : Pages \ {0}, pages : Pages]

TypeOK ==
  /\ docker \in [tab : {"containers", "images"},       \* dockerTab
                 filter : Filters, search : BOOLEAN,   \* the boxes; the search timer is set
                 page : Pages \ {0}, pages : Pages,    \* dockerPage, dockerTotalPages
                 items : SUBSET Containers,            \* dockerContainers
                 images : SUBSET Images,               \* dockerImages
                 picked : SUBSET Containers,           \* dockerSelectedContainerIDs
                 pickedImages : SUBSET Images]         \* dockerSelectedImageIDs
  /\ flight \in [Slots ->
        {Unused} \cup [ask : {"status"}] \cup [ask : {"images"}, answer : SUBSET Images, made : BOOLEAN]
        \cup [ask : {"list"}, chain : BOOLEAN, filter : Filters, page : Pages \ {0},
              newest : BOOLEAN, answer : {NoAnswer} \cup Answers]
        \cup [ask : {"act", "actAll", "actImages"}, ids : SUBSET (Containers \cup Images),
              remove : BOOLEAN, done : BOOLEAN]]
  /\ engine \in [containers : SUBSET Containers, images : SUBSET Images]
  /\ past \in [newest : BOOLEAN, filter : Filters, actions : 0 .. MaxActions]

Init ==
  /\ \E f \in Filters :
       /\ docker = [tab |-> "containers", filter |-> f, search |-> FALSE, page |-> 1, pages |-> 0,
                    items |-> {}, images |-> {}, picked |-> {}, pickedImages |-> {}]
       /\ past = [newest |-> FALSE, filter |-> f, actions |-> 0]
  /\ flight = NoRequests
  /\ engine = [containers |-> Containers, images |-> Images]

-----------------------------------------------------------------------------
(* Requests.                                                               *)

\* A request that is sent makes the ones under way older.
Aged(fl) == [s \in Slots |-> IF fl[s].ask = "list" THEN [fl[s] EXCEPT !.newest = FALSE] ELSE fl[s]]

\* loadDockerContainers up to its request.
List(d, fl, chain) ==
  /\ docker' = d
  /\ flight' = Send(Aged(fl), [ask |-> "list", chain |-> chain, filter |-> d.filter,
                               page |-> d.page, newest |-> TRUE, answer |-> NoAnswer])
  /\ past' = [past EXCEPT !.newest = FALSE]

\* loadDockerDashboard: status, containers and perhaps images, one after the other.
Dashboard(d, fl) ==
  /\ docker' = d
  /\ flight' = Send(fl, [ask |-> "status"])
  /\ UNCHANGED past

AskImages(d, fl) ==
  /\ docker' = d
  /\ flight' = Send(fl, [ask |-> "images", answer |-> {}, made |-> FALSE])
  /\ UNCHANGED past

Idles(d, fl) ==
  /\ docker' = d
  /\ flight' = fl
  /\ UNCHANGED past

-----------------------------------------------------------------------------
(* The user.                                                               *)

Refresh == Dashboard([docker EXCEPT !.page = 1], flight)

\* The section is shown; a status that is known is not asked for again.
Enter == Dashboard(docker, flight) \/ List(docker, flight, TRUE)

Type(f) == Idles([docker EXCEPT !.filter = f, !.search = TRUE], flight)

SearchFires ==
  /\ docker.search
  /\ List([docker EXCEPT !.search = FALSE, !.page = 1], flight, FALSE)

\* FAULT: a change of the scope waits for the next load.
SelectOnly(f) == Idles([docker EXCEPT !.filter = f, !.page = 1], flight)

\* The scope or the page size.
Select(f) == List([docker EXCEPT !.filter = f, !.page = 1], flight, FALSE)

\* FAULT: there is a page after the last one.
HasNextAlways(d) == d.pages > 0

HasNext(d) == d.pages > 0 /\ d.page < d.pages

Turn ==
  \/ /\ HasNext(docker) /\ docker.page < Cardinality(Containers)
     /\ List([docker EXCEPT !.page = @ + 1], flight, FALSE)
  \/ /\ docker.page > 1
     /\ List([docker EXCEPT !.page = @ - 1], flight, FALSE)

\* A row of the table that is shown is ticked or not: syncDockerSelections
\* reads the boxes.
Tick ==
  \/ \E c \in docker.items :
       /\ docker.tab = "containers"
       /\ Idles([docker EXCEPT !.picked = SymDiff(@, {c})], flight)
  \/ \E i \in docker.images :
       /\ docker.tab = "images"
       /\ Idles([docker EXCEPT !.pickedImages = SymDiff(@, {i})], flight)

SwitchTab(tab) ==
  LET d == [docker EXCEPT !.tab = tab]
  IN  IF tab = "images" THEN AskImages(d, flight) ELSE Idles(d, flight)

\* refreshDockerBatchActionUI: what the button does to which rows.
Batches(d) ==
  IF d.tab = "images"
  THEN {[ask |-> "actImages", ids |-> d.pickedImages, remove |-> TRUE, done |-> FALSE]}
  ELSE {[ask |-> "actAll", ids |-> d.picked, remove |-> remove, done |-> FALSE] : remove \in BOOLEAN}

Act(request) ==
  /\ past.actions < MaxActions
  /\ request.ids # {}
  /\ docker' = docker
  /\ flight' = Send(flight, request)
  /\ past' = [past EXCEPT !.actions = @ + 1]

Batch == \E request \in Batches(docker) : Act(request)

\* executeDockerAction on the row of a container.
ActOnRow ==
  /\ docker.tab = "containers"
  /\ \E c \in docker.items, remove \in BOOLEAN :
       Act([ask |-> "act", ids |-> {c}, remove |-> remove, done |-> FALSE])

-----------------------------------------------------------------------------
(* The server (handleDockerContainers and the actions).                    *)

\* FAULT: a page after the last one is not the last one.
AsAsked(page, pages) == page

Clamped(page, pages) == IF pages > 0 /\ page > pages THEN pages ELSE page

Page(q) ==
  LET found == engine.containers \cap Matching[q.filter]
      pages == (Cardinality(found) + PageSize - 1) \div PageSize
      page == Clamped(q.page, pages)
      Rank(c) == Cardinality({d \in found : d < c})
  IN  [items |-> {c \in found : Rank(c) \div PageSize = page - 1}, page |-> page, pages |-> pages]

Serve(s) ==
  /\ \/ /\ flight[s].ask = "list" /\ flight[s].answer = NoAnswer
        /\ flight' = [flight EXCEPT ![s].answer = Page(flight[s])]
        /\ UNCHANGED engine
     \/ /\ flight[s].ask = "images" /\ ~flight[s].made
        /\ flight' = [flight EXCEPT ![s].answer = engine.images, ![s].made = TRUE]
        /\ UNCHANGED engine
     \/ /\ flight[s].ask \in {"act", "actAll", "actImages"} /\ ~flight[s].done
        /\ flight' = [flight EXCEPT ![s].done = TRUE]
        /\ engine' = IF flight[s].remove
                     THEN [containers |-> engine.containers \ flight[s].ids,
                           images |-> engine.images \ flight[s].ids]
                     ELSE engine
  /\ UNCHANGED <<docker, past>>

-----------------------------------------------------------------------------
(* Answers.                                                                *)

\* FAULT: the ticks of rows that are gone are kept.
KeepsTicks(picked, items) == picked

\* renderDockerContainerTable draws the ticks again and reads them.
StillTicked(picked, items) == picked \cap items

Listed(d, a) ==
  [d EXCEPT !.items = a.items, !.page = a.page, !.pages = a.pages,
            !.picked = StillTicked(@, a.items)]

\* The dashboard goes on with the images, after a failure too.
Continue(d, s, newest, filter) ==
  /\ docker' = d
  /\ past' = [past EXCEPT !.newest = newest, !.filter = filter]
  /\ flight' = IF flight[s].chain /\ d.tab = "images"
               THEN [flight EXCEPT ![s] = [ask |-> "images", answer |-> {}, made |-> FALSE]]
               ELSE Over(flight, s)

ListArrives(s) ==
  /\ flight[s].ask = "list" /\ flight[s].answer # NoAnswer
  /\ Continue(Listed(docker, flight[s].answer), s, flight[s].newest, flight[s].filter)
  /\ UNCHANGED engine

ImagesArrive(s) ==
  /\ flight[s].ask = "images" /\ flight[s].made
  /\ Idles([docker EXCEPT !.images = flight[s].answer, !.pickedImages = StillTicked(@, flight[s].answer)],
           Over(flight, s))
  /\ UNCHANGED engine

\* The answers to actions; the table each one concerns is loaded again.
\* executeDockerAction loads the containers.
ActedOnRow(s) ==
  /\ flight[s].ask = "act" /\ flight[s].done
  /\ List(docker, Over(flight, s), FALSE)
  /\ UNCHANGED engine

\* runDockerBatchAction loads all there is.
ActedOnAll(s) ==
  /\ flight[s].ask = "actAll" /\ flight[s].done
  /\ Dashboard(docker, Over(flight, s))
  /\ UNCHANGED engine

\* runDockerImageBatchAction loads the images.
ActedOnImages(s) ==
  /\ flight[s].ask = "actImages" /\ flight[s].done
  /\ AskImages(docker, Over(flight, s))
  /\ UNCHANGED engine

\* The status comes or not.
StatusEnds(s) ==
  /\ flight[s].ask = "status"
  /\ List(docker, Over(flight, s), TRUE)
  /\ UNCHANGED engine

Fails(s) ==
  /\ \/ /\ flight[s].ask = "list"
        /\ Continue(docker, s, past.newest, past.filter)
     \/ /\ flight[s].ask \in {"images", "act", "actAll", "actImages"}
        /\ Idles(docker, Over(flight, s))
  /\ UNCHANGED engine

-----------------------------------------------------------------------------

Next ==
  \/ /\ \/ Tick
        \/ \E f \in Filters : Type(f)
     /\ UNCHANGED engine
  \/ /\ Room(flight)
     /\ \/ Refresh \/ Enter \/ SearchFires \/ Turn \/ Batch \/ ActOnRow
        \/ \E f \in Filters : Select(f)
        \/ \E tab \in {"containers", "images"} : SwitchTab(tab)
     /\ UNCHANGED engine
  \/ \E s \in Slots :
       \/ Serve(s) \/ ListArrives(s) \/ ImagesArrive(s) \/ StatusEnds(s) \/ Fails(s)
       \/ ActedOnRow(s) \/ ActedOnAll(s) \/ ActedOnImages(s)

Spec == Init /\ [][Next]_vars

-----------------------------------------------------------------------------
(* Properties.                                                             *)

\* An action on the ticked rows can only reach rows that the table shows,
\* whatever pages, filters, late answers and removals came in between.
TickedIsShown ==
  /\ docker.picked \subseteq docker.items
  /\ docker.pickedImages \subseteq docker.images

\* The page number is one of the pages there are, and a table that is the
\* answer to the newest request is one for the boxes above it.
TableAgrees ==
  /\ docker.pages > 0 => docker.page <= docker.pages
  /\ past.newest /\ ~docker.search => past.filter = docker.filter
=============================================================================
