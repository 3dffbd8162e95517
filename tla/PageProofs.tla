----------------------------- MODULE PageProofs -----------------------------
(***************************************************************************)
(* The panels of the page, for every value of their constants: for each a  *)
(* type, an invariant that is inductive, and that it means what the panel  *)
(* promises.  A panel does not read the state of another one, so that the  *)
(* invariant of the page is that of the panel in focus.  Eleven panels are *)
(* here, the other five and the types of all in PageChoiceProofs.          *)
(* The names are those of the panels: XInv is the invariant of panel X,    *)
(* XMean says what follows from it, XStart that it holds at first, XSteps  *)
(* that every step of the panel keeps it.                                  *)
(***************************************************************************)
EXTENDS Page, FiniteSetTheorems, WellFoundedInduction, TLAPS

-----------------------------------------------------------------------------
(* Docker tables.                                                          *)

\* What the panel is given.
LEMMA TablesGiven ==
  /\ IsFiniteSet(Containers) /\ Containers # {}
  /\ PageSize \in Nat \ {0}
  /\ MaxActions \in Nat
BY PageAssumption

\* Answers whose page is one of the pages they count.
TableAnswers == {a \in Tables!Answers : a.pages > 0 => a.page <= a.pages}

\* Requests for a page of the containers.
ListRequests ==
  [ask : {"list"}, chain : BOOLEAN, filter : Tables!Filters, page : Tables!Pages \ {0},
   newest : BOOLEAN, answer : {Tables!NoAnswer} \cup TableAnswers]

\* Requests for the images.
ImageRequests == [ask : {"images"}, answer : SUBSET Images, made : BOOLEAN]

\* Actions on containers or images.
ActRequests ==
  [ask : {"act", "actAll", "actImages"}, ids : SUBSET (Containers \cup Images), remove : BOOLEAN, done : BOOLEAN]

\* What a slot of the panel may hold.
TableRequests ==
  {Tables!Unused} \cup [ask : {"status"}] \cup ImageRequests \cup ListRequests \cup ActRequests

\* The state of the panel that the page keeps.
TableViews ==
  [tab : {"containers", "images"}, filter : Tables!Filters, search : BOOLEAN,
   page : Tables!Pages \ {0}, pages : Tables!Pages, items : SUBSET Containers, images : SUBSET Images,
   picked : SUBSET Containers, pickedImages : SUBSET Images]

\* The ticks are on rows that are shown, and the page is one there is.
TableInv(d) ==
  /\ d \in TableViews
  /\ d.picked \subseteq d.items
  /\ d.pickedImages \subseteq d.images
  /\ d.pages > 0 => d.page <= d.pages

\* The newest request asks for what the boxes say, unless a search waits.
Fits(q, d) == q.ask = "list" /\ q.newest /\ ~d.search => q.filter = d.filter

\* The inductive invariant of the panel.
TablesInv ==
  /\ TableInv(view)
  /\ flight \in [Slots -> TableRequests]
  /\ \A s \in Slots : Fits(flight[s], view)
  /\ server \in [containers : SUBSET Containers, images : SUBSET Images]
  /\ extra \in [newest : BOOLEAN, filter : Tables!Filters, actions : 0 .. MaxActions]
  /\ extra.newest /\ ~view.search => extra.filter = view.filter

\* The invariant implies the types and the properties of the panel.
LEMMA TablesMean == TablesInv => Tables!TypeOK /\ Tables!TickedIsShown /\ Tables!TableAgrees
<1> SUFFICES ASSUME TablesInv PROVE Tables!TypeOK /\ Tables!TickedIsShown /\ Tables!TableAgrees
  OBVIOUS
<1>1. Tables!TickedIsShown /\ Tables!TableAgrees
  BY DEF TablesInv, TableInv, Tables!TickedIsShown, Tables!TableAgrees
<1>2. TableRequests \subseteq
        {Tables!Unused} \cup [ask : {"status"}] \cup [ask : {"images"}, answer : SUBSET Images, made : BOOLEAN]
        \cup [ask : {"list"}, chain : BOOLEAN, filter : Tables!Filters, page : Tables!Pages \ {0},
              newest : BOOLEAN, answer : {Tables!NoAnswer} \cup Tables!Answers]
        \cup [ask : {"act", "actAll", "actImages"}, ids : SUBSET (Containers \cup Images),
              remove : BOOLEAN, done : BOOLEAN]
  BY DEF TableRequests, ListRequests, ImageRequests, ActRequests, TableAnswers
<1> QED
  BY <1>1, <1>2 DEF TablesInv, TableInv, TableViews, Tables!TypeOK

\* A request takes a free slot and leaves the others.
LEMMA TablesSend ==
  ASSUME NEW fl \in [Slots -> TableRequests], NEW q \in TableRequests
  PROVE  /\ Tables!Send(fl, q) \in [Slots -> TableRequests]
         /\ \A s \in Slots : Tables!Send(fl, q)[s] = fl[s] \/ Tables!Send(fl, q)[s] = q
BY DEF Tables!Send

\* The panel counts as the page does.
LEMMA TablesCount == \A S : Tables!Cardinality(S) = Cardinality(S)
BY DEF Tables!Cardinality, Cardinality

\* A page number: there is a first page, and the pages of what is found are
\* not more than the containers.
LEMMA PageNumbers ==
  /\ Cardinality(Containers) \in Nat \ {0}
  /\ Tables!Pages = 0 .. Cardinality(Containers) /\ 1 \in Tables!Pages \ {0}
<1>1. Cardinality(Containers) \in Nat /\ Cardinality(Containers) # 0
  BY TablesGiven, FS_CardinalityType, FS_EmptySet
<1>2. PICK n \in Nat : n = Cardinality(Containers) /\ n # 0
  BY <1>1
<1>3. 1 \in (0 .. n) \ {0}
  BY <1>2
<1>4. Tables!Pages = 0 .. Cardinality(Containers)
  BY TablesCount DEF Tables!Pages
<1>5. 1 \in Tables!Pages \ {0}
  BY <1>2, <1>3, <1>4
<1> QED
  BY <1>1, <1>4, <1>5

\* The number of pages.
LEMMA PagesOf ==
  ASSUME NEW n \in Nat, NEW p \in Nat \ {0}
  PROVE  (n + p - 1) \div p \in 0 .. n
<1>1. n = 0 => (n + p - 1) \div p = 0
  OBVIOUS
<1>2. CASE n > 0
  <2>1. PICK m \in Nat, r \in Nat : n = m + 1 /\ p = r + 1
    <3>1. n - 1 \in Nat /\ n = (n - 1) + 1 /\ p - 1 \in Nat /\ p = (p - 1) + 1
      BY <1>2
    <3> QED
      BY <3>1
  <2>2. m * r \in Nat /\ n * p = m * r + m + r + 1
    BY <2>1
  <2>3. n + p - 1 <= n * p
    BY <2>1, <2>2
  <2> QED
    BY <1>2, <2>3
<1> QED
  BY <1>1, <1>2

\* What the server answers.
LEMMA PageAnswered == ASSUME NEW q \in ListRequests, server \in [containers : SUBSET Containers, images : SUBSET Images]
  PROVE Tables!Page(q) \in TableAnswers
<1> DEFINE found == server.containers \cap TableMatching[q.filter]
           pages == (Tables!Cardinality(found) + PageSize - 1) \div PageSize
           page == Tables!Clamped(q.page, pages)
<1>1. found \in SUBSET Containers
  OBVIOUS
<1>2. Cardinality(found) \in 0 .. Cardinality(Containers)
  BY TablesGiven, <1>1, FS_Subset, FS_CardinalityType
<1> HIDE DEF found
<1>3. pages \in Tables!Pages
  <2>1. pages \in 0 .. Cardinality(found)
    BY TablesGiven, <1>2, PagesOf, TablesCount
  <2> HIDE DEF pages
  <2> QED
    BY <1>2, <2>1, PageNumbers
<1> HIDE DEF pages
<1>4. q.page \in Tables!Pages \ {0}
  BY DEF ListRequests
<1>5. page \in Tables!Pages \ {0} /\ (pages > 0 => page <= pages)
  BY <1>3, <1>4, PageNumbers DEF Tables!Clamped
<1> HIDE DEF page
<1> DEFINE items == {c \in found : Tables!Cardinality({d \in found : d < c}) \div PageSize = page - 1}
<1>6. items \in SUBSET Containers
  BY <1>1
<1>7. Tables!Page(q) = [items |-> items, page |-> page, pages |-> pages]
  BY Zenon DEF Tables!Page, found, pages, page, items
<1> HIDE DEF items
<1> QED
  BY <1>3, <1>5, <1>6, <1>7 DEF TableAnswers, Tables!Answers

\* A request for the list is the newest, and asks for what the boxes say.
LEMMA ListKeeps ==
  ASSUME TablesInv, NEW d, TableInv(d), NEW fl \in [Slots -> TableRequests], NEW chain \in BOOLEAN,
         Tables!List(d, fl, chain), server' = server
  PROVE  TablesInv'
<1> DEFINE q == [ask |-> "list", chain |-> chain, filter |-> d.filter, page |-> d.page,
                 newest |-> TRUE, answer |-> Tables!NoAnswer]
           old == Tables!Aged(fl)
<1>1. view' = d /\ flight' = Tables!Send(old, q) /\ extra' = [extra EXCEPT !.newest = FALSE]
  BY DEF Tables!List
<1>2. q \in TableRequests /\ q.filter = d.filter
  BY DEF TableInv, TableViews, TableRequests, ListRequests
<1>3. ASSUME NEW s \in Slots PROVE old[s] \in TableRequests /\ (old[s].ask = "list" => ~old[s].newest)
  <2>1. CASE fl[s].ask = "list"
    <3>1. fl[s] \in ListRequests
      BY <2>1 DEF TableRequests, ImageRequests, ActRequests, Tables!Unused
    <3>2. [fl[s] EXCEPT !.newest = FALSE] \in ListRequests
      BY <3>1 DEF ListRequests
    <3>3. ~[fl[s] EXCEPT !.newest = FALSE].newest
      BY <3>1 DEF ListRequests
    <3> QED
      BY <2>1, <3>2, <3>3 DEF Tables!Aged, TableRequests
  <2>2. CASE fl[s].ask # "list"
    BY <2>2 DEF Tables!Aged
  <2> QED
    BY <2>1, <2>2
<1>4. old \in [Slots -> TableRequests]
  BY <1>3 DEF Tables!Aged
<1> HIDE DEF q, old
<1>5. /\ Tables!Send(old, q) \in [Slots -> TableRequests]
      /\ \A s \in Slots : Tables!Send(old, q)[s] = old[s] \/ Tables!Send(old, q)[s] = q
  BY <1>2, <1>4, TablesSend
<1>6. \A s \in Slots : Fits(flight'[s], view')
  BY <1>1, <1>2, <1>3, <1>5 DEF Fits
<1>7. extra' \in [newest : BOOLEAN, filter : Tables!Filters, actions : 0 .. MaxActions] /\ ~extra'.newest
  BY <1>1 DEF TablesInv
<1> QED
  BY <1>1, <1>5, <1>6, <1>7 DEF TablesInv

\* Every other step leaves the filter, or a search waits after it.
LEMMA OtherKeeps ==
  ASSUME TablesInv, NEW d, TableInv(d), view.search => d.search, d.search \/ d.filter = view.filter,
         view' = d, flight' \in [Slots -> TableRequests],
         \A s \in Slots : flight'[s] = flight[s] \/ flight'[s].ask # "list",
         server' \in [containers : SUBSET Containers, images : SUBSET Images],
         extra' \in [newest : BOOLEAN, filter : Tables!Filters, actions : 0 .. MaxActions],
         extra'.newest => extra.newest /\ extra'.filter = extra.filter
  PROVE  TablesInv'
BY DEF TablesInv, Fits

\* A request that is over leaves the others.
LEMMA TablesOver ==
  ASSUME TablesInv, NEW s \in Slots
  PROVE  /\ Tables!Over(flight, s) \in [Slots -> TableRequests]
         /\ \A t \in Slots : Tables!Over(flight, s)[t] = flight[t] \/ Tables!Over(flight, s)[t].ask # "list"
<1>1. flight \in [Slots -> TableRequests] /\ Tables!Unused \in TableRequests /\ Tables!Unused.ask # "list"
  BY DEF TablesInv, TableRequests, Tables!Unused
<1> QED
  BY <1>1 DEF Tables!Over

\* What is sent and is not a request for the list leaves those there are.
LEMMA OtherSent ==
  ASSUME TablesInv, NEW fl \in [Slots -> TableRequests],
         \A t \in Slots : fl[t] = flight[t] \/ fl[t].ask # "list",
         NEW q \in TableRequests, q.ask # "list"
  PROVE  /\ Tables!Send(fl, q) \in [Slots -> TableRequests]
         /\ \A t \in Slots : Tables!Send(fl, q)[t] = flight[t] \/ Tables!Send(fl, q)[t].ask # "list"
BY TablesSend

\* The ticks that are kept, and what the page shows of an answer.
LEMMA ListedKeeps ==
  ASSUME TableInv(view), NEW a \in TableAnswers
  PROVE  /\ TableInv(Tables!Listed(view, a))
         /\ Tables!Listed(view, a).search = view.search /\ Tables!Listed(view, a).filter = view.filter
<1> DEFINE d == Tables!Listed(view, a)
<1>1. view \in TableViews /\ a \in Tables!Answers /\ (a.pages > 0 => a.page <= a.pages)
  BY DEF TableInv, TableAnswers
<1>2. view.pickedImages \subseteq view.images
  BY DEF TableInv
<1>3. d \in TableViews
  BY <1>1 DEF TableViews, Tables!Answers, Tables!Listed, Tables!StillTicked
<1>4. d.picked = view.picked \cap a.items /\ d.items = a.items /\ d.page = a.page /\ d.pages = a.pages
      /\ d.pickedImages = view.pickedImages /\ d.images = view.images /\ d.filter = view.filter
  BY <1>1 DEF TableViews, Tables!Listed, Tables!StillTicked
<1>5. d.search = view.search
  BY <1>1 DEF TableViews, Tables!Listed
<1> HIDE DEF d
<1>6. d.picked \subseteq d.items /\ d.pickedImages \subseteq d.images
  BY <1>2, <1>4
<1>7. d.pages > 0 => d.page <= d.pages
  BY <1>1, <1>4
<1>8. TableInv(d)
  BY <1>3, <1>6, <1>7 DEF TableInv
<1> QED
  BY <1>4, <1>5, <1>8 DEF d

\* A dashboard that goes on.
LEMMA ContinueKeeps ==
  ASSUME TablesInv, NEW s \in Slots, flight[s].ask = "list", NEW d, TableInv(d),
         d.search = view.search, d.filter = view.filter,
         NEW newest \in BOOLEAN, NEW filter \in Tables!Filters,
         Tables!Continue(d, s, newest, filter), server' = server,
         newest /\ ~d.search => filter = d.filter
  PROVE  TablesInv'
<1> DEFINE q == [ask |-> "images", answer |-> {}, made |-> FALSE]
<1>1. /\ view' = d
      /\ extra' = [extra EXCEPT !.newest = newest, !.filter = filter]
      /\ flight' = [flight EXCEPT ![s] = q] \/ flight' = Tables!Over(flight, s)
  BY DEF Tables!Continue
<1>2. extra \in [newest : BOOLEAN, filter : Tables!Filters, actions : 0 .. MaxActions]
  BY DEF TablesInv
<1>3. extra' \in [newest : BOOLEAN, filter : Tables!Filters, actions : 0 .. MaxActions]
  BY <1>1, <1>2
<1>4. extra'.newest = newest /\ extra'.filter = filter
  BY <1>1, <1>2
<1>5. q \in TableRequests /\ q.ask # "list"
  BY DEF TableRequests, ImageRequests
<1> HIDE DEF q
<1>6. flight \in [Slots -> TableRequests]
  BY DEF TablesInv
<1>7. /\ flight' \in [Slots -> TableRequests]
      /\ \A t \in Slots : flight'[t] = flight[t] \/ flight'[t].ask # "list"
  BY <1>1, <1>5, <1>6, TablesOver
<1> QED
  BY <1>1, <1>3, <1>4, <1>7 DEF TablesInv, Fits

\* Every step of the tables keeps it.
LEMMA TablesSteps == TablesInv /\ Tables!Next => TablesInv'
<1> SUFFICES ASSUME TablesInv, Tables!Next PROVE TablesInv'
  OBVIOUS
<1>0. /\ TableInv(view) /\ view \in TableViews /\ view.search \in BOOLEAN /\ view.filter \in Tables!Filters
      /\ view.picked \subseteq view.items /\ view.pickedImages \subseteq view.images
      /\ (view.pages > 0 => view.page <= view.pages)
  BY DEF TablesInv, TableInv, TableViews
<1>1. flight \in [Slots -> TableRequests]
  BY DEF TablesInv
<1>2. server \in [containers : SUBSET Containers, images : SUBSET Images]
  BY DEF TablesInv
<1>3. extra \in [newest : BOOLEAN, filter : Tables!Filters, actions : 0 .. MaxActions]
  BY DEF TablesInv
<1>4. PICK n \in Nat \ {0} : Tables!Pages = 0 .. n /\ n = Tables!Cardinality(Containers)
  BY PageNumbers, TablesCount
\* Steps that do not ask for the list.
<1>a. ASSUME NEW d, TableInv(d), view.search => d.search, d.search \/ d.filter = view.filter,
             NEW fl \in [Slots -> TableRequests],
             \A t \in Slots : fl[t] = flight[t] \/ fl[t].ask # "list",
             view' = d, flight' = fl, UNCHANGED <<server, extra>>
      PROVE  TablesInv'
  BY <1>a, <1>2, <1>3, OtherKeeps
<1>b. ASSUME NEW d, TableInv(d), view.search => d.search, d.search \/ d.filter = view.filter,
             Tables!Idles(d, flight), UNCHANGED server
      PROVE  TablesInv'
  BY <1>1, <1>a, <1>b DEF Tables!Idles
<1>c. ASSUME NEW d, TableInv(d), view.search => d.search, d.filter = view.filter,
             NEW fl \in [Slots -> TableRequests],
             \A t \in Slots : fl[t] = flight[t] \/ fl[t].ask # "list",
             Tables!Dashboard(d, fl), UNCHANGED server
      PROVE  TablesInv'
  <2>1. [ask |-> "status"] \in TableRequests /\ [ask |-> "status"].ask # "list"
    BY DEF TableRequests
  <2> QED
    BY <2>1, <1>a, <1>c, OtherSent DEF Tables!Dashboard
<1>d. ASSUME NEW d, TableInv(d), view.search => d.search, d.filter = view.filter,
             NEW fl \in [Slots -> TableRequests],
             \A t \in Slots : fl[t] = flight[t] \/ fl[t].ask # "list",
             Tables!AskImages(d, fl), UNCHANGED server
      PROVE  TablesInv'
  <2> DEFINE q == [ask |-> "images", answer |-> {}, made |-> FALSE]
  <2>1. q \in TableRequests /\ q.ask # "list"
    BY DEF TableRequests, ImageRequests
  <2>2. view' = d /\ flight' = Tables!Send(fl, q) /\ extra' = extra
    BY <1>d DEF Tables!AskImages
  <2> HIDE DEF q
  <2> QED
    BY <2>1, <2>2, <1>a, <1>d, OtherSent
\* The boxes.
<1>5. ASSUME Tables!Tick, UNCHANGED server PROVE TablesInv'
  <2>1. ASSUME NEW c \in view.items, Tables!Idles([view EXCEPT !.picked = Tables!SymDiff(@, {c})], flight)
        PROVE  TablesInv'
    <3> DEFINE d == [view EXCEPT !.picked = Tables!SymDiff(@, {c})]
    <3>1. Tables!SymDiff(view.picked, {c}) \subseteq view.items
      BY <1>0 DEF Tables!SymDiff
    <3>2. d \in TableViews
      BY <1>0, <3>1 DEF TableViews
    <3>3. d.items = view.items /\ d.picked = Tables!SymDiff(view.picked, {c}) /\ d.images = view.images
          /\ d.pickedImages = view.pickedImages /\ d.page = view.page /\ d.pages = view.pages /\ d.filter = view.filter
      BY <1>0 DEF TableViews
    <3>4. d.search = view.search
      BY <1>0 DEF TableViews
    <3> HIDE DEF d
    <3>5. TableInv(d)
      BY <1>0, <3>1, <3>2, <3>3 DEF TableInv
    <3> QED
      BY <1>5, <1>b, <2>1, <3>3, <3>4, <3>5 DEF d
  <2>2. ASSUME NEW c \in view.images, Tables!Idles([view EXCEPT !.pickedImages = Tables!SymDiff(@, {c})], flight)
        PROVE  TablesInv'
    <3> DEFINE d == [view EXCEPT !.pickedImages = Tables!SymDiff(@, {c})]
    <3>1. Tables!SymDiff(view.pickedImages, {c}) \subseteq view.images
      BY <1>0 DEF Tables!SymDiff
    <3>2. d \in TableViews
      BY <1>0, <3>1 DEF TableViews
    <3>3. d.images = view.images /\ d.pickedImages = Tables!SymDiff(view.pickedImages, {c}) /\ d.items = view.items
          /\ d.picked = view.picked /\ d.page = view.page /\ d.pages = view.pages /\ d.filter = view.filter
      BY <1>0 DEF TableViews
    <3>4. d.search = view.search
      BY <1>0 DEF TableViews
    <3> HIDE DEF d
    <3>5. TableInv(d)
      BY <1>0, <3>1, <3>2, <3>3 DEF TableInv
    <3> QED
      BY <1>5, <1>b, <2>2, <3>3, <3>4, <3>5 DEF d
  <2> QED
    BY <1>5, <2>1, <2>2 DEF Tables!Tick
<1>6. ASSUME NEW f \in Tables!Filters, Tables!Type(f), UNCHANGED server PROVE TablesInv'
  <2> DEFINE d == [view EXCEPT !.filter = f, !.search = TRUE]
  <2>1. d \in TableViews
    BY <1>0 DEF TableViews
  <2>2. d.items = view.items /\ d.picked = view.picked /\ d.images = view.images
        /\ d.pickedImages = view.pickedImages /\ d.page = view.page /\ d.pages = view.pages
    BY <1>0 DEF TableViews
  <2>3. d.search
    BY <1>0 DEF TableViews
  <2>4. Tables!Idles(d, flight)
    BY <1>6 DEF Tables!Type
  <2> HIDE DEF d
  <2>5. TableInv(d)
    BY <1>0, <2>1, <2>2 DEF TableInv
  <2> QED
    BY <1>6, <1>b, <2>3, <2>4, <2>5
\* The first page, of some filter.
<1>7. ASSUME NEW d, TableInv(d), NEW p \in Tables!Pages \ {0}, NEW f \in Tables!Filters, NEW b \in BOOLEAN,
             d.pages > 0 => p <= d.pages
      PROVE  /\ TableInv([d EXCEPT !.page = p])
             /\ TableInv([d EXCEPT !.filter = f, !.page = p])
             /\ TableInv([d EXCEPT !.search = b, !.page = p])
             /\ [d EXCEPT !.page = p].filter = d.filter /\ [d EXCEPT !.page = p].search = d.search
  <2>1. d \in TableViews
    BY <1>7 DEF TableInv
  <2>2. /\ [d EXCEPT !.page = p] \in TableViews
        /\ [d EXCEPT !.filter = f, !.page = p] \in TableViews
        /\ [d EXCEPT !.search = b, !.page = p] \in TableViews
    BY <1>7, <2>1 DEF TableViews
  <2>3. [d EXCEPT !.page = p].search = d.search /\ [d EXCEPT !.page = p].filter = d.filter
    BY <2>1 DEF TableViews
  <2>4. d.picked \subseteq d.items /\ d.pickedImages \subseteq d.images
    BY <1>7 DEF TableInv
  <2>5. ASSUME NEW e \in TableViews, e.items = d.items, e.picked = d.picked, e.images = d.images,
               e.pickedImages = d.pickedImages, e.pages = d.pages, e.page = p
        PROVE  TableInv(e)
    BY <1>7, <2>4, <2>5 DEF TableInv
  <2>6. TableInv([d EXCEPT !.page = p])
    BY <2>1, <2>2, <2>5 DEF TableViews
  <2>7. TableInv([d EXCEPT !.filter = f, !.page = p])
    BY <2>1, <2>2, <2>5 DEF TableViews
  <2>8. TableInv([d EXCEPT !.search = b, !.page = p])
    BY <2>1, <2>2, <2>5 DEF TableViews
  <2> QED
    BY <2>3, <2>6, <2>7, <2>8
<1>8. 1 \in Tables!Pages \ {0} /\ (view.pages > 0 => 1 <= view.pages)
  BY <1>0, <1>4 DEF TableViews
<1>9. ASSUME Tables!Refresh, UNCHANGED server PROVE TablesInv'
  <2> DEFINE d == [view EXCEPT !.page = 1]
  <2>1. TableInv(d) /\ d.filter = view.filter /\ d.search = view.search
    BY <1>0, <1>7, <1>8
  <2>2. Tables!Dashboard(d, flight)
    BY <1>9 DEF Tables!Refresh
  <2> HIDE DEF d
  <2> QED
    BY <1>1, <1>9, <1>c, <2>1, <2>2
<1>10. ASSUME Tables!Enter, UNCHANGED server PROVE TablesInv'
  BY <1>0, <1>1, <1>10, <1>c, ListKeeps DEF Tables!Enter
<1>11. ASSUME Tables!SearchFires, UNCHANGED server PROVE TablesInv'
  <2>1. TableInv([view EXCEPT !.search = FALSE, !.page = 1])
    BY <1>0, <1>7, <1>8
  <2> QED
    BY <1>1, <1>11, <2>1, ListKeeps DEF Tables!SearchFires
<1>12. ASSUME Tables!Turn, UNCHANGED server PROVE TablesInv'
  <2>1. ASSUME NEW p \in Tables!Pages \ {0}, view.pages > 0 => p <= view.pages,
               Tables!List([view EXCEPT !.page = p], flight, FALSE)
        PROVE  TablesInv'
    <3>1. TableInv([view EXCEPT !.page = p])
      BY <1>0, <1>7, <2>1
    <3> QED
      BY <1>1, <1>12, <2>1, <3>1, ListKeeps
  <2>2. view.page \in Int /\ view.page > 0 /\ view.page <= n /\ view.pages \in Int
    BY <1>0, <1>4 DEF TableViews
  <2>3. CASE /\ Tables!HasNext(view) /\ view.page < n
             /\ Tables!List([view EXCEPT !.page = view.page + 1], flight, FALSE)
    <3>1. view.page + 1 \in Tables!Pages \ {0} /\ view.page + 1 <= view.pages
      BY <1>4, <2>2, <2>3 DEF Tables!HasNext
    <3> QED
      BY <2>1, <2>3, <3>1
  <2>4. CASE view.page > 1 /\ Tables!List([view EXCEPT !.page = view.page - 1], flight, FALSE)
    <3>1. view.page - 1 \in Tables!Pages \ {0} /\ (view.pages > 0 => view.page - 1 <= view.pages)
      BY <1>0, <1>4, <2>2, <2>4
    <3> QED
      BY <2>1, <2>4, <3>1
  <2> QED
    BY <1>4, <1>12, <2>3, <2>4 DEF Tables!Turn
<1>13. ASSUME NEW f \in Tables!Filters, Tables!Select(f), UNCHANGED server PROVE TablesInv'
  <2>1. TableInv([view EXCEPT !.filter = f, !.page = 1])
    BY <1>0, <1>7, <1>8
  <2> QED
    BY <1>1, <1>13, <2>1, ListKeeps DEF Tables!Select
<1>14. ASSUME NEW tab \in {"containers", "images"}, Tables!SwitchTab(tab), UNCHANGED server PROVE TablesInv'
  <2> DEFINE d == [view EXCEPT !.tab = tab]
  <2>1. d \in TableViews
    BY <1>0 DEF TableViews
  <2>2. d.items = view.items /\ d.picked = view.picked /\ d.images = view.images /\ d.filter = view.filter
        /\ d.pickedImages = view.pickedImages /\ d.page = view.page /\ d.pages = view.pages
    BY <1>0 DEF TableViews
  <2>3. d.search = view.search
    BY <1>0 DEF TableViews
  <2>4. Tables!AskImages(d, flight) \/ Tables!Idles(d, flight)
    BY <1>14 DEF Tables!SwitchTab
  <2> HIDE DEF d
  <2>5. TableInv(d)
    BY <1>0, <2>1, <2>2 DEF TableInv
  <2> QED
    BY <1>1, <1>14, <1>b, <1>d, <2>2, <2>3, <2>4, <2>5
\* The actions.
<1>15. ASSUME NEW q \in ActRequests, Tables!Act(q), UNCHANGED server PROVE TablesInv'
  <2>1. q \in TableRequests /\ q.ask # "list"
    BY DEF TableRequests, ActRequests
  <2>2. view' = view /\ flight' = Tables!Send(flight, q) /\ extra' = [extra EXCEPT !.actions = @ + 1]
        /\ extra.actions < MaxActions
    BY <1>15 DEF Tables!Act
  <2>3. extra' \in [newest : BOOLEAN, filter : Tables!Filters, actions : 0 .. MaxActions]
    BY <1>3, <2>2, TablesGiven
  <2>4. extra'.newest = extra.newest /\ extra'.filter = extra.filter
    BY <1>3, <2>2
  <2>5. /\ flight' \in [Slots -> TableRequests]
        /\ \A t \in Slots : flight'[t] = flight[t] \/ flight'[t].ask # "list"
    BY <1>1, <2>1, <2>2, OtherSent
  <2> QED
    BY <1>0, <1>2, <1>15, <2>2, <2>3, <2>4, <2>5, OtherKeeps
<1>16. ASSUME Tables!Batch, UNCHANGED server PROVE TablesInv'
  <2>1. view.picked \in SUBSET (Containers \cup Images) /\ view.pickedImages \in SUBSET (Containers \cup Images)
    BY <1>0 DEF TableViews
  <2>2. Tables!Batches(view) \subseteq ActRequests
    <3>1. CASE view.tab = "images"
      <4>1. Tables!Batches(view) = {[ask |-> "actImages", ids |-> view.pickedImages, remove |-> TRUE, done |-> FALSE]}
        BY <3>1 DEF Tables!Batches
      <4> QED
        BY <2>1, <4>1 DEF ActRequests
    <3>2. CASE view.tab # "images"
      <4>1. Tables!Batches(view) =
              {[ask |-> "actAll", ids |-> view.picked, remove |-> remove, done |-> FALSE] : remove \in BOOLEAN}
        BY <3>2 DEF Tables!Batches
      <4>2. \A remove \in BOOLEAN :
              [ask |-> "actAll", ids |-> view.picked, remove |-> remove, done |-> FALSE] \in ActRequests
        BY <2>1 DEF ActRequests
      <4> QED
        BY <4>1, <4>2
    <3> QED
      BY <3>1, <3>2
  <2> QED
    BY <1>15, <1>16, <2>2 DEF Tables!Batch
<1>17. ASSUME Tables!ActOnRow, UNCHANGED server PROVE TablesInv'
  <2>1. \A c \in view.items, remove \in BOOLEAN :
          [ask |-> "act", ids |-> {c}, remove |-> remove, done |-> FALSE] \in ActRequests
    BY <1>0 DEF TableViews, ActRequests
  <2> QED
    BY <1>15, <1>17, <2>1 DEF Tables!ActOnRow
\* The server.
<1>18. ASSUME NEW s \in Slots, Tables!Serve(s) PROVE TablesInv'
  <2>1. view' = view /\ extra' = extra
    BY <1>18 DEF Tables!Serve
  <2>2. ASSUME NEW q \in TableRequests, q.ask = flight[s].ask,
               q.ask = "list" => q.newest = flight[s].newest /\ q.filter = flight[s].filter,
               flight' = [flight EXCEPT ![s] = q], server' \in [containers : SUBSET Containers, images : SUBSET Images]
        PROVE  TablesInv'
    <3>1. flight' \in [Slots -> TableRequests]
      BY <1>1, <2>2
    <3>2. \A t \in Slots : Fits(flight'[t], view')
      BY <1>1, <2>1, <2>2 DEF TablesInv, Fits
    <3> QED
      BY <2>1, <2>2, <3>1, <3>2 DEF TablesInv
  <2>3. CASE /\ flight[s].ask = "list"
             /\ flight' = [flight EXCEPT ![s].answer = Tables!Page(flight[s])]
             /\ UNCHANGED server
    <3>1. flight[s] \in ListRequests
      BY <1>1, <2>3 DEF TableRequests, ImageRequests, ActRequests, Tables!Unused
    <3>2. PICK a \in TableAnswers : a = Tables!Page(flight[s])
      BY <1>2, <3>1, PageAnswered
    <3> DEFINE q == [flight[s] EXCEPT !.answer = a]
    <3>3. q \in ListRequests
      BY <3>1 DEF ListRequests
    <3>4. q.ask = flight[s].ask /\ q.filter = flight[s].filter
      BY <3>1 DEF ListRequests
    <3>5. q.newest = flight[s].newest
      BY <3>1 DEF ListRequests
    <3>6. flight' = [flight EXCEPT ![s] = q]
      BY <1>1, <2>3, <3>2
    <3>7. q \in TableRequests
      BY <3>3 DEF TableRequests
    <3> HIDE DEF q
    <3> QED
      BY <1>2, <2>2, <2>3, <3>4, <3>5, <3>6, <3>7
  <2>4. CASE /\ flight[s].ask = "images"
             /\ flight' = [flight EXCEPT ![s].answer = server.images, ![s].made = TRUE]
             /\ UNCHANGED server
    <3>1. flight[s] \in ImageRequests
      BY <1>1, <2>4 DEF TableRequests, ListRequests, ActRequests, Tables!Unused
    <3> DEFINE q == [flight[s] EXCEPT !.answer = server.images, !.made = TRUE]
    <3>2. q \in ImageRequests /\ q.ask = "images"
      BY <1>2, <3>1 DEF ImageRequests
    <3>3. flight' = [flight EXCEPT ![s] = q]
      BY <1>1, <2>4
    <3>4. q \in TableRequests
      BY <3>2 DEF TableRequests
    <3> HIDE DEF q
    <3> QED
      BY <1>2, <2>2, <2>4, <3>2, <3>3, <3>4
  <2>5. CASE /\ flight[s].ask \in {"act", "actAll", "actImages"}
             /\ flight' = [flight EXCEPT ![s].done = TRUE]
             /\ server' = IF flight[s].remove
                     THEN [containers |-> server.containers \ flight[s].ids,
                           images |-> server.images \ flight[s].ids]
                     ELSE server
    <3>1. flight[s] \in ActRequests
      BY <1>1, <2>5 DEF TableRequests, ListRequests, ImageRequests, Tables!Unused
    <3> DEFINE q == [flight[s] EXCEPT !.done = TRUE]
    <3>2. q \in ActRequests /\ q.ask = flight[s].ask /\ q.ask # "list"
      BY <3>1 DEF ActRequests
    <3>3. flight' = [flight EXCEPT ![s] = q]
      BY <1>1, <2>5
    <3>4. q \in TableRequests
      BY <3>2 DEF TableRequests
    <3>5. server' \in [containers : SUBSET Containers, images : SUBSET Images]
      BY <1>2, <2>5
    <3> HIDE DEF q
    <3> QED
      BY <2>2, <3>2, <3>3, <3>4, <3>5
  <2> QED
    BY <1>18, <2>3, <2>4, <2>5 DEF Tables!Serve
\* The answers.
<1>19. ASSUME NEW s \in Slots, Tables!ListArrives(s) PROVE TablesInv'
  <2>1. flight[s] \in ListRequests /\ flight[s].ask = "list"
    BY <1>1, <1>19 DEF Tables!ListArrives, TableRequests, ImageRequests, ActRequests, Tables!Unused
  <2>2. PICK a \in TableAnswers : a = flight[s].answer
    BY <1>19, <2>1 DEF Tables!ListArrives, ListRequests
  <2>3. PICK d : d = Tables!Listed(view, a)
    OBVIOUS
  <2>4. TableInv(d) /\ d.search = view.search /\ d.filter = view.filter
    BY <1>0, <2>3, ListedKeeps
  <2>5. flight[s].newest \in BOOLEAN /\ flight[s].filter \in Tables!Filters
    BY <2>1 DEF ListRequests
  <2>6. flight[s].newest /\ ~d.search => flight[s].filter = d.filter
    BY <2>1, <2>4 DEF TablesInv, Fits
  <2>7. Tables!Continue(d, s, flight[s].newest, flight[s].filter) /\ server' = server
    BY <1>19, <2>2, <2>3 DEF Tables!ListArrives
  <2> QED
    BY <2>1, <2>4, <2>5, <2>6, <2>7, ContinueKeeps
<1>20. ASSUME NEW s \in Slots, Tables!ImagesArrive(s) PROVE TablesInv'
  <2>1. flight[s] \in ImageRequests
    BY <1>1, <1>20 DEF Tables!ImagesArrive, TableRequests, ListRequests, ActRequests, Tables!Unused
  <2>2. PICK a \in SUBSET Images : a = flight[s].answer
    BY <2>1 DEF ImageRequests
  <2> DEFINE d == [view EXCEPT !.images = a, !.pickedImages = Tables!StillTicked(@, a)]
  <2>3. d \in TableViews
    BY <1>0 DEF TableViews, Tables!StillTicked
  <2>4. d.images = a /\ d.pickedImages = view.pickedImages \cap a /\ d.items = view.items /\ d.picked = view.picked
        /\ d.page = view.page /\ d.pages = view.pages /\ d.filter = view.filter
    BY <1>0 DEF TableViews, Tables!StillTicked
  <2>5. d.search = view.search
    BY <1>0 DEF TableViews
  <2>6. view' = d /\ flight' = Tables!Over(flight, s) /\ UNCHANGED <<server, extra>>
    BY <1>20, <2>2 DEF Tables!ImagesArrive, Tables!Idles
  <2> HIDE DEF d
  <2>7. TableInv(d)
    BY <1>0, <2>3, <2>4 DEF TableInv
  <2> QED
    BY <1>a, <2>4, <2>5, <2>6, <2>7, TablesOver
<1>21. ASSUME NEW s \in Slots, Tables!StatusEnds(s) PROVE TablesInv'
  BY <1>0, <1>21, ListKeeps, TablesOver DEF Tables!StatusEnds
<1>22. ASSUME NEW s \in Slots, Tables!Fails(s) PROVE TablesInv'
  <2>1. CASE flight[s].ask = "list" /\ Tables!Continue(view, s, extra.newest, extra.filter)
    <3>1. extra.newest \in BOOLEAN /\ extra.filter \in Tables!Filters
      BY <1>3
    <3>2. extra.newest /\ ~view.search => extra.filter = view.filter
      BY DEF TablesInv
    <3>3. server' = server
      BY <1>22 DEF Tables!Fails
    <3> QED
      BY <1>0, <2>1, <3>1, <3>2, <3>3, ContinueKeeps
  <2>2. CASE Tables!Idles(view, Tables!Over(flight, s)) /\ server' = server
    BY <1>0, <1>a, <2>2, TablesOver DEF Tables!Idles
  <2> QED
    BY <1>22, <2>1, <2>2 DEF Tables!Fails
<1>23. ASSUME NEW s \in Slots, Tables!ActedOnRow(s) PROVE TablesInv'
  BY <1>0, <1>23, ListKeeps, TablesOver DEF Tables!ActedOnRow
<1>24. ASSUME NEW s \in Slots, Tables!ActedOnAll(s) PROVE TablesInv'
  BY <1>0, <1>24, <1>c, TablesOver DEF Tables!ActedOnAll
<1>25. ASSUME NEW s \in Slots, Tables!ActedOnImages(s) PROVE TablesInv'
  BY <1>0, <1>25, <1>d, TablesOver DEF Tables!ActedOnImages
<1> QED
  BY <1>5, <1>6, <1>9, <1>10, <1>11, <1>12, <1>13, <1>14, <1>16, <1>17, <1>18, <1>19, <1>20,
     <1>21, <1>22, <1>23, <1>24, <1>25 DEF Tables!Next

\* It holds at the start.
LEMMA TablesStart == Tables!Init => TablesInv
<1> SUFFICES ASSUME Tables!Init PROVE TablesInv
  OBVIOUS
<1>1. PICK f \in Tables!Filters :
        /\ view = [tab |-> "containers", filter |-> f, search |-> FALSE, page |-> 1, pages |-> 0,
                    items |-> {}, images |-> {}, picked |-> {}, pickedImages |-> {}]
        /\ extra = [newest |-> FALSE, filter |-> f, actions |-> 0]
  BY DEF Tables!Init
<1>2. flight = [s \in Slots |-> Tables!Unused] /\ server = [containers |-> Containers, images |-> Images]
  BY DEF Tables!Init, Tables!NoRequests
<1>3. 1 \in Tables!Pages \ {0} /\ 0 \in Tables!Pages
  <2>1. PICK n \in Nat : Tables!Pages = 0 .. n
    BY PageNumbers
  <2> QED
    BY <2>1, PageNumbers
<1>4. view \in TableViews
  BY <1>1, <1>3 DEF TableViews
<1>5. TableInv(view)
  BY <1>1, <1>4 DEF TableInv
<1>6. flight \in [Slots -> TableRequests] /\ \A s \in Slots : Fits(flight[s], view)
  BY <1>2 DEF TableRequests, Fits, Tables!Unused
<1>7. extra \in [newest : BOOLEAN, filter : Tables!Filters, actions : 0 .. MaxActions] /\ ~extra.newest
  BY <1>1, TablesGiven
<1>8. server \in [containers : SUBSET Containers, images : SUBSET Images]
  BY <1>2
<1> QED
  BY <1>5, <1>6, <1>7, <1>8 DEF TablesInv

-----------------------------------------------------------------------------
(* Docker dialogs and the polled log of a container.                       *)

\* What the panel is given.
LEMMA DialogsGiven ==
  MaxDialogs \in Nat /\ None \notin Containers
BY PageAssumption

USE DialogsGiven

\* A request takes a slot that is free.
LEMMA DialogsSend ==
  ASSUME NEW q, Dialogs!Room(flight)
  PROVE  \E t \in Slots : Dialogs!Send(flight, q) = [flight EXCEPT ![t] = q]
BY DEF Dialogs!Room, Dialogs!Send

\* The state of the panel that the page keeps.
DialogsViews ==
  [open : BOOLEAN, shows : {"nothing", "details", "question", "log"}, title : Dialogs!Opt,
   text : Dialogs!Opt, stream : Dialogs!Opt, asking : SUBSET Containers]

\* What a slot of the panel may hold.
DialogsRequests == {Dialogs!Unused} \cup [ask : {"log", "details", "remove"}, id : Containers]

\* The window: nothing is polled behind a closed one, and a question names a container.
WindowInv(d) ==
  /\ d \in DialogsViews
  /\ d.stream # None => d.open
  /\ d.shows = "question" => d.title # None

\* The inductive invariant of the panel.
DialogsInv ==
  /\ WindowInv(view)
  /\ flight \in [Slots -> DialogsRequests]
  /\ server \in 0 .. MaxDialogs
  /\ extra \subseteq Containers
  /\ \A s \in Slots : flight[s].ask = "remove" => flight[s].id \in extra

\* openDockerModal leaves the window open, with what it was to show.
LEMMA OpenModalKeeps ==
  ASSUME NEW d, WindowInv(d), NEW shows \in {"nothing", "details", "question", "log"}, NEW c \in Dialogs!Opt,
         shows = "question" => c # None
  PROVE  /\ WindowInv(Dialogs!OpenModal(d, shows, c))
         /\ Dialogs!OpenModal(d, shows, c).open
<1>1. Dialogs!OpenModal(d, shows, c) \in DialogsViews
  BY DEF WindowInv, Dialogs!OpenModal, DialogsViews, Dialogs!Opt
<1>2. Dialogs!OpenModal(d, shows, c).open
  BY DEF WindowInv, Dialogs!OpenModal, DialogsViews
<1>3. Dialogs!OpenModal(d, shows, c).shows = shows /\ Dialogs!OpenModal(d, shows, c).title = c
  BY DEF WindowInv, Dialogs!OpenModal, DialogsViews
<1> QED
  BY <1>1, <1>2, <1>3 DEF WindowInv

\* Nothing is polled any more.
LEMMA StopStreamKeeps ==
  ASSUME NEW d, WindowInv(d)
  PROVE  /\ WindowInv(Dialogs!StopStream(d)) /\ Dialogs!StopStream(d).stream = None
<1>1. Dialogs!StopStream(d) \in DialogsViews
  BY DEF WindowInv, Dialogs!StopStream, DialogsViews, Dialogs!Opt
<1>2. Dialogs!StopStream(d).stream = None
  BY DEF WindowInv, Dialogs!StopStream, DialogsViews
<1>3. Dialogs!StopStream(d).shows = d.shows /\ Dialogs!StopStream(d).title = d.title
  BY DEF WindowInv, Dialogs!StopStream, DialogsViews
<1> QED
  BY <1>1, <1>2, <1>3 DEF WindowInv

\* The set of open questions may change freely.
LEMMA AskingKeeps ==
  ASSUME NEW d, WindowInv(d), NEW asking \in SUBSET Containers
  PROVE  WindowInv([d EXCEPT !.asking = asking])
<1>1. [d EXCEPT !.asking = asking] \in DialogsViews
  BY DEF WindowInv, DialogsViews
<1>2. [d EXCEPT !.asking = asking].shows = d.shows /\ [d EXCEPT !.asking = asking].title = d.title
      /\ [d EXCEPT !.asking = asking].stream = d.stream
  BY DEF WindowInv, DialogsViews
<1>3. [d EXCEPT !.asking = asking].open = d.open
  BY DEF WindowInv, DialogsViews
<1> QED
  BY <1>1, <1>2, <1>3 DEF WindowInv

\* closeDockerModal: the window is closed and nothing is polled.
LEMMA CloseModalKeeps ==
  ASSUME NEW d, WindowInv(d)
  PROVE  WindowInv(Dialogs!CloseModal(d)) /\ Dialogs!CloseModal(d).asking = d.asking
<1> DEFINE q == Dialogs!StopStream(d)
<1>1. q \in DialogsViews /\ q.stream = None /\ (q.shows = "question" => q.title # None)
  BY StopStreamKeeps DEF WindowInv
<1>2. q.asking = d.asking
  BY DEF WindowInv, DialogsViews, Dialogs!StopStream
<1>3. Dialogs!CloseModal(d) = [q EXCEPT !.open = FALSE]
  BY DEF Dialogs!CloseModal
<1> HIDE DEF q
<1> QED
  BY <1>1, <1>2, <1>3 DEF WindowInv, DialogsViews

\* Every step of the panel keeps its invariant.
LEMMA DialogsSteps == DialogsInv /\ Dialogs!Next => DialogsInv'
<1> SUFFICES ASSUME DialogsInv, Dialogs!Next PROVE DialogsInv'
  OBVIOUS
<1>0. view \in DialogsViews /\ WindowInv(view)
  BY DEF DialogsInv, WindowInv
<1>1. ASSUME NEW c \in Containers, Dialogs!Room(flight), Dialogs!OpenLog(c) PROVE DialogsInv'
  <2>1. PICK t \in Slots : flight' = [flight EXCEPT ![t] = [ask |-> "log", id |-> c]]
    BY <1>1, DialogsSend DEF Dialogs!OpenLog, Dialogs!Do
  <2> DEFINE d == Dialogs!OpenModal(Dialogs!StopStream(view), "log", c)
  <2>2. view' = [d EXCEPT !.stream = c] /\ extra' = extra
    BY <1>1 DEF Dialogs!OpenLog, Dialogs!Do
  <2>3. WindowInv(d) /\ d.open
    BY <1>0, OpenModalKeeps, StopStreamKeeps DEF Dialogs!Opt
  <2> HIDE DEF d
  <2>4. WindowInv(view')
    BY <2>2, <2>3 DEF WindowInv, DialogsViews, Dialogs!Opt
  <2> QED
    BY <1>1, <2>1, <2>2, <2>4 DEF Dialogs!OpenLog, Dialogs!Opens, DialogsInv, DialogsRequests
<1>2. ASSUME NEW c \in Containers, Dialogs!Room(flight), Dialogs!AskDetails(c) PROVE DialogsInv'
  <2>1. PICK t \in Slots : flight' = [flight EXCEPT ![t] = [ask |-> "details", id |-> c]]
    BY <1>2, DialogsSend DEF Dialogs!AskDetails, Dialogs!Do
  <2> QED
    BY <1>2, <2>1 DEF Dialogs!AskDetails, Dialogs!Do, Dialogs!Opens, DialogsInv, DialogsRequests
<1>3. ASSUME Dialogs!Room(flight), Dialogs!Poll PROVE DialogsInv'
  <2>1. PICK t \in Slots : flight' = [flight EXCEPT ![t] = [ask |-> "log", id |-> view.stream]]
    BY <1>3, DialogsSend DEF Dialogs!Poll, Dialogs!Polled, Dialogs!Do
  <2>2. view.stream \in Containers
    BY <1>3, <1>0 DEF Dialogs!Poll, DialogsViews, Dialogs!Opt
  <2> QED
    BY <1>3, <2>1, <2>2 DEF Dialogs!Poll, Dialogs!Do, DialogsInv, DialogsRequests
<1>4. ASSUME NEW c \in Containers \cup {None}, NEW shows \in {"nothing", "question"}, NEW asking \in SUBSET Containers,
             shows = "question" => c # None,
             \/ view' = [Dialogs!OpenModal(view, shows, c) EXCEPT !.asking = asking]
             \/ view' = Dialogs!OpenModal(view, shows, c),
             Dialogs!Opens, UNCHANGED <<flight, extra>>
      PROVE  DialogsInv'
  <2>1. WindowInv(view')
    <3>1. WindowInv(Dialogs!OpenModal(view, shows, c))
      BY <1>0, <1>4, OpenModalKeeps DEF Dialogs!Opt
    <3> QED
      BY <1>4, <3>1, AskingKeeps
  <2> QED
    BY <1>4, <2>1 DEF Dialogs!Opens, DialogsInv
<1>5. ASSUME NEW asking \in SUBSET Containers,
             \/ view' = [Dialogs!CloseModal(view) EXCEPT !.asking = asking]
             \/ view' = Dialogs!CloseModal(view)
             \/ view' = Dialogs!StopStream(view),
             UNCHANGED <<flight, server, extra>>
      PROVE  DialogsInv'
  <2>1. WindowInv(view')
    BY <1>0, <1>5, CloseModalKeeps, StopStreamKeeps, AskingKeeps
  <2> QED
    BY <1>5, <2>1 DEF DialogsInv
<1>6. ASSUME NEW c \in Containers, Dialogs!AskRemove(c) PROVE DialogsInv'
  <2>1. /\ view' = [Dialogs!OpenModal(view, "question", c) EXCEPT !.asking = @ \cup {c}]
        /\ Dialogs!Opens /\ UNCHANGED <<flight, extra>>
    BY <1>6 DEF Dialogs!AskRemove, Dialogs!Do
  <2>2. c # None => Dialogs!OpenModal(view, "question", c).asking \cup {c} \in SUBSET Containers
    BY <1>0, OpenModalKeeps DEF WindowInv, DialogsViews, Dialogs!Opt
  <2> QED
    BY <1>4, <2>1, <2>2
<1>7. CASE Dialogs!OthersOpen
  BY <1>4, <1>7 DEF Dialogs!OthersOpen, Dialogs!Do
<1>8. CASE Dialogs!StopLog \/ Dialogs!Close \/ Dialogs!Cancel \/ Dialogs!OthersClose
  <2>1. {} \in SUBSET Containers /\ Dialogs!CloseModal(view).asking \ {view.title} \in SUBSET Containers
    BY <1>0, CloseModalKeeps DEF WindowInv, DialogsViews
  <2> QED
    BY <1>5, <1>8, <2>1 DEF Dialogs!StopLog, Dialogs!Close, Dialogs!Cancel, Dialogs!OthersClose, Dialogs!Do
<1>9. CASE Dialogs!Confirm
  <2>1. PICK t \in Slots : flight' = [flight EXCEPT ![t] = [ask |-> "remove", id |-> view.title]]
    BY <1>9, DialogsSend DEF Dialogs!Confirm, Dialogs!Confirms, Dialogs!Do
  <2>2. view.title \in Containers
    BY <1>9, <1>0 DEF Dialogs!Confirm, WindowInv, DialogsViews, Dialogs!Opt
  <2>3. /\ view' = [Dialogs!CloseModal(view) EXCEPT !.asking = @ \ {view.title}]
        /\ server' = server /\ extra' = extra \cup {view.title}
    BY <1>9 DEF Dialogs!Confirm, Dialogs!Confirms, Dialogs!Do
  <2>4. WindowInv(view')
    <3>1. Dialogs!CloseModal(view).asking \ {view.title} \in SUBSET Containers
      BY <1>0, CloseModalKeeps DEF WindowInv, DialogsViews
    <3> QED
      BY <1>0, <2>3, <3>1, CloseModalKeeps, AskingKeeps
  <2> QED
    BY <2>1, <2>2, <2>3, <2>4 DEF DialogsInv, DialogsRequests
<1>10. ASSUME NEW s \in Slots, Dialogs!LogArrives(s) \/ Dialogs!DetailsArrive(s) \/ Dialogs!Fails(s)
       PROVE  DialogsInv'
  <2>1. flight' = [flight EXCEPT ![s] = Dialogs!Unused] /\ server' = server /\ extra' = extra
    BY <1>10 DEF Dialogs!LogArrives, Dialogs!DetailsArrive, Dialogs!Fails, Dialogs!Do, Dialogs!Over
  <2>2. flight[s].ask \in {"log", "details"} => flight[s].id \in Containers
    BY DEF DialogsInv, DialogsRequests, Dialogs!Unused
  <2>3. WindowInv(view')
    <3>1. ASSUME flight[s].id \in Containers PROVE WindowInv([view EXCEPT !.text = flight[s].id])
      BY <1>0, <3>1 DEF WindowInv, DialogsViews, Dialogs!Opt
    <3>2. CASE Dialogs!LogArrives(s)
      BY <1>0, <2>2, <3>1, <3>2 DEF Dialogs!LogArrives, Dialogs!Do
    <3>3. CASE Dialogs!DetailsArrive(s)
      BY <1>0, <2>2, <3>3, OpenModalKeeps DEF Dialogs!DetailsArrive, Dialogs!Do, Dialogs!Opt
    <3> QED
      BY <1>0, <1>10, <3>2, <3>3 DEF Dialogs!Fails, Dialogs!Do
  <2> QED
    BY <2>1, <2>3 DEF DialogsInv, DialogsRequests, Dialogs!Unused
<1> QED
  BY <1>1, <1>2, <1>3, <1>6, <1>7, <1>8, <1>9, <1>10 DEF Dialogs!Next, Dialogs!Answered

\* The invariant holds when the panel is opened.
LEMMA DialogsStart == Dialogs!Init => DialogsInv
<1> SUFFICES ASSUME Dialogs!Init PROVE DialogsInv
  OBVIOUS
<1>1. WindowInv(view)
  BY DEF Dialogs!Init, WindowInv, DialogsViews, Dialogs!Opt
<1>2. flight \in [Slots -> DialogsRequests] /\ \A s \in Slots : flight[s].ask # "remove"
  BY DEF Dialogs!Init, Dialogs!NoRequests, DialogsRequests, Dialogs!Unused
<1> QED
  BY <1>1, <1>2 DEF Dialogs!Init, DialogsInv

\* The invariant implies the types and the properties of the panel.
LEMMA DialogsMean == DialogsInv => Dialogs!TypeOK /\ Dialogs!NothingUnasked
BY DEF DialogsInv, WindowInv, Dialogs!TypeOK, Dialogs!NothingUnasked, DialogsViews, DialogsRequests

HIDE DialogsGiven

-----------------------------------------------------------------------------
(* Log cards.                                                              *)

\* What the panel is given.
LEMMA LogsGiven ==
  MaxSources \in Nat
BY PageAssumption

USE LogsGiven

\* The state of the panel that the page keeps.
LogViews ==
  [auth : BOOLEAN, visible : BOOLEAN, apps : SUBSET LogCards, current : LogCards \cup {None},
   selected : LogCards \cup {None}, files : LogCards \cup {None}, level : Logs!Levels, timer : BOOLEAN,
   stats : Logs!Result \cup {Logs!NoResult}, shown : Logs!Result \cup {Logs!NoResult}]

\* What a slot of the panel may hold.
LogRequests ==
  {Logs!Unused}
    \cup [ask : {"query"}, card : LogCards, level : Logs!Levels]
    \cup [ask : {"export"}, card : LogCards, files : LogCards \cup {None}]
    \cup [ask : {"apps"}, apps : {None} \cup SUBSET LogCards]
    \cup [ask : {"create", "delete"}, card : LogCards, done : BOOLEAN]

\* A request takes a free slot and leaves the others.
LEMMA LogsSend ==
  ASSUME NEW fl \in [Slots -> LogRequests], NEW q \in LogRequests
  PROVE  /\ Logs!Send(fl, q) \in [Slots -> LogRequests]
         /\ \A s \in Slots : Logs!Send(fl, q)[s] = fl[s] \/ Logs!Send(fl, q)[s] = q
BY DEF Logs!Send

\* The source that is chosen is in the list, and its files have the boxes.
ChosenInv(lg) ==
  /\ lg \in LogViews
  /\ lg.current \in lg.apps \cup {None}
  /\ lg.current # None => lg.files = lg.current

\* And the loop runs for it while it is shown.
LoopInv(lg) ==
  /\ ChosenInv(lg)
  /\ lg.timer => lg.visible /\ lg.current # None
  /\ lg.auth /\ lg.visible /\ lg.current # None => lg.timer

\* The inductive invariant of the panel.
LogsInv ==
  /\ LoopInv(view)
  /\ flight \in [Slots -> LogRequests]
  /\ server \subseteq LogCards
  /\ extra \in 0 .. MaxSources
  /\ \A s \in Slots : flight[s].ask = "export" => flight[s].files = flight[s].card

\* The invariant implies the types and the properties of the panel.
LEMMA LogsMean == LogsInv => Logs!TypeOK /\ Logs!LoopFollowsPage /\ Logs!ExportsItsOwn
BY DEF LogsInv, LoopInv, ChosenInv, Logs!TypeOK, Logs!LoopFollowsPage, Logs!ExportsItsOwn, LogViews, LogRequests

\* The boxes that are ticked are those of the chosen card.
LEMMA ChosenBoxes ==
  ASSUME NEW lg \in LogViews, NEW c \in lg.apps \cup {None}
  PROVE  /\ ChosenInv(Logs!Boxes(Logs!Rendered([lg EXCEPT !.current = c])))
         /\ Logs!Boxes(Logs!Rendered([lg EXCEPT !.current = c])).current = c
<1> DEFINE d == [lg EXCEPT !.current = c]
<1>1. d \in LogViews /\ d.current = c /\ d.apps = lg.apps
  BY DEF LogViews
<1> DEFINE e == Logs!Rendered(d)
<1> HIDE DEF d
<1>2. e \in LogViews /\ e.current = c /\ e.apps = lg.apps
  <2>1. (IF d.current \in d.apps THEN d.current ELSE None) \in LogCards \cup {None}
    BY <1>1 DEF LogViews
  <2> QED
    BY <1>1, <2>1 DEF LogViews, Logs!Rendered
<1> HIDE DEF e
<1>3. Logs!Boxes(e) \in LogViews /\ Logs!Boxes(e).current = c /\ Logs!Boxes(e).apps = lg.apps /\ Logs!Boxes(e).files = c
  BY <1>2 DEF LogViews, Logs!Boxes
<1> QED
  BY <1>3 DEF ChosenInv, d, e

\* The loop runs exactly when it should after syncLogRealtimeLoop.
LEMMA SyncKeeps == ASSUME NEW lg, ChosenInv(lg), NEW v \in BOOLEAN PROVE LoopInv(Logs!Sync(lg, v))
<1> DEFINE d == Logs!Sync(lg, v)
<1>0. lg \in LogViews
  BY DEF ChosenInv
<1>1. d \in LogViews
  BY <1>0 DEF LogViews, Logs!Sync
<1>2. d.current = lg.current /\ d.apps = lg.apps /\ d.files = lg.files
  BY <1>0 DEF LogViews, Logs!Sync
<1>3. d.visible = v /\ d.timer = (v /\ lg.current # None)
  BY <1>0 DEF LogViews, Logs!Sync
<1> QED
  BY <1>1, <1>2, <1>3 DEF LoopInv, ChosenInv

\* A page without a source has no loop.
LEMMA QuietKeeps ==
  ASSUME NEW lg, lg \in LogViews, lg.current = None
  PROVE  /\ LoopInv([lg EXCEPT !.timer = FALSE])
         /\ LoopInv([lg EXCEPT !.timer = FALSE, !.shown = Logs!NoResult])
         /\ LoopInv([lg EXCEPT !.timer = FALSE, !.stats = Logs!NoResult, !.shown = Logs!NoResult])
<1>1. ASSUME NEW d, \/ d = [lg EXCEPT !.timer = FALSE]
                   \/ d = [lg EXCEPT !.timer = FALSE, !.shown = Logs!NoResult]
                   \/ d = [lg EXCEPT !.timer = FALSE, !.stats = Logs!NoResult, !.shown = Logs!NoResult]
      PROVE  d \in LogViews /\ d.current = None /\ ~d.timer
  BY <1>1 DEF LogViews
<1> QED
  BY <1>1 DEF LoopInv, ChosenInv

\* A query is sent, or not, and the loop still belongs to the page.
LEMMA QueryKeeps ==
  ASSUME NEW lg, LoopInv(lg), NEW fl \in [Slots -> LogRequests], NEW raw, Logs!Query(lg, fl, raw),
         \A s \in Slots : fl[s].ask = "export" => fl[s].files = fl[s].card
  PROVE  /\ LoopInv(view') /\ flight' \in [Slots -> LogRequests]
         /\ (\A s \in Slots : flight[s].ask = "export" => flight[s].files = flight[s].card)'
<1>0. lg \in LogViews
  BY DEF LoopInv, ChosenInv
<1>1. Logs!Normalized(raw) \in Logs!Levels
  BY DEF Logs!Normalized, Logs!Levels
<1>2. CASE lg.current = None
  BY <1>2 DEF Logs!Query
<1>3. CASE lg.current # None
  <2> DEFINE d == [lg EXCEPT !.level = Logs!Normalized(raw)]
             q == [ask |-> "query", card |-> lg.current, level |-> Logs!Normalized(raw)]
  <2>1. view' = d /\ flight' = Logs!Send(fl, q)
    BY <1>3 DEF Logs!Query
  <2>2. d \in LogViews /\ d.current = lg.current /\ d.apps = lg.apps /\ d.files = lg.files
    BY <1>0, <1>1 DEF LogViews
  <2>3. d.timer = lg.timer /\ d.visible = lg.visible /\ d.auth = lg.auth
    BY <1>0 DEF LogViews
  <2>4. LoopInv(view')
    BY <2>1, <2>2, <2>3 DEF LoopInv, ChosenInv
  <2>5. q \in LogRequests
    BY <1>0, <1>1, <1>3 DEF LogRequests, LogViews
  <2>6. q.ask # "export"
    OBVIOUS
  <2> HIDE DEF q
  <2> QED
    <3>1. /\ Logs!Send(fl, q) \in [Slots -> LogRequests]
          /\ \A s \in Slots : Logs!Send(fl, q)[s] = fl[s] \/ Logs!Send(fl, q)[s] = q
      BY <2>5, LogsSend
    <3> QED
      BY <2>1, <2>4, <2>6, <3>1
<1> QED
  BY <1>2, <1>3

\* A card is chosen if none was, and the loop follows.
LEMMA EnsuredKeeps == ASSUME NEW lg \in LogViews PROVE LoopInv(Logs!Ensured(lg))
<1> DEFINE card == IF lg.current \in lg.apps THEN lg.current ELSE Logs!DefaultCard(lg.apps)
           d == Logs!Boxes(Logs!Rendered([lg EXCEPT !.current = card]))
<1>1. card \in lg.apps \cup {None} /\ (lg.apps = {} => card = None)
  BY DEF Logs!DefaultCard
<1>2. Logs!Ensured(lg) = IF lg.apps = {} THEN [d EXCEPT !.timer = FALSE, !.shown = Logs!NoResult]
                         ELSE Logs!Sync(d, lg.visible)
  BY DEF Logs!Ensured
<1> HIDE DEF card
<1>3. ChosenInv(d) /\ d.current = card
  BY <1>1, ChosenBoxes
<1> HIDE DEF d
<1>4. lg.visible \in BOOLEAN
  BY DEF LogViews
<1> QED
  BY <1>1, <1>2, <1>3, <1>4, SyncKeeps, QuietKeeps DEF ChosenInv

\* Every step of the panel keeps its invariant.
LEMMA LogsSteps == LogsInv /\ Logs!Next => LogsInv'
<1> SUFFICES ASSUME LogsInv, Logs!Next PROVE LogsInv'
  OBVIOUS
<1> DEFINE Exports == \A s \in Slots : flight[s].ask = "export" => flight[s].files = flight[s].card
<1>0. /\ LoopInv(view) /\ ChosenInv(view) /\ view \in LogViews
      /\ flight \in [Slots -> LogRequests] /\ Exports
  BY DEF LogsInv, LoopInv, ChosenInv
<1>1. ASSUME NEW c \in LogCards, Logs!Choose(c) PROVE LogsInv'
  <2> DEFINE d == Logs!Boxes(Logs!Rendered([view EXCEPT !.current = c]))
  <2>1. /\ Logs!Query(Logs!Sync(d, TRUE), flight, view.level) /\ c \in view.apps
        /\ UNCHANGED <<server, extra>>
    BY <1>1 DEF Logs!Choose
  <2>2. ChosenInv(d)
    BY <1>0, <2>1, ChosenBoxes
  <2> HIDE DEF d
  <2>3. LoopInv(Logs!Sync(d, TRUE))
    BY <2>2, SyncKeeps
  <2> QED
    BY <1>0, <2>1, <2>3, QueryKeeps DEF LogsInv
<1>2. CASE Logs!ChooseNone
  <2> DEFINE d == Logs!Boxes(Logs!Rendered([view EXCEPT !.current = None]))
  <2>1. /\ view' = [d EXCEPT !.timer = FALSE, !.stats = Logs!NoResult, !.shown = Logs!NoResult]
        /\ UNCHANGED <<flight, server, extra>>
    BY <1>2 DEF Logs!ChooseNone
  <2>2. d \in LogViews /\ d.current = None
    BY <1>0, ChosenBoxes DEF ChosenInv
  <2> HIDE DEF d
  <2> QED
    BY <2>1, <2>2, QuietKeeps DEF LogsInv
<1>3. ASSUME NEW raw, Logs!Query(view, flight, raw), UNCHANGED <<server, extra>> PROVE LogsInv'
  BY <1>0, <1>3, QueryKeeps DEF LogsInv
<1>4. ASSUME NEW q \in LogRequests, q.ask = "export" => q.files = q.card,
             flight' = Logs!Send(flight, q), UNCHANGED <<view, server>>, extra' \in 0 .. MaxSources
      PROVE  LogsInv'
  <2>1. /\ Logs!Send(flight, q) \in [Slots -> LogRequests]
        /\ \A s \in Slots : Logs!Send(flight, q)[s] = flight[s] \/ Logs!Send(flight, q)[s] = q
    BY <1>0, LogsSend
  <2> QED
    BY <1>0, <1>4, <2>1 DEF LogsInv
<1>5. CASE Logs!Export
  <2> DEFINE q == [ask |-> "export", card |-> view.current, files |-> view.files]
  <2>1. flight' = Logs!Send(flight, q) /\ view.current # None /\ UNCHANGED <<view, server, extra>>
    BY <1>5 DEF Logs!Export
  <2>2. q \in LogRequests /\ q.files = q.card
    BY <1>0, <2>1 DEF LogRequests, LogViews, ChosenInv
  <2> QED
    BY <1>4, <2>1, <2>2 DEF LogsInv
<1>6. ASSUME NEW ask \in {"create", "delete"}, NEW card \in LogCards, Logs!Change(ask, card) PROVE LogsInv'
  <2> DEFINE q == [ask |-> ask, card |-> card, done |-> FALSE]
  <2>1. flight' = Logs!Send(flight, q) /\ extra < MaxSources /\ extra' = extra + 1 /\ UNCHANGED <<view, server>>
    BY <1>6 DEF Logs!Change
  <2>2. q \in LogRequests /\ q.ask # "export"
    BY DEF LogRequests
  <2>3. extra' \in 0 .. MaxSources
    BY <2>1 DEF LogsInv
  <2> HIDE DEF q
  <2> QED
    BY <1>4, <2>1, <2>2, <2>3
<1>7. CASE Logs!Delete
  <2>1. view.current \in LogCards
    BY <1>0, <1>7 DEF Logs!Delete, LogViews
  <2> QED
    BY <1>6, <1>7, <2>1 DEF Logs!Delete
<1>8. ASSUME NEW v \in BOOLEAN, Logs!SwitchSection(v) PROVE LogsInv'
  BY <1>0, <1>8, SyncKeeps DEF Logs!SwitchSection, LogsInv
<1>9. ASSUME NEW s \in Slots, NEW q \in LogRequests, q.ask = "export" => q.files = q.card,
             flight' = [flight EXCEPT ![s] = q], LoopInv(view'), server' \subseteq LogCards, extra' = extra
      PROVE  LogsInv'
  BY <1>0, <1>9 DEF LogsInv
<1>10. Logs!Unused \in LogRequests /\ Logs!Unused.ask # "export"
  BY DEF LogRequests, Logs!Unused
<1>11. ASSUME NEW s \in Slots, Logs!Serve(s) PROVE LogsInv'
  <2>1. view' = view /\ extra' = extra
    BY <1>11 DEF Logs!Serve
  <2>2. CASE flight[s].ask = "apps" /\ flight' = [flight EXCEPT ![s].apps = server] /\ server' = server
    <3> DEFINE q == [flight[s] EXCEPT !.apps = server]
    <3>1. flight[s] \in [ask : {"apps"}, apps : {None} \cup SUBSET LogCards]
      BY <1>0, <2>2 DEF LogRequests, Logs!Unused
    <3>2. q \in LogRequests /\ q.ask # "export"
      BY <3>1 DEF LogsInv, LogRequests
    <3>3. flight' = [flight EXCEPT ![s] = q]
      BY <2>2
    <3> HIDE DEF q
    <3> QED
      BY <1>0, <1>9, <2>1, <2>2, <3>2, <3>3 DEF LogsInv
  <2>3. CASE /\ flight[s].ask \in {"create", "delete"}
             /\ flight' = [flight EXCEPT ![s].done = TRUE]
             /\ server' = server \cup {flight[s].card} \/ server' = server \ {flight[s].card}
    <3> DEFINE q == [flight[s] EXCEPT !.done = TRUE]
    <3>1. flight[s] \in [ask : {"create", "delete"}, card : LogCards, done : BOOLEAN]
      BY <1>0, <2>3 DEF LogRequests, Logs!Unused
    <3>2. q \in LogRequests /\ q.ask # "export" /\ flight[s].card \in LogCards
      BY <3>1 DEF LogRequests
    <3>3. flight' = [flight EXCEPT ![s] = q] /\ server' \subseteq LogCards
      BY <2>3, <3>2 DEF LogsInv
    <3> HIDE DEF q
    <3> QED
      BY <1>0, <1>9, <2>1, <3>2, <3>3
  <2> QED
    BY <1>11, <2>2, <2>3 DEF Logs!Serve
<1>12. ASSUME NEW s \in Slots, Logs!AppsArrive(s) PROVE LogsInv'
  <2> DEFINE d == [view EXCEPT !.apps = flight[s].apps]
             fl == [flight EXCEPT ![s] = Logs!Unused]
  <2>1. Logs!Query(Logs!Ensured(d), fl, view.level) /\ UNCHANGED <<server, extra>>
    BY <1>12 DEF Logs!AppsArrive, Logs!Over
  <2>2. flight[s].apps \in SUBSET LogCards
    BY <1>0, <1>12 DEF Logs!AppsArrive, LogRequests, Logs!Unused
  <2>3. d \in LogViews
    BY <1>0, <2>2 DEF LogViews
  <2>4. LoopInv(Logs!Ensured(d))
    BY <2>3, EnsuredKeeps
  <2>5. fl \in [Slots -> LogRequests] /\ \A t \in Slots : fl[t].ask = "export" => fl[t].files = fl[t].card
    BY <1>0, <1>10
  <2> HIDE DEF d, fl
  <2> QED
    BY <2>1, <2>4, <2>5, QueryKeeps DEF LogsInv
<1>13. ASSUME NEW s \in Slots, Logs!QueryArrives(s) PROVE LogsInv'
  <2> DEFINE r == [card |-> flight[s].card, level |-> flight[s].level]
  <2>1. r \in Logs!Result
    BY <1>0, <1>13 DEF Logs!QueryArrives, LogRequests, Logs!Unused, Logs!Result
  <2>2. view' = [view EXCEPT !.stats = r, !.shown = r] /\ flight' = [flight EXCEPT ![s] = Logs!Unused] /\ UNCHANGED <<server, extra>>
    BY <1>13 DEF Logs!QueryArrives, Logs!Over
  <2> HIDE DEF r
  <2>3. view' \in LogViews /\ view'.current = view.current /\ view'.apps = view.apps /\ view'.files = view.files
    BY <1>0, <2>1, <2>2 DEF LogViews
  <2>4. view'.timer = view.timer /\ view'.visible = view.visible /\ view'.auth = view.auth
    BY <1>0, <2>2 DEF LogViews
  <2>5. LoopInv(view')
    BY <1>0, <2>3, <2>4 DEF LoopInv, ChosenInv
  <2> QED
    BY <1>9, <1>10, <2>2, <2>5 DEF LogsInv
<1>14. ASSUME NEW s \in Slots, Logs!Changed(s) PROVE LogsInv'
  <2>1. flight' = [flight EXCEPT ![s] = Logs!AskApps] /\ UNCHANGED <<server, extra>>
    BY <1>14 DEF Logs!Changed
  <2>2. view' = view \/ view' = [view EXCEPT !.current = None, !.timer = FALSE]
    BY <1>14 DEF Logs!Changed, Logs!Forgotten
  <2>3. LoopInv(view')
    <3>1. ASSUME view' = [view EXCEPT !.current = None, !.timer = FALSE]
          PROVE  view' \in LogViews /\ view'.current = None /\ ~view'.timer
      BY <1>0, <3>1 DEF LogViews
    <3> QED
      BY <1>0, <2>2, <3>1 DEF LoopInv, ChosenInv
  <2>4. Logs!AskApps \in LogRequests /\ Logs!AskApps.ask # "export"
    BY DEF LogRequests, Logs!AskApps
  <2> QED
    BY <1>9, <2>1, <2>3, <2>4 DEF LogsInv
<1>15. ASSUME NEW s \in Slots, Logs!Exported(s) \/ Logs!Fails(s) PROVE LogsInv'
  BY <1>0, <1>9, <1>10, <1>15 DEF Logs!Exported, Logs!Fails, Logs!Over, LogsInv
<1>16. CASE Logs!AuthLost
  <2>1. view' = [view EXCEPT !.auth = FALSE, !.timer = FALSE] /\ UNCHANGED <<flight, server, extra>>
    BY <1>16 DEF Logs!AuthLost
  <2>2. view' \in LogViews /\ view'.current = view.current /\ view'.apps = view.apps /\ view'.files = view.files
    BY <1>0, <2>1 DEF LogViews
  <2>3. ~view'.timer /\ ~view'.auth
    BY <1>0, <2>1 DEF LogViews
  <2> QED
    BY <1>0, <2>1, <2>2, <2>3 DEF LogsInv, LoopInv, ChosenInv
<1> QED
  BY <1>1, <1>2, <1>3, <1>5, <1>6, <1>7, <1>8, <1>11, <1>12, <1>13, <1>14, <1>15, <1>16
  DEF Logs!Next, Logs!Answered, Logs!Create, Logs!Ask, Logs!Loop

\* The invariant holds when the panel is opened.
LEMMA LogsStart == Logs!Init => LogsInv
<1> SUFFICES ASSUME Logs!Init PROVE LogsInv
  OBVIOUS
<1>1. /\ view \in LogViews /\ view.current = None /\ ~view.timer
  BY DEF Logs!Init, LogViews, Logs!Levels
<1>2. Logs!AskApps \in LogRequests /\ Logs!AskApps.ask # "export"
  BY DEF LogRequests, Logs!AskApps
<1>3. Logs!NoRequests \in [Slots -> LogRequests] /\ \A s \in Slots : Logs!NoRequests[s].ask # "export"
  BY DEF LogRequests, Logs!NoRequests, Logs!Unused
<1>4. flight = Logs!Send(Logs!NoRequests, Logs!AskApps)
  BY DEF Logs!Init
<1>5. flight \in [Slots -> LogRequests] /\ \A s \in Slots : flight[s].ask # "export"
  BY <1>2, <1>3, <1>4, LogsSend
<1> QED
  BY <1>1, <1>5 DEF Logs!Init, LogsInv, LoopInv, ChosenInv

HIDE LogsGiven

-----------------------------------------------------------------------------
(* Connections.                                                            *)

\* The state of the panel that the page keeps.
FlowViews ==
  [raw : SUBSET FlowKeys, rows : SUBSET FlowKeys, loading : BOOLEAN, fresh : BOOLEAN,
   window : {"closed", "all", "detail"}, boxes : Flows!Boxes, listed : SUBSET FlowKeys,
   about : FlowKeys \cup {None}, missed : BOOLEAN]

\* What a slot of the panel may hold.
FlowRequests == {Flows!Unused} \cup [ask : {"flows"}, answer : SUBSET FlowKeys, made : BOOLEAN]

\* The table has rows of the list, and the window those its boxes let through.
FlowInv(f) ==
  /\ f \in FlowViews
  /\ f.rows \subseteq f.raw
  /\ \A k \in f.listed : /\ f.boxes.protocol \in {"all", Kinds[k].protocol}
                         /\ Flows!InGroup(Flows!Status(k), f.boxes.status)
  /\ ~f.missed

\* The inductive invariant of the panel.
FlowsInv ==
  /\ FlowInv(view)
  /\ flight \in [Slots -> FlowRequests]
  /\ view.loading => Flows!Awaits(flight, "flows")
  /\ server \subseteq FlowKeys
  /\ extra \in BOOLEAN

\* Cardinality is the same operator in the panel's module.
LEMMA FlowsCount == \A S : Flows!Cardinality(S) = Cardinality(S)
BY DEF Flows!Cardinality, Cardinality

\* The invariant implies the types and the properties of the panel.
LEMMA FlowsMean == FlowsInv => Flows!TypeOK /\ Flows!ShownCanBeOpened /\ Flows!LoadingEnds
<1> SUFFICES ASSUME FlowsInv PROVE Flows!TypeOK /\ Flows!ShownCanBeOpened /\ Flows!LoadingEnds
  OBVIOUS
<1>1. Flows!TypeOK
  BY DEF FlowsInv, FlowInv, FlowViews, FlowRequests, Flows!TypeOK
<1>2. Flows!LoadingEnds
  BY DEF FlowsInv, Flows!LoadingEnds
<1>3. /\ view.rows \subseteq view.raw
      /\ \A k \in view.listed : /\ view.boxes.protocol \in {"all", Kinds[k].protocol}
                                /\ Flows!InGroup(Flows!Status(k), view.boxes.status)
      /\ ~view.missed
  BY DEF FlowsInv, FlowInv
<1>4. Flows!Cardinality({}) = 0
  BY FlowsCount, FS_EmptySet
<1>5. view.boxes.protocol = "tcp" => Flows!Summary(view.listed).udp = 0
  <2>1. view.boxes.protocol = "tcp" => {k \in view.listed : Kinds[k].protocol = "udp"} = {}
    BY <1>3
  <2> QED
    BY <1>4, <2>1 DEF Flows!Summary
<1>6. view.boxes.status = "listen" => Flows!Summary(view.listed).established = 0
  <2>1. view.boxes.status = "listen" => {k \in view.listed : Flows!Status(k) = "ESTABLISHED"} = {}
    BY <1>3 DEF Flows!InGroup
  <2> QED
    BY <1>4, <2>1 DEF Flows!Summary
<1>7. view.boxes.status = "closing" => \A k \in view.listed : Flows!Badge(Flows!Status(k)) # "up"
  BY <1>3 DEF Flows!InGroup, Flows!Closing, Flows!Badge
<1> QED
  BY <1>1, <1>2, <1>3, <1>5, <1>6, <1>7 DEF Flows!ShownCanBeOpened

\* The table that is drawn has rows of the list.
LEMMA DrawnKeeps ==
  ASSUME NEW f, FlowInv(f), NEW t \in Flows!Tables(f)
  PROVE  FlowInv(t) /\ t.loading = f.loading
<1>0. f \in FlowViews
  BY DEF FlowInv
<1>1. PICK r \in SUBSET f.raw : t = [f EXCEPT !.rows = r]
  <2>1. PICK r \in SUBSET Flows!Filtered(f.raw, Flows!AllBoxes) : t = [f EXCEPT !.rows = r]
    BY DEF Flows!Tables
  <2>2. Flows!Filtered(f.raw, Flows!AllBoxes) \subseteq f.raw
    BY DEF Flows!Filtered
  <2> QED
    BY <2>1, <2>2
<1>2. f.raw \subseteq FlowKeys
  BY <1>0 DEF FlowViews
<1>3. t \in FlowViews
  BY <1>0, <1>1, <1>2 DEF FlowViews
<1>4. t.rows = r /\ t.raw = f.raw /\ t.listed = f.listed /\ t.boxes = f.boxes
  BY <1>0, <1>1 DEF FlowViews
<1>5. t.missed = f.missed
  BY <1>0, <1>1 DEF FlowViews
<1>6. t.loading = f.loading
  BY <1>0, <1>1 DEF FlowViews
<1> QED
  BY <1>3, <1>4, <1>5, <1>6 DEF FlowInv

\* A refresh with whatever the boxes say keeps boxes and rows together.
LEMMA FlowAsked ==
  ASSUME FlowsInv, Flows!Room(flight), NEW f, FlowInv(f), Flows!Asks(f),
         server' = server, extra' \in BOOLEAN
  PROVE  FlowsInv'
<1>1. flight \in [Slots -> FlowRequests]
  BY DEF FlowsInv
<1>2. PICK s \in Slots : flight' = [flight EXCEPT ![s] = Flows!Ask]
  BY DEF Flows!Room, Flows!Send, Flows!Asks
<1>3. Flows!Ask \in FlowRequests /\ Flows!Ask.ask = "flows"
  BY DEF Flows!Ask, FlowRequests
<1>4. flight' \in [Slots -> FlowRequests] /\ Flows!Awaits(flight', "flows")
  BY <1>1, <1>2, <1>3 DEF Flows!Awaits
<1> DEFINE d == [f EXCEPT !.loading = TRUE]
<1>5. f \in FlowViews
  BY DEF FlowInv
<1>6. d \in FlowViews
  BY <1>5 DEF FlowViews
<1>7. d.rows = f.rows /\ d.raw = f.raw /\ d.listed = f.listed /\ d.boxes = f.boxes
  BY <1>5 DEF FlowViews
<1>8. d.missed = f.missed
  BY <1>5 DEF FlowViews
<1>9. view' = d
  BY DEF Flows!Asks
<1> HIDE DEF d
<1>10. FlowInv(d)
  BY <1>6, <1>7, <1>8 DEF FlowInv
<1> QED
  BY <1>4, <1>9, <1>10 DEF FlowsInv

\* A step in the page alone.
LEMMA FlowShown ==
  ASSUME FlowsInv, NEW f, FlowInv(f), view' = f, f.loading = view.loading, Flows!User
  PROVE  FlowsInv'
BY DEF FlowsInv, Flows!User

\* The window is drawn.
LEMMA WindowDrawn ==
  ASSUME FlowInv(view), NEW boxes \in Flows!Boxes, NEW f,
         NEW w \in {"closed", "all", "detail"}, NEW k \in FlowKeys \cup {None},
         NEW l \in SUBSET FlowKeys,
         \A j \in l : boxes.protocol \in {"all", Kinds[j].protocol} /\ Flows!InGroup(Flows!Status(j), boxes.status),
         f = [view EXCEPT !.window = w, !.about = k, !.boxes = boxes, !.listed = l]
  PROVE  FlowInv(f) /\ f.loading = view.loading
<1>1. view \in FlowViews /\ view.rows \subseteq view.raw
  BY DEF FlowInv
<1>2. f \in FlowViews
  BY <1>1 DEF FlowViews
<1>3. f.rows = view.rows /\ f.raw = view.raw /\ f.listed = l /\ f.boxes = boxes
  BY <1>1 DEF FlowViews
<1>4. f.missed = view.missed
  BY <1>1 DEF FlowViews
<1>5. f.loading = view.loading
  BY <1>1 DEF FlowViews
<1> QED
  BY <1>1, <1>2, <1>3, <1>4, <1>5 DEF FlowInv

\* Every step of the panel keeps its invariant.
LEMMA FlowsSteps == FlowsInv /\ Flows!Next => FlowsInv'
<1> SUFFICES ASSUME FlowsInv, Flows!Next PROVE FlowsInv'
  OBVIOUS
<1>0. FlowInv(view) /\ view \in FlowViews /\ view.rows \subseteq view.raw
  BY DEF FlowsInv, FlowInv
<1>1. flight \in [Slots -> FlowRequests] /\ Flows!Unused \in FlowRequests /\ Flows!Unused.ask # "flows"
  BY DEF FlowsInv, FlowRequests, Flows!Unused
<1>2. server \subseteq FlowKeys /\ extra \in BOOLEAN
  BY DEF FlowsInv
<1>3. view.loading => Flows!Awaits(flight, "flows")
  BY DEF FlowsInv
<1>4. ASSUME Flows!Room(flight), Flows!Snapshot PROVE FlowsInv'
  <2>1. PICK f \in Flows!Tables(view) :
          IF Flows!Skipped(f) THEN view' = f /\ UNCHANGED flight ELSE Flows!Asks(f)
    BY <1>4 DEF Flows!Snapshot
  <2>2. FlowInv(f) /\ f.loading = view.loading
    BY <1>0, DrawnKeeps
  <2>3. server' = server /\ extra' = extra
    BY <1>4 DEF Flows!Snapshot
  <2> QED
    BY <1>2, <1>4, <2>1, <2>2, <2>3, FlowAsked, FlowShown DEF Flows!User
<1>5. ASSUME Flows!Room(flight), Flows!Boot PROVE FlowsInv'
  BY <1>0, <1>5, FlowAsked DEF Flows!Boot
<1>6. ASSUME NEW s \in Slots, Flows!Serve(s) PROVE FlowsInv'
  <2>1. flight[s] \in [ask : {"flows"}, answer : SUBSET FlowKeys, made : BOOLEAN]
    BY <1>1, <1>6 DEF Flows!Serve, FlowRequests, Flows!Unused
  <2> DEFINE q == [flight[s] EXCEPT !.answer = server, !.made = TRUE]
  <2>2. q \in [ask : {"flows"}, answer : SUBSET FlowKeys, made : BOOLEAN] /\ q.ask = "flows"
    BY <1>2, <2>1
  <2>3. flight' = [flight EXCEPT ![s] = q] /\ view' = view /\ server' = server /\ extra' = extra
    BY <1>1, <1>6 DEF Flows!Serve
  <2>4. q \in FlowRequests
    BY <2>2 DEF FlowRequests
  <2> HIDE DEF q
  <2>5. flight' \in [Slots -> FlowRequests] /\ Flows!Awaits(flight', "flows")
    BY <1>1, <2>2, <2>3, <2>4 DEF Flows!Awaits
  <2> QED
    BY <1>0, <1>2, <2>3, <2>5 DEF FlowsInv
<1>7. ASSUME NEW s \in Slots, Flows!Arrives(s) PROVE FlowsInv'
  <2>1. flight[s] \in [ask : {"flows"}, answer : SUBSET FlowKeys, made : BOOLEAN]
    BY <1>1, <1>7 DEF Flows!Arrives, FlowRequests, Flows!Unused
  <2>2. PICK a \in SUBSET FlowKeys : a = flight[s].answer
    BY <2>1
  <2> DEFINE f == [view EXCEPT !.raw = a, !.fresh = TRUE, !.loading = FALSE]
  <2>3. f \in FlowViews
    BY <1>0 DEF FlowViews
  <2>4. f.listed = view.listed /\ f.boxes = view.boxes /\ f.raw = a
    BY <1>0 DEF FlowViews
  <2>5. f.missed = view.missed
    BY <1>0 DEF FlowViews
  <2>6. f.loading = FALSE
    BY <1>0 DEF FlowViews
  <2>7. view' \in Flows!Tables(f) /\ flight' = Flows!Over(flight, s) /\ server' = server /\ extra' = extra
    BY <1>7, <2>2 DEF Flows!Arrives, Flows!Redrawn
  <2> HIDE DEF f
  <2>8. PICK r \in SUBSET f.raw : view' = [f EXCEPT !.rows = r]
    <3>1. PICK r \in SUBSET Flows!Filtered(f.raw, Flows!AllBoxes) : view' = [f EXCEPT !.rows = r]
      BY <2>7 DEF Flows!Tables
    <3>2. Flows!Filtered(f.raw, Flows!AllBoxes) \subseteq f.raw
      BY DEF Flows!Filtered
    <3> QED
      BY <3>1, <3>2
  <2>9. view' \in FlowViews
    BY <2>3, <2>4, <2>8 DEF FlowViews
  <2>10. view'.rows = r /\ view'.raw = a /\ view'.listed = view.listed /\ view'.boxes = view.boxes
    BY <2>3, <2>4, <2>8 DEF FlowViews
  <2>11. view'.missed = f.missed
    BY <2>3, <2>8 DEF FlowViews
  <2>12. view'.loading = f.loading
    BY <2>3, <2>8 DEF FlowViews
  <2>13. FlowInv(view')
    <3>1. ~view'.missed
      BY <1>0, <2>5, <2>11 DEF FlowInv
    <3>2. view'.rows \subseteq view'.raw
      BY <2>4, <2>8, <2>10
    <3> QED
      BY <1>0, <2>9, <2>10, <3>1, <3>2 DEF FlowInv
  <2>14. flight' \in [Slots -> FlowRequests]
    BY <1>1, <2>7 DEF Flows!Over
  <2> QED
    BY <1>2, <2>6, <2>7, <2>12, <2>13, <2>14 DEF FlowsInv
\* A change of two flags.
<1>8. ASSUME NEW f, f = [view EXCEPT !.loading = FALSE] \/ f = [view EXCEPT !.fresh = FALSE]
      PROVE  FlowInv(f) /\ (f.loading => view.loading)
  <2>1. f \in FlowViews
    BY <1>0, <1>8 DEF FlowViews
  <2>2. f.rows = view.rows /\ f.raw = view.raw /\ f.listed = view.listed /\ f.boxes = view.boxes
    BY <1>0, <1>8 DEF FlowViews
  <2>3. f.missed = view.missed
    BY <1>0, <1>8 DEF FlowViews
  <2>4. f.loading => view.loading
    BY <1>0, <1>8 DEF FlowViews
  <2> QED
    BY <1>0, <2>1, <2>2, <2>3, <2>4 DEF FlowInv
<1>9. ASSUME NEW s \in Slots, Flows!Fails(s) PROVE FlowsInv'
  <2>1. view' = [view EXCEPT !.loading = FALSE] /\ flight' = Flows!Over(flight, s) /\ server' = server /\ extra' = extra
    BY <1>9 DEF Flows!Fails, Flows!Finally
  <2>2. FlowInv(view')
    BY <1>8, <2>1
  <2>3. view'.loading = FALSE
    BY <1>0, <2>1 DEF FlowViews
  <2>4. flight' \in [Slots -> FlowRequests]
    BY <1>1, <2>1 DEF Flows!Over
  <2> QED
    BY <1>2, <2>1, <2>2, <2>3, <2>4 DEF FlowsInv
<1>10. ASSUME Flows!Expires PROVE FlowsInv'
  <2>1. view' = [view EXCEPT !.fresh = FALSE] /\ flight' = flight /\ server' = server /\ extra' = extra
    BY <1>10 DEF Flows!Expires
  <2>2. FlowInv(view') /\ (view'.loading => view.loading)
    BY <1>8, <2>1
  <2> QED
    BY <1>1, <1>2, <1>3, <2>1, <2>2 DEF FlowsInv
<1>11. ASSUME Flows!Traffic PROVE FlowsInv'
  BY <1>0, <1>1, <1>2, <1>3, <1>11 DEF Flows!Traffic, FlowsInv
<1>12. Flows!AllBoxes \in Flows!Boxes /\ None \in FlowKeys \cup {None}
  BY DEF Flows!AllBoxes, Flows!Boxes, Flows!Protocols, Flows!Groups
<1>13. ASSUME NEW k \in FlowKeys, view' = Flows!Detail(view, k), Flows!User PROVE FlowsInv'
  <2>1. view' = [view EXCEPT !.window = "detail", !.about = k, !.boxes = Flows!AllBoxes, !.listed = {}]
    BY <1>0, <1>13 DEF Flows!Detail, FlowViews
  <2> QED
    BY <1>0, <1>12, <1>13, <2>1, WindowDrawn, FlowShown
<1>14. ASSUME Flows!ClickRow PROVE FlowsInv'
  <2>1. view.rows \subseteq FlowKeys
    BY <1>0 DEF FlowViews
  <2> QED
    BY <1>0, <1>13, <1>14, <2>1 DEF Flows!ClickRow
<1>15. ASSUME NEW b \in Flows!Boxes, view' = Flows!Rendered(view, b), Flows!User PROVE FlowsInv'
  <2>1. view.about \in FlowKeys \cup {None} /\ view.raw \subseteq FlowKeys
    BY <1>0 DEF FlowViews
  <2> DEFINE l == Flows!Filtered(view.raw, b)
  <2>2. l \in SUBSET FlowKeys
        /\ \A j \in l : b.protocol \in {"all", Kinds[j].protocol} /\ Flows!InGroup(Flows!Status(j), b.status)
    BY <2>1 DEF Flows!Filtered
  <2>3. view' = [view EXCEPT !.window = "all", !.boxes = b, !.listed = l]
    BY <1>15 DEF Flows!Rendered
  <2> HIDE DEF l
  <2>4. view' = [view EXCEPT !.window = "all", !.about = view.about, !.boxes = b, !.listed = l]
    BY <1>0, <2>3 DEF FlowViews
  <2> QED
    BY <1>0, <1>15, <2>1, <2>2, <2>4, WindowDrawn, FlowShown
<1>16. ASSUME Flows!OpenAll \/ Flows!SetBoxes PROVE FlowsInv'
  BY <1>12, <1>15, <1>16 DEF Flows!OpenAll, Flows!SetBoxes
<1>17. ASSUME Flows!ClickListed PROVE FlowsInv'
  <2>1. view.listed \subseteq FlowKeys
    BY <1>0 DEF FlowViews
  <2> QED
    BY <1>13, <1>17, <2>1 DEF Flows!ClickListed, Flows!FoundListed
<1>18. ASSUME Flows!Close PROVE FlowsInv'
  <2>1. view' = [view EXCEPT !.window = "closed", !.about = None, !.boxes = Flows!AllBoxes, !.listed = {}]
    BY <1>0, <1>18 DEF Flows!Close, FlowViews
  <2>2. Flows!User /\ {} \in SUBSET FlowKeys /\ "closed" \in {"closed", "all", "detail"}
    BY <1>18 DEF Flows!Close
  <2>3. FlowInv(view') /\ view'.loading = view.loading
    BY <1>0, <1>12, <2>1, <2>2, WindowDrawn
  <2> QED
    BY <2>2, <2>3, FlowShown
<1> QED
  BY <1>4, <1>5, <1>6, <1>7, <1>9, <1>10, <1>11, <1>14, <1>16, <1>17, <1>18 DEF Flows!Next

\* The invariant holds when the panel is opened.
LEMMA FlowsStart == Flows!Init => FlowsInv
<1> SUFFICES ASSUME Flows!Init PROVE FlowsInv
  OBVIOUS
<1>1. view = [raw |-> {}, rows |-> {}, loading |-> FALSE, fresh |-> FALSE, window |-> "closed",
             boxes |-> Flows!AllBoxes, listed |-> {}, about |-> None, missed |-> FALSE]
      /\ flight = [s \in Slots |-> Flows!Unused] /\ server \in SUBSET FlowKeys /\ extra = FALSE
  BY DEF Flows!Init, Flows!NoRequests
<1>2. Flows!AllBoxes \in Flows!Boxes
  BY DEF Flows!AllBoxes, Flows!Boxes, Flows!Protocols, Flows!Groups
<1>3. view \in FlowViews
  BY <1>1, <1>2 DEF FlowViews
<1> QED
  BY <1>1, <1>3 DEF FlowsInv, FlowInv, FlowRequests

-----------------------------------------------------------------------------
(* Applications.                                                           *)

\* What the panel is given.
LEMMA AppsGiven ==
  None \notin Names /\ MaxAppChanges \in Nat
BY PageAssumption

\* The state of the panel that the page keeps.
AppViews ==
  [apps : Apps!Known, selected : Apps!Opt, detail : Apps!Opt, loading : BOOLEAN, start : BOOLEAN, edit : BOOLEAN]

\* Requests for the list, which may ask for the detail of an application then.
AppLists == [ask : {"apps"}, then : Apps!Opt, answer : Apps!Known, made : BOOLEAN]

\* Requests for the detail of an application.
AppDetails == [ask : {"detail"}, name : Names, then : Apps!Opt]

\* Saves, deletions and starts.
AppOrders == [ask : {"save", "delete", "start"}, old : Apps!Opt, name : Apps!Opt, done : BOOLEAN]

\* What a slot of the panel may hold.
AppRequests == {Apps!Unused} \cup AppLists \cup AppDetails \cup AppOrders

\* The history variables of the panel.
AppPast == [answered : Apps!Opt, excused : BOOLEAN, changes : 0 .. MaxAppChanges]

\* The buttons are those of the selected application.
ButtonsOf(p) ==
  p.selected # None =>
    /\ p.edit => p.selected \in Apps!Listed(p.apps)
    /\ p.start => p.apps[p.selected] = "on"

\* The last detail that was taken is that of the selected application.
Answered(p, a) == a # None => a = p.selected /\ p.detail = p.selected

\* The detail of the selected application is asked for while it loads.
Explained(p, fl, excused) ==
  p.selected # None /\ p.loading =>
    \/ \E s \in Slots : fl[s].ask = "detail" /\ fl[s].name = p.selected
    \/ excused

\* The inductive invariant of the panel.
AppsInv ==
  /\ view \in AppViews /\ ButtonsOf(view)
  /\ flight \in [Slots -> AppRequests]
  /\ server \in Apps!Known
  /\ extra \in AppPast
  /\ Answered(view, extra.answered)
  /\ Explained(view, flight, extra.excused)

\* The invariant implies the types and the properties of the panel.
LEMMA AppsMean == AppsInv => Apps!TypeOK /\ Apps!DetailStays /\ Apps!ButtonsAgree /\ Apps!LoadingExplained
<1> SUFFICES ASSUME AppsInv PROVE Apps!TypeOK /\ Apps!DetailStays /\ Apps!ButtonsAgree /\ Apps!LoadingExplained
  OBVIOUS
<1>1. Apps!TypeOK
  BY DEF AppsInv, AppViews, AppRequests, AppLists, AppDetails, AppOrders, AppPast, Apps!TypeOK
<1>2. Apps!DetailStays
  BY DEF AppsInv, Answered, Apps!DetailStays
<1>3. Apps!ButtonsAgree
  BY DEF AppsInv, ButtonsOf, Apps!ButtonsAgree
<1>4. Apps!Shows(view) = "loading" => view.selected # None /\ view.loading
  BY DEF Apps!Shows
<1>5. Apps!LoadingExplained
  BY <1>4 DEF AppsInv, Explained, Apps!LoadingExplained, Apps!Awaits
<1> QED
  BY <1>1, <1>2, <1>3, <1>5

\* renderApps with the list it has got, whoever asked for it.
LEMMA RenderedKeeps ==
  ASSUME NEW p \in AppViews
  PROVE  /\ Apps!Rendered(p) \in AppViews /\ ButtonsOf(Apps!Rendered(p))
         /\ Apps!Rendered(p).selected = p.selected /\ Apps!Rendered(p).detail = p.detail
         /\ Apps!Rendered(p).apps = p.apps /\ Apps!Rendered(p).loading = p.loading
<1> DEFINE edit == p.selected \in Apps!Listed(p.apps)
           start == edit /\ p.apps[p.selected] = "on"
           r == [p EXCEPT !.edit = edit, !.start = start]
<1>1. Apps!Rendered(p) = r
  BY DEF Apps!Rendered
<1>2. edit \in BOOLEAN /\ start \in BOOLEAN
  OBVIOUS
<1>3. (edit => p.selected \in Apps!Listed(p.apps)) /\ (start => p.apps[p.selected] = "on")
  OBVIOUS
<1> HIDE DEF edit, start
<1>4. r \in AppViews
  BY <1>2 DEF AppViews
<1>5. r.selected = p.selected /\ r.detail = p.detail /\ r.apps = p.apps
  BY <1>2 DEF AppViews
<1>6. r.loading = p.loading
  BY <1>2 DEF AppViews
<1>7. r.edit = edit
  BY <1>2 DEF AppViews
<1>8. r.start = start
  BY <1>2 DEF AppViews
<1> HIDE DEF r
<1>9. ButtonsOf(r)
  BY <1>3, <1>5, <1>7, <1>8 DEF ButtonsOf
<1> QED
  BY <1>1, <1>4, <1>5, <1>6, <1>9

\* An application is selected, and its detail asked for unless it is there.
LEMMA SelectKeeps ==
  ASSUME AppsInv, NEW p \in AppViews, NEW n \in Names, NEW s \in Slots, NEW then \in Apps!Opt,
         NEW force \in BOOLEAN, Apps!Select(p, n, s, then, force), server' = server,
         p.selected = n => Answered(p, extra.answered)
  PROVE  AppsInv'
<1> DEFINE c == Apps!Rendered([p EXCEPT !.selected = n])
           l == [c EXCEPT !.loading = TRUE]
           q == [ask |-> "detail", name |-> n, then |-> then]
           a == IF p.selected = n THEN extra.answered ELSE None
           e == c.loading /\ (extra.excused \/ (~force /\ p.detail = n))
<1>0. /\ flight \in [Slots -> AppRequests]
      /\ server \in Apps!Known
  BY DEF AppsInv
<1>1. extra \in AppPast
  BY DEF AppsInv
<1>2. /\ view' = IF force \/ p.detail # n THEN l ELSE c
      /\ flight' = IF force \/ p.detail # n THEN [flight EXCEPT ![s] = q] ELSE flight
      /\ extra' = [extra EXCEPT !.answered = a, !.excused = e]
  BY DEF Apps!Select
<1>3. [p EXCEPT !.selected = n] \in AppViews /\ [p EXCEPT !.selected = n].selected = n
      /\ [p EXCEPT !.selected = n].detail = p.detail
  BY DEF AppViews, Apps!Opt
<1>4. c \in AppViews /\ ButtonsOf(c) /\ c.selected = n /\ c.detail = p.detail
  BY <1>3, RenderedKeeps
<1>5. q \in AppRequests /\ q.ask = "detail" /\ q.name = n
  BY DEF AppRequests, AppDetails
<1>6. a \in Apps!Opt
  BY <1>1 DEF AppPast, Apps!Opt
<1>7. e \in BOOLEAN
  BY <1>1, <1>4 DEF AppPast, AppViews
<1>8. extra' \in AppPast
  BY <1>1, <1>2, <1>6, <1>7 DEF AppPast
<1>9. extra'.answered = a
  BY <1>1, <1>2 DEF AppPast
<1>10. extra'.excused = e
  BY <1>1, <1>2, <1>7 DEF AppPast
<1>11. Answered(c, a)
  BY <1>4 DEF Answered
<1>12. ~force /\ p.detail = n /\ c.loading => e
  OBVIOUS
<1> HIDE DEF c, q, a, e
<1>13. l \in AppViews /\ ButtonsOf(l) /\ l.selected = n /\ l.detail = p.detail
  <2>1. l \in AppViews
    BY <1>4 DEF AppViews
  <2>2. l.selected = n /\ l.detail = p.detail /\ l.apps = c.apps
    BY <1>4 DEF AppViews
  <2>3. l.edit = c.edit /\ l.start = c.start
    BY <1>4 DEF AppViews
  <2> HIDE DEF l
  <2> QED
    BY <1>4, <2>1, <2>2, <2>3 DEF ButtonsOf
<1> HIDE DEF l
<1>14. view' \in AppViews /\ ButtonsOf(view') /\ view'.selected = n /\ view'.detail = p.detail
  BY <1>2, <1>4, <1>13
<1>15. flight' \in [Slots -> AppRequests]
  BY <1>0, <1>2, <1>5
<1>16. Answered(view', extra'.answered)
  BY <1>4, <1>9, <1>11, <1>14 DEF Answered
<1>17. Explained(view', flight', extra'.excused)
  <2>1. CASE force \/ p.detail # n
    <3>1. flight'[s] = q
      BY <1>0, <1>2, <2>1
    <3> QED
      BY <1>5, <1>14, <3>1 DEF Explained
  <2>2. CASE ~(force \/ p.detail # n)
    BY <1>2, <1>10, <1>12, <2>2 DEF Explained
  <2> QED
    BY <2>1, <2>2
<1> QED
  BY <1>0, <1>8, <1>14, <1>15, <1>16, <1>17 DEF AppsInv

\* The same application stays selected, with its detail.
LEMMA SameApp ==
  ASSUME AppsInv, view' \in AppViews, ButtonsOf(view'),
         view'.selected = view.selected, view'.detail = view.detail, view'.loading = view.loading,
         flight' \in [Slots -> AppRequests],
         \A t \in Slots : flight[t].ask = "detail" => flight'[t] = flight[t] \/ extra'.excused,
         server' \in Apps!Known,
         extra' \in AppPast, extra'.answered = extra.answered, extra.excused => extra'.excused
  PROVE  AppsInv'
BY DEF AppsInv, Answered, Explained

\* A request takes a free slot and leaves the others.
LEMMA AppSent ==
  ASSUME AppsInv, Apps!Room(flight), NEW q \in AppRequests
  PROVE  /\ Apps!Send(flight, q) \in [Slots -> AppRequests]
         /\ \A t \in Slots : flight[t].ask = "detail" => Apps!Send(flight, q)[t] = flight[t]
<1>1. flight \in [Slots -> AppRequests]
  BY DEF AppsInv
<1>2. PICK s \in Slots : flight[s] = Apps!Unused /\ Apps!Send(flight, q) = [flight EXCEPT ![s] = q]
  BY DEF Apps!Room, Apps!Send
<1>3. flight[s].ask # "detail"
  BY <1>2 DEF Apps!Unused
<1> QED
  BY <1>1, <1>2, <1>3

\* Every step of the panel keeps its invariant.
LEMMA AppsSteps == AppsInv /\ Apps!Next => AppsInv'
<1> SUFFICES ASSUME AppsInv, Apps!Next PROVE AppsInv'
  OBVIOUS
<1>0. view \in AppViews /\ ButtonsOf(view)
  BY DEF AppsInv
<1>1. flight \in [Slots -> AppRequests] /\ Apps!Unused \in AppRequests
  BY DEF AppsInv, AppRequests
<1>2. server \in Apps!Known
  BY DEF AppsInv
<1>3. extra \in AppPast
  BY DEF AppsInv
<1>4. Answered(view, extra.answered)
  BY DEF AppsInv
<1>5. \A then \in Apps!Opt : Apps!AskApps(then) \in AppRequests /\ Apps!AskApps(then).ask = "apps"
  BY DEF Apps!AskApps, AppRequests, AppLists, Apps!Nothing, Apps!Known
<1>6. None \in Apps!Opt /\ Names \subseteq Apps!Opt
  BY DEF Apps!Opt
<1>7. ASSUME NEW force \in BOOLEAN, Apps!Load(force), Apps!Room(flight) PROVE AppsInv'
  <2>1. server' = server /\ extra' = extra
    BY <1>7 DEF Apps!Load
  <2>2. CASE view' = Apps!Rendered(view) /\ flight' = flight
    BY <1>0, <1>1, <1>2, <1>3, <2>1, <2>2, RenderedKeeps, SameApp
  <2>3. CASE view' = view /\ flight' = Apps!Send(flight, Apps!AskApps(None))
    BY <1>0, <1>2, <1>3, <1>5, <1>6, <1>7, <2>1, <2>3, AppSent, SameApp
  <2> QED
    BY <1>7, <2>2, <2>3 DEF Apps!Load
<1>8. ASSUME NEW n \in Names, NEW force \in BOOLEAN, Apps!ClickRow(n, force), Apps!Room(flight) PROVE AppsInv'
  <2>1. PICK s \in Slots : s = Apps!FreeSlot
    BY <1>8 DEF Apps!Room, Apps!FreeSlot
  <2>2. Apps!Select(view, n, s, None, force) /\ server' = server
    BY <1>8, <2>1 DEF Apps!ClickRow
  <2> QED
    BY <1>0, <1>4, <1>6, <2>2, SelectKeeps
<1>9. ASSUME NEW ask \in {"save", "delete", "start"}, NEW old \in Apps!Opt, NEW new \in Apps!Opt,
             Apps!Change(ask, old, new), Apps!Room(flight)
      PROVE  AppsInv'
  <2> DEFINE q == [ask |-> ask, old |-> old, name |-> new, done |-> FALSE]
  <2>1. q \in AppRequests
    BY DEF AppRequests, AppOrders
  <2>2. view' = view /\ server' = server /\ flight' = Apps!Send(flight, q)
        /\ extra' = [extra EXCEPT !.changes = @ + 1] /\ extra.changes < MaxAppChanges
    BY <1>9 DEF Apps!Change
  <2> HIDE DEF q
  <2>3. extra' \in AppPast
    BY <1>3, <2>2, AppsGiven DEF AppPast
  <2>4. extra'.answered = extra.answered
    BY <1>3, <2>2 DEF AppPast
  <2>5. extra'.excused = extra.excused
    BY <1>3, <2>2 DEF AppPast
  <2> QED
    BY <1>0, <1>2, <1>9, <2>1, <2>2, <2>3, <2>4, <2>5, AppSent, SameApp
<1>10. ASSUME Apps!Start \/ Apps!Delete \/ Apps!Save, Apps!Room(flight) PROVE AppsInv'
  <2>1. view.selected \in Apps!Opt
    BY <1>0 DEF AppViews
  <2> QED
    BY <1>6, <1>9, <1>10, <2>1 DEF Apps!Start, Apps!Delete, Apps!Save
<1>11. ASSUME NEW s \in Slots, Apps!Serve(s) PROVE AppsInv'
  <2>1. view' = view /\ extra' = extra
    BY <1>11 DEF Apps!Serve
  <2>2. ASSUME NEW q \in AppRequests, flight[s].ask # "detail", flight' = [flight EXCEPT ![s] = q],
               server' \in Apps!Known
        PROVE  AppsInv'
    BY <1>0, <1>1, <1>3, <2>1, <2>2, SameApp
  <2>3. CASE /\ flight[s].ask = "apps"
             /\ flight' = [flight EXCEPT ![s].answer = server, ![s].made = TRUE]
             /\ UNCHANGED server
    <3>1. flight[s] \in AppLists
      BY <1>1, <2>3 DEF AppRequests, AppDetails, AppOrders, Apps!Unused
    <3> DEFINE q == [flight[s] EXCEPT !.answer = server, !.made = TRUE]
    <3>2. q \in AppLists
      BY <1>2, <3>1 DEF AppLists
    <3>3. q \in AppRequests
      BY <3>2 DEF AppRequests
    <3>4. flight' = [flight EXCEPT ![s] = q]
      BY <1>1, <2>3
    <3> HIDE DEF q
    <3> QED
      BY <1>2, <2>2, <2>3, <3>3, <3>4
  <2>4. CASE /\ flight[s].ask \in {"save", "delete", "start"}
             /\ flight' = [flight EXCEPT ![s].done = TRUE]
    <3>1. flight[s] \in AppOrders
      BY <1>1, <2>4 DEF AppRequests, AppDetails, AppLists, Apps!Unused
    <3> DEFINE q == [flight[s] EXCEPT !.done = TRUE]
    <3>2. q \in AppOrders
      BY <1>2, <3>1 DEF AppOrders
    <3>3. q \in AppRequests
      BY <3>2 DEF AppRequests
    <3>4. flight' = [flight EXCEPT ![s] = q]
      BY <1>1, <2>4
    <3>5. \A known \in Apps!Known : \A n : Apps!Without(known, n) \in Apps!Known
      BY DEF Apps!Known, Apps!Without
    <3>6. server' \in Apps!Known
      <4>1. CASE \E state \in {"on", "off"} :
                   server' = [(IF flight[s].old = None THEN server ELSE Apps!Without(server, flight[s].old))
                                EXCEPT ![flight[s].name] = state]
        <5>1. PICK known \in Apps!Known, state \in {"on", "off"} : server' = [known EXCEPT ![flight[s].name] = state]
          BY <1>2, <3>5, <4>1
        <5> QED
          BY <5>1 DEF Apps!Known
      <4> QED
        BY <1>2, <1>11, <2>4, <3>5, <4>1 DEF Apps!Serve
    <3> HIDE DEF q
    <3> QED
      BY <2>2, <2>4, <3>3, <3>4, <3>6
  <2> QED
    BY <1>11, <2>3, <2>4 DEF Apps!Serve
<1>12. ASSUME NEW s \in Slots, Apps!AppsArrive(s) PROVE AppsInv'
  <2>1. flight[s] \in AppLists
    BY <1>1, <1>12 DEF Apps!AppsArrive, AppRequests, AppDetails, AppOrders, Apps!Unused
  <2>2. flight[s].answer \in Apps!Known /\ flight[s].then \in Apps!Opt
    BY <2>1 DEF AppLists
  <2> DEFINE v == [view EXCEPT !.apps = flight[s].answer]
             p == Apps!Rendered(v)
             then == flight[s].then
             next == IF p.selected \in Apps!Listed(p.apps) THEN p.selected
                     ELSE IF Apps!Listed(p.apps) = {} THEN None ELSE CHOOSE n \in Apps!Listed(p.apps) : TRUE
             w == [p EXCEPT !.selected = None, !.detail = None, !.loading = FALSE]
             empty == Apps!Rendered(w)
  <2>3. v \in AppViews /\ v.selected = view.selected /\ v.detail = view.detail
    BY <1>0, <2>2 DEF AppViews
  <2>4. p \in AppViews /\ p.selected = view.selected /\ p.detail = view.detail
    BY <2>3, RenderedKeeps
  <2>5. next # None => next \in Names
    BY DEF Apps!Listed
  <2>6. w \in AppViews /\ w.selected = None /\ w.detail = None
    BY <1>6, <2>4 DEF AppViews
  <2>7. w.loading = FALSE
    BY <1>6, <2>4 DEF AppViews
  <2>8. empty \in AppViews /\ ButtonsOf(empty) /\ empty.selected = None /\ empty.loading = FALSE
    BY <2>6, <2>7, RenderedKeeps
  <2>9. /\ server' = server
        /\ IF next # None THEN Apps!Select(p, next, s, then, TRUE)
           ELSE IF then # None THEN Apps!Select(empty, then, s, None, TRUE)
           ELSE /\ view' = empty
                /\ flight' = Apps!Over(flight, s)
                /\ extra' = [extra EXCEPT !.answered = None, !.excused = FALSE]
    BY <1>12 DEF Apps!AppsArrive
  <2> HIDE DEF v, p, next, w, empty, then
  <2>10. then \in Apps!Opt
    BY <2>2 DEF then
  <2>11. CASE next # None
    <3>1. Answered(p, extra.answered)
      BY <1>4, <2>4 DEF Answered
    <3> QED
      BY <2>4, <2>5, <2>9, <2>10, <2>11, <3>1, SelectKeeps
  <2>12. CASE next = None /\ then # None
    <3>1. then \in Names
      BY <2>10, <2>12 DEF Apps!Opt
    <3> QED
      BY <1>6, <2>8, <2>9, <2>12, <3>1, SelectKeeps
  <2>13. CASE next = None /\ then = None
    <3>1. view' = empty /\ flight' = Apps!Over(flight, s)
          /\ extra' = [extra EXCEPT !.answered = None, !.excused = FALSE]
      BY <2>9, <2>13
    <3>2. extra' \in AppPast /\ extra'.answered = None
      BY <1>3, <1>6, <3>1 DEF AppPast
    <3>3. flight' \in [Slots -> AppRequests]
      BY <1>1, <3>1 DEF Apps!Over
    <3> QED
      BY <1>2, <2>8, <2>9, <3>1, <3>2, <3>3 DEF AppsInv, Answered, Explained
  <2> QED
    BY <2>11, <2>12, <2>13
<1>13. ASSUME NEW s \in Slots, Apps!DetailArrives(s) PROVE AppsInv'
  <2>1. flight[s] \in AppDetails
    BY <1>1, <1>13 DEF Apps!DetailArrives, AppRequests, AppLists, AppOrders, Apps!Unused
  <2>2. PICK n \in Names, then \in Apps!Opt : n = flight[s].name /\ then = flight[s].then
    BY <2>1 DEF AppDetails
  <2> DEFINE took == IF view.selected = n THEN [view EXCEPT !.detail = n, !.loading = FALSE] ELSE view
  <2>3. took \in AppViews /\ took.selected = view.selected /\ took.apps = view.apps
        /\ took.detail = IF view.selected = n THEN n ELSE view.detail
    BY <1>0, <1>6 DEF AppViews
  <2>4. took.edit = view.edit /\ took.start = view.start
    BY <1>0 DEF AppViews
  <2>5. took.loading = IF view.selected = n THEN FALSE ELSE view.loading
    BY <1>0 DEF AppViews
  <2>6. /\ server' = server
        /\ IF then # None THEN Apps!Select(took, then, s, None, TRUE)
           ELSE /\ view' = took
                /\ flight' = Apps!Over(flight, s)
                /\ extra' = [extra EXCEPT !.answered = IF view.selected = n THEN n ELSE @,
                                          !.excused = @ /\ took.loading]
    BY <1>13, <2>2 DEF Apps!DetailArrives, Apps!Takes
  <2> HIDE DEF took
  <2>7. Answered(took, extra.answered)
    BY <1>4, <2>3 DEF Answered
  <2>8. CASE then # None
    <3>1. then \in Names
      BY <2>8 DEF Apps!Opt
    <3> QED
      BY <1>6, <2>3, <2>6, <2>7, <2>8, <3>1, SelectKeeps
  <2>9. CASE then = None
    <3> DEFINE a == IF view.selected = n THEN n ELSE extra.answered
               e == extra.excused /\ took.loading
    <3>1. view' = took /\ flight' = Apps!Over(flight, s) /\ extra' = [extra EXCEPT !.answered = a, !.excused = e]
      BY <2>6, <2>9
    <3>2. a \in Apps!Opt
      BY <1>3, <1>6 DEF AppPast
    <3>3. e \in BOOLEAN
      BY <1>3, <2>3 DEF AppPast, AppViews
    <3>4. Answered(took, a)
      BY <2>3, <2>7 DEF Answered
    <3>5. took.loading /\ extra.excused => e
      OBVIOUS
    <3> HIDE DEF a, e
    <3>6. extra' \in AppPast
      BY <1>3, <3>1, <3>2, <3>3 DEF AppPast
    <3>7. extra'.answered = a
      BY <1>3, <3>1 DEF AppPast
    <3>8. extra'.excused = e
      BY <1>3, <3>1, <3>3 DEF AppPast
    <3>9. flight' \in [Slots -> AppRequests] /\ \A t \in Slots : t # s => flight'[t] = flight[t]
      BY <1>1, <3>1 DEF Apps!Over
    <3>10. ButtonsOf(took)
      BY <1>0, <2>3, <2>4 DEF ButtonsOf
    <3>11. Explained(took, flight', extra'.excused)
      <4>1. took.loading => view.selected # n /\ view.loading
        BY <2>5
      <4>2. Explained(view, flight, extra.excused)
        BY DEF AppsInv
      <4> QED
        BY <2>2, <2>3, <3>5, <3>8, <3>9, <4>1, <4>2 DEF Explained
    <3> QED
      BY <1>2, <2>3, <2>6, <3>1, <3>4, <3>6, <3>7, <3>9, <3>10, <3>11 DEF AppsInv
  <2> QED
    BY <2>8, <2>9
<1>14. ASSUME NEW s \in Slots, Apps!DetailRefused(s) PROVE AppsInv'
  <2>1. view' = [view EXCEPT !.loading = FALSE] /\ flight' = Apps!Over(flight, s)
        /\ extra' = [extra EXCEPT !.excused = FALSE] /\ server' = server
    BY <1>14 DEF Apps!DetailRefused, Apps!NotLoading
  <2>2. view' \in AppViews
    BY <1>0, <2>1 DEF AppViews
  <2>3. view'.selected = view.selected /\ view'.detail = view.detail /\ view'.apps = view.apps
    BY <1>0, <2>1 DEF AppViews
  <2>4. view'.edit = view.edit /\ view'.start = view.start
    BY <1>0, <2>1 DEF AppViews
  <2>5. view'.loading = FALSE
    BY <1>0, <2>1 DEF AppViews
  <2>6. extra' \in AppPast /\ extra'.answered = extra.answered
    BY <1>3, <2>1 DEF AppPast
  <2>7. flight' \in [Slots -> AppRequests]
    BY <1>1, <2>1 DEF Apps!Over
  <2>8. ButtonsOf(view')
    BY <1>0, <2>3, <2>4 DEF ButtonsOf
  <2> QED
    BY <1>2, <1>4, <2>1, <2>2, <2>3, <2>5, <2>6, <2>7, <2>8 DEF AppsInv, Answered, Explained
<1>15. ASSUME NEW s \in Slots, Apps!Changed(s) PROVE AppsInv'
  <2>1. flight[s] \in AppOrders
    BY <1>1, <1>15 DEF Apps!Changed, AppRequests, AppLists, AppDetails, Apps!Unused
  <2>2. flight[s].name \in Apps!Opt /\ flight[s].ask # "detail"
    BY <2>1 DEF AppOrders
  <2>3. PICK q \in AppRequests : q = Apps!AskApps(flight[s].name)
    BY <1>5, <2>2
  <2>4. flight' = [flight EXCEPT ![s] = q] /\ server' = server
        /\ extra' = IF view'.selected = view.selected THEN extra ELSE [extra EXCEPT !.answered = None]
    BY <1>15, <2>3 DEF Apps!Changed
  <2>5. flight' \in [Slots -> AppRequests] /\ \A t \in Slots : flight[t].ask = "detail" => flight'[t] = flight[t]
    BY <1>1, <2>2, <2>4
  <2>6. CASE view' = view
    BY <1>0, <1>2, <1>3, <2>4, <2>5, <2>6, SameApp
  <2>7. CASE view' = [view EXCEPT !.selected = None, !.detail = None]
    <3>1. view' \in AppViews /\ view'.selected = None /\ view'.detail = None
      BY <1>0, <1>6, <2>7 DEF AppViews
    <3>2. extra' \in AppPast /\ (extra'.answered = None \/ (extra' = extra /\ view.selected = None))
      <4> DEFINE e == [extra EXCEPT !.answered = None]
      <4>1. (extra' = extra /\ view.selected = None) \/ extra' = e
        BY <2>4, <3>1
      <4>2. e \in AppPast /\ e.answered = None
        BY <1>3, <1>6 DEF AppPast
      <4> HIDE DEF e
      <4> QED
        BY <1>3, <4>1, <4>2
    <3>3. Answered(view', extra'.answered)
      BY <1>4, <3>1, <3>2 DEF Answered
    <3> QED
      BY <1>2, <2>4, <2>5, <3>1, <3>2, <3>3 DEF AppsInv, ButtonsOf, Explained
  <2> QED
    BY <1>15, <2>6, <2>7 DEF Apps!Changed, Apps!Deselected
<1>16. ASSUME NEW s \in Slots, Apps!Fails(s) PROVE AppsInv'
  <2>1. /\ flight' = Apps!Over(flight, s) /\ view' = view /\ server' = server
        /\ extra' = IF flight[s].ask = "detail" THEN [extra EXCEPT !.excused = TRUE] ELSE extra
    BY <1>16 DEF Apps!Fails
  <2>2. flight' \in [Slots -> AppRequests] /\ \A t \in Slots : t # s => flight'[t] = flight[t]
    BY <1>1, <2>1 DEF Apps!Over
  <2>3. extra' \in AppPast /\ extra'.answered = extra.answered
    BY <1>3, <2>1 DEF AppPast
  <2>4. extra.excused => extra'.excused
    BY <1>3, <2>1 DEF AppPast
  <2>5. flight[s].ask = "detail" => extra'.excused
    BY <1>3, <2>1 DEF AppPast
  <2> QED
    BY <1>0, <1>2, <2>1, <2>2, <2>3, <2>4, <2>5, SameApp
<1> QED
  BY <1>7, <1>8, <1>10, <1>11, <1>12, <1>13, <1>14, <1>15, <1>16 DEF Apps!Next

\* The invariant holds when the panel is opened.
LEMMA AppsStart == Apps!Init => AppsInv
<1> SUFFICES ASSUME Apps!Init PROVE AppsInv
  OBVIOUS
<1>1. view = [apps |-> Apps!Nothing, selected |-> None, detail |-> None, loading |-> FALSE,
              start |-> FALSE, edit |-> FALSE]
      /\ flight = [s \in Slots |-> Apps!Unused] /\ server \in Apps!Known
      /\ extra = [answered |-> None, excused |-> FALSE, changes |-> 0]
  BY DEF Apps!Init, Apps!NoRequests
<1>2. view \in AppViews /\ view.selected = None
  BY <1>1 DEF AppViews, Apps!Opt, Apps!Known, Apps!Nothing
<1>3. extra \in AppPast /\ extra.answered = None
  BY <1>1, AppsGiven DEF AppPast, Apps!Opt
<1>4. flight \in [Slots -> AppRequests]
  BY <1>1 DEF AppRequests
<1> QED
  BY <1>1, <1>2, <1>3, <1>4 DEF AppsInv, ButtonsOf, Answered, Explained

-----------------------------------------------------------------------------
(* Remote desktop.                                                         *)

\* What the panel is given.
LEMMA RemoteGiven ==
  None \notin 1 .. MaxSockets
BY PageAssumption

\* The state of the panel that the page keeps.
RemoteViews ==
  [meta : {"unknown", "available", "unavailable"}, ws : Remote!Ids \cup {None},
   connected : BOOLEAN, manual : BOOLEAN, timer : BOOLEAN, connect : BOOLEAN, disconnect : BOOLEAN, mouse : BOOLEAN]

\* The state of every socket there has been.
RemoteSockets == [Remote!Ids -> {"new", "connecting", "open", "closing", "closed"}]

\* What a slot of the panel may hold.
RemoteRequests == {Remote!Unused} \cup [ask : {"meta"}, for : {"page", "button"}]

\* How the user holds the buttons of the mouse.
RemoteHeld == [Remote!MouseButtons -> {"up", "down", "away"}]

\* The history variables of the remote desktop.
RemotePast ==
  [wanted : BOOLEAN, denied : BOOLEAN, held : [Remote!MouseButtons -> {"up", "down", "away"}],
   pressed : SUBSET Remote!MouseButtons, lost : SUBSET Remote!MouseButtons, shared : BOOLEAN]

\* The socket that is listed, and what the page says of it.
SocketInv(r, so, denied) ==
  /\ \A i \in Remote!Ids : so[i] \in {"connecting", "open"} => r.ws = i
  /\ r.connected => r.ws # None /\ so[r.ws] \in {"open", "closing"}
  /\ r.connected /\ ~denied => r.disconnect /\ ~r.connect

\* A desktop is wanted from its first socket on, until it is given up; there
\* is data about one that is wanted, and it has a socket or a timer.
WantedInv(r, wanted) ==
  /\ wanted => r.meta # "unknown" /\ ~r.manual /\ (r.ws # None \/ r.timer)
  /\ ~wanted => r.ws = None /\ ~r.timer

\* A button that is down on the machine, and not by a connection that ended,
\* is so over a connection; the page knows of the left one that is held,
\* until another one comes up.
MouseInv(r, p) ==
  /\ \A b \in p.pressed \ p.lost :
       /\ r.connected
       /\ p.held[b] = "down" \/ (p.held[b] = "away" /\ (b = "left" => p.shared))
  /\ p.held["left"] = "down" => r.mouse \/ p.shared

\* The inductive invariant of the panel.
RemoteInv ==
  /\ view \in RemoteViews
  /\ flight \in [Slots -> RemoteRequests]
  /\ server \in RemoteSockets
  /\ extra \in RemotePast
  /\ SocketInv(view, server, extra.denied)
  /\ WantedInv(view, extra.wanted)
  /\ MouseInv(view, extra)

\* The invariant implies the types and the properties of the panel.
LEMMA RemoteMean == RemoteInv => Remote!TypeOK /\ Remote!OneDesktop /\ Remote!ComesBack /\ Remote!ButtonReleased
<1> SUFFICES ASSUME RemoteInv PROVE Remote!TypeOK /\ Remote!OneDesktop /\ Remote!ComesBack /\ Remote!ButtonReleased
  OBVIOUS
<1>1. Remote!TypeOK
  BY DEF RemoteInv, RemoteViews, RemoteSockets, RemoteRequests, RemotePast, Remote!TypeOK
<1>2. Remote!OneDesktop
  BY DEF RemoteInv, SocketInv, Remote!OneDesktop, Remote!Live
<1>3. Remote!ComesBack
  BY DEF RemoteInv, WantedInv, Remote!ComesBack
<1>4. Remote!ButtonReleased
  BY DEF RemoteInv, MouseInv, Remote!ButtonReleased
<1> QED
  BY <1>1, <1>2, <1>3, <1>4

\* A connection that ends, and what stays of the history.
Ended(p) ==
  /\ p \in RemotePast
  /\ p.denied = extra.denied /\ p.held = extra.held /\ p.shared = extra.shared
  /\ p.pressed \ p.lost = {}

\* It ends, and whether the desktop is wanted after it.
LEMMA EndsKeeps ==
  ASSUME extra \in RemotePast, NEW b \in BOOLEAN
  PROVE  /\ Ended(Remote!Ends) /\ Remote!Ends.wanted = extra.wanted
         /\ Ended([Remote!Ends EXCEPT !.wanted = b]) /\ [Remote!Ends EXCEPT !.wanted = b].wanted = b
<1> DEFINE l == extra.lost \cup extra.pressed
           e == [extra EXCEPT !.lost = l]
           f == [e EXCEPT !.wanted = b]
<1>1. l \in SUBSET Remote!MouseButtons /\ extra.pressed \ l = {}
  BY DEF RemotePast
<1>2. Remote!Ends = e
  BY DEF Remote!Ends
<1> HIDE DEF l
<1>3. e \in RemotePast
  BY <1>1 DEF RemotePast
<1>4. e.wanted = extra.wanted /\ e.pressed = extra.pressed /\ e.lost = l
  BY <1>1 DEF RemotePast
<1>5. e.denied = extra.denied /\ e.held = extra.held /\ e.shared = extra.shared
  BY <1>1 DEF RemotePast
<1> HIDE DEF e
<1>6. f \in RemotePast
  BY <1>3 DEF RemotePast
<1>7. f.wanted = b /\ f.pressed = e.pressed /\ f.lost = e.lost
  BY <1>3 DEF RemotePast
<1>8. f.denied = e.denied /\ f.held = e.held /\ f.shared = e.shared
  BY <1>3 DEF RemotePast
<1> HIDE DEF f
<1> QED
  BY <1>1, <1>2, <1>3, <1>4, <1>5, <1>6, <1>7, <1>8 DEF Ended, f

\* The mouse when a connection has ended.
LEMMA EndedMouse ==
  ASSUME MouseInv(view, extra), NEW r, r.mouse = view.mouse, NEW p, Ended(p)
  PROVE  MouseInv(r, p)
BY DEF MouseInv, Ended

\* A socket is made and listed, and no other one is live.
LEMMA DialedKeeps ==
  ASSUME RemoteInv, NEW r \in RemoteViews, NEW so \in RemoteSockets, NEW i \in Remote!Ids,
         r.meta # "unknown", ~r.manual, ~r.connected, r.ws = i, r.mouse = view.mouse,
         \A j \in Remote!Ids : so[j] \notin {"connecting", "open"},
         view' = r, server' = [so EXCEPT ![i] = "connecting"],
         Ended(extra'), extra'.wanted,
         flight' \in [Slots -> RemoteRequests]
  PROVE  RemoteInv'
<1>1. server' \in RemoteSockets
  BY DEF RemoteSockets
<1>2. \A j \in Remote!Ids : server'[j] \in {"connecting", "open"} => j = i
  BY DEF RemoteSockets
<1>3. i # None
  BY RemoteGiven DEF Remote!Ids
<1>4. MouseInv(view', extra')
  BY EndedMouse DEF RemoteInv
<1>5. extra' \in RemotePast
  BY DEF Ended
<1>6. SocketInv(view', server', extra'.denied) /\ WantedInv(view', extra'.wanted)
  BY <1>2, <1>3 DEF SocketInv, WantedInv
<1> QED
  BY <1>1, <1>4, <1>5, <1>6 DEF RemoteInv

\* connectRemoteTerminal throws.
LEMMA RefusedFacts ==
  ASSUME NEW r \in RemoteViews, NEW reason
  PROVE  /\ Remote!Refused(r, reason) \in RemoteViews
         /\ \E q \in RemoteViews : /\ q = Remote!Refused(r, reason)
                                   /\ q.ws = r.ws /\ q.meta = r.meta /\ q.manual = r.manual /\ q.mouse = r.mouse
                                   /\ q.connected = r.connected /\ q.connect = r.connect
                                   /\ q.disconnect = r.disconnect
                                   /\ (q.timer <=> r.timer \/ reason = "timer")
<1> DEFINE t == r.timer \/ reason = "timer"
           q == [r EXCEPT !.timer = t]
<1>1. t \in BOOLEAN /\ (t <=> r.timer \/ reason = "timer")
  OBVIOUS
<1>2. Remote!Refused(r, reason) = q
  BY DEF Remote!Refused
<1> HIDE DEF t
<1>3. q \in RemoteViews /\ q.ws = r.ws /\ q.meta = r.meta
  BY <1>1 DEF RemoteViews
<1>4. q.manual = r.manual /\ q.mouse = r.mouse /\ q.connected = r.connected
  BY <1>1 DEF RemoteViews
<1>5. q.connect = r.connect /\ q.disconnect = r.disconnect
  BY <1>1 DEF RemoteViews
<1>6. q.timer = t
  BY <1>1 DEF RemoteViews
<1> HIDE DEF q
<1> QED
  BY <1>1, <1>2, <1>3, <1>4, <1>5, <1>6

\* connectRemoteTerminal once the data is there, for a timer that has fired or not.
LEMMA DialKeeps ==
  ASSUME RemoteInv, NEW r \in RemoteViews, NEW fl \in [Slots -> RemoteRequests],
         NEW reason, Remote!Dial(r, fl, reason),
         r.meta # "unknown", r.ws = view.ws, SocketInv(r, server, extra.denied),
         r.mouse = view.mouse, r.connected = view.connected,
         r.meta = "unavailable" =>
           \A q \in RemoteViews : /\ q.ws = r.ws /\ q.meta = r.meta /\ q.manual = r.manual
                                  /\ (q.timer <=> r.timer \/ reason = "timer")
                                  => WantedInv(q, extra.wanted),
         Remote!HasSocket(r) => WantedInv(r, extra.wanted)
  PROVE  RemoteInv'
<1>0. server \in RemoteSockets /\ SocketInv(view, server, extra.denied)
  BY DEF RemoteInv
<1>1. extra \in RemotePast /\ MouseInv(view, extra)
  BY DEF RemoteInv
<1>2. CASE r.meta = "unavailable" \/ Remote!HasSocket(r)
  <2>1. flight' = fl /\ server' = server /\ extra' = extra
    BY <1>2 DEF Remote!Dial
  <2>2. PICK q \in RemoteViews : view' = q /\ WantedInv(q, extra.wanted)
                                 /\ q.ws = r.ws /\ q.mouse = r.mouse /\ q.connected = r.connected
                                 /\ q.connect = r.connect /\ q.disconnect = r.disconnect
    <3>1. CASE r.meta = "unavailable"
      <4>1. view' = Remote!Refused(r, reason)
        BY <1>2, <3>1 DEF Remote!Dial
      <4>2. PICK q \in RemoteViews :
              /\ q = Remote!Refused(r, reason)
              /\ q.ws = r.ws /\ q.meta = r.meta /\ q.manual = r.manual /\ q.mouse = r.mouse
              /\ q.connected = r.connected /\ q.connect = r.connect
              /\ q.disconnect = r.disconnect
              /\ (q.timer <=> r.timer \/ reason = "timer")
        BY RefusedFacts
      <4>3. WantedInv(q, extra.wanted)
        BY <3>1, <4>2
      <4> QED
        BY <4>1, <4>2, <4>3
    <3>2. CASE r.meta # "unavailable"
      BY <1>2, <3>2 DEF Remote!Dial
    <3> QED
      BY <3>1, <3>2
  <2>3. SocketInv(q, server, extra.denied)
    BY <2>2 DEF SocketInv
  <2>4. MouseInv(q, extra)
    BY <1>1, <2>2 DEF MouseInv
  <2> QED
    BY <1>0, <1>1, <2>1, <2>2, <2>3, <2>4 DEF RemoteInv
<1>3. CASE ~(r.meta = "unavailable" \/ Remote!HasSocket(r))
  <2>1. PICK i \in Remote!Ids :
       /\ server[i] = "new"
       /\ server' = [server EXCEPT ![i] = "connecting"]
       /\ view' = Remote!Buttons([r EXCEPT !.ws = i, !.manual = FALSE, !.connected = FALSE, !.timer = FALSE],
                            FALSE)
       /\ extra' = [Remote!Ends EXCEPT !.wanted = TRUE]
    BY <1>3 DEF Remote!Dial
  <2>0. flight' = fl
    BY DEF Remote!Dial
  <2> DEFINE d == [r EXCEPT !.ws = i, !.manual = FALSE, !.connected = FALSE, !.timer = FALSE]
             e == [d EXCEPT !.connect = TRUE, !.disconnect = FALSE]
  <2>2. d \in RemoteViews /\ d.ws = i /\ d.meta = r.meta
    BY DEF RemoteViews
  <2>3. d.manual = FALSE /\ d.connected = FALSE /\ d.mouse = r.mouse
    BY DEF RemoteViews
  <2> HIDE DEF d
  <2>4. e \in RemoteViews /\ e.ws = d.ws /\ e.meta = d.meta
    BY <2>2 DEF RemoteViews
  <2>5. e.manual = d.manual /\ e.connected = d.connected /\ e.mouse = d.mouse
    BY <2>2 DEF RemoteViews
  <2>6. view' = e
    BY <2>1 DEF Remote!Buttons, d
  <2> HIDE DEF e
  <2>8. \A j \in Remote!Ids : server[j] \notin {"connecting", "open"}
    <3>1. \A j \in Remote!Ids : j # None
      BY RemoteGiven DEF Remote!Ids
    <3> QED
      BY <1>0, <1>3, <3>1 DEF SocketInv, Remote!HasSocket, Remote!Live
  <2>9. Ended(extra') /\ extra'.wanted = TRUE
    BY <1>1, <2>1, EndsKeeps
  <2> QED
    BY <1>0, <2>0, <2>1, <2>2, <2>3, <2>4, <2>5, <2>6, <2>8, <2>9, DialedKeeps
<1> QED
  BY <1>2, <1>3

\* The live socket is closed.
LEMMA ClosedSockets ==
  ASSUME RemoteInv
  PROVE  Remote!Closed \in RemoteSockets /\ \A j \in Remote!Ids : Remote!Closed[j] \notin {"connecting", "open"}
<1>1. server \in RemoteSockets
  BY DEF RemoteInv
<1>2. \A j \in Remote!Ids : server[j] \in {"connecting", "open"} => view.ws = j /\ j # None
  BY RemoteGiven DEF RemoteInv, SocketInv, Remote!Ids
<1>3. Remote!Closed = IF view.ws # None /\ server[view.ws] \in {"connecting", "open"}
                      THEN [server EXCEPT ![view.ws] = "closing"] ELSE server
  BY DEF Remote!Closed, Remote!HasSocket, Remote!Live
<1>4. Remote!Closed \in RemoteSockets
  BY <1>1, <1>3 DEF RemoteSockets
<1>5. \A j \in Remote!Ids : Remote!Closed[j] \notin {"connecting", "open"}
  <2>1. CASE view.ws # None /\ server[view.ws] \in {"connecting", "open"}
    <3>1. view.ws \in Remote!Ids
      BY <2>1 DEF RemoteInv, RemoteViews
    <3> QED
      BY <1>1, <1>2, <1>3, <2>1, <3>1 DEF RemoteSockets
  <2>2. CASE ~(view.ws # None /\ server[view.ws] \in {"connecting", "open"})
    BY <1>2, <1>3, <2>2
  <2> QED
    BY <2>1, <2>2
<1> QED
  BY <1>4, <1>5

\* A request takes a free slot.
LEMMA RemoteSent ==
  ASSUME NEW fl \in [Slots -> RemoteRequests], NEW q \in RemoteRequests
  PROVE  Remote!Send(fl, q) \in [Slots -> RemoteRequests]
BY DEF Remote!Send

\* Every step of the panel keeps its invariant.
LEMMA RemoteSteps == RemoteInv /\ Remote!Next => RemoteInv'
<1> SUFFICES ASSUME RemoteInv, Remote!Next PROVE RemoteInv'
  OBVIOUS
<1>0. view \in RemoteViews
  BY DEF RemoteInv
<1>1. flight \in [Slots -> RemoteRequests] /\ Remote!Unused \in RemoteRequests
  BY DEF RemoteInv, RemoteRequests
<1>2. server \in RemoteSockets /\ SocketInv(view, server, extra.denied)
  BY DEF RemoteInv
<1>3. extra \in RemotePast
  BY DEF RemoteInv
<1>4. WantedInv(view, extra.wanted)
  BY DEF RemoteInv
<1>5. MouseInv(view, extra)
  BY DEF RemoteInv
<1>6. \A reason \in {"page", "button"} :
        Remote!Send(flight, [ask |-> "meta", for |-> reason]) \in [Slots -> RemoteRequests]
  <2>1. \A reason \in {"page", "button"} : [ask |-> "meta", for |-> reason] \in RemoteRequests
    BY DEF RemoteRequests
  <2> QED
    BY <1>1, <2>1, RemoteSent
<1>7. \A s \in Slots : Remote!Over(flight, s) \in [Slots -> RemoteRequests]
  BY <1>1 DEF Remote!Over
<1>8. ASSUME view' = view, server' = server, extra' = extra, flight' \in [Slots -> RemoteRequests]
      PROVE  RemoteInv'
  BY <1>8 DEF RemoteInv
<1>9. CASE Remote!Enter
  BY <1>6, <1>8, <1>9 DEF Remote!Enter
<1>10. CASE Remote!ConnectButton
  <2>1. CASE view.meta = "unknown"
    BY <1>6, <1>8, <1>10, <2>1 DEF Remote!ConnectButton, Remote!Connect
  <2>2. CASE view.meta # "unknown"
    <3>1. Remote!Dial(view, flight, "button")
      BY <1>10, <2>2 DEF Remote!ConnectButton, Remote!Connect
    <3>2. \A q \in RemoteViews : /\ q.ws = view.ws /\ q.meta = view.meta /\ q.manual = view.manual
                                 /\ (q.timer <=> view.timer \/ "button" = "timer")
                                 => WantedInv(q, extra.wanted)
      BY <1>4 DEF WantedInv
    <3> QED
      BY <1>0, <1>1, <1>2, <1>4, <2>2, <3>1, <3>2, DialKeeps
  <2> QED
    BY <2>1, <2>2
\* The desktop is given up.
<1>11. ASSUME view' = Remote!Disconnected(view), server' = Remote!Closed,
              extra' = [Remote!Ends EXCEPT !.wanted = FALSE], flight' = flight
       PROVE  RemoteInv'
  <2> DEFINE d == [view EXCEPT !.manual = TRUE, !.timer = FALSE, !.ws = None, !.connected = FALSE]
             e == [d EXCEPT !.connect = TRUE, !.disconnect = FALSE]
  <2>1. d \in RemoteViews /\ d.ws = None /\ d.mouse = view.mouse
    BY <1>0 DEF RemoteViews
  <2>2. d.connected = FALSE /\ d.timer = FALSE
    BY <1>0 DEF RemoteViews
  <2> HIDE DEF d
  <2>3. e \in RemoteViews /\ e.ws = d.ws /\ e.mouse = d.mouse
    BY <2>1 DEF RemoteViews
  <2>4. e.connected = d.connected /\ e.timer = d.timer
    BY <2>1 DEF RemoteViews
  <2>5. view' = e
    BY <1>11 DEF Remote!Disconnected, Remote!Buttons, d
  <2> HIDE DEF e
  <2>6. Ended(extra') /\ extra'.wanted = FALSE
    BY <1>3, <1>11, EndsKeeps
  <2>7. server' \in RemoteSockets /\ \A j \in Remote!Ids : server'[j] \notin {"connecting", "open"}
    BY <1>11, ClosedSockets
  <2>8. SocketInv(view', server', extra'.denied) /\ WantedInv(view', extra'.wanted)
    BY <2>1, <2>2, <2>3, <2>4, <2>5, <2>6, <2>7 DEF SocketInv, WantedInv
  <2>9. MouseInv(view', extra') /\ extra' \in RemotePast
    <3>1. view'.mouse = view.mouse
      BY <2>1, <2>3, <2>5
    <3> QED
      BY <1>5, <2>6, <3>1, EndedMouse DEF Ended
  <2> QED
    BY <1>1, <1>11, <2>3, <2>5, <2>7, <2>8, <2>9 DEF RemoteInv
<1>12. CASE Remote!Reconnect
  <2>1. PICK i \in Remote!Ids :
       /\ server' = [Remote!Closed EXCEPT ![i] = "connecting"]
       /\ view' = [Remote!Disconnected(view) EXCEPT !.ws = i, !.manual = FALSE]
    BY <1>12 DEF Remote!Reconnect
  <2> DEFINE d == [view EXCEPT !.manual = TRUE, !.timer = FALSE, !.ws = None, !.connected = FALSE]
             e == [d EXCEPT !.connect = TRUE, !.disconnect = FALSE]
             f == [e EXCEPT !.ws = i, !.manual = FALSE]
  <2>2. d \in RemoteViews /\ d.meta = view.meta /\ d.mouse = view.mouse
    BY <1>0 DEF RemoteViews
  <2>3. d.connected = FALSE
    BY <1>0 DEF RemoteViews
  <2> HIDE DEF d
  <2>4. e \in RemoteViews /\ e.meta = d.meta /\ e.mouse = d.mouse
    BY <2>2 DEF RemoteViews
  <2>5. e.connected = d.connected
    BY <2>2 DEF RemoteViews
  <2> HIDE DEF e
  <2>6. f \in RemoteViews /\ f.meta = e.meta /\ f.ws = i /\ f.mouse = e.mouse
    BY <2>4 DEF RemoteViews
  <2>7. f.connected = e.connected /\ f.manual = FALSE
    BY <2>4 DEF RemoteViews
  <2>8. view' = f
    BY <2>1 DEF Remote!Disconnected, Remote!Buttons, d, e
  <2> HIDE DEF f
  <2>9. view.connected /\ extra' = Remote!Ends /\ flight' = flight
    BY <1>12 DEF Remote!Reconnect
  <2>10. extra.wanted /\ view.meta # "unknown"
    BY <1>2, <1>4, <2>9 DEF SocketInv, WantedInv
  <2>11. Ended(extra') /\ extra'.wanted
    BY <1>3, <2>9, <2>10, EndsKeeps
  <2>12. PICK so \in RemoteSockets :
           so = Remote!Closed /\ \A j \in Remote!Ids : so[j] \notin {"connecting", "open"}
    BY ClosedSockets
  <2>13. server' = [so EXCEPT ![i] = "connecting"]
    BY <2>1, <2>12
  <2> QED
    BY <1>1, <2>2, <2>3, <2>4, <2>5, <2>6, <2>7, <2>8, <2>9, <2>10, <2>11, <2>12, <2>13, DialedKeeps
<1>13. CASE Remote!TimerFires
  <2> DEFINE r == [view EXCEPT !.timer = FALSE]
  <2>1. r \in RemoteViews /\ r.ws = view.ws /\ r.meta = view.meta
    BY <1>0 DEF RemoteViews
  <2>2. r.connected = view.connected /\ r.manual = view.manual /\ r.connect = view.connect
        /\ r.disconnect = view.disconnect /\ r.mouse = view.mouse
    BY <1>0 DEF RemoteViews
  <2>3. r.timer = FALSE
    BY <1>0 DEF RemoteViews
  <2>4. view.timer
        /\ IF r.manual THEN view' = r /\ UNCHANGED <<flight, server, extra>> ELSE Remote!Connect(r, "timer")
    BY <1>13 DEF Remote!TimerFires
  <2> HIDE DEF r
  <2>5. extra.wanted /\ r.meta # "unknown" /\ ~r.manual
    BY <1>4, <2>1, <2>2, <2>4 DEF WantedInv
  <2>6. Remote!Dial(r, flight, "timer")
    BY <2>4, <2>5 DEF Remote!Connect
  <2>7. SocketInv(r, server, extra.denied)
    BY <1>2, <2>1, <2>2 DEF SocketInv
  <2>8. Remote!HasSocket(r) => WantedInv(r, extra.wanted)
    BY <2>5 DEF Remote!HasSocket, WantedInv
  <2>9. \A q \in RemoteViews : /\ q.ws = r.ws /\ q.meta = r.meta /\ q.manual = r.manual
                               /\ (q.timer <=> r.timer \/ "timer" = "timer")
                               => WantedInv(q, extra.wanted)
    BY <2>5 DEF WantedInv
  <2> QED
    BY <1>1, <2>1, <2>2, <2>5, <2>6, <2>7, <2>8, <2>9, DialKeeps
<1>14. ASSUME NEW s \in Slots, Remote!MetaArrives(s) PROVE RemoteInv'
  <2> DEFINE r == [view EXCEPT !.meta = "available"]
  <2>1. IF flight[s].for = "page"
        THEN view' = r /\ flight' = Remote!Over(flight, s) /\ UNCHANGED <<server, extra>>
        ELSE Remote!Dial(r, Remote!Over(flight, s), flight[s].for)
    BY <1>14 DEF Remote!MetaArrives
  <2>2. r \in RemoteViews /\ r.ws = view.ws /\ r.meta = "available"
    BY <1>0 DEF RemoteViews
  <2>3. r.connected = view.connected /\ r.manual = view.manual /\ r.connect = view.connect
        /\ r.disconnect = view.disconnect /\ r.mouse = view.mouse /\ r.timer = view.timer
    BY <1>0 DEF RemoteViews
  <2> HIDE DEF r
  <2>4. WantedInv(r, extra.wanted)
    BY <1>4, <2>2, <2>3 DEF WantedInv
  <2>5. SocketInv(r, server, extra.denied)
    BY <1>2, <2>2, <2>3 DEF SocketInv
  <2>6. CASE view' = r /\ flight' = Remote!Over(flight, s) /\ UNCHANGED <<server, extra>>
    <3>1. MouseInv(r, extra)
      BY <1>5, <2>3 DEF MouseInv
    <3> QED
      BY <1>2, <1>3, <1>7, <2>2, <2>4, <2>5, <2>6, <3>1 DEF RemoteInv
  <2>7. CASE Remote!Dial(r, Remote!Over(flight, s), flight[s].for)
    BY <1>7, <2>2, <2>3, <2>4, <2>5, <2>7, DialKeeps
  <2> QED
    BY <2>1, <2>6, <2>7
<1>23. ASSUME NEW s \in Slots, flight[s].ask = "meta" PROVE flight[s].for \in {"page", "button"}
  <2>1. flight[s] \in RemoteRequests
    BY <1>1
  <2> QED
    BY <1>23, <2>1 DEF RemoteRequests, Remote!Unused
<1>24. ASSUME NEW s \in Slots, Remote!MetaDenies(s) PROVE RemoteInv'
  <2> DEFINE d == [view EXCEPT !.meta = "unavailable"]
             e == [d EXCEPT !.connect = TRUE, !.disconnect = FALSE]
             p == [extra EXCEPT !.denied = TRUE]
  <2>1. /\ view' = Remote!Refused(e, flight[s].for) /\ flight' = Remote!Over(flight, s)
        /\ extra' = p /\ server' = server /\ flight[s].for # "timer"
    BY <1>23, <1>24 DEF Remote!MetaDenies, Remote!Buttons
  <2>2. d \in RemoteViews /\ d.ws = view.ws /\ d.meta = "unavailable"
    BY <1>0 DEF RemoteViews
  <2>3. d.connected = view.connected /\ d.manual = view.manual /\ d.mouse = view.mouse /\ d.timer = view.timer
    BY <1>0 DEF RemoteViews
  <2> HIDE DEF d
  <2>4. e \in RemoteViews /\ e.ws = d.ws /\ e.meta = d.meta
    BY <2>2 DEF RemoteViews
  <2>5. e.connected = d.connected /\ e.manual = d.manual /\ e.mouse = d.mouse /\ e.timer = d.timer
    BY <2>2 DEF RemoteViews
  <2>6. p \in RemotePast /\ p.denied = TRUE /\ p.wanted = extra.wanted
    BY <1>3 DEF RemotePast
  <2>7. p.held = extra.held /\ p.pressed = extra.pressed /\ p.lost = extra.lost /\ p.shared = extra.shared
    BY <1>3 DEF RemotePast
  <2> HIDE DEF e, p
  <2>8. PICK q \in RemoteViews : /\ q = Remote!Refused(e, flight[s].for)
                                 /\ q.ws = e.ws /\ q.meta = e.meta /\ q.manual = e.manual /\ q.mouse = e.mouse
                                 /\ q.connected = e.connected
                                 /\ (q.timer <=> e.timer \/ flight[s].for = "timer")
    BY <2>4, RefusedFacts
  <2>9. WantedInv(q, p.wanted)
    BY <1>4, <2>1, <2>2, <2>3, <2>4, <2>5, <2>6, <2>8 DEF WantedInv
  <2>10. SocketInv(q, server, p.denied)
    BY <1>2, <2>2, <2>3, <2>4, <2>5, <2>6, <2>8 DEF SocketInv
  <2>11. MouseInv(q, p)
    BY <1>5, <2>3, <2>5, <2>7, <2>8 DEF MouseInv
  <2> QED
    BY <1>2, <1>7, <2>1, <2>6, <2>8, <2>9, <2>10, <2>11 DEF RemoteInv
<1>15. ASSUME NEW s \in Slots, Remote!MetaFails(s) PROVE RemoteInv'
  <2>1. /\ view' = Remote!Refused(view, flight[s].for) /\ flight' = Remote!Over(flight, s)
        /\ extra' = extra /\ server' = server /\ flight[s].for # "timer"
    BY <1>15, <1>23 DEF Remote!MetaFails
  <2>2. PICK q \in RemoteViews : /\ q = Remote!Refused(view, flight[s].for)
                                 /\ q.ws = view.ws /\ q.meta = view.meta /\ q.manual = view.manual
                                 /\ q.mouse = view.mouse /\ q.connected = view.connected
                                 /\ q.connect = view.connect /\ q.disconnect = view.disconnect
                                 /\ (q.timer <=> view.timer \/ flight[s].for = "timer")
    BY <1>0, RefusedFacts
  <2>3. WantedInv(q, extra.wanted)
    BY <1>4, <2>1, <2>2 DEF WantedInv
  <2>4. SocketInv(q, server, extra.denied)
    BY <1>2, <2>2 DEF SocketInv
  <2>5. MouseInv(q, extra)
    BY <1>5, <2>2 DEF MouseInv
  <2> QED
    BY <1>2, <1>3, <1>7, <2>1, <2>2, <2>3, <2>4, <2>5 DEF RemoteInv
<1>16. ASSUME NEW i \in Remote!Ids, Remote!Open(i) PROVE RemoteInv'
  <2>1. server' \in RemoteSockets
    BY <1>2, <1>16 DEF Remote!Open, RemoteSockets
  <2>2. server[i] = "connecting" /\ server' = [server EXCEPT ![i] = "open"] /\ UNCHANGED <<view, flight, extra>>
    BY <1>16 DEF Remote!Open
  <2>3. \A j \in Remote!Ids : server'[j] = IF j = i THEN "open" ELSE server[j]
    BY <1>2, <2>2 DEF RemoteSockets
  <2>4. view.ws # None => view.ws \in Remote!Ids
    BY <1>0 DEF RemoteViews
  <2>5. SocketInv(view, server', extra.denied)
    BY <1>2, <2>2, <2>3, <2>4 DEF SocketInv
  <2> QED
    BY <1>0, <1>1, <1>3, <1>4, <1>5, <2>1, <2>2, <2>5 DEF RemoteInv
<1>17. ASSUME NEW i \in Remote!Ids, Remote!Meta(i) PROVE RemoteInv'
  <2> DEFINE d == [view EXCEPT !.connected = TRUE, !.timer = FALSE]
             e == [d EXCEPT !.connect = FALSE, !.disconnect = TRUE]
  <2>1. d \in RemoteViews /\ d.ws = view.ws /\ d.meta = view.meta
    BY <1>0 DEF RemoteViews
  <2>2. d.manual = view.manual /\ d.mouse = view.mouse
    BY <1>0 DEF RemoteViews
  <2>3. d.timer = FALSE /\ d.connected = TRUE
    BY <1>0 DEF RemoteViews
  <2> HIDE DEF d
  <2>4. e \in RemoteViews /\ e.ws = d.ws /\ e.meta = d.meta
    BY <2>1 DEF RemoteViews
  <2>5. e.manual = d.manual /\ e.mouse = d.mouse /\ e.timer = d.timer /\ e.connected = d.connected
    BY <2>1 DEF RemoteViews
  <2>6. e.connect = FALSE /\ e.disconnect = TRUE
    BY <2>1 DEF RemoteViews
  <2> DEFINE p == [extra EXCEPT !.denied = FALSE]
  <2>7. server[i] = "open" /\ view' = e /\ extra' = p /\ UNCHANGED <<flight, server>>
    BY <1>17 DEF Remote!Meta, Remote!Buttons, d
  <2>11. p \in RemotePast /\ p.denied = FALSE /\ p.wanted = extra.wanted
    BY <1>3 DEF RemotePast
  <2>12. p.held = extra.held /\ p.pressed = extra.pressed /\ p.lost = extra.lost /\ p.shared = extra.shared
    BY <1>3 DEF RemotePast
  <2> HIDE DEF p
  <2> HIDE DEF e
  <2>8. view.ws = i /\ i # None
    BY <1>2, <2>7, RemoteGiven DEF SocketInv, Remote!Ids
  <2>9. SocketInv(e, server, p.denied)
    BY <1>2, <2>1, <2>4, <2>6, <2>7, <2>8 DEF SocketInv
  <2>10. WantedInv(e, extra.wanted)
    BY <1>4, <2>1, <2>2, <2>3, <2>4, <2>5, <2>8 DEF WantedInv
  <2>13. MouseInv(e, p)
    BY <1>5, <2>2, <2>3, <2>5, <2>12 DEF MouseInv
  <2> QED
    BY <1>1, <1>2, <2>4, <2>7, <2>9, <2>10, <2>11, <2>13 DEF RemoteInv
<1>18. ASSUME NEW i \in Remote!Ids, Remote!CloseEvent(i) PROVE RemoteInv'
  <2>1. server' = [server EXCEPT ![i] = "closed"] /\ flight' = flight
    BY <1>18 DEF Remote!CloseEvent
  <2>2. server' \in RemoteSockets /\ \A j \in Remote!Ids : server'[j] = IF j = i THEN "closed" ELSE server[j]
    BY <1>2, <2>1 DEF RemoteSockets
  <2>3. view.ws # None => view.ws \in Remote!Ids
    BY <1>0 DEF RemoteViews
  <2>4. CASE view.ws = i
    <3> DEFINE t == view.timer \/ ~view.manual
               d == [view EXCEPT !.ws = None, !.connected = FALSE, !.timer = t]
               e == [d EXCEPT !.connect = TRUE, !.disconnect = FALSE]
    <3>1. t \in BOOLEAN /\ (~view.manual => t)
      OBVIOUS
    <3>2. view' = e /\ extra' = Remote!Ends
      BY <1>18, <2>4 DEF Remote!CloseEvent, Remote!Current, Remote!Buttons, Remote!Scheduled
    <3> HIDE DEF t
    <3>3. d \in RemoteViews /\ d.ws = None /\ d.meta = view.meta /\ d.mouse = view.mouse
      BY <1>0, <3>1 DEF RemoteViews
    <3>4. d.manual = view.manual /\ d.connected = FALSE
      BY <1>0, <3>1 DEF RemoteViews
    <3>5. d.timer = t
      BY <1>0, <3>1 DEF RemoteViews
    <3> HIDE DEF d
    <3>6. e \in RemoteViews /\ e.ws = d.ws /\ e.meta = d.meta /\ e.mouse = d.mouse
      BY <3>3 DEF RemoteViews
    <3>7. e.manual = d.manual /\ e.connected = d.connected /\ e.timer = d.timer
      BY <3>3 DEF RemoteViews
    <3> HIDE DEF e
    <3>8. Ended(extra') /\ extra'.wanted = extra.wanted
      BY <1>3, <3>2, EndsKeeps
    <3>9. SocketInv(e, server', extra'.denied)
      BY <1>2, <2>2, <2>4, <3>3, <3>4, <3>6, <3>7 DEF SocketInv
    <3>10. i # None
      BY RemoteGiven DEF Remote!Ids
    <3>11. extra.wanted
      BY <1>4, <2>4, <3>10 DEF WantedInv
    <3>12. WantedInv(e, extra'.wanted)
      BY <1>4, <3>1, <3>3, <3>4, <3>5, <3>6, <3>7, <3>8, <3>11 DEF WantedInv
    <3>13. MouseInv(e, extra') /\ extra' \in RemotePast
      BY <1>5, <3>3, <3>6, <3>8, EndedMouse DEF Ended
    <3> QED
      BY <1>1, <2>1, <2>2, <3>2, <3>6, <3>9, <3>12, <3>13 DEF RemoteInv
  <2>5. CASE view.ws # i
    <3>1. view' = view /\ extra' = extra
      BY <1>18, <2>5 DEF Remote!CloseEvent, Remote!Current
    <3>2. SocketInv(view, server', extra.denied)
      BY <1>2, <2>2, <2>3, <2>5 DEF SocketInv
    <3> QED
      BY <1>0, <1>1, <1>3, <1>4, <1>5, <2>1, <2>2, <3>1, <3>2 DEF RemoteInv
  <2> QED
    BY <2>4, <2>5
\* The mouse.
<1>19. ASSUME NEW b \in BOOLEAN, NEW r, r = [view EXCEPT !.mouse = b]
       PROVE  /\ r \in RemoteViews /\ r.mouse = b /\ r.connected = view.connected
              /\ SocketInv(r, server, extra.denied) /\ WantedInv(r, extra.wanted)
  <2>1. r \in RemoteViews /\ r.ws = view.ws /\ r.meta = view.meta
    BY <1>0, <1>19 DEF RemoteViews
  <2>2. r.connected = view.connected /\ r.manual = view.manual /\ r.connect = view.connect
        /\ r.disconnect = view.disconnect /\ r.timer = view.timer
    BY <1>0, <1>19 DEF RemoteViews
  <2>3. r.mouse = b
    BY <1>0, <1>19 DEF RemoteViews
  <2> QED
    BY <1>2, <1>4, <2>1, <2>2, <2>3 DEF SocketInv, WantedInv
<1>20. ASSUME NEW b \in Remote!MouseButtons, NEW down \in BOOLEAN
       PROVE  \E q \in RemotePast :
                /\ q = Remote!Sends(view, b, down)
                /\ q.wanted = extra.wanted /\ q.denied = extra.denied
                /\ q.held = extra.held /\ q.shared = extra.shared
                /\ q.pressed \ q.lost \subseteq (extra.pressed \ extra.lost) \cup {b}
                /\ view.connected /\ ~down => b \notin q.pressed
                /\ ~view.connected => q.pressed = extra.pressed /\ q.lost = extra.lost
  <2> DEFINE d == IF down THEN extra.pressed \cup {b} ELSE extra.pressed \ {b}
             l == extra.lost \ {b}
             e == [extra EXCEPT !.pressed = d, !.lost = l]
  <2>1. d \in SUBSET Remote!MouseButtons /\ l \in SUBSET Remote!MouseButtons
    BY <1>3 DEF RemotePast
  <2>2. d \ l \subseteq (extra.pressed \ extra.lost) \cup {b} /\ (~down => b \notin d)
    OBVIOUS
  <2>3. Remote!Sends(view, b, down) = IF view.connected THEN e ELSE extra
    BY DEF Remote!Sends
  <2> HIDE DEF d, l
  <2>4. e \in RemotePast /\ e.wanted = extra.wanted /\ e.denied = extra.denied
    BY <1>3, <2>1 DEF RemotePast
  <2>5. e.pressed = d /\ e.lost = l
    BY <1>3, <2>1 DEF RemotePast
  <2>6. e.held = extra.held /\ e.shared = extra.shared
    BY <1>3, <2>1 DEF RemotePast
  <2> HIDE DEF e
  <2>7. CASE view.connected
    BY <2>2, <2>3, <2>4, <2>5, <2>6, <2>7
  <2>8. CASE ~view.connected
    BY <1>3, <2>3, <2>8
  <2> QED
    BY <2>7, <2>8
<1>26. /\ extra.held \in RemoteHeld /\ extra.shared \in BOOLEAN
       /\ "left" \in Remote!MouseButtons /\ extra.pressed \subseteq Remote!MouseButtons
  BY <1>3 DEF RemotePast, RemoteHeld, Remote!MouseButtons
<1>27. ASSUME NEW b \in Remote!MouseButtons, Remote!MouseDown(b) PROVE RemoteInv'
  <2>1. PICK q \in RemotePast :
          /\ q = Remote!Sends(view, b, TRUE)
          /\ q.wanted = extra.wanted /\ q.denied = extra.denied
          /\ q.held = extra.held /\ q.shared = extra.shared
          /\ q.pressed \ q.lost \subseteq (extra.pressed \ extra.lost) \cup {b}
          /\ ~view.connected => q.pressed = extra.pressed /\ q.lost = extra.lost
    BY <1>20
  <2> DEFINE h == [extra.held EXCEPT ![b] = "down"]
             sh == extra.shared /\ b # "left"
  <2>2. /\ view' = [view EXCEPT !.mouse = TRUE] /\ server' = server /\ flight' = flight
        /\ extra' = [q EXCEPT !.held = h, !.shared = sh]
    BY <1>27, <2>1 DEF Remote!MouseDown
  <2>3. h \in RemoteHeld /\ sh \in BOOLEAN
    BY <1>26 DEF RemoteHeld
  <2>4. \A c \in Remote!MouseButtons : h[c] = IF c = b THEN "down" ELSE extra.held[c]
    BY <1>26 DEF RemoteHeld
  <2>5. sh <=> extra.shared /\ b # "left"
    OBVIOUS
  <2> HIDE DEF h, sh
  <2>6. /\ extra' \in RemotePast /\ extra'.wanted = extra.wanted /\ extra'.denied = extra.denied
        /\ extra'.held = h /\ extra'.shared = sh /\ extra'.pressed = q.pressed /\ extra'.lost = q.lost
    <3> DEFINE p == [q EXCEPT !.held = h, !.shared = sh]
    <3>1. p \in RemotePast /\ p.wanted = q.wanted /\ p.denied = q.denied
      BY <2>3 DEF RemotePast, RemoteHeld
    <3>2. p.held = h /\ p.shared = sh
      BY DEF RemotePast
    <3>3. p.pressed = q.pressed /\ p.lost = q.lost
      BY DEF RemotePast
    <3>4. extra' = p
      BY <2>2
    <3> HIDE DEF p
    <3> QED
      BY <2>1, <3>1, <3>2, <3>3, <3>4
  <2>7. /\ view' \in RemoteViews /\ view'.mouse = TRUE /\ view'.connected = view.connected
        /\ SocketInv(view', server, extra.denied) /\ WantedInv(view', extra.wanted)
    BY <1>19, <2>2
  <2>8. MouseInv(view', extra')
    <3>1. ASSUME NEW c \in q.pressed \ q.lost
          PROVE  view.connected /\ (h[c] = "down" \/ (h[c] = "away" /\ (c = "left" => sh)))
      <4>1. c \in Remote!MouseButtons
        BY DEF RemotePast
      <4>2. view.connected
        BY <1>5, <2>1 DEF MouseInv
      <4>3. CASE c = b
        BY <2>4, <4>1, <4>2, <4>3
      <4>4. CASE c # b
        BY <1>5, <2>1, <2>4, <2>5, <4>1, <4>2, <4>4 DEF MouseInv
      <4> QED
        BY <4>3, <4>4
    <3> QED
      BY <2>6, <2>7, <3>1 DEF MouseInv
  <2> QED
    BY <1>1, <1>2, <2>2, <2>6, <2>7, <2>8 DEF RemoteInv
<1>28. ASSUME NEW b \in Remote!MouseButtons, Remote!MouseUp(b) PROVE RemoteInv'
  <2>1. PICK q \in RemotePast :
          /\ q = Remote!Sends(view, b, FALSE)
          /\ q.wanted = extra.wanted /\ q.denied = extra.denied
          /\ q.held = extra.held /\ q.shared = extra.shared
          /\ q.pressed \ q.lost \subseteq (extra.pressed \ extra.lost) \cup {b}
          /\ view.connected => b \notin q.pressed
          /\ ~view.connected => q.pressed = extra.pressed /\ q.lost = extra.lost
    BY <1>20
  <2> DEFINE h == [extra.held EXCEPT ![b] = "up"]
             sh == extra.shared \/ (b # "left" /\ extra.held["left"] = "down")
  <2>2. /\ view' = [view EXCEPT !.mouse = FALSE] /\ server' = server /\ flight' = flight
        /\ extra' = [q EXCEPT !.held = h, !.shared = sh]
    BY <1>28, <2>1 DEF Remote!MouseUp
  <2>3. h \in RemoteHeld /\ sh \in BOOLEAN
    BY <1>26 DEF RemoteHeld
  <2>4. \A c \in Remote!MouseButtons : h[c] = IF c = b THEN "up" ELSE extra.held[c]
    BY <1>26 DEF RemoteHeld
  <2>5. sh <=> extra.shared \/ (b # "left" /\ extra.held["left"] = "down")
    OBVIOUS
  <2> HIDE DEF h, sh
  <2>6. /\ extra' \in RemotePast /\ extra'.wanted = extra.wanted /\ extra'.denied = extra.denied
        /\ extra'.held = h /\ extra'.shared = sh /\ extra'.pressed = q.pressed /\ extra'.lost = q.lost
    <3> DEFINE p == [q EXCEPT !.held = h, !.shared = sh]
    <3>1. p \in RemotePast /\ p.wanted = q.wanted /\ p.denied = q.denied
      BY <2>3 DEF RemotePast, RemoteHeld
    <3>2. p.held = h /\ p.shared = sh
      BY DEF RemotePast
    <3>3. p.pressed = q.pressed /\ p.lost = q.lost
      BY DEF RemotePast
    <3>4. extra' = p
      BY <2>2
    <3> HIDE DEF p
    <3> QED
      BY <2>1, <3>1, <3>2, <3>3, <3>4
  <2>7. /\ view' \in RemoteViews /\ view'.connected = view.connected
        /\ SocketInv(view', server, extra.denied) /\ WantedInv(view', extra.wanted)
    BY <1>19, <2>2
  <2>8. MouseInv(view', extra')
    <3>1. ASSUME NEW c \in q.pressed \ q.lost
          PROVE  view.connected /\ (h[c] = "down" \/ (h[c] = "away" /\ (c = "left" => sh)))
      <4>1. c \in Remote!MouseButtons
        BY DEF RemotePast
      <4>2. c # b /\ view.connected
        BY <1>5, <2>1 DEF MouseInv
      <4> QED
        BY <1>5, <2>1, <2>4, <2>5, <4>1, <4>2 DEF MouseInv
    <3>2. h["left"] = "down" => sh
      BY <1>26, <2>4, <2>5
    <3> QED
      BY <2>6, <2>7, <3>1, <3>2 DEF MouseInv
  <2> QED
    BY <1>1, <1>2, <2>2, <2>6, <2>7, <2>8 DEF RemoteInv
<1>29. CASE Remote!MouseLeave
  <2>1. PICK q \in RemotePast :
          /\ q = Remote!Releases(view)
          /\ q.wanted = extra.wanted /\ q.denied = extra.denied
          /\ q.held = extra.held /\ q.shared = extra.shared
          /\ \A c \in q.pressed \ q.lost : c \in extra.pressed \ extra.lost /\ (view.mouse => c # "left")
    <3>1. CASE view.mouse
      <4>1. PICK q \in RemotePast :
              /\ q = Remote!Sends(view, "left", FALSE)
              /\ q.wanted = extra.wanted /\ q.denied = extra.denied
              /\ q.held = extra.held /\ q.shared = extra.shared
              /\ q.pressed \ q.lost \subseteq (extra.pressed \ extra.lost) \cup {"left"}
              /\ view.connected => "left" \notin q.pressed
              /\ ~view.connected => q.pressed = extra.pressed /\ q.lost = extra.lost
        BY <1>20, <1>26
      <4>2. \A c \in q.pressed \ q.lost : view.connected
        BY <1>5, <4>1 DEF MouseInv
      <4> QED
        BY <3>1, <4>1, <4>2 DEF Remote!Releases
    <3>2. CASE ~view.mouse
      BY <1>3, <3>2 DEF Remote!Releases
    <3> QED
      BY <3>1, <3>2
  <2> DEFINE h == [b \in Remote!MouseButtons |-> IF extra.held[b] = "down" THEN "away" ELSE extra.held[b]]
             sh == extra.shared
  <2>2. /\ view' = [view EXCEPT !.mouse = FALSE] /\ server' = server /\ flight' = flight
        /\ extra' = [q EXCEPT !.held = h]
    BY <1>29, <2>1 DEF Remote!MouseLeave
  <2>3. extra' = [q EXCEPT !.held = h, !.shared = sh]
    BY <2>1, <2>2 DEF RemotePast
  <2>4. h \in RemoteHeld /\ sh \in BOOLEAN
    BY <1>26 DEF RemoteHeld
  <2>5. \A c \in Remote!MouseButtons : h[c] = IF extra.held[c] = "down" THEN "away" ELSE extra.held[c]
    OBVIOUS
  <2> HIDE DEF h
  <2>6. /\ extra' \in RemotePast /\ extra'.wanted = extra.wanted /\ extra'.denied = extra.denied
        /\ extra'.held = h /\ extra'.shared = sh /\ extra'.pressed = q.pressed /\ extra'.lost = q.lost
    <3> DEFINE p == [q EXCEPT !.held = h, !.shared = sh]
    <3>1. p \in RemotePast /\ p.wanted = q.wanted /\ p.denied = q.denied
      BY <2>4 DEF RemotePast, RemoteHeld
    <3>2. p.held = h /\ p.shared = sh
      BY DEF RemotePast
    <3>3. p.pressed = q.pressed /\ p.lost = q.lost
      BY DEF RemotePast
    <3>4. extra' = p
      BY <2>3
    <3> HIDE DEF p
    <3> QED
      BY <2>1, <3>1, <3>2, <3>3, <3>4
  <2>7. /\ view' \in RemoteViews /\ view'.connected = view.connected
        /\ SocketInv(view', server, extra.denied) /\ WantedInv(view', extra.wanted)
    BY <1>19, <2>2
  <2>8. MouseInv(view', extra')
    <3>1. ASSUME NEW c \in q.pressed \ q.lost
          PROVE  view.connected /\ h[c] = "away" /\ (c = "left" => sh)
      <4>1. c \in Remote!MouseButtons
        BY DEF RemotePast
      <4>2. /\ view.connected
            /\ extra.held[c] = "down" \/ (extra.held[c] = "away" /\ (c = "left" => extra.shared))
        BY <1>5, <2>1 DEF MouseInv
      <4>3. c = "left" => ~view.mouse
        BY <2>1
      <4>4. extra.held["left"] = "down" => view.mouse \/ extra.shared
        BY <1>5 DEF MouseInv
      <4> QED
        BY <2>5, <4>1, <4>2, <4>3, <4>4
    <3>2. h["left"] # "down"
      BY <1>26, <2>5
    <3> QED
      BY <2>6, <2>7, <3>1, <3>2 DEF MouseInv
  <2> QED
    BY <1>1, <1>2, <2>2, <2>6, <2>7, <2>8 DEF RemoteInv
<1>30. CASE Remote!DisconnectButton \/ Remote!ReconnectDenied
  BY <1>11, <1>30 DEF Remote!DisconnectButton, Remote!ReconnectDenied
<1> QED
  BY <1>9, <1>10, <1>12, <1>13, <1>14, <1>15, <1>16, <1>17, <1>18, <1>24, <1>27, <1>28, <1>29, <1>30
     DEF Remote!Next

\* The invariant holds when the panel is opened.
LEMMA RemoteStart == Remote!Init => RemoteInv
<1> SUFFICES ASSUME Remote!Init PROVE RemoteInv
  OBVIOUS
<1>1. view = [meta |-> "unknown", ws |-> None, connected |-> FALSE, manual |-> FALSE,
               timer |-> FALSE, connect |-> TRUE, disconnect |-> FALSE, mouse |-> FALSE]
      /\ flight = [s \in Slots |-> Remote!Unused] /\ server = [i \in Remote!Ids |-> "new"]
      /\ extra = [wanted |-> FALSE, denied |-> FALSE, held |-> [b \in Remote!MouseButtons |-> "up"],
                  pressed |-> {}, lost |-> {}, shared |-> FALSE]
  BY DEF Remote!Init, Remote!NoRequests
<1>2. view \in RemoteViews
  BY <1>1 DEF RemoteViews
<1>3. extra \in RemotePast /\ ~extra.wanted /\ extra.pressed = {} /\ extra.held["left"] = "up"
  BY <1>1 DEF RemotePast, Remote!MouseButtons
<1>4. flight \in [Slots -> RemoteRequests] /\ server \in RemoteSockets
  BY <1>1 DEF RemoteRequests, RemoteSockets
<1>5. SocketInv(view, server, extra.denied) /\ WantedInv(view, extra.wanted) /\ MouseInv(view, extra)
  BY <1>1, <1>3 DEF SocketInv, WantedInv, MouseInv
<1> QED
  BY <1>2, <1>3, <1>4, <1>5 DEF RemoteInv

-----------------------------------------------------------------------------
(* Keys of the remote desktop.                                             *)

\* The state of the panel that the page keeps.
DeskViews ==
  [shown : BOOLEAN, connected : BOOLEAN, full : BOOLEAN, focus : {"canvas", "field", "elsewhere"}]

\* The history variables of the keyboard.
KeyPast == [down : SUBSET KeyboardKeys, left : SUBSET KeyboardKeys]

\* A key that is pressed over there and not left behind is held, and its way
\* up would be sent.
KeysInv ==
  /\ view \in DeskViews
  /\ server \subseteq KeyboardKeys
  /\ extra \in KeyPast
  /\ \A k \in extra.down \ extra.left : k \in server /\ Keyboard!Sent(k)

\* The invariant implies the types and the properties of the panel.
LEMMA KeysMean == KeysInv => Keyboard!TypeOK /\ Keyboard!NoKeyStuck
BY DEF KeysInv, DeskViews, KeyPast, Keyboard!TypeOK, Keyboard!NoKeyStuck

\* What each action does to the record of the page.
LEMMA DeskChanges ==
  ASSUME NEW full \in BOOLEAN, view \in DeskViews
  PROVE  [view EXCEPT !.full = full] \in DeskViews
BY DEF DeskViews

\* A key event leaves the screen full or not.
LEMMA ScreenTyped == ASSUME view \in DeskViews, NEW k \in KeyboardKeys PROVE Keyboard!Screen(k) \in BOOLEAN
<1>1. view.full \in BOOLEAN
  BY DEF DeskViews
<1> QED
  BY <1>1 DEF Keyboard!Screen

\* The changes of the place, the socket, the screen and the focus are alike:
\* every key that is down may lose its way up.
LEMMA ChangesKeep ==
  ASSUME KeysInv, Keyboard!Show \/ Keyboard!Connected \/ Keyboard!Toggle \/ Keyboard!Focus
  PROVE  KeysInv'
<1>0. view \in DeskViews
  BY DEF KeysInv
<1>1. server \subseteq KeyboardKeys /\ extra \in KeyPast
  BY DEF KeysInv
<1>2. server' = server /\ extra' = [extra EXCEPT !.left = Keyboard!Left(TRUE)]
  BY DEF Keyboard!Show, Keyboard!Connected, Keyboard!Toggle, Keyboard!Focus, Keyboard!Change
<1>3. Keyboard!Left(TRUE) = extra.left \cup extra.down
  BY DEF Keyboard!Left
<1>4. extra' \in KeyPast /\ extra'.down = extra.down /\ extra'.left = extra.left \cup extra.down
  BY <1>1, <1>2, <1>3 DEF KeyPast
<1>5. view' \in DeskViews
  <2>1. CASE Keyboard!Show
    BY <1>0, <2>1 DEF Keyboard!Show, Keyboard!Change, DeskViews
  <2>2. CASE Keyboard!Connected
    BY <1>0, <2>2 DEF Keyboard!Connected, Keyboard!Change, DeskViews
  <2>3. CASE Keyboard!Toggle
    BY <1>0, <2>3 DEF Keyboard!Toggle, Keyboard!Change, DeskViews
  <2>4. CASE Keyboard!Focus
    BY <1>0, <2>4 DEF Keyboard!Focus, Keyboard!Change, DeskViews
  <2> QED
    BY <2>1, <2>2, <2>3, <2>4
<1> QED
  BY <1>1, <1>2, <1>4, <1>5 DEF KeysInv

\* Every step of the panel keeps its invariant.
LEMMA KeysSteps == KeysInv /\ Keyboard!Next => KeysInv'
<1> SUFFICES ASSUME KeysInv, Keyboard!Next PROVE KeysInv'
  OBVIOUS
<1>0. view \in DeskViews
  BY DEF KeysInv
<1>1. server \subseteq KeyboardKeys /\ extra \in KeyPast
  BY DEF KeysInv
<1>2. extra.down \subseteq KeyboardKeys /\ extra.left \subseteq KeyboardKeys
  BY <1>1 DEF KeyPast
<1>3. \A k \in extra.down \ extra.left : k \in server /\ Keyboard!Sent(k)
  BY DEF KeysInv
<1>4. ASSUME NEW k \in KeyboardKeys, Keyboard!Press(k) \/ Keyboard!Release(k)
      PROVE  view' \in DeskViews /\ server' \subseteq KeyboardKeys /\ extra' \in KeyPast
  <2>1. view' = [view EXCEPT !.full = Keyboard!Screen(k)] /\ server' \subseteq KeyboardKeys
    BY <1>1, <1>4 DEF Keyboard!Press, Keyboard!Release
  <2>2. extra' \in KeyPast
    <3>1. PICK down, left :
            /\ extra' = [down |-> down, left |-> left]
            /\ down \subseteq extra.down \cup {k} /\ left \subseteq extra.left \cup extra.down
      BY <1>4 DEF Keyboard!Press, Keyboard!Release, Keyboard!Left
    <3> QED
      BY <1>2, <3>1 DEF KeyPast
  <2> QED
    BY <1>0, <2>1, <2>2, ScreenTyped, DeskChanges
<1>5. ASSUME NEW k \in KeyboardKeys, Keyboard!Press(k) \/ Keyboard!Release(k), Keyboard!Screen(k) # view.full
      PROVE  KeysInv'
  <2>1. ~Keyboard!Sent(k)
    BY <1>5 DEF Keyboard!Sent, Keyboard!Screen
  <2>2. extra'.down \subseteq extra'.left
    BY <1>5, <2>1 DEF Keyboard!Press, Keyboard!Release, Keyboard!Left
  <2> QED
    BY <1>4, <1>5, <2>2 DEF KeysInv
<1>6. ASSUME NEW k \in KeyboardKeys, Keyboard!Press(k), Keyboard!Screen(k) = view.full PROVE KeysInv'
  <2>1. view' = view /\ server' = server \cup {k}
    BY <1>0, <1>6 DEF Keyboard!Press, DeskViews
  <2>2. \A q \in KeyboardKeys : Keyboard!Sent(q) /\ (q = "f" => k # "ctrl") => Keyboard!Sent(q)'
    BY <2>1 DEF Keyboard!Sent, Keyboard!Leaves, Keyboard!Toggles, Keyboard!Goes
  <2>3. CASE k = "ctrl"
    <3>1. extra'.down \ extra'.left \subseteq {k}
      BY <1>6, <2>3 DEF Keyboard!Press, Keyboard!Left
    <3>2. k \in extra'.down /\ k \notin extra'.left => Keyboard!Sent(k)
      BY <1>2, <1>6, <2>3 DEF Keyboard!Press, Keyboard!Left
    <3>3. \A q \in extra'.down \ extra'.left : q \in server' /\ Keyboard!Sent(q)'
      BY <2>1, <2>2, <2>3, <3>1, <3>2
    <3> QED
      BY <1>4, <1>6, <3>3 DEF KeysInv
  <2>4. CASE k # "ctrl"
    <3>1. \A q \in extra'.down \ extra'.left : q = k \/ q \in extra.down \ extra.left
      BY <1>6, <2>4 DEF Keyboard!Press, Keyboard!Left
    <3>2. k \in extra'.down \ extra'.left => Keyboard!Sent(k)
      BY <1>3, <1>6, <2>4 DEF Keyboard!Press, Keyboard!Left
    <3>3. \A q \in extra'.down \ extra'.left : q \in server' /\ Keyboard!Sent(q)'
      BY <1>2, <1>3, <2>1, <2>2, <2>4, <3>1, <3>2
    <3> QED
      BY <1>4, <1>6, <3>3 DEF KeysInv
  <2> QED
    BY <2>3, <2>4
<1>7. ASSUME NEW k \in KeyboardKeys, Keyboard!Release(k), Keyboard!Screen(k) = view.full PROVE KeysInv'
  <2>1. view' = view /\ server' = server \ {k}
    BY <1>0, <1>7 DEF Keyboard!Release, DeskViews
  <2>2. \A q \in KeyboardKeys : Keyboard!Sent(q) => Keyboard!Sent(q)'
    BY <2>1 DEF Keyboard!Sent, Keyboard!Leaves, Keyboard!Toggles, Keyboard!Goes
  <2>3. extra'.left = extra.left /\ extra'.down = IF Keyboard!Sent(k) THEN extra.down \ {k} ELSE extra.down
    BY <1>7 DEF Keyboard!Release, Keyboard!Left
  <2>4. \A q \in extra'.down \ extra'.left : q \in server' /\ Keyboard!Sent(q)'
    BY <1>2, <1>3, <2>1, <2>2, <2>3
  <2> QED
    BY <1>4, <1>7, <2>4 DEF KeysInv
<1> QED
  BY <1>5, <1>6, <1>7, ChangesKeep DEF Keyboard!Next

\* The invariant holds when the panel is opened.
LEMMA KeysStart == Keyboard!Init => KeysInv
<1> SUFFICES ASSUME Keyboard!Init PROVE KeysInv
  OBVIOUS
<1>1. view = [shown |-> TRUE, connected |-> FALSE, full |-> FALSE, focus |-> "elsewhere"]
      /\ server = {} /\ extra = [down |-> {}, left |-> {}]
  BY DEF Keyboard!Init
<1> QED
  BY <1>1 DEF KeysInv, DeskViews, KeyPast

-----------------------------------------------------------------------------
(* SSH terminal.                                                           *)

\* What the panel is given.
LEMMA SshGiven ==
  None \notin 1 .. MaxSessions
BY PageAssumption

\* The state of the panel that the page keeps.
SshViews ==
  [ws : Ssh!Ids \cup {None}, connecting : BOOLEAN, connected : BOOLEAN, manual : BOOLEAN,
   status : {"unknown", "up", "down"}]

\* The state of every socket there has been.
SshSockets == [Ssh!Ids -> {"new", "connecting", "open", "closing", "closed"}]

\* Why a session may have ended.
SshReasons == [Ssh!Ids -> SUBSET {"user", "timer", "report", "socket"}]

\* What the page says of the socket it lists.
SaidInv(v, so) ==
  v.connected => v.ws # None /\ so[v.ws] \in {"open", "closing"} /\ v.status = "up"

\* A live socket is the session of the page, or has been reported; one that is not has a reason.
OwnInv(v, so, why) ==
  \A i \in Ssh!Ids :
    /\ so[i] \in {"connecting", "open"} =>
         (v.ws = i /\ (v.connecting \/ v.connected)) \/ "report" \in why[i]
    /\ so[i] \in {"closing", "closed"} => why[i] # {}

\* The inductive invariant of the panel.
SshInv ==
  /\ view \in SshViews
  /\ server \in SshSockets
  /\ flight \subseteq Ssh!Ids
  /\ extra \in SshReasons
  /\ SaidInv(view, server)
  /\ OwnInv(view, server, extra)

\* The invariant implies the types and the properties of the panel.
LEMMA SshMean == SshInv => Ssh!TypeOK /\ Ssh!SaysWhatIs /\ Ssh!OwnEnd
<1> SUFFICES ASSUME SshInv PROVE Ssh!TypeOK /\ Ssh!SaysWhatIs /\ Ssh!OwnEnd
  OBVIOUS
<1>1. Ssh!TypeOK
  BY DEF SshInv, SshViews, SshSockets, SshReasons, Ssh!TypeOK
<1>2. Ssh!SaysWhatIs
  BY DEF SshInv, SaidInv, OwnInv, Ssh!SaysWhatIs, Ssh!Live
<1>3. Ssh!OwnEnd
  BY DEF SshInv, OwnInv, Ssh!OwnEnd
<1> QED
  BY <1>1, <1>2, <1>3

\* A reason is added.
LEMMA ReasonsGrow ==
  ASSUME extra \in SshReasons, NEW i \in Ssh!Ids, NEW why \in {"user", "timer", "report", "socket"}
  PROVE  /\ Ssh!Because(i, why) \in SshReasons
         /\ why \in Ssh!Because(i, why)[i]
         /\ \A j \in Ssh!Ids : extra[j] \subseteq Ssh!Because(i, why)[j]
BY DEF Ssh!Because, SshReasons

\* A socket changes and nothing is forgotten, while the page keeps its session or gives up one
\* that does not live or was reported.
LEMMA SocketChanges ==
  ASSUME SshInv, NEW i \in Ssh!Ids, NEW state \in {"connecting", "open", "closing", "closed"},
         server' = [server EXCEPT ![i] = state], view' \in SshViews, flight' \subseteq Ssh!Ids,
         extra' \in SshReasons, \A j \in Ssh!Ids : extra[j] \subseteq extra'[j],
         SaidInv(view', server'),
         state \in {"closing", "closed"} => extra'[i] # {},
         state \in {"connecting", "open"} =>
           (view'.ws = i /\ (view'.connecting \/ view'.connected)) \/ "report" \in extra'[i],
         \A j \in Ssh!Ids \ {i} :
           view.ws = j /\ (view.connecting \/ view.connected) /\ server[j] \in {"connecting", "open"} =>
             (view'.ws = j /\ (view'.connecting \/ view'.connected))
  PROVE  SshInv'
<1>1. server' \in SshSockets /\ \A j \in Ssh!Ids : server'[j] = IF j = i THEN state ELSE server[j]
  BY DEF SshInv, SshSockets
<1>2. OwnInv(view, server, extra)
  BY DEF SshInv
<1>3. ASSUME NEW j \in Ssh!Ids
      PROVE  /\ server'[j] \in {"connecting", "open"} =>
                  (view'.ws = j /\ (view'.connecting \/ view'.connected)) \/ "report" \in extra'[j]
             /\ server'[j] \in {"closing", "closed"} => extra'[j] # {}
  <2>1. CASE j = i
    BY <1>1, <2>1
  <2>2. CASE j # i
    BY <1>1, <1>2, <2>2 DEF OwnInv
  <2> QED
    BY <2>1, <2>2
<1>4. OwnInv(view', server', extra')
  BY <1>3 DEF OwnInv
<1> QED
  BY <1>1, <1>4 DEF SshInv

\* A terminal that is not connected, with what it says.
LEMMA SshIdles ==
  ASSUME NEW v \in SshViews, NEW status \in {"unknown", "up", "down"}
  PROVE  /\ Ssh!Idle(v, status) \in SshViews /\ Ssh!Idle(v, status).ws = v.ws
         /\ ~Ssh!Idle(v, status).connected /\ ~Ssh!Idle(v, status).connecting
<1> DEFINE d == Ssh!Idle(v, status)
<1>1. d \in SshViews /\ d.ws = v.ws
  BY DEF SshViews, Ssh!Idle
<1>2. d.connected = FALSE /\ d.connecting = FALSE
  BY DEF SshViews, Ssh!Idle
<1> QED
  BY <1>1, <1>2

\* Every step of the panel keeps its invariant.
LEMMA SshSteps == SshInv /\ Ssh!Next => SshInv'
<1> SUFFICES ASSUME SshInv, Ssh!Next PROVE SshInv'
  OBVIOUS
<1>0. view \in SshViews
  BY DEF SshInv
<1>1. server \in SshSockets
  BY DEF SshInv
<1>2. extra \in SshReasons
  BY DEF SshInv
<1>3. flight \subseteq Ssh!Ids
  BY DEF SshInv
<1>4. SaidInv(view, server) /\ OwnInv(view, server, extra)
  BY DEF SshInv
<1>5. \A j \in Ssh!Ids : j # None
  BY SshGiven DEF Ssh!Ids
<1>6. view.ws # None => view.ws \in Ssh!Ids
  BY <1>0 DEF SshViews
\* Of one socket's state.
<1>7. ASSUME NEW i, NEW state
      PROVE  \A j \in Ssh!Ids : [server EXCEPT ![i] = state][j] = IF j = i THEN state ELSE server[j]
  BY <1>1 DEF SshSockets
<1>8. CASE Ssh!Start
  <2>1. PICK i \in Ssh!Ids :
       /\ server[i] = "new"
       /\ server' = [server EXCEPT ![i] = "connecting"]
       /\ flight' = flight \cup {i}
       /\ view' = [Ssh!Idle(view, "unknown") EXCEPT !.ws = i, !.connecting = TRUE, !.manual = FALSE]
    BY <1>8 DEF Ssh!Start
  <2>2. extra' = extra /\ ~view.connecting /\ ~view.connected
    BY <1>8 DEF Ssh!Start, Ssh!MayStart
  <2>3. PICK d \in SshViews : d = Ssh!Idle(view, "unknown") /\ ~d.connected
    BY <1>0, SshIdles
  <2>4. view' \in SshViews /\ view'.ws = i
    BY <2>1, <2>3 DEF SshViews
  <2>5. view'.connecting = TRUE /\ view'.connected = d.connected
    BY <2>1, <2>3 DEF SshViews
  <2>6. SaidInv(view', server')
    BY <2>3, <2>5 DEF SaidInv
  <2> QED
    BY <1>2, <1>3, <2>1, <2>2, <2>4, <2>5, <2>6, SocketChanges
<1>9. CASE Ssh!Disconnect
  <2>1. CASE view.ws = None
    <3>1. PICK d \in SshViews : d = Ssh!Idle(view, "unknown") /\ ~d.connected /\ d.ws = None
      BY <1>0, <2>1, SshIdles
    <3>2. view' = [d EXCEPT !.manual = TRUE] /\ server' = server /\ extra' = extra /\ flight' = flight
      BY <1>9, <2>1, <3>1 DEF Ssh!Disconnect
    <3>3. view' \in SshViews /\ view'.ws = None
      BY <3>1, <3>2 DEF SshViews
    <3>4. view'.connected = FALSE
      BY <3>1, <3>2 DEF SshViews
    <3>5. SaidInv(view', server')
      BY <3>4 DEF SaidInv
    <3>6. OwnInv(view', server', extra')
      BY <1>4, <1>5, <2>1, <3>2 DEF OwnInv
    <3> QED
      BY <1>1, <1>2, <1>3, <3>2, <3>3, <3>5, <3>6 DEF SshInv
  <2>2. CASE view.ws # None
    <3>1. PICK i \in Ssh!Ids : view.ws = i
      BY <1>6, <2>2
    <3>2. view' = [view EXCEPT !.manual = TRUE] /\ extra' = Ssh!Because(i, "user") /\ flight' = flight
          /\ server' = IF server[i] \in {"connecting", "open"} THEN [server EXCEPT ![i] = "closing"] ELSE server
      BY <1>9, <2>2, <3>1 DEF Ssh!Disconnect, Ssh!Live
    <3>3. view' \in SshViews /\ view'.ws = view.ws /\ view'.status = view.status
      BY <1>0, <3>2 DEF SshViews
    <3>4. view'.connected = view.connected /\ view'.connecting = view.connecting
      BY <1>0, <3>2 DEF SshViews
    <3>5. extra' \in SshReasons /\ "user" \in extra'[i] /\ \A j \in Ssh!Ids : extra[j] \subseteq extra'[j]
      BY <1>2, <3>2, ReasonsGrow
    <3>6. CASE server[i] \in {"connecting", "open"}
      <4>1. server' = [server EXCEPT ![i] = "closing"] /\ server'[i] = "closing"
        BY <1>7, <3>2, <3>6
      <4>2. SaidInv(view', server')
        BY <1>4, <3>1, <3>3, <3>4, <4>1 DEF SaidInv
      <4> QED
        BY <1>3, <3>2, <3>3, <3>4, <3>5, <4>1, <4>2, SocketChanges
    <3>7. CASE server[i] \notin {"connecting", "open"}
      <4>1. SaidInv(view', server')
        BY <1>4, <3>2, <3>3, <3>4, <3>7 DEF SaidInv
      <4>2. OwnInv(view', server', extra')
        BY <1>4, <3>2, <3>3, <3>4, <3>5, <3>7 DEF OwnInv
      <4> QED
        BY <1>1, <1>3, <3>2, <3>3, <3>5, <3>7, <4>1, <4>2 DEF SshInv
    <3> QED
      BY <3>6, <3>7
  <2> QED
    BY <2>1, <2>2
<1>10. ASSUME NEW i \in Ssh!Ids, Ssh!TimerFires(i) PROVE SshInv'
  <2>1. flight' \subseteq Ssh!Ids /\ view' = view
    BY <1>3, <1>10 DEF Ssh!TimerFires
  <2>2. CASE view.ws = i
    <3>1. extra' = Ssh!Because(i, "timer")
          /\ server' = IF server[i] \in {"connecting", "open"} THEN [server EXCEPT ![i] = "closing"] ELSE server
      BY <1>5, <1>10, <2>2 DEF Ssh!TimerFires, Ssh!Target, Ssh!Live
    <3>2. extra' \in SshReasons /\ "timer" \in extra'[i] /\ \A j \in Ssh!Ids : extra[j] \subseteq extra'[j]
      BY <1>2, <3>1, ReasonsGrow
    <3>3. CASE server[i] \in {"connecting", "open"}
      <4>1. server' = [server EXCEPT ![i] = "closing"] /\ server'[i] = "closing"
        BY <1>7, <3>1, <3>3
      <4>2. SaidInv(view', server')
        BY <1>4, <2>1, <2>2, <4>1 DEF SaidInv
      <4> QED
        BY <1>0, <2>1, <3>2, <4>1, <4>2, SocketChanges
    <3>4. CASE server[i] \notin {"connecting", "open"}
      <4>1. OwnInv(view', server', extra')
        BY <1>4, <2>1, <3>1, <3>2, <3>4 DEF OwnInv
      <4> QED
        BY <1>0, <1>1, <1>4, <2>1, <3>1, <3>2, <3>4, <4>1 DEF SshInv
    <3> QED
      BY <3>3, <3>4
  <2>3. CASE view.ws # i
    <3>1. extra' = extra /\ server' = server
      BY <1>10, <2>3 DEF Ssh!TimerFires, Ssh!Target
    <3> QED
      BY <1>0, <1>1, <1>2, <1>4, <2>1, <3>1 DEF SshInv
  <2> QED
    BY <2>2, <2>3
<1>11. ASSUME NEW i \in Ssh!Ids, Ssh!Open(i) PROVE SshInv'
  <2>1. server[i] = "connecting" /\ server' = [server EXCEPT ![i] = "open"] /\ server'[i] = "open"
        /\ view' = view /\ extra' = extra /\ flight' = flight
    BY <1>7, <1>11 DEF Ssh!Open
  <2>2. SaidInv(view', server')
    BY <1>4, <1>6, <1>7, <2>1 DEF SaidInv
  <2>3. (view.ws = i /\ (view.connecting \/ view.connected)) \/ "report" \in extra[i]
    BY <1>4, <2>1 DEF OwnInv
  <2> QED
    BY <1>0, <1>2, <1>3, <2>1, <2>2, <2>3, SocketChanges
<1>12. ASSUME NEW i \in Ssh!Ids, Ssh!Message(i) PROVE SshInv'
  <2>1. PICK type \in {"ready", "error", "closed"} :
       /\ view' = IF ~Ssh!Current(i) THEN view
                 ELSE IF type = "ready"
                 THEN [view EXCEPT !.connecting = FALSE, !.connected = TRUE, !.status = "up"]
                 ELSE Ssh!Idle(view, IF type = "error" THEN "down" ELSE "unknown")
       /\ extra' = IF type = "ready" THEN extra ELSE Ssh!Because(i, "report")
    BY <1>12 DEF Ssh!Message
  <2>2. server[i] = "open" /\ server' = server /\ flight' = flight
    BY <1>12 DEF Ssh!Message
  <2>3. extra' \in SshReasons /\ (type # "ready" => "report" \in extra'[i])
        /\ \A j \in Ssh!Ids : extra[j] \subseteq extra'[j]
    BY <1>2, <2>1, ReasonsGrow
  <2>4. CASE view.ws # i
    <3>1. view' = view
      BY <2>1, <2>4 DEF Ssh!Current
    <3>2. OwnInv(view', server', extra')
      BY <1>4, <2>2, <2>3, <3>1 DEF OwnInv
    <3> QED
      BY <1>0, <1>1, <1>3, <1>4, <2>2, <2>3, <3>1, <3>2 DEF SshInv
  <2>5. CASE view.ws = i /\ type = "ready"
    <3>1. view' = [view EXCEPT !.connecting = FALSE, !.connected = TRUE, !.status = "up"] /\ extra' = extra
      BY <2>1, <2>5 DEF Ssh!Current
    <3>2. view' \in SshViews /\ view'.ws = view.ws /\ view'.status = "up"
      BY <1>0, <3>1 DEF SshViews
    <3>3. view'.connected = TRUE
      BY <1>0, <3>1 DEF SshViews
    <3>4. SaidInv(view', server')
      BY <1>5, <2>2, <2>5, <3>2 DEF SaidInv
    <3>5. OwnInv(view', server', extra')
      BY <1>4, <2>2, <2>5, <3>1, <3>2, <3>3 DEF OwnInv
    <3> QED
      BY <1>1, <1>3, <2>2, <2>3, <3>2, <3>4, <3>5 DEF SshInv
  <2>6. CASE view.ws = i /\ type # "ready"
    <3>1. PICK status \in {"unknown", "up", "down"} : view' = Ssh!Idle(view, status)
      BY <2>1, <2>6 DEF Ssh!Current
    <3>2. view' \in SshViews /\ view'.ws = i /\ ~view'.connected
      BY <1>0, <2>6, <3>1, SshIdles
    <3>3. SaidInv(view', server')
      BY <3>2 DEF SaidInv
    <3>4. OwnInv(view', server', extra')
      BY <1>4, <2>2, <2>3, <2>6 DEF OwnInv
    <3> QED
      BY <1>1, <1>3, <2>2, <2>3, <3>2, <3>3, <3>4 DEF SshInv
  <2> QED
    BY <2>4, <2>5, <2>6
<1>13. ASSUME NEW i \in Ssh!Ids, Ssh!Error(i) PROVE SshInv'
  <2>1. server' = [server EXCEPT ![i] = "closing"] /\ server'[i] = "closing"
        /\ extra' = Ssh!Because(i, "socket") /\ flight' = flight
        /\ view' = IF view.ws = i THEN Ssh!Idle(view, "down") ELSE view
    BY <1>7, <1>13 DEF Ssh!Error, Ssh!Current
  <2>2. extra' \in SshReasons /\ "socket" \in extra'[i] /\ \A j \in Ssh!Ids : extra[j] \subseteq extra'[j]
    BY <1>2, <2>1, ReasonsGrow
  <2>3. view' \in SshViews /\ view'.ws = view.ws /\ (view.ws = i => ~view'.connected)
    BY <1>0, <2>1, SshIdles
  <2>4. SaidInv(view', server')
    BY <1>4, <1>6, <1>7, <2>1, <2>3 DEF SaidInv
  <2> QED
    BY <1>3, <2>1, <2>2, <2>3, <2>4, SocketChanges
<1>14. ASSUME NEW i \in Ssh!Ids, Ssh!CloseEvent(i) PROVE SshInv'
  <2>1. server' = [server EXCEPT ![i] = "closed"] /\ server'[i] = "closed" /\ flight' \subseteq Ssh!Ids
        /\ server[i] \in {"connecting", "open", "closing"}
        /\ extra' = IF server[i] = "closing" THEN extra ELSE Ssh!Because(i, "socket")
    BY <1>3, <1>7, <1>14 DEF Ssh!CloseEvent
  <2>2. extra' \in SshReasons /\ extra'[i] # {} /\ \A j \in Ssh!Ids : extra[j] \subseteq extra'[j]
    BY <1>2, <1>4, <2>1, ReasonsGrow DEF OwnInv
  <2>3. CASE view.ws # i
    <3>1. view' = view
      BY <1>14, <2>3 DEF Ssh!CloseEvent, Ssh!Current
    <3>2. SaidInv(view', server')
      BY <1>4, <1>6, <1>7, <2>1, <2>3, <3>1 DEF SaidInv
    <3> QED
      BY <1>0, <2>1, <2>2, <3>1, <3>2, SocketChanges
  <2>4. CASE view.ws = i
    <3>1. CASE view.connected \/ view.connecting
      <4>1. PICK status \in {"unknown", "up", "down"} : view' = [Ssh!Idle(view, status) EXCEPT !.ws = None]
        BY <1>14, <2>4, <3>1 DEF Ssh!CloseEvent, Ssh!Current
      <4>2. PICK d \in SshViews : d = Ssh!Idle(view, status) /\ ~d.connected
        BY <1>0, SshIdles
      <4>3. view' \in SshViews
        BY <4>1, <4>2 DEF SshViews
      <4>4. view'.connected = d.connected
        BY <4>1, <4>2 DEF SshViews
      <4>5. SaidInv(view', server')
        BY <4>2, <4>4 DEF SaidInv
      <4> QED
        BY <2>1, <2>2, <2>4, <4>3, <4>5, SocketChanges
    <3>2. CASE ~(view.connected \/ view.connecting)
      <4>1. view' = [view EXCEPT !.ws = None]
        BY <1>14, <2>4, <3>2 DEF Ssh!CloseEvent, Ssh!Current
      <4>2. view' \in SshViews
        BY <1>0, <4>1 DEF SshViews
      <4>3. view'.connected = view.connected
        BY <1>0, <4>1 DEF SshViews
      <4>4. SaidInv(view', server')
        BY <3>2, <4>3 DEF SaidInv
      <4> QED
        BY <2>1, <2>2, <2>4, <4>2, <4>4, SocketChanges
    <3> QED
      BY <3>1, <3>2
  <2> QED
    BY <2>3, <2>4
<1> QED
  BY <1>8, <1>9, <1>10, <1>11, <1>12, <1>13, <1>14 DEF Ssh!Next

\* The invariant holds when the panel is opened.
LEMMA SshStart == Ssh!Init => SshInv
<1> SUFFICES ASSUME Ssh!Init PROVE SshInv
  OBVIOUS
<1>1. view = [ws |-> None, connecting |-> FALSE, connected |-> FALSE, manual |-> FALSE, status |-> "unknown"]
      /\ server = [i \in Ssh!Ids |-> "new"] /\ flight = {} /\ extra = [i \in Ssh!Ids |-> {}]
  BY DEF Ssh!Init
<1>2. view \in SshViews /\ SaidInv(view, server)
  BY <1>1 DEF SshViews, SaidInv
<1>3. server \in SshSockets /\ extra \in SshReasons /\ OwnInv(view, server, extra)
  BY <1>1 DEF SshSockets, SshReasons, OwnInv
<1> QED
  BY <1>1, <1>2, <1>3 DEF SshInv

-----------------------------------------------------------------------------
(* Snapshots, rates, trends and the process table.                         *)

\* What the panel is given.
LEMMA MonitorGiven ==
  /\ MaxTime \in Nat \ {0, 1} /\ Counter \in [0 .. MaxTime -> Nat] /\ Keep \in Nat /\ MiniKeep \in Nat
  /\ Cpu \in [Monitor!Pids -> Nat] /\ Monitor!Pids \subseteq Nat
  /\ Running \in [1 .. MaxTime -> [top : Seq(Monitor!Pids), jvm : Seq(Monitor!Pids)]]
  /\ \A t \in 1 .. MaxTime : \A list \in {Running[t].top, Running[t].jvm} :
       \A i, j \in DOMAIN list : list[i] = list[j] => i = j
BY PageAssumption

\* A set of numbers has a least one.
LEMMA Smallest ==
  ASSUME NEW S \in SUBSET Nat, S # {}
  PROVE  \E n \in S : \A m \in S : n <= m
<1>1. PICK n \in S : \A m \in Nat : <<m, n>> \in OpToRel(<, Nat) => m \notin S
  BY NatLessThanWellFounded, WFMin
<1>2. \A m \in S : ~(m < n)
  BY <1>1 DEF OpToRel
<1> QED
  BY <1>2

\* F has the wanted members of the first n of a list, for all n up to k.
Filters(F, list, wanted, k) ==
  F = [n \in 0 .. k |->
        IF n = 0 THEN <<>>
        ELSE IF list[n] \in wanted THEN Append(F[n - 1], list[n]) ELSE F[n - 1]]

\* There is such a function.
LEMMA FiltersExist ==
  ASSUME NEW list, NEW wanted, NEW k \in Nat
  PROVE  \E F : Filters(F, list, wanted, k)
<1> DEFINE N == {n \in Nat : ~ \E F : Filters(F, list, wanted, n)}
<1> SUFFICES ASSUME N # {} PROVE FALSE
  OBVIOUS
<1>1. PICK n \in N : \A m \in N : n <= m
  BY Smallest
<1>2. n # 0
  <2> DEFINE F == [i \in 0 .. 0 |-> <<>>]
  <2>1. F = [i \in 0 .. 0 |->
              IF i = 0 THEN <<>>
              ELSE IF list[i] \in wanted THEN Append(F[i - 1], list[i]) ELSE F[i - 1]]
    OBVIOUS
  <2>2. Filters(F, list, wanted, 0)
    BY <2>1 DEF Filters
  <2> QED
    BY <1>1, <2>2
<1>3. n - 1 \in Nat /\ n - 1 \notin N
  BY <1>1, <1>2
<1>4. PICK F : Filters(F, list, wanted, n - 1)
  BY <1>3
<1> DEFINE G == [i \in 0 .. n |->
                  IF i < n THEN F[i]
                  ELSE IF list[i] \in wanted THEN Append(F[i - 1], list[i]) ELSE F[i - 1]]
<1>5. \A i \in 0 .. n - 1 : F[i] = IF i = 0 THEN <<>>
                                   ELSE IF list[i] \in wanted THEN Append(F[i - 1], list[i]) ELSE F[i - 1]
  BY <1>4 DEF Filters
<1>6. \A i \in 0 .. n : G[i] = IF i = 0 THEN <<>>
                               ELSE IF list[i] \in wanted THEN Append(G[i - 1], list[i]) ELSE G[i - 1]
  <2> SUFFICES ASSUME NEW i \in 0 .. n
               PROVE  G[i] = IF i = 0 THEN <<>>
                             ELSE IF list[i] \in wanted THEN Append(G[i - 1], list[i]) ELSE G[i - 1]
    OBVIOUS
  <2>1. i # 0 => i - 1 \in 0 .. n /\ i - 1 < n /\ G[i - 1] = F[i - 1]
    BY <1>1
  <2>2. CASE i < n
    <3>1. G[i] = F[i] /\ i \in 0 .. n - 1
      BY <1>1, <2>2
    <3> QED
      BY <1>5, <2>1, <3>1
  <2>3. CASE i = n
    <3>1. G[i] = IF list[i] \in wanted THEN Append(F[i - 1], list[i]) ELSE F[i - 1]
      BY <1>1, <2>3
    <3> QED
      BY <1>2, <2>1, <2>3, <3>1
  <2> QED
    BY <1>1, <2>2, <2>3
<1> HIDE DEF G
<1>7. G = [i \in 0 .. n |-> G[i]]
  BY DEF G
<1>8. Filters(G, list, wanted, n)
  BY <1>6, <1>7 DEF Filters
<1> QED
  BY <1>1, <1>8

\* The members of r are wanted members of the first n of the list, in their order.
Picks(r, list, wanted, n) ==
  \E m \in [1 .. Len(r) -> 1 .. n] :
    /\ \A i \in 1 .. Len(r) : r[i] = list[m[i]] /\ r[i] \in wanted
    /\ \A i, j \in 1 .. Len(r) : i < j => m[i] < m[j]

\* What was picked of the first n was picked of the first n + 1.
LEMMA PicksMore ==
  ASSUME NEW S, NEW r \in Seq(S), NEW list, NEW wanted, NEW n \in Nat, Picks(r, list, wanted, n)
  PROVE  Picks(r, list, wanted, n + 1)
<1>1. PICK m \in [1 .. Len(r) -> 1 .. n] :
        /\ \A i \in 1 .. Len(r) : r[i] = list[m[i]] /\ r[i] \in wanted
        /\ \A i, j \in 1 .. Len(r) : i < j => m[i] < m[j]
  BY DEF Picks
<1>2. m \in [1 .. Len(r) -> 1 .. n + 1]
  OBVIOUS
<1> QED
  BY <1>1, <1>2 DEF Picks

\* One more element at the end of a list.
LEMMA OneMoreAtTheEnd ==
  ASSUME NEW S, NEW r \in Seq(S), NEW x \in S
  PROVE  \E q \in Seq(S) : /\ q = Append(r, x) /\ Len(r) \in Nat /\ Len(q) = Len(r) + 1
                           /\ q[Len(r) + 1] = x /\ \A i \in 1 .. Len(r) : q[i] = r[i]
<1> DEFINE m == Append(r, x)
<1>1. m \in Seq(S) /\ Len(r) \in Nat /\ Len(m) = Len(r) + 1 /\ m[Len(r) + 1] = x
  OBVIOUS
<1>2. \A i \in 1 .. Len(r) : m[i] = r[i]
  OBVIOUS
<1>3. m = Append(r, x)
  OBVIOUS
<1> HIDE DEF m
<1> QED
  BY <1>1, <1>2, <1>3

\* One more is picked.
LEMMA PicksOne ==
  ASSUME NEW S, NEW r \in Seq(S), NEW list, NEW wanted, NEW n \in Nat, Picks(r, list, wanted, n),
         list[n + 1] \in S, list[n + 1] \in wanted
  PROVE  Append(r, list[n + 1]) \in Seq(S) /\ Picks(Append(r, list[n + 1]), list, wanted, n + 1)
<1>1. PICK m \in [1 .. Len(r) -> 1 .. n] :
        /\ \A i \in 1 .. Len(r) : r[i] = list[m[i]] /\ r[i] \in wanted
        /\ \A i, j \in 1 .. Len(r) : i < j => m[i] < m[j]
  BY DEF Picks
<1>x. PICK x \in S : x = list[n + 1]
  OBVIOUS
<1>2. PICK q \in Seq(S) : /\ q = Append(r, x) /\ Len(r) \in Nat /\ Len(q) = Len(r) + 1
                          /\ q[Len(r) + 1] = x /\ \A i \in 1 .. Len(r) : q[i] = r[i]
  BY OneMoreAtTheEnd
<1> DEFINE k == [i \in 1 .. Len(q) |-> IF i <= Len(r) THEN m[i] ELSE n + 1]
<1>3. \A i \in 1 .. Len(q) : (i \in 1 .. Len(r) /\ k[i] = m[i] /\ m[i] \in 1 .. n) \/ (i = Len(r) + 1 /\ k[i] = n + 1)
  BY <1>1, <1>2
<1>4. k \in [1 .. Len(q) -> 1 .. n + 1]
  BY <1>3
<1> HIDE DEF k
<1>5. \A i \in 1 .. Len(q) : q[i] = list[k[i]] /\ q[i] \in wanted
  BY <1>x, <1>1, <1>2, <1>3
<1>6. \A i, j \in 1 .. Len(q) : i < j => k[i] < k[j]
  BY <1>1, <1>2, <1>3
<1> QED
  BY <1>x, <1>2, <1>4, <1>5, <1>6 DEF Picks

\* What a filter of a list has: wanted members of it in their order.
LEMMA FilteredFacts ==
  ASSUME NEW S, NEW list \in Seq(S), NEW wanted
  PROVE  /\ Monitor!Filtered(list, wanted) \in Seq(S)
         /\ Picks(Monitor!Filtered(list, wanted), list, wanted, Len(list))
<1>0. Len(list) \in Nat
  OBVIOUS
<1>1. PICK F : Filters(F, list, wanted, Len(list)) /\ Monitor!Filtered(list, wanted) = F[Len(list)]
  <2>1. \E F : Filters(F, list, wanted, Len(list))
    BY <1>0, FiltersExist
  <2> QED
    BY <2>1 DEF Filters, Monitor!Filtered
<1>2. \A n \in 0 .. Len(list) : F[n] = IF n = 0 THEN <<>>
        ELSE IF list[n] \in wanted THEN Append(F[n - 1], list[n]) ELSE F[n - 1]
  BY <1>1 DEF Filters
<1> DEFINE N == {n \in 0 .. Len(list) : ~(F[n] \in Seq(S) /\ Picks(F[n], list, wanted, n))}
<1>3. N = {}
  <2> SUFFICES ASSUME N # {} PROVE FALSE
    OBVIOUS
  <2>0. N \in SUBSET Nat
    BY <1>0
  <2>1. PICK n \in N : \A m \in N : n <= m
    BY <2>0, Smallest
  <2>2. CASE n = 0
    <3>1. F[n] = <<>>
      BY <1>0, <1>2, <2>2
    <3>2. <<>> \in Seq(S) /\ Len(<<>>) = 0
      OBVIOUS
    <3>3. Picks(<<>>, list, wanted, n)
      <4> DEFINE m == [i \in 1 .. 0 |-> 1]
      <4>1. m \in [1 .. 0 -> 1 .. n]
        OBVIOUS
      <4> HIDE DEF m
      <4>2. m \in [1 .. Len(<<>>) -> 1 .. n] /\ \A i \in 1 .. Len(<<>>) : FALSE
        BY <3>2, <4>1
      <4> QED
        BY <4>2 DEF Picks
    <3> QED
      BY <2>1, <3>1, <3>2, <3>3
  <2>3. CASE n # 0
    <3>1. n \in 0 .. Len(list) /\ n - 1 \in Nat /\ n - 1 \in 0 .. Len(list) /\ n - 1 + 1 = n /\ n \in 1 .. Len(list)
      BY <1>0, <2>1, <2>3
    <3>2. n - 1 \notin N
      BY <2>1, <3>1
    <3>3. F[n - 1] \in Seq(S) /\ Picks(F[n - 1], list, wanted, n - 1)
      BY <3>1, <3>2
    <3>4. list[n] \in S
      BY <3>1
    <3>5. CASE list[n] \in wanted
      <4>1. F[n] = Append(F[n - 1], list[n])
        BY <1>2, <2>3, <3>1, <3>5
      <4>2. Append(F[n - 1], list[n]) \in Seq(S) /\ Picks(Append(F[n - 1], list[n]), list, wanted, n)
        BY <3>1, <3>3, <3>4, <3>5, PicksOne
      <4> QED
        BY <2>1, <4>1, <4>2
    <3>6. CASE list[n] \notin wanted
      <4>1. F[n] = F[n - 1]
        BY <1>2, <2>3, <3>1, <3>6
      <4>2. Picks(F[n - 1], list, wanted, n)
        BY <3>1, <3>3, PicksMore
      <4> QED
        BY <2>1, <3>3, <4>1, <4>2
    <3> QED
      BY <3>5, <3>6
  <2> QED
    BY <2>2, <2>3
<1>4. Len(list) \in 0 .. Len(list)
  BY <1>0
<1> QED
  BY <1>1, <1>3, <1>4

\* A function on numbers has a largest value.
LEMMA Largest ==
  ASSUME NEW k \in Nat, k >= 2, NEW f \in [2 .. k -> Nat]
  PROVE  \E m \in 2 .. k : \A t \in 2 .. k : f[t] <= f[m]
<1> DEFINE N == {n \in 2 .. k : ~ \E m \in 2 .. n : \A t \in 2 .. n : f[t] <= f[m]}
<1>1. N = {}
  <2> SUFFICES ASSUME N # {} PROVE FALSE
    OBVIOUS
  <2>0. N \in SUBSET Nat
    OBVIOUS
  <2>1. PICK n \in N : \A m \in N : n <= m
    BY <2>0, Smallest
  <2>2. n \in 2 .. k /\ ~ \E m \in 2 .. n : \A t \in 2 .. n : f[t] <= f[m]
    BY <2>1
  <2>3. n # 2
    <3>1. n = 2 => 2 \in 2 .. n /\ \A t \in 2 .. n : t = 2
      OBVIOUS
    <3>2. f[2] <= f[2]
      BY <2>2
    <3> QED
      BY <2>2, <3>1, <3>2
  <2>4. n - 1 \in 2 .. k /\ n - 1 \notin N
    <3>1. n - 1 \in 2 .. k /\ ~(n <= n - 1)
      BY <2>2, <2>3
    <3> HIDE DEF N
    <3> QED
      BY <2>1, <3>1
  <2>5. PICK m \in 2 .. n - 1 : \A t \in 2 .. n - 1 : f[t] <= f[m]
    BY <2>4
  <2>6. m \in 2 .. n /\ n \in 2 .. n /\ f[m] \in Nat /\ f[n] \in Nat /\ \A t \in 2 .. n : t = n \/ t \in 2 .. n - 1
    BY <2>2
  <2>7. CASE f[n] <= f[m]
    BY <2>2, <2>5, <2>6, <2>7
  <2>8. CASE ~(f[n] <= f[m])
    <3>1. \A t \in 2 .. n : f[t] <= f[n]
      <4> SUFFICES ASSUME NEW t \in 2 .. n PROVE f[t] <= f[n]
        OBVIOUS
      <4>1. f[t] \in Nat
        BY <2>2
      <4>2. t = n => f[t] = f[n]
        OBVIOUS
      <4>3. t \in 2 .. n - 1 => f[t] <= f[m]
        BY <2>5
      <4>4. f[m] \in Nat /\ f[n] \in Nat /\ (t = n \/ t \in 2 .. n - 1)
        BY <2>6
      <4>5. f[n] <= f[n] /\ f[m] <= f[n]
        BY <2>8, <4>4
      <4>6. CASE t = n
        BY <4>2, <4>5, <4>6
      <4>7. CASE t \in 2 .. n - 1
        <5>1. f[t] <= f[m] /\ f[m] <= f[n]
          BY <4>3, <4>5, <4>7
        <5> HIDE DEF N
        <5> QED
          BY <4>1, <4>4, <5>1
      <4> QED
        BY <4>4, <4>6, <4>7
    <3> QED
      BY <2>2, <2>6, <3>1
  <2> QED
    BY <2>7, <2>8
<1>2. k \in 2 .. k
  OBVIOUS
<1> QED
  BY <1>1, <1>2

\* The steps of the counter, as DiskRateIsBounded has them.
Steps == {Monitor!Grown(t - 1, t) : t \in 2 .. MaxTime}

\* What the counter has grown is a number.
LEMMA GrownIsNumber ==
  ASSUME NEW a \in 0 .. MaxTime, NEW b \in 0 .. MaxTime
  PROVE  Monitor!Grown(a, b) \in Nat
<1>1. Counter[a] \in Nat /\ Counter[b] \in Nat
  BY MonitorGiven
<1> QED
  BY <1>1 DEF Monitor!Grown

\* There is a largest step.
LEMMA LargestStep ==
  Monitor!Max(Steps) \in Nat /\ \A t \in 2 .. MaxTime : Monitor!Grown(t - 1, t) <= Monitor!Max(Steps)
<1> DEFINE f == [t \in 2 .. MaxTime |-> Monitor!Grown(t - 1, t)]
<1>1. \A t \in 2 .. MaxTime : t - 1 \in 0 .. MaxTime /\ t \in 0 .. MaxTime
  BY MonitorGiven
<1>2. f \in [2 .. MaxTime -> Nat] /\ \A t \in 2 .. MaxTime : f[t] = Monitor!Grown(t - 1, t)
  BY <1>1, GrownIsNumber
<1> HIDE DEF f
<1>3. PICK m \in 2 .. MaxTime : \A t \in 2 .. MaxTime : f[t] <= f[m]
  <2>1. MaxTime \in Nat /\ MaxTime >= 2
    BY MonitorGiven
  <2> QED
    BY <1>2, <2>1, Largest
<1>4. f[m] \in Steps /\ \A x \in Steps : x \in Nat /\ x <= f[m]
  <2>1. f[m] \in Steps
    BY <1>2 DEF Steps
  <2>2. \A x \in Steps : \E t \in 2 .. MaxTime : x = f[t]
    BY <1>2 DEF Steps
  <2>3. \A t \in 2 .. MaxTime : f[t] \in Nat
    BY <1>2
  <2> QED
    BY <1>3, <2>1, <2>2, <2>3
<1>5. Monitor!Max(Steps) \in Steps /\ \A x \in Steps : Monitor!Max(Steps) >= x
  <2>1. \E x \in Steps : \A y \in Steps : x >= y
    BY <1>4
  <2> QED
    BY <2>1 DEF Monitor!Max
<1>6. Monitor!Max(Steps) \in Nat /\ \A x \in Steps : x <= Monitor!Max(Steps)
  BY <1>4, <1>5
<1>7. \A t \in 2 .. MaxTime : Monitor!Grown(t - 1, t) \in Steps
  BY DEF Steps
<1> QED
  BY <1>6, <1>7

\* One more step.
LEMMA OneMoreStep ==
  ASSUME NEW d \in Nat, NEW m \in Nat
  PROVE  (d + 1) * m = d * m + m /\ d * m \in Nat
  OBVIOUS

\* Between two samples the counter has not grown more than by the largest
\* step each time.
LEMMA GrownInSteps ==
  ASSUME NEW a \in 1 .. MaxTime, NEW b \in 1 .. MaxTime, a < b
  PROVE  Monitor!Grown(a, b) <= (b - a) * Monitor!Max(Steps)
<1>0. PICK m \in Nat : m = Monitor!Max(Steps) /\ \A t \in 2 .. MaxTime : Monitor!Grown(t - 1, t) <= m
  BY LargestStep
<1> DEFINE N == {n \in Nat : n > 0 /\ a + n <= MaxTime /\ ~(Monitor!Grown(a, a + n) <= n * m)}
<1>1. N = {}
  <2> SUFFICES ASSUME N # {} PROVE FALSE
    OBVIOUS
  <2>0. N \in SUBSET Nat
    OBVIOUS
  <2>1. PICK n \in N : \A k \in N : n <= k
    BY <2>0, Smallest
  <2>2. n \in Nat /\ n > 0 /\ a + n \in 2 .. MaxTime /\ ~(Monitor!Grown(a, a + n) <= n * m)
    BY <2>1, MonitorGiven
  <2>3. PICK d \in Nat : n = d + 1
    <3>1. n - 1 \in Nat /\ n = (n - 1) + 1
      BY <2>2
    <3> QED
      BY <3>1
  <2>4. n * m = d * m + m /\ d * m \in Nat
    BY <2>3, OneMoreStep
  <2>5. Monitor!Grown(a + d, a + n) <= m
    <3>1. a + n - 1 = a + d
      BY <2>2, <2>3
    <3> QED
      BY <1>0, <2>2, <3>1
  <2>6. a \in 0 .. MaxTime /\ a + d \in 0 .. MaxTime /\ a + n \in 0 .. MaxTime
    BY <2>2, <2>3, MonitorGiven
  <2>7. Counter[a] \in Nat /\ Counter[a + d] \in Nat /\ Counter[a + n] \in Nat
    BY <2>6, MonitorGiven
  <2>8. Monitor!Grown(a, a + d) <= d * m
    <3>1. CASE d = 0
      <4>1. a + d = a
        BY <3>1
      <4>2. Monitor!Grown(a, a + d) = 0
        BY <2>7, <4>1 DEF Monitor!Grown
      <4> QED
        BY <2>4, <4>2
    <3>2. CASE d # 0
      <4>1. ~(n <= d) /\ d > 0 /\ a + d <= MaxTime
        BY <2>2, <2>3, <3>2, MonitorGiven
      <4>2. d \notin N
        <5> HIDE DEF N
        <5> QED
          BY <2>1, <4>1
      <4> QED
        BY <4>1, <4>2
    <3> QED
      BY <3>1, <3>2
  <2>9. Monitor!Grown(a, a + n) <= Monitor!Grown(a, a + d) + Monitor!Grown(a + d, a + n)
    BY <2>7 DEF Monitor!Grown
  <2>10. /\ Monitor!Grown(a, a + n) \in Nat /\ Monitor!Grown(a, a + d) \in Nat
         /\ Monitor!Grown(a + d, a + n) \in Nat
    BY <2>6, GrownIsNumber
  <2> QED
    BY <2>2, <2>4, <2>5, <2>8, <2>9, <2>10
<1>2. PICK n \in Nat : n = b - a /\ n > 0 /\ a + n = b
  <2>1. b - a \in Nat /\ b - a > 0 /\ a + (b - a) = b
    OBVIOUS
  <2> QED
    BY <2>1
<1>3. n \notin N
  BY <1>1
<1>4. a + n <= MaxTime
  BY <1>2, MonitorGiven
<1> QED
  BY <1>0, <1>2, <1>3, <1>4

\* The length of a list, and its members by their places.
LEMMA ListFacts ==
  ASSUME NEW S, NEW list \in Seq(S)
  PROVE  Len(list) \in Nat /\ DOMAIN list = 1 .. Len(list) /\ \A i \in 1 .. Len(list) : list[i] \in S
  OBVIOUS

\* No member of the list is in it twice.
NoneTwice(list) == \A i, j \in 1 .. Len(list) : list[i] = list[j] => i = j

\* What is in a list of processes.
LEMMA MembersFacts ==
  ASSUME NEW list \in Seq(Monitor!Pids)
  PROVE  /\ Monitor!Members(list) \subseteq Monitor!Pids
         /\ Monitor!Members(list) = {list[i] : i \in 1 .. Len(list)}
<1>1. DOMAIN list = 1 .. Len(list) /\ \A i \in 1 .. Len(list) : list[i] \in Monitor!Pids
  BY ListFacts
<1> QED
  BY <1>1 DEF Monitor!Members

\* A list without repetition has as many members as places.
LEMMA AsManyMembers ==
  ASSUME NEW list \in Seq(Monitor!Pids), NoneTwice(list)
  PROVE  Monitor!Cardinality(Monitor!Members(list)) = Len(list)
<1>1. Len(list) \in Nat
  BY ListFacts
<1> DEFINE f == [i \in 1 .. Len(list) |-> list[i]]
<1>2. f \in [1 .. Len(list) -> Monitor!Members(list)]
  BY MembersFacts
<1>3. \A i \in 1 .. Len(list) : f[i] = list[i]
  OBVIOUS
<1> HIDE DEF f
<1>4. f \in Injection(1 .. Len(list), Monitor!Members(list))
  BY <1>2, <1>3 DEF NoneTwice, Injection, IsInjective
<1>5. f \in Surjection(1 .. Len(list), Monitor!Members(list))
  BY <1>2, <1>3, MembersFacts DEF Surjection
<1>6. ExistsBijection(1 .. Len(list), Monitor!Members(list))
  BY <1>4, <1>5 DEF ExistsBijection, Bijection
<1>7. Cardinality(Monitor!Members(list)) = Len(list)
  BY <1>1, <1>6, FS_CountingElements
<1>8. Monitor!Cardinality(Monitor!Members(list)) = Cardinality(Monitor!Members(list))
  BY DEF Monitor!Cardinality, Cardinality
<1> QED
  BY <1>7, <1>8

\* Two lists, one after the other.
LEMMA OneAfterTheOther ==
  ASSUME NEW r \in Seq(Monitor!Pids), NEW t \in Seq(Monitor!Pids)
  PROVE  \E q \in Seq(Monitor!Pids) :
           /\ q = r \o t /\ Len(q) = Len(r) + Len(t)
           /\ \A i \in 1 .. Len(q) : q[i] = IF i <= Len(r) THEN r[i] ELSE t[i - Len(r)]
<1> DEFINE q == r \o t
<1>1. q \in Seq(Monitor!Pids) /\ Len(q) = Len(r) + Len(t)
  OBVIOUS
<1>2. \A i \in 1 .. Len(q) : q[i] = IF i <= Len(r) THEN r[i] ELSE t[i - Len(r)]
  OBVIOUS
<1>3. q = r \o t
  OBVIOUS
<1> HIDE DEF q
<1> QED
  BY <1>1, <1>2, <1>3

\* mergeProcessList: every process has one row.
LEMMA MergedOnce ==
  ASSUME NEW top \in Seq(Monitor!Pids), NEW jvm \in Seq(Monitor!Pids), NoneTwice(top), NoneTwice(jvm)
  PROVE  Monitor!Merged(top, jvm) \in Seq(Monitor!Pids) /\ NoneTwice(Monitor!Merged(top, jvm))
<1> DEFINE wanted == Monitor!Pids \ Monitor!Members(top)
<1>1. PICK r \in Seq(Monitor!Pids) : r = Monitor!Filtered(jvm, wanted) /\ Picks(r, jvm, wanted, Len(jvm))
  BY FilteredFacts
<1>2. PICK m \in [1 .. Len(r) -> 1 .. Len(jvm)] :
        /\ \A i \in 1 .. Len(r) : r[i] = jvm[m[i]] /\ r[i] \in wanted
        /\ \A i, j \in 1 .. Len(r) : i < j => m[i] < m[j]
  BY <1>1 DEF Picks
<1>3. Len(r) \in Nat /\ Len(top) \in Nat /\ Len(jvm) \in Nat
  BY ListFacts
<1>4. PICK q \in Seq(Monitor!Pids) :
        /\ q = top \o r /\ Len(q) = Len(top) + Len(r)
        /\ \A i \in 1 .. Len(q) : q[i] = IF i <= Len(top) THEN top[i] ELSE r[i - Len(top)]
  BY OneAfterTheOther
<1>5. Monitor!Merged(top, jvm) = q
  BY <1>1, <1>4 DEF Monitor!Merged
<1>6. \A i \in 1 .. Len(top) : top[i] \notin wanted
  BY MembersFacts
<1>7. \A i, j \in 1 .. Len(r) : r[i] = r[j] => i = j
  <2> SUFFICES ASSUME NEW i \in 1 .. Len(r), NEW j \in 1 .. Len(r), r[i] = r[j] PROVE i = j
    OBVIOUS
  <2>1. jvm[m[i]] = jvm[m[j]] /\ m[i] \in 1 .. Len(jvm) /\ m[j] \in 1 .. Len(jvm)
    BY <1>2
  <2>2. m[i] = m[j]
    BY <2>1 DEF NoneTwice
  <2>3. ~(m[i] < m[j]) /\ ~(m[j] < m[i])
    BY <2>1, <2>2
  <2> QED
    BY <1>2, <1>3, <2>3
<1> HIDE DEF wanted
<1>8. \A i, j \in 1 .. Len(q) : q[i] = q[j] => i = j
  <2> SUFFICES ASSUME NEW i \in 1 .. Len(q), NEW j \in 1 .. Len(q), q[i] = q[j] PROVE i = j
    OBVIOUS
  <2>1. \A k \in 1 .. Len(q) : \/ k \in 1 .. Len(top) /\ q[k] = top[k]
                               \/ k - Len(top) \in 1 .. Len(r) /\ q[k] = r[k - Len(top)]
    BY <1>3, <1>4
  <2>2. CASE i \in 1 .. Len(top) /\ j \in 1 .. Len(top) /\ q[i] = top[i] /\ q[j] = top[j]
    BY <2>2 DEF NoneTwice
  <2>3. CASE i - Len(top) \in 1 .. Len(r) /\ j - Len(top) \in 1 .. Len(r)
             /\ q[i] = r[i - Len(top)] /\ q[j] = r[j - Len(top)]
    <3>1. i - Len(top) = j - Len(top)
      BY <1>7, <2>3
    <3> QED
      BY <1>3, <1>4, <3>1
  <2>4. CASE i \in 1 .. Len(top) /\ q[i] = top[i] /\ j - Len(top) \in 1 .. Len(r) /\ q[j] = r[j - Len(top)]
    BY <1>2, <1>6, <2>4
  <2>5. CASE j \in 1 .. Len(top) /\ q[j] = top[j] /\ i - Len(top) \in 1 .. Len(r) /\ q[i] = r[i - Len(top)]
    BY <1>2, <1>6, <2>5
  <2> QED
    BY <2>1, <2>2, <2>3, <2>4, <2>5
<1> QED
  BY <1>4, <1>5, <1>8 DEF NoneTwice

\* A header's order of the rows is a strict one.
LEMMA OrderIsStrict ==
  ASSUME NEW p \in Monitor!Pids, NEW q \in Monitor!Pids, p # q, NEW sort \in Monitor!Sorts
  PROVE  Monitor!Above(p, q, sort) <=> ~Monitor!Above(q, p, sort)
<1>1. Cpu[p] \in Nat /\ Cpu[q] \in Nat /\ p \in Nat /\ q \in Nat
  BY MonitorGiven
<1>2. sort.dir \in {"asc", "desc"} /\ sort.key \in {"cpu", "pid"}
  BY DEF Monitor!Sorts
<1>3. CASE sort.dir = "asc"
  BY <1>1, <1>2, <1>3 DEF Monitor!Above
<1>4. CASE sort.dir = "desc"
  BY <1>1, <1>2, <1>4 DEF Monitor!Above
<1> QED
  BY <1>2, <1>3, <1>4

\* A list of times of the past, each later than the one before it.
PastTimes(list, c) ==
  /\ list \in Seq(Monitor!Times)
  /\ \A i \in 1 .. Len(list) : list[i] <= c
  /\ \A i \in 2 .. Len(list) : list[i] > list[i - 1]

\* The end of such a list is one.
LEMMA EndOfPast ==
  ASSUME NEW c \in Nat, NEW list, PastTimes(list, c), NEW k \in 1 .. Len(list)
  PROVE  PastTimes(SubSeq(list, k, Len(list)), c)
<1>1. list \in Seq(Monitor!Times) /\ Len(list) \in Nat
  BY ListFacts DEF PastTimes
<1>2. PICK q \in Seq(Monitor!Times) :
        /\ q = SubSeq(list, k, Len(list)) /\ Len(q) = Len(list) - k + 1
        /\ \A i \in 1 .. Len(q) : q[i] = list[i + k - 1]
  <2> DEFINE q == SubSeq(list, k, Len(list))
  <2>1. q \in Seq(Monitor!Times) /\ Len(q) = Len(list) - k + 1
    BY <1>1
  <2>2. \A i \in 1 .. Len(q) : q[i] = list[i + k - 1]
    BY <1>1
  <2>3. q = SubSeq(list, k, Len(list))
    OBVIOUS
  <2> HIDE DEF q
  <2> QED
    BY <2>1, <2>2, <2>3
<1>3. \A i \in 1 .. Len(q) : i + k - 1 \in 1 .. Len(list) /\ (i > 1 => i + k - 1 \in 2 .. Len(list) /\ i - 1 + k - 1 = i + k - 1 - 1)
  BY <1>1, <1>2
<1>4. \A i \in 1 .. Len(q) : q[i] <= c
  BY <1>2, <1>3 DEF PastTimes
<1>5. \A i \in 2 .. Len(q) : q[i] > q[i - 1]
  <2> SUFFICES ASSUME NEW i \in 2 .. Len(q) PROVE q[i] > q[i - 1]
    OBVIOUS
  <2>1. i \in 1 .. Len(q) /\ i - 1 \in 1 .. Len(q) /\ i > 1
    BY <1>1, <1>2
  <2>2. q[i] = list[i + k - 1] /\ q[i - 1] = list[i + k - 1 - 1] /\ i + k - 1 \in 2 .. Len(list)
    BY <1>2, <1>3, <2>1
  <2> QED
    BY <2>2 DEF PastTimes
<1> QED
  BY <1>2, <1>4, <1>5 DEF PastTimes

\* The smallest number of a set of places.
LEMMA MinIsIn ==
  ASSUME NEW K \in SUBSET Nat, K # {}
  PROVE  Monitor!Min(K) \in K
<1>1. \E x \in K : \A y \in K : x <= y
  BY Smallest
<1> QED
  BY <1>1 DEF Monitor!Min

\* Old points leave at the front.
LEMMA ShiftedPast ==
  ASSUME NEW c \in Nat, NEW list, PastTimes(list, c), NEW after
  PROVE  PastTimes(Monitor!Shifted(list, after), c)
<1>1. Len(list) \in Nat /\ DOMAIN list = 1 .. Len(list)
  BY ListFacts DEF PastTimes
<1> DEFINE K == {i \in DOMAIN list : list[i] >= after}
<1>2. CASE K = {}
  <2>1. Monitor!Shifted(list, after) = <<>>
    BY <1>2 DEF Monitor!Shifted
  <2>2. <<>> \in Seq(Monitor!Times) /\ Len(<<>>) = 0
    OBVIOUS
  <2> QED
    BY <2>1, <2>2 DEF PastTimes
<1>3. CASE K # {}
  <2>1. K \in SUBSET Nat /\ K \subseteq 1 .. Len(list)
    BY <1>1
  <2>2. Monitor!Min(K) \in 1 .. Len(list)
    BY <1>3, <2>1, MinIsIn
  <2>3. Monitor!Shifted(list, after) = SubSeq(list, Monitor!Min(K), Len(list))
    BY <1>3 DEF Monitor!Shifted
  <2> QED
    BY <2>2, <2>3, EndOfPast
<1> QED
  BY <1>2, <1>3

\* pushTrendPoint, of the present.
LEMMA PushedPast ==
  ASSUME NEW c \in Nat, NEW list, PastTimes(list, c), NEW t \in Monitor!Times, t = c
  PROVE  PastTimes(Monitor!Pushed(list, t), c)
<1>1. list \in Seq(Monitor!Times) /\ Len(list) \in Nat
  BY ListFacts DEF PastTimes
<1>2. PICK q : q = IF list # <<>> /\ list[Len(list)] = t THEN list ELSE Append(list, t)
  OBVIOUS
<1>3. PastTimes(q, c)
  <2>1. CASE list # <<>> /\ list[Len(list)] = t
    BY <1>2, <2>1
  <2>2. CASE ~(list # <<>> /\ list[Len(list)] = t)
    <3>1. PICK m \in Seq(Monitor!Times) : /\ m = Append(list, t) /\ Len(m) = Len(list) + 1
                                          /\ m[Len(list) + 1] = t /\ \A i \in 1 .. Len(list) : m[i] = list[i]
      <4>1. PICK l \in Seq(Monitor!Times) : l = list
        BY <1>1
      <4>2. \E m \in Seq(Monitor!Times) : /\ m = Append(l, t) /\ Len(l) \in Nat /\ Len(m) = Len(l) + 1
                                           /\ m[Len(l) + 1] = t /\ \A i \in 1 .. Len(l) : m[i] = l[i]
        <5> DEFINE m == Append(l, t)
        <5>1. m \in Seq(Monitor!Times) /\ Len(l) \in Nat /\ Len(m) = Len(l) + 1 /\ m[Len(l) + 1] = t
          OBVIOUS
        <5>2. \A i \in 1 .. Len(l) : m[i] = l[i]
          OBVIOUS
        <5>3. m = Append(l, t)
          OBVIOUS
        <5> HIDE DEF m
        <5> QED
          BY <5>1, <5>2, <5>3
      <4> QED
        BY <4>1, <4>2
    <3>2. \A i \in 1 .. Len(m) : m[i] <= c
      BY <1>1, <3>1 DEF PastTimes
    <3>3. \A i \in 2 .. Len(m) : m[i] > m[i - 1]
      <4> SUFFICES ASSUME NEW i \in 2 .. Len(m) PROVE m[i] > m[i - 1]
        OBVIOUS
      <4>1. CASE i = Len(list) + 1
        <5>1. i - 1 = Len(list) /\ Len(list) \in 1 .. Len(list)
          BY <1>1, <4>1
        <5>2. list # <<>>
          BY <5>1
        <5>3. list[Len(list)] # t /\ list[Len(list)] <= c /\ list[Len(list)] \in Nat
          <6>1. list[Len(list)] \in Monitor!Times
            BY <1>1, <5>1, ListFacts
          <6>2. list[Len(list)] \in Nat
            <7>1. \A x \in Monitor!Times : x \in Nat
              BY MonitorGiven DEF Monitor!Times
            <7> QED
              BY ONLY <6>1, <7>1
          <6>3. list[Len(list)] <= c
            BY <5>1 DEF PastTimes
          <6> QED
            BY <2>2, <5>2, <6>2, <6>3
        <5> QED
          BY <3>1, <4>1, <5>1, <5>3
      <4>2. CASE i # Len(list) + 1
        <5>1. i \in 2 .. Len(list) /\ i \in 1 .. Len(list) /\ i - 1 \in 1 .. Len(list)
          BY <1>1, <3>1, <4>2
        <5> QED
          BY <3>1, <5>1 DEF PastTimes
      <4> QED
        BY <4>1, <4>2
    <3>4. q = m
      BY <1>2, <2>2, <3>1
    <3> QED
      BY <3>1, <3>2, <3>3, <3>4 DEF PastTimes
  <2> QED
    BY <2>1, <2>2
<1>4. Monitor!Pushed(list, t) = Monitor!Shifted(q, t - Keep)
  BY <1>2 DEF Monitor!Pushed
<1> QED
  BY <1>3, <1>4, ShiftedPast

\* normalizeTrendPoints: what the server has stored.
LEMMA StoredPast ==
  ASSUME NEW c \in Nat, NEW n \in Monitor!Times, n <= c, NEW wanted
  PROVE  PastTimes(Monitor!Filtered([t \in 1 .. n |-> t], wanted), c)
<1>1. n \in Nat /\ 1 .. n \subseteq Monitor!Times
  BY MonitorGiven DEF Monitor!Times
<1>2. PICK list \in Seq(Monitor!Times) : list = [t \in 1 .. n |-> t] /\ Len(list) = n /\ \A t \in 1 .. n : list[t] = t
  <2> DEFINE list == [t \in 1 .. n |-> t]
  <2>1. list \in Seq(Monitor!Times) /\ Len(list) = n
    BY <1>1
  <2>2. \A t \in 1 .. n : list[t] = t
    OBVIOUS
  <2>3. list = [t \in 1 .. n |-> t]
    OBVIOUS
  <2> HIDE DEF list
  <2> QED
    BY <2>1, <2>2, <2>3
<1>3. PICK r \in Seq(Monitor!Times) : r = Monitor!Filtered(list, wanted) /\ Picks(r, list, wanted, n)
  BY <1>2, FilteredFacts
<1>4. PICK m \in [1 .. Len(r) -> 1 .. n] :
        /\ \A i \in 1 .. Len(r) : r[i] = list[m[i]]
        /\ \A i, j \in 1 .. Len(r) : i < j => m[i] < m[j]
  BY <1>3 DEF Picks
<1>5. Len(r) \in Nat
  BY ListFacts
<1>6. \A i \in 1 .. Len(r) : r[i] = m[i] /\ m[i] \in 1 .. n
  BY <1>2, <1>4
<1>7. \A i \in 1 .. Len(r) : r[i] <= c
  BY <1>1, <1>6
<1>8. \A i \in 2 .. Len(r) : r[i] > r[i - 1]
  <2> SUFFICES ASSUME NEW i \in 2 .. Len(r) PROVE r[i] > r[i - 1]
    OBVIOUS
  <2>1. i \in 1 .. Len(r) /\ i - 1 \in 1 .. Len(r) /\ i - 1 < i
    BY <1>5
  <2>2. m[i - 1] < m[i]
    BY <1>4, <2>1
  <2> QED
    BY <1>6, <2>1, <2>2
<1> QED
  BY <1>2, <1>3, <1>7, <1>8 DEF PastTimes

\* The state of the panel that the page keeps.
MonitorViews ==
  [snapshot : Monitor!Times, disk : [at : Monitor!Times, of : Monitor!Times], rate : Monitor!Rate,
   late : Monitor!Times, trend : Seq(Monitor!Times), cards : Seq(Monitor!Times),
   processes : Seq(Monitor!Pids), key : Series \cup {None}, window : Series \cup {"closed", "other"}]

\* Requests for a snapshot or for the trends, and the time of the answer.
SnapshotRequests == [ask : {"poll", "report", "trends"}, at : Monitor!Times]

\* Requests about a process.
ProcessRequests == [ask : {"detail", "kill"}, pid : Monitor!Pids]

\* What a slot of the panel may hold.
MonitorRequests == {Monitor!Unused} \cup SnapshotRequests \cup ProcessRequests

\* No answer is of a time to come.
AnswersPast(fl, c) ==
  /\ fl \in [Slots -> MonitorRequests]
  /\ \A s \in Slots : fl[s].ask \in {"poll", "report", "trends"} => fl[s].at <= c

\* A rate is what the disk did in the time between two arrivals and in that
\* by which the first of them was late.
Bounded(r) ==
  \/ r.diff <= (r.dt + r.late) * Monitor!Max(Steps)
  \/ r.older /\ Monitor!CounterFalls

\* The sample a rate starts from has come, and as late as the history says.
SampleInv(p, c) ==
  /\ p.disk.at <= c
  /\ p.disk.of > 0 => p.disk.at = p.disk.of + p.late

\* Rate, rows, trend and cards are of the past; the window is the trend's own.
MonitorShown(p, c) ==
  /\ p \in MonitorViews
  /\ Bounded(p.rate)
  /\ SampleInv(p, c)
  /\ NoneTwice(p.processes)
  /\ PastTimes(p.trend, c)
  /\ p.cards = Monitor!Recent(p.trend)
  /\ p.key # None => p.window = p.key

\* The inductive invariant of the panel.
MonitorInv ==
  /\ server \in 1 .. MaxTime
  /\ MonitorShown(view, server)
  /\ AnswersPast(flight, server)

\* The invariant implies the types and the properties of the panel.
LEMMA MonitorMean ==
  MonitorInv => /\ Monitor!TypeOK /\ Monitor!DiskRateIsBounded /\ Monitor!TrendKeepsToItsWindow
                /\ Monitor!OneRowEach /\ Monitor!TrendOfThePast
<1> SUFFICES ASSUME MonitorInv
             PROVE  /\ Monitor!TypeOK /\ Monitor!DiskRateIsBounded /\ Monitor!TrendKeepsToItsWindow
                    /\ Monitor!OneRowEach /\ Monitor!TrendOfThePast
  OBVIOUS
<1>1. view \in MonitorViews /\ server \in 1 .. MaxTime /\ flight \in [Slots -> MonitorRequests]
  BY DEF MonitorInv, MonitorShown, AnswersPast
<1>2. server \in Monitor!Times
  BY <1>1, MonitorGiven DEF Monitor!Times
<1>3. Monitor!TypeOK
  BY <1>1, <1>2 DEF MonitorViews, MonitorRequests, SnapshotRequests, ProcessRequests, Monitor!TypeOK
<1>4. Monitor!DiskRateIsBounded
  BY DEF MonitorInv, MonitorShown, Bounded, Steps, Monitor!DiskRateIsBounded
<1>5. Monitor!TrendKeepsToItsWindow
  BY DEF MonitorInv, MonitorShown, Monitor!TrendKeepsToItsWindow
<1>6. Monitor!OneRowEach
  <2>1. PICK list \in Seq(Monitor!Pids) : list = view.processes /\ NoneTwice(list)
    BY DEF MonitorInv, MonitorShown, MonitorViews
  <2>2. Monitor!Cardinality(Monitor!Members(list)) = Len(list)
    BY <2>1, AsManyMembers
  <2>3. Monitor!Members(list) \subseteq Monitor!Pids
    BY MembersFacts
  <2>4. \A p, q \in Monitor!Members(list), sort \in Monitor!Sorts :
          p # q => (Monitor!Above(p, q, sort) <=> ~Monitor!Above(q, p, sort))
    BY <2>3, OrderIsStrict
  <2> QED
    BY <2>1, <2>2, <2>4 DEF Monitor!OneRowEach
<1>7. Monitor!TrendOfThePast
  <2>1. PICK list \in Seq(Monitor!Times) : list = view.trend /\ PastTimes(list, server) /\ view.cards = Monitor!Recent(list)
    BY DEF MonitorInv, MonitorShown, PastTimes
  <2>2. DOMAIN list = 1 .. Len(list)
    BY ListFacts
  <2> QED
    BY <2>1, <2>2 DEF PastTimes, Monitor!TrendOfThePast
<1> QED
  BY <1>3, <1>4, <1>5, <1>6, <1>7

\* The cards are of the times of the trend.
LEMMA RecentTimes ==
  ASSUME NEW list \in Seq(Monitor!Times)
  PROVE  Monitor!Recent(list) \in Seq(Monitor!Times)
BY FilteredFacts DEF Monitor!Recent

\* A window is opened over the page, or closed.
LEMMA WindowKeeps ==
  ASSUME NEW c, NEW p, MonitorShown(p, c), NEW q \in MonitorViews,
         q.rate = p.rate, q.disk = p.disk, q.late = p.late,
         q.processes = p.processes, q.trend = p.trend, q.cards = p.cards,
         q.key # None => q.window = q.key
  PROVE  MonitorShown(q, c)
BY DEF MonitorShown, SampleInv

\* refreshTrendModalIfOpen.
LEMMA TrendRefreshedKeeps ==
  ASSUME NEW c, NEW p, MonitorShown(p, c)
  PROVE  MonitorShown(Monitor!TrendRefreshed(p), c)
<1>1. p \in MonitorViews /\ (p.key # None => p.window = p.key)
  BY DEF MonitorShown
<1>2. CASE p.key = None
  BY <1>2 DEF Monitor!TrendRefreshed
<1>3. CASE p.key # None /\ p.window = "closed"
  <2> DEFINE q == [p EXCEPT !.key = None]
  <2>1. q \in MonitorViews /\ q.key = None
    BY <1>1 DEF MonitorViews
  <2>2. q.rate = p.rate /\ q.processes = p.processes /\ q.trend = p.trend /\ q.cards = p.cards
        /\ q.disk = p.disk /\ q.late = p.late
    BY <1>1 DEF MonitorViews
  <2>3. Monitor!TrendRefreshed(p) = q
    BY <1>3 DEF Monitor!TrendRefreshed
  <2> HIDE DEF q
  <2> QED
    BY <2>1, <2>2, <2>3, WindowKeeps
<1>4. CASE p.key # None /\ p.window # "closed"
  <2> DEFINE q == [p EXCEPT !.window = p.key]
  <2>1. q \in MonitorViews /\ q.key = p.key /\ q.window = p.key
    BY <1>1, <1>4 DEF MonitorViews
  <2>2. q.rate = p.rate /\ q.processes = p.processes /\ q.trend = p.trend /\ q.cards = p.cards
        /\ q.disk = p.disk /\ q.late = p.late
    BY <1>1 DEF MonitorViews
  <2>3. Monitor!TrendRefreshed(p) = q
    BY <1>4 DEF Monitor!TrendRefreshed
  <2> HIDE DEF q
  <2> QED
    BY <2>1, <2>2, <2>3, WindowKeeps
<1> QED
  BY <1>2, <1>3, <1>4

\* More time, more that may be done in it.
LEMMA MoreInMoreTime ==
  ASSUME NEW x \in Nat, NEW y \in Nat, NEW m \in Nat, x <= y
  PROVE  x * m <= y * m /\ 0 <= y * m
  OBVIOUS

\* calculateDiskRealtime.
LEMMA RateIsBounded ==
  ASSUME NEW p \in MonitorViews, NEW t \in 1 .. MaxTime, server \in 1 .. MaxTime, t <= server,
         SampleInv(p, server)
  PROVE  Monitor!DiskRate(p, t) \in Monitor!Rate /\ Bounded(Monitor!DiskRate(p, t))
<1>1. PICK a \in Monitor!Times, d \in Monitor!Times, l \in Monitor!Times :
        a = p.disk.at /\ d = p.disk.of /\ l = p.late
  BY DEF MonitorViews
<1>2. PICK m \in Nat : m = Monitor!Max(Steps)
  BY LargestStep
<1>3. MaxTime \in Nat /\ a \in Nat /\ d \in Nat /\ l \in Nat /\ a <= server /\ (d > 0 => a = d + l)
  <2>1. MaxTime \in Nat /\ a \in Nat /\ d \in Nat /\ l \in Nat
    <3>1. MaxTime \in Nat
      BY MonitorGiven
    <3> QED
      BY <3>1 DEF Monitor!Times
  <2>2. a <= server /\ (d > 0 => a = d + l)
    BY <1>1 DEF SampleInv
  <2> QED
    BY <2>1, <2>2
<1>4. CASE d > 0 /\ server > a
  <2>1. /\ d \in 1 .. MaxTime /\ d \in 0 .. MaxTime /\ t \in 0 .. MaxTime /\ server - a \in Monitor!Times
        /\ server - a \in Nat
    BY <1>1, <1>3, <1>4 DEF Monitor!Times
  <2>2. PICK g \in Nat : g = Monitor!Grown(d, t)
    BY <2>1, GrownIsNumber
  <2>3. PICK r : r = [diff |-> g, dt |-> server - a, late |-> l, older |-> t < d]
    OBVIOUS
  <2>4. Monitor!DiskRate(p, t) = r
    BY <1>1, <1>4, <2>2, <2>3 DEF Monitor!DiskRate, Monitor!Stamp
  <2>5. r.diff = g /\ r.dt = server - a /\ r.late = l /\ r.older = (t < d) /\ r \in Monitor!Rate
    BY <2>1, <2>3 DEF Monitor!Rate
  <2>6. PICK y \in Nat : y = (server - a) + l /\ y = server - d
    BY <1>3, <1>4, <2>1
  <2>7. g <= y * m \/ (t < d /\ Monitor!CounterFalls)
    <3>1. CASE t > d
      <4>1. g <= (t - d) * m
        BY <1>2, <2>1, <2>2, <3>1, GrownInSteps
      <4>2. PICK x \in Nat : x = t - d /\ x <= y
        BY <2>1, <2>6, <3>1
      <4>3. x * m <= y * m /\ x * m \in Nat /\ y * m \in Nat
        BY <4>2, MoreInMoreTime
      <4> QED
        BY <4>1, <4>2, <4>3
    <3>2. CASE t <= d /\ (t < d => ~Monitor!CounterFalls)
      <4>1. Counter[d] \in Nat /\ Counter[t] \in Nat
        BY <2>1, MonitorGiven
      <4>2. ~(Counter[t] > Counter[d])
        <5>1. CASE t = d
          BY <4>1, <5>1
        <5>2. CASE t < d
          BY <2>1, <3>2, <4>1, <5>2 DEF Monitor!CounterFalls
        <5> QED
          BY <2>1, <3>2, <5>1, <5>2
      <4>3. g = 0
        BY <2>2, <4>2 DEF Monitor!Grown
      <4> QED
        BY <4>3, MoreInMoreTime
    <3> QED
      BY <2>1, <3>1, <3>2
  <2> QED
    BY <1>2, <2>4, <2>5, <2>6, <2>7 DEF Bounded
<1>5. CASE ~(d > 0 /\ server > a)
  <2>1. PICK r : r = [diff |-> 0, dt |-> 0, late |-> 0, older |-> FALSE]
    OBVIOUS
  <2>2. Monitor!DiskRate(p, t) = r
    BY <1>1, <1>5, <2>1 DEF Monitor!DiskRate, Monitor!Stamp, Monitor!NoRate
  <2>3. 0 \in Monitor!Times /\ 0 <= (0 + 0) * m
    BY MonitorGiven DEF Monitor!Times
  <2>4. r \in Monitor!Rate /\ r.diff = 0 /\ r.dt = 0 /\ r.late = 0
    BY <2>1, <2>3 DEF Monitor!Rate
  <2> QED
    BY <1>2, <2>2, <2>3, <2>4 DEF Bounded
<1> QED
  BY <1>4, <1>5

\* applyMonitorSnapshot and renderMonitor.
LEMMA CardsDrawn ==
  ASSUME server \in 1 .. MaxTime, NEW p, MonitorShown(p, server), NEW t \in 1 .. MaxTime, t <= server
  PROVE  MonitorShown(Monitor!Drawn(p, t), server)
<1>0. /\ p \in MonitorViews /\ PastTimes(p.trend, server) /\ (p.key # None => p.window = p.key)
      /\ server \in Monitor!Times /\ t \in Monitor!Times /\ server \in Nat
  BY MonitorGiven DEF MonitorShown, Monitor!Times
<1> DEFINE trend == Monitor!Pushed(p.trend, server)
           rate == Monitor!DiskRate(p, t)
           disk == [at |-> server, of |-> t]
           late == server - t
           rows == Monitor!Merged(Running[t].top, Running[t].jvm)
           b == [p EXCEPT !.snapshot = t, !.disk = disk, !.rate = rate, !.late = late, !.trend = trend,
                          !.processes = rows]
           cards == Monitor!Recent(b.trend)
           q == [b EXCEPT !.cards = cards]
<1>1. PastTimes(trend, server) /\ trend \in Seq(Monitor!Times)
  <2>1. PICK c \in Nat : c = server /\ c \in Monitor!Times /\ PastTimes(p.trend, c)
    BY <1>0
  <2>2. PastTimes(trend, c)
    BY <2>1, PushedPast
  <2> QED
    BY <2>1, <2>2 DEF PastTimes
<1>2. rate \in Monitor!Rate /\ Bounded(rate)
  BY <1>0, RateIsBounded DEF MonitorShown
<1>3. rows \in Seq(Monitor!Pids) /\ NoneTwice(rows)
  <2>1. PICK top \in Seq(Monitor!Pids) : top = Running[t].top
    BY MonitorGiven
  <2>2. PICK jvm \in Seq(Monitor!Pids) : jvm = Running[t].jvm
    BY MonitorGiven
  <2>3. DOMAIN top = 1 .. Len(top) /\ DOMAIN jvm = 1 .. Len(jvm)
    BY ListFacts
  <2>4. NoneTwice(top) /\ NoneTwice(jvm)
    BY MonitorGiven, <2>1, <2>2, <2>3 DEF NoneTwice
  <2> QED
    BY <2>1, <2>2, <2>4, MergedOnce
<1>4. /\ disk \in [at : Monitor!Times, of : Monitor!Times] /\ late \in Monitor!Times
      /\ disk.at = server /\ disk.of = t /\ server = t + late
  <2>1. server - t \in Monitor!Times /\ server = t + (server - t)
    BY <1>0, MonitorGiven DEF Monitor!Times
  <2> QED
    BY <1>0, <2>1
<1>5. Monitor!Drawn(p, t) = Monitor!TrendRefreshed(q)
  BY DEF Monitor!Drawn, Monitor!Cards, Monitor!Sample, Monitor!Stamp
<1> HIDE DEF trend, rate, rows, disk, late
<1>6. b \in MonitorViews
  BY <1>0, <1>1, <1>2, <1>3, <1>4 DEF MonitorViews
<1>7. b.trend = trend /\ b.rate = rate /\ b.processes = rows
  BY <1>0 DEF MonitorViews
<1>8. b.key = p.key /\ b.window = p.window /\ b.disk = disk /\ b.late = late
  BY <1>0 DEF MonitorViews
<1>9. cards \in Seq(Monitor!Times) /\ cards = Monitor!Recent(trend)
  BY <1>1, <1>7, RecentTimes
<1> HIDE DEF b, cards
<1>10. q \in MonitorViews
  BY <1>6, <1>9 DEF MonitorViews
<1>11. q.trend = trend /\ q.rate = rate /\ q.processes = rows /\ q.cards = cards
  BY <1>6, <1>7 DEF MonitorViews
<1>12. q.key = p.key /\ q.window = p.window /\ q.disk = disk /\ q.late = late
  BY <1>6, <1>8 DEF MonitorViews
<1> HIDE DEF q
<1>13. MonitorShown(q, server)
  <2>1. SampleInv(q, server)
    BY <1>0, <1>4, <1>12 DEF SampleInv
  <2> QED
    BY <2>1, <1>0, <1>1, <1>2, <1>3, <1>9, <1>10, <1>11, <1>12 DEF MonitorShown
<1> QED
  BY <1>5, <1>13, TrendRefreshedKeeps

\* Time goes on.
LEMMA LaterShown ==
  ASSUME NEW c \in Nat, NEW p, MonitorShown(p, c)
  PROVE  MonitorShown(p, c + 1)
<1>1. PICK list \in Seq(Monitor!Times) : list = p.trend /\ PastTimes(list, c)
  BY DEF MonitorShown, PastTimes
<1>2. \A i \in 1 .. Len(list) : list[i] \in Nat /\ list[i] <= c
  <2>1. \A i \in 1 .. Len(list) : list[i] \in Monitor!Times
    BY ListFacts
  <2>2. \A i \in 1 .. Len(list) : list[i] <= c
    BY <1>1 DEF PastTimes
  <2>3. Monitor!Times \subseteq Nat
    BY MonitorGiven DEF Monitor!Times
  <2> QED
    BY <2>1, <2>2, <2>3
<1>3. PastTimes(list, c + 1)
  BY <1>1, <1>2 DEF PastTimes
<1>4. SampleInv(p, c + 1)
  <2>1. p.disk.at \in Nat /\ p.disk.at <= c
    BY MonitorGiven DEF MonitorShown, MonitorViews, SampleInv, Monitor!Times
  <2> QED
    BY <2>1 DEF MonitorShown, SampleInv
<1> QED
  BY <1>1, <1>3, <1>4 DEF MonitorShown

\* A request takes a free slot, another ends.
LEMMA AnswersKept ==
  ASSUME NEW c, NEW fl, AnswersPast(fl, c), NEW s \in Slots, NEW q \in MonitorRequests,
         q.ask \in {"poll", "report", "trends"} => q.at <= c
  PROVE  AnswersPast([fl EXCEPT ![s] = q], c)
BY DEF AnswersPast

\* Every step of the panel keeps its invariant.
LEMMA MonitorSteps == MonitorInv /\ Monitor!Next => MonitorInv'
<1> SUFFICES ASSUME MonitorInv, Monitor!Next PROVE MonitorInv'
  OBVIOUS
<1>0. /\ server \in 1 .. MaxTime /\ server \in Nat /\ MaxTime \in Nat /\ MonitorShown(view, server)
      /\ AnswersPast(flight, server)
  BY MonitorGiven DEF MonitorInv
<1>1. view \in MonitorViews /\ flight \in [Slots -> MonitorRequests]
  BY <1>0 DEF MonitorShown, AnswersPast
<1>2. ASSUME server' = server, MonitorShown(view', server), AnswersPast(flight', server) PROVE MonitorInv'
  <2>1. MonitorShown(view', server') /\ AnswersPast(flight', server') /\ server' \in 1 .. MaxTime
    BY <1>0, <1>2
  <2> QED
    BY <2>1 DEF MonitorInv
<1>3. Monitor!Unused \in MonitorRequests /\ Monitor!Unused.ask = "none"
  BY DEF MonitorRequests, Monitor!Unused
<1>4. ASSUME NEW s \in Slots PROVE AnswersPast(Monitor!Over(flight, s), server)
  <2>1. AnswersPast([flight EXCEPT ![s] = Monitor!Unused], server)
    BY <1>0, <1>3, AnswersKept
  <2> QED
    BY <2>1 DEF Monitor!Over
<1>5. ASSUME Monitor!Room(flight), NEW q \in MonitorRequests,
             q.ask \in {"poll", "report", "trends"} => q.at = 0
      PROVE  AnswersPast(Monitor!Send(flight, q), server)
  <2>1. PICK s \in Slots : Monitor!Send(flight, q) = [flight EXCEPT ![s] = q]
    BY <1>5 DEF Monitor!Room, Monitor!Send
  <2>2. q.ask \in {"poll", "report", "trends"} => q.at <= server
    BY <1>0, <1>5
  <2>3. AnswersPast([flight EXCEPT ![s] = q], server)
    BY <1>0, <2>2 DEF AnswersPast
  <2> QED
    BY <2>1, <2>3
<1>6. ASSUME NEW s \in Slots, flight[s].ask \in {"poll", "report", "trends"}, flight[s].at > 0
      PROVE  flight[s] \in SnapshotRequests /\ flight[s].at \in 1 .. MaxTime /\ flight[s].at <= server
                /\ flight[s].at \in Monitor!Times
  <2>1. flight[s] \in MonitorRequests
    BY <1>1
  <2>2. flight[s] \in SnapshotRequests
    BY <1>6, <2>1 DEF MonitorRequests, ProcessRequests, Monitor!Unused
  <2>3. flight[s].at <= server
    BY <1>0, <1>6 DEF AnswersPast
  <2> QED
    BY <1>0, <1>6, <2>2, <2>3 DEF SnapshotRequests, Monitor!Times
<1>7. ASSUME view' = [view EXCEPT !.window = "other", !.key = None], flight' = flight \/ \E s \in Slots : flight' = Monitor!Over(flight, s),
             server' = server
      PROVE  MonitorInv'
  <2> DEFINE q == [view EXCEPT !.window = "other", !.key = None]
  <2>1. q \in MonitorViews /\ q.key = None
    BY <1>1 DEF MonitorViews
  <2>2. q.rate = view.rate /\ q.processes = view.processes /\ q.trend = view.trend /\ q.cards = view.cards
        /\ q.disk = view.disk /\ q.late = view.late
    BY <1>1 DEF MonitorViews
  <2>3. view' = q
    BY <1>7
  <2> HIDE DEF q
  <2>4. MonitorShown(q, server)
    BY <1>0, <2>1, <2>2, WindowKeeps
  <2>5. AnswersPast(flight', server)
    BY <1>0, <1>4, <1>7
  <2> QED
    BY <1>2, <1>7, <2>3, <2>4, <2>5
<1>8. CASE Monitor!Tick
  <2>1. server' = server + 1 /\ server < MaxTime /\ view' = view /\ flight' = flight
    BY <1>8 DEF Monitor!Tick
  <2>2. server' \in 1 .. MaxTime
    BY <1>0, <2>1
  <2>3. MonitorShown(view, server + 1)
    <3>1. PICK c \in Nat : c = server
      BY <1>0
    <3> QED
      BY <1>0, <3>1, LaterShown
  <2>4. AnswersPast(flight, server + 1)
    <3> SUFFICES ASSUME NEW s \in Slots, flight[s].ask \in {"poll", "report", "trends"}
                 PROVE  flight[s].at <= server + 1
      BY <1>1 DEF AnswersPast
    <3>1. flight[s] \in SnapshotRequests /\ flight[s].at <= server
      BY <1>0, <1>1 DEF AnswersPast, MonitorRequests, ProcessRequests, Monitor!Unused
    <3>2. flight[s].at \in Nat
      BY <3>1, MonitorGiven DEF SnapshotRequests, Monitor!Times
    <3> QED
      BY <1>0, <3>1, <3>2
  <2> QED
    BY <2>1, <2>2, <2>3, <2>4 DEF MonitorInv
<1>9. CASE Monitor!Push
  <2>1. server' = server /\ flight' = flight /\ view' = Monitor!Drawn(view, server)
    BY <1>9 DEF Monitor!Push
  <2>2. PICK c \in 1 .. MaxTime : c = server
    BY <1>0
  <2>3. MonitorShown(Monitor!Drawn(view, c), server)
    BY <1>0, <2>2, CardsDrawn
  <2> QED
    BY <1>0, <1>2, <2>1, <2>2, <2>3
<1>10. CASE Monitor!OpenPorts \/ Monitor!OpenDisks \/ Monitor!OpenSystem
  BY <1>7, <1>10 DEF Monitor!OpenPorts, Monitor!OpenDisks, Monitor!OpenSystem, Monitor!OpenModal
<1>11. CASE Monitor!OpenTrend
  <2>1. PICK k \in Series : view' = [view EXCEPT !.key = k, !.window = k]
    BY <1>11 DEF Monitor!OpenTrend
  <2>2. server' = server /\ flight' = flight
    BY <1>11 DEF Monitor!OpenTrend
  <2> DEFINE q == [view EXCEPT !.key = k, !.window = k]
  <2>3. q \in MonitorViews /\ q.key = k /\ q.window = k
    BY <1>1 DEF MonitorViews
  <2>4. q.rate = view.rate /\ q.processes = view.processes /\ q.trend = view.trend /\ q.cards = view.cards
        /\ q.disk = view.disk /\ q.late = view.late
    BY <1>1 DEF MonitorViews
  <2>5. view' = q
    BY <2>1
  <2> HIDE DEF q
  <2>6. MonitorShown(q, server)
    BY <1>0, <2>3, <2>4, WindowKeeps
  <2> QED
    BY <1>0, <1>2, <2>2, <2>5, <2>6
<1>12. CASE Monitor!Close
  <2>1. view' = [view EXCEPT !.window = "closed", !.key = None] /\ server' = server /\ flight' = flight
    BY <1>12 DEF Monitor!Close, Monitor!CloseModal
  <2> DEFINE q == [view EXCEPT !.window = "closed", !.key = None]
  <2>3. q \in MonitorViews /\ q.key = None
    BY <1>1 DEF MonitorViews
  <2>4. q.rate = view.rate /\ q.processes = view.processes /\ q.trend = view.trend /\ q.cards = view.cards
        /\ q.disk = view.disk /\ q.late = view.late
    BY <1>1 DEF MonitorViews
  <2>5. view' = q
    BY <2>1
  <2> HIDE DEF q
  <2>6. MonitorShown(q, server)
    BY <1>0, <2>3, <2>4, WindowKeeps
  <2> QED
    BY <1>0, <1>2, <2>1, <2>5, <2>6
<1>13. ASSUME NEW ask \in {"poll", "report", "trends"}, Monitor!Room(flight), Monitor!Ask(ask) PROVE MonitorInv'
  <2> DEFINE q == [ask |-> ask, at |-> 0]
  <2>1. q \in MonitorRequests /\ q.at = 0
    BY <1>0 DEF MonitorRequests, SnapshotRequests, Monitor!Times
  <2>2. flight' = Monitor!Send(flight, q) /\ view' = view /\ server' = server
    BY <1>13 DEF Monitor!Ask
  <2> HIDE DEF q
  <2> QED
    BY <1>0, <1>2, <1>5, <1>13, <2>1, <2>2
<1>14. ASSUME NEW ask \in {"detail", "kill"}, Monitor!Room(flight), Monitor!OnProcess(ask) PROVE MonitorInv'
  <2>1. PICK pid \in Monitor!Members(view.processes) : flight' = Monitor!Send(flight, [ask |-> ask, pid |-> pid])
    BY <1>14 DEF Monitor!OnProcess
  <2>2. view' = view /\ server' = server
    BY <1>14 DEF Monitor!OnProcess
  <2>3. pid \in Monitor!Pids
    <3>1. PICK list \in Seq(Monitor!Pids) : list = view.processes
      BY <1>1 DEF MonitorViews
    <3> QED
      BY <2>1, <3>1, MembersFacts
  <2> DEFINE q == [ask |-> ask, pid |-> pid]
  <2>4. q \in MonitorRequests /\ q.ask \in {"detail", "kill"}
    BY <2>3 DEF MonitorRequests, ProcessRequests
  <2>5. flight' = Monitor!Send(flight, q)
    BY <2>1
  <2> HIDE DEF q
  <2> QED
    BY <1>0, <1>2, <1>5, <1>14, <2>2, <2>4, <2>5
<1>15. ASSUME NEW s \in Slots, Monitor!Serve(s) PROVE MonitorInv'
  <2>1. flight' = [flight EXCEPT ![s].at = server] /\ view' = view /\ server' = server
    BY <1>15 DEF Monitor!Serve
  <2>2. flight[s] \in MonitorRequests /\ flight[s].ask \in {"poll", "report", "trends"}
    BY <1>1, <1>15 DEF Monitor!Serve
  <2>3. flight[s] \in SnapshotRequests
    BY <2>2 DEF MonitorRequests, ProcessRequests, Monitor!Unused
  <2> DEFINE q == [flight[s] EXCEPT !.at = server]
  <2>4. q \in MonitorRequests /\ q.at = server
    BY <1>0, <2>3 DEF MonitorRequests, SnapshotRequests, Monitor!Times
  <2>5. flight' = [flight EXCEPT ![s] = q]
    BY <1>1, <2>1
  <2> HIDE DEF q
  <2>6. q.at <= server
    BY <1>0, <2>4
  <2>7. AnswersPast([flight EXCEPT ![s] = q], server)
    BY <1>0, <2>4, <2>6 DEF AnswersPast
  <2> QED
    BY <1>0, <1>2, <2>1, <2>5, <2>7
<1>16. ASSUME NEW s \in Slots, Monitor!PollArrives(s) PROVE MonitorInv'
  <2>1. flight[s].ask = "poll" /\ flight[s].at > 0 /\ view' = Monitor!Drawn(view, flight[s].at)
        /\ flight' = Monitor!Over(flight, s) /\ server' = server
    BY <1>16 DEF Monitor!PollArrives
  <2>2. PICK t \in 1 .. MaxTime : t = flight[s].at /\ t <= server
    BY <1>6, <2>1
  <2>3. MonitorShown(Monitor!Drawn(view, t), server)
    BY <1>0, <2>2, CardsDrawn
  <2> QED
    BY <1>2, <1>4, <2>1, <2>2, <2>3
<1>17. ASSUME NEW s \in Slots, Monitor!ReportArrives(s) PROVE MonitorInv'
  <2>1. flight[s].ask = "report" /\ flight[s].at > 0 /\ view' = [view EXCEPT !.snapshot = flight[s].at]
        /\ flight' = Monitor!Over(flight, s) /\ server' = server
    BY <1>17 DEF Monitor!ReportArrives
  <2>2. PICK t \in Monitor!Times : t = flight[s].at
    BY <1>6, <2>1
  <2> DEFINE q == [view EXCEPT !.snapshot = t]
  <2>3. q \in MonitorViews /\ q.key = view.key /\ q.window = view.window
    BY <1>1 DEF MonitorViews
  <2>4. q.rate = view.rate /\ q.processes = view.processes /\ q.trend = view.trend /\ q.cards = view.cards
        /\ q.disk = view.disk /\ q.late = view.late
    BY <1>1 DEF MonitorViews
  <2>5. view' = q
    BY <2>1, <2>2
  <2> HIDE DEF q
  <2>6. view.key # None => view.window = view.key
    BY <1>0 DEF MonitorShown
  <2>7. MonitorShown(q, server)
    BY <1>0, <2>3, <2>4, <2>6, WindowKeeps
  <2> QED
    BY <1>2, <1>4, <2>1, <2>5, <2>7
<1>18. ASSUME NEW s \in Slots, Monitor!TrendsArrive(s) PROVE MonitorInv'
  <2>1. flight[s].ask = "trends" /\ flight[s].at > 0 /\ flight' = Monitor!Over(flight, s) /\ server' = server
    BY <1>18 DEF Monitor!TrendsArrive
  <2>2. PICK n \in Monitor!Times : n = flight[s].at /\ n <= server
    BY <1>6, <2>1
  <2> DEFINE trend == Monitor!Filtered([t \in 1 .. n |-> t], {t \in Monitor!Times : t >= server - Keep})
             b == [view EXCEPT !.trend = trend]
             cards == Monitor!Recent(b.trend)
             q == [b EXCEPT !.cards = cards]
  <2>3. view' = q
    BY <1>18, <2>2 DEF Monitor!TrendsArrive, Monitor!Cards
  <2>4. PastTimes(trend, server) /\ trend \in Seq(Monitor!Times)
    <3>1. PICK c \in Nat : c = server
      BY <1>0
    <3>2. PastTimes(trend, c)
      BY <2>2, <3>1, StoredPast
    <3> QED
      BY <3>1, <3>2 DEF PastTimes
  <2> HIDE DEF trend
  <2>5. b \in MonitorViews /\ b.trend = trend /\ b.rate = view.rate /\ b.processes = view.processes
    BY <1>1, <2>4 DEF MonitorViews
  <2>6. b.key = view.key /\ b.window = view.window /\ b.disk = view.disk /\ b.late = view.late
    BY <1>1 DEF MonitorViews
  <2>7. cards \in Seq(Monitor!Times) /\ cards = Monitor!Recent(trend)
    BY <2>4, <2>5, RecentTimes
  <2> HIDE DEF b, cards
  <2>8. q \in MonitorViews
    BY <2>5, <2>7 DEF MonitorViews
  <2>9. q.trend = trend /\ q.rate = view.rate /\ q.processes = view.processes /\ q.cards = cards
    BY <2>5 DEF MonitorViews
  <2>10. q.key = view.key /\ q.window = view.window /\ q.disk = view.disk /\ q.late = view.late
    BY <2>5, <2>6 DEF MonitorViews
  <2> HIDE DEF q
  <2>11. MonitorShown(q, server)
    BY <1>0, <2>4, <2>7, <2>8, <2>9, <2>10 DEF MonitorShown, SampleInv
  <2> QED
    BY <1>2, <1>4, <2>1, <2>3, <2>11
<1>19. ASSUME NEW s \in Slots, Monitor!DetailArrives(s) PROVE MonitorInv'
  BY <1>7, <1>19 DEF Monitor!DetailArrives, Monitor!OpenModal
<1>20. ASSUME NEW s \in Slots, Monitor!Killed(s) PROVE MonitorInv'
  <2> DEFINE q == [ask |-> "poll", at |-> 0]
  <2>1. q \in MonitorRequests /\ q.at = 0
    BY <1>0 DEF MonitorRequests, SnapshotRequests, Monitor!Times
  <2>2. flight' = [flight EXCEPT ![s] = q] /\ view' = view /\ server' = server
    BY <1>20 DEF Monitor!Killed
  <2> HIDE DEF q
  <2>3. q.at <= server
    BY <1>0, <2>1
  <2> QED
    BY <1>0, <1>2, <2>1, <2>2, <2>3, AnswersKept
<1>21. ASSUME NEW s \in Slots, Monitor!Fails(s) PROVE MonitorInv'
  BY <1>0, <1>2, <1>4, <1>21 DEF Monitor!Fails
<1> QED
  BY <1>8, <1>9, <1>10, <1>11, <1>12, <1>13, <1>14, <1>15, <1>16, <1>17, <1>18, <1>19, <1>20, <1>21
     DEF Monitor!Next

\* The invariant holds when the panel is opened.
LEMMA MonitorStart == Monitor!Init => MonitorInv
<1> SUFFICES ASSUME Monitor!Init PROVE MonitorInv
  OBVIOUS
<1>1. /\ view = [snapshot |-> 0, disk |-> [at |-> 0, of |-> 0], rate |-> Monitor!NoRate, late |-> 0,
                 trend |-> <<>>, cards |-> <<>>, processes |-> <<>>, key |-> None, window |-> "closed"]
      /\ flight = [s \in Slots |-> Monitor!Unused] /\ server = 1
  BY DEF Monitor!Init, Monitor!NoRequests
<1>2. 0 \in Monitor!Times /\ server \in 1 .. MaxTime
  BY <1>1, MonitorGiven DEF Monitor!Times
<1>3. AnswersPast(flight, server)
  BY <1>1 DEF AnswersPast, MonitorRequests, Monitor!Unused
<1>4. <<>> \in Seq(Monitor!Times) /\ <<>> \in Seq(Monitor!Pids) /\ Len(<<>>) = 0
  OBVIOUS
<1>5. view \in MonitorViews
  BY <1>1, <1>2, <1>4 DEF MonitorViews, Monitor!NoRate, Monitor!Rate
<1>6. PastTimes(<<>>, server) /\ NoneTwice(<<>>)
  BY <1>4 DEF PastTimes, NoneTwice
<1>7. Monitor!Recent(<<>>) = <<>>
  <2>1. PICK S : S = Monitor!Times
    OBVIOUS
  <2>2. PICK r \in Seq(Monitor!Times) : r = Monitor!Recent(<<>>) /\ \E w : Picks(r, <<>>, w, 0)
    BY <1>4, FilteredFacts DEF Monitor!Recent
  <2>3. Len(r) \in Nat /\ ~(1 \in 1 .. Len(r))
    BY <2>2, ListFacts DEF Picks
  <2> QED
    BY <2>2, <2>3
<1>8. PICK m \in Nat : m = Monitor!Max(Steps)
  BY LargestStep
<1>9. /\ view.rate.diff = 0 /\ view.rate.dt = 0 /\ view.rate.late = 0 /\ 0 <= (0 + 0) * m
      /\ view.disk.at = 0 /\ view.disk.of = 0
  BY <1>1 DEF Monitor!NoRate
<1>10. view.processes = <<>> /\ view.trend = <<>> /\ view.cards = <<>> /\ view.key = None
  BY <1>1
<1>11. MonitorShown(view, server)
  <2>1. Bounded(view.rate) /\ SampleInv(view, server)
    BY <1>1, <1>8, <1>9 DEF Bounded, SampleInv
  <2> QED
    BY <1>5, <1>6, <1>7, <1>10, <2>1 DEF MonitorShown
<1> QED
  BY <1>2, <1>3, <1>11 DEF MonitorInv

-----------------------------------------------------------------------------
(* The chart of a trend.                                                   *)

\* What the panel is given.
LEMMA ChartGiven ==
  /\ MaxPoints \in Nat /\ MaxDrawn \in Nat \ {0, 1} /\ Slack \in Nat /\ None \notin Chart!Lefts
  /\ MinWidth \in Nat /\ PointWidth \in Nat /\ View \in Nat /\ Edge \in Nat /\ 2 * Edge < MinWidth
BY PageAssumption

\* A product grows by the factor.
LEMMA FactorGrows ==
  ASSUME NEW b \in Nat, NEW i \in Int, NEW j \in Int, i < j
  PROVE  i * b \in Int /\ j * b \in Int /\ i * b + b <= j * b
  OBVIOUS

\* What \div is.
LEMMA Division ==
  ASSUME NEW a \in Int, NEW b \in Nat, b > 0
  PROVE  /\ a \div b \in Int /\ (a \div b) * b \in Int
         /\ (a \div b) * b <= a /\ a < (a \div b) * b + b
  OBVIOUS

\* Math.round(a / b): no multiple of b is nearer to a.
LEMMA Rounded ==
  ASSUME NEW a \in Int, NEW b \in Nat, b > 0
  PROVE  \E q \in Int : /\ Chart!Nearest(a, b) = q /\ q * b \in Int
                        /\ 2 * (q * b) <= 2 * a + b /\ 2 * a + b < 2 * (q * b) + 2 * b
<1> DEFINE q == Chart!Nearest(a, b)
<1>1. PICK c \in Int : c = 2 * a + b
  OBVIOUS
<1>2. PICK d \in Nat : d = 2 * b /\ d > 0
  OBVIOUS
<1>3. q = c \div d
  BY <1>1, <1>2 DEF Chart!Nearest
<1>4. q \in Int /\ q * d <= c /\ c < q * d + d
  BY <1>2, <1>3, Division
<1>5. q * d = 2 * (q * b) /\ q * b \in Int
  BY <1>2, <1>4
<1> HIDE DEF q
<1>6. Chart!Nearest(a, b) = q
  BY DEF q
<1> QED
  BY <1>1, <1>2, <1>4, <1>5, <1>6

\* The larger and the smaller of two numbers.
LEMMA LargerOfTwo ==
  ASSUME NEW a \in Int, NEW b \in Int
  PROVE  /\ Chart!Max({a, b}) = IF a >= b THEN a ELSE b
         /\ Chart!Min({a, b}) = IF a <= b THEN a ELSE b
BY DEF Chart!Max, Chart!Min

\* The chart is wider than its edges, and wider the more it draws.
LEMMA Widths ==
  ASSUME NEW n \in Nat
  PROVE  /\ Chart!Width(n) \in Nat /\ Chart!Width(n) > 2 * Edge
         /\ Chart!MaxLeft(n) \in Nat
         /\ \A k \in Nat : k <= n => Chart!MaxLeft(k) <= Chart!MaxLeft(n)
<1>1. \A k \in Nat : k * PointWidth \in Nat
  BY ChartGiven
<1>2. \A k \in Nat : Chart!Width(k) = IF MinWidth >= k * PointWidth THEN MinWidth ELSE k * PointWidth
  BY <1>1, ChartGiven, LargerOfTwo DEF Chart!Width
<1>3. \A k \in Nat : Chart!Width(k) \in Nat /\ Chart!Width(k) > 2 * Edge
  BY <1>1, <1>2, ChartGiven
<1>4. \A k \in Nat : Chart!MaxLeft(k) = IF 0 >= Chart!Width(k) - View THEN 0 ELSE Chart!Width(k) - View
  BY <1>3, ChartGiven, LargerOfTwo DEF Chart!MaxLeft
<1>5. \A k \in Nat : Chart!MaxLeft(k) \in Nat
  BY <1>3, <1>4, ChartGiven
<1>6. ASSUME NEW k \in Nat, k <= n PROVE Chart!MaxLeft(k) <= Chart!MaxLeft(n)
  <2>1. k * PointWidth <= n * PointWidth
    <3>1. CASE k = n
      BY <3>1, <1>1
    <3>2. CASE k # n
      <4>1. PICK w \in Nat : w = PointWidth
        BY ChartGiven
      <4>2. k < n
        BY <1>6, <3>2
      <4>3. k * w + w <= n * w /\ k * w \in Int /\ n * w \in Int
        BY <4>2, FactorGrows
      <4> QED
        BY <4>1, <4>3
    <3> QED
      BY <3>1, <3>2
  <2>2. Chart!Width(k) <= Chart!Width(n)
    BY <1>1, <1>2, <2>1, ChartGiven
  <2> QED
    BY <1>3, <1>4, <2>2, ChartGiven
<1> QED
  BY <1>3, <1>5, <1>6

\* A sequence of numbers is known by its places.
LEMMA PlacesOf ==
  ASSUME NEW n \in Nat, NEW f \in [1 .. n -> 1 .. MaxPoints]
  PROVE  f \in Seq(1 .. MaxPoints) /\ Len(f) = n
<1> DEFINE g == [i \in 1 .. n |-> f[i]]
<1>1. g \in Seq(1 .. MaxPoints) /\ Len(g) = n
  OBVIOUS
<1>2. f = g
  OBVIOUS
<1> QED
  BY <1>1, <1>2

\* The points that are drawn: the first and the last of the list are among
\* them, and each is later than the one before.
KeptOf(kept, n) ==
  /\ kept \in Seq(1 .. MaxPoints)
  /\ Len(kept) = IF n <= MaxDrawn THEN n ELSE MaxDrawn
  /\ n > 0 => kept[1] = 1 /\ kept[Len(kept)] = n
  /\ \A i \in 2 .. Len(kept) : kept[i - 1] < kept[i]

\* downsampleTrendPoints.
LEMMA KeptFacts ==
  ASSUME NEW n \in 0 .. MaxPoints
  PROVE  KeptOf(Chart!Kept(n), n)
<1>0. n \in Nat /\ MaxPoints \in Nat /\ MaxDrawn \in Nat /\ MaxDrawn >= 2
  BY ChartGiven
<1>1. CASE n <= MaxDrawn
  <2> DEFINE f == [i \in 1 .. n |-> i]
  <2>1. Chart!Kept(n) = f
    BY <1>1 DEF Chart!Kept
  <2>2. f \in [1 .. n -> 1 .. MaxPoints] /\ \A i \in 1 .. n : f[i] = i
    BY <1>0
  <2> HIDE DEF f
  <2>3. f \in Seq(1 .. MaxPoints) /\ Len(f) = n
    BY <1>0, <2>2, PlacesOf
  <2>4. n > 0 => f[1] = 1 /\ f[Len(f)] = n
    BY <1>0, <2>2, <2>3
  <2>5. \A i \in 2 .. Len(f) : f[i - 1] < f[i]
    BY <1>0, <2>2, <2>3
  <2> QED
    BY <1>1, <2>1, <2>3, <2>4, <2>5 DEF KeptOf
<1>2. CASE ~(n <= MaxDrawn)
  <2> DEFINE b == MaxDrawn - 1
             k == n - 1
             f == [i \in 1 .. MaxDrawn |-> 1 + Chart!Min({k, Chart!Nearest((i - 1) * k, b)})]
  <2>0. Chart!Kept(n) = f
    BY <1>2 DEF Chart!Kept
  <2>1. b \in Nat /\ b > 0 /\ k \in Nat /\ k > b /\ n = k + 1 /\ MaxDrawn = b + 1
    BY <1>0, <1>2
  <2>2. \A i \in 1 .. MaxDrawn : f[i] = 1 + Chart!Min({k, Chart!Nearest((i - 1) * k, b)})
    OBVIOUS
  <2>3. f = [i \in 1 .. MaxDrawn |-> f[i]]
    OBVIOUS
  <2> HIDE DEF f, b, k
  <2>4. ASSUME NEW i \in 1 .. MaxDrawn
        PROVE  /\ f[i] - 1 \in 0 .. k /\ f[i] \in Int /\ (i - 1) * k \in Int
               /\ 2 * ((f[i] - 1) * b) <= 2 * ((i - 1) * k) + b
               /\ 2 * ((i - 1) * k) + b < 2 * ((f[i] - 1) * b) + 2 * b
    <3>1. PICK j \in Nat : j = i - 1 /\ j <= b
      BY <1>0, <2>1
    <3>2. PICK p \in Nat : p = j * k
      BY <2>1
    <3>3. PICK q \in Int : /\ Chart!Nearest(p, b) = q /\ q * b \in Int
                           /\ 2 * (q * b) <= 2 * p + b /\ 2 * p + b < 2 * (q * b) + 2 * b
      <4>1. p \in Int
        OBVIOUS
      <4> QED
        BY <2>1, <4>1, Rounded
    <3>4. q <= k
      <4>1. p <= k * b
        <5>1. CASE j = b
          BY <2>1, <3>2, <5>1
        <5>2. CASE j < b
          BY <2>1, <3>2, <5>2, FactorGrows
        <5> QED
          BY <2>1, <3>1, <5>1, <5>2
      <4>2. CASE q > k
        <5>1. k * b + b <= q * b /\ k * b \in Int
          BY <2>1, <4>2, FactorGrows
        <5> QED
          BY <2>1, <3>3, <4>1, <5>1
      <4> QED
        BY <2>1, <4>2
    <3>5. q >= 0
      <4>1. CASE q < 0
        <5>1. q * b + b <= 0 * b /\ 0 * b = 0
          BY <2>1, <4>1, FactorGrows
        <5> QED
          BY <2>1, <3>2, <3>3, <5>1
      <4> QED
        BY <4>1
    <3>6. f[i] = 1 + q
      <4>1. (i - 1) * k = p
        BY <3>1, <3>2
      <4>2. f[i] = 1 + Chart!Min({k, q})
        BY <2>2, <3>3, <4>1
      <4>3. Chart!Min({k, q}) = q
        BY <2>1, <3>4, LargerOfTwo
      <4> QED
        BY <4>2, <4>3
    <3>7. f[i] - 1 = q /\ (i - 1) * k = p
      BY <3>1, <3>2, <3>6
    <3> QED
      BY <2>1, <3>2, <3>3, <3>4, <3>5, <3>6, <3>7
  <2>5. f \in [1 .. MaxDrawn -> 1 .. MaxPoints]
    <3>1. \A i \in 1 .. MaxDrawn : f[i] \in 1 .. MaxPoints
      BY <1>0, <2>1, <2>4
    <3> QED
      BY <2>3, <3>1
  <2>6. f \in Seq(1 .. MaxPoints) /\ Len(f) = MaxDrawn
    BY <1>0, <2>5, PlacesOf
  <2>7. f[1] = 1
    <3>1. 1 \in 1 .. MaxDrawn /\ (1 - 1) * k = 0
      BY <1>0, <2>1
    <3>2. PICK q \in Nat : q = f[1] - 1 /\ 2 * (q * b) <= b
      BY <2>1, <2>4, <3>1
    <3>3. CASE q > 0
      <4>1. 0 * b + b <= q * b /\ 0 * b = 0
        BY <2>1, <3>3, FactorGrows
      <4> QED
        BY <2>1, <3>2, <4>1
    <3>4. f[1] \in Int
      BY <2>4, <3>1
    <3> QED
      BY <3>2, <3>3, <3>4
  <2>8. f[MaxDrawn] = n
    <3>1. MaxDrawn \in 1 .. MaxDrawn /\ (MaxDrawn - 1) * k = k * b /\ k * b \in Nat
      BY <1>0, <2>1
    <3>2. PICK q \in Nat : q = f[MaxDrawn] - 1 /\ 2 * (k * b) + b < 2 * (q * b) + 2 * b /\ q <= k
      BY <2>1, <2>4, <3>1
    <3>3. CASE q < k
      <4>1. q * b + b <= k * b /\ q * b \in Int
        BY <2>1, <3>3, FactorGrows
      <4> QED
        BY <2>1, <3>1, <3>2, <4>1
    <3>4. f[MaxDrawn] \in Int
      BY <2>4, <3>1
    <3> QED
      BY <2>1, <3>2, <3>3, <3>4
  <2>9. ASSUME NEW i \in 2 .. MaxDrawn PROVE f[i - 1] < f[i]
    <3>1. i \in 1 .. MaxDrawn /\ i - 1 \in 1 .. MaxDrawn /\ i - 1 \in Nat /\ i - 1 - 1 \in Nat
      BY <1>0
    <3>2. PICK q \in Nat : q = f[i - 1] - 1 /\ 2 * (q * b) <= 2 * ((i - 1 - 1) * k) + b
      <4>1. f[i - 1] - 1 \in 0 .. k /\ 2 * ((f[i - 1] - 1) * b) <= 2 * ((i - 1 - 1) * k) + b
        BY <2>4, <3>1
      <4> QED
        BY <2>1, <4>1
    <3>3. PICK r \in Nat : r = f[i] - 1 /\ 2 * ((i - 1) * k) + b < 2 * (r * b) + 2 * b
      BY <2>1, <2>4, <3>1
    <3>4. (i - 1) * k = (i - 1 - 1) * k + k /\ (i - 1 - 1) * k \in Nat
      BY <2>1, <3>1
    <3>5. q * b \in Nat /\ r * b \in Nat
      BY <2>1
    <3>6. q * b < r * b + b
      BY <2>1, <3>2, <3>3, <3>4, <3>5
    <3>7. CASE r < q
      <4>1. r * b + b <= q * b
        BY <2>1, <3>7, FactorGrows
      <4> QED
        BY <2>1, <3>5, <3>6, <4>1
    <3>8. CASE r = q
      <4>1. 2 * ((i - 1 - 1) * k) + 2 * k + b < 2 * (q * b) + 2 * b
        BY <2>1, <3>3, <3>4, <3>8
      <4> QED
        BY <2>1, <3>2, <3>4, <3>5, <4>1
    <3>9. f[i] \in Int /\ f[i - 1] \in Int
      BY <2>4, <3>1
    <3> QED
      BY <3>2, <3>3, <3>7, <3>8, <3>9
  <2> QED
    BY <1>2, <2>0, <2>6, <2>7, <2>8, <2>9 DEF KeptOf
<1> QED
  BY <1>1, <1>2

\* How far a multiple of b is from a.
Off(a, b, c) == LET d == a - c * b IN IF d < 0 THEN -d ELSE d

\* Of the multiples of b up to the k-th the rounded one is the nearest to a.
LEMMA RoundedIsNearest ==
  ASSUME NEW a \in Int, NEW b \in Nat, b > 0, NEW k \in Nat, NEW j \in 0 .. k
  PROVE  \E c \in 0 .. k : /\ c = Chart!Max({0, Chart!Min({k, Chart!Nearest(a, b)})})
                           /\ Off(a, b, c) <= Off(a, b, j)
<1>1. PICK q \in Int : /\ Chart!Nearest(a, b) = q /\ q * b \in Int
                       /\ 2 * (q * b) <= 2 * a + b /\ 2 * a + b < 2 * (q * b) + 2 * b
  BY Rounded
<1>2. PICK c \in 0 .. k : /\ c = Chart!Max({0, Chart!Min({k, q})})
                          /\ c = IF q < 0 THEN 0 ELSE IF q > k THEN k ELSE q
  <2>1. PICK m \in Int : m = Chart!Min({k, q}) /\ m = IF k <= q THEN k ELSE q
    <3>1. Chart!Min({k, q}) = IF k <= q THEN k ELSE q
      BY LargerOfTwo
    <3> QED
      BY <3>1
  <2>2. Chart!Max({0, m}) = IF 0 >= m THEN 0 ELSE m
    BY LargerOfTwo
  <2> QED
    BY <2>1, <2>2
<1>3. c * b \in Int /\ j * b \in Int
  OBVIOUS
<1>4. \A i, l \in Int : i < l => i * b \in Int /\ l * b \in Int /\ i * b + b <= l * b
  BY FactorGrows
<1>5. Off(a, b, c) <= Off(a, b, j)
  <2>1. CASE j = c
    BY <1>3, <2>1 DEF Off
  <2>2. CASE j < c
    <3>1. j * b + b <= c * b /\ c <= q
      BY <1>2, <1>4, <2>2
    <3>2. c * b <= q * b
      <4>1. c = q \/ c * b + b <= q * b
        BY <1>4, <3>1
      <4> QED
        BY <1>1, <1>3, <4>1
    <3> QED
      BY <1>1, <1>3, <3>1, <3>2 DEF Off
  <2>3. CASE j > c
    <3>1. c * b + b <= j * b /\ q <= c
      BY <1>2, <1>4, <2>3
    <3>2. q * b <= c * b
      <4>1. c = q \/ q * b + b <= c * b
        BY <1>4, <3>1
      <4> QED
        BY <1>1, <1>3, <4>1
    <3> QED
      BY <1>1, <1>3, <3>1, <3>2 DEF Off
  <2> QED
    BY <2>1, <2>2, <2>3
<1> QED
  BY <1>1, <1>2, <1>5

\* Wherever the pointer is, no other point is nearer than the one that is told.
LEMMA ToldIsNearest ==
  ASSUME NEW n \in Nat, n > 1, NEW x \in 0 .. Chart!Width(n), NEW i \in 1 .. n
  PROVE  LET Far(k) == LET d == x * (n - 1) - Chart!Across(k, n) IN IF d < 0 THEN -d ELSE d
         IN  Far(Chart!Told(x, n)) <= Far(i)
<1>0. Chart!Width(n) \in Nat /\ Chart!Width(n) > 2 * Edge /\ Edge \in Nat /\ x \in Int
  BY ChartGiven, Widths
<1>1. PICK b \in Nat : b = Chart!Width(n) - 2 * Edge /\ b > 0
  BY <1>0
<1>2. PICK k \in Nat : k = n - 1 /\ n = k + 1 /\ k > 0
  OBVIOUS
<1>3. PICK a \in Int : a = (x - Edge) * k
  BY <1>0
<1>4. a = x * k - Edge * k /\ x * k \in Int /\ Edge * k \in Int
  BY <1>0, <1>3
<1>5. PICK j \in 0 .. k : j = i - 1 /\ i = j + 1
  BY <1>2
<1>6. PICK c \in 0 .. k : /\ c = Chart!Max({0, Chart!Min({k, Chart!Nearest(a, b)})})
                          /\ Off(a, b, c) <= Off(a, b, j)
  BY <1>1, RoundedIsNearest
<1>7. Chart!Told(x, n) = 1 + c
  <2>1. Chart!Told(x, n) = 1 + Chart!Max({0, Chart!Min({n - 1, Chart!Nearest((x - Edge) * (n - 1), Chart!Width(n) - 2 * Edge)})})
    BY <1>2 DEF Chart!Told
  <2> QED
    BY <1>1, <1>2, <1>3, <1>6, <2>1
<1>8. \A m \in 0 .. k : x * (n - 1) - Chart!Across(1 + m, n) = a - m * b
  <2> SUFFICES ASSUME NEW m \in 0 .. k PROVE x * (n - 1) - Chart!Across(1 + m, n) = a - m * b
    OBVIOUS
  <2>1. Chart!Across(1 + m, n) = Edge * k + m * b
    <3>1. n # 1 /\ n - 1 = k /\ (1 + m) - 1 = m
      BY <1>2
    <3>2. Chart!Across(1 + m, n) = Edge * (n - 1) + ((1 + m) - 1) * (Chart!Width(n) - 2 * Edge)
      BY <3>1 DEF Chart!Across
    <3> QED
      BY <1>1, <3>1, <3>2
  <2>2. m * b \in Int
    OBVIOUS
  <2> QED
    BY <1>2, <1>4, <2>1, <2>2
<1>9. i = 1 + j
  BY <1>5
<1>10. x * (n - 1) - Chart!Across(1 + c, n) = a - c * b /\ x * (n - 1) - Chart!Across(1 + j, n) = a - j * b
  BY <1>8
<1> QED
  BY <1>6, <1>7, <1>9, <1>10 DEF Off

\* The point that is told is one that is drawn.
LEMMA ToldIsDrawn ==
  ASSUME NEW n \in Nat, n > 0, NEW x \in 0 .. Chart!Width(n)
  PROVE  Chart!Told(x, n) \in 1 .. n
<1>1. CASE n = 1
  BY <1>1 DEF Chart!Told
<1>2. CASE n > 1
  <2>0. Chart!Width(n) \in Nat /\ Chart!Width(n) > 2 * Edge /\ Edge \in Nat /\ x \in Int
    BY ChartGiven, Widths
  <2>1. PICK b \in Nat : b = Chart!Width(n) - 2 * Edge /\ b > 0
    BY <2>0
  <2>2. PICK k \in Nat : k = n - 1 /\ n = k + 1 /\ 0 \in 0 .. k
    OBVIOUS
  <2>3. PICK a \in Int : a = (x - Edge) * (n - 1)
    BY <2>0
  <2>4. PICK c \in 0 .. k : c = Chart!Max({0, Chart!Min({k, Chart!Nearest(a, b)})})
    BY <2>1, <2>2, RoundedIsNearest
  <2>5. Chart!Told(x, n) = 1 + Chart!Max({0, Chart!Min({n - 1, Chart!Nearest((x - Edge) * (n - 1), Chart!Width(n) - 2 * Edge)})})
    BY <1>2 DEF Chart!Told
  <2>6. Chart!Told(x, n) = 1 + c
    BY <2>1, <2>2, <2>3, <2>4, <2>5
  <2> QED
    BY <2>2, <2>6
<1> QED
  BY <1>1, <1>2

\* The points that have their time below them are drawn.
LEMMA LabelledAreDrawn ==
  ASSUME NEW n \in Nat, n > 0
  PROVE  Chart!Labelled(n) \subseteq 1 .. n
<1>1. (n - 1) \div 2 \in 0 .. n - 1
  OBVIOUS
<1> QED
  BY <1>1 DEF Chart!Labelled

\* The state of the window.
ChartViews ==
  [open : BOOLEAN, kept : Seq(1 .. MaxPoints), of : 0 .. MaxPoints, left : Chart!Lefts,
   event : {"none", "scroll", "gone"}, frame : {"none", "place", "tell"},
   follow : BOOLEAN, remember : Chart!Lefts, tip : 0 .. MaxDrawn]

\* What is drawn is what downsampling keeps of the list, and the tip is of it.
PointsDrawn(c) ==
  /\ KeptOf(c.kept, c.of)
  /\ c.tip <= Len(c.kept)

\* The place the chart is at, and the one the user wants, as far as the page
\* knows: while a scroll is not heard of, what it will find; then what it has
\* found; after the frame, that this is where the chart is.
Scrolls(c, r) ==
  /\ c.event = "scroll" => IF c.left >= Chart!MaxLeft(Len(c.kept)) - Slack THEN r = None ELSE r = c.left
  /\ c.event = "none" => IF c.follow THEN r = None ELSE r = c.remember
  /\ c.event = "gone" => c.frame = "place" \/ Len(c.kept) = 0
  /\ c.event = "none" /\ c.frame # "place" /\ Len(c.kept) > 0 =>
       IF c.follow THEN c.left >= Chart!MaxLeft(Len(c.kept)) - Slack
       ELSE c.left = Chart!Min({c.remember, Chart!MaxLeft(Len(c.kept))})

\* The inductive invariant of the panel.
ChartInv ==
  /\ server \in 0 .. MaxPoints
  /\ view \in ChartViews
  /\ extra \in Chart!Lefts \cup {None}
  /\ PointsDrawn(view)
  /\ Scrolls(view, extra)

\* The invariant implies the types and the properties of the panel.
LEMMA ChartMean ==
  ChartInv => Chart!TypeOK /\ Chart!ScrollIsKept /\ Chart!EndsAreDrawn /\ Chart!TipIsNearest
<1> SUFFICES ASSUME ChartInv
             PROVE  Chart!TypeOK /\ Chart!ScrollIsKept /\ Chart!EndsAreDrawn /\ Chart!TipIsNearest
  OBVIOUS
<1>1. Chart!TypeOK
  BY DEF ChartInv, ChartViews, Chart!TypeOK
<1>2. PICK kept \in Seq(1 .. MaxPoints) : kept = view.kept
  BY DEF ChartInv, ChartViews
<1>3. Len(kept) \in Nat /\ Chart!Drawn = Len(kept)
  BY <1>2 DEF Chart!Drawn
<1>4. PICK n \in 0 .. MaxPoints : n = view.of /\ n \in Nat /\ KeptOf(kept, n)
  BY <1>2, ChartGiven DEF ChartInv, ChartViews, PointsDrawn
<1>5. Len(kept) > 0 => n > 0
  BY <1>4, ChartGiven DEF KeptOf
<1>6. Chart!EndsAreDrawn
  <2>1. Len(kept) > 0 => Chart!Labelled(Len(kept)) \subseteq 1 .. Len(kept)
    BY <1>3, LabelledAreDrawn
  <2> QED
    BY <1>2, <1>3, <1>4, <1>5, <2>1 DEF KeptOf, Chart!EndsAreDrawn
<1>7. Chart!TipIsNearest
  <2>1. view.tip <= Len(kept)
    BY <1>2 DEF ChartInv, PointsDrawn
  <2> QED
    BY <1>3, <2>1, ToldIsNearest DEF Chart!TipIsNearest
<1>8. Chart!ScrollIsKept
  <2> SUFFICES ASSUME Chart!Settled
               PROVE  IF extra = None THEN view.left >= Chart!MaxLeft(Len(kept)) - Slack
                      ELSE view.left = Chart!Min({extra, Chart!MaxLeft(Len(kept))})
    BY <1>3 DEF Chart!ScrollIsKept
  <2>1. Len(kept) > 0 /\ view.frame # "place" /\ view.event = "none"
    BY <1>3 DEF Chart!Settled
  <2>2. /\ IF view.follow THEN extra = None ELSE extra = view.remember
        /\ IF view.follow THEN view.left >= Chart!MaxLeft(Len(kept)) - Slack
           ELSE view.left = Chart!Min({view.remember, Chart!MaxLeft(Len(kept))})
    BY <1>2, <2>1 DEF ChartInv, Scrolls
  <2>3. view.remember # None
    BY ChartGiven DEF ChartInv, ChartViews
  <2>4. view.follow \in BOOLEAN
    BY DEF ChartInv, ChartViews
  <2> QED
    BY <2>2, <2>3, <2>4
<1> QED
  BY <1>1, <1>6, <1>7, <1>8

\* The places a chart can be scrolled to.
LEMMA LeftsOf ==
  ASSUME NEW c \in ChartViews, PointsDrawn(c)
  PROVE  /\ Len(c.kept) \in 0 .. MaxDrawn
         /\ Chart!MaxLeft(Len(c.kept)) \in Nat /\ 0 .. Chart!MaxLeft(Len(c.kept)) \subseteq Chart!Lefts
<1>1. PICK n \in Nat : n = Len(c.kept) /\ n <= MaxDrawn
  <2>1. c.of \in Nat /\ Len(c.kept) = IF c.of <= MaxDrawn THEN c.of ELSE MaxDrawn
    BY ChartGiven DEF ChartViews, PointsDrawn, KeptOf
  <2> QED
    BY <2>1, ChartGiven
<1>2. PICK m \in Nat : m = MaxDrawn
  BY ChartGiven
<1>3. Chart!MaxLeft(n) \in Nat /\ Chart!MaxLeft(m) \in Nat /\ Chart!MaxLeft(n) <= Chart!MaxLeft(m)
  BY <1>1, <1>2, Widths
<1> QED
  BY <1>1, <1>2, <1>3 DEF Chart!Lefts

\* renderTrendModal.
LEMMA RedrawnKeeps ==
  ASSUME NEW c \in ChartViews, NEW n \in 0 .. MaxPoints, NEW r,
         c.event = "none" => IF c.follow THEN r = None ELSE r = c.remember
  PROVE  /\ Chart!Redrawn(c, n) \in ChartViews
         /\ PointsDrawn(Chart!Redrawn(c, n)) /\ Scrolls(Chart!Redrawn(c, n), r)
<1> DEFINE event == IF c.event = "none" THEN "none" ELSE "gone"
           frame == IF n = 0 THEN "none" ELSE "place"
           kept == Chart!Kept(n)
           d == [c EXCEPT !.kept = kept, !.of = n, !.left = 0, !.tip = 0, !.event = event, !.frame = frame]
<1>1. Chart!Redrawn(c, n) = d
  BY DEF Chart!Redrawn
<1>2. event \in {"none", "gone"} /\ (event = "none" => c.event = "none")
  OBVIOUS
<1>3. frame \in {"none", "place"} /\ (frame = "none" => n = 0) /\ n \in Nat
  BY ChartGiven
<1>4. KeptOf(kept, n) /\ kept \in Seq(1 .. MaxPoints) /\ Len(kept) \in Nat /\ (n = 0 => Len(kept) = 0)
  <2>1. KeptOf(kept, n)
    BY KeptFacts
  <2> QED
    BY <1>3, <2>1, ChartGiven DEF KeptOf
<1>5. 0 \in Chart!Lefts /\ 0 \in 0 .. MaxDrawn
  <2>1. PICK m \in Nat : m = MaxDrawn
    BY ChartGiven
  <2>2. Chart!MaxLeft(m) \in Nat
    BY Widths
  <2> QED
    BY <2>1, <2>2 DEF Chart!Lefts
<1> HIDE DEF event, frame, kept
<1>6. d \in ChartViews
  BY <1>2, <1>3, <1>4, <1>5 DEF ChartViews
<1>7. d.kept = kept /\ d.of = n /\ d.tip = 0
  BY DEF ChartViews
<1>8. d.event = event /\ d.frame = frame /\ d.remember = c.remember
  BY DEF ChartViews
<1>9. d.follow = c.follow
  BY DEF ChartViews
<1> HIDE DEF d
<1>10. PointsDrawn(d)
  BY <1>4, <1>7 DEF PointsDrawn
<1>11. Scrolls(d, r)
  BY <1>2, <1>3, <1>4, <1>7, <1>8, <1>9 DEF Scrolls
<1> QED
  BY <1>1, <1>6, <1>10, <1>11

\* What the window remembers and the points it draws are not disturbed.
LEMMA SamePoints ==
  ASSUME NEW c, PointsDrawn(c), NEW d, d.kept = c.kept, d.of = c.of, d.tip = c.tip
  PROVE  PointsDrawn(d)
BY DEF PointsDrawn

\* Every step of the panel keeps its invariant.
LEMMA ChartSteps == ChartInv /\ Chart!Next => ChartInv'
<1> SUFFICES ASSUME ChartInv, Chart!Next PROVE ChartInv'
  OBVIOUS
<1>0. /\ server \in 0 .. MaxPoints /\ view \in ChartViews /\ extra \in Chart!Lefts \cup {None}
      /\ PointsDrawn(view) /\ Scrolls(view, extra) /\ MaxPoints \in Nat /\ MaxDrawn \in Nat /\ Slack \in Nat
  BY ChartGiven DEF ChartInv
<1>1. PICK m \in Nat : m = Chart!MaxLeft(Len(view.kept)) /\ 0 .. m \subseteq Chart!Lefts
  BY <1>0, LeftsOf
<1>z. 0 \in Chart!Lefts
  BY <1>1
<1>2. Chart!Drawn = Len(view.kept) /\ Len(view.kept) \in 0 .. MaxDrawn /\ Len(view.kept) \in Nat
  BY <1>0, LeftsOf DEF Chart!Drawn
<1>3. view.left \in Nat /\ view.remember \in Nat /\ view.remember \in Chart!Lefts /\ view.follow \in BOOLEAN
  <2>1. PICK k \in Nat : k = MaxDrawn
    BY <1>0
  <2>2. Chart!MaxLeft(k) \in Nat
    BY Widths
  <2>3. Chart!Lefts \subseteq Nat
    BY <2>1, <2>2 DEF Chart!Lefts
  <2> QED
    BY <1>0, <2>3 DEF ChartViews
<1>4. ASSUME server' \in 0 .. MaxPoints, view' \in ChartViews, extra' \in Chart!Lefts \cup {None},
             PointsDrawn(view'), Scrolls(view', extra')
      PROVE  ChartInv'
  BY <1>4 DEF ChartInv
<1>5. CASE Chart!Grow
  <2>1. PICK n : n = Chart!Min({server + 1, MaxPoints})
    OBVIOUS
  <2>2. n \in 0 .. MaxPoints
    <3>1. PICK k \in Int : k = server + 1 /\ k > 0
      BY <1>0
    <3>2. Chart!Min({k, MaxPoints}) = IF k <= MaxPoints THEN k ELSE MaxPoints
      BY <1>0, LargerOfTwo
    <3> QED
      BY <1>0, <2>1, <3>1, <3>2
  <2>3. server' = n /\ extra' = extra /\ view' = IF view.open THEN Chart!Redrawn(view, n) ELSE view
    BY <1>5, <2>1 DEF Chart!Grow
  <2>4. view.event = "none" => IF view.follow THEN extra = None ELSE extra = view.remember
    BY <1>0 DEF Scrolls
  <2>5. /\ Chart!Redrawn(view, n) \in ChartViews
        /\ PointsDrawn(Chart!Redrawn(view, n)) /\ Scrolls(Chart!Redrawn(view, n), extra)
    BY <1>0, <2>2, <2>4, RedrawnKeeps
  <2>6. CASE view.open
    BY <1>0, <1>4, <2>2, <2>3, <2>5, <2>6
  <2>7. CASE ~view.open
    BY <1>0, <1>4, <2>2, <2>3, <2>7
  <2> QED
    BY <2>6, <2>7
<1>6. CASE Chart!Replace
  BY <1>0, <1>4, <1>6 DEF Chart!Replace
<1>7. CASE Chart!Open
  <2> DEFINE c == [view EXCEPT !.open = TRUE, !.follow = TRUE, !.remember = 0]
  <2>1. view' = Chart!Redrawn(c, server) /\ extra' = None /\ server' = server
    BY <1>7 DEF Chart!Open
  <2>2. c \in ChartViews
    BY <1>0, <1>z DEF ChartViews
  <2>3. c.follow = TRUE
    BY <1>0 DEF ChartViews
  <2> HIDE DEF c
  <2>4. c.event = "none" => IF c.follow THEN None = None ELSE None = c.remember
    BY <2>3
  <2>5. /\ Chart!Redrawn(c, server) \in ChartViews
        /\ PointsDrawn(Chart!Redrawn(c, server)) /\ Scrolls(Chart!Redrawn(c, server), None)
    BY <1>0, <2>2, <2>4, RedrawnKeeps
  <2> QED
    BY <1>0, <1>4, <2>1, <2>5
<1>8. CASE Chart!Close
  <2> DEFINE c == [view EXCEPT !.open = FALSE, !.kept = <<>>, !.of = 0, !.left = 0, !.event = "none",
                               !.frame = "none", !.follow = TRUE, !.remember = 0, !.tip = 0]
  <2>1. view' = c /\ extra' = None /\ server' = server
    BY <1>8 DEF Chart!Close
  <2>2. <<>> \in Seq(1 .. MaxPoints) /\ Len(<<>>) = 0 /\ 0 \in 0 .. MaxPoints /\ 0 \in 0 .. MaxDrawn
    BY <1>0
  <2> DEFINE b == [view EXCEPT !.kept = <<>>, !.of = 0, !.left = 0, !.event = "none",
                               !.frame = "none", !.remember = 0, !.tip = 0]
  <2>3. b \in ChartViews
    BY <1>0, <1>z, <2>2 DEF ChartViews
  <2>4. b.kept = <<>> /\ b.of = 0 /\ b.tip = 0 /\ b.event = "none"
    BY <1>0 DEF ChartViews
  <2>5. c = [b EXCEPT !.open = FALSE, !.follow = TRUE]
    BY <1>0 DEF ChartViews
  <2> HIDE DEF b, c
  <2>6. c \in ChartViews
    BY <2>3, <2>5 DEF ChartViews
  <2>7. c.kept = <<>> /\ c.of = 0 /\ c.tip = 0 /\ c.event = "none"
    BY <2>3, <2>4, <2>5 DEF ChartViews
  <2>8. c.follow = TRUE
    BY <2>3, <2>5 DEF ChartViews
  <2>9. PointsDrawn(c)
    BY <1>0, <2>2, <2>7 DEF PointsDrawn, KeptOf
  <2>10. Scrolls(c, None)
    BY <2>2, <2>7, <2>8 DEF Scrolls
  <2> QED
    BY <1>0, <1>4, <2>1, <2>6, <2>9, <2>10
<1>9. CASE Chart!Frame
  <2>1. PICK x : x = Chart!Place(view)
    OBVIOUS
  <2>2. x \in 0 .. m /\ x = IF view.follow THEN m ELSE IF view.remember <= m THEN view.remember ELSE m
    <3>1. Chart!Min({m, view.remember}) = IF m <= view.remember THEN m ELSE view.remember
      <4>1. PICK k \in Nat : k = view.remember
        BY <1>3
      <4>2. Chart!Min({k, m}) = (IF k <= m THEN k ELSE m) /\ {k, m} = {m, k}
        BY LargerOfTwo
      <4> QED
        BY <4>1, <4>2
    <3>2. x = IF view.follow THEN m ELSE Chart!Min({m, view.remember})
      BY <1>1, <2>1 DEF Chart!Place
    <3> QED
      BY <1>3, <3>1, <3>2
  <2>3. x \in Chart!Lefts /\ x \in Nat
    BY <1>1, <2>2
  <2> DEFINE event == IF x = view.left THEN "none" ELSE "scroll"
             c == [view EXCEPT !.left = x, !.frame = "tell", !.event = event]
  <2>4. view.event = "none" /\ view.frame = "place" /\ view' = c /\ server' = server
    BY <1>9, <2>1 DEF Chart!Frame
  <2>5. extra' = IF extra # None /\ x # view.left /\ extra >= m - Slack THEN None ELSE extra
    BY <1>1, <1>2, <1>9, <2>1 DEF Chart!Frame
  <2>6. event \in {"none", "scroll"} /\ (event = "none" <=> x = view.left)
    OBVIOUS
  <2> HIDE DEF event
  <2>7. c \in ChartViews
    BY <1>0, <2>3, <2>6 DEF ChartViews
  <2>8. c.kept = view.kept /\ c.of = view.of /\ c.tip = view.tip /\ c.left = x /\ c.event = event /\ c.remember = view.remember
    BY <1>0 DEF ChartViews
  <2>9. c.follow = view.follow
    BY <1>0 DEF ChartViews
  <2> HIDE DEF c
  <2>10. PointsDrawn(c)
    BY <1>0, <2>8, SamePoints
  <2>11. IF view.follow THEN extra = None ELSE extra = view.remember
    BY <1>0, <2>4 DEF Scrolls
  <2>12. Chart!Min({view.remember, m}) = IF view.remember <= m THEN view.remember ELSE m
    <3>1. PICK k \in Nat : k = view.remember
      BY <1>3
    <3>2. Chart!Min({k, m}) = IF k <= m THEN k ELSE m
      BY LargerOfTwo
    <3> QED
      BY <3>1, <3>2
  <2>13. view.remember # None
    BY <1>3, ChartGiven
  <2>14. CASE event = "none"
    <3>1. x = view.left /\ extra' = extra
      BY <2>5, <2>6, <2>14
    <3>2. IF c.follow THEN c.left >= m - Slack ELSE c.left = Chart!Min({c.remember, m})
      BY <1>0, <1>3, <2>2, <2>8, <2>9, <2>12
    <3>3. Scrolls(c, extra)
      BY <1>1, <2>8, <2>9, <2>11, <2>14, <3>2 DEF Scrolls
    <3> QED
      BY <1>0, <1>4, <2>4, <2>7, <2>10, <3>1, <3>3
  <2>15. CASE event = "scroll"
    <3>1. x # view.left
      BY <2>6, <2>15
    <3>2. PICK r : r = extra'
      OBVIOUS
    <3>3. r \in Chart!Lefts \cup {None}
      BY <1>0, <2>5, <3>2
    <3>4. IF x >= m - Slack THEN r = None ELSE r = x
      <4>1. CASE view.follow
        BY <1>0, <2>2, <2>5, <2>11, <3>2, <4>1
      <4>2. CASE ~view.follow
        BY <1>0, <1>3, <2>2, <2>5, <2>11, <2>13, <3>1, <3>2, <4>2
      <4> QED
        BY <1>3, <4>1, <4>2
    <3>5. Scrolls(c, r)
      BY <1>1, <2>8, <2>15, <3>4 DEF Scrolls
    <3> QED
      BY <1>0, <1>4, <2>4, <2>7, <2>10, <3>2, <3>3, <3>5
  <2> QED
    BY <2>6, <2>14, <2>15
<1>10. CASE Chart!Tell
  <2> DEFINE tip == Len(view.kept)
             c == [view EXCEPT !.tip = tip, !.frame = "none"]
  <2>1. view' = c /\ extra' = extra /\ server' = server /\ view.frame = "tell" /\ view.event = "none"
    BY <1>2, <1>10 DEF Chart!Tell
  <2>2. tip \in 0 .. MaxDrawn /\ tip <= Len(view.kept)
    BY <1>2
  <2> HIDE DEF tip
  <2>3. c \in ChartViews
    BY <1>0, <2>2 DEF ChartViews
  <2>4. c.kept = view.kept /\ c.of = view.of /\ c.tip = tip /\ c.left = view.left /\ c.event = view.event /\ c.remember = view.remember
    BY <1>0 DEF ChartViews
  <2>5. c.follow = view.follow
    BY <1>0 DEF ChartViews
  <2> HIDE DEF c
  <2>6. PointsDrawn(c)
    BY <1>0, <2>2, <2>4 DEF PointsDrawn
  <2>7. Scrolls(c, extra)
    BY <1>0, <2>1, <2>4, <2>5 DEF Scrolls
  <2> QED
    BY <1>0, <1>4, <2>1, <2>3, <2>6, <2>7
<1>11. CASE Chart!Scrolled
  <2> DEFINE follow == view.left >= m - Slack
             c == [view EXCEPT !.remember = view.left, !.follow = follow, !.event = "none"]
  <2>1. view.event = "scroll" /\ extra' = extra /\ server' = server
    BY <1>11 DEF Chart!Scrolled
  <2>2. follow \in BOOLEAN
    OBVIOUS
  <2>3. view' = c
    <3>1. Chart!Synced(view) = [view EXCEPT !.remember = view.left, !.follow = follow]
      BY <1>1 DEF Chart!Synced
    <3>2. view' = [Chart!Synced(view) EXCEPT !.event = "none"]
      BY <1>11 DEF Chart!Scrolled
    <3> HIDE DEF follow
    <3> QED
      BY <1>0, <3>1, <3>2 DEF ChartViews
  <2>4. IF follow THEN extra = None ELSE extra = view.left
    BY <1>0, <1>1, <2>1 DEF Scrolls
  <2>5. ~follow => view.left = Chart!Min({view.left, m})
    <3>1. PICK k \in Nat : k = view.left
      BY <1>3
    <3>2. Chart!Min({k, m}) = IF k <= m THEN k ELSE m
      BY LargerOfTwo
    <3> QED
      BY <1>0, <3>1, <3>2
  <2>6. follow => view.left >= m - Slack
    OBVIOUS
  <2> HIDE DEF follow
  <2>7. c \in ChartViews
    BY <1>0, <2>2 DEF ChartViews
  <2>8. c.kept = view.kept /\ c.of = view.of /\ c.tip = view.tip /\ c.left = view.left /\ c.event = "none" /\ c.remember = view.left
    BY <1>0 DEF ChartViews
  <2>9. c.follow = follow
    BY <1>0, <2>2 DEF ChartViews
  <2> HIDE DEF c
  <2>10. PointsDrawn(c)
    BY <1>0, <2>8, SamePoints
  <2>11. Scrolls(c, extra)
    BY <1>1, <2>2, <2>4, <2>5, <2>6, <2>8, <2>9 DEF Scrolls
  <2> QED
    BY <1>0, <1>4, <2>1, <2>3, <2>7, <2>10, <2>11
<1>12. CASE Chart!GoneScrolled
  <2>1. view.event = "gone" /\ server' = server /\ extra' = IF view'.follow THEN None ELSE view'.remember
    BY <1>12 DEF Chart!GoneScrolled
  <2>2. view' \in ChartViews /\ view'.event = "none" /\ view'.kept = view.kept /\ view'.of = view.of
        /\ view'.tip = view.tip /\ view'.frame = view.frame
    <3>1. CASE view' = [view EXCEPT !.event = "none"]
      BY <1>0, <3>1 DEF ChartViews
    <3>2. CASE view' = [view EXCEPT !.event = "none", !.remember = 0, !.follow = TRUE]
      BY <1>0, <1>z, <3>2 DEF ChartViews
    <3> QED
      BY <1>12, <3>1, <3>2 DEF Chart!GoneScrolled
  <2>3. view.frame = "place" \/ Len(view.kept) = 0
    BY <1>0, <2>1 DEF Scrolls
  <2>4. Scrolls(view', extra')
    BY <1>2, <2>1, <2>2, <2>3 DEF Scrolls
  <2>5. extra' \in Chart!Lefts \cup {None}
    BY <2>1, <2>2 DEF ChartViews
  <2>6. PointsDrawn(view')
    BY <1>0, <2>2, SamePoints
  <2> QED
    BY <1>0, <1>4, <2>1, <2>2, <2>4, <2>5, <2>6
<1>13. CASE Chart!Scroll
  <2>1. PICK x \in 0 .. m : /\ view' = [view EXCEPT !.left = x, !.event = "scroll"]
                            /\ extra' = IF x >= m - Slack THEN None ELSE x
    BY <1>1, <1>2, <1>13 DEF Chart!Scroll
  <2>2. server' = server /\ view.frame # "place" /\ Len(view.kept) > 0
    BY <1>2, <1>13 DEF Chart!Scroll
  <2>3. x \in Chart!Lefts
    BY <1>1
  <2> DEFINE c == [view EXCEPT !.left = x, !.event = "scroll"]
  <2>4. c \in ChartViews
    BY <1>0, <2>3 DEF ChartViews
  <2>5. c.kept = view.kept /\ c.of = view.of /\ c.tip = view.tip /\ c.left = x /\ c.event = "scroll"
    BY <1>0 DEF ChartViews
  <2>6. view' = c
    BY <2>1
  <2> HIDE DEF c
  <2>7. PointsDrawn(c)
    BY <1>0, <2>5, SamePoints
  <2>8. Scrolls(c, extra')
    BY <1>1, <2>1, <2>5 DEF Scrolls
  <2> QED
    BY <1>0, <1>4, <2>1, <2>2, <2>3, <2>4, <2>6, <2>7, <2>8
<1>14. CASE Chart!Move \/ Chart!Leave
  <2>1. PICK i : i \in 0 .. Len(view.kept) /\ view' = [view EXCEPT !.tip = i]
    <3>1. CASE Chart!Move
      <4>1. PICK x \in 0 .. Chart!Width(Len(view.kept)) : view' = [view EXCEPT !.tip = Chart!Told(x, Len(view.kept))]
        BY <1>2, <3>1 DEF Chart!Move
      <4>2. Len(view.kept) > 0
        BY <1>2, <3>1 DEF Chart!Move
      <4>3. Chart!Told(x, Len(view.kept)) \in 1 .. Len(view.kept)
        BY <1>2, <4>2, ToldIsDrawn
      <4> QED
        BY <1>2, <4>1, <4>3
    <3>2. CASE Chart!Leave
      <4>1. view' = [view EXCEPT !.tip = 0] /\ 0 \in 0 .. Len(view.kept)
        BY <1>2, <3>2 DEF Chart!Leave
      <4> QED
        BY <4>1
    <3> QED
      BY <1>14, <3>1, <3>2
  <2>2. server' = server /\ extra' = extra
    BY <1>14 DEF Chart!Move, Chart!Leave
  <2>3. i \in 0 .. MaxDrawn /\ i <= Len(view.kept)
    <3>1. PICK n \in Nat : n = Len(view.kept) /\ n <= MaxDrawn
      BY <1>0, <1>2
    <3> QED
      BY <1>0, <2>1, <3>1
  <2> DEFINE c == [view EXCEPT !.tip = i]
  <2>4. c \in ChartViews
    BY <1>0, <2>3 DEF ChartViews
  <2>5. c.kept = view.kept /\ c.of = view.of /\ c.tip = i /\ c.left = view.left /\ c.event = view.event
        /\ c.remember = view.remember /\ c.frame = view.frame
    BY <1>0 DEF ChartViews
  <2>6. c.follow = view.follow
    BY <1>0 DEF ChartViews
  <2>7. view' = c
    BY <2>1
  <2> HIDE DEF c
  <2>8. PointsDrawn(c)
    BY <1>0, <2>3, <2>5 DEF PointsDrawn
  <2>9. Scrolls(c, extra)
    BY <1>0, <2>5, <2>6 DEF Scrolls
  <2> QED
    BY <1>0, <1>4, <2>2, <2>4, <2>7, <2>8, <2>9
<1> QED
  BY <1>5, <1>6, <1>7, <1>8, <1>9, <1>10, <1>11, <1>12, <1>13, <1>14 DEF Chart!Next

\* The invariant holds when the panel is opened.
LEMMA ChartStart == Chart!Init => ChartInv
<1> SUFFICES ASSUME Chart!Init PROVE ChartInv
  OBVIOUS
<1>1. /\ view = [open |-> FALSE, kept |-> <<>>, of |-> 0, left |-> 0, event |-> "none",
                 frame |-> "none", follow |-> TRUE, remember |-> 0, tip |-> 0]
      /\ extra = None /\ server \in 0 .. MaxPoints
  BY DEF Chart!Init
<1>2. <<>> \in Seq(1 .. MaxPoints) /\ Len(<<>>) = 0
  OBVIOUS
<1>3. 0 \in Chart!Lefts /\ 0 \in 0 .. MaxDrawn /\ 0 \in 0 .. MaxPoints
  <2>1. PICK k \in Nat : k = MaxDrawn
    BY ChartGiven
  <2>2. Chart!MaxLeft(k) \in Nat
    BY Widths
  <2> QED
    BY <2>1, <2>2, ChartGiven DEF Chart!Lefts
<1>4. view \in ChartViews
  BY <1>1, <1>2, <1>3 DEF ChartViews
<1>5. PointsDrawn(view)
  BY <1>1, <1>2, ChartGiven DEF PointsDrawn, KeptOf
<1>6. Scrolls(view, extra)
  BY <1>1, <1>2 DEF Scrolls
<1> QED
  BY <1>1, <1>4, <1>5, <1>6 DEF ChartInv

-----------------------------------------------------------------------------
(* Disks and storage of a snapshot.                                        *)

\* What the panel is given.
LEMMA ReadingsGiven ==
  /\ IsFiniteSet(Devices) /\ MaxWork \in Nat /\ None \notin 0 .. MaxWork
  /\ Matches \in Seq(SUBSET Devices) /\ \A v \in DOMAIN Matches : Size[v].size \in Nat
  /\ DOMAIN Hardware = 1 .. Len(Hardware) /\ Len(Hardware) \in Nat
  /\ \A i \in DOMAIN Hardware : Hardware[i].size \in Nat
  /\ \E i \in DOMAIN Hardware : Hardware[i].size > 0
BY PageAssumption

\* A set of subsets that has each one whose smaller ones it has, has them all.
LEMMA BySize ==
  ASSUME NEW U, IsFiniteSet(U), NEW Q,
         \A s \in SUBSET U : (\A t \in SUBSET s : Cardinality(t) < Cardinality(s) => t \in Q) => s \in Q
  PROVE  \A s \in SUBSET U : s \in Q
<1> DEFINE N == {n \in Nat : \E s \in SUBSET U : s \notin Q /\ Cardinality(s) = n}
<1> SUFFICES ASSUME NEW s \in SUBSET U, s \notin Q PROVE FALSE
  OBVIOUS
<1>1. \A t \in SUBSET U : Cardinality(t) \in Nat
  BY FS_Subset, FS_CardinalityType
<1>2. N \in SUBSET Nat /\ N # {}
  BY <1>1
<1>3. PICK n \in N : \A m \in N : n <= m
  BY <1>2, Smallest
<1>4. PICK t \in SUBSET U : t \notin Q /\ Cardinality(t) = n
  BY <1>3
<1>5. \A u \in SUBSET t : Cardinality(u) < Cardinality(t) => u \in Q
  <2> SUFFICES ASSUME NEW u \in SUBSET t, Cardinality(u) < Cardinality(t), u \notin Q PROVE FALSE
    OBVIOUS
  <2>1. Cardinality(u) \in N
    BY <1>1
  <2> HIDE DEF N
  <2>2. n <= Cardinality(u) /\ n \in Nat
    BY <1>3, <2>1, <1>1, <1>4
  <2> QED
    BY <1>1, <1>4, <2>2
<1> QED
  BY <1>4, <1>5

\* A finite set without one of its members is smaller.
LEMMA OneLess ==
  ASSUME NEW U, IsFiniteSet(U), NEW s \in SUBSET U, NEW x \in s
  PROVE  Cardinality(s \ {x}) \in Nat /\ Cardinality(s) = Cardinality(s \ {x}) + 1
<1>1. IsFiniteSet(s)
  BY FS_Subset
<1>2. IsFiniteSet(s \ {x}) /\ Cardinality(s \ {x}) = Cardinality(s) - 1
  BY <1>1, FS_RemoveElement
<1>3. Cardinality(s \ {x}) \in Nat /\ Cardinality(s) \in Nat
  BY <1>1, <1>2, FS_CardinalityType
<1> QED
  BY <1>2, <1>3

\* I adds up f over some of the subsets, taking out one member after the other.
AddsUp(f, I, D) ==
  I = [s \in D |->
        IF s = {} THEN 0 ELSE f[CHOOSE x \in s : TRUE] + I[s \ {CHOOSE x \in s : TRUE}]]

\* The subsets with n members at most.
UpTo(U, n) == {s \in SUBSET U : Cardinality(s) <= n}

\* There is such a function.
LEMMA SumsExistUpTo ==
  ASSUME NEW U, IsFiniteSet(U), NEW f, NEW k \in Nat
  PROVE  \E I : AddsUp(f, I, UpTo(U, k))
<1> DEFINE N == {n \in Nat : ~ \E I : AddsUp(f, I, UpTo(U, n))}
<1> SUFFICES ASSUME N # {} PROVE FALSE
  OBVIOUS
<1>1. N \in SUBSET Nat
  OBVIOUS
<1>2. PICK n \in N : \A m \in N : n <= m
  BY <1>1, Smallest
<1>3. n \in Nat /\ ~ \E I : AddsUp(f, I, UpTo(U, n))
  OBVIOUS
<1>4. \A m \in Nat : m < n => \E I : AddsUp(f, I, UpTo(U, m))
  BY <1>2, <1>3
<1> HIDE DEF N
<1>5. \A s \in UpTo(U, 0) : s = {}
  <2> SUFFICES ASSUME NEW s \in UpTo(U, 0), NEW x \in s PROVE FALSE
    OBVIOUS
  <2>1. s \in SUBSET U /\ Cardinality(s) <= 0
    BY DEF UpTo
  <2>2. Cardinality(s \ {x}) \in Nat /\ Cardinality(s) = Cardinality(s \ {x}) + 1
    BY <2>1, OneLess
  <2> QED
    BY <2>1, <2>2
<1>6. n # 0
  <2> DEFINE I == [s \in UpTo(U, 0) |-> 0]
  <2>1. AddsUp(f, I, UpTo(U, 0))
    BY <1>5 DEF AddsUp
  <2> QED
    BY <1>3, <2>1
<1>7. PICK I : AddsUp(f, I, UpTo(U, n - 1))
  BY <1>3, <1>4, <1>6
<1> DEFINE J == [s \in UpTo(U, n) |->
                  IF s = {} THEN 0 ELSE f[CHOOSE x \in s : TRUE] + I[s \ {CHOOSE x \in s : TRUE}]]
<1>8. \A s \in UpTo(U, n - 1) :
        I[s] = IF s = {} THEN 0 ELSE f[CHOOSE x \in s : TRUE] + I[s \ {CHOOSE x \in s : TRUE}]
  BY <1>7 DEF AddsUp
<1>9. \A s \in UpTo(U, n - 1) : s \in UpTo(U, n)
  <2> SUFFICES ASSUME NEW s \in UpTo(U, n - 1) PROVE s \in UpTo(U, n)
    OBVIOUS
  <2>1. s \in SUBSET U /\ Cardinality(s) <= n - 1 /\ Cardinality(s) \in Nat
    BY FS_Subset, FS_CardinalityType DEF UpTo
  <2> QED
    BY <1>3, <2>1 DEF UpTo
<1>10. \A s \in UpTo(U, n - 1) : J[s] = I[s]
  BY <1>8, <1>9
<1>11. \A s \in UpTo(U, n) : s # {} => s \ {CHOOSE x \in s : TRUE} \in UpTo(U, n - 1)
  <2> SUFFICES ASSUME NEW s \in UpTo(U, n), s # {} PROVE s \ {CHOOSE x \in s : TRUE} \in UpTo(U, n - 1)
    OBVIOUS
  <2>1. PICK x \in s : x = CHOOSE y \in s : TRUE
    OBVIOUS
  <2>2. s \in SUBSET U /\ Cardinality(s) <= n
    BY DEF UpTo
  <2>3. Cardinality(s \ {x}) \in Nat /\ Cardinality(s) = Cardinality(s \ {x}) + 1
    BY <2>2, OneLess
  <2>4. s \ {x} \in UpTo(U, n - 1)
    BY <1>3, <2>2, <2>3 DEF UpTo
  <2> QED
    BY <2>1, <2>4
<1>12. {} \in UpTo(U, n) => J[{}] = 0
  OBVIOUS
<1>13. J = [s \in UpTo(U, n) |->
             IF s = {} THEN 0 ELSE f[CHOOSE x \in s : TRUE] + J[s \ {CHOOSE x \in s : TRUE}]]
  <2>1. \A s \in UpTo(U, n) :
          J[s] = IF s = {} THEN 0 ELSE f[CHOOSE x \in s : TRUE] + J[s \ {CHOOSE x \in s : TRUE}]
    <3> SUFFICES ASSUME NEW s \in UpTo(U, n), s # {}
                 PROVE  J[s] = f[CHOOSE x \in s : TRUE] + J[s \ {CHOOSE x \in s : TRUE}]
      BY <1>12
    <3>1. J[s] = f[CHOOSE x \in s : TRUE] + I[s \ {CHOOSE x \in s : TRUE}]
      OBVIOUS
    <3> HIDE DEF J
    <3> QED
      BY <1>10, <1>11, <3>1
  <2>2. J = [s \in UpTo(U, n) |-> J[s]]
    OBVIOUS
  <2> HIDE DEF J
  <2> QED
    BY <2>1, <2>2
<1> HIDE DEF J
<1>14. AddsUp(f, J, UpTo(U, n))
  BY <1>13 DEF AddsUp
<1> QED
  BY <1>3, <1>14

\* I is the sum of f over the subsets of U: whatever member is taken out first.
Adds(f, I, U) ==
  /\ I \in [SUBSET U -> Nat]
  /\ I[{}] = 0
  /\ \A s \in SUBSET U : \A x \in s : I[s] = f[x] + I[s \ {x}]

\* What is added up in some order is the sum.
LEMMA AnyOrder ==
  ASSUME NEW U, IsFiniteSet(U), NEW f, \A x \in U : f[x] \in Nat, NEW I, AddsUp(f, I, SUBSET U)
  PROVE  Adds(f, I, U)
<1>1. \A s \in SUBSET U :
        I[s] = IF s = {} THEN 0 ELSE f[CHOOSE x \in s : TRUE] + I[s \ {CHOOSE x \in s : TRUE}]
  BY DEF AddsUp
<1>2. I = [s \in SUBSET U |-> I[s]]
  BY DEF AddsUp
<1>3. I[{}] = 0
  BY <1>1
<1>4. \A s \in SUBSET U : s # {} => \E c \in s : I[s] = f[c] + I[s \ {c}]
  <2> SUFFICES ASSUME NEW s \in SUBSET U, s # {} PROVE \E c \in s : I[s] = f[c] + I[s \ {c}]
    OBVIOUS
  <2>1. PICK c \in s : c = CHOOSE x \in s : TRUE
    OBVIOUS
  <2> QED
    BY <1>1, <2>1
<1> DEFINE Q == {s \in SUBSET U : I[s] \in Nat /\ \A x \in s : I[s] = f[x] + I[s \ {x}]}
<1>5. ASSUME NEW s \in SUBSET U, \A t \in SUBSET s : Cardinality(t) < Cardinality(s) => t \in Q
      PROVE  s \in Q
  <2>1. CASE s = {}
    BY <1>3, <2>1
  <2>2. CASE s # {}
    <3>1. PICK c \in s : I[s] = f[c] + I[s \ {c}]
      BY <1>4, <2>2
    <3>2. \A x \in s : s \ {x} \in Q
      <4> SUFFICES ASSUME NEW x \in s PROVE s \ {x} \in Q
        OBVIOUS
      <4>1. Cardinality(s \ {x}) < Cardinality(s)
        BY OneLess
      <4> HIDE DEF Q
      <4> QED
        BY <1>5, <4>1
    <3>3. I[s] \in Nat
      <4>1. I[s \ {c}] \in Nat /\ f[c] \in Nat
        BY <3>2
      <4> HIDE DEF Q
      <4> QED
        BY <3>1, <4>1
    <3>4. ASSUME NEW x \in s, x # c
          PROVE  I[s] = f[x] + I[s \ {x}]
      <4>1. I[s \ {c}] = f[x] + I[(s \ {c}) \ {x}]
        BY <3>2, <3>4
      <4>2. I[s \ {x}] = f[c] + I[(s \ {x}) \ {c}]
        BY <3>2, <3>4
      <4>3. (s \ {x}) \ {c} = (s \ {c}) \ {x}
        OBVIOUS
      <4>4. I[(s \ {c}) \ {x}] \in Nat
        <5>1. Cardinality((s \ {c}) \ {x}) < Cardinality(s)
          <6>1. Cardinality(s \ {c}) \in Nat /\ Cardinality(s) = Cardinality(s \ {c}) + 1
            BY OneLess
          <6>2. s \ {c} \in SUBSET U /\ x \in s \ {c}
            BY <3>4
          <6>3. Cardinality((s \ {c}) \ {x}) \in Nat /\ Cardinality(s \ {c}) = Cardinality((s \ {c}) \ {x}) + 1
            BY <6>2, OneLess
          <6> QED
            BY <6>1, <6>3
        <5>2. (s \ {c}) \ {x} \in Q
          <6> HIDE DEF Q
          <6> QED
            BY <1>5, <5>1
        <5> QED
          BY <5>2
      <4>5. f[x] \in Nat /\ f[c] \in Nat
        OBVIOUS
      <4>6. I[s] = f[c] + (f[x] + I[(s \ {c}) \ {x}])
        BY <3>1, <4>1
      <4>7. I[s \ {x}] = f[c] + I[(s \ {c}) \ {x}]
        BY <4>2, <4>3
      <4> HIDE DEF Q
      <4> QED
        BY <4>4, <4>5, <4>6, <4>7
    <3>5. \A x \in s : I[s] = f[x] + I[s \ {x}]
      BY <3>1, <3>4
    <3> QED
      BY <3>3, <3>5
  <2> QED
    BY <2>1, <2>2
<1>6. \A s \in SUBSET U : s \in Q
  <2> HIDE DEF Q
  <2> QED
    BY <1>5, BySize
<1>7. \A s \in SUBSET U : I[s] \in Nat /\ \A x \in s : I[s] = f[x] + I[s \ {x}]
  BY <1>6
<1> HIDE DEF Q
<1>8. I \in [SUBSET U -> Nat]
  <2>1. [s \in SUBSET U |-> I[s]] \in [SUBSET U -> Nat]
    BY <1>7
  <2> QED
    BY <1>2, <2>1
<1> QED
  BY <1>3, <1>7, <1>8 DEF Adds

\* There is a sum.
LEMMA SumsExist ==
  ASSUME NEW U, IsFiniteSet(U), NEW f
  PROVE  \E I : AddsUp(f, I, SUBSET U)
<1>1. UpTo(U, Cardinality(U)) = SUBSET U /\ Cardinality(U) \in Nat
  BY FS_Subset, FS_CardinalityType DEF UpTo
<1>2. PICK n \in Nat : n = Cardinality(U)
  BY <1>1
<1>3. \E I : AddsUp(f, I, UpTo(U, n))
  BY SumsExistUpTo
<1> QED
  BY <1>1, <1>2, <1>3

\* The sum of the values of a function.
Sum(f, U) == Readings!MapThenSumSet(LAMBDA x : f[x], U)

\* The sum of the sizes of its values.
SumOfSizes(f, U) == Readings!MapThenSumSet(LAMBDA x : f[x].size, U)

\* The sum of the sizes in a set.
SizesIn(U) == Readings!MapThenSumSet(LAMBDA x : x.size, U)

\* The sum of the differences of two functions.
SumOfWork(f, h, U) == Readings!MapThenSumSet(LAMBDA x : f[x] - h[x], U)

\* Sum is the sum.
LEMMA SumIs ==
  ASSUME NEW U, IsFiniteSet(U), NEW f, \A x \in U : f[x] \in Nat
  PROVE  \E I : Adds(f, I, U) /\ Sum(f, U) = I[U]
<1>1. \E I : AddsUp(f, I, SUBSET U)
  BY SumsExist
<1>2. \E I : AddsUp(f, I, SUBSET U) /\ Sum(f, U) = I[U]
  BY <1>1 DEF Sum, Readings!MapThenSumSet, Readings!MapThenFoldSet, AddsUp
<1> QED
  BY <1>2, AnyOrder

\* SumOfSizes is the sum of the sizes.
LEMMA SumOfSizesIs ==
  ASSUME NEW U, IsFiniteSet(U), NEW f, \A x \in U : f[x].size \in Nat
  PROVE  \E g, I : g = [x \in U |-> f[x].size] /\ Adds(g, I, U) /\ SumOfSizes(f, U) = I[U]
<1> DEFINE g == [x \in U |-> f[x].size]
<1>1. \A x \in U : g[x] = f[x].size /\ g[x] \in Nat
  OBVIOUS
<1>2. g = [x \in U |-> f[x].size]
  OBVIOUS
<1> HIDE DEF g
<1>3. \E I : I = [s \in SUBSET U |->
                   IF s = {} THEN 0 ELSE f[CHOOSE x \in s : TRUE].size + I[s \ {CHOOSE x \in s : TRUE}]]
  <2>1. PICK I : AddsUp(g, I, SUBSET U)
    BY SumsExist
  <2>2. \A s \in SUBSET U :
          I[s] = IF s = {} THEN 0 ELSE f[CHOOSE x \in s : TRUE].size + I[s \ {CHOOSE x \in s : TRUE}]
    <3> SUFFICES ASSUME NEW s \in SUBSET U
                 PROVE  I[s] = IF s = {} THEN 0
                               ELSE f[CHOOSE x \in s : TRUE].size + I[s \ {CHOOSE x \in s : TRUE}]
      OBVIOUS
    <3>1. s # {} => (CHOOSE x \in s : TRUE) \in U
      OBVIOUS
    <3>2. I[s] = IF s = {} THEN 0 ELSE g[CHOOSE x \in s : TRUE] + I[s \ {CHOOSE x \in s : TRUE}]
      BY <2>1 DEF AddsUp
    <3> QED
      BY <1>1, <3>1, <3>2
  <2>3. I = [s \in SUBSET U |-> I[s]]
    BY <2>1 DEF AddsUp
  <2>4. [s \in SUBSET U |-> I[s]] =
        [s \in SUBSET U |->
          IF s = {} THEN 0 ELSE f[CHOOSE x \in s : TRUE].size + I[s \ {CHOOSE x \in s : TRUE}]]
    BY <2>2
  <2> QED
    BY <2>3, <2>4
<1>4. PICK I : /\ I = [s \in SUBSET U |->
                        IF s = {} THEN 0 ELSE f[CHOOSE x \in s : TRUE].size + I[s \ {CHOOSE x \in s : TRUE}]]
               /\ SumOfSizes(f, U) = I[U]
  BY <1>3 DEF SumOfSizes, Readings!MapThenSumSet, Readings!MapThenFoldSet
<1>5. AddsUp(g, I, SUBSET U)
  <2>1. \A s \in SUBSET U :
          I[s] = IF s = {} THEN 0 ELSE g[CHOOSE x \in s : TRUE] + I[s \ {CHOOSE x \in s : TRUE}]
    <3> SUFFICES ASSUME NEW s \in SUBSET U
                 PROVE  I[s] = IF s = {} THEN 0
                               ELSE g[CHOOSE x \in s : TRUE] + I[s \ {CHOOSE x \in s : TRUE}]
      OBVIOUS
    <3>1. s # {} => (CHOOSE x \in s : TRUE) \in U
      OBVIOUS
    <3>2. I[s] = IF s = {} THEN 0 ELSE f[CHOOSE x \in s : TRUE].size + I[s \ {CHOOSE x \in s : TRUE}]
      BY <1>4
    <3> QED
      BY <1>1, <3>1, <3>2
  <2>2. I = [s \in SUBSET U |-> I[s]]
    BY <1>4
  <2> QED
    BY <2>1, <2>2 DEF AddsUp
<1>6. Adds(g, I, U)
  BY <1>1, <1>5, AnyOrder
<1> QED
  BY <1>2, <1>4, <1>6

\* SizesIn is the sum of the sizes.
LEMMA SizesInIs ==
  ASSUME NEW U, IsFiniteSet(U), \A x \in U : x.size \in Nat
  PROVE  \E g, I : g = [x \in U |-> x.size] /\ Adds(g, I, U) /\ SizesIn(U) = I[U]
<1> DEFINE g == [x \in U |-> x.size]
<1>1. \A x \in U : g[x] = x.size /\ g[x] \in Nat
  OBVIOUS
<1>2. g = [x \in U |-> x.size]
  OBVIOUS
<1> HIDE DEF g
<1>3. \E I : I = [s \in SUBSET U |->
                   IF s = {} THEN 0 ELSE (CHOOSE x \in s : TRUE).size + I[s \ {CHOOSE x \in s : TRUE}]]
  <2>1. PICK I : AddsUp(g, I, SUBSET U)
    BY SumsExist
  <2>2. \A s \in SUBSET U :
          I[s] = IF s = {} THEN 0 ELSE (CHOOSE x \in s : TRUE).size + I[s \ {CHOOSE x \in s : TRUE}]
    <3> SUFFICES ASSUME NEW s \in SUBSET U
                 PROVE  I[s] = IF s = {} THEN 0
                               ELSE (CHOOSE x \in s : TRUE).size + I[s \ {CHOOSE x \in s : TRUE}]
      OBVIOUS
    <3>1. s # {} => (CHOOSE x \in s : TRUE) \in U
      OBVIOUS
    <3>2. I[s] = IF s = {} THEN 0 ELSE g[CHOOSE x \in s : TRUE] + I[s \ {CHOOSE x \in s : TRUE}]
      BY <2>1 DEF AddsUp
    <3> QED
      BY <1>1, <3>1, <3>2
  <2>3. I = [s \in SUBSET U |-> I[s]]
    BY <2>1 DEF AddsUp
  <2>4. [s \in SUBSET U |-> I[s]] =
        [s \in SUBSET U |->
          IF s = {} THEN 0 ELSE (CHOOSE x \in s : TRUE).size + I[s \ {CHOOSE x \in s : TRUE}]]
    BY <2>2
  <2> QED
    BY <2>3, <2>4
<1>4. PICK I : /\ I = [s \in SUBSET U |->
                        IF s = {} THEN 0 ELSE (CHOOSE x \in s : TRUE).size + I[s \ {CHOOSE x \in s : TRUE}]]
               /\ SizesIn(U) = I[U]
  BY <1>3 DEF SizesIn, Readings!MapThenSumSet, Readings!MapThenFoldSet
<1>5. AddsUp(g, I, SUBSET U)
  <2>1. \A s \in SUBSET U :
          I[s] = IF s = {} THEN 0 ELSE g[CHOOSE x \in s : TRUE] + I[s \ {CHOOSE x \in s : TRUE}]
    <3> SUFFICES ASSUME NEW s \in SUBSET U
                 PROVE  I[s] = IF s = {} THEN 0
                               ELSE g[CHOOSE x \in s : TRUE] + I[s \ {CHOOSE x \in s : TRUE}]
      OBVIOUS
    <3>1. s # {} => (CHOOSE x \in s : TRUE) \in U
      OBVIOUS
    <3>2. I[s] = IF s = {} THEN 0 ELSE (CHOOSE x \in s : TRUE).size + I[s \ {CHOOSE x \in s : TRUE}]
      BY <1>4
    <3> QED
      BY <1>1, <3>1, <3>2
  <2>2. I = [s \in SUBSET U |-> I[s]]
    BY <1>4
  <2> QED
    BY <2>1, <2>2 DEF AddsUp
<1>6. Adds(g, I, U)
  BY <1>1, <1>5, AnyOrder
<1> QED
  BY <1>2, <1>4, <1>6
\* SumOfWork is the sum of the differences.
LEMMA SumOfWorkIs ==
  ASSUME NEW U, IsFiniteSet(U), NEW f, NEW h, \A x \in U : (f[x] - h[x]) \in Nat
  PROVE  \E g, I : g = [x \in U |-> (f[x] - h[x])] /\ Adds(g, I, U) /\ SumOfWork(f, h, U) = I[U]
<1> DEFINE g == [x \in U |-> (f[x] - h[x])]
<1>1. \A x \in U : g[x] = (f[x] - h[x]) /\ g[x] \in Nat
  OBVIOUS
<1>2. g = [x \in U |-> (f[x] - h[x])]
  OBVIOUS
<1> HIDE DEF g
<1>3. \E I : I = [s \in SUBSET U |->
                   IF s = {} THEN 0 ELSE (f[CHOOSE x \in s : TRUE] - h[CHOOSE x \in s : TRUE]) + I[s \ {CHOOSE x \in s : TRUE}]]
  <2>1. PICK I : AddsUp(g, I, SUBSET U)
    BY SumsExist
  <2>2. \A s \in SUBSET U :
          I[s] = IF s = {} THEN 0 ELSE (f[CHOOSE x \in s : TRUE] - h[CHOOSE x \in s : TRUE]) + I[s \ {CHOOSE x \in s : TRUE}]
    <3> SUFFICES ASSUME NEW s \in SUBSET U
                 PROVE  I[s] = IF s = {} THEN 0
                               ELSE (f[CHOOSE x \in s : TRUE] - h[CHOOSE x \in s : TRUE]) + I[s \ {CHOOSE x \in s : TRUE}]
      OBVIOUS
    <3>1. s # {} => (CHOOSE x \in s : TRUE) \in U
      OBVIOUS
    <3>2. I[s] = IF s = {} THEN 0 ELSE g[CHOOSE x \in s : TRUE] + I[s \ {CHOOSE x \in s : TRUE}]
      BY <2>1 DEF AddsUp
    <3> QED
      BY <1>1, <3>1, <3>2
  <2>3. I = [s \in SUBSET U |-> I[s]]
    BY <2>1 DEF AddsUp
  <2>4. [s \in SUBSET U |-> I[s]] =
        [s \in SUBSET U |->
          IF s = {} THEN 0 ELSE (f[CHOOSE x \in s : TRUE] - h[CHOOSE x \in s : TRUE]) + I[s \ {CHOOSE x \in s : TRUE}]]
    BY <2>2
  <2> QED
    BY <2>3, <2>4
<1>4. PICK I : /\ I = [s \in SUBSET U |->
                        IF s = {} THEN 0 ELSE (f[CHOOSE x \in s : TRUE] - h[CHOOSE x \in s : TRUE]) + I[s \ {CHOOSE x \in s : TRUE}]]
               /\ SumOfWork(f, h, U) = I[U]
  BY <1>3 DEF SumOfWork, Readings!MapThenSumSet, Readings!MapThenFoldSet
<1>5. AddsUp(g, I, SUBSET U)
  <2>1. \A s \in SUBSET U :
          I[s] = IF s = {} THEN 0 ELSE g[CHOOSE x \in s : TRUE] + I[s \ {CHOOSE x \in s : TRUE}]
    <3> SUFFICES ASSUME NEW s \in SUBSET U
                 PROVE  I[s] = IF s = {} THEN 0
                               ELSE g[CHOOSE x \in s : TRUE] + I[s \ {CHOOSE x \in s : TRUE}]
      OBVIOUS
    <3>1. s # {} => (CHOOSE x \in s : TRUE) \in U
      OBVIOUS
    <3>2. I[s] = IF s = {} THEN 0 ELSE (f[CHOOSE x \in s : TRUE] - h[CHOOSE x \in s : TRUE]) + I[s \ {CHOOSE x \in s : TRUE}]
      BY <1>4
    <3> QED
      BY <1>1, <3>1, <3>2
  <2>2. I = [s \in SUBSET U |-> I[s]]
    BY <1>4
  <2> QED
    BY <2>1, <2>2 DEF AddsUp
<1>6. Adds(g, I, U)
  BY <1>1, <1>5, AnyOrder
<1> QED
  BY <1>2, <1>4, <1>6

\* A sum is a number.
LEMMA SumIsNumber ==
  ASSUME NEW U, IsFiniteSet(U), NEW f, \A x \in U : f[x] \in Nat
  PROVE  Sum(f, U) \in Nat
<1>1. PICK I : Adds(f, I, U) /\ Sum(f, U) = I[U]
  BY SumIs
<1> QED
  BY <1>1 DEF Adds

\* What grows everywhere grows by the sum of the differences.
LEMMA SumGrows ==
  ASSUME NEW U, IsFiniteSet(U), NEW f, NEW h,
         \A x \in U : f[x] \in Nat /\ h[x] \in Nat /\ h[x] <= f[x]
  PROVE  SumOfWork(f, h, U) \in Nat /\ Sum(f, U) = Sum(h, U) + SumOfWork(f, h, U)
<1>1. PICK I : Adds(f, I, U) /\ Sum(f, U) = I[U]
  BY SumIs
<1>2. PICK J : Adds(h, J, U) /\ Sum(h, U) = J[U]
  BY SumIs
<1>3. \A x \in U : (f[x] - h[x]) \in Nat
  OBVIOUS
<1>4. PICK g, K : g = [x \in U |-> (f[x] - h[x])] /\ Adds(g, K, U) /\ SumOfWork(f, h, U) = K[U]
  BY <1>3, SumOfWorkIs
<1>5. \A x \in U : g[x] = f[x] - h[x] /\ g[x] \in Nat
  BY <1>3, <1>4
<1>6. \A s \in SUBSET U : I[s] \in Nat /\ J[s] \in Nat /\ K[s] \in Nat
  BY <1>1, <1>2, <1>4 DEF Adds
<1> DEFINE Q == {s \in SUBSET U : I[s] = J[s] + K[s]}
<1>7. ASSUME NEW s \in SUBSET U, \A t \in SUBSET s : Cardinality(t) < Cardinality(s) => t \in Q
      PROVE  s \in Q
  <2>1. CASE s = {}
    BY <1>1, <1>2, <1>4, <2>1 DEF Adds
  <2>2. CASE s # {}
    <3>1. PICK x \in s : TRUE
      BY <2>2
    <3>2. Cardinality(s \ {x}) < Cardinality(s)
      BY OneLess
    <3>3. s \ {x} \in Q
      <4> HIDE DEF Q
      <4> QED
        BY <1>7, <3>2
    <3>4. /\ I[s] = f[x] + I[s \ {x}]
          /\ J[s] = h[x] + J[s \ {x}]
          /\ K[s] = g[x] + K[s \ {x}]
      BY <1>1, <1>2, <1>4 DEF Adds
    <3>5. I[s \ {x}] = J[s \ {x}] + K[s \ {x}]
      BY <3>3
    <3>6. I[s] = J[s] + K[s]
      <4>1. f[x] \in Nat /\ h[x] \in Nat /\ g[x] = f[x] - h[x]
        BY <1>5
      <4>2. J[s \ {x}] \in Nat /\ K[s \ {x}] \in Nat
        BY <1>6
      <4> HIDE DEF Q
      <4> QED
        BY <3>4, <3>5, <4>1, <4>2
    <3> QED
      BY <3>6
  <2> QED
    BY <2>1, <2>2
<1>8. U \in Q
  <2> HIDE DEF Q
  <2>1. \A s \in SUBSET U : s \in Q
    BY <1>7, BySize
  <2> QED
    BY <2>1
<1> QED
  BY <1>1, <1>2, <1>4, <1>6, <1>8

\* A sum is at least each of its members.
LEMMA SumIsMore ==
  ASSUME NEW U, IsFiniteSet(U), NEW f, \A x \in U : f[x] \in Nat, NEW x \in U
  PROVE  f[x] <= Sum(f, U)
<1>1. PICK I : Adds(f, I, U) /\ Sum(f, U) = I[U]
  BY SumIs
<1>2. I[U] = f[x] + I[U \ {x}] /\ I[U \ {x}] \in Nat
  BY <1>1 DEF Adds
<1> QED
  BY <1>1, <1>2

\* The sum of nothing but noughts.
LEMMA SumOfNoughts ==
  ASSUME NEW U, IsFiniteSet(U), NEW f, \A x \in U : f[x] = 0
  PROVE  Sum(f, U) = 0
<1>1. PICK I : Adds(f, I, U) /\ Sum(f, U) = I[U]
  BY SumIs
<1> DEFINE Q == {s \in SUBSET U : I[s] = 0}
<1>2. ASSUME NEW s \in SUBSET U, \A t \in SUBSET s : Cardinality(t) < Cardinality(s) => t \in Q
      PROVE  s \in Q
  <2>1. CASE s = {}
    BY <1>1, <2>1 DEF Adds
  <2>2. CASE s # {}
    <3>1. PICK x \in s : TRUE
      BY <2>2
    <3>2. Cardinality(s \ {x}) < Cardinality(s)
      BY OneLess
    <3>3. s \ {x} \in Q
      <4> HIDE DEF Q
      <4> QED
        BY <1>2, <3>2
    <3>4. I[s] = f[x] + I[s \ {x}]
      BY <1>1 DEF Adds
    <3> QED
      BY <3>3, <3>4
  <2> QED
    BY <2>1, <2>2
<1>3. U \in Q
  <2> HIDE DEF Q
  <2>1. \A s \in SUBSET U : s \in Q
    BY <1>2, BySize
  <2> QED
    BY <2>1
<1> QED
  BY <1>1, <1>3

\* A list of different members has the sizes that the set of them has.
LEMMA SameSizes ==
  ASSUME NEW U, IsFiniteSet(U), NEW f, \A x \in U : f[x].size \in Nat,
         \A x, y \in U : f[x] = f[y] => x = y
  PROVE  SumOfSizes(f, U) = SizesIn({f[x] : x \in U}) /\ SumOfSizes(f, U) \in Nat
<1> DEFINE V == {f[x] : x \in U}
<1>1. IsFiniteSet(V)
  <2> DEFINE m == [x \in U |-> f[x]]
  <2>1. m \in [U -> V] /\ \A z \in V : \E x \in U : m[x] = z
    OBVIOUS
  <2> HIDE DEF m, V
  <2>2. m \in Surjection(U, V)
    BY <2>1 DEF Surjection
  <2> QED
    BY <2>2, FS_Surjection
<1>2. PICK g, I : g = [x \in U |-> f[x].size] /\ Adds(g, I, U) /\ SumOfSizes(f, U) = I[U]
  BY SumOfSizesIs
<1>3. \A z \in V : z.size \in Nat
  OBVIOUS
<1>4. PICK h, J : h = [z \in V |-> z.size] /\ Adds(h, J, V) /\ SizesIn(V) = J[V]
  <2> HIDE DEF V
  <2> QED
    BY <1>1, <1>3, SizesInIs
<1> DEFINE Q == {s \in SUBSET U : I[s] = J[{f[x] : x \in s}]}
<1>5. ASSUME NEW s \in SUBSET U, \A t \in SUBSET s : Cardinality(t) < Cardinality(s) => t \in Q
      PROVE  s \in Q
  <2>1. CASE s = {}
    <3>1. {f[x] : x \in s} = {}
      BY <2>1
    <3>2. I[{}] = 0 /\ J[{}] = 0
      BY <1>2, <1>4 DEF Adds
    <3> QED
      BY <2>1, <3>1, <3>2
  <2>2. CASE s # {}
    <3>1. PICK x \in s : TRUE
      BY <2>2
    <3>2. Cardinality(s \ {x}) < Cardinality(s)
      BY OneLess
    <3>3. s \ {x} \in Q
      <4> HIDE DEF Q, V
      <4> QED
        BY <1>5, <3>2
    <3>4. I[s] = g[x] + I[s \ {x}]
      BY <1>2 DEF Adds
    <3>5. {f[y] : y \in s} \in SUBSET V /\ f[x] \in {f[y] : y \in s}
      OBVIOUS
    <3>6. {f[y] : y \in s} \ {f[x]} = {f[y] : y \in s \ {x}}
      OBVIOUS
    <3>7. J[{f[y] : y \in s}] = h[f[x]] + J[{f[y] : y \in s} \ {f[x]}]
      <4> HIDE DEF V
      <4> QED
        BY <1>4, <3>5 DEF Adds
    <3>8. h[f[x]] = f[x].size /\ g[x] = f[x].size
      BY <1>2, <1>4
    <3>9. I[s \ {x}] = J[{f[y] : y \in s \ {x}}]
      BY <3>3
    <3>10. I[s] = J[{f[y] : y \in s}]
      <4> HIDE DEF Q, V
      <4> QED
        BY <3>4, <3>6, <3>7, <3>8, <3>9
    <3> QED
      BY <3>10
  <2> QED
    BY <2>1, <2>2
<1>6. U \in Q
  <2> HIDE DEF Q, V
  <2>1. \A s \in SUBSET U : s \in Q
    BY <1>5, BySize
  <2> QED
    BY <2>1
<1>7. I[U] = J[V] /\ I[U] \in Nat
  BY <1>2, <1>6 DEF Adds
<1> QED
  BY <1>2, <1>4, <1>7

\* A sum of sizes is at least each of them.
LEMMA SizesAreMore ==
  ASSUME NEW U, IsFiniteSet(U), \A z \in U : z.size \in Nat, NEW z \in U
  PROVE  z.size <= SizesIn(U)
<1>1. PICK g, I : g = [x \in U |-> x.size] /\ Adds(g, I, U) /\ SizesIn(U) = I[U]
  BY SizesInIs
<1>2. I[U] = g[z] + I[U \ {z}] /\ I[U \ {z}] \in Nat
  BY <1>1 DEF Adds
<1> QED
  BY <1>1, <1>2

\* The total of a sample.
LEMMA Totalled ==
  ASSUME NEW summary, NEW of
  PROVE  Readings!Totals(summary, of) = IF summary # 0 THEN summary ELSE Sum(of, Readings!Seen(of))
BY DEF Readings!Totals, Sum, Readings!MapThenSumSet, Readings!MapThenFoldSet

\* The bound on the rate of all devices.
LEMMA WorkedIs ==
  Readings!MapThenSumSet(Readings!Worked, Devices) = SumOfWork(extra.now, extra.before, Devices)
BY DEF Readings!Worked, SumOfWork, Readings!MapThenSumSet, Readings!MapThenFoldSet

\* The storage of a list is the sum over its different members.
LEMMA AddedIs ==
  ASSUME NEW list
  PROVE  Readings!Added(list) = SumOfSizes(Readings!Distinct(list), DOMAIN Readings!Distinct(list))
BY DEF Readings!Added, SumOfSizes, Readings!MapThenSumSet, Readings!MapThenFoldSet

\* What can be mounted is numbered.
LEMMA VolumesAre == Readings!Volumes \in SUBSET Nat /\ IsFiniteSet(Readings!Volumes)
<1>1. DOMAIN Matches = 1 .. Len(Matches) /\ Len(Matches) \in Nat
  BY ReadingsGiven
<1>2. IsFiniteSet(1 .. Len(Matches))
  BY <1>1, FS_Interval
<1> QED
  BY <1>1, <1>2 DEF Readings!Volumes

\* Of equal members of a list the first one counts.
LEMMA AddedOnce ==
  ASSUME NEW list, DOMAIN list \in SUBSET Nat, IsFiniteSet(DOMAIN list),
         \A i \in DOMAIN list : list[i].size \in Nat
  PROVE  /\ Readings!Added(list) = SizesIn({list[i] : i \in DOMAIN list})
         /\ Readings!Added(list) \in Nat
<1> DEFINE D == {k \in DOMAIN list : \A i \in DOMAIN list : i < k => list[i] # list[k]}
<1> DEFINE once == [i \in D |-> list[i]]
<1>1. Readings!Distinct(list) = once
  BY DEF Readings!Distinct
<1>2. IsFiniteSet(D) /\ D \in SUBSET DOMAIN list
  <2>1. D \in SUBSET DOMAIN list
    OBVIOUS
  <2> HIDE DEF D
  <2> QED
    BY <2>1, FS_Subset
<1>3. \A i, k \in D : list[i] = list[k] => i = k
  <2> SUFFICES ASSUME NEW i \in D, NEW k \in D, list[i] = list[k], i # k PROVE FALSE
    OBVIOUS
  <2>1. i \in Nat /\ k \in Nat
    OBVIOUS
  <2>2. i < k \/ k < i
    BY <2>1
  <2> QED
    BY <2>2
<1>4. {list[i] : i \in D} = {list[i] : i \in DOMAIN list}
  <2> SUFFICES ASSUME NEW i \in DOMAIN list PROVE \E k \in D : list[k] = list[i]
    OBVIOUS
  <2> DEFINE N == {k \in DOMAIN list : list[k] = list[i]}
  <2>1. N \in SUBSET Nat /\ N # {}
    OBVIOUS
  <2>2. PICK k \in N : \A m \in N : k <= m
    <3> HIDE DEF N
    <3> QED
      BY <2>1, Smallest
  <2>3. \A m \in DOMAIN list : m < k => list[m] # list[k]
    <3> SUFFICES ASSUME NEW m \in DOMAIN list, m < k, list[m] = list[k] PROVE FALSE
      OBVIOUS
    <3>1. m \in N
      OBVIOUS
    <3>2. k \in Nat /\ m \in Nat
      OBVIOUS
    <3> HIDE DEF N
    <3> QED
      BY <2>2, <3>1, <3>2
  <2> QED
    BY <2>3
<1>5. \A i \in D : once[i] = list[i]
  OBVIOUS
<1>6. DOMAIN once = D
  OBVIOUS
<1>7. {once[i] : i \in D} = {list[i] : i \in D}
  OBVIOUS
<1>8. \A i \in D : list[i].size \in Nat
  OBVIOUS
<1> HIDE DEF D, once
<1>9. SumOfSizes(once, D) = SizesIn({once[i] : i \in D}) /\ SumOfSizes(once, D) \in Nat
  BY <1>2, <1>3, <1>5, <1>8, SameSizes
<1>10. Readings!Added(list) = SumOfSizes(once, D)
  BY <1>1, <1>6, AddedIs
<1> QED
  BY <1>4, <1>7, <1>9, <1>10

\* The disks of the hardware's description.
Disks == {[name |-> Hardware[i].name, size |-> Hardware[i].size] : i \in DOMAIN Hardware}

\* The storage that is told when the hardware was described.
LEMMA StorageOfHardware ==
  ASSUME NEW mounted
  PROVE  Readings!Storage(Hardware, mounted) = SizesIn(Disks) /\ SizesIn(Disks) \in Nat
<1> DEFINE list == [i \in DOMAIN Hardware |-> [name |-> Hardware[i].name, size |-> Hardware[i].size]]
<1>1. DOMAIN list = DOMAIN Hardware /\ \A i \in DOMAIN list : list[i].size = Hardware[i].size
  OBVIOUS
<1>2. {list[i] : i \in DOMAIN list} = Disks
  BY DEF Disks
<1>3. Readings!Storage(Hardware, mounted) =
        IF Readings!Added(list) > 0 THEN Readings!Added(list) ELSE Readings!Added([v \in mounted |-> Size[v]])
  BY DEF Readings!Storage
<1> HIDE DEF list
<1>4. DOMAIN list \in SUBSET Nat /\ \A i \in DOMAIN list : list[i].size \in Nat
  BY <1>1, ReadingsGiven
<1>5. IsFiniteSet(DOMAIN list)
  <2>1. IsFiniteSet(1 .. Len(Hardware))
    BY ReadingsGiven, FS_Interval
  <2> QED
    BY <1>1, <2>1, ReadingsGiven
<1>6. Readings!Added(list) = SizesIn(Disks) /\ SizesIn(Disks) \in Nat
  BY <1>2, <1>4, <1>5, AddedOnce
<1>7. PICK i \in DOMAIN list : list[i].size > 0
  BY <1>1, ReadingsGiven
<1>8. IsFiniteSet(Disks)
  <2>1. list \in [DOMAIN list -> Disks] /\ \A z \in Disks : \E k \in DOMAIN list : list[k] = z
    <3>1. list = [k \in DOMAIN list |-> list[k]]
      BY DEF list
    <3> QED
      BY <1>2, <3>1
  <2>2. list \in Surjection(DOMAIN list, Disks)
    BY <2>1 DEF Surjection
  <2> QED
    BY <1>5, <2>2, FS_Surjection
<1>9. list[i] \in Disks /\ \A z \in Disks : z.size \in Nat
  BY <1>2, <1>4
<1>10. PICK z \in Disks : z.size > 0 /\ z.size \in Nat
  BY <1>7, <1>9
<1>11. z.size <= SizesIn(Disks)
  BY <1>8, <1>9, SizesAreMore
<1> QED
  BY <1>3, <1>6, <1>10, <1>11

\* The storage that is told when it was not.
LEMMA StorageOfVolumes ==
  ASSUME NEW mounted \in SUBSET Readings!Volumes
  PROVE  /\ Readings!Storage(<<>>, mounted) = SizesIn({Size[v] : v \in mounted})
         /\ SizesIn({Size[v] : v \in mounted}) \in Nat
<1> DEFINE none == [i \in DOMAIN <<>> |-> [name |-> <<>>[i].name, size |-> <<>>[i].size]]
<1> DEFINE list == [v \in mounted |-> Size[v]]
<1>1. DOMAIN none = {}
  OBVIOUS
<1>2. Readings!Storage(<<>>, mounted) = IF Readings!Added(none) > 0 THEN Readings!Added(none) ELSE Readings!Added(list)
  BY DEF Readings!Storage
<1>3. DOMAIN list = mounted /\ \A v \in mounted : list[v] = Size[v]
  OBVIOUS
<1> HIDE DEF none, list
<1>4. IsFiniteSet({})
  BY FS_EmptySet
<1>5. Readings!Added(none) = SizesIn({})
  <2>1. {none[i] : i \in DOMAIN none} = {}
    BY <1>1
  <2>2. DOMAIN none \in SUBSET Nat /\ IsFiniteSet(DOMAIN none) /\ \A i \in DOMAIN none : none[i].size \in Nat
    BY <1>1, <1>4
  <2> QED
    BY <2>1, <2>2, AddedOnce
<1>6. SizesIn({}) = 0
  <2>1. \A x \in {} : x.size \in Nat
    OBVIOUS
  <2>2. PICK g, I : g = [x \in {} |-> x.size] /\ Adds(g, I, {}) /\ SizesIn({}) = I[{}]
    BY <1>4, <2>1, SizesInIs
  <2> QED
    BY <2>2 DEF Adds
<1>7. IsFiniteSet(mounted) /\ mounted \in SUBSET Nat
  BY VolumesAre, FS_Subset
<1>8. \A v \in mounted : list[v].size \in Nat
  BY <1>3, ReadingsGiven DEF Readings!Volumes
<1>9. {list[v] : v \in DOMAIN list} = {Size[v] : v \in mounted}
  BY <1>3
<1>10. Readings!Added(list) = SizesIn({Size[v] : v \in mounted}) /\ SizesIn({Size[v] : v \in mounted}) \in Nat
  <2>1. DOMAIN list \in SUBSET Nat /\ IsFiniteSet(DOMAIN list) /\ \A i \in DOMAIN list : list[i].size \in Nat
    BY <1>3, <1>7, <1>8
  <2> QED
    BY <1>9, <2>1, AddedOnce
<1> QED
  BY <1>2, <1>5, <1>6, <1>10

\* No disk and no volume counts twice.
LEMMA CountsOnce == server.mounted \in SUBSET Readings!Volumes => Readings!StorageCountsOnce
<1> SUFFICES ASSUME server.mounted \in SUBSET Readings!Volumes PROVE Readings!StorageCountsOnce
  OBVIOUS
<1>1. PICK m \in SUBSET Readings!Volumes : m = server.mounted
  OBVIOUS
<1>2. Readings!Storage(Hardware, m) = SizesIn(Disks)
  BY StorageOfHardware
<1>3. Readings!Storage(<<>>, m) = SizesIn({Size[v] : v \in m})
  BY StorageOfVolumes
<1>4. SizesIn(Disks) = Readings!MapThenSumSet(LAMBDA h : h.size, Disks)
  BY DEF SizesIn, Readings!MapThenSumSet, Readings!MapThenFoldSet
<1>5. SizesIn({Size[v] : v \in server.mounted})
        = Readings!MapThenSumSet(LAMBDA s : s.size, {Size[v] : v \in server.mounted})
  BY DEF SizesIn, Readings!MapThenSumSet, Readings!MapThenFoldSet
<1>6. Readings!Storage(Hardware, server.mounted) = SizesIn(Disks)
  BY <1>1, <1>2
<1>7. Readings!Storage(<<>>, server.mounted) = SizesIn({Size[v] : v \in server.mounted})
  BY <1>1, <1>3
<1> QED
  BY <1>4, <1>5, <1>6, <1>7 DEF Readings!StorageCountsOnce, Disks, Readings!MapThenSumSet, Readings!MapThenFoldSet

\* What a sample says of the volumes.
Samples == [Readings!Volumes -> (0 .. MaxWork) \cup {None}]

\* The variables of the panel.
ReadingsTypes ==
  /\ server \in [work : Readings!Counters, mounted : SUBSET Readings!Volumes]
  /\ extra \in [now : Readings!Counters, before : Readings!Counters, failed : BOOLEAN, fails : BOOLEAN]
  /\ view.total \in Nat /\ view.rate \in [Readings!Volumes -> Nat] /\ view.storage \in Nat
  /\ view.sample # None => view.sample.total \in Nat /\ view.sample.of \in Samples

\* The inductive invariant of the panel: counters grow; a sample is that of the
\* last snapshot when no reading failed then, and the rates are what the
\* counters grew by when none failed at the last two.
ReadingsInv ==
  /\ ReadingsTypes
  /\ \A d \in Devices : extra.before[d] <= extra.now[d] /\ extra.now[d] <= server.work[d]
  /\ ~extra.fails /\ view.sample # None =>
       /\ view.sample.total = Sum(extra.now, Devices)
       /\ \A v \in Readings!Volumes :
            view.sample.of[v] = None \/ \E d \in Matches[v] : view.sample.of[v] = extra.now[d]
  /\ ~extra.failed =>
       /\ view.total <= SumOfWork(extra.now, extra.before, Devices)
       /\ \A v \in Readings!Volumes, d \in Devices :
            Matches[v] = {d} => view.rate[v] <= extra.now[d] - extra.before[d]

\* The invariant implies the types and the properties of the panel.
LEMMA ReadingsMean ==
  ReadingsInv => Readings!TypeOK /\ Readings!RatesAreWork /\ Readings!StorageCountsOnce
<1> SUFFICES ASSUME ReadingsInv PROVE Readings!TypeOK /\ Readings!RatesAreWork /\ Readings!StorageCountsOnce
  OBVIOUS
<1>1. ReadingsTypes
  BY DEF ReadingsInv
<1>2. Readings!TypeOK
  BY <1>1 DEF ReadingsTypes, Samples, Readings!TypeOK
<1>3. server.mounted \in SUBSET Readings!Volumes
  BY <1>1 DEF ReadingsTypes
<1>4. Readings!StorageCountsOnce
  BY <1>3, CountsOnce
<1>5. Readings!RatesAreWork
  <2> SUFFICES ASSUME ~extra.failed PROVE Readings!RatesAreWork
    BY DEF Readings!RatesAreWork
  <2>1. view.total <= Readings!MapThenSumSet(Readings!Worked, Devices)
    BY WorkedIs DEF ReadingsInv
  <2>2. \A v \in Readings!Volumes, d \in Devices :
          Matches[v] = {d} => view.rate[v] <= Readings!Worked(d)
    BY DEF ReadingsInv, Readings!Worked
  <2> QED
    BY <2>1, <2>2 DEF Readings!RatesAreWork
<1> QED
  BY <1>2, <1>4, <1>5

\* The sample of a snapshot whose readings did not fail.
LEMMA TotalIsSum ==
  ASSUME NEW w \in Readings!Counters, NEW of \in Samples,
         \A v \in Readings!Volumes : of[v] = None \/ \E d \in Devices : of[v] = w[d]
  PROVE  Readings!Totals(Sum(w, Devices), of) = Sum(w, Devices) /\ Sum(w, Devices) \in Nat
<1>1. \A d \in Devices : w[d] \in Nat
  BY ReadingsGiven DEF Readings!Counters
<1>2. Sum(w, Devices) \in Nat
  BY <1>1, ReadingsGiven, SumIsNumber
<1>3. CASE Sum(w, Devices) # 0
  BY <1>2, <1>3, Totalled
<1>4. CASE Sum(w, Devices) = 0
  <2>1. \A d \in Devices : w[d] = 0
    <3> SUFFICES ASSUME NEW d \in Devices PROVE w[d] = 0
      OBVIOUS
    <3>1. w[d] <= Sum(w, Devices)
      BY <1>1, ReadingsGiven, SumIsMore
    <3> QED
      BY <1>1, <1>4, <3>1
  <2>2. IsFiniteSet(Readings!Seen(of)) /\ Readings!Seen(of) \in SUBSET Readings!Volumes
    BY VolumesAre, FS_Subset DEF Readings!Seen
  <2>3. \A v \in Readings!Seen(of) : of[v] = 0
    BY <2>1 DEF Readings!Seen
  <2>4. Sum(of, Readings!Seen(of)) = 0
    BY <2>2, <2>3, SumOfNoughts
  <2>5. Readings!Totals(Sum(w, Devices), of) = Sum(of, Readings!Seen(of))
    BY <1>4, Totalled
  <2> QED
    BY <1>4, <2>4, <2>5
<1> QED
  BY <1>3, <1>4

\* Whatever was read, a total is a number.
LEMMA TotalIsNumber ==
  ASSUME NEW summary \in Nat, NEW of \in Samples
  PROVE  Readings!Totals(summary, of) \in Nat
<1>1. IsFiniteSet(Readings!Seen(of)) /\ Readings!Seen(of) \in SUBSET Readings!Volumes
  BY VolumesAre, FS_Subset DEF Readings!Seen
<1>2. \A v \in Readings!Seen(of) : of[v] \in Nat
  BY ReadingsGiven DEF Readings!Seen, Samples
<1>3. Sum(of, Readings!Seen(of)) \in Nat
  BY <1>1, <1>2, SumIsNumber
<1> QED
  BY <1>3, Totalled

\* What was summed up is a number, and the sum of the counters unless it failed.
LEMMA SummaryIs ==
  ASSUME NEW w \in Readings!Counters, server.work = w, NEW ok \in BOOLEAN
  PROVE  Readings!Summary(ok) \in Nat /\ (ok => Readings!Summary(ok) = Sum(w, Devices))
<1>1. \A d \in Devices : w[d] \in Nat
  BY ReadingsGiven DEF Readings!Counters
<1>2. Sum(w, Devices) \in Nat
  BY <1>1, ReadingsGiven, SumIsNumber
<1>3. Sum(server.work, Devices) = Sum(w, Devices)
  OBVIOUS
<1>4. ok => Readings!Summary(ok) = Sum(server.work, Devices)
  BY DEF Readings!Summary, Sum, Readings!MapThenSumSet, Readings!MapThenFoldSet
<1>5. ~ok => Readings!Summary(ok) = 0
  BY DEF Readings!Summary
<1> QED
  BY <1>2, <1>3, <1>4, <1>5

\* Rates are numbers.
LEMMA GrownIs ==
  ASSUME NEW a \in Nat, NEW b \in Nat
  PROVE  Readings!Grown(a, b) \in Nat /\ (a <= b => Readings!Grown(a, b) = b - a)
BY DEF Readings!Grown

\* What is worked out of two samples.
LEMMA RatesAre ==
  ASSUME NEW old, NEW of \in Samples, old # None => old.of \in Samples
  PROVE  /\ Readings!Rates(old, of) \in [Readings!Volumes -> Nat]
         /\ \A v \in Readings!Volumes :
              \/ Readings!Rates(old, of)[v] = 0
              \/ /\ old # None /\ of[v] # None /\ old.of[v] # None
                 /\ Readings!Rates(old, of)[v] = Readings!Grown(old.of[v], of[v])
                 /\ of[v] \in Nat /\ old.of[v] \in Nat
<1> DEFINE r == Readings!Rates(old, of)
<1>1. r = [v \in Readings!Volumes |->
            IF old # None /\ of[v] # None /\ old.of[v] # None THEN Readings!Grown(old.of[v], of[v]) ELSE 0]
  BY DEF Readings!Rates
<1> HIDE DEF r
<1>2. \A v \in Readings!Volumes :
        \/ r[v] = 0
        \/ /\ old # None /\ of[v] # None /\ old.of[v] # None
           /\ r[v] = Readings!Grown(old.of[v], of[v])
           /\ of[v] \in Nat /\ old.of[v] \in Nat
  <2> SUFFICES ASSUME NEW v \in Readings!Volumes, old # None, of[v] # None, old.of[v] # None
               PROVE  /\ r[v] = Readings!Grown(old.of[v], of[v])
                      /\ of[v] \in Nat /\ old.of[v] \in Nat
    BY <1>1
  <2>1. of[v] \in 0 .. MaxWork /\ old.of[v] \in 0 .. MaxWork
    BY DEF Samples
  <2> QED
    BY <1>1, <2>1, ReadingsGiven
<1>3. \A v \in Readings!Volumes : r[v] \in Nat
  BY <1>2, GrownIs
<1>4. r \in [Readings!Volumes -> Nat]
  BY <1>1, <1>3
<1> QED
  BY <1>2, <1>4 DEF r

\* Rates that are told after a snapshot w, when none of the last two failed.
LEMMA GrownByWork ==
  ASSUME NEW now \in Readings!Counters, NEW w \in Readings!Counters, \A d \in Devices : now[d] <= w[d]
  PROVE  /\ Sum(now, Devices) \in Nat /\ Sum(w, Devices) \in Nat /\ SumOfWork(w, now, Devices) \in Nat
         /\ Readings!Grown(Sum(now, Devices), Sum(w, Devices)) = SumOfWork(w, now, Devices)
<1>1. \A d \in Devices : w[d] \in Nat /\ now[d] \in Nat
  BY ReadingsGiven DEF Readings!Counters
<1>2. Sum(now, Devices) \in Nat /\ Sum(w, Devices) \in Nat
  BY <1>1, ReadingsGiven, SumIsNumber
<1>3. SumOfWork(w, now, Devices) \in Nat /\ Sum(w, Devices) = Sum(now, Devices) + SumOfWork(w, now, Devices)
  BY <1>1, ReadingsGiven, SumGrows
<1> QED
  BY <1>2, <1>3, GrownIs

\* A snapshot.
LEMMA SnapshotKeeps == ReadingsInv /\ Readings!Snapshot => ReadingsInv'
<1> SUFFICES ASSUME ReadingsInv, Readings!Snapshot PROVE ReadingsInv'
  OBVIOUS
<1>0. ReadingsTypes
  BY DEF ReadingsInv
<1>1. PICK summed \in BOOLEAN, counted \in BOOLEAN, hardware \in {<<>>, Hardware},
           device \in {f \in [Readings!Volumes -> Devices] : \A v \in Readings!Volumes : f[v] \in Matches[v]} :
        LET of == [v \in Readings!Volumes |-> Readings!Volume(v, device[v], counted)]
            total == Readings!Totals(Readings!Summary(summed), of)
            old == view.sample
        IN  /\ view' = [sample |-> Readings!Sample(old, total, of),
                        total |-> IF old = None THEN 0 ELSE Readings!Grown(old.total, total),
                        rate |-> Readings!Rates(old, of),
                        storage |-> Readings!Storage(hardware, server.mounted),
                        serial |-> Readings!Serial(hardware)]
            /\ extra' = [now |-> server.work, before |-> extra.now,
                         failed |-> extra.fails \/ ~summed \/ ~counted, fails |-> ~summed \/ ~counted]
            /\ UNCHANGED server
  BY DEF Readings!Snapshot
<1>2. PICK w \in Readings!Counters : w = server.work
  BY <1>0 DEF ReadingsTypes
<1>3. PICK now \in Readings!Counters : now = extra.now
  BY <1>0 DEF ReadingsTypes
<1>4. PICK old : old = view.sample
  OBVIOUS
<1>5. PICK mounted \in SUBSET Readings!Volumes : mounted = server.mounted
  BY <1>0 DEF ReadingsTypes
<1>6. \A v \in Readings!Volumes, d \in Devices, ok \in BOOLEAN :
        Readings!Volume(v, d, ok) = IF v \notin mounted THEN None ELSE IF ok THEN w[d] ELSE 0
  BY <1>2, <1>5 DEF Readings!Volume
<1>7. \A d \in Devices : now[d] <= w[d] /\ now[d] \in Nat /\ w[d] \in 0 .. MaxWork
  BY <1>2, <1>3, ReadingsGiven DEF ReadingsInv, Readings!Counters
<1>8. device \in [Readings!Volumes -> Devices] /\ \A v \in Readings!Volumes : device[v] \in Matches[v]
  OBVIOUS
<1> DEFINE of == [v \in Readings!Volumes |-> Readings!Volume(v, device[v], counted)]
<1>9. \A v \in Readings!Volumes : of[v] = IF v \notin mounted THEN None ELSE IF counted THEN w[device[v]] ELSE 0
  BY <1>6, <1>8
<1>10. of \in Samples
  <2>1. \A v \in Readings!Volumes : of[v] \in (0 .. MaxWork) \cup {None}
    <3> HIDE DEF of
    <3> QED
      BY <1>7, <1>8, <1>9, ReadingsGiven
  <2> QED
    BY <2>1 DEF Samples
<1> DEFINE total == Readings!Totals(Readings!Summary(summed), of)
<1>11. view' = [sample |-> [total |-> total, of |-> of],
                total |-> IF old = None THEN 0 ELSE Readings!Grown(old.total, total),
                rate |-> Readings!Rates(old, of),
                storage |-> Readings!Storage(hardware, mounted),
                serial |-> Readings!Serial(hardware)]
  BY <1>1, <1>4, <1>5 DEF Readings!Sample
<1>12. extra' = [now |-> w, before |-> now, failed |-> extra.fails \/ ~summed \/ ~counted,
                 fails |-> ~summed \/ ~counted]
  BY <1>1, <1>2, <1>3
<1>13. PICK c \in Samples : c = of
  BY <1>10
<1>14. \A v \in Readings!Volumes : c[v] = IF v \notin mounted THEN None ELSE IF counted THEN w[device[v]] ELSE 0
  BY <1>9, <1>13
<1>15. PICK s \in Nat : s = Readings!Summary(summed) /\ (summed => s = Sum(w, Devices))
  BY <1>2, SummaryIs
<1>16. total = Readings!Totals(s, c)
  BY <1>13, <1>15
<1> HIDE DEF of
<1>17. PICK t \in Nat : t = total /\ t = Readings!Totals(s, c)
  BY <1>16, TotalIsNumber
<1> HIDE DEF total
<1>18. summed /\ counted => t = Sum(w, Devices)
  <2> SUFFICES ASSUME summed, counted PROVE t = Sum(w, Devices)
    OBVIOUS
  <2>1. \A v \in Readings!Volumes : c[v] = None \/ \E d \in Devices : c[v] = w[d]
    BY <1>8, <1>14
  <2> QED
    BY <1>15, <1>17, <2>1, TotalIsSum
<1>19. old # None => old.total \in Nat /\ old.of \in Samples
  BY <1>0, <1>4 DEF ReadingsTypes
<1>20. PICK r \in [Readings!Volumes -> Nat] : r = Readings!Rates(old, c)
  BY <1>19, RatesAre
<1>21. PICK g \in Nat : g = IF old = None THEN 0 ELSE Readings!Grown(old.total, t)
  BY <1>19, GrownIs
<1>22. PICK m \in Nat : m = Readings!Storage(hardware, mounted)
  <2>1. CASE hardware = Hardware
    BY <2>1, StorageOfHardware
  <2>2. CASE hardware = <<>>
    BY <2>2, StorageOfVolumes
  <2> QED
    BY <2>1, <2>2
<1>23. view' = [sample |-> [total |-> t, of |-> c], total |-> g, rate |-> r, storage |-> m,
                serial |-> Readings!Serial(hardware)]
  BY <1>11, <1>13, <1>17, <1>20, <1>21, <1>22
<1>24. /\ extra'.now = w /\ extra'.before = now
       /\ extra'.fails = (~summed \/ ~counted) /\ extra'.failed = (extra.fails \/ ~summed \/ ~counted)
  BY <1>12
<1>25. /\ view'.total = g /\ view'.rate = r /\ view'.storage = m
       /\ view'.sample = [total |-> t, of |-> c] /\ view'.sample.total = t /\ view'.sample.of = c
  BY <1>23
<1>26. ReadingsTypes'
  <2>1. server' \in [work : Readings!Counters, mounted : SUBSET Readings!Volumes]
    BY <1>0, <1>1 DEF ReadingsTypes
  <2>2. extra' \in [now : Readings!Counters, before : Readings!Counters, failed : BOOLEAN, fails : BOOLEAN]
    <3> DEFINE failed == extra.fails \/ ~summed \/ ~counted
    <3> DEFINE fails == ~summed \/ ~counted
    <3>1. failed \in BOOLEAN /\ fails \in BOOLEAN
      OBVIOUS
    <3>2. extra' = [now |-> w, before |-> now, failed |-> failed, fails |-> fails]
      BY <1>12
    <3> HIDE DEF failed, fails
    <3> QED
      BY <3>1, <3>2
  <2> QED
    BY <1>25, <2>1, <2>2 DEF ReadingsTypes
<1>27. \A d \in Devices : extra'.before[d] <= extra'.now[d] /\ extra'.now[d] <= server'.work[d]
  <2>1. server'.work = w
    BY <1>1, <1>2
  <2> QED
    BY <1>7, <1>24, <2>1
<1>28. ~extra'.fails => t = Sum(extra'.now, Devices)
  BY <1>18, <1>24
<1>29. ~extra'.fails => \A v \in Readings!Volumes : c[v] = None \/ \E d \in Matches[v] : c[v] = extra'.now[d]
  BY <1>8, <1>14, <1>24
<1>30. ASSUME ~extra'.failed
       PROVE  /\ g <= SumOfWork(w, now, Devices)
              /\ \A v \in Readings!Volumes, d \in Devices : Matches[v] = {d} => r[v] <= w[d] - now[d]
  <2>1. summed /\ counted /\ ~extra.fails
    BY <1>24, <1>30
  <2>2. old # None => /\ old.total = Sum(now, Devices)
                      /\ \A v \in Readings!Volumes : old.of[v] = None \/ \E d \in Matches[v] : old.of[v] = now[d]
    BY <1>3, <1>4, <2>1 DEF ReadingsInv
  <2>3. /\ Sum(now, Devices) \in Nat /\ Sum(w, Devices) \in Nat /\ SumOfWork(w, now, Devices) \in Nat
        /\ Readings!Grown(Sum(now, Devices), Sum(w, Devices)) = SumOfWork(w, now, Devices)
    BY <1>7, GrownByWork
  <2>4. g <= SumOfWork(w, now, Devices)
    <3>1. old = None => g = 0
      BY <1>21
    <3>2. old # None => g = SumOfWork(w, now, Devices)
      BY <1>18, <1>21, <2>1, <2>2, <2>3
    <3> QED
      BY <2>3, <3>1, <3>2
  <2>5. ASSUME NEW v \in Readings!Volumes, NEW d \in Devices, Matches[v] = {d}
        PROVE  r[v] <= w[d] - now[d]
    <3>1. \/ r[v] = 0
          \/ /\ old # None /\ c[v] # None /\ old.of[v] # None
             /\ r[v] = Readings!Grown(old.of[v], c[v]) /\ c[v] \in Nat /\ old.of[v] \in Nat
      BY <1>19, <1>20, RatesAre
    <3>2. now[d] <= w[d] /\ now[d] \in Nat /\ w[d] \in Nat
      BY <1>7, ReadingsGiven
    <3>3. CASE r[v] = 0
      BY <3>2, <3>3
    <3>4. CASE /\ old # None /\ c[v] # None /\ old.of[v] # None
               /\ r[v] = Readings!Grown(old.of[v], c[v])
      <4>1. device[v] = d
        BY <1>8, <2>5
      <4>2. c[v] = w[d]
        BY <1>14, <2>1, <3>4, <4>1
      <4>3. old.of[v] = now[d]
        BY <2>2, <2>5, <3>4
      <4>4. r[v] = Readings!Grown(now[d], w[d])
        BY <3>4, <4>2, <4>3
      <4>5. Readings!Grown(now[d], w[d]) = w[d] - now[d]
        BY <3>2, GrownIs
      <4> QED
        BY <3>2, <4>4, <4>5
    <3> QED
      BY <3>1, <3>3, <3>4
  <2> QED
    BY <2>4, <2>5
<1> QED
  BY <1>24, <1>25, <1>26, <1>27, <1>28, <1>29, <1>30 DEF ReadingsInv

\* A device works.
LEMMA WorkKeeps == ASSUME ReadingsInv, NEW d \in Devices, Readings!Work(d) PROVE ReadingsInv'
<1>0. ReadingsTypes
  BY DEF ReadingsInv
<1>1. PICK w \in Readings!Counters : w = server.work
  BY <1>0 DEF ReadingsTypes
<1>2. /\ w[d] < MaxWork /\ w[d] \in Nat
      /\ server' = [server EXCEPT !.work[d] = @ + 1] /\ UNCHANGED <<view, extra>>
  BY <1>1, ReadingsGiven DEF Readings!Work, Readings!Counters
<1> DEFINE more == [w EXCEPT ![d] = @ + 1]
<1>3. more \in Readings!Counters
  BY <1>2, ReadingsGiven DEF Readings!Counters
<1>4. \A e \in Devices : w[e] \in Nat /\ more[e] \in Nat /\ w[e] <= more[e]
  BY <1>2, ReadingsGiven DEF Readings!Counters
<1>5. server'.work = more /\ server'.mounted = server.mounted
      /\ server' \in [work : Readings!Counters, mounted : SUBSET Readings!Volumes]
  BY <1>0, <1>1, <1>2, <1>3 DEF ReadingsTypes
<1> HIDE DEF more
<1>6. ReadingsTypes'
  BY <1>0, <1>2, <1>5 DEF ReadingsTypes
<1>7. \A e \in Devices : extra'.before[e] <= extra'.now[e] /\ extra'.now[e] <= server'.work[e]
  <2>1. \A e \in Devices : extra.before[e] <= extra.now[e] /\ extra.now[e] <= w[e] /\ extra.now[e] \in Nat
    BY <1>0, <1>1, ReadingsGiven DEF ReadingsInv, ReadingsTypes, Readings!Counters
  <2>2. extra'.before = extra.before /\ extra'.now = extra.now /\ server'.work = more
    BY <1>2, <1>5
  <2>3. \A e \in Devices : extra.before[e] <= extra.now[e] /\ extra.now[e] <= more[e]
    BY <1>4, <2>1
  <2> QED
    BY <2>2, <2>3
<1> QED
  BY <1>2, <1>6, <1>7 DEF ReadingsInv

\* A volume is mounted or goes.
LEMMA MountKeeps == ASSUME ReadingsInv, NEW v \in Readings!Volumes, Readings!Mount(v) PROVE ReadingsInv'
<1>0. ReadingsTypes
  BY DEF ReadingsInv
<1>1. server' = [server EXCEPT !.mounted = IF v \in @ THEN @ \ {v} ELSE @ \cup {v}] /\ UNCHANGED <<view, extra>>
  BY DEF Readings!Mount
<1>2. server'.work = server.work /\ server' \in [work : Readings!Counters, mounted : SUBSET Readings!Volumes]
  BY <1>0, <1>1 DEF ReadingsTypes
<1>3. ReadingsTypes'
  BY <1>0, <1>1, <1>2 DEF ReadingsTypes
<1> QED
  BY <1>1, <1>2, <1>3 DEF ReadingsInv

\* Every step of the panel keeps its invariant.
LEMMA ReadingsSteps == ReadingsInv /\ Readings!Next => ReadingsInv'
BY SnapshotKeeps, WorkKeeps, MountKeeps DEF Readings!Next

\* The invariant holds when the panel is opened.
LEMMA ReadingsStart == Readings!Init => ReadingsInv
<1> SUFFICES ASSUME Readings!Init PROVE ReadingsInv
  OBVIOUS
<1> DEFINE noughts == [d \in Devices |-> 0]
<1>1. noughts \in Readings!Counters /\ \A d \in Devices : noughts[d] = 0
  BY ReadingsGiven DEF Readings!Counters
<1>2. server \in [work : {noughts}, mounted : SUBSET Readings!Volumes]
  BY DEF Readings!Init
<1> HIDE DEF noughts
<1>3. server.work = noughts /\ server \in [work : Readings!Counters, mounted : SUBSET Readings!Volumes]
  BY <1>1, <1>2
<1>4. extra = [now |-> noughts, before |-> noughts, failed |-> FALSE, fails |-> FALSE]
  BY <1>3 DEF Readings!Init
<1>5. /\ view.sample = None /\ view.total = 0 /\ view.storage = 0
      /\ view.rate = [v \in Readings!Volumes |-> 0]
  BY DEF Readings!Init
<1>6. ReadingsTypes
  BY <1>1, <1>3, <1>4, <1>5 DEF ReadingsTypes
<1>7. extra.now = noughts /\ extra.before = noughts
  BY <1>4
<1>8. SumOfWork(noughts, noughts, Devices) \in Nat
  <2>1. \A d \in Devices : noughts[d] \in Nat /\ noughts[d] <= noughts[d]
    BY <1>1
  <2> QED
    BY <2>1, ReadingsGiven, SumGrows
<1>9. \A v \in Readings!Volumes : view.rate[v] = 0
  BY <1>5
<1>10. view.total <= SumOfWork(extra.now, extra.before, Devices)
  BY <1>5, <1>7, <1>8
<1>11. \A d \in Devices : extra.before[d] <= extra.now[d] /\ extra.now[d] <= server.work[d]
  BY <1>1, <1>3, <1>7
<1>12. \A v \in Readings!Volumes, d \in Devices :
         Matches[v] = {d} => view.rate[v] <= extra.now[d] - extra.before[d]
  BY <1>1, <1>7, <1>9
<1> QED
  BY <1>5, <1>6, <1>10, <1>11, <1>12 DEF ReadingsInv

-----------------------------------------------------------------------------
(* The page: the invariant of the panel in focus.                          *)

\* The inductive invariant of the page.
PageInv ==
  /\ focus = "tables" => TablesInv
  /\ focus = "dialogs" => DialogsInv
  /\ focus = "logs" => LogsInv
  /\ focus = "flows" => FlowsInv
  /\ focus = "apps" => AppsInv
  /\ focus = "remote" => RemoteInv
  /\ focus = "keyboard" => KeysInv
  /\ focus = "ssh" => SshInv
  /\ focus = "monitor" => MonitorInv
  /\ focus = "chart" => ChartInv
  /\ focus = "readings" => ReadingsInv

\* A page that does nothing keeps the invariant of its panel.
LEMMA PageRests == PageInv /\ UNCHANGED vars => PageInv'
<1> SUFFICES ASSUME PageInv, UNCHANGED vars PROVE PageInv'
  OBVIOUS
<1>1. view' = view /\ flight' = flight /\ server' = server /\ extra' = extra /\ focus' = focus
  BY DEF vars
<1>2. TablesInv => TablesInv'
  BY <1>1 DEF TablesInv
<1>3. DialogsInv => DialogsInv'
  BY <1>1 DEF DialogsInv
<1>4. LogsInv => LogsInv'
  BY <1>1 DEF LogsInv
<1>5. FlowsInv => FlowsInv'
  BY <1>1 DEF FlowsInv
<1>6. AppsInv => AppsInv'
  BY <1>1 DEF AppsInv
<1>7. RemoteInv => RemoteInv'
  BY <1>1 DEF RemoteInv
<1>8. KeysInv => KeysInv'
  BY <1>1 DEF KeysInv, Keyboard!Sent, Keyboard!Leaves, Keyboard!Toggles, Keyboard!Goes
<1>9. SshInv => SshInv'
  BY <1>1 DEF SshInv
<1>10. MonitorInv => MonitorInv'
  BY <1>1 DEF MonitorInv
<1>11. ChartInv => ChartInv'
  BY <1>1 DEF ChartInv
<1>12. ReadingsInv => ReadingsInv'
  BY <1>1 DEF ReadingsInv, ReadingsTypes
<1> QED
  BY <1>1, <1>2, <1>3, <1>4, <1>5, <1>6, <1>7, <1>8, <1>9, <1>10, <1>11, <1>12 DEF PageInv

\* Every step of the page is one of the panel in focus.
LEMMA PageSteps == PageInv /\ [Next]_vars => PageInv'
<1> SUFFICES ASSUME PageInv, Next PROVE PageInv'
  BY PageRests
<1>1. CASE In("tables") /\ Tables!Next
  BY <1>1, TablesSteps DEF In, PageInv
<1>2. CASE In("dialogs") /\ Dialogs!Next
  BY <1>2, DialogsSteps DEF In, PageInv
<1>3. CASE In("logs") /\ Logs!Next
  BY <1>3, LogsSteps DEF In, PageInv
<1>4. CASE In("flows") /\ Flows!Next
  BY <1>4, FlowsSteps DEF In, PageInv
<1>5. CASE In("apps") /\ Apps!Next
  BY <1>5, AppsSteps DEF In, PageInv
<1>6. CASE In("remote") /\ Remote!Next
  BY <1>6, RemoteSteps DEF In, PageInv
<1>7. CASE In("keyboard") /\ Keyboard!Next
  BY <1>7, KeysSteps DEF In, PageInv
<1>8. CASE In("ssh") /\ Ssh!Next
  BY <1>8, SshSteps DEF In, PageInv
<1>9. CASE In("monitor") /\ Monitor!Next
  BY <1>9, MonitorSteps DEF In, PageInv
<1>10. CASE In("chart") /\ Chart!Next
  BY <1>10, ChartSteps DEF In, PageInv
<1>11. CASE In("readings") /\ Readings!Next
  BY <1>11, ReadingsSteps DEF In, PageInv
<1>12. CASE focus' \in {"frame", "scripts", "backups", "copying", "parts"}
  BY <1>12 DEF PageInv
<1> QED
  BY <1>1, <1>2, <1>3, <1>4, <1>5, <1>6, <1>7, <1>8, <1>9, <1>10, <1>11, <1>12 DEF Next, In

\* Whatever panel is opened, its invariant holds at first.
LEMMA PageStarts == Init => PageInv
BY TablesStart, DialogsStart, LogsStart, FlowsStart, AppsStart, RemoteStart, KeysStart, SshStart, MonitorStart, ChartStart, ReadingsStart DEF Init, PageInv

\* The invariant of the page, in every state of every behaviour.
THEOREM Invariant == Spec => []PageInv
BY PageStarts, PageSteps, PTL DEF Spec

\* For any sets of containers and images, any size of a page and any search:
\* a batch action on containers reaches only rows that are on the screen
THEOREM TablesAct == Spec => []TablesShowWhatTheyAct
<1>1. PageInv => TablesShowWhatTheyAct
  BY TablesMean DEF PageInv, TablesShowWhatTheyAct
<1> QED
  BY <1>1, Invariant, PTL

\* For any cards, filters and containers: the loop runs for the card that is
\* shown, nothing is polled behind a closed window and nothing removed unasked.
THEOREM LoopsFollow == Spec => []LoopsFollowThePage
<1>1. PageInv => LoopsFollowThePage
  BY LogsMean, DialogsMean DEF PageInv, LoopsFollowThePage
<1> QED
  BY <1>1, Invariant, PTL

\* For any connections of any protocols: one that is shown can be opened, and
\* the flag that holds refreshes back goes off again.
THEOREM FlowsReachable == Spec => []FlowsAreReachable
<1>1. PageInv => FlowsAreReachable
  BY FlowsMean DEF PageInv, FlowsAreReachable
<1> QED
  BY <1>1, Invariant, PTL

\* For any names and any number of requests: detail and buttons are those of
\* the selected application.
THEOREM AppsShow == Spec => []AppsShowTheSelected
<1>1. PageInv => AppsShowTheSelected
  BY AppsMean DEF PageInv, AppsShowTheSelected
<1> QED
  BY <1>1, Invariant, PTL

\* For any number of sockets and any keyboard: the terminals have one live
\* socket each and say what is the case, and no key stays pressed.
THEOREM TerminalsSay == Spec => []TerminalsSayWhatIs
<1>1. PageInv => TerminalsSayWhatIs
  BY RemoteMean, KeysMean, SshMean DEF PageInv, TerminalsSayWhatIs
<1> QED
  BY <1>1, Invariant, PTL

\* For any snapshots, any counters and any disks, in whatever order answers
\* arrive: rates, trend, window and process table are those of the snapshots,
\* a chart stays where it was scrolled to and no disk counts twice.
THEOREM MonitorShows == Spec => []MonitorShowsWhatWas
<1>1. PageInv => MonitorShowsWhatWas
  BY MonitorMean, ChartMean, ReadingsMean DEF PageInv, MonitorShowsWhatWas
<1> QED
  BY <1>1, Invariant, PTL
=============================================================================
