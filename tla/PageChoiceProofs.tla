-------------------------- MODULE PageChoiceProofs --------------------------
(***************************************************************************)
(* The frame of the page, its scripts and backups, and the small parts     *)
(* that every section uses, for every value of their constants: what the   *)
(* user has chosen outlasts what arrives later.  With the panels of        *)
(* PageProofs, whose lemmas have names of the same form, these are all.    *)
(***************************************************************************)
EXTENDS PageProofs

-----------------------------------------------------------------------------
(* The frame: menu, sections, login, start and configuration.              *)

\* What the panel is given.
LEMMA FrameGiven ==
  /\ Sections \in Seq(Frame!All) /\ Sections # <<>> /\ Sections[1] # "traffic"
  /\ "system" \in Frame!All
  /\ BootSteps \in Seq({"config", "panel"}) /\ BootSteps # <<>>
  /\ None \notin Starts /\ None \notin BOOLEAN
  /\ MaxFrameChanges \in Nat
BY PageAssumption

\* What a slot of the panel may hold.
FrameRequests ==
  {Frame!Unused}
  \cup [ask : {"config"}, by : Starts \cup {None}, got : {"nothing", "ok", "denied"}, hides : Frame!CanHide]
  \cup [ask : {"save"}, by : {None}, got : {"nothing", "ok", "refused"}, hides : Frame!CanHide]

\* Menu, section and timer belong together.
MenuInv(f) ==
  /\ f.panel \in f.active
  /\ f.panel \in f.off => \E b \in f.active : b \notin f.off \cup {f.panel}
  /\ f.blank => \E b \in f.active : b # f.panel
  /\ f.polls <=> f.panel = "traffic"

\* Whoever is not logged in sees the login, and who sees no overlay has the started page.
LoginInv(f) ==
  /\ f.auth = FALSE <=> f.login
  /\ f.booting => f.auth # FALSE /\ ~f.finished
  /\ ~f.booting /\ ~f.login => f.finished

\* One start runs at a time, and none after it has finished; it has done less than it is at.
StartInv(f) ==
  /\ f.done \in Nat
  /\ \A b \in Starts : f.starts[b].step > 0 => f.done < f.starts[b].step
  /\ \A b \in Starts : f.starts[b].step > 0 => f.running
  /\ \A b, c \in Starts : f.starts[b].step > 0 /\ f.starts[c].step > 0 => b = c
  /\ f.running => \E b \in Starts : f.starts[b].step > 0
  /\ f.finished => ~f.running

\* A frame whose parts agree.
FrameOf(f) == f \in Frame!Frame /\ MenuInv(f) /\ LoginInv(f) /\ StartInv(f)

\* A request for the configuration is the one of its step.
AsksOnce(f, fl) ==
  /\ \A s \in Slots : fl[s].ask = "config" /\ fl[s].by # None =>
       f.starts[fl[s].by].step > 0 /\ BootSteps[f.starts[fl[s].by].step] = "config"
  /\ \A s, t \in Slots : fl[s].ask = "config" /\ fl[t].ask = "config" /\ fl[s].by # None /\ fl[s].by = fl[t].by => s = t
  /\ \A s \in Slots : fl[s].ask = "save" => f.finished

\* What the answers under way, the page and the server have in common.
AgreeInv(f, fl, hides) ==
  /\ \A s \in Slots : fl[s].ask = "config" /\ fl[s].by # None /\ fl[s].got = "ok" => fl[s].hides = hides
  /\ \A s \in Slots : fl[s].ask = "save" /\ fl[s].got = "ok" => fl[s].hides = hides
  /\ \A s, t \in Slots : fl[s].ask = "save" /\ fl[t].ask = "save" => s = t
  /\ f.config # None /\ (\A s \in Slots : ~(fl[s].ask = "save" /\ fl[s].got = "ok")) => f.config = hides

\* The inductive invariant of the panel.
FrameInv ==
  /\ FrameOf(view)
  /\ flight \in [Slots -> FrameRequests]
  /\ server \in [session : BOOLEAN, hides : Frame!CanHide]
  /\ extra \in [changes : 0 .. MaxFrameChanges, agree : BOOLEAN]
  /\ AsksOnce(view, flight)
  /\ extra.agree => AgreeInv(view, flight, server.hides)

\* Cardinality is the same operator in the panel's module.
LEMMA FrameCount == \A S : Frame!Cardinality(S) = Cardinality(S)
BY DEF Frame!Cardinality, Cardinality

\* The sections are finitely many.
LEMMA SectionsCounted == \A S \in SUBSET Frame!All : IsFiniteSet(S)
<1>1. PICK n \in Nat : n = Len(Sections)
  BY FrameGiven
<1>2. IsFiniteSet(1 .. n)
  BY <1>1, FS_Interval
<1>3. Frame!All = {Sections[i] : i \in 1 .. n}
  BY FrameGiven, <1>1 DEF Frame!All, Frame!ToSet
<1> DEFINE at == [i \in 1 .. n |-> Sections[i]]
<1>4. at \in Surjection(1 .. n, Frame!All)
  BY <1>3 DEF Surjection
<1>5. IsFiniteSet(Frame!All)
  BY <1>2, <1>4, FS_Surjection
<1> QED
  BY <1>5, FS_Subset

\* The invariant implies the types and the properties of the panel.
LEMMA FrameMean ==
  FrameInv => /\ Frame!TypeOK
              /\ Frame!ShownIsAllowed /\ Frame!PollsWhileShown /\ Frame!MenuAgrees /\ Frame!LoginOrPage
<1> SUFFICES ASSUME FrameInv
             PROVE  /\ Frame!TypeOK
                    /\ Frame!ShownIsAllowed /\ Frame!PollsWhileShown /\ Frame!MenuAgrees /\ Frame!LoginOrPage
  OBVIOUS
<1>0. view \in Frame!Frame /\ MenuInv(view) /\ LoginInv(view) /\ StartInv(view)
  BY DEF FrameInv, FrameOf
<1>1. Frame!TypeOK
  <2>1. Frame!Cardinality({b \in Starts : view.starts[b].step > 0}) = (IF view.running THEN 1 ELSE 0)
    <3>1. CASE view.running
      <4>1. PICK b \in Starts : view.starts[b].step > 0
        BY <1>0, <3>1 DEF StartInv
      <4>2. {c \in Starts : view.starts[c].step > 0} = {b}
        BY <1>0, <4>1 DEF StartInv
      <4> QED
        BY <3>1, <4>2, FrameCount, FS_Singleton
    <3>2. CASE ~view.running
      <4>1. {c \in Starts : view.starts[c].step > 0} = {}
        BY <1>0, <3>2 DEF StartInv
      <4> QED
        BY <3>2, <4>1, FrameCount, FS_EmptySet
    <3> QED
      BY <3>1, <3>2
  <2> QED
    BY <1>0, <2>1 DEF FrameInv, Frame!TypeOK
<1>2. Frame!ShownIsAllowed
  <2>1. view.blank => Frame!Cardinality(view.active) > 1
    <3> SUFFICES ASSUME view.blank PROVE Frame!Cardinality(view.active) > 1
      OBVIOUS
    <3>1. PICK b : b \in view.active /\ b # view.panel /\ view.panel \in view.active
      BY <1>0 DEF MenuInv
    <3>2. view.active \in SUBSET Frame!All
      BY <1>0 DEF Frame!Frame
    <3>3. IsFiniteSet(view.active)
      BY <3>2, SectionsCounted
    <3>4. IsFiniteSet({b}) /\ Cardinality({b}) = 1
      BY FS_Singleton
    <3>5. Cardinality({b} \cup {view.panel}) = Cardinality({b}) + 1
      BY <3>1, <3>4, FS_AddElement
    <3>6. Cardinality({b} \cup {view.panel}) <= Cardinality(view.active) /\ Cardinality(view.active) \in Nat
      BY <3>1, <3>3, FS_Subset, FS_CardinalityType
    <3> QED
      BY <3>4, <3>5, <3>6, FrameCount
  <2> QED
    BY <1>0, <2>1 DEF MenuInv, Frame!ShownIsAllowed
<1>3. Frame!PollsWhileShown
  BY <1>0 DEF MenuInv, Frame!PollsWhileShown
<1>4. Frame!MenuAgrees
  BY DEF FrameInv, AgreeInv, Frame!MenuAgrees, Frame!Awaits
<1>5. Frame!LoginOrPage
  BY <1>0 DEF LoginInv, Frame!LoginOrPage
<1> QED
  BY <1>1, <1>2, <1>3, <1>4, <1>5

\* switchSection: the panel is shown, with its timer.
LEMMA SwitchKeeps ==
  ASSUME NEW f \in Frame!Frame, NEW section \in Frame!All, section \in f.active,
         section \in f.off => \E b \in f.active : b \notin f.off \cup {section},
         LoginInv(f), StartInv(f)
  PROVE  /\ FrameOf(Frame!Switch(f, section))
         /\ Frame!Switch(f, section).config = f.config /\ Frame!Switch(f, section).starts = f.starts
         /\ Frame!Switch(f, section).finished = f.finished
<1> DEFINE p == section = "traffic"
           d == [f EXCEPT !.panel = section, !.blank = FALSE, !.polls = p]
<1>1. p \in BOOLEAN /\ (p <=> section = "traffic")
  OBVIOUS
<1>2. Frame!Switch(f, section) = d
  BY DEF Frame!Switch, Frame!PollsIn
<1> HIDE DEF p
<1>3. d \in Frame!Frame
  BY <1>1 DEF Frame!Frame
<1>4. /\ d.panel = section /\ d.active = f.active /\ d.off = f.off /\ d.config = f.config
      /\ d.starts = f.starts /\ d.auth = f.auth /\ d.done = f.done
  BY <1>1 DEF Frame!Frame
<1>5. d.polls = p /\ d.blank = FALSE
  BY <1>1 DEF Frame!Frame
<1>6. /\ d.booting = f.booting /\ d.login = f.login /\ d.finished = f.finished /\ d.running = f.running
  BY <1>1 DEF Frame!Frame
<1> HIDE DEF d
<1>7. MenuInv(d)
  BY <1>1, <1>4, <1>5 DEF MenuInv
<1>8. LoginInv(d)
  BY <1>4, <1>6 DEF LoginInv
<1>9. StartInv(d)
  BY <1>4, <1>6 DEF StartInv
<1> QED
  BY <1>2, <1>3, <1>4, <1>6, <1>7, <1>8, <1>9 DEF FrameOf

\* The first section that is shown is one that is shown: the last is never hidden.
LEMMA FirstShownIsShown ==
  ASSUME NEW f \in Frame!Frame
  PROVE  Frame!FirstShown(f) \in Frame!All \ f.off
<1>1. PICK n \in Nat : n = Len(Sections) /\ DOMAIN Sections = 1 .. n
  BY FrameGiven
<1>2. Frame!All = {Sections[i] : i \in 1 .. n}
  BY FrameGiven, <1>1 DEF Frame!All, Frame!ToSet
<1>3. f.off \in Frame!CanHide
  BY DEF Frame!Frame
<1>4. "system" \notin f.off
  BY <1>3 DEF Frame!CanHide
<1> DEFINE S == {k \in 1 .. n : Sections[k] \notin f.off}
<1>5. S \in SUBSET Nat /\ S # {}
  <2>1. PICK i \in 1 .. n : Sections[i] = "system"
    BY <1>2, FrameGiven
  <2> QED
    BY <1>4, <2>1
<1>6. PICK k \in S : \A m \in S : k <= m
  BY <1>5, Smallest
<1>7. \A m \in 1 .. k - 1 : Sections[m] \in f.off
  BY <1>1, <1>6
<1>8. \E j \in 1 .. n : Sections[j] \notin f.off /\ \A m \in 1 .. j - 1 : Sections[m] \in f.off
  BY <1>6, <1>7
<1>9. PICK j \in 1 .. n : Frame!FirstShown(f) = Sections[j] /\ Sections[j] \notin f.off
  BY <1>1, <1>8 DEF Frame!FirstShown
<1> QED
  BY <1>2, <1>9

\* applySystemMenuVisibility.
LEMMA MenuKeeps ==
  ASSUME NEW f, FrameOf(f), NEW hides \in Frame!CanHide
  PROVE  /\ FrameOf(Frame!Menu(f, hides))
         /\ Frame!Menu(f, hides).config = hides /\ Frame!Menu(f, hides).starts = f.starts
         /\ Frame!Menu(f, hides).finished = f.finished
<1>0. f \in Frame!Frame /\ MenuInv(f) /\ LoginInv(f) /\ StartInv(f)
  BY DEF FrameOf
<1> DEFINE b == f.blank \/ f.panel \in hides
           g == [f EXCEPT !.config = hides, !.off = hides, !.blank = b]
<1>1. b \in BOOLEAN /\ (b <=> f.blank \/ f.panel \in hides)
  BY <1>0 DEF Frame!Frame
<1>2. Frame!Menu(f, hides) = IF Frame!SomeMarked(g) THEN g ELSE Frame!FallBack(g, Frame!FirstShown(g))
  BY DEF Frame!Menu
<1> HIDE DEF b
<1>3. g \in Frame!Frame
  BY <1>0, <1>1 DEF Frame!Frame
<1>4. /\ g.panel = f.panel /\ g.active = f.active /\ g.off = hides /\ g.config = hides
      /\ g.starts = f.starts /\ g.auth = f.auth /\ g.done = f.done
  BY <1>0, <1>1 DEF Frame!Frame
<1>5. g.polls = f.polls /\ g.blank = b
  BY <1>0, <1>1 DEF Frame!Frame
<1>6. /\ g.booting = f.booting /\ g.login = f.login /\ g.finished = f.finished /\ g.running = f.running
  BY <1>0, <1>1 DEF Frame!Frame
<1> HIDE DEF g
<1>7. LoginInv(g)
  BY <1>0, <1>4, <1>6 DEF LoginInv
<1>8. StartInv(g)
  BY <1>0, <1>4, <1>6 DEF StartInv
<1>9. CASE Frame!SomeMarked(g)
  <2>1. PICK x \in f.active : x \notin hides
    BY <1>4, <1>9 DEF Frame!SomeMarked
  <2>2. MenuInv(g)
    BY <1>0, <1>1, <1>4, <1>5, <2>1 DEF MenuInv
  <2> QED
    BY <1>2, <1>3, <1>4, <1>6, <1>7, <1>8, <1>9, <2>2 DEF FrameOf
<1>10. CASE ~Frame!SomeMarked(g)
  <2>1. PICK section \in Frame!All \ g.off : section = Frame!FirstShown(g)
    BY <1>3, FirstShownIsShown
  <2> DEFINE h == [g EXCEPT !.active = @ \cup {section}]
  <2>2. h \in Frame!Frame
    BY <1>3 DEF Frame!Frame
  <2>3. /\ h.active = g.active \cup {section} /\ h.off = g.off /\ h.config = g.config
        /\ h.starts = g.starts /\ h.auth = g.auth /\ h.done = g.done
    BY <1>3 DEF Frame!Frame
  <2>4. /\ h.booting = g.booting /\ h.login = g.login /\ h.finished = g.finished /\ h.running = g.running
    BY <1>3 DEF Frame!Frame
  <2>5. Frame!Menu(f, hides) = Frame!Switch(h, section)
    BY <1>2, <1>10, <2>1 DEF Frame!FallBack
  <2> HIDE DEF h
  <2>6. LoginInv(h)
    BY <1>7, <2>3, <2>4 DEF LoginInv
  <2>7. StartInv(h)
    BY <1>8, <2>3, <2>4 DEF StartInv
  <2>8. section \in h.active /\ section \notin h.off
    BY <2>1, <2>3
  <2>9. /\ FrameOf(Frame!Switch(h, section)) /\ Frame!Switch(h, section).config = h.config
        /\ Frame!Switch(h, section).starts = h.starts /\ Frame!Switch(h, section).finished = h.finished
    BY <2>2, <2>6, <2>7, <2>8, SwitchKeeps
  <2> QED
    BY <1>4, <1>6, <2>3, <2>4, <2>5, <2>9
<1> QED
  BY <1>9, <1>10

\* Only the parts of the start and of the login change.
LEMMA SameMenu ==
  ASSUME NEW f, FrameOf(f), NEW g \in Frame!Frame,
         g.panel = f.panel, g.active = f.active, g.off = f.off, g.blank = f.blank, g.polls = f.polls
  PROVE  MenuInv(g)
BY DEF FrameOf, MenuInv

\* handleAuthRequired.
LEMMA LoggedOutKeeps ==
  ASSUME NEW f, FrameOf(f)
  PROVE  /\ FrameOf(Frame!LoggedOut(f))
         /\ Frame!LoggedOut(f).config = f.config /\ Frame!LoggedOut(f).starts = f.starts
         /\ Frame!LoggedOut(f).finished = f.finished
<1> DEFINE d == [f EXCEPT !.auth = FALSE, !.booting = FALSE, !.login = TRUE]
<1>0. f \in Frame!Frame /\ LoginInv(f) /\ StartInv(f)
  BY DEF FrameOf
<1>1. d \in Frame!Frame
  BY <1>0 DEF Frame!Frame
<1>2. d.panel = f.panel /\ d.active = f.active /\ d.off = f.off /\ d.config = f.config /\ d.starts = f.starts
      /\ d.done = f.done
  BY <1>0 DEF Frame!Frame
<1>3. d.blank = f.blank /\ d.polls = f.polls /\ d.finished = f.finished /\ d.running = f.running
  BY <1>0 DEF Frame!Frame
<1>4. d.login = TRUE /\ d.booting = FALSE
  BY <1>0 DEF Frame!Frame
<1>5. d.auth = FALSE
  BY <1>0 DEF Frame!Frame
<1>6. Frame!LoggedOut(f) = d
  BY DEF Frame!LoggedOut
<1> HIDE DEF d
<1>7. LoginInv(d)
  BY <1>4, <1>5 DEF LoginInv
<1>8. StartInv(d)
  BY <1>0, <1>2, <1>3 DEF StartInv
<1> QED
  BY <1>1, <1>2, <1>3, <1>6, <1>7, <1>8, SameMenu DEF FrameOf

\* bootstrap.
LEMMA BootstrapKeeps ==
  ASSUME NEW f, FrameOf(f)
  PROVE  /\ FrameOf(Frame!Bootstrap(f))
         /\ Frame!Bootstrap(f).config = f.config /\ Frame!Bootstrap(f).finished = f.finished
         /\ \A b \in Starts : f.starts[b].step > 0 => Frame!Bootstrap(f).starts[b] = f.starts[b]
<1>0. f \in Frame!Frame /\ LoginInv(f) /\ StartInv(f)
  BY DEF FrameOf
<1>1. CASE ~(Frame!MayStart(f) /\ \E b \in Starts : f.starts[b] = Frame!Resting)
  BY <1>1 DEF Frame!Bootstrap
<1>2. CASE Frame!MayStart(f) /\ \E b \in Starts : f.starts[b] = Frame!Resting
  <2>1. PICK b \in Starts : f.starts[b] = Frame!Resting
          /\ b = CHOOSE s \in Starts : f.starts[s] = Frame!Resting
    BY <1>2
  <2> DEFINE x == [Frame!Resting EXCEPT !.step = 1]
             d == [f EXCEPT !.running = TRUE, !.done = 0, !.starts[b] = x]
             starts == [f.starts EXCEPT ![b] = x]
  <2>2. Frame!Bootstrap(f) = d
    BY <1>2, <2>1 DEF Frame!Bootstrap
  <2>3. PICK n \in Nat \ {0} : n = Len(BootSteps)
    BY FrameGiven
  <2>4. x \in [step : 0 .. n, tries : 0 .. Frame!Retries, asleep : BOOLEAN] /\ x.step = 1
    <3>1. 0 \in 0 .. n /\ 1 \in 0 .. n /\ 0 \in 0 .. Frame!Retries
      BY <2>3 DEF Frame!Retries
    <3>2. Frame!Resting \in [step : 0 .. n, tries : 0 .. Frame!Retries, asleep : BOOLEAN]
      BY <3>1 DEF Frame!Resting
    <3> QED
      BY <3>1, <3>2
  <2> HIDE DEF x
  <2>5. f.starts \in [Starts -> [step : 0 .. n, tries : 0 .. Frame!Retries, asleep : BOOLEAN]]
    BY <1>0, <2>3 DEF Frame!Frame
  <2>6. /\ starts \in [Starts -> [step : 0 .. n, tries : 0 .. Frame!Retries, asleep : BOOLEAN]]
        /\ starts[b] = x /\ \A c \in Starts \ {b} : starts[c] = f.starts[c]
    BY <2>4, <2>5
  <2>7. d = [f EXCEPT !.running = TRUE, !.done = 0, !.starts = starts]
    BY <1>0 DEF Frame!Frame
  <2> HIDE DEF starts, d
  <2>8. d \in Frame!Frame
    <3>1. 0 \in 0 .. n
      BY <2>3
    <3> QED
      BY <1>0, <2>3, <2>6, <2>7, <3>1 DEF Frame!Frame
  <2>9. d.panel = f.panel /\ d.active = f.active /\ d.off = f.off /\ d.config = f.config /\ d.starts = starts
        /\ d.auth = f.auth /\ d.done = 0
    BY <1>0, <2>7 DEF Frame!Frame
  <2>10. d.blank = f.blank /\ d.polls = f.polls /\ d.finished = f.finished /\ d.login = f.login
         /\ d.booting = f.booting
    BY <1>0, <2>7 DEF Frame!Frame
  <2>11. d.running = TRUE
    BY <1>0, <2>7 DEF Frame!Frame
  <2>12. LoginInv(d)
    BY <1>0, <2>9, <2>10 DEF LoginInv
  <2>13. ~f.finished /\ \A c \in Starts : ~(f.starts[c].step > 0)
    BY <1>0, <1>2 DEF Frame!MayStart, StartInv
  <2>14. StartInv(d)
    BY <2>4, <2>6, <2>9, <2>10, <2>11, <2>13 DEF StartInv
  <2> QED
    BY <2>2, <2>8, <2>9, <2>10, <2>12, <2>13, <2>14, SameMenu DEF FrameOf
<1> QED
  BY <1>1, <1>2

\* What a run of the start may be.
RunStates == [step : 0 .. Len(BootSteps), tries : 0 .. Frame!Retries, asleep : BOOLEAN]

\* A start is over: it has failed, or the page is started.
LEMMA StartEnds ==
  ASSUME NEW f, FrameOf(f), NEW b \in Starts, f.starts[b].step > 0, NEW g \in Frame!Frame,
         g.panel = f.panel, g.active = f.active, g.off = f.off, g.blank = f.blank, g.polls = f.polls,
         g.auth = f.auth, g.login = f.login, ~g.running,
         \/ g.booting = f.booting /\ g.finished = f.finished
         \/ g.booting = FALSE /\ g.finished = TRUE,
         g.starts = [f.starts EXCEPT ![b] = Frame!Resting], g.done \in Nat
  PROVE  FrameOf(g)
<1>0. LoginInv(f) /\ StartInv(f) /\ f \in Frame!Frame
  BY DEF FrameOf
<1>1. \A c \in Starts : c # b => ~(f.starts[c].step > 0)
  BY <1>0 DEF StartInv
<1>2. \A c \in Starts : g.starts[c] = IF c = b THEN Frame!Resting ELSE f.starts[c]
  BY <1>0 DEF Frame!Frame
<1>3. Frame!Resting.step = 0
  BY DEF Frame!Resting
<1>4. StartInv(g)
  BY <1>1, <1>2, <1>3 DEF StartInv
<1>5. LoginInv(g)
  BY <1>0 DEF LoginInv
<1> QED
  BY <1>4, <1>5, SameMenu DEF FrameOf

\* A run of the start changes, and nothing else but the count of steps done.
RunAt(f, b, x, d) == [f EXCEPT !.done = d, !.starts[b] = x]

\* That keeps what is invariant.
LEMMA StartGoesOn ==
  ASSUME NEW f, FrameOf(f), NEW b \in Starts, f.starts[b].step > 0,
         NEW x \in RunStates, NEW d \in 0 .. Len(BootSteps), d < x.step
  PROVE  /\ FrameOf(RunAt(f, b, x, d)) /\ RunAt(f, b, x, d).config = f.config
         /\ RunAt(f, b, x, d).finished = f.finished /\ RunAt(f, b, x, d).starts[b] = x
         /\ \A c \in Starts \ {b} : RunAt(f, b, x, d).starts[c] = f.starts[c]
<1> DEFINE g == RunAt(f, b, x, d)
<1>0. f \in Frame!Frame /\ LoginInv(f) /\ StartInv(f)
  BY DEF FrameOf
<1>1. PICK n \in Nat \ {0} : n = Len(BootSteps)
  BY FrameGiven
<1>2. f.starts \in [Starts -> RunStates]
  BY <1>0 DEF Frame!Frame, RunStates
<1> DEFINE starts == [f.starts EXCEPT ![b] = x]
<1>3. starts \in [Starts -> RunStates] /\ starts[b] = x /\ \A c \in Starts \ {b} : starts[c] = f.starts[c]
  BY <1>2
<1>4. g = [f EXCEPT !.done = d, !.starts = starts]
  BY <1>0 DEF Frame!Frame, RunAt
<1> HIDE DEF starts, g
<1>5. g \in Frame!Frame
  BY <1>0, <1>1, <1>3, <1>4 DEF Frame!Frame, RunStates
<1>6. g.panel = f.panel /\ g.active = f.active /\ g.off = f.off /\ g.config = f.config /\ g.starts = starts
      /\ g.auth = f.auth /\ g.done = d
  BY <1>0, <1>4 DEF Frame!Frame
<1>7. g.blank = f.blank /\ g.polls = f.polls /\ g.finished = f.finished /\ g.login = f.login
      /\ g.booting = f.booting /\ g.running = f.running
  BY <1>0, <1>4 DEF Frame!Frame
<1>8. StartInv(g)
  <2>1. d \in Nat /\ x.step > 0
    <3>1. x.step \in 0 .. n
      BY <1>1 DEF RunStates
    <3> QED
      BY <1>1, <3>1
  <2>2. \A c \in Starts : g.starts[c].step > 0 <=> f.starts[c].step > 0
    BY <1>3, <1>6, <2>1
  <2>3. \A c \in Starts : g.starts[c].step > 0 => c = b
    BY <1>0, <2>2 DEF StartInv
  <2>4. g.starts[b] = x
    BY <1>3, <1>6
  <2> QED
    BY <1>0, <1>6, <1>7, <2>1, <2>2, <2>3, <2>4 DEF StartInv
<1>9. LoginInv(g)
  BY <1>0, <1>6, <1>7 DEF LoginInv
<1>10. FrameOf(g)
  BY <1>5, <1>6, <1>7, <1>8, <1>9, SameMenu DEF FrameOf
<1> QED
  BY <1>3, <1>6, <1>7, <1>10 DEF g

\* The last try of a step is over: the start fails, ends or goes on.
LEMMA StepOverKeeps ==
  ASSUME NEW f, FrameOf(f), NEW b \in Starts, f.starts[b].step > 0, NEW why
  PROVE  /\ FrameOf(Frame!StepOver(f, b, why))
         /\ Frame!StepOver(f, b, why).config = f.config
         /\ f.finished => Frame!StepOver(f, b, why).finished
         /\ \A c \in Starts \ {b} : Frame!StepOver(f, b, why).starts[c] = f.starts[c]
<1>0. f \in Frame!Frame /\ LoginInv(f) /\ StartInv(f)
  BY DEF FrameOf
<1>1. PICK n \in Nat \ {0} : n = Len(BootSteps)
  BY FrameGiven
<1>2. f.starts \in [Starts -> RunStates] /\ f.done \in 0 .. n
  BY <1>0, <1>1 DEF Frame!Frame, RunStates
<1>3. PICK k \in 1 .. n : k = f.starts[b].step
  <2>1. f.starts[b] \in RunStates
    BY <1>2
  <2>2. f.starts[b].step \in 0 .. n
    BY <1>1, <2>1 DEF RunStates
  <2> QED
    BY <2>2
<1>4. Frame!Resting \in RunStates
  <2>1. 0 \in 0 .. n /\ 0 \in 0 .. Frame!Retries
    BY <1>1 DEF Frame!Retries
  <2> QED
    BY <1>1, <2>1 DEF Frame!Resting, RunStates
<1>5. PICK d \in 0 .. n : d = f.done + 1 /\ d <= k
  BY <1>0, <1>2, <1>3 DEF StartInv
<1> DEFINE g == [f EXCEPT !.done = d]
           starts == [f.starts EXCEPT ![b] = Frame!Resting]
<1>6. Frame!StepOver(f, b, why) =
        IF why # "ok" /\ BootSteps[k] = "config" THEN Frame!Fails(g, b, why)
        ELSE IF k = n THEN Frame!Finish(g, b)
        ELSE [g EXCEPT !.starts[b] = [Frame!Resting EXCEPT !.step = k + 1]]
  <2>1. [f EXCEPT !.done = @ + 1] = g
    BY <1>5
  <2> QED
    BY <1>1, <1>3, <2>1 DEF Frame!StepOver
<1>7. starts \in [Starts -> RunStates] /\ \A c \in Starts \ {b} : starts[c] = f.starts[c]
  BY <1>2, <1>4
<1>8. CASE why # "ok" /\ BootSteps[k] = "config"
  <2> DEFINE again == f.again \/ why # "denied"
             h == [f EXCEPT !.done = d, !.running = FALSE, !.starts = starts, !.again = again]
  <2>1. Frame!StepOver(f, b, why) = h
    <3>1. Frame!StepOver(f, b, why) = Frame!Fails(g, b, why)
      BY <1>6, <1>8
    <3>2. Frame!Fails(g, b, why) = [g EXCEPT !.running = FALSE, !.starts[b] = Frame!Resting, !.again = again]
      BY <1>0 DEF Frame!Fails, Frame!Frame
    <3>3. [g EXCEPT !.running = FALSE, !.starts[b] = Frame!Resting, !.again = again] = h
      BY <1>0 DEF Frame!Frame
    <3> QED
      BY <3>1, <3>2, <3>3
  <2>2. again \in BOOLEAN
    BY <1>0 DEF Frame!Frame
  <2> HIDE DEF again, starts
  <2>3. h \in Frame!Frame
    BY <1>0, <1>1, <1>7, <2>2 DEF Frame!Frame, RunStates
  <2>4. h.panel = f.panel /\ h.active = f.active /\ h.off = f.off /\ h.config = f.config /\ h.starts = starts
        /\ h.auth = f.auth /\ h.done = d
    BY <1>0, <2>2 DEF Frame!Frame
  <2>5. h.blank = f.blank /\ h.polls = f.polls /\ h.finished = f.finished /\ h.login = f.login
        /\ h.booting = f.booting /\ ~h.running
    BY <1>0, <2>2 DEF Frame!Frame
  <2> HIDE DEF h
  <2>6. FrameOf(h)
    <3>1. h.starts = [f.starts EXCEPT ![b] = Frame!Resting]
      BY <2>4 DEF starts
    <3>2. h.done \in Nat
      BY <2>4
    <3> QED
      BY <2>3, <2>4, <2>5, <3>1, <3>2, StartEnds
  <2> QED
    BY <1>7, <2>1, <2>4, <2>5, <2>6
<1>9. CASE ~(why # "ok" /\ BootSteps[k] = "config") /\ k = n
  <2> DEFINE h == [f EXCEPT !.done = d, !.finished = TRUE, !.fallback = FALSE, !.booting = FALSE,
                            !.running = FALSE, !.starts = starts]
  <2>1. Frame!StepOver(f, b, why) = h
    <3>1. Frame!StepOver(f, b, why) = Frame!Finish(g, b)
      BY <1>6, <1>9
    <3>2. Frame!Finish(g, b) = h
      BY <1>0 DEF Frame!Finish, Frame!Frame
    <3> QED
      BY <3>1, <3>2
  <2> HIDE DEF starts
  <2>3. h \in Frame!Frame
    BY <1>0, <1>1, <1>7 DEF Frame!Frame, RunStates
  <2>4. h.panel = f.panel /\ h.active = f.active /\ h.off = f.off /\ h.config = f.config /\ h.starts = starts
        /\ h.auth = f.auth /\ h.done = d
    BY <1>0 DEF Frame!Frame
  <2>5. h.blank = f.blank /\ h.polls = f.polls /\ h.finished = TRUE /\ h.login = f.login
        /\ h.booting = FALSE /\ ~h.running
    BY <1>0 DEF Frame!Frame
  <2> HIDE DEF h
  <2>6. FrameOf(h)
    <3>1. h.starts = [f.starts EXCEPT ![b] = Frame!Resting]
      BY <2>4 DEF starts
    <3>2. h.done \in Nat
      BY <2>4
    <3> QED
      BY <2>3, <2>4, <2>5, <3>1, <3>2, StartEnds
  <2> QED
    BY <1>7, <2>1, <2>4, <2>5, <2>6
<1>10. CASE ~(why # "ok" /\ BootSteps[k] = "config") /\ k # n
  <2> DEFINE x == [Frame!Resting EXCEPT !.step = k + 1]
             h == [f EXCEPT !.done = d, !.starts[b] = x]
  <2>1. Frame!StepOver(f, b, why) = [g EXCEPT !.starts[b] = x]
    BY <1>6, <1>10
  <2>2. [g EXCEPT !.starts[b] = x] = h
    BY <1>0 DEF Frame!Frame
  <2>3. x \in RunStates /\ x.step = k + 1
    <3>1. k + 1 \in 0 .. n
      BY <1>10
    <3> QED
      BY <1>1, <1>4, <3>1 DEF RunStates
  <2> HIDE DEF x
  <2>4. /\ FrameOf(h) /\ h.config = f.config /\ h.finished = f.finished
        /\ \A c \in Starts \ {b} : h.starts[c] = f.starts[c]
    <3>1. d < x.step /\ d \in 0 .. Len(BootSteps)
      BY <1>1, <1>5, <2>3
    <3>2. h = RunAt(f, b, x, d)
      BY DEF RunAt
    <3> HIDE DEF h
    <3> QED
      BY <2>3, <3>1, <3>2, StartGoesOn
  <2> QED
    BY <2>1, <2>2, <2>4
<1> QED
  BY <1>8, <1>9, <1>10

\* A try of a step has ended.
LEMMA TryOverKeeps ==
  ASSUME NEW f, FrameOf(f), NEW b \in Starts, f.starts[b].step > 0, NEW why
  PROVE  /\ FrameOf(Frame!TryOver(f, b, why))
         /\ Frame!TryOver(f, b, why).config = f.config
         /\ f.finished => Frame!TryOver(f, b, why).finished
         /\ \A c \in Starts \ {b} : Frame!TryOver(f, b, why).starts[c] = f.starts[c]
<1>0. f \in Frame!Frame /\ StartInv(f)
  BY DEF FrameOf
<1>1. f.starts \in [Starts -> RunStates] /\ f.done \in 0 .. Len(BootSteps)
  BY <1>0 DEF Frame!Frame, RunStates
<1>2. CASE why # "ok" /\ f.starts[b].tries < Frame!Retries
  <2>1. f.starts[b] \in RunStates
    BY <1>1
  <2>2. PICK m \in 0 .. Frame!Retries : m = f.starts[b].tries + 1
    BY <1>2, <2>1 DEF RunStates, Frame!Retries
  <2> DEFINE x == [f.starts[b] EXCEPT !.tries = m, !.asleep = TRUE]
  <2>3. x \in RunStates
    BY <2>1, <2>2 DEF RunStates
  <2>4. x.step = f.starts[b].step
    BY <2>1 DEF RunStates
  <2>5. Frame!TryOver(f, b, why) = [f EXCEPT !.starts[b].tries = @ + 1, !.starts[b].asleep = TRUE]
    BY <1>2 DEF Frame!TryOver
  <2>6. [f EXCEPT !.starts[b].tries = @ + 1, !.starts[b].asleep = TRUE] = [f EXCEPT !.done = f.done, !.starts[b] = x]
    BY <1>0, <1>1, <2>1, <2>2 DEF Frame!Frame, RunStates
  <2> HIDE DEF x
  <2>7. f.done < x.step
    BY <1>0, <2>4 DEF StartInv
  <2> DEFINE h == [f EXCEPT !.done = f.done, !.starts[b] = x]
  <2>8. /\ FrameOf(h) /\ h.config = f.config /\ h.finished = f.finished
        /\ \A c \in Starts \ {b} : h.starts[c] = f.starts[c]
    <3>1. h = RunAt(f, b, x, f.done)
      BY DEF RunAt
    <3> HIDE DEF h
    <3> QED
      BY <1>1, <2>3, <2>7, <3>1, StartGoesOn
  <2> QED
    BY <2>5, <2>6, <2>8
<1>3. CASE ~(why # "ok" /\ f.starts[b].tries < Frame!Retries)
  <2>1. Frame!TryOver(f, b, why) = Frame!StepOver(f, b, why)
    BY <1>3 DEF Frame!TryOver
  <2> QED
    BY <2>1, StepOverKeeps
<1> QED
  BY <1>2, <1>3

\* Requests at most end or are given up, and the page's configuration stays.
LEMMA FrameQuiet ==
  ASSUME FrameInv, FrameOf(view'), view'.config = view.config, view.finished => view'.finished,
         flight' \in [Slots -> FrameRequests],
         \A t \in Slots : \/ flight'[t] = flight[t]
                          \/ flight'[t].ask = "none"
                          \/ flight'[t].ask = "config" /\ flight'[t].by = None,
         \A t \in Slots : flight'[t].ask = "config" /\ flight'[t].by # None =>
           view'.starts[flight'[t].by].step = view.starts[flight'[t].by].step,
         server' \in [session : BOOLEAN, hides : Frame!CanHide], server'.hides = server.hides,
         extra' \in [changes : 0 .. MaxFrameChanges, agree : BOOLEAN],
         extra'.agree => extra.agree /\ \A t \in Slots : flight[t].ask = "save" => flight'[t] = flight[t]
  PROVE  FrameInv'
<1>1. AsksOnce(view, flight) /\ (extra.agree => AgreeInv(view, flight, server.hides))
  BY DEF FrameInv
<1>2. AsksOnce(view', flight')
  <2>1. \A t \in Slots : flight'[t].ask = "config" /\ flight'[t].by # None => flight'[t] = flight[t]
    OBVIOUS
  <2>2. \A t \in Slots : flight'[t].ask = "save" => flight'[t] = flight[t]
    OBVIOUS
  <2>3. \A s \in Slots : flight'[s].ask = "config" /\ flight'[s].by # None =>
          view'.starts[flight'[s].by].step > 0 /\ BootSteps[view'.starts[flight'[s].by].step] = "config"
    BY <1>1, <2>1 DEF AsksOnce
  <2>4. \A s, t \in Slots : flight'[s].ask = "config" /\ flight'[t].ask = "config"
                            /\ flight'[s].by # None /\ flight'[s].by = flight'[t].by => s = t
    BY <1>1, <2>1 DEF AsksOnce
  <2>5. \A s \in Slots : flight'[s].ask = "save" => view'.finished
    BY <1>1, <2>2 DEF AsksOnce
  <2> QED
    BY <2>3, <2>4, <2>5 DEF AsksOnce
<1>3. extra'.agree => AgreeInv(view', flight', server'.hides)
  <2> SUFFICES ASSUME extra'.agree PROVE AgreeInv(view', flight', server'.hides)
    OBVIOUS
  <2>1. AgreeInv(view, flight, server.hides) /\ \A t \in Slots : flight[t].ask = "save" => flight'[t] = flight[t]
    BY <1>1
  <2>2. \A t \in Slots : flight'[t].ask = "config" /\ flight'[t].by # None => flight'[t] = flight[t]
    OBVIOUS
  <2>3. \A t \in Slots : flight'[t].ask = "save" => flight'[t] = flight[t]
    OBVIOUS
  <2> QED
    BY <2>1, <2>2, <2>3 DEF AgreeInv
<1> QED
  BY <1>2, <1>3 DEF FrameInv

\* A request of the page takes a slot that is free.
LEMMA FrameSends ==
  ASSUME NEW q \in FrameRequests, Frame!Room(flight), flight \in [Slots -> FrameRequests]
  PROVE  \E s \in Slots : /\ flight[s].ask = "none"
                          /\ Frame!Send(flight, q) \in [Slots -> FrameRequests]
                          /\ Frame!Send(flight, q)[s] = q
                          /\ \A t \in Slots \ {s} : Frame!Send(flight, q)[t] = flight[t]
<1>1. PICK s \in Slots : flight[s] = Frame!Unused /\ Frame!Send(flight, q) = [flight EXCEPT ![s] = q]
  BY DEF Frame!Room, Frame!Send
<1>2. flight[s].ask = "none"
  BY <1>1 DEF Frame!Unused
<1> QED
  BY <1>1, <1>2

\* A request is over.
LEMMA FrameDrops ==
  ASSUME NEW s \in Slots, flight \in [Slots -> FrameRequests]
  PROVE  /\ Frame!Over(flight, s) \in [Slots -> FrameRequests]
         /\ Frame!Over(flight, s)[s].ask = "none"
         /\ \A t \in Slots \ {s} : Frame!Over(flight, s)[t] = flight[t]
<1>1. Frame!Unused \in FrameRequests /\ Frame!Unused.ask = "none"
  BY DEF FrameRequests, Frame!Unused
<1>2. Frame!Over(flight, s) = [flight EXCEPT ![s] = Frame!Unused]
  BY DEF Frame!Over
<1> QED
  BY <1>1, <1>2

\* Timers and the count of steps done are the only things that change.
LEMMA TimersKeep ==
  ASSUME NEW f, FrameOf(f), NEW g \in Frame!Frame,
         g.panel = f.panel, g.active = f.active, g.off = f.off, g.blank = f.blank, g.polls = f.polls,
         g.auth = f.auth, g.login = f.login, g.booting = f.booting, g.finished = f.finished,
         g.running = f.running, g.starts = f.starts, g.done = f.done \/ g.done = 0
  PROVE  FrameOf(g)
<1>0. LoginInv(f) /\ StartInv(f)
  BY DEF FrameOf
<1>1. LoginInv(g)
  BY <1>0 DEF LoginInv
<1>2. StartInv(g)
  BY <1>0 DEF StartInv
<1> QED
  BY <1>1, <1>2, SameMenu DEF FrameOf

\* What the requests of the page are, by what they ask for.
LEMMA FrameAsked ==
  ASSUME NEW q \in FrameRequests
  PROVE  /\ q.ask = "config" => q \in [ask : {"config"}, by : Starts \cup {None}, got : {"nothing", "ok", "denied"},
                                       hides : Frame!CanHide]
         /\ q.ask = "save" => q \in [ask : {"save"}, by : {None}, got : {"nothing", "ok", "refused"}, hides : Frame!CanHide]
<1>1. Frame!Unused.ask = "none"
  BY DEF Frame!Unused
<1>2. \A r \in [ask : {"config"}, by : Starts \cup {None}, got : {"nothing", "ok", "denied"}, hides : Frame!CanHide] :
        r.ask = "config"
  OBVIOUS
<1>3. \A r \in [ask : {"save"}, by : {None}, got : {"nothing", "ok", "refused"}, hides : Frame!CanHide] :
        r.ask = "save"
  OBVIOUS
<1> QED
  BY <1>1, <1>2, <1>3 DEF FrameRequests

\* The steps of the start that leave the requests alone, and of the menu.
LEMMA FrameStarts ==
  ASSUME FrameInv,
         \/ Frame!StatusKnown \/ Frame!Again \/ Frame!FallbackFires \/ Frame!OtherRefused
         \/ \E b \in Starts : Frame!PanelStep(b) \/ Frame!Awakes(b)
         \/ \E section \in Frame!All : Frame!ClickMenu(section)
  PROVE  FrameInv'
<1>0. view \in Frame!Frame /\ MenuInv(view) /\ LoginInv(view) /\ StartInv(view) /\ FrameOf(view)
      /\ AsksOnce(view, flight)
  BY DEF FrameInv, FrameOf
<1>1. flight \in [Slots -> FrameRequests] /\ server \in [session : BOOLEAN, hides : Frame!CanHide]
      /\ extra \in [changes : 0 .. MaxFrameChanges, agree : BOOLEAN]
  BY DEF FrameInv
<1>2. \A t \in Slots : flight[t].ask = "config" /\ flight[t].by # None =>
        flight[t].by \in Starts /\ view.starts[flight[t].by].step > 0
  <2>1. \A t \in Slots : flight[t].ask = "config" => flight[t].by \in Starts \cup {None}
    BY <1>1, FrameAsked
  <2> QED
    BY <1>0, <2>1 DEF AsksOnce
\* It is enough that the page keeps what a step does not mean to change.
<1>3. ASSUME FrameOf(view'), view'.config = view.config, view.finished => view'.finished,
             UNCHANGED <<flight, server, extra>>,
             \A b \in Starts : (\E t \in Slots : flight[t].ask = "config" /\ flight[t].by = b) =>
               view'.starts[b].step = view.starts[b].step
      PROVE  FrameInv'
  <2>1. \A t \in Slots : flight'[t].ask = "config" /\ flight'[t].by # None =>
           view'.starts[flight'[t].by].step = view.starts[flight'[t].by].step
    BY <1>2, <1>3
  <2> QED
    BY <1>1, <1>3, <2>1, FrameQuiet
<1>4. ASSUME NEW f, FrameOf(f), f.config = view.config, f.starts = view.starts, f.finished = view.finished,
             view' = Frame!Bootstrap(f), UNCHANGED <<flight, server, extra>>
      PROVE  FrameInv'
  <2>1. /\ FrameOf(view') /\ view'.config = f.config /\ view'.finished = f.finished
        /\ \A b \in Starts : f.starts[b].step > 0 => view'.starts[b] = f.starts[b]
    BY <1>4, BootstrapKeeps
  <2>2. \A b \in Starts : (\E t \in Slots : flight[t].ask = "config" /\ flight[t].by = b) =>
               view'.starts[b].step = view.starts[b].step
    <3>1. \A b \in Starts : b # None
      BY FrameGiven
    <3> QED
      BY <1>2, <1>4, <2>1, <3>1
  <2> QED
    BY <1>3, <1>4, <2>1, <2>2
<1>5. ASSUME FrameOf(view'), view'.config = view.config, view'.starts = view.starts,
             view'.finished = view.finished, UNCHANGED <<flight, server, extra>>
      PROVE  FrameInv'
  BY <1>3, <1>5
<1>6. CASE Frame!StatusKnown
  <2>1. PICK auth \in {server.session, FALSE} :
          view' = IF auth THEN Frame!Bootstrap([view EXCEPT !.auth = TRUE]) ELSE Frame!LoggedOut(view)
    BY <1>6 DEF Frame!StatusKnown
  <2>2. view.auth = None /\ UNCHANGED <<flight, server, extra>>
    BY <1>6 DEF Frame!StatusKnown
  <2>3. CASE auth
    <3> DEFINE d == [view EXCEPT !.auth = TRUE]
    <3>1. d \in Frame!Frame
      BY <1>0 DEF Frame!Frame
    <3>2. d.panel = view.panel /\ d.active = view.active /\ d.off = view.off /\ d.config = view.config
          /\ d.starts = view.starts /\ d.done = view.done /\ d.auth = TRUE
      BY <1>0 DEF Frame!Frame
    <3>3. d.blank = view.blank /\ d.polls = view.polls /\ d.finished = view.finished
          /\ d.running = view.running /\ d.login = view.login /\ d.booting = view.booting
      BY <1>0 DEF Frame!Frame
    <3>4. view' = Frame!Bootstrap(d)
      BY <2>1, <2>3
    <3> HIDE DEF d
    <3>5. ~view.login
      <4>1. None # FALSE
        BY FrameGiven
      <4> QED
        BY <1>0, <2>2, <4>1 DEF LoginInv
    <3>6. LoginInv(d)
      BY <1>0, <3>2, <3>3, <3>5 DEF LoginInv
    <3>7. StartInv(d)
      BY <1>0, <3>2, <3>3 DEF StartInv
    <3>8. FrameOf(d)
      BY <1>0, <3>1, <3>2, <3>3, <3>6, <3>7, SameMenu DEF FrameOf
    <3> QED
      BY <1>4, <2>2, <3>2, <3>3, <3>4, <3>8
  <2>4. CASE ~auth
    <3>1. view' = Frame!LoggedOut(view)
      BY <2>1, <2>4
    <3> QED
      BY <1>0, <1>5, <2>2, <3>1, LoggedOutKeeps
  <2> QED
    BY <2>3, <2>4
<1>7. CASE Frame!Again
  <2> DEFINE d == [view EXCEPT !.again = FALSE]
  <2>1. d \in Frame!Frame
    BY <1>0 DEF Frame!Frame
  <2>2. d.panel = view.panel /\ d.active = view.active /\ d.off = view.off /\ d.config = view.config
        /\ d.starts = view.starts /\ d.done = view.done /\ d.auth = view.auth
    BY <1>0 DEF Frame!Frame
  <2>3. d.blank = view.blank /\ d.polls = view.polls /\ d.finished = view.finished
        /\ d.running = view.running /\ d.login = view.login /\ d.booting = view.booting
    BY <1>0 DEF Frame!Frame
  <2>4. view' = Frame!Bootstrap(d) /\ UNCHANGED <<flight, server, extra>>
    BY <1>7 DEF Frame!Again
  <2> HIDE DEF d
  <2>5. FrameOf(d)
    BY <1>0, <2>1, <2>2, <2>3, TimersKeep
  <2> QED
    BY <1>4, <2>2, <2>3, <2>4, <2>5
<1>8. CASE Frame!FallbackFires
  <2> DEFINE d == [view EXCEPT !.fallback = FALSE, !.done = 0]
  <2>1. d \in Frame!Frame
    <3>1. 0 \in 0 .. Len(BootSteps)
      BY FrameGiven
    <3> QED
      BY <1>0, <3>1 DEF Frame!Frame
  <2>2. d.panel = view.panel /\ d.active = view.active /\ d.off = view.off /\ d.config = view.config
        /\ d.starts = view.starts /\ d.done = 0 /\ d.auth = view.auth
    BY <1>0 DEF Frame!Frame
  <2>3. d.blank = view.blank /\ d.polls = view.polls /\ d.finished = view.finished
        /\ d.running = view.running /\ d.login = view.login /\ d.booting = view.booting
    BY <1>0 DEF Frame!Frame
  <2>4. view' = Frame!Bootstrap(d) /\ UNCHANGED <<flight, server, extra>>
    BY <1>8 DEF Frame!FallbackFires
  <2> HIDE DEF d
  <2>5. FrameOf(d)
    BY <1>0, <2>1, <2>2, <2>3, TimersKeep
  <2> QED
    BY <1>4, <2>2, <2>3, <2>4, <2>5
<1>9. CASE Frame!OtherRefused
  <2>1. view' = Frame!LoggedOut(view) /\ UNCHANGED <<flight, server, extra>>
    BY <1>9 DEF Frame!OtherRefused
  <2> QED
    BY <1>0, <1>5, <2>1, LoggedOutKeeps
<1>10. ASSUME NEW b \in Starts, Frame!PanelStep(b) PROVE FrameInv'
  <2>1. PICK why \in {"ok", "failed", "denied"} :
          view' = Frame!TryOver(IF why = "denied" THEN Frame!LoggedOut(view) ELSE view, b, why)
    BY <1>10 DEF Frame!PanelStep
  <2>2. view.starts[b].step # 0 /\ BootSteps[view.starts[b].step] = "panel" /\ UNCHANGED <<flight, server, extra>>
    BY <1>10 DEF Frame!PanelStep, Frame!Trying, Frame!Doing
  <2>3. view.starts[b].step > 0
    <3>1. view.starts[b] \in RunStates
      BY <1>0 DEF Frame!Frame, RunStates
    <3>2. view.starts[b].step \in 0 .. Len(BootSteps)
      BY <3>1 DEF RunStates
    <3> QED
      BY <2>2, <3>2
  <2>4. PICK f : /\ f = IF why = "denied" THEN Frame!LoggedOut(view) ELSE view
                 /\ FrameOf(f) /\ f.config = view.config /\ f.starts = view.starts /\ f.finished = view.finished
    BY <1>0, LoggedOutKeeps
  <2>5. view' = Frame!TryOver(f, b, why) /\ f.starts[b].step > 0
    BY <2>1, <2>3, <2>4
  <2>7. \A c \in Starts : (\E t \in Slots : flight[t].ask = "config" /\ flight[t].by = c) => c # b
    <3>1. \A c \in Starts : c # None
      BY FrameGiven
    <3> QED
      BY <1>0, <2>2, <3>1 DEF AsksOnce
  <2>9. FrameOf(view') /\ view'.config = view.config
    BY <2>4, <2>5, TryOverKeeps
  <2>10. view.finished => view'.finished
    BY <2>4, <2>5, TryOverKeeps
  <2>11. \A c \in Starts \ {b} : view'.starts[c] = view.starts[c]
    BY <2>4, <2>5, TryOverKeeps
  <2> QED
    BY <1>3, <2>2, <2>7, <2>9, <2>10, <2>11
<1>11. ASSUME NEW b \in Starts, Frame!Awakes(b) PROVE FrameInv'
  <2>1. view.starts \in [Starts -> RunStates]
    BY <1>0 DEF Frame!Frame, RunStates
  <2> DEFINE x == [view.starts[b] EXCEPT !.asleep = FALSE]
             starts == [view.starts EXCEPT ![b] = x]
             d == [view EXCEPT !.starts = starts]
  <2>2. view' = d /\ UNCHANGED <<flight, server, extra>>
    BY <1>0, <1>11 DEF Frame!Awakes, Frame!Frame
  <2>3. x \in RunStates
    BY <2>1 DEF RunStates
  <2>4. x.step = view.starts[b].step
    BY <2>1 DEF RunStates
  <2> HIDE DEF x
  <2>5. starts \in [Starts -> RunStates] /\ \A c \in Starts : starts[c].step = view.starts[c].step
    BY <2>1, <2>3, <2>4
  <2> HIDE DEF starts
  <2>6. d \in Frame!Frame
    BY <1>0, <2>5 DEF Frame!Frame, RunStates
  <2>7. d.panel = view.panel /\ d.active = view.active /\ d.off = view.off /\ d.config = view.config
        /\ d.starts = starts /\ d.done = view.done /\ d.auth = view.auth
    BY <1>0 DEF Frame!Frame
  <2>8. d.blank = view.blank /\ d.polls = view.polls /\ d.finished = view.finished
        /\ d.running = view.running /\ d.login = view.login /\ d.booting = view.booting
    BY <1>0 DEF Frame!Frame
  <2> HIDE DEF d
  <2>9. LoginInv(d)
    BY <1>0, <2>7, <2>8 DEF LoginInv
  <2>10. StartInv(d)
    BY <1>0, <2>5, <2>7, <2>8 DEF StartInv
  <2>11. FrameOf(d)
    BY <1>0, <2>6, <2>7, <2>8, <2>9, <2>10, SameMenu DEF FrameOf
  <2> QED
    BY <1>3, <2>2, <2>5, <2>7, <2>8, <2>11
<1>12. ASSUME NEW section \in Frame!All, Frame!ClickMenu(section) PROVE FrameInv'
  <2> DEFINE active == (view.active \cap view.off) \cup {section}
             d == [view EXCEPT !.active = active]
  <2>1. view' = Frame!Switch(d, section) /\ section \notin view.off /\ UNCHANGED <<flight, server, extra>>
    BY <1>12 DEF Frame!ClickMenu, Frame!Activate
  <2>2. active \in SUBSET Frame!All /\ section \in active
    BY <1>0 DEF Frame!Frame
  <2> HIDE DEF active
  <2>3. d \in Frame!Frame
    BY <1>0, <2>2 DEF Frame!Frame
  <2>4. d.active = active /\ d.off = view.off /\ d.config = view.config
        /\ d.starts = view.starts /\ d.done = view.done /\ d.auth = view.auth
    BY <1>0 DEF Frame!Frame
  <2>5. d.finished = view.finished
        /\ d.running = view.running /\ d.login = view.login /\ d.booting = view.booting
    BY <1>0 DEF Frame!Frame
  <2> HIDE DEF d
  <2>6. LoginInv(d)
    BY <1>0, <2>4, <2>5 DEF LoginInv
  <2>7. StartInv(d)
    BY <1>0, <2>4, <2>5 DEF StartInv
  <2>8. /\ FrameOf(view') /\ view'.config = d.config /\ view'.starts = d.starts /\ view'.finished = d.finished
    BY <2>1, <2>2, <2>3, <2>4, <2>6, <2>7, SwitchKeeps
  <2> QED
    BY <1>5, <2>1, <2>4, <2>5, <2>8
<1> QED
  BY <1>6, <1>7, <1>8, <1>9, <1>10, <1>11, <1>12

\* The requests for the configuration.
LEMMA FrameAsks ==
  ASSUME FrameInv,
         \/ \E b \in Starts : Frame!AskConfig(b)
         \/ \E s \in Slots : Frame!ConfigRead(s) \/ Frame!ConfigFails(s) \/ Frame!ConfigGivenUp(s)
  PROVE  FrameInv'
<1>0. view \in Frame!Frame /\ StartInv(view) /\ FrameOf(view) /\ AsksOnce(view, flight)
      /\ (extra.agree => AgreeInv(view, flight, server.hides))
  BY DEF FrameInv, FrameOf
<1>1. flight \in [Slots -> FrameRequests] /\ server \in [session : BOOLEAN, hides : Frame!CanHide]
      /\ extra \in [changes : 0 .. MaxFrameChanges, agree : BOOLEAN]
  BY DEF FrameInv
<1>2. \A s \in Slots : flight[s].ask = "config" =>
        flight[s] \in [ask : {"config"}, by : Starts \cup {None}, got : {"nothing", "ok", "denied"}, hides : Frame!CanHide]
  BY <1>1, FrameAsked
<1>3. \A b \in Starts : b # None
  BY FrameGiven
<1>4. server.hides \in Frame!CanHide /\ server.session \in BOOLEAN
  BY <1>1
<1>5. ASSUME NEW b \in Starts, Frame!AskConfig(b) PROVE FrameInv'
  <2> DEFINE q == [ask |-> "config", by |-> b, got |-> "nothing", hides |-> {}]
  <2>1. Frame!Room(flight) /\ flight' = Frame!Send(flight, q) /\ UNCHANGED <<view, server, extra>>
        /\ \A s \in Slots : flight[s].ask = "config" => flight[s].by # b
    BY <1>5 DEF Frame!AskConfig
  <2>2. view.starts[b].step > 0 /\ BootSteps[view.starts[b].step] = "config"
    <3>1. view.starts[b].step # 0 /\ BootSteps[view.starts[b].step] = "config"
      BY <1>5 DEF Frame!AskConfig, Frame!Trying, Frame!Doing
    <3>2. view.starts[b].step \in 0 .. Len(BootSteps)
      BY <1>0 DEF Frame!Frame
    <3> QED
      BY <3>1, <3>2
  <2>3. q \in FrameRequests /\ q.ask = "config" /\ q.by = b /\ q.got = "nothing"
    <3>1. {} \in Frame!CanHide
      BY DEF Frame!CanHide
    <3> QED
      BY <3>1 DEF FrameRequests
  <2> HIDE DEF q
  <2>4. PICK s \in Slots : /\ flight[s].ask = "none" /\ flight' \in [Slots -> FrameRequests] /\ flight'[s] = q
                           /\ \A t \in Slots \ {s} : flight'[t] = flight[t]
    <3>1. Frame!Room(flight)
      BY <2>1
    <3>2. \E s \in Slots : /\ flight[s].ask = "none" /\ Frame!Send(flight, q) \in [Slots -> FrameRequests]
                           /\ Frame!Send(flight, q)[s] = q
                           /\ \A t \in Slots \ {s} : Frame!Send(flight, q)[t] = flight[t]
      BY <1>1, <2>3, <3>1, FrameSends
    <3> QED
      BY <2>1, <3>2
  <2>5. AsksOnce(view', flight')
    <3>1. \A t \in Slots : flight'[t].ask = "config" /\ flight'[t].by # None =>
            view'.starts[flight'[t].by].step > 0 /\ BootSteps[view'.starts[flight'[t].by].step] = "config"
      BY <1>0, <2>1, <2>2, <2>3, <2>4 DEF AsksOnce
    <3>2. \A u, t \in Slots : flight'[u].ask = "config" /\ flight'[t].ask = "config"
                              /\ flight'[u].by # None /\ flight'[u].by = flight'[t].by => u = t
      BY <1>0, <2>1, <2>3, <2>4 DEF AsksOnce
    <3>3. \A t \in Slots : flight'[t].ask = "save" => view'.finished
      BY <1>0, <2>1, <2>3, <2>4 DEF AsksOnce
    <3> QED
      BY <3>1, <3>2, <3>3 DEF AsksOnce
  <2>6. extra'.agree => AgreeInv(view', flight', server'.hides)
    <3> SUFFICES ASSUME extra.agree PROVE AgreeInv(view, flight', server.hides)
      BY <2>1
    <3>1. AgreeInv(view, flight, server.hides)
      BY <1>0
    <3>2. \A t \in Slots : (t = s /\ flight'[t].ask = "config" /\ flight'[t].got = "nothing") \/ flight'[t] = flight[t]
      BY <2>3, <2>4
    <3> QED
      BY <2>4, <3>1, <3>2 DEF AgreeInv
  <2> QED
    BY <1>0, <1>1, <2>1, <2>4, <2>5, <2>6 DEF FrameInv
<1>6. ASSUME NEW s \in Slots, Frame!ConfigRead(s) PROVE FrameInv'
  <2> DEFINE got == IF server.session THEN "ok" ELSE "denied"
             q == [flight[s] EXCEPT !.got = got, !.hides = server.hides]
  <2>1. flight[s].ask = "config" /\ flight[s].got = "nothing" /\ UNCHANGED <<view, server, extra>>
        /\ flight' = [flight EXCEPT ![s] = q]
    BY <1>1, <1>6 DEF Frame!ConfigRead
  <2>2. got \in {"ok", "denied"}
    OBVIOUS
  <2> HIDE DEF got
  <2>3. q \in FrameRequests /\ q.ask = "config" /\ q.by = flight[s].by /\ q.hides = server.hides
    BY <1>2, <1>4, <2>1, <2>2 DEF FrameRequests
  <2> HIDE DEF q
  <2>4. /\ flight' \in [Slots -> FrameRequests] /\ flight'[s] = q
        /\ \A t \in Slots \ {s} : flight'[t] = flight[t]
    BY <1>1, <2>1, <2>3
  <2>5. \A t \in Slots : flight'[t].ask = flight[t].ask /\ (flight[t].ask = "config" => flight'[t].by = flight[t].by)
    BY <2>1, <2>3, <2>4
  <2>6. AsksOnce(view', flight')
    BY <1>0, <2>1, <2>5 DEF AsksOnce
  <2>7. extra'.agree => AgreeInv(view', flight', server'.hides)
    <3> SUFFICES ASSUME extra.agree PROVE AgreeInv(view, flight', server.hides)
      BY <2>1
    <3>1. AgreeInv(view, flight, server.hides)
      BY <1>0
    <3>2. \A t \in Slots : (t = s /\ flight'[t].ask = "config" /\ flight'[t].hides = server.hides) \/ flight'[t] = flight[t]
      BY <2>3, <2>4
    <3>3. \A t \in Slots : flight[t].ask = "save" => flight'[t] = flight[t]
      BY <2>1, <3>2
    <3> QED
      BY <2>5, <3>1, <3>2, <3>3 DEF AgreeInv
  <2> QED
    BY <1>0, <1>1, <2>1, <2>4, <2>6, <2>7 DEF FrameInv
\* The try of the request's step is over.
<1>7. ASSUME NEW s \in Slots, flight[s].ask = "config", flight[s].by # None
      PROVE  /\ flight[s].by \in Starts /\ view.starts[flight[s].by].step > 0
             /\ \A t \in Slots \ {s} : flight[t].ask = "config" => flight[t].by # flight[s].by
             /\ \A t \in Slots : flight[t].ask = "config" => flight[t].by \in Starts \cup {None}
  <2>1. flight[s].by \in Starts \cup {None}
    BY <1>2, <1>7
  <2>2. \A t \in Slots : flight[t].ask = "config" => flight[t].by \in Starts \cup {None}
    BY <1>2
  <2> QED
    BY <1>0, <1>7, <2>1, <2>2 DEF AsksOnce
<1>8. ASSUME NEW s \in Slots, Frame!ConfigFails(s) PROVE FrameInv'
  <2>1. flight[s].ask = "config" /\ flight' = Frame!Over(flight, s) /\ UNCHANGED <<server, extra>>
        /\ view' = IF flight[s].by = None THEN view ELSE Frame!TryOver(view, flight[s].by, "failed")
    BY <1>8 DEF Frame!ConfigFails
  <2>2. flight' \in [Slots -> FrameRequests] /\ flight'[s].ask = "none" /\ \A t \in Slots \ {s} : flight'[t] = flight[t]
    BY <1>1, <2>1, FrameDrops
  <2>3. extra'.agree => extra.agree /\ \A t \in Slots : flight[t].ask = "save" => flight'[t] = flight[t]
    BY <2>1, <2>2
  <2>4. \A t \in Slots : flight'[t] = flight[t] \/ flight'[t].ask = "none"
    BY <2>2
  <2>5. CASE flight[s].by = None
    <3>1. view' = view
      BY <2>1, <2>5
    <3> QED
      BY <1>0, <1>1, <2>1, <2>2, <2>3, <2>4, <3>1, FrameQuiet
  <2>6. CASE flight[s].by # None
    <3>1. PICK b \in Starts : b = flight[s].by /\ view.starts[b].step > 0
      BY <1>7, <2>1, <2>6
    <3>2. view' = Frame!TryOver(view, b, "failed")
      BY <2>1, <2>6, <3>1
    <3>3. FrameOf(view') /\ view'.config = view.config
      BY <1>0, <3>1, <3>2, TryOverKeeps
    <3>4. view.finished => view'.finished
      BY <1>0, <3>1, <3>2, TryOverKeeps
    <3>5. \A c \in Starts \ {b} : view'.starts[c] = view.starts[c]
      BY <1>0, <3>1, <3>2, TryOverKeeps
    <3>6. \A t \in Slots : flight'[t].ask = "config" /\ flight'[t].by # None =>
            view'.starts[flight'[t].by].step = view.starts[flight'[t].by].step
      BY <1>7, <2>1, <2>2, <2>6, <3>1, <3>5
    <3> QED
      BY <1>1, <2>1, <2>2, <2>3, <2>4, <3>3, <3>4, <3>6, FrameQuiet
  <2> QED
    BY <2>5, <2>6
<1>9. ASSUME NEW s \in Slots, Frame!ConfigGivenUp(s) PROVE FrameInv'
  <2> DEFINE q == [flight[s] EXCEPT !.by = None]
  <2>1. flight[s].ask = "config" /\ flight[s].by # None /\ UNCHANGED <<server, extra>>
        /\ view' = Frame!TryOver(view, flight[s].by, "late") /\ flight' = [flight EXCEPT ![s] = q]
    BY <1>1, <1>9 DEF Frame!ConfigGivenUp
  <2>2. q \in FrameRequests /\ q.ask = "config" /\ q.by = None
    BY <1>2, <2>1 DEF FrameRequests
  <2> HIDE DEF q
  <2>3. flight' \in [Slots -> FrameRequests] /\ flight'[s] = q /\ \A t \in Slots \ {s} : flight'[t] = flight[t]
    BY <1>1, <2>1, <2>2
  <2>4. extra'.agree => extra.agree /\ \A t \in Slots : flight[t].ask = "save" => flight'[t] = flight[t]
    BY <2>1, <2>3
  <2>5. \A t \in Slots : flight'[t] = flight[t] \/ (flight'[t].ask = "config" /\ flight'[t].by = None)
    BY <2>2, <2>3
  <2>6. PICK b \in Starts : b = flight[s].by /\ view.starts[b].step > 0
    BY <1>7, <2>1
  <2>7. view' = Frame!TryOver(view, b, "late")
    BY <2>1, <2>6
  <2>8. FrameOf(view') /\ view'.config = view.config
    BY <1>0, <2>6, <2>7, TryOverKeeps
  <2>9. view.finished => view'.finished
    BY <1>0, <2>6, <2>7, TryOverKeeps
  <2>10. \A c \in Starts \ {b} : view'.starts[c] = view.starts[c]
    BY <1>0, <2>6, <2>7, TryOverKeeps
  <2>11. \A t \in Slots : flight'[t].ask = "config" /\ flight'[t].by # None =>
          view'.starts[flight'[t].by].step = view.starts[flight'[t].by].step
    BY <1>7, <2>1, <2>2, <2>3, <2>6, <2>10
  <2> QED
    BY <1>1, <2>1, <2>3, <2>4, <2>5, <2>8, <2>9, <2>11, FrameQuiet
<1> QED
  BY <1>5, <1>6, <1>8, <1>9

\* The configuration arrives.
LEMMA FrameArrives ==
  ASSUME FrameInv, NEW s \in Slots, Frame!ConfigArrives(s)
  PROVE  FrameInv'
<1>0. FrameOf(view) /\ AsksOnce(view, flight) /\ (extra.agree => AgreeInv(view, flight, server.hides))
  BY DEF FrameInv
<1>1. flight \in [Slots -> FrameRequests] /\ server \in [session : BOOLEAN, hides : Frame!CanHide]
      /\ extra \in [changes : 0 .. MaxFrameChanges, agree : BOOLEAN]
  BY DEF FrameInv
<1>2. \A t \in Slots : flight[t].ask = "config" =>
        flight[t] \in [ask : {"config"}, by : Starts \cup {None}, got : {"nothing", "ok", "denied"}, hides : Frame!CanHide]
  BY <1>1, FrameAsked
<1>3. flight[s].ask = "config" /\ flight' = Frame!Over(flight, s) /\ server' = server
  BY DEF Frame!ConfigArrives
<1>4. flight[s].by \in Starts \cup {None} /\ flight[s].hides \in Frame!CanHide /\ flight[s].got \in {"nothing", "ok", "denied"}
  BY <1>2, <1>3
<1>5. PICK f : /\ f = IF flight[s].got = "ok" THEN Frame!Menu(view, flight[s].hides) ELSE Frame!LoggedOut(view)
               /\ view' = IF flight[s].by = None THEN f ELSE Frame!TryOver(f, flight[s].by, flight[s].got)
  BY DEF Frame!ConfigArrives
<1>6. FrameOf(f) /\ f.starts = view.starts /\ f.finished = view.finished
      /\ f.config = IF flight[s].got = "ok" THEN flight[s].hides ELSE view.config
  BY <1>0, <1>4, <1>5, MenuKeeps, LoggedOutKeeps
<1>7. flight' \in [Slots -> FrameRequests] /\ flight'[s].ask = "none" /\ \A t \in Slots \ {s} : flight'[t] = flight[t]
  BY <1>1, <1>3, FrameDrops
<1> DEFINE agree == extra.agree /\ flight[s].by # None
<1>8. extra' = [extra EXCEPT !.agree = agree]
  BY DEF Frame!ConfigArrives
<1>9. agree \in BOOLEAN /\ (agree <=> extra.agree /\ flight[s].by # None)
  BY <1>1
<1> HIDE DEF agree
<1>10. extra' \in [changes : 0 .. MaxFrameChanges, agree : BOOLEAN]
  BY <1>1, <1>8, <1>9
<1>11. extra'.agree = agree
  BY <1>1, <1>8, <1>9
<1>12. \A t \in Slots : flight'[t].ask = "config" \/ flight'[t].ask = "save" => t # s /\ flight'[t] = flight[t]
  BY <1>7
<1>13. CASE flight[s].by = None
  <2>1. FrameOf(view') /\ view'.starts = view.starts /\ view'.finished = view.finished
    BY <1>5, <1>6, <1>13
  <2>2. AsksOnce(view', flight')
    BY <1>0, <1>12, <2>1 DEF AsksOnce
  <2>3. ~extra'.agree
    BY <1>9, <1>11, <1>13
  <2> QED
    BY <1>1, <1>3, <1>7, <1>10, <2>1, <2>2, <2>3 DEF FrameInv
<1>14. CASE flight[s].by # None
  <2>1. PICK b \in Starts : b = flight[s].by
    BY <1>4, <1>14
  <2>2. view.starts[b].step > 0 /\ \A t \in Slots : flight[t].ask = "config" /\ flight[t].by = b => t = s
    <3>1. b # None
      BY <1>14, <2>1
    <3> QED
      BY <1>0, <1>3, <2>1, <3>1 DEF AsksOnce
  <2>3. PICK got : got = flight[s].got
    OBVIOUS
  <2>4. view' = Frame!TryOver(f, b, got) /\ f.starts[b].step > 0
    BY <1>5, <1>6, <1>14, <2>1, <2>2, <2>3
  <2>5. FrameOf(view') /\ view'.config = f.config
    BY <1>6, <2>4, TryOverKeeps
  <2>6. view.finished => view'.finished
    BY <1>6, <2>4, TryOverKeeps
  <2>7. \A c \in Starts \ {b} : view'.starts[c] = view.starts[c]
    BY <1>6, <2>4, TryOverKeeps
  <2>8. AsksOnce(view', flight')
    <3>1. \A t \in Slots : flight'[t].ask = "config" /\ flight'[t].by # None => flight'[t].by \in Starts \ {b}
      BY <1>2, <1>12, <2>2
    <3>2. \A t \in Slots : flight'[t].ask = "config" /\ flight'[t].by # None =>
            view'.starts[flight'[t].by].step > 0 /\ BootSteps[view'.starts[flight'[t].by].step] = "config"
      BY <1>0, <1>12, <2>7, <3>1 DEF AsksOnce
    <3>3. \A u, t \in Slots : flight'[u].ask = "config" /\ flight'[t].ask = "config"
                              /\ flight'[u].by # None /\ flight'[u].by = flight'[t].by => u = t
      BY <1>0, <1>12 DEF AsksOnce
    <3>4. \A t \in Slots : flight'[t].ask = "save" => view'.finished
      BY <1>0, <1>12, <2>6 DEF AsksOnce
    <3> QED
      BY <3>2, <3>3, <3>4 DEF AsksOnce
  <2>9. extra'.agree => AgreeInv(view', flight', server'.hides)
    <3> SUFFICES ASSUME extra'.agree PROVE AgreeInv(view', flight', server.hides)
      BY <1>3
    <3>1. AgreeInv(view, flight, server.hides)
      BY <1>0, <1>9, <1>11
\* The start runs still, so that no save is under way.
    <3>2. \A t \in Slots : flight[t].ask # "save"
      BY <1>0, <2>2 DEF AsksOnce, FrameOf, StartInv
    <3>3. flight[s].got = "ok" => flight[s].hides = server.hides
      BY <1>3, <1>14, <3>1 DEF AgreeInv
    <3>4. view'.config # None => view'.config = server.hides
      BY <1>6, <2>5, <3>1, <3>2, <3>3 DEF AgreeInv
    <3>5. \A t \in Slots : flight'[t].ask # "save"
      BY <1>12, <3>2
    <3> QED
      BY <1>12, <3>1, <3>4, <3>5 DEF AgreeInv
  <2> QED
    BY <1>1, <1>3, <1>7, <1>10, <2>5, <2>8, <2>9 DEF FrameInv
<1> QED
  BY <1>13, <1>14

\* A page that is being loaded, as the frame of a page should be.
LEMMA LoadingIsFrame ==
  /\ FrameOf(Frame!Loading)
  /\ Frame!Loading.config = None
<1> DEFINE d == Frame!Loading
<1>1. PICK n \in Nat \ {0} : n = Len(BootSteps)
  BY FrameGiven
<1>2. Sections[1] \in Frame!All
  BY FrameGiven DEF Frame!All, Frame!ToSet
<1>3. PICK first : first = Sections[1] /\ first \in Frame!All /\ first # "traffic"
  BY <1>2, FrameGiven
<1> DEFINE starts == [b \in Starts |-> Frame!Resting]
<1>4. starts \in [Starts -> RunStates] /\ \A b \in Starts : ~(starts[b].step > 0)
  <2>1. 0 \in 0 .. n /\ 0 \in 0 .. Frame!Retries
    BY <1>1 DEF Frame!Retries
  <2>2. Frame!Resting \in RunStates /\ Frame!Resting.step = 0
    BY <1>1, <2>1 DEF Frame!Resting, RunStates
  <2> QED
    BY <2>2
<1>5. d = [auth |-> None, booting |-> TRUE, login |-> FALSE,
           running |-> FALSE, finished |-> FALSE, done |-> 0,
           starts |-> starts, again |-> FALSE, fallback |-> TRUE,
           config |-> None, off |-> {}, active |-> {first}, panel |-> first,
           blank |-> FALSE, polls |-> FALSE]
  BY <1>3 DEF Frame!Loading
<1> HIDE DEF starts
<1>6. 0 \in 0 .. n /\ {} \in Frame!CanHide
  BY <1>1 DEF Frame!CanHide
<1> HIDE DEF d
<1>7. d \in Frame!Frame
  BY <1>1, <1>3, <1>4, <1>5, <1>6 DEF Frame!Frame, RunStates
<1>8. d.panel = first /\ d.active = {first} /\ d.off = {} /\ d.config = None /\ d.auth = None
      /\ d.done = 0 /\ d.starts = starts
  BY <1>5
<1>9. ~d.blank /\ ~d.polls /\ ~d.finished /\ ~d.running /\ ~d.login /\ d.booting
  BY <1>5
<1>10. MenuInv(d)
  BY <1>3, <1>8, <1>9 DEF MenuInv
<1>11. LoginInv(d)
  BY <1>8, <1>9, FrameGiven DEF LoginInv
<1>12. StartInv(d)
  BY <1>4, <1>8, <1>9 DEF StartInv
<1> QED
  BY <1>7, <1>8, <1>10, <1>11, <1>12 DEF FrameOf, d

\* With nothing under way there is nothing to keep.
LEMMA NoneAsks ==
  /\ Frame!NoRequests \in [Slots -> FrameRequests]
  /\ \A s \in Slots : Frame!NoRequests[s].ask = "none"
BY DEF Frame!NoRequests, Frame!Unused, FrameRequests

\* A save of the configuration, its answer, and what happens elsewhere.
LEMMA FrameSaves ==
  ASSUME FrameInv,
         \/ \E hides \in Frame!CanHide : Frame!Save(hides)
         \/ \E s \in Slots : Frame!Saves(s) \/ Frame!Saved(s) \/ Frame!SaveLost(s)
         \/ Frame!LogIn \/ Frame!SavedElsewhere \/ Frame!Expire
  PROVE  FrameInv'
<1>0. view \in Frame!Frame /\ LoginInv(view) /\ StartInv(view) /\ FrameOf(view) /\ AsksOnce(view, flight)
      /\ (extra.agree => AgreeInv(view, flight, server.hides))
  BY DEF FrameInv, FrameOf
<1>1. flight \in [Slots -> FrameRequests] /\ server \in [session : BOOLEAN, hides : Frame!CanHide]
      /\ extra \in [changes : 0 .. MaxFrameChanges, agree : BOOLEAN]
  BY DEF FrameInv
<1>2. \A s \in Slots : flight[s].ask = "save" =>
        flight[s] \in [ask : {"save"}, by : {None}, got : {"nothing", "ok", "refused"}, hides : Frame!CanHide]
  BY <1>1, FrameAsked
<1>3. ASSUME NEW agree \in BOOLEAN, extra.changes < MaxFrameChanges, extra' = [Frame!Changed EXCEPT !.agree = agree]
      PROVE  extra' \in [changes : 0 .. MaxFrameChanges, agree : BOOLEAN] /\ extra'.agree = agree
  <2>1. extra.changes + 1 \in 0 .. MaxFrameChanges
    BY <1>1, <1>3, FrameGiven
  <2>2. extra' = [extra EXCEPT !.changes = extra.changes + 1, !.agree = agree]
    BY <1>1, <1>3 DEF Frame!Changed
  <2>3. extra' \in [changes : 0 .. MaxFrameChanges, agree : BOOLEAN]
    BY <1>1, <2>1, <2>2
  <2>4. extra'.agree = agree
    BY <1>1, <2>2
  <2> QED
    BY <2>3, <2>4
\* While a save is under way the page has started, and asks for nothing else.
<1>4. (\E s \in Slots : flight[s].ask = "save") => \A t \in Slots : flight[t].ask = "config" => flight[t].by = None
  <2>1. \A s \in Slots : flight[s].ask = "config" => flight[s].by \in Starts \cup {None}
    BY <1>1, FrameAsked
  <2> QED
    BY <1>0, <2>1 DEF AsksOnce, StartInv
<1>5. ASSUME NEW hides \in Frame!CanHide, Frame!Save(hides) PROVE FrameInv'
  <2> DEFINE q == [ask |-> "save", by |-> None, got |-> "nothing", hides |-> hides]
             agree == extra.agree /\ ~Frame!Awaits(flight, "save")
  <2>1. Frame!Room(flight) /\ flight' = Frame!Send(flight, q) /\ UNCHANGED <<view, server>>
        /\ extra' = [Frame!Changed EXCEPT !.agree = agree] /\ extra.changes < MaxFrameChanges
    <3>1. Frame!Room(flight) /\ flight' = Frame!Send(flight, q) /\ UNCHANGED <<view, server>> /\ Frame!Change
          /\ extra' = [Frame!Changed EXCEPT !.agree = @ /\ ~Frame!Awaits(flight, "save")]
      BY <1>5 DEF Frame!Save
    <3>2. Frame!Changed.agree = extra.agree
      BY <1>1 DEF Frame!Changed
    <3> QED
      BY <3>1, <3>2 DEF Frame!Change
  <2>2. view.finished
    BY <1>0, <1>5 DEF Frame!Save, Frame!AtWork, LoginInv
  <2>3. q \in FrameRequests /\ q.ask = "save" /\ q.by = None /\ q.got = "nothing"
    BY DEF FrameRequests
  <2> HIDE DEF q
  <2>4. agree \in BOOLEAN /\ (agree => extra.agree /\ \A s \in Slots : flight[s].ask # "save")
    BY <1>1 DEF Frame!Awaits
  <2> HIDE DEF agree
  <2>5. extra' \in [changes : 0 .. MaxFrameChanges, agree : BOOLEAN] /\ extra'.agree = agree
    BY <1>3, <2>1, <2>4
  <2>6. PICK s \in Slots : /\ flight[s].ask = "none" /\ flight' \in [Slots -> FrameRequests] /\ flight'[s] = q
                           /\ \A t \in Slots \ {s} : flight'[t] = flight[t]
    <3>1. Frame!Room(flight)
      BY <2>1
    <3>2. \E s \in Slots : /\ flight[s].ask = "none" /\ Frame!Send(flight, q) \in [Slots -> FrameRequests]
                           /\ Frame!Send(flight, q)[s] = q
                           /\ \A t \in Slots \ {s} : Frame!Send(flight, q)[t] = flight[t]
      BY <1>1, <2>3, <3>1, FrameSends
    <3> QED
      BY <2>1, <3>2
  <2>7. \A t \in Slots : (t = s /\ flight'[t].ask = "save" /\ flight'[t].got = "nothing") \/ flight'[t] = flight[t]
    BY <2>3, <2>6
  <2>8. AsksOnce(view', flight')
    <3>1. \A t \in Slots : flight'[t].ask = "config" => flight'[t] = flight[t]
      BY <2>7
    <3>2. \A t \in Slots : flight'[t].ask = "save" => view'.finished
      BY <2>1, <2>2
    <3> QED
      BY <1>0, <2>1, <3>1, <3>2 DEF AsksOnce
  <2>9. extra'.agree => AgreeInv(view', flight', server'.hides)
    <3> SUFFICES ASSUME agree PROVE AgreeInv(view, flight', server.hides)
      BY <2>1, <2>5
    <3>1. AgreeInv(view, flight, server.hides) /\ \A t \in Slots : flight[t].ask # "save"
      BY <1>0, <2>4
    <3>2. \A t \in Slots : flight'[t].ask = "save" => t = s /\ flight'[t].got = "nothing"
      BY <2>7, <3>1
    <3>3. \A t \in Slots : flight'[t].ask = "config" => flight'[t] = flight[t]
      BY <2>7
    <3> QED
      BY <3>1, <3>2, <3>3 DEF AgreeInv
  <2> QED
    BY <1>0, <1>1, <2>1, <2>5, <2>6, <2>8, <2>9 DEF FrameInv
<1>6. ASSUME NEW s \in Slots, Frame!Saves(s) PROVE FrameInv'
  <2>1. flight[s].ask = "save" /\ flight[s].got = "nothing" /\ UNCHANGED <<view, extra>>
    BY <1>6 DEF Frame!Saves
  <2>2. PICK got \in {"ok", "refused"} :
          /\ flight' = [flight EXCEPT ![s].got = got]
          /\ \/ got = "ok" /\ server' = [server EXCEPT !.hides = flight[s].hides]
             \/ got = "refused" /\ server' = server
    BY <1>6 DEF Frame!Saves
  <2> DEFINE q == [flight[s] EXCEPT !.got = got]
  <2>3. flight' = [flight EXCEPT ![s] = q]
    BY <1>1, <2>2
  <2>4. q \in FrameRequests /\ q.ask = "save" /\ q.hides = flight[s].hides /\ q.got = got
    BY <1>2, <2>1 DEF FrameRequests
  <2> HIDE DEF q
  <2>5. flight' \in [Slots -> FrameRequests] /\ flight'[s] = q /\ \A t \in Slots \ {s} : flight'[t] = flight[t]
    BY <1>1, <2>3, <2>4
  <2>6. flight[s].hides \in Frame!CanHide
    BY <1>2, <2>1
  <2>7. server' \in [session : BOOLEAN, hides : Frame!CanHide]
        /\ server'.hides = IF got = "ok" THEN flight[s].hides ELSE server.hides
    BY <1>1, <2>2, <2>6
  <2>8. \A t \in Slots : flight'[t].ask = flight[t].ask /\ (flight[t].ask = "config" => flight'[t] = flight[t])
    BY <2>1, <2>4, <2>5
  <2>9. AsksOnce(view', flight')
    BY <1>0, <2>1, <2>8 DEF AsksOnce
  <2>10. extra'.agree => AgreeInv(view', flight', server'.hides)
    <3> SUFFICES ASSUME extra.agree PROVE AgreeInv(view, flight', server'.hides)
      BY <2>1
    <3>1. AgreeInv(view, flight, server.hides)
      BY <1>0
    <3>2. \A t \in Slots : flight[t].ask = "save" => t = s
      BY <2>1, <3>1 DEF AgreeInv
    <3>3. \A t \in Slots : flight'[t].ask = "config" => flight'[t].by = None
      BY <1>4, <2>1, <2>8
    <3>4. \A t \in Slots : flight'[t].ask = "save" => t = s
      BY <2>8, <3>2
    <3>5. flight'[s].ask = "save" /\ flight'[s].hides = flight[s].hides /\ flight'[s].got = got
      BY <2>4, <2>5
    <3>6. got = "refused" => (view.config # None => view.config = server'.hides)
      BY <2>1, <2>7, <3>1, <3>2 DEF AgreeInv
    <3> QED
      BY <2>7, <3>3, <3>4, <3>5, <3>6 DEF AgreeInv
  <2> QED
    BY <1>0, <1>1, <2>1, <2>5, <2>7, <2>9, <2>10 DEF FrameInv
<1>7. ASSUME NEW s \in Slots, Frame!Saved(s) PROVE FrameInv'
  <2>1. flight[s].ask = "save" /\ flight' = Frame!Over(flight, s) /\ UNCHANGED <<server, extra>>
        /\ view' = IF flight[s].got = "ok" THEN Frame!Menu(view, flight[s].hides) ELSE view
    BY <1>7 DEF Frame!Saved, Frame!Taken
  <2>2. flight' \in [Slots -> FrameRequests] /\ flight'[s].ask = "none" /\ \A t \in Slots \ {s} : flight'[t] = flight[t]
    BY <1>1, <2>1, FrameDrops
  <2>3. flight[s].hides \in Frame!CanHide
    BY <1>2, <2>1
  <2>4. FrameOf(view') /\ view'.starts = view.starts /\ view'.finished = view.finished
        /\ view'.config = IF flight[s].got = "ok" THEN flight[s].hides ELSE view.config
    BY <1>0, <2>1, <2>3, MenuKeeps
  <2>5. \A t \in Slots : flight'[t].ask = "config" \/ flight'[t].ask = "save" => t # s /\ flight'[t] = flight[t]
    BY <2>2
  <2>6. AsksOnce(view', flight')
    BY <1>0, <2>4, <2>5 DEF AsksOnce
  <2>7. extra'.agree => AgreeInv(view', flight', server'.hides)
    <3> SUFFICES ASSUME extra.agree PROVE AgreeInv(view', flight', server.hides)
      BY <2>1
    <3>1. AgreeInv(view, flight, server.hides)
      BY <1>0
    <3>2. \A t \in Slots : flight[t].ask = "save" => t = s
      BY <2>1, <3>1 DEF AgreeInv
    <3>3. \A t \in Slots : flight'[t].ask # "save"
      BY <2>5, <3>2
    <3>4. view'.config # None => view'.config = server.hides
      BY <2>1, <2>4, <3>1, <3>2 DEF AgreeInv
    <3> QED
      BY <2>5, <3>1, <3>3, <3>4 DEF AgreeInv
  <2> QED
    BY <1>1, <2>1, <2>2, <2>4, <2>6, <2>7 DEF FrameInv
<1>8. ASSUME NEW s \in Slots, Frame!SaveLost(s) PROVE FrameInv'
  <2>1. flight' = Frame!Over(flight, s) /\ UNCHANGED <<view, server>> /\ extra' = [extra EXCEPT !.agree = FALSE]
    BY <1>8 DEF Frame!SaveLost
  <2>2. flight' \in [Slots -> FrameRequests] /\ flight'[s].ask = "none" /\ \A t \in Slots \ {s} : flight'[t] = flight[t]
    BY <1>1, <2>1, FrameDrops
  <2>3. extra' \in [changes : 0 .. MaxFrameChanges, agree : BOOLEAN] /\ ~extra'.agree
    BY <1>1, <2>1
  <2> QED
    BY <1>0, <1>1, <2>1, <2>2, <2>3, FrameQuiet
<1>9. CASE Frame!LogIn
  <2>1. view' = Frame!Loading /\ flight' = Frame!NoRequests /\ server' = [server EXCEPT !.session = TRUE]
        /\ extra' = [Frame!Changed EXCEPT !.agree = TRUE] /\ extra.changes < MaxFrameChanges
    BY <1>9 DEF Frame!LogIn, Frame!Change
  <2>2. extra' \in [changes : 0 .. MaxFrameChanges, agree : BOOLEAN]
    BY <1>3, <2>1
  <2>3. server' \in [session : BOOLEAN, hides : Frame!CanHide]
    BY <1>1, <2>1
  <2>4. flight' \in [Slots -> FrameRequests] /\ \A s \in Slots : flight'[s].ask = "none"
    BY <2>1, NoneAsks
  <2>5. FrameOf(view') /\ view'.config = None
    BY <2>1, LoadingIsFrame
  <2>6. AsksOnce(view', flight')
    BY <2>4 DEF AsksOnce
  <2>7. AgreeInv(view', flight', server'.hides)
    BY <2>4, <2>5 DEF AgreeInv
  <2> QED
    BY <2>2, <2>3, <2>4, <2>5, <2>6, <2>7 DEF FrameInv
<1>10. CASE Frame!SavedElsewhere
  <2> DEFINE agree == extra.agree /\ view.config = None /\ flight = Frame!NoRequests
  <2>1. UNCHANGED <<view, flight>> /\ extra.changes < MaxFrameChanges
        /\ extra' = [Frame!Changed EXCEPT !.agree = agree]
    <3>1. UNCHANGED <<view, flight>> /\ Frame!Change
          /\ extra' = [Frame!Changed EXCEPT !.agree = @ /\ view.config = None /\ flight = Frame!NoRequests]
      BY <1>10 DEF Frame!SavedElsewhere
    <3>2. Frame!Changed.agree = extra.agree
      BY <1>1 DEF Frame!Changed
    <3> QED
      BY <3>1, <3>2 DEF Frame!Change
  <2>2. PICK hides \in Frame!CanHide : server' = [server EXCEPT !.hides = hides]
    BY <1>10 DEF Frame!SavedElsewhere
  <2>3. server' \in [session : BOOLEAN, hides : Frame!CanHide]
    BY <1>1, <2>2
  <2>4. agree \in BOOLEAN /\ (agree => view.config = None /\ \A s \in Slots : flight[s].ask = "none")
    BY <1>1, NoneAsks
  <2> HIDE DEF agree
  <2>5. extra' \in [changes : 0 .. MaxFrameChanges, agree : BOOLEAN] /\ extra'.agree = agree
    BY <1>3, <2>1, <2>4
  <2>6. extra'.agree => AgreeInv(view', flight', server'.hides)
    BY <2>1, <2>4, <2>5 DEF AgreeInv
  <2> QED
    BY <1>0, <1>1, <2>1, <2>3, <2>5, <2>6 DEF FrameInv
<1>11. CASE Frame!Expire
  <2>1. UNCHANGED <<view, flight>> /\ extra.changes < MaxFrameChanges /\ extra' = Frame!Changed
        /\ server' = [server EXCEPT !.session = FALSE]
    BY <1>11 DEF Frame!Expire, Frame!Change
  <2>2. server' \in [session : BOOLEAN, hides : Frame!CanHide]
    BY <1>1, <2>1
  <2>3. server'.hides = server.hides
    BY <1>1, <2>1
  <2>4. extra.changes + 1 \in 0 .. MaxFrameChanges
    BY <1>1, <2>1, FrameGiven
  <2>5. extra' = [extra EXCEPT !.changes = extra.changes + 1]
    BY <2>1 DEF Frame!Changed
  <2>6. extra' \in [changes : 0 .. MaxFrameChanges, agree : BOOLEAN]
    BY <1>1, <2>4, <2>5
  <2>7. extra'.agree = extra.agree
    BY <1>1, <2>5
  <2> QED
    BY <1>0, <1>1, <2>1, <2>2, <2>3, <2>6, <2>7 DEF FrameInv
<1> QED
  BY <1>5, <1>6, <1>7, <1>8, <1>9, <1>10, <1>11

\* The invariant is kept.
LEMMA FrameSteps == FrameInv /\ Frame!Next => FrameInv'
BY FrameStarts, FrameAsks, FrameArrives, FrameSaves DEF Frame!Next

\* The invariant holds of a page that is being loaded.
LEMMA FrameStart == Frame!Init => FrameInv
<1> SUFFICES ASSUME Frame!Init PROVE FrameInv
  OBVIOUS
<1>1. view = Frame!Loading /\ flight = Frame!NoRequests /\ server \in [session : BOOLEAN, hides : Frame!CanHide]
      /\ extra = [changes |-> 0, agree |-> TRUE]
  BY DEF Frame!Init
<1>2. extra \in [changes : 0 .. MaxFrameChanges, agree : BOOLEAN]
  <2>1. 0 \in 0 .. MaxFrameChanges
    BY FrameGiven
  <2> QED
    BY <1>1, <2>1
<1>3. flight \in [Slots -> FrameRequests] /\ \A s \in Slots : flight[s].ask = "none"
  BY <1>1, NoneAsks
<1>4. FrameOf(view) /\ view.config = None
  BY <1>1, LoadingIsFrame
<1>5. AsksOnce(view, flight) /\ AgreeInv(view, flight, server.hides)
  BY <1>3, <1>4 DEF AsksOnce, AgreeInv
<1> QED
  BY <1>1, <1>2, <1>3, <1>4, <1>5 DEF FrameInv

-----------------------------------------------------------------------------
(* Scripts and the run that is followed.                                   *)

\* What the panel is given.
LEMMA ScriptsGiven ==
  Pieces \in Nat /\ MaxRuns \in Nat /\ MaxScripts \in Nat \ {0}
BY PageAssumption

\* What the panel shows; the runs and the library; the history.
ScriptViews ==
  [current : 0 .. MaxRuns, output : [run : 0 .. MaxRuns, pieces : 0 .. Pieces],
   table : UNION {[1 .. n -> BOOLEAN] : n \in 0 .. MaxRuns},
   listed : 0 .. MaxScripts, chosen : 0 .. MaxScripts]
\* The runs and the library.
ScriptServers == [runs : Seq(0 .. Pieces), library : 1 .. MaxScripts]
\* The history variables of the panel.
ScriptPast == [crossed : BOOLEAN, failed : BOOLEAN, loops : BOOLEAN]

\* A request, and what a slot may hold.
ScriptAsked ==
  [ask : Scripts!Asks, run : 0 .. MaxRuns, running : BOOLEAN, back : {"no", "ok"}, got : Seq(Nat)]
\* What a slot may hold.
ScriptSlots == {Scripts!Unused, Scripts!Sleeping} \cup ScriptAsked

\* The run follows.
InLoop(q) == q.ask \in {"detail", "table", "sleep"}

\* An answer is about runs there are, and the page follows a run that was started.
AnswerOf(q, runs, current) ==
  /\ q \in ScriptSlots
  /\ q.ask = "start" /\ q.back = "ok" => q.got[1] \in 1 .. Len(runs)
  /\ q.ask = "detail" => /\ q.run \in 1 .. Len(runs)
                         /\ q.back = "ok" => q.got[1] \in 0 .. runs[q.run]
  /\ q.ask = "table" /\ q.back = "ok" => q.got \in Seq(0 .. Pieces) /\ Len(q.got) <= MaxRuns
  /\ q.ask = "scripts" /\ q.back = "ok" => q.got[1] \in 1 .. MaxScripts
  /\ InLoop(q) => current > 0

\* The loop will ask for the output again.
AsksAgain(q) == q.ask \in {"detail", "sleep"} \/ (q.ask = "table" /\ q.running)

\* The loop's last table will tell that the run is over.
WillTell(q, runs, current) ==
  /\ q.ask = "table" /\ ~q.running
  /\ q.back = "ok" => current \in 1 .. Len(q.got) /\ q.got[current] = Pieces
  /\ q.back # "ok" => runs[current] = Pieces

\* All of the current run is shown, in the output and in the table.
AllShown(p) == p.output = [run |-> p.current, pieces |-> Pieces]
\* The table tells that the current run is over.
EndShown(p) == p.current \in DOMAIN p.table /\ p.table[p.current]

\* The output is complete, or the loop asks again.
OutputFollows(p, fl) == AllShown(p) \/ \E s \in Slots : AsksAgain(fl[s])

\* Each loop asks again or ends well, and without one the table is complete.
TableFollows(p, fl, runs) ==
  /\ \A s \in Slots : InLoop(fl[s]) => AsksAgain(fl[s]) \/ WillTell(fl[s], runs, p.current)
  /\ (\E s \in Slots : InLoop(fl[s])) \/ EndShown(p)

\* The inductive invariant of the panel.
ScriptsInv ==
  /\ view \in ScriptViews /\ view.current <= Len(server.runs) /\ view.chosen <= view.listed
  /\ server \in ScriptServers /\ Len(server.runs) <= MaxRuns
  /\ flight \in [Slots -> ScriptSlots]
  /\ \A s \in Slots : AnswerOf(flight[s], server.runs, view.current)
  /\ extra \in ScriptPast
  /\ ~extra.failed /\ ~extra.crossed /\ view.current > 0 => OutputFollows(view, flight)
  /\ ~extra.failed /\ ~extra.crossed /\ ~extra.loops /\ view.current > 0 => TableFollows(view, flight, server.runs)

\* The invariant implies the types and the properties of the panel.
LEMMA ScriptsMean ==
  ScriptsInv => Scripts!TypeOK /\ Scripts!FollowedToTheEnd /\ Scripts!TableOfTheEnd
<1> SUFFICES ASSUME ScriptsInv PROVE Scripts!TypeOK /\ Scripts!FollowedToTheEnd /\ Scripts!TableOfTheEnd
  OBVIOUS
<1>1. server.runs \in Seq(0 .. Pieces) /\ server.library \in 1 .. MaxScripts /\ Len(server.runs) <= MaxRuns
  BY DEF ScriptsInv, ScriptServers
<1>2. PICK runs \in Seq(0 .. Pieces) : runs = server.runs
  BY <1>1
<1>3. Len(runs) \in 0 .. MaxRuns /\ runs \in [1 .. Len(runs) -> 0 .. Pieces]
  BY <1>1, <1>2, ScriptsGiven
<1>4. server.runs \in UNION {[1 .. n -> 0 .. Pieces] : n \in 0 .. MaxRuns}
  BY <1>2, <1>3
<1>5. server \in [runs : UNION {[1 .. n -> 0 .. Pieces] : n \in 0 .. MaxRuns}, library : 0 .. MaxScripts]
  <2>1. server = [runs |-> server.runs, library |-> server.library]
    BY DEF ScriptsInv, ScriptServers
  <2>2. server.library \in 0 .. MaxScripts
    BY <1>1, ScriptsGiven
  <2> QED
    BY <1>4, <2>1, <2>2
<1>6. Scripts!TypeOK
  BY <1>5 DEF ScriptsInv, ScriptViews, ScriptPast, Scripts!TypeOK
<1>7. Scripts!Loops = {} => \A s \in Slots : ~InLoop(flight[s])
  BY DEF Scripts!Loops, InLoop
<1>8. \A q : AsksAgain(q) => InLoop(q)
  BY DEF AsksAgain, InLoop
<1>9. Scripts!FollowedToTheEnd
  BY <1>7, <1>8 DEF ScriptsInv, OutputFollows, AllShown, Scripts!FollowedToTheEnd
<1>10. Scripts!TableOfTheEnd
  BY <1>7, <1>8 DEF ScriptsInv, TableFollows, EndShown, Scripts!TableOfTheEnd
<1> QED
  BY <1>6, <1>9, <1>10

\* What is in a sequence.
LEMMA ElementOf ==
  ASSUME NEW S, NEW r \in Seq(S), NEW i \in 1 .. Len(r)
  PROVE  r[i] \in S
  OBVIOUS

\* One more element at the end of a sequence.
LEMMA OneMoreRun ==
  ASSUME NEW S, NEW r \in Seq(S), NEW x \in S
  PROVE  \E m \in Seq(S) : /\ m = Append(r, x) /\ Len(m) = Len(r) + 1
                           /\ \A i \in 1 .. Len(r) : m[i] = r[i] /\ r[i] \in S
<1> DEFINE m == Append(r, x)
<1>1. m \in Seq(S) /\ Len(m) = Len(r) + 1
  OBVIOUS
<1>2. \A i \in 1 .. Len(r) : m[i] = r[i] /\ r[i] \in S
  OBVIOUS
<1> HIDE DEF m
<1>3. m = Append(r, x)
  BY DEF m
<1> QED
  BY <1>1, <1>2, <1>3

\* The sequence of one number.
LEMMA OneNumber ==
  ASSUME NEW n \in Nat
  PROVE  <<n>> \in Seq(Nat) /\ <<n>>[1] = n
  OBVIOUS

\* Counts of pieces are natural numbers.
LEMMA NumbersOf ==
  ASSUME NEW r \in Seq(0 .. Pieces)
  PROVE  r \in Seq(Nat)
<1>1. \A i \in 1 .. Len(r) : r[i] \in Nat
  BY ElementOf, ScriptsGiven
<1> QED
  BY <1>1

\* The runs have gone on.
Longer(r, t) == Len(r) <= Len(t) /\ \A i \in 1 .. Len(r) : r[i] <= t[i]

\* What was answered of them is true still.
LEMMA TrueStill ==
  ASSUME NEW q, NEW r \in Seq(0 .. Pieces), NEW t \in Seq(0 .. Pieces), Longer(r, t),
         NEW current \in 0 .. Len(r), AnswerOf(q, r, current)
  PROVE  /\ AnswerOf(q, t, current)
         /\ current > 0 /\ WillTell(q, r, current) => WillTell(q, t, current)
<1>1. Len(r) \in Nat /\ Len(t) \in Nat /\ Len(r) <= Len(t)
      /\ \A i \in 1 .. Len(r) : r[i] \in 0 .. Pieces /\ t[i] \in 0 .. Pieces /\ r[i] <= t[i] /\ i \in 1 .. Len(t)
  <2>1. Len(r) \in Nat /\ Len(t) \in Nat /\ Len(r) <= Len(t) /\ \A i \in 1 .. Len(r) : r[i] <= t[i]
    BY DEF Longer
  <2>2. \A i \in 1 .. Len(r) : i \in 1 .. Len(t)
    BY <2>1
  <2> QED
    BY <2>1, <2>2, ElementOf
<1>2. q.ask = "start" /\ q.back = "ok" => q.got[1] \in 1 .. Len(t)
  BY <1>1 DEF AnswerOf
<1>3. q.ask = "detail" => q.run \in 1 .. Len(t) /\ (q.back = "ok" => q.got[1] \in 0 .. t[q.run])
  BY <1>1 DEF AnswerOf
<1>4. AnswerOf(q, t, current)
  BY <1>2, <1>3 DEF AnswerOf
<1>5. current > 0 /\ r[current] = Pieces => t[current] = Pieces
  BY <1>1, ScriptsGiven
<1> QED
  BY <1>4, <1>5 DEF WillTell

\* A slot changes, the page shows the same: what has to be seen.
LEMMA FollowsOn ==
  ASSUME ScriptsInv, NEW s \in Slots, NEW q, flight' = [flight EXCEPT ![s] = q],
         server' \in ScriptServers, Len(server'.runs) <= MaxRuns, Longer(server.runs, server'.runs),
         view' \in ScriptViews, view'.current = view.current, view'.output = view.output, view'.table = view.table,
         view'.chosen <= view'.listed, AnswerOf(q, server'.runs, view.current), extra' = extra,
         InLoop(q) <=> InLoop(flight[s]), AsksAgain(flight[s]) => AsksAgain(q),
         view.current > 0 /\ WillTell(flight[s], server.runs, view.current)
           => AsksAgain(q) \/ WillTell(q, server'.runs, view.current)
  PROVE  ScriptsInv'
<1>1. PICK r \in Seq(0 .. Pieces), t \in Seq(0 .. Pieces) : r = server.runs /\ t = server'.runs
  BY DEF ScriptsInv, ScriptServers
<1>2. PICK current \in 0 .. Len(r) : current = view.current /\ current \in 0 .. MaxRuns
  BY <1>1, ScriptsGiven DEF ScriptsInv, ScriptViews
<1>3. \A u \in Slots : AnswerOf(flight[u], r, current)
  BY <1>1, <1>2 DEF ScriptsInv
<1>4. Longer(r, t) /\ AnswerOf(q, t, current) /\ Len(r) <= Len(t) /\ Len(r) \in Nat /\ Len(t) \in Nat
  BY <1>1, <1>2 DEF Longer
<1>5. \A u \in Slots : /\ AnswerOf(flight[u], t, current)
                       /\ current > 0 /\ WillTell(flight[u], r, current) => WillTell(flight[u], t, current)
  BY <1>3, <1>4, TrueStill
<1>6. q \in ScriptSlots /\ flight \in [Slots -> ScriptSlots]
  BY <1>4 DEF AnswerOf, ScriptsInv
<1>7. flight' \in [Slots -> ScriptSlots] /\ flight'[s] = q /\ \A u \in Slots \ {s} : flight'[u] = flight[u]
  BY <1>6
<1>8. \A u \in Slots : AnswerOf(flight'[u], t, current)
  BY <1>4, <1>5, <1>7
<1>9. AllShown(view) => AllShown(view')
  BY DEF AllShown
<1>10. OutputFollows(view, flight) => OutputFollows(view', flight')
  BY <1>7, <1>9 DEF OutputFollows
<1>11. EndShown(view) => EndShown(view')
  BY DEF EndShown
<1>12. view.current > 0 /\ TableFollows(view, flight, server.runs) => TableFollows(view', flight', server'.runs)
  <2> SUFFICES ASSUME current > 0, TableFollows(view, flight, r) PROVE TableFollows(view', flight', t)
    BY <1>1, <1>2
  <2>1. view'.current = current
    BY <1>2
  <2>2. ASSUME NEW u \in Slots, InLoop(flight'[u])
        PROVE  AsksAgain(flight'[u]) \/ WillTell(flight'[u], t, current)
    <3>1. CASE u = s
      BY <1>1, <1>2, <1>7, <2>2, <3>1 DEF TableFollows
    <3>2. CASE u # s
      BY <1>2, <1>5, <1>7, <2>2, <3>2 DEF TableFollows
    <3> QED
      BY <3>1, <3>2
  <2>3. (\E u \in Slots : InLoop(flight[u])) => \E u \in Slots : InLoop(flight'[u])
    BY <1>7
  <2> QED
    BY <1>11, <2>1, <2>2, <2>3 DEF TableFollows
<1>13. view'.current <= Len(server'.runs)
  BY <1>1, <1>2, <1>4
<1> QED
  BY <1>1, <1>2, <1>7, <1>8, <1>10, <1>12, <1>13 DEF ScriptsInv

\* A request before and after its answer.
WithAnswer(q, got) == [q EXCEPT !.back = "ok", !.got = got]

\* Whatever the answer, the panel keeps its invariant when it arrives.
LEMMA AnswerArrives ==
  ASSUME NEW q \in ScriptAsked, NEW got \in Seq(Nat)
  PROVE  /\ WithAnswer(q, got) \in ScriptAsked
         /\ WithAnswer(q, got).ask = q.ask /\ WithAnswer(q, got).run = q.run
         /\ WithAnswer(q, got).back = "ok" /\ WithAnswer(q, got).got = got
         /\ WithAnswer(q, got).running = q.running
<1>1. WithAnswer(q, got).running = q.running
  BY DEF ScriptAsked, WithAnswer
<1> QED
  BY <1>1 DEF ScriptAsked, WithAnswer

\* A request as it is sent.
LEMMA RequestSent ==
  ASSUME NEW ask \in Scripts!Asks, NEW run \in 0 .. MaxRuns, NEW running \in BOOLEAN
  PROVE  /\ Scripts!Request(ask, run, running) \in ScriptAsked
         /\ Scripts!Request(ask, run, running).ask = ask /\ Scripts!Request(ask, run, running).run = run
         /\ Scripts!Request(ask, run, running).back = "no" /\ Scripts!Request(ask, run, running).got = <<>>
         /\ Scripts!Request(ask, run, running).running = running
<1>1. Scripts!Request(ask, run, running).running = running
  BY DEF Scripts!Request
<1>2. <<>> \in Seq(Nat)
  OBVIOUS
<1> QED
  BY <1>1, <1>2 DEF ScriptAsked, Scripts!Request

\* A start or an upload is sent, the library is read again, the run is asked for.
LEMMA PlainRequestSent ==
  ASSUME NEW ask \in Scripts!Asks
  PROVE  \E q \in ScriptAsked : q = Scripts!Request(ask, 0, FALSE) /\ q.ask = ask /\ q.back = "no"
<1> DEFINE q == [ask |-> ask, run |-> 0, running |-> FALSE, back |-> "no", got |-> <<>>]
<1>1. 0 \in 0 .. MaxRuns /\ <<>> \in Seq(Nat)
  BY ScriptsGiven
<1>2. q \in ScriptAsked
  BY <1>1 DEF ScriptAsked
<1>3. q = Scripts!Request(ask, 0, FALSE)
  BY DEF Scripts!Request
<1>4. q.ask = ask /\ q.back = "no"
  OBVIOUS
<1> HIDE DEF q
<1> QED
  BY <1>2, <1>3, <1>4

\* The request for the output of a run.
LEMMA DetailRequestSent ==
  ASSUME NEW run \in 0 .. MaxRuns
  PROVE  \E q \in ScriptAsked : q = Scripts!Request("detail", run, TRUE) /\ q.ask = "detail" /\ q.back = "no" /\ q.run = run
<1> DEFINE q == [ask |-> "detail", run |-> run, running |-> TRUE, back |-> "no", got |-> <<>>]
<1>1. "detail" \in Scripts!Asks /\ <<>> \in Seq(Nat)
  BY DEF Scripts!Asks
<1>2. q \in ScriptAsked
  BY <1>1 DEF ScriptAsked
<1>3. q = Scripts!Request("detail", run, TRUE)
  BY DEF Scripts!Request
<1>4. q.ask = "detail" /\ q.back = "no" /\ q.run = run
  OBVIOUS
<1> HIDE DEF q
<1> QED
  BY <1>2, <1>3, <1>4

\* Every step of the panel keeps its invariant.
LEMMA ScriptsSteps == ScriptsInv /\ Scripts!Next => ScriptsInv'
<1> SUFFICES ASSUME ScriptsInv, Scripts!Next PROVE ScriptsInv'
  OBVIOUS
<1>0. /\ view \in ScriptViews /\ view.current <= Len(server.runs) /\ view.chosen <= view.listed
      /\ server \in ScriptServers /\ Len(server.runs) <= MaxRuns /\ flight \in [Slots -> ScriptSlots]
      /\ (\A s \in Slots : AnswerOf(flight[s], server.runs, view.current)) /\ extra \in ScriptPast
      /\ (~extra.failed /\ ~extra.crossed /\ view.current > 0 => OutputFollows(view, flight))
      /\ (~extra.failed /\ ~extra.crossed /\ ~extra.loops /\ view.current > 0 => TableFollows(view, flight, server.runs))
  BY DEF ScriptsInv
<1>01. /\ Scripts!Unused.ask = "none" /\ Scripts!Sleeping.ask = "sleep"
       /\ Scripts!Unused \in ScriptSlots /\ Scripts!Sleeping \in ScriptSlots
       /\ "start" \in Scripts!Asks /\ "upload" \in Scripts!Asks /\ "scripts" \in Scripts!Asks
       /\ "detail" \in Scripts!Asks /\ "table" \in Scripts!Asks
       /\ "none" \notin Scripts!Asks /\ "sleep" \notin Scripts!Asks
  BY DEF ScriptSlots, Scripts!Unused, Scripts!Sleeping, Scripts!Asks
<1>02. \A s \in Slots : flight[s].ask \in Scripts!Asks => flight[s] \in ScriptAsked
  BY <1>0, <1>01 DEF ScriptSlots
<1>03. PICK runs \in Seq(0 .. Pieces) : runs = server.runs /\ Len(runs) \in Nat /\ Len(runs) <= MaxRuns
  BY <1>0 DEF ScriptServers
<1>04. Longer(runs, runs)
  BY <1>03, ScriptsGiven DEF Longer
<1>05. view.current \in 0 .. MaxRuns /\ server.library \in 1 .. MaxScripts
  BY <1>0 DEF ScriptViews, ScriptServers
\* A request that follows no run takes a free slot.
<1>1. ASSUME NEW ask \in {"start", "upload"}, flight' = Scripts!Send(flight, Scripts!Request(ask, 0, FALSE)),
             Scripts!Room(flight), UNCHANGED <<view, server, extra>>
      PROVE  ScriptsInv'
  <2>1. PICK s \in Slots : flight[s] = Scripts!Unused
                           /\ Scripts!Send(flight, Scripts!Request(ask, 0, FALSE)) = [flight EXCEPT ![s] = Scripts!Request(ask, 0, FALSE)]
    BY <1>1 DEF Scripts!Room, Scripts!Send
  <2>2. 0 \in 0 .. MaxRuns /\ ask \in Scripts!Asks
    BY <1>01, ScriptsGiven
  <2>3. PICK q \in ScriptAsked : q = Scripts!Request(ask, 0, FALSE) /\ q.ask = ask /\ q.back = "no"
    BY <2>2, PlainRequestSent
  <2>4. AnswerOf(q, server'.runs, view.current)
    BY <2>3 DEF AnswerOf, ScriptSlots, InLoop
  <2>5. ~InLoop(q) /\ ~InLoop(flight[s]) /\ ~AsksAgain(flight[s]) /\ ~WillTell(flight[s], server.runs, view.current)
    BY <1>01, <2>1, <2>3 DEF InLoop, AsksAgain, WillTell
  <2>6. flight' = [flight EXCEPT ![s] = q] /\ Longer(server.runs, server'.runs)
    BY <1>03, <1>04, <1>1, <2>1, <2>3
  <2> QED
    BY <1>0, <1>1, <2>4, <2>5, <2>6, FollowsOn
<1>2. CASE Scripts!Start
  BY <1>1, <1>2 DEF Scripts!Start
<1>3. CASE Scripts!Upload
  BY <1>1, <1>3 DEF Scripts!Upload
<1>4. ASSUME NEW r \in DOMAIN server.runs, Scripts!Write(r) PROVE ScriptsInv'
  <2> DEFINE more == [runs EXCEPT ![r] = @ + 1]
  <2>1. server' = [server EXCEPT !.runs = more] /\ UNCHANGED <<view, flight, extra>>
    BY <1>0, <1>03, <1>4 DEF Scripts!Write, ScriptServers
  <2>2. r \in 1 .. Len(runs) /\ runs[r] \in 0 .. Pieces /\ runs[r] < Pieces
    <3>1. r \in 1 .. Len(runs) /\ runs[r] < Pieces
      BY <1>03, <1>4 DEF Scripts!Write
    <3> QED
      BY <3>1, ElementOf
  <2>3. more \in Seq(0 .. Pieces) /\ Len(more) = Len(runs)
    BY <2>2, ScriptsGiven
  <2>4. Longer(runs, more)
    <3>1. \A i \in 1 .. Len(runs) : runs[i] \in 0 .. Pieces /\ (i # r => more[i] = runs[i]) /\ (i = r => more[i] = runs[i] + 1)
      <4>1. \A i \in 1 .. Len(runs) : (i # r => more[i] = runs[i]) /\ (i = r => more[i] = runs[i] + 1)
        OBVIOUS
      <4> QED
        BY <4>1, ElementOf
    <3> HIDE DEF more
    <3>2. \A i \in 1 .. Len(runs) : runs[i] <= more[i]
      BY <3>1
    <3> QED
      BY <1>03, <2>3, <3>2 DEF Longer
  <2> HIDE DEF more
  <2>5. server' \in ScriptServers /\ server'.runs = more
    BY <1>0, <2>1, <2>3 DEF ScriptServers
  <2>6. PICK current \in 0 .. Len(runs) : current = view.current
    BY <1>0, <1>03, <1>05
  <2>7. \A s \in Slots : AnswerOf(flight[s], runs, current)
    BY <1>0, <1>03, <2>6
  <2>8. \A s \in Slots : /\ AnswerOf(flight[s], more, current)
                         /\ current > 0 /\ WillTell(flight[s], runs, current) => WillTell(flight[s], more, current)
    BY <2>3, <2>4, <2>6, <2>7, TrueStill
  <2>9. view.current > 0 /\ TableFollows(view, flight, server.runs) => TableFollows(view, flight, more)
    BY <1>03, <2>6, <2>8 DEF TableFollows
  <2>10. view'.current <= Len(server'.runs) /\ Len(server'.runs) <= MaxRuns
    BY <1>0, <1>03, <2>1, <2>3, <2>5
  <2>11. \A s \in Slots : AnswerOf(flight'[s], server'.runs, view'.current)
    BY <2>1, <2>5, <2>6, <2>8
  <2> QED
    BY <1>0, <2>1, <2>5, <2>9, <2>10, <2>11 DEF ScriptsInv
\* Another script is chosen, or the list is made anew.
<1>5. ASSUME NEW k \in 1 .. view.listed, Scripts!Choose(k) PROVE ScriptsInv'
  <2>1. view' = [view EXCEPT !.chosen = k] /\ UNCHANGED <<flight, server, extra>>
    BY <1>5 DEF Scripts!Choose
  <2>2. view.listed \in 0 .. MaxScripts /\ k \in 0 .. MaxScripts /\ k <= view.listed
    BY <1>0, <1>5, ScriptsGiven DEF ScriptViews
  <2>3. view' \in ScriptViews
    BY <1>0, <2>1, <2>2 DEF ScriptViews
  <2>4. view'.current = view.current /\ view'.output = view.output /\ view'.table = view.table
        /\ view'.chosen = k /\ view'.listed = view.listed
    BY <1>0, <2>1, <2>2 DEF ScriptViews
  <2>5. AllShown(view') <=> AllShown(view)
    BY <2>4 DEF AllShown
  <2>6. EndShown(view') <=> EndShown(view)
    BY <2>4 DEF EndShown
  <2>7. OutputFollows(view, flight) => OutputFollows(view', flight')
    BY <2>1, <2>5 DEF OutputFollows
  <2>8. TableFollows(view, flight, server.runs) => TableFollows(view', flight', server'.runs)
    BY <2>1, <2>4, <2>6 DEF TableFollows
  <2> QED
    BY <1>0, <2>1, <2>2, <2>3, <2>4, <2>7, <2>8 DEF ScriptsInv
\* A request is answered.
<1>6. ASSUME NEW s \in Slots, NEW got \in Seq(Nat), flight[s].ask \in Scripts!Asks, flight[s].back = "no",
             flight' = [flight EXCEPT ![s].back = "ok", ![s].got = got],
             server' \in ScriptServers, Len(server'.runs) <= MaxRuns, Longer(server.runs, server'.runs),
             UNCHANGED <<view, extra>>,
             AnswerOf(WithAnswer(flight[s], got), server'.runs, view.current),
             flight[s].ask = "table" /\ view.current > 0 /\ server.runs[view.current] = Pieces
               => view.current \in 1 .. Len(got) /\ got[view.current] = Pieces
      PROVE  ScriptsInv'
  <2>1. PICK p \in ScriptAsked : p = flight[s]
    BY <1>02, <1>6
  <2>2. PICK q \in ScriptAsked : q = WithAnswer(p, got) /\ q.ask = p.ask /\ q.back = "ok" /\ q.got = got
    BY AnswerArrives
  <2>3. q.running = p.running
    BY <2>2, AnswerArrives
  <2>4. flight' = [flight EXCEPT ![s] = q]
    BY <1>0, <1>6, <2>1, <2>2 DEF WithAnswer
  <2>5. InLoop(q) <=> InLoop(flight[s])
    BY <2>1, <2>2 DEF InLoop
  <2>6. AsksAgain(flight[s]) => AsksAgain(q)
    BY <2>1, <2>2, <2>3 DEF AsksAgain
  <2>7. p.back # "ok" /\ q.back = "ok"
    BY <1>6, <2>1, <2>2
  <2>8. view.current > 0 /\ WillTell(flight[s], server.runs, view.current) => WillTell(q, server'.runs, view.current)
    BY <1>6, <2>1, <2>2, <2>3, <2>7 DEF WillTell
  <2>9. AnswerOf(q, server'.runs, view.current)
    BY <1>6, <2>1, <2>2
  <2>10. view' \in ScriptViews /\ view'.current = view.current /\ view'.output = view.output
         /\ view'.table = view.table /\ view'.chosen <= view'.listed /\ extra' = extra
    BY <1>0, <1>6
  <2> QED
    BY <1>6, <2>4, <2>5, <2>6, <2>8, <2>9, <2>10, FollowsOn
<1>7. ASSUME NEW s \in Slots, Scripts!Served(s) PROVE ScriptsInv'
  <2>0. flight[s].ask \in Scripts!Asks /\ flight[s].back = "no" /\ UNCHANGED <<view, extra>>
    BY <1>7 DEF Scripts!Served
  <2>1. PICK p \in ScriptAsked : p = flight[s]
    BY <1>02, <2>0
  <2>2. AnswerOf(p, runs, view.current)
    BY <1>0, <1>03, <2>1
  <2>3. CASE flight[s].ask = "start" /\ Len(server.runs) < MaxRuns /\ server' = [server EXCEPT !.runs = Append(@, 0)]
             /\ Scripts!Answer(s, <<Len(server.runs) + 1>>)
    <3>0. 0 \in 0 .. Pieces
      BY ScriptsGiven
    <3>1. PICK more \in Seq(0 .. Pieces) :
            /\ more = Append(runs, 0) /\ Len(more) = Len(runs) + 1
            /\ \A i \in 1 .. Len(runs) : more[i] = runs[i] /\ runs[i] \in 0 .. Pieces
      BY <3>0, OneMoreRun
    <3>2. Len(more) = Len(runs) + 1 /\ \A i \in 1 .. Len(runs) : more[i] = runs[i] /\ runs[i] \in 0 .. Pieces
      BY <3>1
    <3>3. Longer(runs, more)
      BY <1>03, <3>2, ScriptsGiven DEF Longer
    <3>4. server' = [server EXCEPT !.runs = more]
      BY <1>03, <2>3, <3>1
    <3>5. server' \in ScriptServers /\ server'.runs = more
      BY <1>0, <3>4 DEF ScriptServers
    <3>6. PICK got \in Seq(Nat) : got = <<Len(runs) + 1>> /\ got[1] = Len(runs) + 1
      BY <1>03, OneNumber, Len(runs) + 1 \in Nat
    <3>7. flight' = [flight EXCEPT ![s].back = "ok", ![s].got = got]
      BY <1>03, <2>3, <3>6 DEF Scripts!Answer
    <3>8. WithAnswer(p, got) \in ScriptAsked /\ WithAnswer(p, got).ask = "start" /\ WithAnswer(p, got).got[1] \in 1 .. Len(more)
      <4>1. WithAnswer(p, got) \in ScriptAsked /\ WithAnswer(p, got).ask = p.ask /\ WithAnswer(p, got).got = got
        BY AnswerArrives
      <4>2. got[1] \in 1 .. Len(more)
        BY <1>03, <3>2, <3>6
      <4> QED
        BY <2>1, <2>3, <4>1, <4>2
    <3>9. AnswerOf(WithAnswer(p, got), more, view.current)
      BY <3>8 DEF AnswerOf, ScriptSlots, InLoop
    <3>10. Len(more) <= MaxRuns
      BY <1>03, <2>3, <3>2, ScriptsGiven
    <3>11. Len(server'.runs) <= MaxRuns /\ Longer(server.runs, server'.runs)
           /\ AnswerOf(WithAnswer(flight[s], got), server'.runs, view.current)
           /\ flight[s].ask # "table"
      BY <1>03, <2>1, <2>3, <3>3, <3>5, <3>9, <3>10
    <3> QED
      BY <1>6, <2>0, <3>5, <3>7, <3>11
  <2>4. CASE flight[s].ask = "upload" /\ server.library < MaxScripts /\ server' = [server EXCEPT !.library = @ + 1]
             /\ Scripts!Answer(s, <<>>)
    <3>1. server.library + 1 \in 1 .. MaxScripts
      BY <1>05, <2>4, ScriptsGiven
    <3>2. server' \in ScriptServers /\ server'.runs = runs
      BY <1>0, <1>03, <2>4, <3>1 DEF ScriptServers
    <3>3. PICK got \in Seq(Nat) : got = <<>>
      BY <<>> \in Seq(Nat)
    <3>4. flight' = [flight EXCEPT ![s].back = "ok", ![s].got = got]
      BY <2>4, <3>3 DEF Scripts!Answer
    <3>5. WithAnswer(p, got) \in ScriptAsked /\ WithAnswer(p, got).ask = "upload"
      BY <2>1, <2>4, AnswerArrives
    <3>6. AnswerOf(WithAnswer(p, got), runs, view.current)
      BY <3>5 DEF AnswerOf, ScriptSlots, InLoop
    <3>7. Len(server'.runs) <= MaxRuns /\ Longer(server.runs, server'.runs)
          /\ AnswerOf(WithAnswer(flight[s], got), server'.runs, view.current) /\ flight[s].ask # "table"
      BY <1>03, <1>04, <2>1, <2>4, <3>2, <3>6
    <3> QED
      BY <1>6, <2>0, <3>2, <3>4, <3>7
  \* What is answered without a change.
  <2>5. ASSUME NEW got \in Seq(Nat), server' = server, Scripts!Answer(s, got),
               AnswerOf(WithAnswer(p, got), runs, view.current),
               p.ask = "table" => got = runs
        PROVE  ScriptsInv'
    <3>1. flight' = [flight EXCEPT ![s].back = "ok", ![s].got = got]
      BY <2>5 DEF Scripts!Answer
    <3>2. server' \in ScriptServers /\ Len(server'.runs) <= MaxRuns /\ Longer(server.runs, server'.runs)
          /\ AnswerOf(WithAnswer(flight[s], got), server'.runs, view.current)
      BY <1>0, <1>03, <1>04, <2>1, <2>5
    <3>3. flight[s].ask = "table" /\ view.current > 0 /\ server.runs[view.current] = Pieces
            => view.current \in 1 .. Len(got) /\ got[view.current] = Pieces
      BY <1>0, <1>03, <1>05, <2>1, <2>5
    <3> QED
      BY <1>6, <2>0, <3>1, <3>2, <3>3
  <2>6. CASE flight[s].ask = "detail" /\ Scripts!Answer(s, <<server.runs[flight[s].run]>>) /\ server' = server
    <3>0. p.run \in 1 .. Len(runs)
      BY <2>1, <2>2, <2>6 DEF AnswerOf
    <3>1. p.run \in 1 .. Len(runs) /\ runs[p.run] \in 0 .. Pieces /\ runs[p.run] \in Nat
      BY <3>0, ElementOf, ScriptsGiven
    <3>2. PICK got \in Seq(Nat) : got = <<runs[p.run]>> /\ got[1] = runs[p.run]
      BY <3>1, OneNumber
    <3>3. WithAnswer(p, got) \in ScriptAsked /\ WithAnswer(p, got).ask = "detail" /\ WithAnswer(p, got).run = p.run
          /\ WithAnswer(p, got).got[1] \in 0 .. runs[p.run]
      <4>1. WithAnswer(p, got) \in ScriptAsked /\ WithAnswer(p, got).ask = p.ask /\ WithAnswer(p, got).got = got
            /\ WithAnswer(p, got).run = p.run
        BY AnswerArrives
      <4>2. got[1] \in 0 .. runs[p.run]
        BY <3>1, <3>2
      <4> QED
        BY <2>1, <2>6, <4>1, <4>2
    <3>4. InLoop(p) /\ view.current > 0
      BY <2>1, <2>2, <2>6 DEF AnswerOf, InLoop
    <3>5. AnswerOf(WithAnswer(p, got), runs, view.current)
      BY <3>1, <3>3, <3>4 DEF AnswerOf, ScriptSlots
    <3>6. Scripts!Answer(s, got) /\ p.ask # "table"
      BY <1>03, <2>1, <2>6, <3>2
    <3> QED
      BY <2>5, <2>6, <3>5, <3>6
  <2>7. CASE flight[s].ask = "table" /\ Scripts!Answer(s, server.runs) /\ server' = server
    <3>1. PICK got \in Seq(Nat) : got = runs
      BY NumbersOf
    <3>2. WithAnswer(p, got) \in ScriptAsked /\ WithAnswer(p, got).ask = "table" /\ WithAnswer(p, got).got = runs
      BY <2>1, <2>7, <3>1, AnswerArrives
    <3>3. InLoop(p) /\ view.current > 0
      BY <2>1, <2>2, <2>7 DEF AnswerOf, InLoop
    <3>4. AnswerOf(WithAnswer(p, got), runs, view.current)
      BY <1>03, <3>2, <3>3 DEF AnswerOf, ScriptSlots
    <3>5. Scripts!Answer(s, got)
      BY <1>03, <2>7, <3>1
    <3> QED
      BY <2>5, <2>7, <3>1, <3>4, <3>5
  <2>8. CASE flight[s].ask = "scripts" /\ Scripts!Answer(s, <<server.library>>) /\ server' = server
    <3>1. PICK got \in Seq(Nat) : got = <<server.library>> /\ got[1] = server.library
      <4>1. server.library \in Nat
        BY <1>05, ScriptsGiven
      <4> QED
        BY <4>1, OneNumber
    <3>2. WithAnswer(p, got) \in ScriptAsked /\ WithAnswer(p, got).ask = "scripts" /\ WithAnswer(p, got).got[1] \in 1 .. MaxScripts
      BY <1>05, <2>1, <2>8, <3>1, AnswerArrives
    <3>3. AnswerOf(WithAnswer(p, got), runs, view.current)
      BY <3>2 DEF AnswerOf, ScriptSlots, InLoop
    <3>4. Scripts!Answer(s, got) /\ p.ask # "table"
      BY <2>1, <2>8, <3>1
    <3> QED
      BY <2>5, <2>8, <3>3, <3>4
  <2> QED
    BY <1>7, <2>3, <2>4, <2>6, <2>7, <2>8 DEF Scripts!Served
\* A request that follows no run is over, or another one takes its place.
<1>8. ASSUME NEW s \in Slots, NEW q, flight' = [flight EXCEPT ![s] = q], ~InLoop(flight[s]), ~InLoop(q),
             AnswerOf(q, runs, view.current),
             view' \in ScriptViews, view'.current = view.current, view'.output = view.output, view'.table = view.table,
             view'.chosen <= view'.listed, extra' = extra, server' = server
      PROVE  ScriptsInv'
  <2>1. ~AsksAgain(flight[s]) /\ ~WillTell(flight[s], server.runs, view.current)
    BY <1>8 DEF InLoop, AsksAgain, WillTell
  <2>2. server' \in ScriptServers /\ Len(server'.runs) <= MaxRuns /\ Longer(server.runs, server'.runs)
        /\ AnswerOf(q, server'.runs, view.current)
    BY <1>0, <1>03, <1>04, <1>8
  <2> QED
    BY <1>8, <2>1, <2>2, FollowsOn
<1>9. AnswerOf(Scripts!Unused, runs, view.current) /\ ~InLoop(Scripts!Unused)
  BY <1>01 DEF AnswerOf, InLoop
<1>10. ASSUME NEW s \in Slots, Scripts!Refused(s) PROVE ScriptsInv'
  <2>1. flight' = [flight EXCEPT ![s] = Scripts!Unused] /\ UNCHANGED <<view, server, extra>> /\ ~InLoop(flight[s])
    BY <1>10 DEF Scripts!Refused, Scripts!Over, InLoop
  <2> QED
    BY <1>0, <1>8, <1>9, <2>1
<1>11. ASSUME NEW s \in Slots, Scripts!Uploaded(s) PROVE ScriptsInv'
  <2>1. PICK q \in ScriptAsked : q = Scripts!Request("scripts", 0, FALSE) /\ q.ask = "scripts" /\ q.back = "no"
    BY <1>01, PlainRequestSent
  <2>2. flight' = [flight EXCEPT ![s] = q] /\ UNCHANGED <<view, server, extra>> /\ ~InLoop(flight[s])
    BY <1>11, <2>1 DEF Scripts!Uploaded, InLoop
  <2>3. AnswerOf(q, runs, view.current) /\ ~InLoop(q)
    BY <2>1 DEF AnswerOf, ScriptSlots, InLoop
  <2> QED
    BY <1>0, <1>8, <2>2, <2>3
<1>12. ASSUME NEW s \in Slots, Scripts!ScriptsArrive(s) PROVE ScriptsInv'
  <2>1. PICK n \in 1 .. MaxScripts : n = flight[s].got[1]
    BY <1>0, <1>12 DEF Scripts!ScriptsArrive, AnswerOf
  <2>2. view' = [view EXCEPT !.listed = n, !.chosen = 1] /\ flight' = [flight EXCEPT ![s] = Scripts!Unused]
        /\ UNCHANGED <<server, extra>> /\ ~InLoop(flight[s])
    BY <1>12, <2>1 DEF Scripts!ScriptsArrive, Scripts!Over, InLoop
  <2>3. n \in 0 .. MaxScripts /\ 1 \in 0 .. MaxScripts /\ 1 <= n
    BY <2>1, ScriptsGiven
  <2>4. view' \in ScriptViews
    BY <1>0, <2>2, <2>3 DEF ScriptViews
  <2>5. view'.current = view.current /\ view'.output = view.output /\ view'.table = view.table
        /\ view'.chosen = 1 /\ view'.listed = n
    BY <1>0, <2>2, <2>3 DEF ScriptViews
  <2> QED
    BY <1>8, <1>9, <2>2, <2>3, <2>4, <2>5
<1>13. ASSUME NEW s \in Slots, Scripts!Awakes(s) PROVE ScriptsInv'
  <2>1. flight[s].ask = "sleep" /\ flight' = [flight EXCEPT ![s] = Scripts!Request("detail", view.current, TRUE)]
        /\ UNCHANGED <<view, server, extra>>
    BY <1>13 DEF Scripts!Awakes, Scripts!NextTurn
  <2>2. PICK q \in ScriptAsked : q = Scripts!Request("detail", view.current, TRUE) /\ q.ask = "detail" /\ q.back = "no"
                                 /\ q.run = view.current
    BY <1>05, DetailRequestSent
  <2>3. view.current \in 1 .. Len(runs) /\ view.current > 0
    BY <1>0, <1>03, <1>05, <2>1 DEF AnswerOf, InLoop
  <2>4. AnswerOf(q, runs, view.current)
    BY <2>2, <2>3 DEF AnswerOf, ScriptSlots
  <2>5. InLoop(q) /\ InLoop(flight[s]) /\ AsksAgain(q)
    BY <2>1, <2>2 DEF InLoop, AsksAgain
  <2>6. flight' = [flight EXCEPT ![s] = q] /\ server' \in ScriptServers /\ Len(server'.runs) <= MaxRuns
        /\ Longer(server.runs, server'.runs) /\ AnswerOf(q, server'.runs, view.current)
    BY <1>0, <1>03, <1>04, <2>1, <2>2, <2>4
  <2>7. view' \in ScriptViews /\ view'.current = view.current /\ view'.output = view.output
        /\ view'.table = view.table /\ view'.chosen <= view'.listed /\ extra' = extra
    BY <1>0, <2>1
  <2> QED
    BY <2>5, <2>6, <2>7, FollowsOn
\* A slot of the loop changes, and what it is for the page is seen case by case.
<1>14. ASSUME NEW s \in Slots, NEW q, flight' = [flight EXCEPT ![s] = q], server' = server,
              view' \in ScriptViews, view'.current \in 1 .. Len(runs), view'.chosen <= view'.listed,
              AnswerOf(q, runs, view'.current), extra' \in ScriptPast,
              ~extra'.failed /\ ~extra'.crossed => OutputFollows(view', flight'),
              ~extra'.failed /\ ~extra'.crossed /\ ~extra'.loops => TableFollows(view', flight', runs)
       PROVE  ScriptsInv'
  <2>1. q \in ScriptSlots
    BY <1>14 DEF AnswerOf
  <2>2. flight' \in [Slots -> ScriptSlots]
    BY <1>0, <1>14, <2>1
  <2>3. \A u \in Slots : AnswerOf(flight[u], runs, view.current)
    BY <1>0, <1>03
  <2>4. view'.current > 0 /\ view'.current <= Len(runs)
    BY <1>03, <1>14
  <2>5. \A u \in Slots : AnswerOf(flight[u], runs, view'.current)
    BY <2>3, <2>4 DEF AnswerOf
  <2>6. \A u \in Slots : AnswerOf(flight'[u], runs, view'.current)
    BY <1>0, <1>14, <2>5
  <2> QED
    BY <1>0, <1>03, <1>14, <2>2, <2>4, <2>6 DEF ScriptsInv
<1>15. ASSUME NEW s \in Slots, Scripts!Started(s) PROVE ScriptsInv'
  <2> DEFINE l == extra.loops \/ Scripts!Loops # {}
  <2>1. PICK n \in 1 .. Len(runs) : n = flight[s].got[1]
    BY <1>0, <1>03, <1>15 DEF Scripts!Started, AnswerOf
  <2>2. view' = [view EXCEPT !.current = n] /\ flight' = [flight EXCEPT ![s] = Scripts!Request("detail", n, TRUE)]
        /\ extra' = [extra EXCEPT !.loops = l] /\ server' = server
    BY <1>0, <1>15, <2>1 DEF Scripts!Started, ScriptPast
  <2>3. l \in BOOLEAN /\ (~l => \A u \in Slots : ~InLoop(flight[u]))
    BY <1>0 DEF ScriptPast, Scripts!Loops, InLoop
  <2> HIDE DEF l
  <2>4. extra' \in ScriptPast /\ extra'.loops = l
    BY <1>0, <2>2, <2>3 DEF ScriptPast
  <2>5. n \in 0 .. MaxRuns
    BY <1>03, ScriptsGiven
  <2>6. view' \in ScriptViews /\ view'.current = n /\ view'.chosen = view.chosen /\ view'.listed = view.listed
    BY <1>0, <2>2, <2>5 DEF ScriptViews
  <2>7. PICK q \in ScriptAsked : q = Scripts!Request("detail", n, TRUE) /\ q.ask = "detail" /\ q.back = "no" /\ q.run = n
    BY <2>5, DetailRequestSent
  <2>8. AnswerOf(q, runs, n) /\ AsksAgain(q) /\ InLoop(q)
    <3>1. n > 0 /\ q \in ScriptSlots
      BY <1>03 DEF ScriptSlots
    <3> QED
      BY <2>7, <3>1 DEF AnswerOf, AsksAgain, InLoop
  <2>9. flight' = [flight EXCEPT ![s] = q] /\ flight'[s] = q /\ \A u \in Slots \ {s} : flight'[u] = flight[u]
    BY <1>0, <2>2, <2>7
  <2>10. OutputFollows(view', flight')
    BY <2>8, <2>9 DEF OutputFollows
  <2>11. ~l => TableFollows(view', flight', runs)
    BY <2>3, <2>8, <2>9 DEF TableFollows
  <2>12. ~extra'.loops => TableFollows(view', flight', runs)
    BY <2>4, <2>11
  <2>13. view'.current \in 1 .. Len(runs) /\ view'.chosen <= view'.listed /\ AnswerOf(q, runs, view'.current)
    BY <1>0, <2>6, <2>8
  <2> QED
    BY <1>14, <2>2, <2>4, <2>6, <2>9, <2>10, <2>12, <2>13
<1>16. ASSUME NEW s \in Slots, Scripts!DetailArrives(s) PROVE ScriptsInv'
  <2>1. PICK p \in ScriptAsked : p = flight[s] /\ p.ask = "detail" /\ p.back = "ok"
    BY <1>01, <1>02, <1>16 DEF Scripts!DetailArrives
  <2>2. PICK n \in 0 .. Pieces : n = p.got[1] /\ n <= runs[p.run]
    <3>1. AnswerOf(p, runs, view.current)
      BY <1>0, <1>03, <2>1
    <3>2. p.run \in 1 .. Len(runs) /\ p.got[1] \in 0 .. runs[p.run]
      BY <2>1, <3>1 DEF AnswerOf
    <3>3. runs[p.run] \in 0 .. Pieces
      BY <3>2, ElementOf
    <3> QED
      BY <3>2, <3>3, ScriptsGiven
  <2>3. p.run \in 1 .. Len(runs) /\ p.run \in 0 .. MaxRuns /\ runs[p.run] \in 0 .. Pieces /\ view.current > 0
    <3>1. AnswerOf(p, runs, view.current) /\ InLoop(p)
      BY <1>0, <1>03, <2>1 DEF InLoop
    <3> QED
      BY <1>03, <2>1, <3>1, ScriptsGiven DEF AnswerOf
  <2> DEFINE c == extra.crossed \/ p.run # view.current
             out == [run |-> p.run, pieces |-> n]
             more == n < Pieces
  <2>4. view' = [view EXCEPT !.output = out] /\ flight' = [flight EXCEPT ![s] = Scripts!Request("table", 0, more)]
        /\ extra' = [extra EXCEPT !.crossed = c] /\ server' = server
    BY <1>0, <1>16, <2>1, <2>2 DEF Scripts!DetailArrives, Scripts!Shows, ScriptPast
  <2>5. c \in BOOLEAN /\ (~c => ~extra.crossed /\ p.run = view.current)
    BY <1>0 DEF ScriptPast
  <2>6. out \in [run : 0 .. MaxRuns, pieces : 0 .. Pieces] /\ out.run = p.run /\ out.pieces = n
    BY <2>2, <2>3
  <2>7. more \in BOOLEAN /\ (~more => n = Pieces /\ runs[p.run] = Pieces)
    BY <2>2, <2>3, ScriptsGiven
  <2> HIDE DEF c, more
  <2>8. extra' \in ScriptPast /\ extra'.crossed = c /\ extra'.failed = extra.failed /\ extra'.loops = extra.loops
    <3>1. extra' \in ScriptPast /\ extra'.crossed = c
      BY <1>0, <2>4, <2>5 DEF ScriptPast
    <3>2. extra'.failed = extra.failed /\ extra'.loops = extra.loops
      BY <1>0, <2>4, <2>5 DEF ScriptPast
    <3> QED
      BY <3>1, <3>2
  <2>9. ~more => out = [run |-> p.run, pieces |-> Pieces]
    BY <2>7
  <2> HIDE DEF out
  <2>10. view' \in ScriptViews /\ view'.current = view.current /\ view'.output = out
         /\ view'.chosen = view.chosen /\ view'.listed = view.listed
    BY <1>0, <2>4, <2>6 DEF ScriptViews
  <2>11. PICK q \in ScriptAsked : q = Scripts!Request("table", 0, more) /\ q.ask = "table" /\ q.back = "no"
    BY <1>01, <2>7, ScriptsGiven, RequestSent
  <2>12. q.running = more
    <3>1. PICK m \in BOOLEAN : m = more
      BY <2>7
    <3>2. 0 \in 0 .. MaxRuns
      BY ScriptsGiven
    <3>3. Scripts!Request("table", 0, m).running = m
      BY <1>01, <3>2, RequestSent
    <3> QED
      BY <2>11, <3>1, <3>3
  <2>13. AnswerOf(q, runs, view.current) /\ InLoop(q)
    BY <2>3, <2>11 DEF AnswerOf, ScriptSlots, InLoop
  <2>14. flight' = [flight EXCEPT ![s] = q] /\ flight'[s] = q /\ \A u \in Slots \ {s} : flight'[u] = flight[u]
    BY <1>0, <2>4, <2>11
  <2>15. ~c => OutputFollows(view', flight')
    <3>1. CASE more
      BY <2>11, <2>12, <2>14, <3>1 DEF OutputFollows, AsksAgain
    <3>2. CASE ~more
      BY <2>5, <2>9, <2>10, <3>2 DEF OutputFollows, AllShown
    <3> QED
      BY <3>1, <3>2
  <2>16. ~extra.failed /\ ~c /\ ~extra.loops => TableFollows(view', flight', runs)
    <3> SUFFICES ASSUME ~extra.failed, ~c, ~extra.loops PROVE TableFollows(view', flight', runs)
      OBVIOUS
    <3>1. TableFollows(view, flight, runs) /\ p.run = view.current
      BY <1>0, <1>03, <2>3, <2>5
    <3>2. AsksAgain(q) \/ WillTell(q, runs, view.current)
      <4>1. CASE more
        BY <2>11, <2>12, <4>1 DEF AsksAgain
      <4>2. CASE ~more
        <5>1. runs[view.current] = Pieces
          BY <2>7, <3>1, <4>2
        <5>2. ~q.running
          BY <2>12, <4>2
        <5>3. q.back # "ok"
          BY <2>11
        <5> QED
          BY <2>11, <5>1, <5>2, <5>3 DEF WillTell
      <4> QED
        BY <4>1, <4>2
    <3> QED
      BY <2>10, <2>13, <2>14, <3>1, <3>2 DEF TableFollows
  <2>17. view'.current \in 1 .. Len(runs) /\ view'.chosen <= view'.listed
    BY <1>0, <1>03, <1>05, <2>3, <2>10
  <2>18. ~extra'.failed /\ ~extra'.crossed => OutputFollows(view', flight')
    BY <2>8, <2>15
  <2>19. ~extra'.failed /\ ~extra'.crossed /\ ~extra'.loops => TableFollows(view', flight', runs)
    BY <2>8, <2>16
  <2>20. AnswerOf(q, runs, view'.current)
    BY <2>10, <2>13
  <2> QED
    BY <1>14, <2>4, <2>8, <2>10, <2>14, <2>17, <2>18, <2>19, <2>20
<1>17. ASSUME NEW s \in Slots, Scripts!TableArrives(s) PROVE ScriptsInv'
  <2>1. PICK p \in ScriptAsked : p = flight[s] /\ p.ask = "table" /\ p.back = "ok"
    BY <1>01, <1>02, <1>17 DEF Scripts!TableArrives
  <2>2. AnswerOf(p, runs, view.current) /\ InLoop(p)
    BY <1>0, <1>03, <2>1 DEF InLoop
  <2>3. PICK got \in Seq(0 .. Pieces) : got = p.got /\ Len(got) <= MaxRuns /\ Len(got) \in Nat
    BY <2>1, <2>2 DEF AnswerOf
  <2> DEFINE tab == [r \in 1 .. Len(got) |-> got[r] = Pieces]
  <2>4. view' = [view EXCEPT !.table = tab] /\ UNCHANGED <<server, extra>>
    <3>1. view' = [view EXCEPT !.table = [r \in DOMAIN got |-> got[r] = Pieces]] /\ UNCHANGED <<server, extra>>
      BY <1>17, <2>1, <2>3 DEF Scripts!TableArrives
    <3>2. DOMAIN got = 1 .. Len(got)
      OBVIOUS
    <3> QED
      BY <3>1, <3>2
  <2>5. tab \in [1 .. Len(got) -> BOOLEAN] /\ Len(got) \in 0 .. MaxRuns
    BY <2>3, ScriptsGiven
  <2>6. tab \in UNION {[1 .. n -> BOOLEAN] : n \in 0 .. MaxRuns}
    BY <2>5
  <2>7. view.current \in 1 .. Len(got) /\ got[view.current] = Pieces
          => view.current \in DOMAIN tab /\ tab[view.current]
    OBVIOUS
  <2> HIDE DEF tab
  <2>8. view' \in ScriptViews /\ view'.current = view.current /\ view'.output = view.output /\ view'.table = tab
        /\ view'.chosen = view.chosen /\ view'.listed = view.listed
    BY <1>0, <2>4, <2>6 DEF ScriptViews
  <2>9. view.current > 0
    BY <2>2 DEF AnswerOf
  <2>10. view'.current \in 1 .. Len(runs) /\ view'.chosen <= view'.listed
    BY <1>0, <1>03, <1>05, <2>8, <2>9
  <2>11. AllShown(view) => AllShown(view')
    BY <2>8 DEF AllShown
  <2>12. CASE p.running
    <3>1. flight' = [flight EXCEPT ![s] = Scripts!Sleeping]
      BY <1>17, <2>1, <2>12 DEF Scripts!TableArrives
    <3>2. flight'[s] = Scripts!Sleeping /\ \A u \in Slots \ {s} : flight'[u] = flight[u]
      BY <1>0, <3>1
    <3>3. AsksAgain(Scripts!Sleeping) /\ InLoop(Scripts!Sleeping) /\ AnswerOf(Scripts!Sleeping, runs, view.current)
      BY <1>01, <2>9 DEF AsksAgain, InLoop, AnswerOf
    <3>4. OutputFollows(view', flight')
      BY <3>2, <3>3 DEF OutputFollows
    <3>5. TableFollows(view, flight, runs) => TableFollows(view', flight', runs)
      BY <2>8, <3>2, <3>3 DEF TableFollows
    <3> QED
      BY <1>0, <1>03, <1>14, <2>4, <2>8, <2>9, <2>10, <3>1, <3>3, <3>4, <3>5
  <2>13. CASE ~p.running
    <3>1. flight' = [flight EXCEPT ![s] = Scripts!Unused]
      BY <1>17, <2>1, <2>13 DEF Scripts!TableArrives, Scripts!Over
    <3>2. flight'[s] = Scripts!Unused /\ \A u \in Slots \ {s} : flight'[u] = flight[u]
      BY <1>0, <3>1
    <3>3. ~AsksAgain(p)
      BY <2>1, <2>13 DEF AsksAgain
    <3>4. OutputFollows(view, flight) => OutputFollows(view', flight')
      BY <2>1, <2>11, <3>2, <3>3 DEF OutputFollows
    <3>5. TableFollows(view, flight, runs) => TableFollows(view', flight', runs)
      <4> SUFFICES ASSUME TableFollows(view, flight, runs) PROVE TableFollows(view', flight', runs)
        OBVIOUS
      <4>1. WillTell(p, runs, view.current)
        BY <2>1, <2>2, <3>3 DEF TableFollows
      <4>2. EndShown(view')
        BY <2>1, <2>3, <2>7, <2>8, <4>1 DEF WillTell, EndShown
      <4> QED
        BY <1>9, <2>8, <3>2, <4>2 DEF TableFollows
    <3>6. AnswerOf(Scripts!Unused, runs, view'.current)
      BY <1>9, <2>8
    <3> QED
      BY <1>0, <1>03, <1>14, <2>4, <2>8, <2>9, <2>10, <3>1, <3>4, <3>5, <3>6
  <2> QED
    BY <2>12, <2>13
<1>18. ASSUME NEW s \in Slots, Scripts!Fails(s) PROVE ScriptsInv'
  <2> DEFINE f == extra.failed \/ s \in Scripts!Loops
  <2>1. flight' = [flight EXCEPT ![s] = Scripts!Unused] /\ extra' = [extra EXCEPT !.failed = f]
        /\ UNCHANGED <<view, server>>
    BY <1>0, <1>18 DEF Scripts!Fails, Scripts!Over, ScriptPast
  <2>2. f \in BOOLEAN /\ (InLoop(flight[s]) => f) /\ (~InLoop(flight[s]) => f = extra.failed)
    BY <1>0 DEF ScriptPast, Scripts!Loops, InLoop
  <2> HIDE DEF f
  <2>3. CASE InLoop(flight[s])
    <3>1. extra' \in ScriptPast /\ extra'.failed = f
      BY <1>0, <2>1, <2>2 DEF ScriptPast
    <3>2. view.current > 0
      BY <1>0, <2>3 DEF AnswerOf
    <3>3. view'.current \in 1 .. Len(runs) /\ view' = view
      BY <1>0, <1>03, <1>05, <2>1, <3>2
    <3>4. AnswerOf(Scripts!Unused, runs, view'.current) /\ extra'.failed
      BY <1>9, <2>2, <2>3, <3>1, <3>3
    <3> QED
      BY <1>0, <1>14, <2>1, <3>1, <3>3, <3>4
  <2>4. CASE ~InLoop(flight[s])
    <3>1. extra' = extra
      BY <1>0, <2>1, <2>2, <2>4 DEF ScriptPast
    <3> QED
      BY <1>0, <1>8, <1>9, <2>1, <2>4, <3>1
  <2> QED
    BY <2>3, <2>4
<1> QED
  BY <1>2, <1>3, <1>4, <1>5, <1>7, <1>10, <1>11, <1>12, <1>13, <1>15, <1>16, <1>17, <1>18 DEF Scripts!Next

\* The invariant holds when the panel is opened.
LEMMA ScriptsStart == Scripts!Init => ScriptsInv
<1> SUFFICES ASSUME Scripts!Init PROVE ScriptsInv
  OBVIOUS
<1>1. 0 \in 0 .. MaxRuns /\ 0 \in 0 .. Pieces /\ 1 \in 0 .. MaxScripts /\ 1 \in 1 .. MaxScripts
  BY ScriptsGiven
<1>2. <<>> \in UNION {[1 .. n -> BOOLEAN] : n \in 0 .. MaxRuns}
  <2>1. <<>> \in [1 .. 0 -> BOOLEAN]
    OBVIOUS
  <2> QED
    BY <1>1, <2>1
<1>3. view = [current |-> 0, output |-> [run |-> 0, pieces |-> 0], table |-> <<>>, listed |-> 1, chosen |-> 1]
  BY DEF Scripts!Init, Scripts!NoOutput
<1>4. view \in ScriptViews /\ view.current = 0 /\ view.chosen = 1 /\ view.listed = 1
  BY <1>1, <1>2, <1>3 DEF ScriptViews
<1>5. <<>> \in Seq(0 .. Pieces) /\ Len(<<>>) = 0
  OBVIOUS
<1>6. server \in ScriptServers /\ Len(server.runs) = 0
  BY <1>1, <1>5 DEF Scripts!Init, ScriptServers
<1>7. extra \in ScriptPast
  BY DEF Scripts!Init, ScriptPast
<1>8. Scripts!Unused.ask = "none" /\ Scripts!Unused \in ScriptSlots
  BY DEF Scripts!Unused, ScriptSlots
<1>9. flight \in [Slots -> ScriptSlots] /\ \A s \in Slots : flight[s] = Scripts!Unused
  BY <1>8 DEF Scripts!Init, Scripts!NoRequests
<1>10. \A s \in Slots : AnswerOf(flight[s], server.runs, view.current)
  BY <1>8, <1>9 DEF AnswerOf, InLoop
<1> QED
  BY <1>4, <1>6, <1>7, <1>9, <1>10, ScriptsGiven DEF ScriptsInv

-----------------------------------------------------------------------------
(* Backups and the window directories are picked in.                       *)

\* What the panel is given.
LEMMA BackupsGiven ==
  MaxPicks \in Nat /\ Configured \subseteq {Root, Below, Fresh}
BY PageAssumption

\* The window, the form, what a slot may hold, the history.
Pickers ==
  [use : Backups!Uses \cup {None}, selected : SUBSET Backups!Paths, unfolded : SUBSET Backups!Paths,
   roots : BOOLEAN, cache : SUBSET Backups!Paths,
   drawn : {None} \cup [use : Backups!Uses, selected : SUBSET Backups!Paths]]
\* What is chosen to be archived, and where to.
Forms == [sources : SUBSET Backups!Paths, target : Backups!Paths \cup {None}]
\* What a slot may hold.
BackupRequests ==
  {Backups!Unused} \cup [ask : {"open", "run", "list"}, path : {None}]
                   \cup [ask : {"unfold", "make", "makeTarget", "refold"}, path : Backups!Paths]
\* The history variables of the panel.
BackupPast == [clicks : 0 .. MaxPicks, ticked : [Backups!Uses -> SUBSET Backups!Paths], strayed : BOOLEAN]

\* What may be archived.
Archivable(past) == past.ticked["sources"] \cup Configured

\* What is picked fits whom it is for.
PickedOf(p, past) ==
  /\ p \in Pickers
  /\ p.use # "sources" => \E d \in Backups!Paths : p.selected \subseteq {d}
  /\ ~past.strayed /\ p.use = "sources" => p.selected \subseteq Archivable(past)

\* An open window shows it.
PickerOf(p, past) ==
  /\ PickedOf(p, past)
  /\ p.drawn # None => p.use \in Backups!Uses /\ p.drawn = [use |-> p.use, selected |-> p.selected]

\* The form has only what may be archived.
FormOf(f, past) ==
  /\ f \in Forms
  /\ ~past.strayed => f.sources \subseteq Archivable(past)

\* What will draw the window is asked for after it was opened.
AskedOf(fl, use) ==
  /\ fl \in [Slots -> BackupRequests]
  /\ \A s \in Slots : fl[s].ask \in {"open", "unfold", "make", "refold"} => use \in Backups!Uses

\* The inductive invariant of the panel.
BackupsInv ==
  /\ PickerOf(view, extra)
  /\ FormOf(server, extra)
  /\ AskedOf(flight, view.use)
  /\ extra \in BackupPast

\* Directories are folded, and trees are there.
Folded(p, u, c) == [p EXCEPT !.unfolded = u, !.cache = c]

\* At most one.
LEMMA AtMostOne ==
  ASSUME NEW d, NEW S, S \subseteq {d}
  PROVE  Backups!Cardinality(S) <= 1
<1>1. Backups!Cardinality(S) = Cardinality(S)
  BY DEF Backups!Cardinality, Cardinality
<1>2. S = {} \/ S = {d}
  OBVIOUS
<1>3. Cardinality({}) = 0 /\ Cardinality({d}) = 1
  BY FS_EmptySet, FS_Singleton
<1> QED
  BY <1>1, <1>2, <1>3

\* The invariant implies the types and the properties of the panel.
LEMMA BackupsMean ==
  BackupsInv => Backups!TypeOK /\ Backups!OnlyWhatWasPicked /\ Backups!WindowTellsTheTruth
<1> SUFFICES ASSUME BackupsInv
             PROVE  Backups!TypeOK /\ Backups!OnlyWhatWasPicked /\ Backups!WindowTellsTheTruth
  OBVIOUS
<1>1. Backups!TypeOK
  BY DEF BackupsInv, PickerOf, PickedOf, FormOf, AskedOf, Pickers, Forms, BackupRequests, BackupPast, Backups!TypeOK
<1>2. Backups!OnlyWhatWasPicked
  BY DEF BackupsInv, FormOf, Archivable, Backups!OnlyWhatWasPicked
<1>3. view.use # "sources" => Backups!Cardinality(view.selected) <= 1
  <2> SUFFICES ASSUME view.use # "sources" PROVE Backups!Cardinality(view.selected) <= 1
    OBVIOUS
  <2>1. PICK d \in Backups!Paths : view.selected \subseteq {d}
    BY DEF BackupsInv, PickerOf, PickedOf
  <2>2. PICK S : S = view.selected
    OBVIOUS
  <2>3. Backups!Cardinality(S) <= 1
    BY <2>1, <2>2, AtMostOne
  <2> QED
    BY <2>2, <2>3
<1>4. Backups!WindowTellsTheTruth
  BY <1>3 DEF BackupsInv, PickerOf, Backups!WindowTellsTheTruth, Backups!Closed, Backups!Multi
<1> QED
  BY <1>1, <1>2, <1>4

\* What is drawn is shown.
LEMMA PickerDrawn ==
  ASSUME NEW p, NEW past, PickedOf(p, past), p.use \in Backups!Uses
  PROVE  PickerOf(Backups!Drawn(p), past) /\ Backups!Drawn(p).use = p.use
<1> DEFINE shown == [use |-> p.use, selected |-> p.selected]
           d == [p EXCEPT !.drawn = shown]
<1>1. p \in Pickers
  BY DEF PickedOf
<1>2. shown \in [use : Backups!Uses, selected : SUBSET Backups!Paths]
  BY <1>1 DEF Pickers
<1> HIDE DEF shown
<1>3. d \in Pickers
  BY <1>1, <1>2 DEF Pickers
<1>4. d.drawn = shown /\ d.use = p.use /\ d.selected = p.selected
  BY <1>1 DEF Pickers
<1>5. Backups!Drawn(p) = d
  BY DEF Backups!Drawn, shown
<1> HIDE DEF d
<1> QED
  BY <1>3, <1>4, <1>5 DEF PickerOf, PickedOf, shown

\* A request takes a free slot; it is for a window that was opened, if for any.
LEMMA BackupsSend ==
  ASSUME NEW use, AskedOf(flight, use), Backups!Room(flight), NEW q \in BackupRequests,
         NEW use2, use \in Backups!Uses => use2 \in Backups!Uses,
         q.ask \in {"open", "unfold", "make", "refold"} => use2 \in Backups!Uses
  PROVE  AskedOf(Backups!Send(flight, q), use2)
<1>1. PICK s \in Slots : Backups!Send(flight, q) = [flight EXCEPT ![s] = q]
  BY DEF Backups!Room, Backups!Send
<1> QED
  BY <1>1 DEF AskedOf

\* A slot is free again.
LEMMA BackupsOver ==
  ASSUME NEW use, AskedOf(flight, use), NEW s \in Slots
  PROVE  AskedOf(Backups!Over(flight, s), use)
<1>1. Backups!Unused \in BackupRequests /\ Backups!Unused.ask = "none"
  BY DEF BackupRequests, Backups!Unused
<1> QED
  BY <1>1 DEF AskedOf, Backups!Over

\* Every step of the panel keeps its invariant.
LEMMA BackupsSteps == BackupsInv /\ Backups!Next => BackupsInv'
<1> SUFFICES ASSUME BackupsInv, Backups!Next PROVE BackupsInv'
  OBVIOUS
<1>0. /\ PickerOf(view, extra) /\ PickedOf(view, extra) /\ FormOf(server, extra) /\ AskedOf(flight, view.use)
      /\ view \in Pickers /\ server \in Forms /\ extra \in BackupPast /\ flight \in [Slots -> BackupRequests]
      /\ (~Backups!Closed => view.use \in Backups!Uses)
  BY DEF BackupsInv, PickerOf, PickedOf, FormOf, AskedOf, Backups!Closed
<1>00. /\ Root \in Backups!Paths /\ Below \in Backups!Paths /\ Fresh \in Backups!Paths
       /\ "sources" \in Backups!Uses /\ "target" \in Backups!Uses /\ Configured \in SUBSET Backups!Paths
       /\ \A u \in Backups!Uses : u = "sources" \/ u = "target"
  BY BackupsGiven DEF Backups!Paths, Backups!Uses
<1>01. \A s \in Slots : flight[s].ask \in {"unfold", "make", "makeTarget", "refold"} => flight[s].path \in Backups!Paths
  <2>1. Backups!Unused.ask = "none"
    BY DEF Backups!Unused
  <2> QED
    BY <1>0, <2>1 DEF BackupRequests
\* A click changes nothing else in the history.
<1>1. ASSUME Backups!Click
      PROVE extra' \in BackupPast /\ extra'.ticked = extra.ticked /\ extra'.strayed = extra.strayed
  <2>1. extra'.strayed = extra.strayed
    BY <1>0, <1>1 DEF Backups!Click, BackupPast
  <2> QED
    BY <1>0, <1>1, <2>1, BackupsGiven DEF Backups!Click, BackupPast
<1>2. ASSUME NEW p, extra'.ticked = extra.ticked, extra'.strayed = extra.strayed
      PROVE  /\ PickerOf(p, extra) => PickerOf(p, extra')
             /\ PickedOf(p, extra) => PickedOf(p, extra')
             /\ FormOf(p, extra) => FormOf(p, extra')
  BY <1>2 DEF PickerOf, PickedOf, FormOf, Archivable
<1>3. ASSUME NEW p \in Pickers
      PROVE  /\ Backups!Opened(p).use = p.use
             /\ PickedOf(p, extra) /\ p.use \in Backups!Uses => PickerOf(Backups!Opened(p), extra)
             /\ p.use \in Backups!Uses => Backups!Opened(p).use \in Backups!Uses
  <2> DEFINE cache == p.cache \cup {Root}
             unfolded == p.unfolded \cup {Root}
             q == [p EXCEPT !.roots = TRUE, !.cache = cache, !.unfolded = unfolded]
  <2>1. cache \in SUBSET Backups!Paths /\ unfolded \in SUBSET Backups!Paths
    BY <1>00, <1>3 DEF Pickers
  <2>2. Backups!Opened(p) = Backups!Drawn(q)
    BY <1>3 DEF Backups!Opened, Pickers
  <2> HIDE DEF cache, unfolded
  <2>3. q \in Pickers
    BY <1>3, <2>1 DEF Pickers
  <2>4. q.use = p.use /\ q.selected = p.selected
    BY <1>3, <2>1 DEF Pickers
  <2> HIDE DEF q
  <2>5. PickedOf(p, extra) => PickedOf(q, extra)
    BY <2>3, <2>4 DEF PickedOf
  <2>6. PickedOf(p, extra) /\ p.use \in Backups!Uses => PickerOf(Backups!Drawn(q), extra)
    BY <2>4, <2>5, PickerDrawn
  <2>7. Backups!Drawn(q).use = q.use
    BY <2>3 DEF Backups!Drawn, Pickers
  <2> QED
    BY <2>2, <2>4, <2>6, <2>7
<1>4. ASSUME NEW u \in Backups!Uses, Backups!Open(u) PROVE BackupsInv'
  <2> DEFINE sel == IF u = "sources" THEN server.sources ELSE {server.target} \ {None}
             p == Backups!Prepared(view, u, sel)
             q == [ask |-> "open", path |-> None]
  <2>1. sel \in SUBSET Backups!Paths
    BY <1>0 DEF Forms
  <2>2. u # "sources" => \E d \in Backups!Paths : sel \subseteq {d}
    <3>1. CASE server.target = None
      BY <1>00, <3>1
    <3>2. CASE server.target \in Backups!Paths
      BY <3>2
    <3> QED
      BY <1>0, <3>1, <3>2 DEF Forms
  <2>3. ~extra.strayed /\ u = "sources" => sel \subseteq Archivable(extra)
    BY <1>0 DEF FormOf
  <2>4. Backups!Click /\ server' = server
        /\ \/ view' = Backups!Opened(p) /\ flight' = flight
           \/ view' = p /\ flight' = Backups!Send(flight, q) /\ Backups!Room(flight)
    BY <1>4 DEF Backups!Open
  <2> HIDE DEF sel
  <2>5. p \in Pickers /\ p.use = u /\ p.selected = sel /\ p.drawn = view.drawn
    BY <1>0, <2>1 DEF Pickers, Backups!Prepared
  <2>6. view.drawn = None
    BY <1>4 DEF Backups!Open, Backups!Closed
  <2> HIDE DEF p
  <2>7. PickedOf(p, extra) /\ PickerOf(p, extra)
    BY <2>2, <2>3, <2>5, <2>6 DEF PickedOf, PickerOf
  <2>8. q \in BackupRequests
    BY DEF BackupRequests
  <2> HIDE DEF q
  <2>9. CASE view' = Backups!Opened(p) /\ flight' = flight
    <3>1. PickerOf(view', extra) /\ view'.use = u
      BY <1>3, <2>5, <2>7, <2>9
    <3>2. AskedOf(flight', view'.use)
      BY <1>0, <2>9, <3>1 DEF AskedOf
    <3> QED
      BY <1>0, <1>1, <1>2, <2>4, <3>1, <3>2 DEF BackupsInv
  <2>10. CASE view' = p /\ flight' = Backups!Send(flight, q) /\ Backups!Room(flight)
    <3>1. AskedOf(flight', view'.use)
      BY <1>0, <2>5, <2>8, <2>10, BackupsSend
    <3> QED
      BY <1>0, <1>1, <1>2, <2>4, <2>7, <2>10, <3>1 DEF BackupsInv
  <2> QED
    BY <2>4, <2>9, <2>10
<1>5. ASSUME NEW s \in Slots, Backups!OpenArrives(s) PROVE BackupsInv'
  <2>1. view' = Backups!Opened(view) /\ flight' = Backups!Over(flight, s) /\ UNCHANGED <<server, extra>>
        /\ flight[s].ask = "open"
    BY <1>5 DEF Backups!OpenArrives
  <2>2. view.use \in Backups!Uses
    BY <1>0, <2>1 DEF AskedOf
  <2>3. PickerOf(view', extra) /\ view'.use = view.use
    BY <1>0, <1>3, <2>1, <2>2
  <2>4. AskedOf(flight', view'.use)
    BY <1>0, <2>1, <2>3, BackupsOver
  <2> QED
    BY <1>0, <2>1, <2>3, <2>4 DEF BackupsInv
<1>6. ASSUME NEW path \in Backups!Paths, Backups!Tick(path) PROVE BackupsInv'
  <2> DEFINE sel == IF path \in view.selected THEN view.selected \ {path} ELSE Backups!Added(view.selected, path)
             p == [view EXCEPT !.selected = sel]
             ticked == [extra.ticked EXCEPT ![view.use] = @ \cup {path}]
             clicks == extra.clicks + 1
  <2>1. view' = Backups!Drawn(p) /\ UNCHANGED <<server, flight>> /\ view.use \in Backups!Uses
    BY <1>0, <1>6 DEF Backups!Tick
  <2>2. extra' = [extra EXCEPT !.clicks = clicks, !.ticked = ticked] /\ extra.clicks < MaxPicks
    BY <1>0, <1>6 DEF Backups!Tick, BackupPast
  <2>3. ticked \in [Backups!Uses -> SUBSET Backups!Paths] /\ clicks \in 0 .. MaxPicks
    BY <1>0, <2>1, <2>2, BackupsGiven DEF BackupPast
  <2>4. /\ extra.ticked["sources"] \subseteq ticked["sources"]
        /\ view.use = "sources" => path \in ticked["sources"]
    BY <1>0, <1>00, <2>1 DEF BackupPast
  <2> HIDE DEF ticked, clicks
  <2>5. extra' \in BackupPast /\ extra'.ticked = ticked
    BY <1>0, <2>2, <2>3 DEF BackupPast
  <2>6. extra'.strayed = extra.strayed
    BY <1>0, <2>2, <2>3 DEF BackupPast
  <2>7. Archivable(extra) \subseteq Archivable(extra') /\ (view.use = "sources" => path \in Archivable(extra'))
    BY <2>4, <2>5 DEF Archivable
  <2>8. view.selected \in SUBSET Backups!Paths
    BY <1>0 DEF Pickers
  <2>9. sel \in SUBSET Backups!Paths
    BY <2>8 DEF Backups!Added
  <2>10. view.use # "sources" => \E d \in Backups!Paths : sel \subseteq {d}
    <3> SUFFICES ASSUME view.use # "sources" PROVE \E d \in Backups!Paths : sel \subseteq {d}
      OBVIOUS
    <3>1. PICK d \in Backups!Paths : view.selected \subseteq {d}
      BY <1>0 DEF PickedOf
    <3>2. CASE path \in view.selected
      BY <3>1, <3>2
    <3>3. CASE path \notin view.selected
      <4>1. sel = {path}
        BY <3>3 DEF Backups!Added, Backups!Multi
      <4> QED
        BY <4>1
    <3> QED
      BY <3>2, <3>3
  <2>11. ~extra'.strayed /\ view.use = "sources" => sel \subseteq Archivable(extra')
    BY <1>0, <2>6, <2>7 DEF PickedOf, Backups!Added, Backups!Multi
  <2> HIDE DEF sel
  <2>12. p \in Pickers /\ p.use = view.use /\ p.selected = sel
    BY <1>0, <2>9 DEF Pickers
  <2> HIDE DEF p
  <2>13. PickedOf(p, extra')
    BY <2>10, <2>11, <2>12 DEF PickedOf
  <2>14. PICK past : past = extra' /\ PickedOf(p, past)
    BY <2>13
  <2>15. PickerOf(view', past) /\ view'.use = view.use
    BY <2>1, <2>12, <2>14, PickerDrawn
  <2>16. FormOf(server', extra')
    BY <1>0, <2>1, <2>6, <2>7 DEF FormOf
  <2> QED
    BY <1>0, <2>1, <2>5, <2>14, <2>15, <2>16 DEF BackupsInv
\* A directory is folded or unfolded.
<1>7. ASSUME NEW u \in SUBSET Backups!Paths, NEW c \in SUBSET Backups!Paths
      PROVE  /\ Folded(view, u, c) \in Pickers
             /\ Folded(view, u, c).use = view.use
             /\ Folded(view, u, c).selected = view.selected
             /\ Folded(view, u, c).drawn = view.drawn
             /\ PickerOf(Folded(view, u, c), extra)
             /\ view.use \in Backups!Uses =>
                  /\ PickerOf(Backups!Drawn(Folded(view, u, c)), extra)
                  /\ Backups!Drawn(Folded(view, u, c)).use = view.use
  <2> DEFINE p == Folded(view, u, c)
  <2>1. p \in Pickers
    BY <1>0, <1>7 DEF Pickers, Folded
  <2>2. p.use = view.use /\ p.selected = view.selected /\ p.drawn = view.drawn
    BY <1>0, <1>7 DEF Pickers, Folded
  <2> HIDE DEF p
  <2>3. PickedOf(p, extra) /\ PickerOf(p, extra)
    BY <1>0, <2>1, <2>2 DEF PickedOf, PickerOf
  <2>4. PICK past : past = extra /\ PickedOf(p, past)
    BY <2>3
  <2>5. view.use \in Backups!Uses => PickerOf(Backups!Drawn(p), past) /\ Backups!Drawn(p).use = view.use
    BY <2>2, <2>4, PickerDrawn
  <2>6. /\ p \in Pickers /\ p.use = view.use /\ p.selected = view.selected /\ p.drawn = view.drawn
        /\ PickerOf(p, extra)
        /\ view.use \in Backups!Uses => PickerOf(Backups!Drawn(p), extra) /\ Backups!Drawn(p).use = view.use
    BY <2>1, <2>2, <2>3, <2>4, <2>5
  <2> QED
    BY <2>6 DEF p
<1>8. view.unfolded \in SUBSET Backups!Paths /\ view.cache \in SUBSET Backups!Paths
  BY <1>0 DEF Pickers
<1>9. ASSUME NEW path \in Backups!Paths, Backups!Unfold(path) PROVE BackupsInv'
  <2>1. Backups!Click /\ server' = server /\ view.use \in Backups!Uses
    BY <1>0, <1>9 DEF Backups!Unfold
  <2>2. \A u \in SUBSET Backups!Paths : [view EXCEPT !.unfolded = u] = Folded(view, u, view.cache)
    BY <1>0 DEF Pickers, Folded
  <2>3. PICK u \in SUBSET Backups!Paths :
          \/ view' = Backups!Drawn([view EXCEPT !.unfolded = u]) /\ flight' = flight
          \/ view' = [view EXCEPT !.unfolded = u] /\ Backups!Room(flight)
             /\ flight' = Backups!Send(flight, [ask |-> "unfold", path |-> path])
    <3>1. view.unfolded \ {path} \in SUBSET Backups!Paths /\ view.unfolded \cup {path} \in SUBSET Backups!Paths
      BY <1>8
    <3>2. CASE path \in view.unfolded
      BY <1>9, <3>1, <3>2 DEF Backups!Unfold
    <3>3. CASE path \notin view.unfolded
      BY <1>9, <3>1, <3>3 DEF Backups!Unfold
    <3> QED
      BY <3>2, <3>3
  <2>4. CASE view' = Backups!Drawn([view EXCEPT !.unfolded = u]) /\ flight' = flight
    <3>1. PickerOf(view', extra) /\ view'.use = view.use
      BY <1>7, <1>8, <2>1, <2>2, <2>4
    <3> QED
      BY <1>0, <1>1, <1>2, <2>1, <2>4, <3>1 DEF BackupsInv
  <2>5. CASE /\ view' = [view EXCEPT !.unfolded = u] /\ Backups!Room(flight)
             /\ flight' = Backups!Send(flight, [ask |-> "unfold", path |-> path])
    <3>1. PickerOf(view', extra) /\ view'.use = view.use
      BY <1>7, <1>8, <2>1, <2>2, <2>5
    <3> DEFINE q == [ask |-> "unfold", path |-> path]
    <3>2. q \in BackupRequests
      BY DEF BackupRequests
    <3>3. flight' = Backups!Send(flight, q)
      BY <2>5
    <3> HIDE DEF q
    <3>4. AskedOf(flight', view'.use)
      BY <1>0, <2>1, <2>5, <3>1, <3>2, <3>3, BackupsSend
    <3> QED
      BY <1>0, <1>1, <1>2, <2>1, <3>1, <3>4 DEF BackupsInv
  <2> QED
    BY <2>3, <2>4, <2>5
<1>10. ASSUME NEW s \in Slots, Backups!UnfoldArrives(s) PROVE BackupsInv'
  <2>1. PICK path \in Backups!Paths : path = flight[s].path
    BY <1>01, <1>10 DEF Backups!UnfoldArrives
  <2> DEFINE c == view.cache \cup {path}
  <2>2. view' = Backups!Drawn([view EXCEPT !.cache = c]) /\ flight' = Backups!Over(flight, s)
        /\ UNCHANGED <<server, extra>> /\ flight[s].ask = "unfold"
    BY <1>10, <2>1 DEF Backups!UnfoldArrives
  <2>3. c \in SUBSET Backups!Paths
    BY <1>8
  <2> HIDE DEF c
  <2>4. [view EXCEPT !.cache = c] = Folded(view, view.unfolded, c)
    BY <1>0 DEF Pickers, Folded
  <2>5. view.use \in Backups!Uses
    BY <1>0, <2>2 DEF AskedOf
  <2>6. PickerOf(view', extra) /\ view'.use = view.use
    BY <1>7, <1>8, <2>2, <2>3, <2>4, <2>5
  <2>7. AskedOf(flight', view'.use)
    BY <1>0, <2>2, <2>6, BackupsOver
  <2> QED
    BY <1>0, <2>2, <2>6, <2>7 DEF BackupsInv
\* The window is closed.
<1>11. ASSUME view' = [view EXCEPT !.drawn = None] PROVE PickerOf(view', extra) /\ view'.use = view.use
  <2>1. view' \in Pickers /\ view'.use = view.use /\ view'.selected = view.selected /\ view'.drawn = None
    BY <1>0, <1>11 DEF Pickers
  <2> QED
    BY <1>0, <2>1 DEF PickerOf, PickedOf
<1>12. CASE Backups!Confirm
  <2>1. server' = Backups!Confirmed(server, view.use, view.selected) /\ view' = [view EXCEPT !.drawn = None]
        /\ flight' = flight /\ Backups!Click /\ view.use \in Backups!Uses
    BY <1>0, <1>12 DEF Backups!Confirm
  <2>2. view.selected \in SUBSET Backups!Paths
    BY <1>0 DEF Pickers
  <2>3. FormOf(server', extra)
    <3>1. CASE view.use = "sources"
      <4>1. server' = [server EXCEPT !.sources = view.selected]
        BY <2>1, <3>1 DEF Backups!Confirmed
      <4>2. server' \in Forms /\ server'.sources = view.selected
        BY <1>0, <2>2, <4>1 DEF Forms
      <4> QED
        BY <1>0, <3>1, <4>2 DEF FormOf, PickedOf
    <3>2. CASE view.use # "sources"
      <4>1. PICK t \in Backups!Paths \cup {None} : server' = [server EXCEPT !.target = t]
        <5> DEFINE t == IF view.selected = {} THEN None ELSE CHOOSE p \in view.selected : TRUE
        <5>1. t \in Backups!Paths \cup {None}
          BY <2>2
        <5>2. server' = [server EXCEPT !.target = t]
          BY <2>1, <3>2 DEF Backups!Confirmed
        <5> QED
          BY <5>1, <5>2
      <4>2. server' \in Forms /\ server'.sources = server.sources
        BY <1>0, <4>1 DEF Forms
      <4> QED
        BY <1>0, <4>2 DEF FormOf
    <3> QED
      BY <3>1, <3>2
  <2> QED
    BY <1>0, <1>1, <1>2, <1>11, <2>1, <2>3 DEF BackupsInv
<1>13. CASE Backups!Cancel
  <2>1. view' = [view EXCEPT !.drawn = None] /\ UNCHANGED <<server, flight>> /\ Backups!Click
    BY <1>13 DEF Backups!Cancel
  <2> QED
    BY <1>0, <1>1, <1>2, <1>11, <2>1 DEF BackupsInv
\* A request that leaves the window and the form.
<1>14. ASSUME NEW q \in BackupRequests, flight' = Backups!Send(flight, q), Backups!Room(flight), Backups!Click,
              UNCHANGED <<view, server>>,
              q.ask \in {"open", "unfold", "make", "refold"} => view.use \in Backups!Uses
       PROVE  BackupsInv'
  <2>1. AskedOf(flight', view'.use)
    BY <1>0, <1>14, BackupsSend
  <2> QED
    BY <1>0, <1>1, <1>2, <1>14, <2>1 DEF BackupsInv
<1>15. CASE Backups!Make
  <2>1. PICK q \in BackupRequests : q = [ask |-> "make", path |-> Fresh]
    BY <1>00 DEF BackupRequests
  <2>2. flight' = Backups!Send(flight, q) /\ Backups!Room(flight) /\ Backups!Click /\ UNCHANGED <<view, server>>
        /\ view.use \in Backups!Uses
    BY <1>0, <1>15, <2>1 DEF Backups!Make
  <2> QED
    BY <1>14, <2>2
<1>16. CASE Backups!MakeTarget
  <2>1. PICK q \in BackupRequests : q = [ask |-> "makeTarget", path |-> Fresh]
    BY <1>00 DEF BackupRequests
  <2>2. flight' = Backups!Send(flight, q) /\ Backups!Room(flight) /\ Backups!Click /\ UNCHANGED <<view, server>>
        /\ q.ask = "makeTarget"
    BY <1>16, <2>1 DEF Backups!MakeTarget
  <2> QED
    BY <1>14, <2>2
<1>17. ASSUME NEW ask \in {"run", "list"}, Backups!Ask(ask) PROVE BackupsInv'
  <2>1. PICK q \in BackupRequests : q = [ask |-> ask, path |-> None]
    BY DEF BackupRequests
  <2>2. flight' = Backups!Send(flight, q) /\ Backups!Room(flight) /\ Backups!Click /\ UNCHANGED <<view, server>>
        /\ q.ask \in {"run", "list"}
    BY <1>17, <2>1 DEF Backups!Ask
  <2> QED
    BY <1>14, <2>2
<1>18. ASSUME NEW s \in Slots, Backups!Made(s) PROVE BackupsInv'
  <2> DEFINE c == view.cache \ {Root}
             u == view.unfolded \cup {Root}
  <2>1. view' = Folded(view, u, c) /\ flight' = [flight EXCEPT ![s].ask = "refold"]
        /\ UNCHANGED <<server, extra>> /\ flight[s].ask = "make"
    BY <1>0, <1>18 DEF Backups!Made, Pickers, Folded
  <2>2. c \in SUBSET Backups!Paths /\ u \in SUBSET Backups!Paths
    BY <1>00, <1>8
  <2> HIDE DEF c, u
  <2>3. PickerOf(view', extra) /\ view'.use = view.use
    BY <1>7, <2>1, <2>2
  <2>4. view.use \in Backups!Uses
    BY <1>0, <2>1 DEF AskedOf
  <2>5. flight[s] \in [ask : {"unfold", "make", "makeTarget", "refold"}, path : Backups!Paths]
    BY <1>0, <2>1 DEF BackupRequests, Backups!Unused
  <2>6. [flight[s] EXCEPT !.ask = "refold"] \in BackupRequests
    BY <2>5 DEF BackupRequests
  <2>7. AskedOf(flight', view'.use)
    BY <1>0, <2>1, <2>3, <2>4, <2>6 DEF AskedOf
  <2> QED
    BY <1>0, <2>1, <2>3, <2>7 DEF BackupsInv
\* A directory was made for the target.
<1>19. ASSUME NEW path \in Backups!Paths, NEW stray \in BOOLEAN,
              extra' = [extra EXCEPT !.strayed = stray, !.ticked["target"] = @ \cup {path}]
       PROVE  /\ extra' \in BackupPast /\ extra'.strayed = stray /\ Archivable(extra') = Archivable(extra)
  <2> DEFINE ticked == [extra.ticked EXCEPT !["target"] = @ \cup {path}]
  <2>1. ticked \in [Backups!Uses -> SUBSET Backups!Paths] /\ ticked["sources"] = extra.ticked["sources"]
    BY <1>0, <1>00 DEF BackupPast
  <2>2. extra' = [extra EXCEPT !.strayed = stray, !.ticked = ticked]
    BY <1>0, <1>19 DEF BackupPast
  <2> HIDE DEF ticked
  <2>3. extra' \in BackupPast /\ extra'.ticked = ticked
    BY <1>0, <2>1, <2>2 DEF BackupPast
  <2>4. extra'.strayed = stray
    BY <1>0, <2>1, <2>2 DEF BackupPast
  <2> QED
    BY <2>1, <2>3, <2>4 DEF Archivable
<1>20. ASSUME NEW s \in Slots, Backups!RefoldArrives(s) PROVE BackupsInv'
  <2>1. PICK path \in Backups!Paths : path = flight[s].path
    BY <1>01, <1>20 DEF Backups!RefoldArrives
  <2> DEFINE sel == IF path \in view.selected THEN view.selected ELSE Backups!Added(view.selected, path)
             c == view.cache \cup {Root}
             p == [view EXCEPT !.cache = c, !.selected = sel]
             stray == extra.strayed \/ view.use # "target"
  <2>2. view' = Backups!Drawn(p) /\ flight' = Backups!Over(flight, s) /\ server' = server /\ flight[s].ask = "refold"
    BY <1>20, <2>1 DEF Backups!RefoldArrives
  <2>3. extra' = [extra EXCEPT !.strayed = stray, !.ticked["target"] = @ \cup {path}]
    BY <1>0, <1>20, <2>1 DEF Backups!RefoldArrives, BackupPast
  <2>4. stray \in BOOLEAN /\ (~stray => ~extra.strayed /\ view.use = "target")
    BY <1>0 DEF BackupPast
  <2> HIDE DEF stray
  <2>5. extra' \in BackupPast /\ extra'.strayed = stray /\ Archivable(extra') = Archivable(extra)
    BY <1>19, <2>3, <2>4
  <2>6. view.selected \in SUBSET Backups!Paths
    BY <1>0 DEF Pickers
  <2>7. sel \in SUBSET Backups!Paths /\ c \in SUBSET Backups!Paths
    BY <1>00, <1>8, <2>6 DEF Backups!Added
  <2>8. view.use # "sources" => \E d \in Backups!Paths : sel \subseteq {d}
    <3> SUFFICES ASSUME view.use # "sources" PROVE \E d \in Backups!Paths : sel \subseteq {d}
      OBVIOUS
    <3>1. PICK d \in Backups!Paths : view.selected \subseteq {d}
      BY <1>0 DEF PickedOf
    <3>2. CASE path \in view.selected
      BY <3>1, <3>2
    <3>3. CASE path \notin view.selected
      <4>1. sel = {path}
        BY <3>3 DEF Backups!Added, Backups!Multi
      <4> QED
        BY <4>1
    <3> QED
      BY <3>2, <3>3
  <2> HIDE DEF sel, c
  <2>9. p \in Pickers /\ p.use = view.use /\ p.selected = sel
    BY <1>0, <2>7 DEF Pickers
  <2> HIDE DEF p
  <2>10. PickedOf(p, extra')
    BY <2>4, <2>5, <2>8, <2>9 DEF PickedOf
  <2>11. PICK past : past = extra' /\ PickedOf(p, past)
    BY <2>10
  <2>12. view.use \in Backups!Uses
    BY <1>0, <2>2 DEF AskedOf
  <2>13. PickerOf(view', past) /\ view'.use = view.use
    BY <2>2, <2>9, <2>11, <2>12, PickerDrawn
  <2>14. FormOf(server', extra')
    BY <1>0, <2>2, <2>4, <2>5 DEF FormOf
  <2>15. AskedOf(flight', view'.use)
    BY <1>0, <2>2, <2>13, BackupsOver
  <2> QED
    BY <2>5, <2>11, <2>13, <2>14, <2>15 DEF BackupsInv
<1>21. ASSUME NEW s \in Slots, Backups!TargetMade(s) PROVE BackupsInv'
  <2>1. PICK path \in Backups!Paths : path = flight[s].path
    BY <1>01, <1>21 DEF Backups!TargetMade
  <2>2. server' = [server EXCEPT !.target = path] /\ flight' = Backups!Over(flight, s) /\ view' = view
    BY <1>21, <2>1 DEF Backups!TargetMade
  <2>3. extra' = [extra EXCEPT !.strayed = extra.strayed, !.ticked["target"] = @ \cup {path}]
    BY <1>0, <1>21, <2>1 DEF Backups!TargetMade, BackupPast
  <2>4. extra.strayed \in BOOLEAN
    BY <1>0 DEF BackupPast
  <2>5. PICK stray \in BOOLEAN : stray = extra.strayed
    BY <2>4
  <2>6. extra' \in BackupPast /\ extra'.strayed = stray /\ Archivable(extra') = Archivable(extra)
    BY <1>19, <2>3, <2>5
  <2>7. server' \in Forms /\ server'.sources = server.sources
    BY <1>0, <2>2 DEF Forms
  <2>8. FormOf(server', extra')
    BY <1>0, <2>5, <2>6, <2>7 DEF FormOf
  <2>9. PickerOf(view', extra')
    BY <1>0, <2>2, <2>5, <2>6 DEF PickerOf, PickedOf
  <2>10. AskedOf(flight', view'.use)
    BY <1>0, <2>2, BackupsOver
  <2> QED
    BY <2>6, <2>8, <2>9, <2>10 DEF BackupsInv
<1>22. ASSUME NEW path \in Backups!Paths, Backups!Remove(path) PROVE BackupsInv'
  <2> DEFINE src == server.sources \ {path}
  <2>1. server' = [server EXCEPT !.sources = src] /\ UNCHANGED <<view, flight>> /\ Backups!Click
    BY <1>22 DEF Backups!Remove
  <2>2. src \in SUBSET Backups!Paths /\ src \subseteq server.sources
    BY <1>0 DEF Forms
  <2> HIDE DEF src
  <2>3. server' \in Forms /\ server'.sources = src
    BY <1>0, <2>1, <2>2 DEF Forms
  <2>4. FormOf(server', extra)
    BY <1>0, <2>2, <2>3 DEF FormOf
  <2> QED
    BY <1>0, <1>1, <1>2, <2>1, <2>4 DEF BackupsInv
<1>23. ASSUME NEW s \in Slots, Backups!RunArrives(s) PROVE BackupsInv'
  <2>1. flight' = [flight EXCEPT ![s].ask = "list"] /\ UNCHANGED <<view, server, extra>> /\ flight[s].ask = "run"
    BY <1>23 DEF Backups!RunArrives
  <2>2. flight[s] \in [ask : {"open", "run", "list"}, path : {None}]
    BY <1>0, <2>1 DEF BackupRequests, Backups!Unused
  <2>3. [flight[s] EXCEPT !.ask = "list"] \in BackupRequests /\ [flight[s] EXCEPT !.ask = "list"].ask = "list"
    BY <2>2 DEF BackupRequests
  <2>4. AskedOf(flight', view'.use)
    BY <1>0, <2>1, <2>3 DEF AskedOf
  <2> QED
    BY <1>0, <2>1, <2>4 DEF BackupsInv
<1>24. ASSUME NEW s \in Slots, Backups!ListArrives(s) PROVE BackupsInv'
  <2> DEFINE src == IF server.sources = {} THEN Configured ELSE server.sources
             t == IF server.target = None THEN Root ELSE server.target
  <2>1. server' = [server EXCEPT !.sources = src, !.target = t] /\ flight' = Backups!Over(flight, s)
        /\ UNCHANGED <<view, extra>>
    BY <1>0, <1>24 DEF Backups!ListArrives, Backups!Listed, Forms
  <2>2. src \in SUBSET Backups!Paths /\ t \in Backups!Paths \cup {None}
    BY <1>0, <1>00 DEF Forms
  <2>3. ~extra.strayed => src \subseteq Archivable(extra)
    BY <1>0 DEF FormOf, Archivable
  <2> HIDE DEF src, t
  <2>4. server' \in Forms /\ server'.sources = src
    BY <1>0, <2>1, <2>2 DEF Forms
  <2>5. FormOf(server', extra)
    BY <2>3, <2>4 DEF FormOf
  <2>6. AskedOf(flight', view'.use)
    BY <1>0, <2>1, BackupsOver
  <2> QED
    BY <1>0, <2>1, <2>5, <2>6 DEF BackupsInv
<1>25. ASSUME NEW s \in Slots, Backups!Fails(s) PROVE BackupsInv'
  <2>1. flight' = Backups!Over(flight, s) /\ UNCHANGED <<view, server, extra>>
    BY <1>25 DEF Backups!Fails
  <2>2. AskedOf(flight', view'.use)
    BY <1>0, <2>1, BackupsOver
  <2> QED
    BY <1>0, <2>1, <2>2 DEF BackupsInv
<1> QED
  BY <1>4, <1>5, <1>6, <1>9, <1>10, <1>12, <1>13, <1>15, <1>16, <1>17, <1>18, <1>20, <1>21, <1>22, <1>23, <1>24, <1>25
     DEF Backups!Next

\* The invariant holds when the panel is opened.
LEMMA BackupsStart == Backups!Init => BackupsInv
<1> SUFFICES ASSUME Backups!Init PROVE BackupsInv
  OBVIOUS
<1>1. view \in Pickers /\ view.drawn = None /\ view.selected = {} /\ view.use = None
  BY DEF Backups!Init, Pickers
<1>2. Root \in Backups!Paths
  BY DEF Backups!Paths
<1>3. PickerOf(view, extra)
  BY <1>1, <1>2 DEF PickerOf, PickedOf
<1>4. server \in Forms /\ server.sources = {}
  BY DEF Backups!Init, Forms
<1>5. FormOf(server, extra)
  BY <1>4 DEF FormOf
<1>6. extra \in BackupPast
  BY BackupsGiven DEF Backups!Init, BackupPast
<1>7. Backups!Unused \in BackupRequests /\ Backups!Unused.ask = "none"
  BY DEF BackupRequests, Backups!Unused
<1>8. AskedOf(flight, view.use)
  BY <1>7 DEF Backups!Init, Backups!NoRequests, AskedOf
<1> QED
  BY <1>3, <1>5, <1>6, <1>8 DEF BackupsInv

-----------------------------------------------------------------------------
(* The clipboard.                                                          *)

\* What the panel is given.
LEMMA CopyingGiven ==
  MaxCopies \in Nat
BY PageAssumption

\* What the browser tells of a text, what the page shows, what the browser has, the history.
Copied == [text : Texts, ok : BOOLEAN]
\* What the page shows.
CopyingViews == [secure : BOOLEAN, said : Texts \cup {Failed, None}]
\* What the browser was asked for and what it has finished.
Browsers == [asked : SUBSET Texts, finished : Seq(Copied)]
\* The history variables of the panel.
CopyingPast == [clicks : 0 .. MaxCopies, put : SUBSET Texts, other : BOOLEAN]

\* What was finished well has been put there.
AllPut(f, put) == \A i \in 1 .. Len(f) : f[i].ok => f[i].text \in put

\* What was finished well last is what is there.
LastThere(f, board) ==
  \A i \in 1 .. Len(f) : f[i].ok /\ (\A j \in 1 .. Len(f) : j > i => ~f[j].ok) => board = f[i].text

\* Nothing that was finished well is untold.
NothingUntold(f) == \A i \in 1 .. Len(f) : ~f[i].ok

\* The inductive invariant of the panel.
CopyingInv ==
  /\ server \in Texts \cup {Foreign}
  /\ view \in CopyingViews
  /\ flight \in Browsers
  /\ extra \in CopyingPast
  /\ AllPut(flight.finished, extra.put)
  /\ view.said \in extra.put \cup {Failed, None}
  /\ ~extra.other => /\ LastThere(flight.finished, server)
                     /\ NothingUntold(flight.finished) => view.said \in {server, Failed, None}

\* The invariant implies the types and the properties of the panel.
LEMMA CopyingMean ==
  CopyingInv => Copying!TypeOK /\ Copying!NothingClaimed /\ Copying!LastIsThere
<1> SUFFICES ASSUME CopyingInv PROVE Copying!TypeOK /\ Copying!NothingClaimed /\ Copying!LastIsThere
  OBVIOUS
<1>1. Copying!TypeOK
  BY DEF CopyingInv, CopyingViews, Browsers, Copied, CopyingPast, Copying!TypeOK
<1>2. Copying!NothingClaimed
  BY DEF CopyingInv, Copying!NothingClaimed
<1>3. flight.finished = <<>> => NothingUntold(flight.finished)
  BY DEF NothingUntold
<1>4. Copying!LastIsThere
  BY <1>3 DEF CopyingInv, Copying!LastIsThere
<1> QED
  BY <1>1, <1>2, <1>4

\* The rest of what the browser has to tell.
LEMMA RestToTell ==
  ASSUME NEW f \in Seq(Copied), f # <<>>
  PROVE  /\ Tail(f) \in Seq(Copied) /\ Head(f) \in Copied /\ Head(f) = f[1]
         /\ Len(f) \in Nat /\ Len(f) > 0 /\ Len(Tail(f)) = Len(f) - 1
         /\ \A i \in 1 .. Len(Tail(f)) : i + 1 \in 1 .. Len(f) /\ Tail(f)[i] = f[i + 1]
  OBVIOUS

\* The browser has finished one more.
LEMMA OneMoreFinished ==
  ASSUME NEW f \in Seq(Copied), NEW c \in Copied
  PROVE  /\ Append(f, c) \in Seq(Copied) /\ Len(f) \in Nat /\ Len(Append(f, c)) = Len(f) + 1
         /\ Append(f, c)[Len(f) + 1] = c
         /\ \A i \in 1 .. Len(f) : Append(f, c)[i] = f[i]
  OBVIOUS

\* A field was copied, or not: what follows of a step that tries it.
LEMMA FieldTried ==
  ASSUME CopyingInv, NEW t \in Texts, NEW before \in CopyingPast,
         before.put = extra.put, before.other = extra.other,
         NEW untold \in Seq(Copied), Copying!FromField(t, before, untold),
         flight' \in Browsers, flight'.finished = untold, AllPut(untold, extra.put),
         ~extra.other => LastThere(untold, server)
  PROVE  CopyingInv'
<1>1. PICK ok \in BOOLEAN :
        /\ server' = IF ok THEN t ELSE server
        /\ view' = [view EXCEPT !.said = Copying!Says(t, ok)]
        /\ extra' = [before EXCEPT !.put = IF ok THEN @ \cup {t} ELSE @, !.other = @ \/ (ok /\ untold # <<>>)]
  BY DEF Copying!FromField
<1>2. /\ server \in Texts \cup {Foreign} /\ view \in CopyingViews
      /\ view.said \in extra.put \cup {Failed, None}
  BY DEF CopyingInv
<1>3. CASE ok
  <2> DEFINE o == before.other \/ untold # <<>>
             put == before.put \cup {t}
  <2>1. server' = t /\ view' = [view EXCEPT !.said = t] /\ extra' = [before EXCEPT !.put = put, !.other = o]
    BY <1>1, <1>3 DEF Copying!Says, CopyingPast
  <2>2. o \in BOOLEAN /\ put \in SUBSET Texts /\ t \in put /\ extra.put \subseteq put
    BY DEF CopyingPast
  <2>3. ~o => untold = <<>>
    OBVIOUS
  <2> HIDE DEF o, put
  <2>4. extra' \in CopyingPast
    BY <2>1, <2>2 DEF CopyingPast
  <2>5. extra'.put = put /\ extra'.other = o
    BY <2>1, <2>2 DEF CopyingPast
  <2>6. view' \in CopyingViews /\ view'.said = t
    BY <1>2, <2>1 DEF CopyingViews
  <2>7. AllPut(untold, put)
    BY <2>2 DEF AllPut
  <2>8. ~o => LastThere(untold, t)
    BY <2>3 DEF LastThere
  <2> QED
    BY <2>1, <2>2, <2>4, <2>5, <2>6, <2>7, <2>8 DEF CopyingInv
<1>4. CASE ~ok
  <2>1. server' = server /\ view' = [view EXCEPT !.said = Failed]
    BY <1>1, <1>4 DEF Copying!Says
  <2>2. extra' = before
    BY <1>1, <1>4 DEF CopyingPast
  <2>3. view' \in CopyingViews /\ view'.said = Failed
    BY <1>2, <2>1 DEF CopyingViews
  <2> QED
    BY <1>2, <2>1, <2>2, <2>3 DEF CopyingInv
<1> QED
  BY <1>3, <1>4

\* Every step of the panel keeps its invariant.
LEMMA CopyingSteps == CopyingInv /\ Copying!Next => CopyingInv'
<1> SUFFICES ASSUME CopyingInv, Copying!Next PROVE CopyingInv'
  OBVIOUS
<1>0. /\ server \in Texts \cup {Foreign} /\ view \in CopyingViews /\ flight \in Browsers /\ extra \in CopyingPast
      /\ AllPut(flight.finished, extra.put) /\ view.said \in extra.put \cup {Failed, None}
      /\ (~extra.other => LastThere(flight.finished, server))
      /\ (~extra.other => (NothingUntold(flight.finished) => view.said \in {server, Failed, None}))
      /\ flight.finished \in Seq(Copied)
  BY DEF CopyingInv, Browsers
<1>1. ASSUME NEW t \in Texts, Copying!Copy(t) PROVE CopyingInv'
  <2> DEFINE clicked == [extra EXCEPT !.clicks = @ + 1]
  <2>1. clicked \in CopyingPast /\ clicked.put = extra.put
    BY <1>0, <1>1, CopyingGiven DEF Copying!Copy, CopyingPast
  <2>2. clicked.other = extra.other
    BY <1>0 DEF CopyingPast
  <2>3. CASE view.secure
    <3>1. view' = view /\ flight' = [flight EXCEPT !.asked = @ \cup {t}] /\ extra' = clicked /\ server' = server
      BY <1>1, <2>3 DEF Copying!Copy, Copying!Waits
    <3> HIDE DEF clicked
    <3>2. flight' \in Browsers /\ flight'.finished = flight.finished
      BY <1>0, <3>1 DEF Browsers
    <3> QED
      BY <1>0, <2>1, <2>2, <3>1, <3>2 DEF CopyingInv
  <2>4. CASE ~view.secure
    <3>1. Copying!FromField(t, clicked, flight.finished) /\ flight' = flight
      BY <1>1, <2>4 DEF Copying!Copy
    <3> HIDE DEF clicked
    <3>2. PICK untold \in Seq(Copied) : untold = flight.finished
      BY <1>0
    <3>3. /\ Copying!FromField(t, clicked, untold) /\ flight' \in Browsers /\ flight'.finished = untold
          /\ AllPut(untold, extra.put) /\ (~extra.other => LastThere(untold, server))
      BY <1>0, <3>1, <3>2
    <3> QED
      BY <2>1, <2>2, <3>3, FieldTried
  <2> QED
    BY <2>3, <2>4
<1>2. ASSUME NEW t \in Texts, Copying!CopyCard(t) PROVE CopyingInv'
  <2>1. CASE Copying!Copy(t)
    BY <1>1, <2>1
  <2>2. CASE view' = [view EXCEPT !.said = Failed] /\ UNCHANGED <<server, flight, extra>>
    <3>1. view' \in CopyingViews /\ view'.said = Failed
      BY <1>0, <2>2 DEF CopyingViews
    <3> QED
      BY <1>0, <2>2, <3>1 DEF CopyingInv
  <2> QED
    BY <1>2, <2>1, <2>2 DEF Copying!CopyCard
<1>3. ASSUME NEW t \in Texts, Copying!Finish(t) PROVE CopyingInv'
  <2>1. PICK ok \in BOOLEAN :
          /\ flight' = [asked |-> flight.asked \ {t}, finished |-> Append(flight.finished, [text |-> t, ok |-> ok])]
          /\ server' = IF ok THEN t ELSE server
          /\ extra' = IF ok THEN [extra EXCEPT !.put = @ \cup {t}] ELSE extra
    BY <1>3 DEF Copying!Finish
  <2>2. view' = view
    BY <1>3 DEF Copying!Finish
  <2>3. PICK f \in Seq(Copied) : f = flight.finished
    BY <1>0
  <2>4. PICK c \in Copied : c = [text |-> t, ok |-> ok]
    BY DEF Copied
  <2>5. c.ok = ok /\ c.text = t
    BY <2>4 DEF Copied
  <2>6. PICK g \in Seq(Copied) : g = Append(f, c)
    BY OneMoreFinished
  <2>7. /\ Len(f) \in Nat /\ Len(g) = Len(f) + 1 /\ g[Len(f) + 1] = c
        /\ \A i \in 1 .. Len(f) : g[i] = f[i]
    BY <2>6, OneMoreFinished
  <2>8. flight' \in Browsers /\ flight'.finished = g
    BY <1>0, <2>1, <2>3, <2>4, <2>6 DEF Browsers
  <2>9. NothingUntold(g) => NothingUntold(f) /\ ~ok
    BY <2>5, <2>7 DEF NothingUntold
  <2>10. CASE ok
    <3>1. server' = t /\ extra' = [extra EXCEPT !.put = @ \cup {t}]
      BY <2>1, <2>10
    <3>2. extra' \in CopyingPast /\ extra'.put = extra.put \cup {t}
      BY <1>0, <3>1 DEF CopyingPast
    <3>3. extra'.other = extra.other
      BY <1>0, <3>1 DEF CopyingPast
    <3>4. AllPut(g, extra'.put)
      <4> SUFFICES ASSUME NEW i \in 1 .. Len(g), g[i].ok PROVE g[i].text \in extra'.put
        BY DEF AllPut
      <4>1. CASE i = Len(f) + 1
        BY <2>5, <2>7, <3>2, <4>1
      <4>2. CASE i # Len(f) + 1
        <5>1. i \in 1 .. Len(f) /\ g[i] = f[i]
          BY <2>7, <4>2
        <5> QED
          BY <1>0, <2>3, <3>2, <5>1 DEF AllPut
      <4> QED
        BY <4>1, <4>2
    <3>5. LastThere(g, t)
      <4> SUFFICES ASSUME NEW i \in 1 .. Len(g), g[i].ok, \A j \in 1 .. Len(g) : j > i => ~g[j].ok
                   PROVE  t = g[i].text
        BY DEF LastThere
      <4>0. c.ok
        BY <2>5, <2>10
      <4>1. Len(f) + 1 \in 1 .. Len(g) /\ g[Len(f) + 1].ok
        BY <2>7, <4>0
      <4>2. i = Len(f) + 1
        BY <2>7, <4>1
      <4> QED
        BY <2>5, <2>7, <4>2
    <3> QED
      BY <1>0, <2>2, <2>8, <2>9, <2>10, <3>1, <3>2, <3>3, <3>4, <3>5 DEF CopyingInv
  <2>11. CASE ~ok
    <3>1. server' = server /\ extra' = extra
      BY <2>1, <2>11
    <3>2. AllPut(g, extra.put)
      <4> SUFFICES ASSUME NEW i \in 1 .. Len(g), g[i].ok PROVE g[i].text \in extra.put
        BY DEF AllPut
      <4>1. i # Len(f) + 1
        BY <2>5, <2>7, <2>11
      <4>2. i \in 1 .. Len(f) /\ g[i] = f[i]
        BY <2>7, <4>1
      <4> QED
        BY <1>0, <2>3, <4>2 DEF AllPut
    <3>3. LastThere(f, server) => LastThere(g, server)
      <4> SUFFICES ASSUME LastThere(f, server), NEW i \in 1 .. Len(g), g[i].ok,
                          \A j \in 1 .. Len(g) : j > i => ~g[j].ok
                   PROVE  server = g[i].text
        BY DEF LastThere
      <4>1. i \in 1 .. Len(f)
        BY <2>5, <2>7, <2>11
      <4>2. \A j \in 1 .. Len(f) : j > i => ~f[j].ok
        BY <2>7
      <4> QED
        BY <2>7, <4>1, <4>2 DEF LastThere
    <3> QED
      BY <1>0, <2>2, <2>3, <2>8, <2>9, <3>1, <3>2, <3>3 DEF CopyingInv
  <2> QED
    BY <2>10, <2>11
<1>4. CASE Copying!Told
  <2>1. PICK f \in Seq(Copied) : f = flight.finished
    BY <1>0
  <2>2. f # <<>>
    BY <1>4, <2>1 DEF Copying!Told
  <2>3. PICK rest \in Seq(Copied) : rest = Tail(f)
    BY <2>2, RestToTell
  <2>4. PICK first \in Copied : first = Head(f) /\ first = f[1]
    BY <2>2, RestToTell
  <2>5. /\ Len(f) \in Nat /\ Len(f) > 0 /\ Len(rest) = Len(f) - 1
        /\ \A i \in 1 .. Len(rest) : i + 1 \in 1 .. Len(f) /\ rest[i] = f[i + 1]
    BY <2>2, <2>3, RestToTell
  <2>6. flight' = [flight EXCEPT !.finished = rest]
    BY <1>4, <2>1, <2>3 DEF Copying!Told
  <2>7. flight' \in Browsers /\ flight'.finished = rest
    BY <1>0, <2>6 DEF Browsers
  <2>8. AllPut(rest, extra.put)
    BY <1>0, <2>1, <2>5 DEF AllPut
  <2>9. LastThere(f, server) => LastThere(rest, server)
    <3> SUFFICES ASSUME LastThere(f, server), NEW i \in 1 .. Len(rest), rest[i].ok,
                        \A j \in 1 .. Len(rest) : j > i => ~rest[j].ok
                 PROVE  server = rest[i].text
      BY DEF LastThere
    <3>1. i + 1 \in 1 .. Len(f) /\ f[i + 1].ok /\ f[i + 1] = rest[i]
      BY <2>5
    <3>2. ASSUME NEW j \in 1 .. Len(f), j > i + 1 PROVE ~f[j].ok
      <4>1. j - 1 \in 1 .. Len(rest) /\ j - 1 > i /\ (j - 1) + 1 = j
        BY <2>5, <3>2
      <4>2. rest[j - 1] = f[j] /\ ~rest[j - 1].ok
        BY <2>5, <4>1
      <4> QED
        BY <4>2
    <3> QED
      BY <3>1, <3>2 DEF LastThere
  <2>10. CASE first.ok
    <3>1. view' = [view EXCEPT !.said = first.text] /\ UNCHANGED <<server, extra>>
      BY <1>4, <2>1, <2>4, <2>10 DEF Copying!Told
    <3>2. first.text \in Texts /\ first.text \in extra.put
      BY <1>0, <2>1, <2>4, <2>5, <2>10 DEF AllPut, Copied
    <3>3. view' \in CopyingViews /\ view'.said = first.text
      BY <1>0, <3>1, <3>2 DEF CopyingViews
    <3>4. LastThere(f, server) /\ NothingUntold(rest) => server = first.text
      <4> SUFFICES ASSUME LastThere(f, server), NothingUntold(rest) PROVE server = first.text
        OBVIOUS
      <4>1. ASSUME NEW j \in 1 .. Len(f), j > 1 PROVE ~f[j].ok
        <5>1. j - 1 \in 1 .. Len(rest) /\ (j - 1) + 1 = j
          BY <2>5, <4>1
        <5>2. rest[j - 1] = f[j]
          BY <2>5, <5>1
        <5> QED
          BY <5>1, <5>2 DEF NothingUntold
      <4>2. 1 \in 1 .. Len(f) /\ f[1].ok
        BY <2>4, <2>5, <2>10
      <4> QED
        BY <2>4, <4>1, <4>2 DEF LastThere
    <3> QED
      BY <1>0, <2>1, <2>7, <2>8, <2>9, <3>1, <3>2, <3>3, <3>4 DEF CopyingInv
  <2>11. CASE ~first.ok
    <3>1. PICK t \in Texts : t = first.text
      BY DEF Copied
    <3>2. Copying!FromField(t, extra, rest)
      BY <1>4, <2>1, <2>3, <2>4, <2>11, <3>1 DEF Copying!Told
    <3>3. extra.put = extra.put /\ extra.other = extra.other /\ (~extra.other => LastThere(rest, server))
      BY <1>0, <2>1, <2>9
    <3>4. PICK before \in CopyingPast : before = extra
      BY <1>0
    <3>5. before.put = extra.put /\ before.other = extra.other /\ Copying!FromField(t, before, rest)
      BY <3>2, <3>4
    <3> QED
      BY <2>7, <2>8, <3>3, <3>5, FieldTried
  <2> QED
    BY <2>10, <2>11
<1>5. CASE Copying!Elsewhere
  <2>1. server' = Foreign /\ extra' = [extra EXCEPT !.other = TRUE] /\ UNCHANGED <<view, flight>>
    BY <1>5 DEF Copying!Elsewhere
  <2>2. extra' \in CopyingPast /\ extra'.put = extra.put
    BY <1>0, <2>1 DEF CopyingPast
  <2>3. extra'.other = TRUE
    BY <1>0, <2>1 DEF CopyingPast
  <2> QED
    BY <1>0, <2>1, <2>2, <2>3 DEF CopyingInv
<1> QED
  BY <1>1, <1>2, <1>3, <1>4, <1>5 DEF Copying!Next, Copying!CopyRow

\* The invariant holds when the panel is opened.
LEMMA CopyingStart == Copying!Init => CopyingInv
<1> SUFFICES ASSUME Copying!Init PROVE CopyingInv
  OBVIOUS
<1>1. flight \in Browsers /\ flight.finished = <<>>
  BY DEF Copying!Init, Browsers
<1>2. extra \in CopyingPast
  BY CopyingGiven DEF Copying!Init, CopyingPast
<1>3. view \in CopyingViews /\ view.said = None /\ server = Foreign
  BY DEF Copying!Init, CopyingViews
<1>4. AllPut(flight.finished, extra.put) /\ LastThere(flight.finished, server)
  BY <1>1 DEF AllPut, LastThere
<1> QED
  BY <1>1, <1>2, <1>3, <1>4 DEF CopyingInv

-----------------------------------------------------------------------------
(* Side bar, messages, the server's log and the search of connections.     *)

\* What the panel is given.
LEMMA PartsGiven ==
  MaxMessages \in Nat /\ MaxClicks \in Nat /\ "all" \in DOMAIN PartMatching
BY PageAssumption

\* The side bar.
BarViews == [narrow : BOOLEAN, collapsed : BOOLEAN, stored : BOOLEAN]

\* Message, log and connections.
PartViews ==
  [message : 0 .. MaxMessages, visible : BOOLEAN, timers : SUBSET (1 .. MaxMessages),
   filter : PartFilters, lines : PartFilters, waits : BOOLEAN,
   search : Parts!Searches, known : SUBSET Connections, rows : SUBSET Connections]

\* What a slot may hold.
PartRequests ==
  {Parts!Unused} \cup [ask : {"log"}, filter : PartFilters] \cup [ask : {"traffic"}, found : SUBSET Connections]

\* The history variables.
PartPast == [clicks : 0 .. MaxClicks, chosen : BOOLEAN, overtaken : BOOLEAN, failed : BOOLEAN]

\* The only timer is that of the message that is shown, and the rows are those of the search.
PartOf(p) ==
  /\ p \in PartViews
  /\ p.timers \subseteq {p.message}
  /\ p.visible <=> p.message \in p.timers
  /\ p.rows = p.known \cap PartMatching[p.search]

\* The list of the log follows its filter.
LogOf(p, fl) ==
  \/ p.lines = p.filter \/ p.waits
  \/ \E s \in Slots : fl[s].ask = "log" /\ fl[s].filter = p.filter

\* The inductive invariant of the panel.
PartsInv ==
  /\ view \in BarViews
  /\ PartOf(server)
  /\ flight \in [Slots -> PartRequests]
  /\ extra \in PartPast
  /\ view.stored = extra.chosen
  /\ ~extra.overtaken /\ ~extra.failed => LogOf(server, flight)

\* The connections and the search are exchanged.
Sought(p, known, q) == [p EXCEPT !.known = known, !.search = q]

\* The invariant implies the types and the properties of the panel.
LEMMA PartsMean ==
  PartsInv => /\ Parts!TypeOK
              /\ Parts!ChoiceIsKept /\ Parts!MessageStays /\ Parts!LogFollowsFilter /\ Parts!RowsOfSearch
<1> SUFFICES ASSUME PartsInv
             PROVE  /\ Parts!TypeOK
                    /\ Parts!ChoiceIsKept /\ Parts!MessageStays /\ Parts!LogFollowsFilter /\ Parts!RowsOfSearch
  OBVIOUS
<1>1. Parts!TypeOK
  BY DEF PartsInv, PartOf, BarViews, PartViews, PartRequests, PartPast, Parts!TypeOK
<1>2. Parts!ChoiceIsKept /\ Parts!MessageStays /\ Parts!RowsOfSearch
  BY DEF PartsInv, PartOf, Parts!ChoiceIsKept, Parts!MessageStays, Parts!RowsOfSearch
<1>3. Parts!LogFollowsFilter
  BY DEF PartsInv, LogOf, Parts!LogFollowsFilter
<1> QED
  BY <1>1, <1>2, <1>3

\* A request takes a free slot, and what was asked for is awaited still.
LEMMA PartsSend ==
  ASSUME flight \in [Slots -> PartRequests], Parts!Room(flight), NEW q \in PartRequests
  PROVE  /\ Parts!Send(flight, q) \in [Slots -> PartRequests]
         /\ \E s \in Slots : Parts!Send(flight, q)[s] = q
         /\ \A s \in Slots : flight[s].ask = "log" => Parts!Send(flight, q)[s] = flight[s]
<1>1. PICK s \in Slots : flight[s] = Parts!Unused /\ Parts!Send(flight, q) = [flight EXCEPT ![s] = q]
  BY DEF Parts!Room, Parts!Send
<1>2. flight[s].ask # "log"
  BY <1>1 DEF Parts!Unused
<1> QED
  BY <1>1, <1>2

\* Every step of the panel keeps its invariant.
LEMMA PartsSteps == PartsInv /\ Parts!Next => PartsInv'
<1> SUFFICES ASSUME PartsInv, Parts!Next PROVE PartsInv'
  OBVIOUS
<1>0. view \in BarViews /\ PartOf(server) /\ server \in PartViews /\ flight \in [Slots -> PartRequests]
      /\ extra \in PartPast /\ view.stored = extra.chosen
      /\ (~extra.overtaken /\ ~extra.failed => LogOf(server, flight))
  BY DEF PartsInv, PartOf
<1>1. ASSUME Parts!Click
      PROVE  /\ Parts!Clicked \in PartPast /\ Parts!Clicked.chosen = extra.chosen
             /\ Parts!Clicked.overtaken = extra.overtaken /\ Parts!Clicked.failed = extra.failed
  <2>1. extra.clicks + 1 \in 0 .. MaxClicks
    BY <1>0, <1>1, PartsGiven DEF Parts!Click, PartPast
  <2>2. Parts!Clicked \in PartPast
    BY <1>0, <2>1 DEF Parts!Clicked, PartPast
  <2>3. Parts!Clicked.chosen = extra.chosen
        /\ Parts!Clicked.overtaken = extra.overtaken /\ Parts!Clicked.failed = extra.failed
    BY <1>0 DEF Parts!Clicked, PartPast
  <2> QED
    BY <2>2, <2>3
<1>2. \A s \in Slots : /\ flight[s].ask = "log" => flight[s].filter \in PartFilters
                       /\ flight[s].ask = "traffic" => flight[s].found \in SUBSET Connections
  <2>1. Parts!Unused.ask = "none"
    BY DEF Parts!Unused
  <2> QED
    BY <1>0, <2>1 DEF PartRequests
<1>3. \A s \in Slots : /\ Parts!Over(flight, s) \in [Slots -> PartRequests]
                       /\ \A t \in Slots \ {s} : Parts!Over(flight, s)[t] = flight[t]
  <2>1. Parts!Unused \in PartRequests
    BY DEF PartRequests
  <2> QED
    BY <1>0, <2>1 DEF Parts!Over
\* What the rows of a search are.
<1>4. ASSUME NEW known \in SUBSET Connections, NEW q \in Parts!Searches
      PROVE  /\ PartOf(Parts!Rows(Sought(server, known, q)))
             /\ Parts!Rows(Sought(server, known, q)).lines = server.lines
             /\ Parts!Rows(Sought(server, known, q)).filter = server.filter
             /\ Parts!Rows(Sought(server, known, q)).waits = server.waits
  <2> DEFINE p == Sought(server, known, q)
             rows == known \cap PartMatching[q]
             d == [p EXCEPT !.rows = rows]
  <2>1. p \in PartViews
    BY <1>0, <1>4 DEF PartViews, Sought
  <2>2. p.known = known /\ p.search = q /\ p.message = server.message /\ p.timers = server.timers
        /\ p.lines = server.lines /\ p.filter = server.filter
    BY <1>0, <1>4 DEF PartViews, Sought
  <2>3. p.visible = server.visible /\ p.waits = server.waits
    BY <1>0, <1>4 DEF PartViews, Sought
  <2> HIDE DEF p
  <2>4. Parts!Rows(p) = d
    BY <2>2 DEF Parts!Rows
  <2>5. rows \in SUBSET Connections
    BY <1>4
  <2> HIDE DEF rows
  <2>6. d \in PartViews
    BY <2>1, <2>5 DEF PartViews
  <2>7. d.known = known /\ d.search = q /\ d.rows = rows /\ d.message = server.message /\ d.timers = server.timers
        /\ d.lines = server.lines /\ d.filter = server.filter
    BY <2>1, <2>2, <2>5 DEF PartViews
  <2>8. d.visible = server.visible /\ d.waits = server.waits
    BY <2>1, <2>3, <2>5 DEF PartViews
  <2> HIDE DEF d
  <2>9. PartOf(d)
    BY <1>0, <2>6, <2>7, <2>8 DEF PartOf, rows
  <2>10. PartOf(Parts!Rows(p)) /\ Parts!Rows(p).lines = server.lines
         /\ Parts!Rows(p).filter = server.filter /\ Parts!Rows(p).waits = server.waits
    BY <2>4, <2>7, <2>8, <2>9
  <2> QED
    BY <2>10 DEF p
<1>5. CASE Parts!Collapse
  <2> DEFINE c == ~view.collapsed
  <2>1. view' = [view EXCEPT !.collapsed = c, !.stored = c] /\ extra' = [Parts!Clicked EXCEPT !.chosen = c]
        /\ UNCHANGED <<server, flight>> /\ Parts!Click
    BY <1>0, <1>5 DEF Parts!Collapse, BarViews
  <2>2. c \in BOOLEAN
    OBVIOUS
  <2> HIDE DEF c
  <2>3. view' \in BarViews
    BY <1>0, <2>1, <2>2 DEF BarViews
  <2>4. view'.stored = c
    BY <1>0, <2>1, <2>2 DEF BarViews
  <2>5. extra' \in PartPast
    BY <1>1, <2>1, <2>2 DEF PartPast
  <2>6. extra'.chosen = c /\ extra'.overtaken = extra.overtaken /\ extra'.failed = extra.failed
    BY <1>1, <2>1, <2>2 DEF PartPast
  <2> QED
    BY <1>0, <2>1, <2>3, <2>4, <2>5, <2>6 DEF PartsInv
<1>6. CASE Parts!Resize
  <2> DEFINE n == ~view.narrow
             c == view.collapsed /\ view.narrow
  <2>1. view' = [view EXCEPT !.narrow = n, !.collapsed = c] /\ extra' = Parts!Clicked
        /\ UNCHANGED <<server, flight>> /\ Parts!Click
    BY <1>0, <1>6 DEF Parts!Resize, Parts!Resized, BarViews
  <2>2. c \in BOOLEAN /\ n \in BOOLEAN
    BY <1>0 DEF BarViews
  <2> HIDE DEF c, n
  <2>3. view' \in BarViews
    BY <1>0, <2>1, <2>2 DEF BarViews
  <2>4. view'.stored = view.stored
    BY <1>0, <2>1, <2>2 DEF BarViews
  <2> QED
    BY <1>0, <1>1, <2>1, <2>3, <2>4 DEF PartsInv
\* The side bar and the history stay, and the log still follows its filter.
<1>7. ASSUME PartOf(server'), flight' \in [Slots -> PartRequests], view' = view, extra' \in PartPast,
             extra'.chosen = extra.chosen, extra'.overtaken = extra.overtaken, extra'.failed = extra.failed,
             LogOf(server, flight) => LogOf(server', flight')
      PROVE  PartsInv'
  BY <1>0, <1>7 DEF PartsInv
<1>8. CASE Parts!Tell
  <2>1. PICK n \in 1 .. MaxMessages : n = server.message + 1
    BY <1>0, <1>8, PartsGiven DEF Parts!Tell, PartViews
  <2> DEFINE only == {n}
  <2>2. server' = [server EXCEPT !.message = n, !.visible = TRUE, !.timers = only] /\ UNCHANGED <<view, flight, extra>>
    BY <1>8, <2>1 DEF Parts!Tell, Parts!Timers
  <2>0. only \in SUBSET (1 .. MaxMessages) /\ n \in 0 .. MaxMessages /\ n \in only /\ only \subseteq {n}
    BY PartsGiven
  <2> HIDE DEF only
  <2>3. server' \in PartViews
    BY <1>0, <2>0, <2>2 DEF PartViews
  <2>4. server'.message = n /\ server'.timers = only /\ server'.rows = server.rows /\ server'.known = server.known
        /\ server'.search = server.search /\ server'.lines = server.lines /\ server'.filter = server.filter
    BY <1>0, <2>2 DEF PartViews
  <2>5. server'.visible = TRUE /\ server'.waits = server.waits
    BY <1>0, <2>2 DEF PartViews
  <2>6. PartOf(server')
    BY <1>0, <2>0, <2>3, <2>4, <2>5 DEF PartOf
  <2>7. LogOf(server, flight) => LogOf(server', flight')
    BY <2>2, <2>4, <2>5 DEF LogOf
  <2> QED
    BY <1>0, <1>7, <2>2, <2>6, <2>7
<1>9. CASE Parts!Type
  <2>1. PICK f \in PartFilters : server' = [server EXCEPT !.filter = f, !.waits = TRUE]
    BY <1>9 DEF Parts!Type
  <2>2. UNCHANGED <<view, flight>> /\ extra' = Parts!Clicked /\ Parts!Click
    BY <1>9 DEF Parts!Type
  <2>3. server' \in PartViews
    BY <1>0, <2>1 DEF PartViews
  <2>4. server'.message = server.message /\ server'.timers = server.timers /\ server'.rows = server.rows
        /\ server'.known = server.known /\ server'.search = server.search
    BY <1>0, <2>1 DEF PartViews
  <2>5. server'.visible = server.visible /\ server'.waits = TRUE
    BY <1>0, <2>1 DEF PartViews
  <2>6. PartOf(server')
    BY <1>0, <2>3, <2>4, <2>5 DEF PartOf
  <2>7. LogOf(server', flight')
    BY <2>5 DEF LogOf
  <2> QED
    BY <1>0, <1>1, <1>7, <2>2, <2>6, <2>7
<1>10. CASE Parts!Pauses
  <2> DEFINE q == [ask |-> "log", filter |-> server.filter]
  <2>1. server' = [server EXCEPT !.waits = FALSE] /\ flight' = Parts!Send(flight, q) /\ UNCHANGED <<view, extra>>
        /\ Parts!Room(flight)
    BY <1>10 DEF Parts!Pauses, Parts!AskLog
  <2>2. q \in PartRequests /\ q.ask = "log" /\ q.filter = server.filter
    BY <1>0 DEF PartRequests, PartViews
  <2> HIDE DEF q
  <2>3. flight' \in [Slots -> PartRequests] /\ \E s \in Slots : flight'[s] = q
    BY <1>0, <2>1, <2>2, PartsSend
  <2>4. server' \in PartViews
    BY <1>0, <2>1 DEF PartViews
  <2>5. server'.message = server.message /\ server'.timers = server.timers /\ server'.rows = server.rows
        /\ server'.known = server.known /\ server'.search = server.search /\ server'.filter = server.filter
    BY <1>0, <2>1 DEF PartViews
  <2>6. server'.visible = server.visible
    BY <1>0, <2>1 DEF PartViews
  <2>7. PartOf(server')
    BY <1>0, <2>4, <2>5, <2>6 DEF PartOf
  <2>8. LogOf(server', flight')
    BY <2>2, <2>3, <2>5 DEF LogOf
  <2> QED
    BY <1>0, <1>7, <2>1, <2>3, <2>7, <2>8
<1>11. CASE Parts!Level
  <2>0. PICK f \in PartFilters : /\ server' = [server EXCEPT !.filter = f]
                                 /\ flight' = Parts!Send(flight, [ask |-> "log", filter |-> [server EXCEPT !.filter = f].filter])
    BY <1>11 DEF Parts!Level, Parts!AskNow, Parts!AskLog
  <2>1. PICK p : /\ p = [server EXCEPT !.filter = f] /\ server' = p
                 /\ flight' = Parts!Send(flight, [ask |-> "log", filter |-> p.filter])
    BY <2>0
  <2>2. view' = view /\ extra' = Parts!Clicked /\ Parts!Click /\ Parts!Room(flight)
    BY <1>11 DEF Parts!Level
  <2>3. p \in PartViews /\ p.filter = f
    BY <1>0, <2>1 DEF PartViews
  <2> DEFINE q == [ask |-> "log", filter |-> f]
  <2>4. q \in PartRequests /\ q.ask = "log" /\ q.filter = f
    BY DEF PartRequests
  <2>5. flight' = Parts!Send(flight, q)
    BY <2>1, <2>3
  <2> HIDE DEF q
  <2>6. flight' \in [Slots -> PartRequests] /\ \E s \in Slots : flight'[s] = q
    BY <1>0, <2>2, <2>4, <2>5, PartsSend
  <2>7. p.message = server.message /\ p.timers = server.timers /\ p.rows = server.rows
        /\ p.known = server.known /\ p.search = server.search
    BY <1>0, <2>1 DEF PartViews
  <2>8. p.visible = server.visible
    BY <1>0, <2>1 DEF PartViews
  <2>9. PartOf(p)
    BY <1>0, <2>3, <2>7, <2>8 DEF PartOf
  <2>10. LogOf(p, flight')
    BY <2>3, <2>4, <2>6 DEF LogOf
  <2> QED
    BY <1>0, <1>1, <1>7, <2>1, <2>2, <2>6, <2>9, <2>10
<1>12. CASE Parts!AskTraffic
  <2>1. PICK found \in SUBSET Connections : flight' = Parts!Send(flight, [ask |-> "traffic", found |-> found])
    BY <1>12 DEF Parts!AskTraffic
  <2>2. UNCHANGED <<view, server>> /\ extra' = Parts!Clicked /\ Parts!Click /\ Parts!Room(flight)
    BY <1>12 DEF Parts!AskTraffic
  <2> DEFINE q == [ask |-> "traffic", found |-> found]
  <2>3. q \in PartRequests
    BY DEF PartRequests
  <2>4. flight' = Parts!Send(flight, q)
    BY <2>1
  <2> HIDE DEF q
  <2>5. flight' \in [Slots -> PartRequests] /\ \A s \in Slots : flight[s].ask = "log" => flight'[s] = flight[s]
    BY <1>0, <2>2, <2>3, <2>4, PartsSend
  <2>6. LogOf(server, flight) => LogOf(server', flight')
    BY <2>2, <2>5 DEF LogOf
  <2> QED
    BY <1>0, <1>1, <1>7, <2>2, <2>5, <2>6
<1>13. CASE Parts!Search
  <2>1. PICK q \in Parts!Searches : server' = Parts!Rows([server EXCEPT !.search = q])
    BY <1>13 DEF Parts!Search
  <2>2. UNCHANGED <<view, flight>> /\ extra' = Parts!Clicked /\ Parts!Click
    BY <1>13 DEF Parts!Search
  <2>3. [server EXCEPT !.search = q] = Sought(server, server.known, q)
    BY <1>0 DEF PartViews, Sought
  <2>4. server.known \in SUBSET Connections
    BY <1>0 DEF PartViews
  <2>5. PartOf(server') /\ server'.lines = server.lines /\ server'.filter = server.filter /\ server'.waits = server.waits
    BY <1>0, <1>4, <2>1, <2>3, <2>4
  <2>6. LogOf(server, flight) => LogOf(server', flight')
    BY <2>2, <2>5 DEF LogOf
  <2> QED
    BY <1>0, <1>1, <1>7, <2>2, <2>5, <2>6
<1>14. ASSUME NEW n \in 1 .. MaxMessages, Parts!Hide(n) PROVE PartsInv'
  <2>1. server' = [server EXCEPT !.visible = FALSE, !.timers = server.timers \ {n}] /\ UNCHANGED <<view, flight, extra>>
        /\ n \in server.timers
    BY <1>0, <1>14 DEF Parts!Hide, PartViews
  <2>2. server' \in PartViews
    BY <1>0, <2>1 DEF PartViews
  <2>3. server'.message = server.message /\ server'.timers = server.timers \ {n} /\ server'.rows = server.rows
        /\ server'.known = server.known /\ server'.search = server.search /\ server'.lines = server.lines
        /\ server'.filter = server.filter
    BY <1>0, <2>1 DEF PartViews
  <2>4. server'.visible = FALSE /\ server'.waits = server.waits
    BY <1>0, <2>1 DEF PartViews
  <2>5. PartOf(server')
    BY <1>0, <2>1, <2>2, <2>3, <2>4 DEF PartOf
  <2>6. LogOf(server, flight) => LogOf(server', flight')
    BY <2>1, <2>3, <2>4 DEF LogOf
  <2> QED
    BY <1>0, <1>7, <2>1, <2>5, <2>6
<1>15. ASSUME NEW s \in Slots, Parts!LogArrives(s) PROVE PartsInv'
  <2> DEFINE o == extra.overtaken \/ flight[s].filter # server.filter
  <2>1. flight[s].ask = "log" /\ server' = [server EXCEPT !.lines = flight[s].filter] /\ view' = view
        /\ extra' = [extra EXCEPT !.overtaken = o] /\ flight' = Parts!Over(flight, s)
    BY <1>0, <1>15 DEF Parts!LogArrives, PartPast
  <2>2. o \in BOOLEAN /\ (~o => ~extra.overtaken /\ flight[s].filter = server.filter)
    BY <1>0 DEF PartPast
  <2> HIDE DEF o
  <2>3. flight[s].filter \in PartFilters
    BY <1>2, <2>1
  <2>4. server' \in PartViews
    BY <1>0, <2>1, <2>3 DEF PartViews
  <2>5. server'.message = server.message /\ server'.timers = server.timers /\ server'.rows = server.rows
        /\ server'.known = server.known /\ server'.search = server.search /\ server'.lines = flight[s].filter
        /\ server'.filter = server.filter
    BY <1>0, <2>1, <2>3 DEF PartViews
  <2>6. server'.visible = server.visible
    BY <1>0, <2>1, <2>3 DEF PartViews
  <2>7. PartOf(server')
    BY <1>0, <2>4, <2>5, <2>6 DEF PartOf
  <2>8. extra' \in PartPast
    BY <1>0, <2>1, <2>2 DEF PartPast
  <2>9. extra'.chosen = extra.chosen /\ extra'.overtaken = o
    BY <1>0, <2>1, <2>2 DEF PartPast
  <2>10. ~extra'.overtaken => LogOf(server', flight')
    BY <2>2, <2>5, <2>9 DEF LogOf
  <2>11. flight' \in [Slots -> PartRequests]
    BY <1>3, <2>1
  <2> QED
    BY <1>0, <2>1, <2>7, <2>8, <2>9, <2>10, <2>11 DEF PartsInv
<1>16. ASSUME NEW s \in Slots, Parts!TrafficArrives(s) PROVE PartsInv'
  <2>1. flight[s].ask = "traffic" /\ server' = Parts!Rows([server EXCEPT !.known = flight[s].found])
        /\ flight' = Parts!Over(flight, s) /\ UNCHANGED <<view, extra>>
    BY <1>16 DEF Parts!TrafficArrives
  <2>2. PICK found \in SUBSET Connections : found = flight[s].found
    BY <1>2, <2>1
  <2>3. [server EXCEPT !.known = found] = Sought(server, found, server.search)
    BY <1>0 DEF PartViews, Sought
  <2>4. server.search \in Parts!Searches
    BY <1>0 DEF PartViews
  <2>5. PartOf(server') /\ server'.lines = server.lines /\ server'.filter = server.filter /\ server'.waits = server.waits
    BY <1>0, <1>4, <2>1, <2>2, <2>3, <2>4
  <2>6. flight' \in [Slots -> PartRequests] /\ \A t \in Slots \ {s} : flight'[t] = flight[t]
    BY <1>3, <2>1
  <2>7. LogOf(server, flight) => LogOf(server', flight')
    BY <2>1, <2>5, <2>6 DEF LogOf
  <2> QED
    BY <1>0, <1>7, <2>1, <2>5, <2>6, <2>7
<1>17. ASSUME NEW s \in Slots, Parts!Fails(s) PROVE PartsInv'
  <2> DEFINE f == extra.failed \/ flight[s].ask = "log"
  <2>1. UNCHANGED <<view, server>> /\ extra' = [extra EXCEPT !.failed = f] /\ flight' = Parts!Over(flight, s)
    BY <1>0, <1>17 DEF Parts!Fails, PartPast
  <2>2. f \in BOOLEAN /\ (~f => ~extra.failed /\ flight[s].ask # "log")
    BY <1>0 DEF PartPast
  <2> HIDE DEF f
  <2>3. extra' \in PartPast
    BY <1>0, <2>1, <2>2 DEF PartPast
  <2>4. extra'.chosen = extra.chosen /\ extra'.failed = f /\ extra'.overtaken = extra.overtaken
    BY <1>0, <2>1, <2>2 DEF PartPast
  <2>5. flight' \in [Slots -> PartRequests] /\ \A t \in Slots \ {s} : flight'[t] = flight[t]
    BY <1>3, <2>1
  <2>6. ~f => (LogOf(server, flight) => LogOf(server', flight'))
    BY <2>1, <2>2, <2>5 DEF LogOf
  <2> QED
    BY <1>0, <2>1, <2>2, <2>3, <2>4, <2>5, <2>6 DEF PartsInv
<1> QED
  BY <1>5, <1>6, <1>8, <1>9, <1>10, <1>11, <1>12, <1>13, <1>14, <1>15, <1>16, <1>17 DEF Parts!Next

\* The invariant holds when the panel is opened.
LEMMA PartsStart == Parts!Init => PartsInv
<1> SUFFICES ASSUME Parts!Init PROVE PartsInv
  OBVIOUS
<1>1. PICK narrow \in BOOLEAN, stored \in BOOLEAN :
        /\ view = [narrow |-> narrow, collapsed |-> stored /\ ~narrow, stored |-> stored]
        /\ extra = [clicks |-> 0, chosen |-> stored, overtaken |-> FALSE, failed |-> FALSE]
  BY DEF Parts!Init
<1>2. PICK filter \in PartFilters :
        server = [message |-> 0, visible |-> FALSE, timers |-> {}, filter |-> filter, lines |-> filter, waits |-> FALSE,
                  search |-> "all", known |-> {}, rows |-> {}]
  BY DEF Parts!Init
<1>3. view \in BarViews /\ view.stored = stored
  <2> DEFINE c == stored /\ ~narrow
  <2>1. c \in BOOLEAN /\ view = [narrow |-> narrow, collapsed |-> c, stored |-> stored]
    BY <1>1
  <2> HIDE DEF c
  <2> QED
    BY <2>1 DEF BarViews
<1>4. extra \in PartPast /\ extra.chosen = stored
  BY <1>1, PartsGiven DEF PartPast
<1>5. 0 \in 0 .. MaxMessages /\ "all" \in Parts!Searches
  BY PartsGiven DEF Parts!Searches
<1>6. PartOf(server)
  BY <1>2, <1>5 DEF PartOf, PartViews
<1>7. flight \in [Slots -> PartRequests]
  BY DEF Parts!Init, Parts!NoRequests, PartRequests
<1>8. LogOf(server, flight)
  BY <1>2 DEF LogOf
<1> QED
  BY <1>3, <1>4, <1>6, <1>7, <1>8 DEF PartsInv

-----------------------------------------------------------------------------
(* The page: the invariant of the panel in focus.                          *)

\* The inductive invariant of the page.
ChoiceInv ==
  /\ focus = "frame" => FrameInv
  /\ focus = "scripts" => ScriptsInv
  /\ focus = "backups" => BackupsInv
  /\ focus = "copying" => CopyingInv
  /\ focus = "parts" => PartsInv

\* A page that does nothing keeps the invariant of its panel.
LEMMA ChoiceRests == ChoiceInv /\ UNCHANGED vars => ChoiceInv'
<1> SUFFICES ASSUME ChoiceInv, UNCHANGED vars PROVE ChoiceInv'
  OBVIOUS
<1>1. view' = view /\ flight' = flight /\ server' = server /\ extra' = extra /\ focus' = focus
  BY DEF vars
<1>2. FrameInv => FrameInv'
  BY <1>1 DEF FrameInv
<1>3. ScriptsInv => ScriptsInv'
  BY <1>1 DEF ScriptsInv
<1>4. BackupsInv => BackupsInv'
  BY <1>1 DEF BackupsInv
<1>5. CopyingInv => CopyingInv'
  BY <1>1 DEF CopyingInv
<1>6. PartsInv => PartsInv'
  BY <1>1 DEF PartsInv
<1> QED
  BY <1>1, <1>2, <1>3, <1>4, <1>5, <1>6 DEF ChoiceInv

\* Every step of the page is one of the panel in focus.
LEMMA ChoiceSteps == ChoiceInv /\ [Next]_vars => ChoiceInv'
<1> SUFFICES ASSUME ChoiceInv, Next PROVE ChoiceInv'
  BY ChoiceRests
<1>1. CASE In("frame") /\ Frame!Next
  BY <1>1, FrameSteps DEF In, ChoiceInv
<1>2. CASE In("scripts") /\ Scripts!Next
  BY <1>2, ScriptsSteps DEF In, ChoiceInv
<1>3. CASE In("backups") /\ Backups!Next
  BY <1>3, BackupsSteps DEF In, ChoiceInv
<1>4. CASE In("copying") /\ Copying!Next
  BY <1>4, CopyingSteps DEF In, ChoiceInv
<1>5. CASE In("parts") /\ Parts!Next
  BY <1>5, PartsSteps DEF In, ChoiceInv
<1>6. CASE focus' \in {"tables", "dialogs", "logs", "flows", "monitor", "apps", "remote", "keyboard", "chart", "readings", "ssh"}
  BY <1>6 DEF ChoiceInv
<1> QED
  BY <1>1, <1>2, <1>3, <1>4, <1>5, <1>6 DEF Next, In

\* Whatever panel is opened, its invariant holds at first.
LEMMA ChoiceStarts == Init => ChoiceInv
BY FrameStart, ScriptsStart, BackupsStart, CopyingStart, PartsStart DEF Init, ChoiceInv

\* The invariant of the page, in every state of every behaviour.
THEOREM ChoiceInvariant == Spec => []ChoiceInv
BY ChoiceStarts, ChoiceSteps, PTL DEF Spec

\* For any menu, any start and any number of runs of it: menu, section, polling,
\* login and stored configuration agree.
THEOREM FrameAgreesAlways == Spec => []FrameAgrees
<1>1. ChoiceInv => FrameAgrees
  BY FrameMean DEF ChoiceInv, FrameAgrees
<1> QED
  BY <1>1, ChoiceInvariant, PTL

\* For any runs, scripts, sources, texts, filters and connections: a run is
\* followed to its end, only what was picked is archived, a message claims what
\* is there, and choices of the user outlast what arrives.
THEOREM ChoiceKept == Spec => []PanelsKeepTheChoice
<1>1. ChoiceInv => PanelsKeepTheChoice
  BY ScriptsMean, BackupsMean, CopyingMean, PartsMean DEF ChoiceInv, PanelsKeepTheChoice
<1> QED
  BY <1>1, ChoiceInvariant, PTL

\* For every value of the constants the variables of every panel keep their
\* types.
THEOREM TypesKept == Spec => []PanelTypes
<1>1. PageInv /\ ChoiceInv => PanelTypes
  BY TablesMean, DialogsMean, LogsMean, FlowsMean, MonitorMean, AppsMean, RemoteMean, KeysMean, ChartMean,
     ReadingsMean, SshMean, FrameMean, ScriptsMean, BackupsMean, CopyingMean, PartsMean
     DEF PageInv, ChoiceInv, PanelTypes
<1> QED
  BY <1>1, Invariant, ChoiceInvariant, PTL
=============================================================================
