------------------------------ MODULE RemoteKeys ------------------------------
(***************************************************************************)
(* The keyboard of the remote desktop (frontend/src/legacy-app.js): which  *)
(* key events go to the machine that is shown, which ones the page takes   *)
(* for itself, and what stays pressed over there.  "ctrl" stands for       *)
(* Control and Shift together, which make "f" the page's own key.  The     *)
(* connection is that of RemoteDesktop.  Operators marked FAULT are seeded *)
(* errors that no action uses: each replaces the definition that follows   *)
(* it.                                                                     *)
(***************************************************************************)
EXTENDS Naturals

CONSTANT Keys   \* keys of the keyboard, "ctrl", "f" and "escape" among them

VARIABLES
  desk,   \* the page: section, connection, focus, full screen
  held,   \* the keys that the user holds down
  past    \* history: what is pressed over there, and what was left behind

vars == <<desk, held, past>>

TypeOK ==
  /\ desk \in [shown : BOOLEAN, connected : BOOLEAN, full : BOOLEAN,
               focus : {"canvas", "field", "elsewhere"}]
  /\ held \subseteq Keys
  /\ past \in [down : SUBSET Keys, left : SUBSET Keys]

Init ==
  /\ desk = [shown |-> TRUE, connected |-> FALSE, full |-> FALSE, focus |-> "elsewhere"]
  /\ held = {}
  /\ past = [down |-> {}, left |-> {}]

-----------------------------------------------------------------------------
(* handleRemoteHotkeys, for a key that goes down or up.                    *)

Leaves(k) == desk.full /\ k = "escape"
Toggles(k) == k = "f" /\ "ctrl" \in held

\* FAULT: what comes up in a full screen is the page's own.
OnlyDownInFull(k) == desk.focus = "canvas" /\ (~desk.full \/ k \notin held)

\* Keys go over while the picture has the focus or fills the screen, unless
\* they are typed into a field.
Goes(k) == desk.focus # "field" /\ (desk.focus = "canvas" \/ desk.full)

Sent(k) == desk.shown /\ ~Leaves(k) /\ ~Toggles(k) /\ desk.connected /\ Goes(k)

\* The key for the full screen works both when it goes down and when it
\* comes up again.
Screen(k) ==
  IF ~desk.shown THEN desk.full
  ELSE IF Leaves(k) THEN FALSE ELSE IF Toggles(k) THEN ~desk.full ELSE desk.full

\* Keys that are down when the page's own keys or places change may lose
\* their way up.
Left(change) == IF change THEN past.left \cup past.down ELSE past.left

\* A key goes down, or is held and repeats.
Press(k) ==
  /\ held' = held \cup {k}
  /\ desk' = [desk EXCEPT !.full = Screen(k)]
  /\ past' = [down |-> IF Sent(k) THEN past.down \cup {k} ELSE past.down,
              left |-> Left(k = "ctrl" \/ Screen(k) # desk.full) \ (IF Sent(k) THEN {k} ELSE {})]

Release(k) ==
  /\ k \in held
  /\ held' = held \ {k}
  /\ desk' = [desk EXCEPT !.full = Screen(k)]
  /\ past' = [down |-> IF Sent(k) THEN past.down \ {k} ELSE past.down,
              left |-> Left(Screen(k) # desk.full)]

-----------------------------------------------------------------------------
(* Everything else that moves the focus or the screen.                     *)

Change(field, to) ==
  /\ desk[field] # to
  /\ desk' = [desk EXCEPT ![field] = to]
  /\ past' = [past EXCEPT !.left = Left(TRUE)]
  /\ UNCHANGED held

\* switchSection; the screen stays as it is.
Show == \E to \in BOOLEAN : Change("shown", to)

\* The first message of a socket and its end.
Connected == \E to \in BOOLEAN : Change("connected", to)

\* toggleRemoteFullscreen, by its button.
Toggle == desk.shown /\ Change("full", ~desk.full)

Focus == \E to \in {"canvas", "field", "elsewhere"} : Change("focus", to)

-----------------------------------------------------------------------------

Next ==
  \/ \E k \in Keys : Press(k) \/ Release(k)
  \/ Show \/ Connected \/ Toggle \/ Focus

Spec == Init /\ [][Next]_vars

-----------------------------------------------------------------------------
(* Properties.                                                             *)

\* A key that is pressed on the machine is one that the user holds down,
\* unless the focus, the connection or the page's own keys came between its
\* way down and its way up.
NoKeyStuck == past.down \subseteq held \cup past.left
=============================================================================
