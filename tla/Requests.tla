------------------------------ MODULE Requests ------------------------------
(***************************************************************************)
(* The requests of a panel that are under way (fetchWithTimeout and fetch  *)
(* in frontend/src/legacy-app.js).  A request is a record whose field ask  *)
(* says what it is for; it stays in its slot until its answer, its failure *)
(* or its timeout has been handled.  The browser does not order answers:   *)
(* any slot may end first.                                                 *)
(***************************************************************************)
CONSTANT Slots   \* requests of a panel that are under way at a time (a bound)

Unused == [ask |-> "none"]

NoRequests == [s \in Slots |-> Unused]

Room(flight) == \E s \in Slots : flight[s] = Unused

Send(flight, request) ==
  [flight EXCEPT ![CHOOSE s \in Slots : flight[s] = Unused] = request]

Over(flight, s) == [flight EXCEPT ![s] = Unused]

\* Some request of this kind is under way.
Awaits(flight, ask) == \E s \in Slots : flight[s].ask = ask
=============================================================================
