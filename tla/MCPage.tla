-------------------------------- MODULE MCPage --------------------------------
(* The panels of Page, each on a small instance.  Of the chart five of six *)
(* points are drawn, and the window shows four units of up to ten.         *)
EXTENDS Page, TLC

Symmetry == Permutations(Slots)

(* Containers 1 and 2, of which a search finds the second, on pages of one *)
(* row.                                                                    *)
SearchedContainers == [all |-> {1, 2}, one |-> {2}]

(* A listening TCP connection and a UDP one, with room for one row.        *)
TcpAndUdp ==
  [a |-> [protocol |-> "tcp", status |-> "LISTEN"], b |-> [protocol |-> "udp", status |-> ""]]

(* Three snapshots; the second finds a process in both lists.              *)
EvenCounter == [t \in 0 .. 3 |-> 2 * t]

SameShare == <<5, 5>>

InBothLists == [t \in 1 .. 3 |-> [top |-> <<1>>, jvm |-> IF t = 2 THEN <<1, 2>> ELSE <<2>>]]

ThreeSections == <<"monitor", "traffic", "system">>

TwoSteps == <<"config", "panel">>

(* Two volumes of one device; the name of the second fits another device,  *)
(* and the hardware is listed twice.                                       *)
OneOrTwo == <<{"sda"}, {"sda", "sdb"}>>

SameDevice == [v \in {1, 2} |-> [device |-> "sda", size |-> 2]]

ListedTwice ==
  <<[name |-> "d0", size |-> 5, serial |-> "-"], [name |-> "d0", size |-> 5, serial |-> "x"]>>

SearchedConnections == [all |-> {1}, none |-> {}]
=============================================================================
