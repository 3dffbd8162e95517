-------------------------- MODULE MonitorHubProofs --------------------------
(***************************************************************************)
(* Safety of MonitorHub for every set of clients and pollers, every        *)
(* channel capacity and any number of snapshots.                           *)
(***************************************************************************)
EXTENDS MonitorHub, SequenceTheorems, TLAPS

USE HubAssumption DEF Procs

\* An accepted payload leaves a queue that the channel can hold.
LEMMA AppendedQueue ==
  ASSUME TypeOK, NEW c \in Clients, NEW m \in Payload, SendAccepted(c, m)
  PROVE  /\ queue' \in [Clients -> Seq(Payload)]
         /\ \A d \in Clients : Len(queue'[d]) <= SendCap
<1>1. queue[c] \in Seq(Payload) /\ Len(queue[c]) < SendCap
  BY DEF TypeOK, SendAccepted, HasRoom
<1>2. Append(queue[c], m) \in Seq(Payload) /\ Len(Append(queue[c], m)) <= SendCap
  BY <1>1
<1> QED
  BY <1>2 DEF TypeOK, SendAccepted

\* The initial state is well typed.
LEMMA InitTyped == Init => TypeOK
<1> SUFFICES ASSUME Init PROVE TypeOK
  OBVIOUS
<1>1. <<>> \in Seq(Payload) /\ Len(<<>>) <= SendCap
  OBVIOUS
<1>2. queue \in [Clients -> Seq(Payload)] /\ \A c \in Clients : Len(queue[c]) <= SendCap
  BY <1>1 DEF Init
<1> QED
  BY <1>2 DEF Init, TypeOK

\* The variables keep their types: no goroutine, client or handler brings the
\* hub into a state the code has no name for, and no queue exceeds its channel.
THEOREM TypeCorrect == Spec => []TypeOK
<1>1. Init => TypeOK
  BY InitTyped
<1>2. TypeOK /\ [Next]_vars => TypeOK'
  <2> SUFFICES ASSUME TypeOK, [Next]_vars PROVE TypeOK'
    OBVIOUS
  <2>1. ASSUME NEW p \in Procs, Lock(p) PROVE TypeOK'
    BY <2>1 DEF Lock, TypeOK, At, Goto, chanVars, connVars, procVars
  <2>2. ASSUME NEW p \in Procs, Gather(p) PROVE TypeOK'
    BY <2>2 DEF Gather, TypeOK, At, Goto, chanVars, connVars, procVars
  <2>3. ASSUME NEW p \in Procs, CopyClients(p) PROVE TypeOK'
    BY <2>3 DEF CopyClients, TypeOK, At, Goto, chanVars, connVars, procVars
  <2>4. ASSUME NEW p \in Procs, EndCollect(p) PROVE TypeOK'
    BY <2>4 DEF EndCollect, TypeOK, At, Goto, chanVars, connVars, procVars
  <2>5. ASSUME NEW p \in Procs, NEW c \in Clients, Broadcast(p, c) PROVE TypeOK'
    <3> DEFINE m == [gen |-> held[p], via |-> "broadcast"]
    <3>1. m \in Payload
      BY DEF TypeOK, Payload
    <3>2. [targets EXCEPT ![p] = @ \ {c}] \in [Procs -> SUBSET Clients]
      BY DEF TypeOK
    <3>3. CASE /\ SendAccepted(c, m)
               /\ targets' = [targets EXCEPT ![p] = @ \ {c}]
               /\ UNCHANGED <<pc, collectMu, process>>
      BY <2>5, <3>1, <3>2, <3>3, AppendedQueue DEF Broadcast, TypeOK, SendAccepted
    <3>4. CASE /\ SendRefused(c)
               /\ targets' = [targets EXCEPT ![p] = @ \ {c}]
               /\ UNCHANGED <<pc, collectMu, process>>
      BY <2>5, <3>2, <3>4 DEF Broadcast, TypeOK, SendRefused, HangUp, Unregister
    <3>5. CASE SendPanics(p, c)
      BY <2>5, <3>5 DEF Broadcast, TypeOK, SendPanics, LockAfterPanic, Goto, chanVars
    <3> QED
      BY <2>5, <3>3, <3>4, <3>5 DEF Broadcast
  <2>6. CASE Tick
    BY <2>6 DEF Tick, TypeOK, At, Goto, collectVars, chanVars, connVars, procVars
  <2>7. CASE CollectorStops
    BY <2>7 DEF CollectorStops, TypeOK, At, Goto, collectVars, chanVars, connVars, procVars
  <2>8. ASSUME NEW c \in Clients, Connect(c) PROVE TypeOK'
    BY <2>8 DEF Connect, TypeOK, At, Goto, collectVars, procVars
  <2>9. ASSUME NEW p \in Procs, Ready(p) PROVE TypeOK'
    BY <2>9 DEF Ready, TypeOK, At, Goto, chanVars, connVars, procVars
  <2>10. ASSUME NEW p \in Procs, NotReady(p) PROVE TypeOK'
    BY <2>10 DEF NotReady, TypeOK, At, Goto, collectVars, chanVars, connVars, procVars
  <2>11. ASSUME NEW c \in Clients, Push(c) PROVE TypeOK'
    <3> DEFINE m == [gen |-> held[c], via |-> "push"]
    <3>1. m \in Payload
      BY DEF TypeOK, Payload
    <3>2. CASE SendAccepted(c, m) /\ Goto(c, "done") /\ UNCHANGED <<collectMu, targets, process>>
      BY <2>11, <3>1, <3>2, AppendedQueue DEF Push, TypeOK, SendAccepted, Goto
    <3>3. CASE SendRefused(c) /\ Goto(c, "done") /\ UNCHANGED <<collectMu, targets, process>>
      BY <2>11, <3>3 DEF Push, TypeOK, SendRefused, HangUp, Unregister, Goto
    <3>4. CASE SendPanics(c, c)
      BY <2>11, <3>4 DEF Push, TypeOK, SendPanics, LockAfterPanic, Goto, chanVars
    <3> QED
      BY <2>11, <3>2, <3>3, <3>4 DEF Push
  <2>12. ASSUME NEW c \in Clients, PeerLeaves(c) PROVE TypeOK'
    BY <2>12 DEF PeerLeaves, TypeOK, collectVars, chanVars, procVars
  <2>13. ASSUME NEW c \in Clients, ReaderExits(c) PROVE TypeOK'
    BY <2>13 DEF ReaderExits, HangUp, Unregister, TypeOK, collectVars, procVars
  <2>14. ASSUME NEW c \in Clients, WriterSends(c) PROVE TypeOK'
    <3> DEFINE q == queue[c]
    <3>1. q \in Seq(Payload) /\ q # <<>> /\ Len(q) <= SendCap
      BY <2>14 DEF WriterSends, TypeOK
    <3>2. Tail(q) \in Seq(Payload) /\ Len(Tail(q)) <= SendCap
      BY <3>1
    <3>3. Head(q) \in Payload
      BY <3>1
    <3>4. Head(q).gen \in Nat
      BY <3>3 DEF Payload
    <3> QED
      BY <2>14, <3>2, <3>4 DEF WriterSends, TypeOK, collectVars, procVars
  <2>15. ASSUME NEW c \in Clients, WriterFails(c) PROVE TypeOK'
    BY <2>15 DEF WriterFails, HangUp, Unregister, TypeOK, collectVars, procVars
  <2>16. ASSUME NEW c \in Clients, WriterEnds(c) PROVE TypeOK'
    BY <2>16 DEF WriterEnds, HangUp, Unregister, TypeOK, collectVars, procVars
  <2>17. ASSUME NEW c \in Clients, CloseOne(c) PROVE TypeOK'
    BY <2>17 DEF CloseOne, TypeOK, collectVars
  <2>18. ASSUME NEW p \in Pollers, PollerArrives(p) PROVE TypeOK'
    BY <2>18 DEF PollerArrives, TypeOK, At, Goto, collectVars, chanVars, connVars, procVars
  <2>19. CASE StopCollector
    BY <2>19 DEF StopCollector, TypeOK, collectVars, chanVars, connVars
  <2>20. CASE TakeAllClients
    BY <2>20 DEF TakeAllClients, TypeOK, collectVars, connVars
  <2>21. CASE ProcessExits
    BY <2>21 DEF ProcessExits, TypeOK, collectVars, chanVars, connVars
  <2>22. CASE UNCHANGED vars
    BY <2>22 DEF vars, TypeOK, collectVars, chanVars, connVars, procVars
  <2> QED
    BY <2>1, <2>2, <2>3, <2>4, <2>5, <2>6, <2>7, <2>8, <2>9, <2>10, <2>11, <2>12,
       <2>13, <2>14, <2>15, <2>16, <2>17, <2>18, <2>19, <2>20, <2>21, <2>22
       DEF Next, Collect, Handler, Writer
<1> QED
  BY <1>1, <1>2, PTL DEF Spec

-----------------------------------------------------------------------------

\* The holder of monitorCollectMu is the one goroutine that is between taking
\* a snapshot and the end of its broadcast; the mutex is free again after a
\* goroutine has panicked.
THEOREM Exclusion == Spec => []CollectionsExclusive
<1> USE DEF CollectionsExclusive
<1>1. Init => CollectionsExclusive
  BY DEF Init
<1>2. TypeOK /\ CollectionsExclusive /\ [Next]_vars => CollectionsExclusive'
  <2> SUFFICES ASSUME TypeOK, CollectionsExclusive, [Next]_vars
               PROVE  CollectionsExclusive'
    OBVIOUS
  <2> USE DEF TypeOK, At, Goto
  <2>1. ASSUME NEW p \in Procs, Lock(p) PROVE CollectionsExclusive'
    BY <2>1 DEF Lock, LockFree
  <2>2. ASSUME NEW p \in Procs, Gather(p) PROVE CollectionsExclusive'
    BY <2>2 DEF Gather
  <2>3. ASSUME NEW p \in Procs, CopyClients(p) PROVE CollectionsExclusive'
    BY <2>3 DEF CopyClients
  <2>4. ASSUME NEW p \in Procs, EndCollect(p) PROVE CollectionsExclusive'
    BY <2>4 DEF EndCollect
  <2>5. ASSUME NEW p \in Procs, NEW c \in Clients, Broadcast(p, c)
        PROVE  CollectionsExclusive'
    <3>1. CASE UNCHANGED <<pc, collectMu>>
      BY <3>1
    <3>2. CASE SendPanics(p, c)
      <4>1. collectMu = p
        BY <2>5 DEF Broadcast
      <4>2. collectMu' = Nobody /\ pc' = [pc EXCEPT ![p] = "done"]
        BY <3>2, <4>1 DEF SendPanics, LockAfterPanic
      <4> QED
        BY <4>1, <4>2
    <3> QED
      BY <2>5, <3>1, <3>2 DEF Broadcast
  <2>6. CASE Tick
    BY <2>6 DEF Tick, collectVars
  <2>7. CASE CollectorStops
    BY <2>7 DEF CollectorStops, collectVars
  <2>8. ASSUME NEW c \in Clients, Connect(c) PROVE CollectionsExclusive'
    BY <2>8 DEF Connect, collectVars
  <2>9. ASSUME NEW p \in Procs, Ready(p) PROVE CollectionsExclusive'
    BY <2>9 DEF Ready
  <2>10. ASSUME NEW p \in Procs, NotReady(p) PROVE CollectionsExclusive'
    BY <2>10 DEF NotReady, collectVars
  <2>11. ASSUME NEW c \in Clients, Push(c) PROVE CollectionsExclusive'
    BY <2>11 DEF Push, SendPanics, LockAfterPanic
  <2>12. ASSUME NEW p \in Pollers, PollerArrives(p) PROVE CollectionsExclusive'
    BY <2>12 DEF PollerArrives, collectVars
  <2>13. ASSUME UNCHANGED <<pc, collectMu>> PROVE CollectionsExclusive'
    BY <2>13
  <2>14. ASSUME NEW c \in Clients, \/ PeerLeaves(c) \/ ReaderExits(c)
                                  \/ Writer(c) \/ CloseOne(c)
         PROVE  CollectionsExclusive'
    BY <2>13, <2>14 DEF PeerLeaves, ReaderExits, Writer, WriterSends, WriterFails,
                        WriterEnds, CloseOne, collectVars
  <2>15. CASE StopCollector \/ TakeAllClients \/ ProcessExits \/ UNCHANGED vars
    BY <2>13, <2>15 DEF StopCollector, TakeAllClients, ProcessExits, vars, collectVars
  <2> QED
    BY <2>1, <2>2, <2>3, <2>4, <2>5, <2>6, <2>7, <2>8, <2>9, <2>10, <2>11, <2>12,
       <2>14, <2>15 DEF Next, Collect, Handler
<1> QED
  BY <1>1, <1>2, TypeCorrect, PTL DEF Spec

-----------------------------------------------------------------------------

\* A connection that has not been made is in nobody's hands.  With this the
\* invariant ListedChannelsOpen is inductive: Connect opens a channel that no
\* list has and CloseOne never meets a connection made later.
IdleUnlisted == \A c \in Clients : pc[c] = "idle" => c \notin wsClients \cup closing

\* The inductive invariant.
ListsInv == TypeOK /\ ListedChannelsOpen /\ IdleUnlisted

\* A client in the map, or one that Shutdown has still to close, has an open
\* channel: no second close of a channel panics.
THEOREM ChannelsOpen == Spec => []ListedChannelsOpen
<1>1. Init => ListsInv
  BY InitTyped DEF Init, ListsInv, ListedChannelsOpen, IdleUnlisted
<1>2. ListsInv /\ TypeOK' /\ [Next]_vars => ListsInv'
  <2> SUFFICES ASSUME ListsInv, TypeOK', [Next]_vars
               PROVE  ListedChannelsOpen' /\ IdleUnlisted'
    BY DEF ListsInv
  <2> DEFINE P == ListedChannelsOpen' /\ IdleUnlisted'
  <2> USE DEF ListedChannelsOpen, IdleUnlisted, At, Goto
  <2>0. /\ ListedChannelsOpen /\ IdleUnlisted
        /\ wsClients \subseteq Clients /\ closing \subseteq Clients
        /\ chan \in [Clients -> {"none", "open", "closed"}]
        /\ DOMAIN pc = Procs
    BY DEF ListsInv, TypeOK
  <2>1. ASSUME UNCHANGED <<wsClients, chan, closing>>,
               \A c \in Clients : pc'[c] = "idle" => pc[c] = "idle"
        PROVE  P
    BY <2>0, <2>1
  <2>2. ASSUME NEW p \in Procs, Lock(p) \/ Gather(p) \/ CopyClients(p) \/ EndCollect(p)
        PROVE  P
    BY <2>0, <2>1, <2>2 DEF Lock, Gather, CopyClients, EndCollect, chanVars, procVars
  <2>3. ASSUME NEW p \in Procs, Ready(p) \/ NotReady(p)
        PROVE  P
    BY <2>0, <2>1, <2>3 DEF Ready, NotReady, chanVars, procVars
  <2>4. CASE Tick \/ CollectorStops
    BY <2>0, <2>1, <2>4 DEF Tick, CollectorStops, chanVars, procVars
  <2>5. ASSUME NEW p \in Pollers, PollerArrives(p)
        PROVE  P
    BY <2>0, <2>1, <2>5 DEF PollerArrives, chanVars, procVars
  <2>6. ASSUME NEW c \in Clients, Unregister(c), closing' = closing,
               \A d \in Clients : pc'[d] = "idle" => pc[d] = "idle"
        PROVE  P
    <3>1. ListedChannelsOpen'
      BY <2>0, <2>6 DEF Unregister
    <3>2. IdleUnlisted'
      BY <2>0, <2>6 DEF Unregister
    <3> QED
      BY <3>1, <3>2
  <2>7. ASSUME NEW p \in Procs, NEW c \in Clients, Broadcast(p, c)
        PROVE  P
    BY <2>0, <2>1, <2>6, <2>7 DEF Broadcast, SendAccepted, SendRefused, SendPanics, HangUp, chanVars
  <2>8. ASSUME NEW c \in Clients, Push(c) PROVE P
    BY <2>0, <2>1, <2>6, <2>8 DEF Push, SendAccepted, SendRefused, SendPanics, HangUp, chanVars
  <2>9. ASSUME NEW c \in Clients, Connect(c) PROVE P
    BY <2>0, <2>9 DEF Connect, procVars
  <2>10. ASSUME NEW c \in Clients, PeerLeaves(c) \/ WriterSends(c)
         PROVE  P
    BY <2>0, <2>1, <2>10 DEF PeerLeaves, WriterSends, chanVars, procVars
  <2>11. ASSUME NEW c \in Clients, ReaderExits(c) \/ WriterFails(c) \/ WriterEnds(c)
         PROVE  P
    BY <2>0, <2>6, <2>11 DEF ReaderExits, WriterFails, WriterEnds, HangUp, procVars
  <2>12. CASE TakeAllClients
    BY <2>0, <2>12 DEF TakeAllClients
  <2>13. ASSUME NEW c \in Clients, CloseOne(c) PROVE P
    BY <2>0, <2>13 DEF CloseOne
  <2>14. CASE StopCollector \/ ProcessExits \/ UNCHANGED vars
    BY <2>0, <2>1, <2>14 DEF StopCollector, ProcessExits, vars, chanVars, procVars
  <2> QED
    BY <2>2, <2>3, <2>4, <2>5, <2>7, <2>8, <2>9, <2>10, <2>11, <2>12, <2>13, <2>14
       DEF Next, Collect, Handler, Writer
<1>3. ListsInv => ListedChannelsOpen
  BY DEF ListsInv
<1> QED
  BY <1>1, <1>2, <1>3, TypeCorrect, PTL DEF Spec

-----------------------------------------------------------------------------
(* The order of the broadcasts.                                            *)

\* The broadcast snapshots among the payloads of a queue.
Generations(q) == {q[i].gen : i \in {k \in DOMAIN q : IsBroadcast(q[k])}}

\* They are in the order they were taken.
Increasing(q) ==
  \A i, j \in DOMAIN q :
    i < j /\ IsBroadcast(q[i]) /\ IsBroadcast(q[j]) => q[i].gen < q[j].gen

\* What a peer has seen and what it is going to see.
Delivered(c) == {shown[c]} \cup Generations(queue[c])

\* The snapshots of a queue are numbers.
LEMMA GenerationFacts ==
  ASSUME NEW q \in Seq(Payload)
  PROVE  /\ Generations(q) \subseteq Nat
         /\ \A i \in DOMAIN q : IsBroadcast(q[i]) => q[i].gen \in Generations(q)
<1>1. \A i \in DOMAIN q : q[i] \in Payload
  BY LenProperties, ElementOfSeq
<1> QED
  BY <1>1 DEF Generations, Payload

\* The empty queue has none.
LEMMA EmptyFeed == Generations(<<>>) = {} /\ Increasing(<<>>)
<1>1. DOMAIN <<>> = {}
  BY EmptySeq, LenProperties
<1> QED
  BY <1>1 DEF Generations, Increasing

\* A payload at the end of a queue adds its snapshot when it is a broadcast,
\* and keeps the order when that one is newer than all the others.
LEMMA AppendFeed ==
  ASSUME NEW q \in Seq(Payload), NEW m \in Payload
  PROVE  /\ Generations(Append(q, m)) \subseteq Generations(q) \cup {m.gen}
         /\ ~IsBroadcast(m) => Generations(Append(q, m)) = Generations(q)
         /\ Increasing(q) /\ (IsBroadcast(m) => \A g \in Generations(q) : g < m.gen) =>
              Increasing(Append(q, m))
<1> DEFINE r == Append(q, m)
<1>1. PICK n \in Nat : n = Len(q)
  BY LenProperties
<1>2. /\ DOMAIN q = 1 .. n /\ DOMAIN r = 1 .. n + 1
      /\ \A i \in 1 .. n : r[i] = q[i]
      /\ r[n + 1] = m
  BY <1>1, AppendProperties, LenProperties
<1>3. 1 .. n + 1 = (1 .. n) \cup {n + 1}
  OBVIOUS
<1> HIDE DEF r
<1>4. Generations(r) \subseteq Generations(q) \cup {m.gen}
  BY <1>2, <1>3 DEF Generations
<1>5. ~IsBroadcast(m) => Generations(r) = Generations(q)
  BY <1>2, <1>3 DEF Generations
<1>6. ASSUME Increasing(q), IsBroadcast(m) => \A g \in Generations(q) : g < m.gen
      PROVE  Increasing(r)
  <2> SUFFICES ASSUME NEW i \in 1 .. n + 1, NEW j \in 1 .. n + 1, i < j,
                      IsBroadcast(r[i]), IsBroadcast(r[j])
               PROVE  r[i].gen < r[j].gen
    BY <1>2 DEF Increasing
  <2>1. i \in 1 .. n /\ r[i] = q[i]
    BY <1>2
  <2>2. CASE j = n + 1
    <3>1. q[i].gen \in Generations(q)
      BY <1>2, <2>1, GenerationFacts
    <3> QED
      BY <1>2, <1>6, <2>1, <2>2, <3>1
  <2>3. CASE j # n + 1
    <3>1. j \in 1 .. n /\ r[j] = q[j]
      BY <1>2, <1>3, <2>3
    <3> QED
      BY <1>2, <1>6, <2>1, <3>1 DEF Increasing
  <2> QED
    BY <2>2, <2>3
<1> QED
  BY <1>4, <1>5, <1>6 DEF r

\* A queue without its first payload has no other snapshots; the first one is
\* older than the rest when the queue was in order.
LEMMA TailFeed ==
  ASSUME NEW q \in Seq(Payload), q # <<>>
  PROVE  /\ Head(q) \in Payload /\ Tail(q) \in Seq(Payload)
         /\ Generations(Tail(q)) \subseteq Generations(q)
         /\ IsBroadcast(Head(q)) => Head(q).gen \in Generations(q)
         /\ Increasing(q) =>
              /\ Increasing(Tail(q))
              /\ IsBroadcast(Head(q)) => \A g \in Generations(Tail(q)) : Head(q).gen < g
<1> DEFINE t == Tail(q)
<1>1. PICK n \in Nat : n + 1 = Len(q)
  <2>1. Len(q) \in Nat /\ Len(q) > 0
    BY LenProperties, EmptySeq
  <2>2. Len(q) - 1 \in Nat /\ (Len(q) - 1) + 1 = Len(q)
    BY <2>1
  <2> QED
    BY <2>2
<1>2. Head(q) = q[1] /\ t \in Seq(Payload)
  OBVIOUS
<1>3. DOMAIN q = 1 .. n + 1 /\ Len(t) = n /\ \A i \in 1 .. n : t[i] = q[i + 1]
  BY <1>1, HeadTailProperties, LenProperties
<1>4. DOMAIN t = 1 .. n
  BY <1>2, <1>3, LenProperties
<1> HIDE DEF t
<1>5. 1 \in DOMAIN q /\ \A i \in 1 .. n : i + 1 \in DOMAIN q
  BY <1>3
<1>6. Head(q) \in Payload /\ (IsBroadcast(Head(q)) => Head(q).gen \in Generations(q))
  BY <1>2, <1>3, <1>5, ElementOfSeq, LenProperties, GenerationFacts
<1>7. Generations(t) \subseteq Generations(q)
  BY <1>3, <1>4, <1>5 DEF Generations
<1>8. ASSUME Increasing(q) PROVE Increasing(t)
  <2> SUFFICES ASSUME NEW i \in 1 .. n, NEW j \in 1 .. n, i < j,
                      IsBroadcast(t[i]), IsBroadcast(t[j])
               PROVE  t[i].gen < t[j].gen
    BY <1>4 DEF Increasing
  <2> DEFINE a == i + 1
             b == j + 1
  <2>1. a \in DOMAIN q /\ t[i] = q[a] /\ b \in DOMAIN q /\ t[j] = q[b]
    BY <1>3, <1>5
  <2>2. a < b
    OBVIOUS
  <2> HIDE DEF a, b
  <2> QED
    BY <1>8, <2>1, <2>2 DEF Increasing
<1>9. ASSUME Increasing(q), IsBroadcast(Head(q)), NEW i \in 1 .. n, IsBroadcast(t[i])
      PROVE  Head(q).gen < t[i].gen
  <2> DEFINE b == i + 1
  <2>1. b \in DOMAIN q /\ t[i] = q[b] /\ 1 < b
    BY <1>3, <1>5
  <2> HIDE DEF b
  <2> QED
    BY <1>2, <1>5, <1>9, <2>1 DEF Increasing
<1>10. ASSUME Increasing(q), IsBroadcast(Head(q)), NEW g \in Generations(t)
       PROVE  Head(q).gen < g
  BY <1>4, <1>9, <1>10 DEF Generations
<1> QED
  BY <1>2, <1>6, <1>7, <1>8, <1>10 DEF t

\* The clients a collection has still to serve.
Pending(p) ==
  IF pc[p] = "copy" THEN Clients ELSE IF pc[p] = "send" THEN targets[p] ELSE {}

\* The strengthening: no client has a newer snapshot than the latest, and
\* none of those the collection under way has still to serve has it already.
\* The order of a queue alone is not inductive: it is kept because what the
\* one collection sends is the latest snapshot and newer than what is queued.
FeedInv ==
  /\ \A c \in Clients : /\ Increasing(queue[c])
                        /\ \A g \in Generations(queue[c]) : shown[c] < g
                        /\ \A g \in Delivered(c) : g <= snapshot
  /\ \A p \in Procs : /\ pc[p] \in {"copy", "send"} => held[p] = snapshot
                      /\ \A c \in Pending(p) : \A g \in Delivered(c) : g < snapshot

\* FeedInv is inductive, given the types and the exclusion of collections.
LEMMA FeedInvariant == Spec => []FeedInv
<1>1. Init => FeedInv
  <2> SUFFICES ASSUME Init PROVE FeedInv
    OBVIOUS
  <2>1. \A c \in Clients : Generations(queue[c]) = {} /\ Increasing(queue[c]) /\ shown[c] = 0
    BY EmptyFeed DEF Init
  <2>2. \A p \in Procs : pc[p] \notin {"copy", "send"}
    BY DEF Init
  <2> QED
    BY <2>1, <2>2 DEF FeedInv, Delivered, Pending, Init
<1>2. TypeOK /\ CollectionsExclusive /\ FeedInv /\ [Next]_vars => FeedInv'
  <2> SUFFICES ASSUME TypeOK, CollectionsExclusive, FeedInv, [Next]_vars
               PROVE  FeedInv'
    OBVIOUS
  <2>0. /\ pc \in [Procs -> {"idle", "check", "lock", "gather", "copy", "send",
                             "recheck", "push", "sleep", "done"}]
        /\ snapshot \in Nat /\ held \in [Procs -> Nat]
        /\ targets \in [Procs -> SUBSET Clients] /\ wsClients \subseteq Clients
        /\ queue \in [Clients -> Seq(Payload)] /\ shown \in [Clients -> Nat]
    BY DEF TypeOK
  <2>d. \A c \in Clients : Delivered(c) \subseteq Nat
    BY <2>0, GenerationFacts DEF Delivered
  <2>x. \A p, q \in Procs : pc[p] \in {"gather", "copy", "send"} /\ q # p =>
                              pc[q] \notin {"gather", "copy", "send"}
    BY DEF CollectionsExclusive
  <2> HIDE DEF Procs
  <2> DEFINE Behind == \A p \in Procs :
                         /\ pc'[p] \in {"copy", "send"} =>
                              pc[p] \in {"copy", "send"} /\ held'[p] = held[p]
                         /\ Pending(p)' \subseteq Pending(p)
  \* A step that sends nothing.
  <2>a. ASSUME UNCHANGED <<queue, shown, snapshot>>, Behind PROVE FeedInv'
    BY <2>a DEF FeedInv, Delivered
  \* A step that brings no snapshot into a queue.
  <2>b. ASSUME NEW c \in Clients, snapshot' = snapshot, Behind,
               \A d \in Clients \ {c} : queue'[d] = queue[d] /\ shown'[d] = shown[d],
               Delivered(c)' \subseteq Delivered(c),
               Increasing(queue'[c]), \A g \in Generations(queue'[c]) : shown'[c] < g
        PROVE  FeedInv'
    <3>1. \A d \in Clients : Delivered(d)' \subseteq Delivered(d)
      BY <2>b DEF Delivered
    <3>2. ASSUME NEW d \in Clients
          PROVE  /\ Increasing(queue'[d])
                 /\ \A g \in Generations(queue'[d]) : shown'[d] < g
                 /\ \A g \in Delivered(d)' : g <= snapshot'
      BY <2>b, <3>1 DEF FeedInv
    <3>3. ASSUME NEW p \in Procs
          PROVE  /\ pc'[p] \in {"copy", "send"} => held'[p] = snapshot'
                 /\ \A d \in Pending(p)' : \A g \in Delivered(d)' : g < snapshot'
      <4>1. Pending(p) \subseteq Clients
        BY <2>0 DEF Pending
      <4> QED
        BY <2>b, <3>1, <4>1 DEF FeedInv
    <3> QED
      BY <3>2, <3>3 DEF FeedInv
  <2> USE DEF At, Goto
  \* A goroutine moves on outside the broadcast.
  <2>1. ASSUME NEW p \in Procs, UNCHANGED <<queue, shown, snapshot, targets>>,
               pc' = [pc EXCEPT ![p] = pc'[p]], pc'[p] \notin {"copy", "send"},
               held' = [held EXCEPT ![p] = held'[p]]
        PROVE  FeedInv'
    <3>1. Behind
      BY <2>0, <2>1 DEF Pending
    <3> QED
      BY <2>1, <2>a, <3>1
  <2>2. ASSUME NEW p \in Procs, Lock(p) \/ EndCollect(p) \/ Ready(p) \/ NotReady(p)
        PROVE  FeedInv'
    BY <2>0, <2>1, <2>2 DEF Lock, EndCollect, Ready, NotReady, collectVars, chanVars, connVars
  <2>3. ASSUME NEW p \in Procs, Gather(p) PROVE FeedInv'
    <3>1. UNCHANGED <<queue, shown, targets>> /\ snapshot' = snapshot + 1
      BY <2>3 DEF Gather, chanVars, connVars
    <3>2. /\ pc[p] = "gather" /\ pc'[p] = "copy" /\ held'[p] = snapshot'
          /\ \A q \in Procs : q # p => pc'[q] = pc[q] /\ held'[q] = held[q]
      BY <2>0, <2>3 DEF Gather
    <3>3. \A q \in Procs : q # p => pc'[q] \notin {"copy", "send"} /\ Pending(q)' = {}
      BY <2>x, <3>2 DEF Pending
    <3>4. ASSUME NEW c \in Clients PROVE \A g \in Delivered(c)' : g < snapshot'
      <4>1. Delivered(c)' = Delivered(c)
        BY <3>1 DEF Delivered
      <4> QED
        BY <2>0, <2>d, <3>1, <4>1 DEF FeedInv
    <3>5. ASSUME NEW c \in Clients PROVE \A g \in Delivered(c)' : g <= snapshot'
      <4>1. Delivered(c)' \subseteq Nat
        BY <2>d, <3>1 DEF Delivered
      <4> QED
        BY <2>0, <3>1, <3>4, <4>1
    <3>6. Pending(p)' = Clients
      BY <3>2 DEF Pending
    <3>7. \A c \in Clients : /\ Increasing(queue'[c])
                             /\ \A g \in Generations(queue'[c]) : shown'[c] < g
      BY <3>1 DEF FeedInv
    <3>8. \A q \in Procs : /\ pc'[q] \in {"copy", "send"} => held'[q] = snapshot'
                           /\ \A c \in Pending(q)' : \A g \in Delivered(c)' : g < snapshot'
      BY <3>2, <3>3, <3>4, <3>6
    <3> QED
      BY <3>5, <3>7, <3>8 DEF FeedInv
  <2>4. ASSUME NEW p \in Procs, CopyClients(p) PROVE FeedInv'
    <3>1. UNCHANGED <<queue, shown, snapshot, held>>
      BY <2>4 DEF CopyClients, chanVars, connVars
    <3>2. /\ pc[p] = "copy" /\ pc'[p] = "send" /\ targets'[p] = wsClients
          /\ \A q \in Procs : q # p => pc'[q] = pc[q] /\ targets'[q] = targets[q]
      BY <2>0, <2>4 DEF CopyClients
    <3>3. Behind
      BY <2>0, <3>1, <3>2 DEF Pending
    <3> QED
      BY <2>a, <3>1, <3>3
  <2>5. ASSUME UNCHANGED <<queue, shown, snapshot, targets, held>>,
               \E p \in Procs, l \in {"lock", "done", "check"} : pc' = [pc EXCEPT ![p] = l]
        PROVE  FeedInv'
    <3>1. PICK p \in Procs, l \in {"lock", "done", "check"} : pc' = [pc EXCEPT ![p] = l]
      BY <2>5
    <3> QED
      BY <2>0, <2>1, <2>5, <3>1
  <2>6. ASSUME NEW p \in Procs, NEW c \in Clients, Broadcast(p, c) PROVE FeedInv'
    <3> DEFINE m == [gen |-> held[p], via |-> "broadcast"]
    <3>0. /\ pc[p] = "send" /\ c \in Pending(p) /\ held[p] = snapshot
          /\ UNCHANGED <<snapshot, held, shown>>
      BY <2>6 DEF Broadcast, Pending, FeedInv
    <3>1. CASE SendAccepted(c, m) /\ targets' = [targets EXCEPT ![p] = @ \ {c}] /\ pc' = pc
      <4> DEFINE q == queue[c]
      <4>1. m \in Payload /\ m.gen = snapshot /\ IsBroadcast(m)
        BY <2>0, <3>0 DEF Payload, IsBroadcast
      <4>2. /\ q \in Seq(Payload) /\ queue'[c] = Append(q, m)
            /\ \A d \in Clients \ {c} : queue'[d] = queue[d]
        BY <2>0, <3>1 DEF SendAccepted
      <4> HIDE DEF m, q
      <4>3. Increasing(q) /\ \A g \in Delivered(c) : g < snapshot
        BY <3>0 DEF FeedInv, q
      <4>4. Generations(q) \subseteq Delivered(c) /\ shown[c] \in Delivered(c)
        BY DEF Delivered, q
      <4>5. /\ Increasing(queue'[c])
            /\ Generations(queue'[c]) \subseteq Generations(q) \cup {snapshot}
        BY <4>1, <4>2, <4>3, <4>4, AppendFeed
      <4>6. \A g \in Generations(queue'[c]) : shown'[c] < g
        BY <3>0, <4>3, <4>4, <4>5 DEF FeedInv, q
      <4>7. \A g \in Delivered(c)' : g <= snapshot'
        BY <2>0, <3>0, <4>4, <4>5 DEF FeedInv, Delivered
      <4>8. \A d \in Clients \ {c} : Delivered(d)' = Delivered(d)
        BY <3>0, <4>2 DEF Delivered
      <4>9. /\ c \notin Pending(p)' /\ Pending(p)' \subseteq Pending(p)
            /\ \A r \in Procs : r # p => Pending(r)' = {}
        BY <2>0, <2>x, <3>0, <3>1 DEF Pending
      <4>10. \A d \in Clients : /\ Increasing(queue'[d])
                                /\ \A g \in Generations(queue'[d]) : shown'[d] < g
                                /\ \A g \in Delivered(d)' : g <= snapshot'
        BY <3>0, <4>2, <4>5, <4>6, <4>7, <4>8 DEF FeedInv
      <4>11. Pending(p) \subseteq Clients
        BY <2>0 DEF Pending
      <4>12. ASSUME NEW r \in Procs
             PROVE  /\ pc'[r] \in {"copy", "send"} => held'[r] = snapshot'
                    /\ \A d \in Pending(r)' : \A g \in Delivered(d)' : g < snapshot'
        BY <3>0, <3>1, <4>8, <4>9, <4>11 DEF FeedInv
      <4> QED
        BY <4>10, <4>12 DEF FeedInv
    <3>2. CASE SendRefused(c) /\ targets' = [targets EXCEPT ![p] = @ \ {c}] /\ pc' = pc
      <4>1. queue' = queue
        BY <3>2 DEF SendRefused
      <4>2. Behind
        BY <2>0, <3>0, <3>2 DEF Pending
      <4> QED
        BY <2>a, <3>0, <4>1, <4>2
    <3>3. CASE SendPanics(p, c)
      <4>1. queue' = queue /\ pc' = [pc EXCEPT ![p] = "done"]
            /\ targets' = [targets EXCEPT ![p] = {}]
        BY <3>3 DEF SendPanics, chanVars
      <4>2. Behind
        BY <2>0, <3>0, <4>1 DEF Pending
      <4> QED
        BY <2>a, <3>0, <4>1, <4>2
    <3> QED
      BY <2>6, <3>1, <3>2, <3>3 DEF Broadcast
  <2>7. ASSUME NEW c \in Clients, Push(c) PROVE FeedInv'
    <3> DEFINE m == [gen |-> held[c], via |-> "push"]
    <3>0. /\ pc[c] = "push" /\ c \in Procs
          /\ UNCHANGED <<snapshot, shown>> /\ held' = [held EXCEPT ![c] = 0]
          /\ pc' = [pc EXCEPT ![c] = "done"]
          /\ targets' \in {targets, [targets EXCEPT ![c] = {}]}
      BY <2>7 DEF Push, SendPanics, Procs
    <3>1. Behind
      BY <2>0, <3>0 DEF Pending
    <3>2. CASE SendAccepted(c, m)
      <4>1. m \in Payload /\ ~IsBroadcast(m)
        BY <2>0, <3>0 DEF Payload, IsBroadcast
      <4>2. /\ queue[c] \in Seq(Payload) /\ queue'[c] = Append(queue[c], m)
            /\ \A d \in Clients \ {c} : queue'[d] = queue[d]
        BY <2>0, <3>2 DEF SendAccepted
      <4> HIDE DEF m
      <4>3. Increasing(queue'[c]) /\ Generations(queue'[c]) = Generations(queue[c])
        BY <4>1, <4>2, AppendFeed DEF FeedInv
      <4>4. Delivered(c)' = Delivered(c)
        BY <3>0, <4>3 DEF Delivered
      <4>5. \A g \in Generations(queue'[c]) : shown'[c] < g
        BY <3>0, <4>3 DEF FeedInv
      <4> QED
        BY <2>b, <3>0, <3>1, <4>2, <4>3, <4>4, <4>5
    <3>3. CASE queue' = queue
      BY <2>a, <3>0, <3>1, <3>3
    <3> QED
      BY <2>7, <3>2, <3>3 DEF Push, SendRefused, SendPanics, chanVars
  <2>8. ASSUME NEW c \in Clients, WriterSends(c) \/ (WriterFails(c) /\ queue[c] # <<>>)
        PROVE  FeedInv'
    <3>1. /\ UNCHANGED <<pc, snapshot, held, targets>>
          /\ queue[c] \in Seq(Payload) /\ queue[c] # <<>>
          /\ queue' = [queue EXCEPT ![c] = Tail(@)]
          /\ shown'[c] = shown[c] \/ /\ IsBroadcast(Head(queue[c]))
                                     /\ shown'[c] = Head(queue[c]).gen
          /\ \A d \in Clients \ {c} : shown'[d] = shown[d]
      BY <2>0, <2>8 DEF WriterSends, WriterFails, collectVars
    <3>2. /\ queue'[c] = Tail(queue[c])
          /\ \A d \in Clients \ {c} : queue'[d] = queue[d]
      BY <2>0, <3>1
    <3>3. /\ Increasing(queue'[c])
          /\ Generations(queue'[c]) \subseteq Generations(queue[c])
          /\ IsBroadcast(Head(queue[c])) =>
               /\ Head(queue[c]).gen \in Generations(queue[c])
               /\ \A g \in Generations(queue'[c]) : Head(queue[c]).gen < g
      BY <3>1, <3>2, TailFeed DEF FeedInv
    <3>4. Delivered(c)' \subseteq Delivered(c)
      BY <3>1, <3>3 DEF Delivered
    <3>5. \A g \in Generations(queue'[c]) : shown'[c] < g
      BY <3>1, <3>3 DEF FeedInv
    <3>6. Behind
      BY <3>1 DEF Pending
    <3> QED
      BY <2>b, <3>1, <3>2, <3>3, <3>4, <3>5, <3>6
  <2>9. ASSUME UNCHANGED <<pc, collectVars, queue, shown>> PROVE FeedInv'
    <3>1. Behind
      BY <2>9 DEF Pending, collectVars
    <3> QED
      BY <2>a, <2>9, <3>1 DEF collectVars
  <2>10. ASSUME NEW c \in Clients, \/ PeerLeaves(c) \/ ReaderExits(c) \/ WriterEnds(c)
                                   \/ CloseOne(c)
                                   \/ (WriterFails(c) /\ queue[c] = <<>>)
         PROVE  FeedInv'
    <3>1. UNCHANGED <<pc, collectVars, queue, shown>>
      BY <2>0, <2>10 DEF PeerLeaves, ReaderExits, WriterEnds, WriterFails, CloseOne, chanVars
    <3> QED
      BY <2>9, <3>1
  <2>11. CASE StopCollector \/ TakeAllClients \/ ProcessExits \/ UNCHANGED vars
    <3>1. UNCHANGED <<pc, collectVars, queue, shown>>
      BY <2>11 DEF StopCollector, TakeAllClients, ProcessExits, vars, chanVars, connVars
    <3> QED
      BY <2>9, <3>1
  <2>12. Clients \subseteq Procs /\ Pollers \subseteq Procs /\ Collector \in Procs
    BY DEF Procs
  <2>13. CASE \E p \in Procs : Collect(p)
    BY <2>2, <2>3, <2>4, <2>6, <2>13 DEF Collect
  <2>14. CASE Tick \/ CollectorStops
    BY <2>5, <2>12, <2>14 DEF Tick, CollectorStops, collectVars, chanVars, connVars
  <2>15. ASSUME NEW p \in Pollers, PollerArrives(p) \/ Ready(p) \/ NotReady(p) PROVE FeedInv'
    <3>1. CASE PollerArrives(p)
      BY <2>5, <2>12, <3>1 DEF PollerArrives, collectVars, chanVars, connVars
    <3> QED
      BY <2>2, <2>12, <2>15, <3>1
  <2>16. ASSUME NEW c \in Clients, PeerLeaves(c) \/ ReaderExits(c) \/ Writer(c) \/ CloseOne(c)
         PROVE  FeedInv'
    <3>1. CASE WriterFails(c)
      BY <2>8, <2>10, <3>1
    <3> QED
      BY <2>8, <2>10, <2>16, <3>1 DEF Writer
  <2>17. ASSUME NEW c \in Clients, Connect(c) PROVE FeedInv'
    BY <2>5, <2>12, <2>17 DEF Connect, collectVars
  <2>18. ASSUME NEW c \in Clients, Handler(c) PROVE FeedInv'
    BY <2>2, <2>7, <2>12, <2>18 DEF Handler
  <2> QED
    BY <2>11, <2>13, <2>14, <2>15, <2>16, <2>17, <2>18 DEF Next
<1> QED
  BY <1>1, <1>2, TypeCorrect, Exclusion, PTL DEF Spec

\* A peer gets the broadcast snapshots in the order they were taken, each at
\* most once, whoever collects and however slow the peer is.
THEOREM FeedOrdered == Spec => []BroadcastsInOrder
<1>1. TypeOK /\ FeedInv => BroadcastsInOrder
  <2> SUFFICES ASSUME TypeOK, FeedInv, NEW c \in Clients, NEW i \in DOMAIN queue[c],
                      IsBroadcast(queue[c][i])
               PROVE  /\ shown[c] < queue[c][i].gen
                      /\ \A j \in DOMAIN queue[c] :
                           i < j /\ IsBroadcast(queue[c][j]) => queue[c][i].gen < queue[c][j].gen
    BY DEF BroadcastsInOrder
  <2>1. queue[c][i].gen \in Generations(queue[c])
    BY GenerationFacts DEF TypeOK
  <2> QED
    BY <2>1 DEF FeedInv, Increasing
<1> QED
  BY <1>1, TypeCorrect, FeedInvariant, PTL

==============================================================================
