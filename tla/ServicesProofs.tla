--------------------------- MODULE ServicesProofs ---------------------------
(***************************************************************************)
(* Safety of what runs in the background of the server, for every value of *)
(* the constants: each part by itself, as a specification of its own, and  *)
(* then Services, of which a behaviour is one of the part in focus.        *)
(***************************************************************************)
EXTENDS Services, FiniteSetTheorems, SequenceTheorems, TLAPS

USE OutputAssumption, ServicesAssumption

\* A bounded counter takes one more.
LEMMA NextCount == ASSUME NEW max \in Nat, NEW n \in 0 .. max, n < max PROVE n + 1 \in 0 .. max
OBVIOUS

\* What a longer sequence has more.
LEMMA Difference == ASSUME NEW m \in Nat, NEW l \in Nat, m <= l PROVE l - m \in Nat /\ l = (l - m) + m
OBVIOUS

-----------------------------------------------------------------------------
(* The output of a process: RunOutput, whose names are used as they are.   *)

\* What a row, a scanner and a pipe have of a stream: lines among the first n,
\* in the order they were written, those of the row before those of the
\* scanner and these before those of the pipe.
InOrder(row, read, unread, n) ==
  /\ \A i \in 1 .. Len(row) : row[i] \in 1 .. n
  /\ \A i \in 1 .. Len(read) : read[i].no \in 1 .. n
  /\ \A i \in 1 .. Len(unread) : unread[i].no \in 1 .. n
  /\ \A i, j \in 1 .. Len(row) : i < j => row[i] < row[j]
  /\ \A i, j \in 1 .. Len(read) : i < j => read[i].no < read[j].no
  /\ \A i, j \in 1 .. Len(unread) : i < j => unread[i].no < unread[j].no
  /\ \A i \in 1 .. Len(row), j \in 1 .. Len(read) : row[i] < read[j].no
  /\ \A i \in 1 .. Len(row), j \in 1 .. Len(unread) : row[i] < unread[j].no
  /\ \A i \in 1 .. Len(read), j \in 1 .. Len(unread) : read[i].no < unread[j].no

\* The next line goes to the pipe, or to nobody.
LEMMA WrittenInOrder ==
  ASSUME NEW row \in Seq(Nat), NEW read \in Seq(Line), NEW unread \in Seq(Line), NEW n \in Nat,
         InOrder(row, read, unread, n)
  PROVE  /\ InOrder(row, read, unread, n + 1)
         /\ \A long \in BOOLEAN :
              InOrder(row, read, Append(unread, [no |-> n + 1, long |-> long]), n + 1)
<1>1. \A k \in 1 .. n : k \in 1 .. (n + 1) /\ k < n + 1 /\ k \in Nat
  OBVIOUS
<1>2. InOrder(row, read, unread, n + 1)
  BY <1>1 DEF InOrder
<1>3. ASSUME NEW long \in BOOLEAN
      PROVE  InOrder(row, read, Append(unread, [no |-> n + 1, long |-> long]), n + 1)
  <2> DEFINE new == Append(unread, [no |-> n + 1, long |-> long])
  <2>0. PICK m \in Nat : m = Len(unread)
    OBVIOUS
  <2>1. /\ Len(new) = m + 1
        /\ \A i \in 1 .. m + 1 : new[i].no = IF i = m + 1 THEN n + 1 ELSE unread[i].no
    BY <2>0, AppendProperties DEF Line
  <2>2. \A i \in 1 .. m + 1 : i = m + 1 \/ i \in 1 .. m
    OBVIOUS
  <2>3. n + 1 \in 1 .. (n + 1)
    OBVIOUS
  <2> HIDE DEF new
  <2>4. \A i \in 1 .. Len(new) : new[i].no \in 1 .. (n + 1)
    BY <1>1, <2>0, <2>1, <2>2, <2>3 DEF InOrder
  <2>5. ASSUME NEW i \in 1 .. Len(new), NEW j \in 1 .. Len(new), i < j PROVE new[i].no < new[j].no
    <3>1. i \in 1 .. m
      BY <2>1, <2>5
    <3>2. CASE j = m + 1
      <4>1. i \in 1 .. m + 1 /\ i # m + 1 /\ j \in 1 .. m + 1
        BY <2>0, <2>1, <3>1, <3>2
      <4>2. new[i].no = unread[i].no /\ new[j].no = n + 1
        BY <2>1, <3>2, <4>1
      <4>3. unread[i].no \in 1 .. n
        BY <2>0, <3>1 DEF InOrder
      <4> QED
        BY <1>1, <4>2, <4>3
    <3>3. CASE j # m + 1
      <4>1. j \in 1 .. m
        BY <2>1, <2>2, <3>3
      <4>2. new[i].no = unread[i].no /\ new[j].no = unread[j].no
        <5>1. ASSUME NEW k \in 1 .. m PROVE k \in 1 .. m + 1 /\ k # m + 1
          OBVIOUS
        <5> QED
          BY <2>1, <3>1, <4>1, <5>1
      <4>3. unread[i].no < unread[j].no
        BY <2>0, <2>5, <3>1, <4>1 DEF InOrder
      <4> QED
        BY <4>2, <4>3
    <3> QED
      BY <3>2, <3>3
  <2>6. \A i \in 1 .. Len(row), j \in 1 .. Len(new) : row[i] < new[j].no
    BY <1>1, <2>0, <2>1, <2>2 DEF InOrder
  <2>7. \A i \in 1 .. Len(read), j \in 1 .. Len(new) : read[i].no < new[j].no
    BY <1>1, <2>0, <2>1, <2>2 DEF InOrder
  <2> QED
    BY <1>2, <2>4, <2>5, <2>6, <2>7 DEF InOrder, new
<1> QED
  BY <1>2, <1>3

\* A scanner that has nothing takes what is in the pipe; what it has, or what
\* is in the pipe, may get lost.
LEMMA ReadInOrder ==
  ASSUME NEW row \in Seq(Nat), NEW read \in Seq(Line), NEW unread \in Seq(Line), NEW n \in Nat,
         InOrder(row, read, unread, n)
  PROVE  /\ read = <<>> => InOrder(row, unread, <<>>, n)
         /\ InOrder(row, <<>>, unread, n) /\ InOrder(row, read, <<>>, n)
<1>1. \A i : i \notin 1 .. Len(<<>>)
  OBVIOUS
<1> QED
  BY <1>1 DEF InOrder

\* A scanner hands out its first line; it reaches the row, or not.
LEMMA HandedInOrder ==
  ASSUME NEW row \in Seq(Nat), NEW read \in Seq(Line), NEW unread \in Seq(Line), NEW n \in Nat,
         InOrder(row, read, unread, n), read # <<>>
  PROVE  /\ Head(read).no \in 1 .. n
         /\ InOrder(row, Tail(read), unread, n)
         /\ InOrder(Append(row, Head(read).no), Tail(read), unread, n)
<1>0. PICK l \in Nat : l = Len(row)
  OBVIOUS
<1>1. PICK m \in Nat : Len(read) = m + 1
  <2>1. PICK k \in Nat : k = Len(read) /\ k # 0
    BY EmptySeq
  <2>2. k - 1 \in Nat /\ k = (k - 1) + 1
    BY <2>1
  <2> QED
    BY <2>1, <2>2
<1> DEFINE rest == Tail(read)
           new == Append(row, Head(read).no)
<1>2. Len(rest) = m /\ \A i \in 1 .. m : rest[i] = read[i + 1]
  BY <1>1, HeadTailProperties
<1>3. \A i \in 1 .. m : i + 1 \in 1 .. m + 1 /\ 1 < i + 1
  OBVIOUS
<1>4. \A i, j \in 1 .. m : i < j => i + 1 < j + 1
  OBVIOUS
<1>5. Head(read) = read[1] /\ 1 \in 1 .. m + 1
  BY <1>1
<1>6. Head(read).no \in 1 .. n
  BY <1>1, <1>5 DEF InOrder
<1>7. /\ Len(new) = l + 1
      /\ \A i \in 1 .. l + 1 : new[i] = IF i = l + 1 THEN read[1].no ELSE row[i]
  <2>1. Head(read).no \in Nat
    BY <1>6
  <2> QED
    BY <1>0, <1>5, <2>1, AppendProperties
<1>8. \A i \in 1 .. l + 1 : i = l + 1 \/ i \in 1 .. l
  OBVIOUS
<1> HIDE DEF rest, new
<1>9. InOrder(row, rest, unread, n)
  <2>1. \A i \in 1 .. m : rest[i].no = read[i + 1].no
    BY <1>2
  <2>2. \A i \in 1 .. m : rest[i].no \in 1 .. n
    BY <1>1, <1>3, <2>1 DEF InOrder
  <2>3. \A i, j \in 1 .. m : i < j => rest[i].no < rest[j].no
    BY <1>1, <1>3, <1>4, <2>1 DEF InOrder
  <2>4. \A i \in 1 .. Len(row), j \in 1 .. m : row[i] < rest[j].no
    BY <1>1, <1>3, <2>1 DEF InOrder
  <2>5. \A i \in 1 .. m, j \in 1 .. Len(unread) : rest[i].no < unread[j].no
    BY <1>1, <1>3, <2>1 DEF InOrder
  <2> QED
    BY <1>2, <2>2, <2>3, <2>4, <2>5 DEF InOrder
<1>10. InOrder(new, rest, unread, n)
  <2>1. \A i \in 1 .. Len(new) : new[i] \in 1 .. n
    BY <1>0, <1>5, <1>6, <1>7, <1>8 DEF InOrder
  <2>2. ASSUME NEW i \in 1 .. Len(new), NEW j \in 1 .. Len(new), i < j PROVE new[i] < new[j]
    <3>1. i \in 1 .. l
      BY <1>7, <2>2
    <3>2. CASE j = l + 1
      <4>1. i # l + 1 /\ i \in 1 .. l + 1 /\ j \in 1 .. l + 1
        BY <1>7, <2>2, <3>1, <3>2
      <4>2. new[i] = row[i] /\ new[j] = read[1].no
        BY <1>7, <3>2, <4>1
      <4>3. row[i] < read[1].no
        BY <1>0, <1>1, <1>5, <3>1 DEF InOrder
      <4> QED
        BY <4>2, <4>3
    <3>3. CASE j # l + 1
      <4>1. i # l + 1 /\ i \in 1 .. l + 1 /\ j \in 1 .. l
        BY <1>7, <2>2, <3>1, <3>3
      <4>2. new[i] = row[i] /\ new[j] = row[j]
        BY <1>7, <3>3, <4>1
      <4>3. row[i] < row[j]
        BY <1>0, <2>2, <3>1, <4>1 DEF InOrder
      <4> QED
        BY <4>2, <4>3
    <3> QED
      BY <3>2, <3>3
  <2>3. ASSUME NEW i \in 1 .. Len(new), NEW j \in 1 .. Len(rest) PROVE new[i] < rest[j].no
    <3>1. rest[j] = read[j + 1] /\ j + 1 \in 1 .. Len(read) /\ 1 < j + 1 /\ 1 \in 1 .. Len(read)
      BY <1>1, <1>2, <1>3, <1>5
    <3>2. CASE i = l + 1
      BY <1>7, <3>1, <3>2 DEF InOrder
    <3>3. CASE i # l + 1
      BY <1>0, <1>7, <1>8, <3>1, <3>3 DEF InOrder
    <3> QED
      BY <3>2, <3>3
  <2>4. ASSUME NEW i \in 1 .. Len(new), NEW j \in 1 .. Len(unread) PROVE new[i] < unread[j].no
    <3>1. CASE i = l + 1
      BY <1>1, <1>5, <1>7, <3>1 DEF InOrder
    <3>2. CASE i # l + 1
      BY <1>0, <1>7, <1>8, <3>2 DEF InOrder
    <3> QED
      BY <3>1, <3>2
  <2> QED
    BY <1>9, <2>1, <2>2, <2>3, <2>4 DEF InOrder
<1> QED
  BY <1>6, <1>9, <1>10 DEF rest, new

Ordered(s) == InOrder(log[s], scanned[s], pipe[s], written)

OutputInv == TypeOK /\ \A s \in Streams : Ordered(s)

\* The types of what an index of the model's functions has.
LEMMA OutputFacts ==
  ASSUME TypeOK, NEW s \in Streams
  PROVE  /\ log[s] \in Seq(1 .. MaxLines) /\ log[s] \in Seq(Nat)
         /\ scanned[s] \in Seq(Line) /\ pipe[s] \in Seq(Line) /\ written \in Nat
         /\ kept[s] \in Seq(1 .. MaxLines) /\ written \in 0 .. MaxLines
<1>1. /\ log[s] \in Seq(1 .. MaxLines) /\ scanned[s] \in Seq(Line) /\ pipe[s] \in Seq(Line)
      /\ kept[s] \in Seq(1 .. MaxLines) /\ written \in 0 .. MaxLines
  BY DEF TypeOK
<1>2. log[s] \in Seq(Nat)
  <2>1. \A i \in 1 .. Len(log[s]) : log[s][i] \in Nat
    BY <1>1
  <2> QED
    BY <1>1, <2>1
<1> QED
  BY <1>1, <1>2

\* The step of the process that writes a line to its pipe keeps OutputInv.
LEMMA WriteStep == ASSUME OutputInv, NEW s \in Streams, Write(s) PROVE OutputInv'
<1>0. TypeOK /\ \A t \in Streams : Ordered(t)
  BY DEF OutputInv
<1>1. PICK long \in BOOLEAN :
        pipe' = [pipe EXCEPT ![s] = Append(@, [no |-> written + 1, long |-> long])]
  BY DEF Write
<1> DEFINE line == [no |-> written + 1, long |-> long]
<1>2. /\ written < MaxLines /\ written' = written + 1 /\ Len(pipe[s]) < PipeCap
      /\ kept' = [kept EXCEPT ![s] = Append(@, written + 1)]
      /\ UNCHANGED <<caller, child, open, scanned, scanner, log, excused, waiter, expired>>
  BY DEF Write, scanVars, runVars
<1>3. written \in 0 .. MaxLines /\ written \in Nat
  BY <1>0, OutputFacts
<1>4. written' \in 0 .. MaxLines /\ written + 1 \in 1 .. MaxLines /\ line \in Line
  <2>1. written + 1 \in 0 .. MaxLines /\ written + 1 \in 1 .. MaxLines /\ written + 1 \in Nat
    BY <1>2, <1>3
  <2> QED
    BY <1>2, <2>1 DEF Line
<1>5. /\ pipe[s] \in Seq(Line) /\ Append(pipe[s], line) \in Seq(Line)
      /\ Len(Append(pipe[s], line)) = Len(pipe[s]) + 1
      /\ kept[s] \in Seq(1 .. MaxLines) /\ Append(kept[s], written + 1) \in Seq(1 .. MaxLines)
  BY <1>0, <1>4, OutputFacts, AppendProperties
<1> HIDE DEF line
<1>6. pipe' \in [Streams -> Seq(Line)] /\ kept' \in [Streams -> Seq(1 .. MaxLines)]
  BY <1>0, <1>1, <1>2, <1>5 DEF TypeOK, line
<1>7. \A t \in Streams : Len(pipe'[t]) <= PipeCap
  <2>1. Len(pipe'[s]) <= PipeCap
    <3>1. PICK k \in Nat : k = Len(pipe[s])
      BY <1>5
    <3> QED
      BY <1>0, <1>1, <1>2, <1>5, <3>1 DEF TypeOK, line
  <2> QED
    BY <1>0, <1>1, <2>1 DEF TypeOK
<1>8. TypeOK'
  BY <1>0, <1>2, <1>4, <1>6, <1>7 DEF TypeOK
<1>9. ASSUME NEW t \in Streams PROVE Ordered(t)'
  <2>1. /\ InOrder(log[t], scanned[t], pipe[t], written + 1)
        /\ InOrder(log[t], scanned[t], Append(pipe[t], line), written + 1)
    BY <1>0, WrittenInOrder, OutputFacts DEF Ordered, line
  <2>2. pipe'[t] = IF t = s THEN Append(pipe[t], line) ELSE pipe[t]
    BY <1>0, <1>1 DEF TypeOK, line
  <2> QED
    BY <1>2, <2>1, <2>2 DEF Ordered
<1> QED
  BY <1>8, <1>9 DEF OutputInv

\* So does the step that writes a line nobody will read.
LEMMA WriteBrokenStep == ASSUME OutputInv, NEW s \in Streams, WriteBroken(s) PROVE OutputInv'
<1>0. TypeOK /\ \A t \in Streams : Ordered(t)
  BY DEF OutputInv
<1>1. /\ written < MaxLines /\ written' = written + 1 /\ child' \in {"run", "exited"}
      /\ kept' = [kept EXCEPT ![s] = Append(@, written + 1)]
      /\ UNCHANGED <<caller, pipe, open, scanned, scanner, log, excused, waiter, expired>>
  BY DEF WriteBroken, pipeVars, scanVars, runVars
<1>2. written \in 0 .. MaxLines
  BY <1>0, OutputFacts
<1>3. written + 1 \in 0 .. MaxLines /\ written + 1 \in 1 .. MaxLines
  BY <1>1, <1>2
<1>4. kept[s] \in Seq(1 .. MaxLines) /\ Append(kept[s], written + 1) \in Seq(1 .. MaxLines)
  BY <1>0, <1>3, OutputFacts, AppendProperties
<1>5. kept' \in [Streams -> Seq(1 .. MaxLines)]
  BY <1>0, <1>1, <1>4 DEF TypeOK
<1>6. TypeOK'
  BY <1>0, <1>1, <1>3, <1>5 DEF TypeOK
<1>7. ASSUME NEW t \in Streams PROVE Ordered(t)'
  BY <1>0, <1>1, WrittenInOrder, OutputFacts DEF Ordered
<1> QED
  BY <1>6, <1>7 DEF OutputInv

\* So do the steps of a scanner.
LEMMA ReadStep == ASSUME OutputInv, NEW s \in Streams, ReadPipe(s) PROVE OutputInv'
<1>0. TypeOK /\ \A t \in Streams : Ordered(t)
  BY DEF OutputInv
<1>1. /\ scanned[s] = <<>> /\ scanned' = [scanned EXCEPT ![s] = pipe[s]]
      /\ pipe' = [pipe EXCEPT ![s] = <<>>]
      /\ UNCHANGED <<caller, child, written, open, scanner, log, kept, excused, waiter, expired>>
  BY DEF ReadPipe, rowVars, runVars
<1>2. TypeOK'
  <2>1. pipe' \in [Streams -> Seq(Line)] /\ scanned' \in [Streams -> Seq(Line)]
    BY <1>0, <1>1 DEF TypeOK
  <2>2. \A t \in Streams : Len(pipe'[t]) <= PipeCap
    BY <1>0, <1>1 DEF TypeOK
  <2> QED
    BY <1>0, <1>1, <2>1, <2>2 DEF TypeOK
<1>3. ASSUME NEW t \in Streams PROVE Ordered(t)'
  <2>1. CASE t = s
    <3>1. scanned'[t] = pipe[t] /\ pipe'[t] = <<>>
      BY <1>0, <1>1, <2>1 DEF TypeOK
    <3>2. InOrder(log[t], pipe[t], <<>>, written)
      BY <1>0, <1>1, <2>1, ReadInOrder, OutputFacts DEF Ordered
    <3> QED
      BY <1>1, <3>1, <3>2 DEF Ordered
  <2>2. CASE t # s
    <3>1. scanned'[t] = scanned[t] /\ pipe'[t] = pipe[t]
      BY <1>0, <1>1, <2>2 DEF TypeOK
    <3> QED
      BY <1>0, <1>1, <3>1 DEF Ordered
  <2> QED
    BY <2>1, <2>2
<1> QED
  BY <1>2, <1>3 DEF OutputInv

\* A line that is handed out, to the row or to nobody.
LEMMA HandOutStep == ASSUME OutputInv, NEW s \in Streams, HandOut(s) PROVE OutputInv'
<1>0. TypeOK /\ \A t \in Streams : Ordered(t)
  BY DEF OutputInv
<1> DEFINE read == scanned[s]
<1>1. /\ read # <<>> /\ UNCHANGED <<caller, child, written, pipe, open, kept, waiter, expired>>
      /\ \/ /\ scanner' = [scanner EXCEPT ![s] = "quit"]
            /\ scanned' = [scanned EXCEPT ![s] = <<>>]
            /\ log' = log
         \/ /\ log' = [log EXCEPT ![s] = Append(@, Head(read).no)] \/ log' = log
            /\ scanned' = [scanned EXCEPT ![s] = Tail(@)]
            /\ scanner' = scanner
  <2>1. \A seq \in Appended(log[s], Head(read).no) :
          [log EXCEPT ![s] = seq] = [log EXCEPT ![s] = Append(@, Head(read).no)] \/ [log EXCEPT ![s] = seq] = log
    BY <1>0 DEF Appended, TypeOK
  <2> QED
    BY <2>1 DEF HandOut, pipeVars, runVars
<1>2. excused' \in BOOLEAN
  BY <1>0 DEF HandOut, TypeOK
<1>3. /\ Head(read).no \in 1 .. written
      /\ InOrder(log[s], Tail(read), pipe[s], written)
      /\ InOrder(Append(log[s], Head(read).no), Tail(read), pipe[s], written)
      /\ InOrder(log[s], <<>>, pipe[s], written)
  BY <1>0, <1>1, HandedInOrder, ReadInOrder, OutputFacts DEF Ordered
<1>4. /\ Tail(read) \in Seq(Line) /\ log[s] \in Seq(1 .. MaxLines)
      /\ Append(log[s], Head(read).no) \in Seq(1 .. MaxLines)
  <2>1. Head(read).no \in 1 .. MaxLines
    <3>1. PICK n \in Nat : n = Head(read).no /\ 1 <= n /\ n <= written
      BY <1>0, <1>3, OutputFacts
    <3>2. written \in Nat /\ written <= MaxLines
      BY <1>0, OutputFacts
    <3>3. 1 <= n /\ n <= MaxLines
      BY <3>1, <3>2
    <3> QED
      BY <3>1, <3>3
  <2> QED
    BY <1>0, <1>1, <2>1, OutputFacts, HeadTailProperties, AppendProperties
<1>5. TypeOK'
  <2>1. scanned' \in [Streams -> Seq(Line)] /\ log' \in [Streams -> Seq(1 .. MaxLines)]
    <3>1. scanned \in [Streams -> Seq(Line)] /\ log \in [Streams -> Seq(1 .. MaxLines)]
      BY <1>0 DEF TypeOK
    <3>2. <<>> \in Seq(Line)
      OBVIOUS
    <3>3. scanned' = [scanned EXCEPT ![s] = <<>>] \/ scanned' = [scanned EXCEPT ![s] = Tail(read)]
      BY <1>1
    <3>4. log' = [log EXCEPT ![s] = Append(log[s], Head(read).no)] \/ log' = log
      BY <1>1
    <3> HIDE DEF read
    <3>5. scanned' \in [Streams -> Seq(Line)]
      BY <1>4, <3>1, <3>2, <3>3
    <3>6. log' \in [Streams -> Seq(1 .. MaxLines)]
      BY <1>4, <3>1, <3>4
    <3> QED
      BY <3>5, <3>6
  <2>2. scanner' \in [Streams -> {"scan", "quit", "done"}]
    BY <1>0, <1>1 DEF TypeOK
  <2> QED
    BY <1>0, <1>1, <1>2, <2>1, <2>2 DEF TypeOK
<1>6. ASSUME NEW t \in Streams PROVE Ordered(t)'
  <2>1. CASE t = s
    <3>1. \/ scanned'[t] = <<>> /\ log'[t] = log[t]
          \/ /\ scanned'[t] = Tail(read)
             /\ log'[t] = log[t] \/ log'[t] = Append(log[t], Head(read).no)
      BY <1>0, <1>1, <2>1 DEF TypeOK
    <3> QED
      BY <1>1, <1>3, <2>1, <3>1 DEF Ordered
  <2>2. CASE t # s
    <3>1. scanned'[t] = scanned[t] /\ log'[t] = log[t]
      BY <1>0, <1>1, <2>2 DEF TypeOK
    <3> QED
      BY <1>0, <1>1, <3>1 DEF Ordered
  <2> QED
    BY <2>1, <2>2
<1> QED
  BY <1>5, <1>6 DEF OutputInv

\* A step that takes nothing but lines out of pipes keeps OutputInv.
LEMMA DropStep ==
  ASSUME OutputInv, UNCHANGED <<caller, written, scanned, log, kept>>,
         \A s \in Streams : pipe'[s] \in {pipe[s], <<>>}, pipe' \in [Streams -> Seq(Line)],
         open' \in [Streams -> BOOLEAN], scanner' \in [Streams -> {"scan", "quit", "done"}],
         child' \in {"run", "exited"}, excused' \in BOOLEAN,
         waiter' \in {"wait", "join", "finished"}, expired' \in BOOLEAN
  PROVE  OutputInv'
<1>0. TypeOK /\ \A t \in Streams : Ordered(t)
  BY DEF OutputInv
<1>1. \A t \in Streams : Len(pipe'[t]) <= PipeCap
  BY <1>0 DEF TypeOK
<1>2. TypeOK'
  BY <1>0, <1>1 DEF TypeOK
<1>3. ASSUME NEW t \in Streams PROVE Ordered(t)'
  <2>1. InOrder(log[t], scanned[t], <<>>, written) /\ InOrder(log[t], scanned[t], pipe[t], written)
    BY <1>0, ReadInOrder, OutputFacts DEF Ordered
  <2>2. pipe'[t] = <<>> \/ pipe'[t] = pipe[t]
    OBVIOUS
  <2> QED
    BY <2>1, <2>2 DEF Ordered
<1> QED
  BY <1>2, <1>3 DEF OutputInv

\* OutputInv is inductive.
LEMMA OutputInvariant == Spec => []OutputInv
<1>1. Init => OutputInv
  <2> SUFFICES ASSUME Init PROVE OutputInv
    OBVIOUS
  <2>1. <<>> \in Seq(Line) /\ <<>> \in Seq(1 .. MaxLines) /\ Len(<<>>) = 0
    OBVIOUS
  <2>2. TypeOK
    <3>1. /\ pipe \in [Streams -> Seq(Line)] /\ scanned \in [Streams -> Seq(Line)]
          /\ log \in [Streams -> Seq(1 .. MaxLines)] /\ kept \in [Streams -> Seq(1 .. MaxLines)]
      BY <2>1 DEF Init
    <3>2. \A s \in Streams : Len(pipe[s]) <= PipeCap
      BY <2>1 DEF Init
    <3>3. open \in [Streams -> BOOLEAN] /\ scanner \in [Streams -> {"scan", "quit", "done"}]
      BY DEF Init
    <3>4. excused \in BOOLEAN /\ expired \in BOOLEAN
      BY DEF Init
    <3>5. /\ caller \in {"script", "pipeline"} /\ child \in {"run", "exited"}
          /\ waiter \in {"wait", "join", "finished"}
      BY DEF Init
    <3>6. written \in 0 .. MaxLines
      BY DEF Init
    <3> QED
      BY <3>1, <3>2, <3>3, <3>4, <3>5, <3>6 DEF TypeOK
  <2>3. \A i : i \notin 1 .. Len(<<>>)
    OBVIOUS
  <2>4. \A s \in Streams : Ordered(s)
    BY <2>3 DEF Init, Ordered, InOrder
  <2> QED
    BY <2>2, <2>4 DEF OutputInv
<1>2. OutputInv /\ [Next]_vars => OutputInv'
  <2> SUFFICES ASSUME OutputInv, [Next]_vars PROVE OutputInv'
    OBVIOUS
  <2>0. TypeOK
    BY DEF OutputInv
  <2>1. ASSUME NEW s \in Streams, Scanner(s) PROVE OutputInv'
    <3>1. CASE ScanEnds(s)
      <4>1. /\ scanner' = [scanner EXCEPT ![s] = "quit"]
            /\ UNCHANGED <<caller, child, written, pipe, open, scanned, log, kept, excused, waiter, expired>>
        BY <3>1 DEF ScanEnds, pipeVars, rowVars, runVars
      <4>2. scanner' \in [Streams -> {"scan", "quit", "done"}]
        BY <2>0, <4>1 DEF TypeOK
      <4> QED
        BY <2>0, <4>1, <4>2, DropStep DEF TypeOK
    <3>2. CASE ScannerReturns(s)
      <4>1. /\ scanner' = [scanner EXCEPT ![s] = "done"]
            /\ open' = [open EXCEPT ![s] = @ /\ ~ClosesPipe]
            /\ pipe' = [pipe EXCEPT ![s] = IF ClosesPipe THEN <<>> ELSE @]
            /\ UNCHANGED <<caller, child, written, scanned, log, kept, excused, waiter, expired>>
        BY <3>2 DEF ScannerReturns, rowVars, runVars
      <4>2. scanner' \in [Streams -> {"scan", "quit", "done"}]
        BY <2>0, <4>1 DEF TypeOK
      <4>3. open' \in [Streams -> BOOLEAN]
        BY <2>0, <4>1 DEF TypeOK
      <4>4. /\ pipe' \in [Streams -> Seq(Line)]
            /\ \A t \in Streams : pipe'[t] \in {pipe[t], <<>>}
        BY <2>0, <4>1 DEF TypeOK
      <4> QED
        BY <2>0, <4>1, <4>2, <4>3, <4>4, DropStep DEF TypeOK
    <3> QED
      BY <2>1, <3>1, <3>2, ReadStep, HandOutStep DEF Scanner
  <2>2. CASE Wait
    <3>1. /\ waiter' = "join" /\ open' = [s \in Streams |-> FALSE]
          /\ pipe' = [s \in Streams |-> <<>>]
          /\ UNCHANGED <<caller, child, written, scanned, scanner, log, kept, excused, expired>>
      BY <2>2 DEF Wait, scanVars, rowVars
    <3>2. /\ pipe' \in [Streams -> Seq(Line)] /\ open' \in [Streams -> BOOLEAN]
          /\ \A s \in Streams : pipe'[s] \in {pipe[s], <<>>}
      BY <3>1
    <3> QED
      BY <2>0, <3>1, <3>2, DropStep DEF TypeOK
  <2>3. CASE Exit \/ Timeout \/ Kill \/ Finish
    <3>1. /\ UNCHANGED <<caller, written, pipe, open, scanned, scanner, log, kept, excused>>
          /\ child' \in {child, "exited"} /\ waiter' \in {waiter, "finished"} /\ expired' \in {expired, TRUE}
      BY <2>3 DEF Exit, Timeout, Kill, Finish, pipeVars, scanVars, rowVars, runVars
    <3> QED
      BY <2>0, <3>1, DropStep DEF TypeOK
  <2>4. CASE UNCHANGED vars
    <3>1. UNCHANGED <<caller, child, written, pipe, open, scanned, scanner, log, kept, excused, waiter, expired>>
      BY <2>4 DEF vars, pipeVars, scanVars, rowVars, runVars
    <3> QED
      BY <2>0, <3>1, DropStep DEF TypeOK
  <2> QED
    BY <2>1, <2>2, <2>3, <2>4, WriteStep, WriteBrokenStep DEF Next, Process
<1> QED
  BY <1>1, <1>2, PTL DEF Spec

\* When the run's goroutine has gone on, the scanners are done, and so the
\* row gets no more of this process's output.
JoinInv == waiter = "finished" => Joined

\* So nothing is appended once the run's goroutine has gone on, and the
\* invariant above holds with this one.
LEMMA JoinInvariant == Spec => [](JoinInv /\ OutputInv) /\ NothingAfterFinish
<1>1. Init => JoinInv
  BY DEF Init, JoinInv
<1>2. OutputInv /\ JoinInv /\ [Next]_vars => JoinInv' /\ (waiter = "finished" => UNCHANGED log)
  <2> SUFFICES ASSUME OutputInv, JoinInv, [Next]_vars
               PROVE  JoinInv' /\ (waiter = "finished" => UNCHANGED log)
    OBVIOUS
  <2>0. scanner \in [Streams -> {"scan", "quit", "done"}]
    BY DEF OutputInv, TypeOK
  <2>1. ASSUME NEW s \in Streams, Scanner(s)
        PROVE  /\ UNCHANGED waiter
               /\ waiter = "finished" => UNCHANGED log /\ Joined'
    <3>1. UNCHANGED waiter
      BY <2>1 DEF Scanner, ReadPipe, HandOut, ScanEnds, ScannerReturns, runVars
    <3>2. scanner[s] # "done"
      BY <2>1 DEF Scanner, ReadPipe, HandOut, ScanEnds, ScannerReturns
    <3> QED
      BY <3>1, <3>2 DEF JoinInv, Joined
  <2>2. CASE Finish
    BY <2>2 DEF Finish, Joined, JoinInv, scanVars, rowVars
  <2>3. CASE Wait \/ Process \/ Timeout \/ Kill \/ UNCHANGED vars
    BY <2>3 DEF Wait, Process, Exit, Write, WriteBroken, Timeout, Kill, vars, scanVars, rowVars, runVars,
                JoinInv, Joined
  <2> QED
    BY <2>1, <2>2, <2>3 DEF Next, JoinInv
<1>3. (waiter = "finished" => UNCHANGED log) => [waiter = "finished" => UNCHANGED log]_vars
  OBVIOUS
<1> QED
  BY <1>1, <1>2, <1>3, OutputInvariant, PTL DEF Spec, NothingAfterFinish

-----------------------------------------------------------------------------
(* The configuration document.  Here rows is the document in memory, work  *)
(* the file and more the pages' copies.                                    *)

Documents == [Document!Parts -> Document!Settings]

\* The documents that are made of others are documents.
LEMMA DocumentFacts ==
  /\ Document!First \in Documents
  /\ \A doc \in Documents, p \in Document!Parts, v \in Document!Settings :
       [doc EXCEPT ![p] = v] \in Documents
  /\ \A doc \in Documents : /\ Document!Ensured(doc) \in Documents
                            /\ \A a \in Document!Apps : Document!Ensured(doc)[a] = doc[a]
<1>1. /\ Default \in Document!Parts /\ 0 \in Document!Settings /\ 1 \in Document!Settings
      /\ Document!Apps \subseteq Document!Parts /\ Document!Apps \intersect Sources = {}
      /\ \A s \in Sources : s \in Document!Parts /\ (s # Default => AppOf[s] \in Document!Parts)
  BY PartsAssumption DEF Document!Parts, Document!Settings, Document!Apps
<1>2. ASSUME NEW doc \in Documents
      PROVE  /\ Document!Ensured(doc) \in Documents
             /\ \A a \in Document!Apps : Document!Ensured(doc)[a] = doc[a]
  <2>1. CASE \E s \in Sources : doc[s] # Document!Absent
    BY <2>1 DEF Document!Ensured
  <2>2. CASE ~\E s \in Sources : doc[s] # Document!Absent
    <3>1. Document!Ensured(doc) =
            [p \in Document!Parts |->
               IF p = Default THEN 1 ELSE IF p \in Sources THEN doc[AppOf[p]] ELSE doc[p]]
      BY <2>2 DEF Document!Ensured
    <3> QED
      BY <1>1, <3>1 DEF Documents
  <2> QED
    BY <2>1, <2>2
<1> QED
  BY <1>1, <1>2 DEF Documents, Document!First, Document!Absent

\* What a change of the document leaves behind: the file follows or the write
\* is known to have failed, and a page that has not got the new document is
\* behind in what has changed.
LEMMA ChangeFacts ==
  ASSUME Document!TypeOK, NEW doc \in Documents, NEW own,
         NEW other \in SUBSET Document!Parts, NEW sender, NEW sent \in Documents,
         Document!Change(doc, own, other, sender, sent)
  PROVE  /\ Document!TypeOK' /\ rows' = doc
         /\ \A p \in Document!Parts : past'.asked[p] = IF p \in own THEN doc[p] ELSE past.asked[p]
         /\ past'.excused = (past.excused \ own) \cup other
         /\ \A b \in Pages :
              \/ b \in sender /\ more'[b] = sent /\ past'.behind[b] = Document!Changed(doc, sent)
              \/ more'[b] = more[b] /\ past'.behind[b] = past.behind[b] \cup Document!Changed(doc, rows)
         /\ work' = doc \/ past'.unsaved
<1>0. /\ rows \in Documents /\ work \in Documents /\ more \in [Pages -> Documents]
      /\ past \in [asked : Documents, excused : SUBSET Document!Parts,
                   behind : [Pages -> SUBSET Document!Parts], unsaved : BOOLEAN,
                   changes : Document!Settings]
  BY DEF Document!TypeOK, Documents
<1>1. PICK end \in {"done", "no file", "no table"} :
        /\ work' = IF end = "no file" THEN work ELSE doc
        /\ more' = [b \in Pages |-> IF b \in sender /\ end = "done" THEN sent ELSE more[b]]
        /\ past' = [past EXCEPT
             !.asked = [p \in Document!Parts |-> IF p \in own THEN doc[p] ELSE @[p]],
             !.excused = (@ \ own) \union other,
             !.behind = [b \in Pages |->
               IF b \in sender /\ end = "done" THEN Document!Changed(doc, sent)
               ELSE @[b] \union Document!Changed(doc, rows)],
             !.unsaved = (end = "no file"), !.changes = @ + 1]
  BY DEF Document!Change
<1>2. rows' = doc /\ past.changes < MaxChanges
  BY DEF Document!Change
<1> DEFINE asked == [p \in Document!Parts |-> IF p \in own THEN doc[p] ELSE past.asked[p]]
           behind == [b \in Pages |->
                       IF b \in sender /\ end = "done" THEN Document!Changed(doc, sent)
                       ELSE past.behind[b] \cup Document!Changed(doc, rows)]
<1>3. past' = [asked |-> asked, excused |-> (past.excused \ own) \cup other, behind |-> behind,
               unsaved |-> (end = "no file"), changes |-> past.changes + 1]
  BY <1>0, <1>1 DEF Document!Changed
<1>4. asked \in Documents /\ behind \in [Pages -> SUBSET Document!Parts]
  BY <1>0 DEF Documents, Document!Changed
<1>5. past.changes + 1 \in Document!Settings
  <2>1. past.changes \in 0 .. MaxChanges /\ MaxChanges \in Nat
    BY <1>0 DEF Document!Settings
  <2> QED
    BY <1>2, <2>1, NextCount DEF Document!Settings
<1>6. work' \in Documents /\ more' \in [Pages -> Documents]
  BY <1>0, <1>1
<1>7. /\ past'.asked = asked /\ past'.excused = (past.excused \ own) \cup other
      /\ past'.behind = behind /\ past'.unsaved = (end = "no file")
  BY <1>3
<1>8. Document!TypeOK'
  <2>1. past' \in [asked : Documents, excused : SUBSET Document!Parts,
                   behind : [Pages -> SUBSET Document!Parts], unsaved : BOOLEAN,
                   changes : Document!Settings]
    BY <1>0, <1>3, <1>4, <1>5
  <2> QED
    BY <1>2, <1>6, <2>1 DEF Document!TypeOK, Documents
<1>9. ASSUME NEW b \in Pages
      PROVE  \/ b \in sender /\ more'[b] = sent /\ past'.behind[b] = Document!Changed(doc, sent)
             \/ more'[b] = more[b] /\ past'.behind[b] = past.behind[b] \cup Document!Changed(doc, rows)
  <2>1. more'[b] = (IF b \in sender /\ end = "done" THEN sent ELSE more[b]) /\ past'.behind[b] = behind[b]
    BY <1>1, <1>7
  <2>2. CASE b \in sender /\ end = "done"
    BY <2>1, <2>2
  <2>3. CASE ~(b \in sender /\ end = "done")
    BY <2>1, <2>3
  <2> QED
    BY <2>2, <2>3
<1>10. work' = doc \/ past'.unsaved
  <2>1. CASE end = "no file"
    BY <1>7, <2>1
  <2>2. CASE end # "no file"
    BY <1>1, <2>2
  <2> QED
    BY <2>1, <2>2
<1> QED
  BY <1>2, <1>7, <1>8, <1>9, <1>10

\* A page that has not got a part of the document is behind in it.
BehindInv == \A b \in Pages : Document!Changed(more[b], rows) \subseteq past.behind[b]

\* A step of the configuration document: a change, which differs from the
\* document only in the parts that were asked for and those that change with
\* them, a page that loads, or a restart.
LEMMA DocumentSteps ==
  ASSUME Document!TypeOK, BehindInv, Document!Next
  PROVE  \/ \E doc \in Documents, own \in SUBSET Document!Parts, other \in SUBSET Document!Parts,
               sender \in SUBSET Pages, sent \in Documents :
              /\ Document!Change(doc, own, other, sender, sent)
              /\ Document!Changed(doc, rows) \subseteq own \cup other
         \/ \E b \in Pages : Document!Load(b)
         \/ Document!Restart
<1>0. /\ rows \in Documents /\ more \in [Pages -> Documents]
      /\ past.changes \in Document!Settings /\ past.behind \in [Pages -> SUBSET Document!Parts]
  BY DEF Document!TypeOK, Documents
<1> DEFINE Changed ==
             \E doc \in Documents, own \in SUBSET Document!Parts, other \in SUBSET Document!Parts,
                sender \in SUBSET Pages, sent \in Documents :
               Document!Change(doc, own, other, sender, sent) /\ Document!Changed(doc, rows) \subseteq own \cup other
<1>1. ASSUME NEW p \in Document!Parts, NEW v \in Document!Settings,
             Document!SetPart([rows EXCEPT ![p] = v], p)
      PROVE  Changed
  <2> DEFINE doc == [rows EXCEPT ![p] = v]
  <2>1. doc \in Documents
    BY <1>0, DocumentFacts
  <2>2. Document!Changed(doc, rows) \subseteq {p} \cup {}
    BY <1>0 DEF Document!Changed, Documents
  <2>3. Document!Change(doc, {p}, {}, {}, doc)
    BY <1>1 DEF Document!SetPart
  <2> HIDE DEF doc
  <2> QED
    BY <2>1, <2>2, <2>3
<1>2. past.changes < MaxChanges => past.changes + 1 \in Document!Settings
  BY <1>0, NextCount DEF Document!Settings
<1>3. ASSUME NEW s \in Sources, Document!CreateSource(s) PROVE Changed
  <2>1. past.changes < MaxChanges /\ s \in Document!Parts
    BY <1>3 DEF Document!CreateSource, Document!SetPart, Document!Change, Document!Parts
  <2> QED
    BY <1>1, <1>2, <1>3, <2>1 DEF Document!CreateSource, Document!Created
<1>4. ASSUME NEW s \in Sources, Document!DeleteSource(s) PROVE Changed
  <2>1. s \in Document!Parts /\ Document!Absent \in Document!Settings
    BY DEF Document!Parts, Document!Settings, Document!Absent
  <2> QED
    BY <1>1, <1>4, <2>1 DEF Document!DeleteSource
<1>5. ASSUME NEW s \in Scripts, Document!UploadScript(s) PROVE Changed
  <2>1. past.changes < MaxChanges /\ s \in Document!Parts
    BY <1>5 DEF Document!UploadScript, Document!SetPart, Document!Change, Document!Parts
  <2> QED
    BY <1>1, <1>2, <1>5, <2>1 DEF Document!UploadScript, Document!Created
<1>6. ASSUME Document!BackUp PROVE Changed
  <2>1. past.changes < MaxChanges /\ "target" \in Document!Parts
    BY <1>6 DEF Document!BackUp, Document!SetPart, Document!Change, Document!Parts, Document!Values
  <2> QED
    BY <1>1, <1>2, <1>6, <2>1 DEF Document!BackUp, Document!Created
<1>7. ASSUME Document!ListSources PROVE Changed
  <2> DEFINE doc == Document!Ensured(rows)
             other == Document!Changed(doc, rows)
  <2>1. Document!Change(doc, {}, other, {}, rows)
    BY <1>7 DEF Document!ListSources
  <2>2. doc \in Documents /\ other \subseteq {} \cup other /\ other \in SUBSET Document!Parts
    BY <1>0, DocumentFacts DEF Document!Changed
  <2> HIDE DEF doc
  <2> QED
    BY <1>0, <2>1, <2>2
<1>8. ASSUME NEW b \in Pages, Document!SaveAll(b) PROVE Changed
  <2> DEFINE came == [more[b] EXCEPT !["option"] = past.changes + 1]
             with == Document!WithApps(came)
             doc == Document!Ensured(with)
             other == (past.behind[b] \ Document!Apps) \cup (Document!Changed(doc, came) \ Document!Apps)
  <2>1. Document!Change(doc, {"option"}, other, {b}, came)
    BY <1>8 DEF Document!SaveAll, Document!Incoming
  <2>2. past.changes < MaxChanges /\ "option" \in Document!Parts
    BY <2>1 DEF Document!Change, Document!Parts, Document!Values
  <2>3. came \in Documents
    BY <1>0, <1>2, <2>2, DocumentFacts
  <2>4. with \in Documents /\ \A a \in Document!Apps : a \in Document!Parts /\ with[a] = rows[a]
    BY <1>0, <2>3 DEF Document!WithApps, Documents, Document!Parts
  <2>5. /\ \A p \in Document!Parts : came[p] # more[b][p] => p = "option"
        /\ Document!Changed(more[b], rows) \subseteq past.behind[b]
    BY <1>0 DEF Documents, BehindInv
  <2> HIDE DEF came, with
  <2>6. doc \in Documents /\ \A a \in Document!Apps : doc[a] = rows[a]
    BY <2>4, DocumentFacts
  <2> HIDE DEF doc
  <2>7. other \in SUBSET Document!Parts
    BY <1>0 DEF Document!Changed
  <2>8. Document!Changed(doc, rows) \subseteq {"option"} \cup other
    <3> SUFFICES ASSUME NEW p \in Document!Parts, doc[p] # rows[p], p # "option"
                 PROVE  p \in other
      BY DEF Document!Changed
    <3>1. p \notin Document!Apps
      BY <2>6
    <3>2. CASE doc[p] # came[p]
      BY <3>1, <3>2 DEF Document!Changed
    <3>3. CASE doc[p] = came[p]
      BY <2>5, <3>1, <3>3 DEF Document!Changed
    <3> QED
      BY <3>2, <3>3
  <2>9. {"option"} \in SUBSET Document!Parts /\ {b} \in SUBSET Pages
    BY <2>2
  <2> HIDE DEF other
  <2> QED
    BY <2>1, <2>3, <2>6, <2>7, <2>8, <2>9
<1>9. ASSUME NEW a \in Document!Apps, Document!SetApp(a) \/ Document!DropApp(a) PROVE Changed
  <2>1. a \in Document!Parts /\ Document!Absent \in Document!Settings
    BY DEF Document!Parts, Document!Settings, Document!Absent
  <2>2. CASE Document!SetApp(a)
    <3>1. past.changes < MaxChanges
      BY <2>2 DEF Document!SetApp, Document!SetPart, Document!Change
    <3> QED
      BY <1>1, <1>2, <2>1, <2>2, <3>1 DEF Document!SetApp, Document!Created
  <2>3. CASE Document!DropApp(a)
    BY <1>1, <2>1, <2>3 DEF Document!DropApp
  <2> QED
    BY <1>9, <2>2, <2>3
<1> QED
  BY <1>3, <1>4, <1>5, <1>6, <1>7, <1>8, <1>9 DEF Document!Next

\* What a page that loads and a restart do.
LEMMA LoadFacts ==
  ASSUME Document!TypeOK, NEW b \in Pages, Document!Load(b)
  PROVE  /\ Document!TypeOK' /\ UNCHANGED <<rows, work>>
         /\ more' = [more EXCEPT ![b] = rows]
         /\ past'.behind = [past.behind EXCEPT ![b] = {}]
         /\ past'.asked = past.asked /\ past'.excused = past.excused
         /\ past'.unsaved = past.unsaved
BY DEF Document!Load, Document!TypeOK

\* What a restart does to the document, the file and the pages.
LEMMA RestartFacts ==
  ASSUME Document!TypeOK, Document!Restart
  PROVE  /\ Document!TypeOK' /\ rows' \in Documents /\ work' = rows' /\ UNCHANGED more
         /\ past'.asked = past.asked
         /\ past'.excused = past.excused \cup Document!Changed(rows', rows)
         /\ \A b \in Pages : past'.behind[b] = past.behind[b] \cup Document!Changed(rows', rows)
<1>0. /\ rows \in Documents /\ work \in Documents /\ more \in [Pages -> Documents]
      /\ past \in [asked : Documents, excused : SUBSET Document!Parts,
                   behind : [Pages -> SUBSET Document!Parts], unsaved : BOOLEAN,
                   changes : Document!Settings]
  BY DEF Document!TypeOK, Documents
<1> DEFINE doc == Document!Ensured(work)
           lost == Document!Changed(doc, rows)
<1>1. doc \in Documents /\ lost \in SUBSET Document!Parts
  BY <1>0, DocumentFacts DEF Document!Changed
<1>2. /\ rows' = doc /\ work' = doc /\ UNCHANGED more
      /\ past' = [past EXCEPT !.excused = @ \cup lost, !.unsaved = FALSE,
                              !.behind = [b \in Pages |-> @[b] \cup lost]]
  BY DEF Document!Restart, Document!Changed
<1> HIDE DEF doc, lost
<1>3. past' = [asked |-> past.asked, excused |-> past.excused \cup lost,
               behind |-> [b \in Pages |-> past.behind[b] \cup lost], unsaved |-> FALSE,
               changes |-> past.changes]
  BY <1>0, <1>2
<1>4. [b \in Pages |-> past.behind[b] \cup lost] \in [Pages -> SUBSET Document!Parts]
  BY <1>0, <1>1
<1>5. past' \in [asked : Documents, excused : SUBSET Document!Parts,
                 behind : [Pages -> SUBSET Document!Parts], unsaved : BOOLEAN,
                 changes : Document!Settings]
  BY <1>0, <1>1, <1>3, <1>4
<1>6. Document!TypeOK'
  BY <1>0, <1>1, <1>2, <1>5 DEF Document!TypeOK, Documents
<1>7. lost = Document!Changed(rows', rows)
  BY <1>2 DEF lost
<1>8. rows' \in Documents /\ work' = rows' /\ UNCHANGED more
  BY <1>1, <1>2
<1>9. /\ past'.asked = past.asked /\ past'.excused = past.excused \cup lost
      /\ \A b \in Pages : past'.behind[b] = past.behind[b] \cup lost
  BY <1>3
<1> QED
  BY <1>6, <1>7, <1>8, <1>9

DocumentInv ==
  Document!TypeOK /\ BehindInv /\ Document!LastAskedHolds /\ Document!FileFollows

\* DocumentInv is inductive: what the server works with is what was asked for
\* last, which for a page's save depends on what that page has not got, and
\* the file has it unless its last write failed.
LEMMA DocumentSafe == Document!Spec => []DocumentInv
<1>1. Document!Init => DocumentInv
  <2> SUFFICES ASSUME Document!Init PROVE DocumentInv
    OBVIOUS
  <2>1. /\ past.asked = Document!First /\ past.excused = {} /\ past.unsaved = FALSE /\ past.changes = 0
        /\ past.behind = [b \in Pages |-> {}]
        /\ rows = Document!First /\ work = Document!First /\ more = [b \in Pages |-> Document!First]
    BY DEF Document!Init
  <2>2. Document!TypeOK
    BY <2>1, DocumentFacts DEF Document!Init, Document!TypeOK, Documents, Document!Settings
  <2> QED
    BY <2>1, <2>2 DEF DocumentInv, BehindInv, Document!Changed, Document!LastAskedHolds, Document!FileFollows
<1>2. DocumentInv /\ [Document!Next]_(Document!vars) => DocumentInv'
  <2> SUFFICES ASSUME DocumentInv, [Document!Next]_(Document!vars) PROVE DocumentInv'
    OBVIOUS
  <2>0. /\ Document!TypeOK /\ BehindInv /\ Document!LastAskedHolds /\ Document!FileFollows
        /\ more \in [Pages -> Documents]
    BY DEF DocumentInv, Document!TypeOK, Documents
  <2>1. ASSUME NEW doc \in Documents, NEW own \in SUBSET Document!Parts,
               NEW other \in SUBSET Document!Parts, NEW sender \in SUBSET Pages, NEW sent \in Documents,
               Document!Change(doc, own, other, sender, sent), Document!Changed(doc, rows) \subseteq own \cup other
        PROVE  DocumentInv'
    <3>1. /\ Document!TypeOK' /\ rows' = doc
          /\ \A p \in Document!Parts : past'.asked[p] = IF p \in own THEN doc[p] ELSE past.asked[p]
          /\ past'.excused = (past.excused \ own) \cup other
          /\ \A b \in Pages :
               \/ b \in sender /\ more'[b] = sent /\ past'.behind[b] = Document!Changed(doc, sent)
               \/ more'[b] = more[b] /\ past'.behind[b] = past.behind[b] \cup Document!Changed(doc, rows)
          /\ work' = doc \/ past'.unsaved
      BY <2>0, <2>1, ChangeFacts
    <3>2. BehindInv'
      BY <2>0, <3>1 DEF BehindInv, Document!Changed
    <3>3. Document!LastAskedHolds'
      <4> SUFFICES ASSUME NEW p \in Document!Parts
                   PROVE  doc[p] = past'.asked[p] \/ p \in past'.excused
        BY <3>1 DEF Document!LastAskedHolds
      <4>1. CASE p \in own
        BY <3>1, <4>1
      <4>2. CASE p \in other
        BY <3>1, <4>2
      <4>3. CASE p \notin own /\ p \notin other
        BY <2>0, <2>1, <3>1, <4>3 DEF Document!LastAskedHolds, Document!Changed
      <4> QED
        BY <4>1, <4>2, <4>3
    <3>4. Document!FileFollows'
      BY <3>1 DEF Document!FileFollows
    <3> QED
      BY <3>1, <3>2, <3>3, <3>4 DEF DocumentInv
  <2>2. ASSUME NEW b \in Pages, Document!Load(b) PROVE DocumentInv'
    <3>1. BehindInv'
      <4>1. rows' = rows /\ past'.behind = [past.behind EXCEPT ![b] = {}]
        BY <2>0, <2>2, LoadFacts
      <4>2. more' = [more EXCEPT ![b] = rows]
        BY <2>0, <2>2, LoadFacts
      <4>3. more'[b] = rows
        BY <2>0, <4>2 DEF Document!TypeOK
      <4>4. Document!Changed(more'[b], rows) = {}
        BY <4>3 DEF Document!Changed
      <4>5. ASSUME NEW c \in Pages, c # b
            PROVE  more'[c] = more[c] /\ past'.behind[c] = past.behind[c]
        BY <2>0, <4>1, <4>2, <4>5 DEF Document!TypeOK
      <4> QED
        BY <2>0, <4>1, <4>4, <4>5 DEF BehindInv, Document!Changed
    <3>2. Document!LastAskedHolds'
      <4>1. rows' = rows /\ past'.asked = past.asked /\ past'.excused = past.excused
        BY <2>0, <2>2, LoadFacts
      <4> QED
        BY <2>0, <4>1 DEF Document!LastAskedHolds
    <3>3. Document!FileFollows'
      <4>1. UNCHANGED <<rows, work>> /\ past'.unsaved = past.unsaved
        BY <2>0, <2>2, LoadFacts
      <4> QED
        BY <2>0, <4>1 DEF Document!FileFollows
    <3> QED
      BY <2>0, <2>2, <3>1, <3>2, <3>3, LoadFacts DEF DocumentInv
  <2>3. CASE Document!Restart
    <3>1. BehindInv'
      BY <2>0, <2>3, RestartFacts DEF BehindInv, Document!Changed
    <3>2. Document!LastAskedHolds'
      BY <2>0, <2>3, RestartFacts DEF Document!LastAskedHolds, Document!Changed
    <3>3. Document!FileFollows'
      BY <2>0, <2>3, RestartFacts DEF Document!FileFollows
    <3> QED
      BY <2>0, <2>3, <3>1, <3>2, <3>3, RestartFacts DEF DocumentInv
  <2>4. CASE UNCHANGED Document!vars
    BY <2>0, <2>4 DEF DocumentInv, Document!vars, Document!TypeOK, BehindInv, Document!Changed,
                      Document!LastAskedHolds, Document!FileFollows
  <2> QED
    BY <2>0, <2>1, <2>2, <2>3, <2>4, DocumentSteps
<1> QED
  BY <1>1, <1>2, PTL DEF Document!Spec

-----------------------------------------------------------------------------
(* The runtime log.  Here rows is the ring with its size and the handle of *)
(* the file, work the lines in the file and more the writers.              *)

Has(s, n) == \E i \in 1 .. Len(s) : s[i] = n

\* Nothing is in a sequence twice.
Once(s) == \A i, j \in 1 .. Len(s) : s[i] = s[j] => i = j

\* What a sequence has after something is put at its end.
LEMMA AppendHas ==
  ASSUME NEW S, NEW s \in Seq(S), NEW e \in S
  PROVE  /\ Append(s, e) \in Seq(S) /\ Len(Append(s, e)) = Len(s) + 1
         /\ \A n : Has(Append(s, e), n) <=> Has(s, n) \/ n = e
         /\ Once(s) /\ ~Has(s, e) => Once(Append(s, e))
<1> DEFINE t == Append(s, e)
<1>0. PICK m \in Nat : m = Len(s)
  OBVIOUS
<1>1. t \in Seq(S) /\ Len(t) = m + 1 /\ t[m + 1] = e /\ \A i \in 1 .. m : t[i] = s[i]
  BY <1>0, AppendProperties
<1>2. /\ \A i \in 1 .. m + 1 : i = m + 1 \/ i \in 1 .. m
      /\ m + 1 \in 1 .. m + 1 /\ \A i \in 1 .. m : i \in 1 .. m + 1 /\ i # m + 1
  OBVIOUS
<1> HIDE DEF t
<1>3. \A n : Has(t, n) <=> Has(s, n) \/ n = e
  BY <1>0, <1>1, <1>2 DEF Has
<1>4. ASSUME Once(s), ~Has(s, e), NEW i \in 1 .. m + 1, NEW j \in 1 .. m + 1, t[i] = t[j] PROVE i = j
  BY <1>0, <1>1, <1>2, <1>4 DEF Has, Once
<1>5. Once(s) /\ ~Has(s, e) => Once(t)
  BY <1>1, <1>4 DEF Once
<1> QED
  BY <1>0, <1>1, <1>3, <1>5 DEF t

\* What a sequence has apart from its head.
LEMMA TailHas ==
  ASSUME NEW S, NEW s \in Seq(S), s # <<>>
  PROVE  /\ Head(s) \in S /\ Tail(s) \in Seq(S)
         /\ \A n : Has(s, n) <=> n = Head(s) \/ Has(Tail(s), n)
         /\ Once(s) => Once(Tail(s)) /\ ~Has(Tail(s), Head(s))
<1>1. PICK m \in Nat : Len(s) = m + 1
  <2>1. PICK k \in Nat : k = Len(s) /\ k # 0
    BY EmptySeq
  <2>2. k - 1 \in Nat /\ k = (k - 1) + 1
    BY <2>1
  <2> QED
    BY <2>1, <2>2
<1> DEFINE t == Tail(s)
<1>2. t \in Seq(S) /\ Len(t) = m /\ \A i \in 1 .. m : t[i] = s[i + 1]
  BY <1>1, HeadTailProperties
<1>3. Head(s) = s[1] /\ Head(s) \in S
  BY <1>1
<1>4. \A i \in 1 .. m : i + 1 \in 1 .. m + 1 /\ i + 1 # 1
  OBVIOUS
<1>5. \A i \in 1 .. m + 1 : i = 1 \/ \E j \in 1 .. m : i = j + 1
  <2> SUFFICES ASSUME NEW i \in 1 .. m + 1, i # 1 PROVE i - 1 \in 1 .. m /\ i = (i - 1) + 1
    OBVIOUS
  <2> QED
    OBVIOUS
<1>6. 1 \in 1 .. m + 1 /\ \A i, j \in 1 .. m : i + 1 = j + 1 => i = j
  OBVIOUS
<1> HIDE DEF t
<1>7. \A n : Has(s, n) <=> n = Head(s) \/ Has(t, n)
  <2>1. ASSUME NEW n, Has(s, n) PROVE n = Head(s) \/ Has(t, n)
    <3>1. PICK i \in 1 .. m + 1 : s[i] = n
      BY <1>1, <2>1 DEF Has
    <3>2. CASE i = 1
      BY <1>3, <3>1, <3>2
    <3>3. CASE i # 1
      <4>1. PICK j \in 1 .. m : i = j + 1
        BY <1>5, <3>3
      <4>2. t[j] = n
        BY <1>2, <3>1, <4>1
      <4> QED
        BY <1>2, <4>2 DEF Has
    <3> QED
      BY <3>2, <3>3
  <2>2. Has(s, Head(s))
    BY <1>1, <1>3, <1>6 DEF Has
  <2>3. ASSUME NEW n, Has(t, n) PROVE Has(s, n)
    BY <1>1, <1>2, <1>4, <2>3 DEF Has
  <2> QED
    BY <2>1, <2>2, <2>3
<1>8. ASSUME Once(s) PROVE Once(t) /\ ~Has(t, Head(s))
  BY <1>1, <1>2, <1>3, <1>4, <1>6, <1>8 DEF Once, Has
<1> QED
  BY <1>2, <1>3, <1>7, <1>8 DEF t

\* The first elements of a sequence that has each of its elements once.
LEMMA FirstHas ==
  ASSUME NEW S, NEW s \in Seq(S), Once(s), NEW m \in 0 .. Len(s)
  PROVE  /\ SubSeq(s, 1, m) \in Seq(S) /\ Len(SubSeq(s, 1, m)) = m /\ Once(SubSeq(s, 1, m))
         /\ \A n : Has(SubSeq(s, 1, m), n) <=> \E i \in 1 .. m : s[i] = n
<1> DEFINE t == SubSeq(s, 1, m)
<1>1. PICK l \in Nat : l = Len(s) /\ m \in 0 .. l
  OBVIOUS
<1>2. t \in Seq(S) /\ Len(t) = m /\ \A i \in 1 .. m : t[i] = s[i]
  BY <1>1, SubSeqProperties
<1>3. \A i \in 1 .. m : i \in 1 .. l
  BY <1>1
<1> HIDE DEF t
<1>4. Once(t) /\ \A n : Has(t, n) <=> \E i \in 1 .. m : s[i] = n
  BY <1>1, <1>2, <1>3 DEF Once, Has
<1> QED
  BY <1>2, <1>4 DEF t

\* The text the log package's writer has: the piece, if any, and n new lines.
Text(piece, last, n) ==
  (IF piece = 0 THEN <<>> ELSE <<piece>>) \o [i \in 1 .. n |-> last + i]

\* A text has the piece, if there is one, and the numbers after the last, each
\* once.
LEMMA TextFacts ==
  ASSUME NEW piece \in Nat, NEW last \in Nat, piece <= last, NEW n \in Nat
  PROVE  /\ Text(piece, last, n) \in Seq(1 .. last + n) /\ Once(Text(piece, last, n))
         /\ \A k : Has(Text(piece, last, n), k)
                     <=> (k = piece /\ k # 0) \/ k \in (last + 1) .. (last + n)
<1> DEFINE text == Text(piece, last, n)
           new == [i \in 1 .. n |-> last + i]
<1>1. new \in Seq(1 .. last + n) /\ Len(new) = n /\ \A i \in 1 .. n : new[i] = last + i
  OBVIOUS
<1> HIDE DEF new, text
<1>2. \A i \in 1 .. n : last + i \in (last + 1) .. (last + n)
  OBVIOUS
<1>3. \A k \in (last + 1) .. (last + n) : k - last \in 1 .. n /\ k = last + (k - last)
  OBVIOUS
<1>4. CASE piece = 0
  <2>1. text = new
    BY <1>1, <1>4, ConcatProperties DEF new, text, Text
  <2>2. \A k : Has(new, k) <=> k \in (last + 1) .. (last + n)
    <3>1. ASSUME NEW k, Has(new, k) PROVE k \in (last + 1) .. (last + n)
      BY <1>1, <1>2, <3>1 DEF Has
    <3>2. ASSUME NEW k \in (last + 1) .. (last + n) PROVE Has(new, k)
      <4>1. k - last \in 1 .. n /\ new[k - last] = last + (k - last) /\ k = last + (k - last)
        BY <1>1, <1>3
      <4> QED
        BY <1>1, <4>1 DEF Has
    <3> QED
      BY <3>1, <3>2
  <2>3. Once(new)
    BY <1>1 DEF Once
  <2> QED
    BY <1>1, <1>4, <2>1, <2>2, <2>3 DEF text
<1>5. CASE piece # 0
  <2>1. /\ text \in Seq(1 .. last + n) /\ Len(text) = n + 1
        /\ text[1] = piece /\ \A i \in 1 .. n : text[i + 1] = last + i
    <3>1. piece \in 1 .. last + n
      BY <1>5
    <3>2. text = <<piece>> \o new /\ <<piece>> \in Seq(1 .. last + n)
      BY <1>5, <3>1 DEF new, text, Text
    <3>3. text \in Seq(1 .. last + n) /\ Len(text) = 1 + n
      <4>1. PICK head \in Seq(1 .. last + n) : head = <<piece>> /\ Len(head) = 1
        BY <3>2
      <4>0. new \in Seq(1 .. last + n)
        BY <1>1
      <4>2. head \o new \in Seq(1 .. last + n) /\ Len(head \o new) = Len(head) + Len(new)
        BY <4>0, ConcatProperties
      <4> QED
        BY <1>1, <3>2, <4>1, <4>2
    <3>4. \A i \in 1 .. n + 1 : text[i] = IF i <= 1 THEN <<piece>>[i] ELSE new[i - 1]
      BY <1>1, <3>2
    <3>5. \A i \in 1 .. n : i + 1 \in 1 .. n + 1 /\ ~(i + 1 <= 1) /\ (i + 1) - 1 = i
      OBVIOUS
    <3>6. 1 \in 1 .. n + 1 /\ 1 <= 1 /\ <<piece>>[1] = piece /\ 1 + n = n + 1
      OBVIOUS
    <3>7. text[1] = piece
      BY <3>4, <3>6
    <3>8. \A i \in 1 .. n : text[i + 1] = new[i]
      BY <3>4, <3>5
    <3> QED
      BY <1>1, <3>3, <3>6, <3>7, <3>8
  <2>2. \A i \in 1 .. n : i + 1 \in 1 .. n + 1
    OBVIOUS
  <2>3. \A i \in 1 .. n + 1 : i = 1 \/ \E j \in 1 .. n : i = j + 1
    <3> SUFFICES ASSUME NEW i \in 1 .. n + 1, i # 1 PROVE i - 1 \in 1 .. n /\ i = (i - 1) + 1
      OBVIOUS
    <3> QED
      OBVIOUS
  <2>4. 1 \in 1 .. n + 1
    OBVIOUS
  <2>5. \A k : Has(text, k) <=> k = piece \/ k \in (last + 1) .. (last + n)
    <3>1. ASSUME NEW k, Has(text, k) PROVE k = piece \/ k \in (last + 1) .. (last + n)
      <4>1. PICK i \in 1 .. n + 1 : text[i] = k
        BY <2>1, <3>1 DEF Has
      <4>2. ASSUME i # 1 PROVE k \in (last + 1) .. (last + n)
        <5>1. PICK j \in 1 .. n : i = j + 1
          BY <2>3, <4>2
        <5>2. k = last + j
          BY <2>1, <4>1, <5>1
        <5> QED
          BY <1>2, <5>2
      <4> QED
        BY <2>1, <4>1, <4>2
    <3>2. Has(text, piece)
      BY <2>1, <2>4 DEF Has
    <3>3. ASSUME NEW k \in (last + 1) .. (last + n) PROVE Has(text, k)
      <4>1. k - last \in 1 .. n /\ k = last + (k - last)
        BY <1>3
      <4> DEFINE j == k - last
      <4> HIDE DEF j
      <4>2. j \in 1 .. n /\ k = last + j
        BY <4>1 DEF j
      <4>3. j + 1 \in 1 .. n + 1 /\ text[j + 1] = k
        BY <2>1, <2>2, <4>2
      <4> QED
        BY <2>1, <4>3 DEF Has
    <3> QED
      BY <3>1, <3>2, <3>3
  <2>6. Once(text)
    <3>1. \A i, j \in 1 .. n : last + i = last + j => i = j
      OBVIOUS
    <3>2. \A i \in 1 .. n : last + i # piece
      OBVIOUS
    <3>3. ASSUME NEW i \in 1 .. n + 1, NEW j \in 1 .. n + 1, text[i] = text[j] PROVE i = j
      <4>0. ASSUME NEW a \in 1 .. n + 1, a # 1 PROVE text[a] # piece
        <5>1. PICK b \in 1 .. n : a = b + 1
          BY <2>3, <4>0
        <5> QED
          BY <2>1, <3>2, <5>1
      <4>1. CASE i = 1
        BY <2>1, <3>3, <4>0, <4>1
      <4>2. CASE j = 1
        BY <2>1, <3>3, <4>0, <4>2
      <4>3. CASE i # 1 /\ j # 1
        <5>1. PICK a \in 1 .. n, b \in 1 .. n : i = a + 1 /\ j = b + 1
          BY <2>3, <4>3
        <5> QED
          BY <2>1, <3>1, <3>3, <5>1
      <4> QED
        BY <4>1, <4>2, <4>3
    <3> QED
      BY <2>1, <3>3 DEF Once
  <2> QED
    BY <1>5, <2>1, <2>5, <2>6 DEF text
<1> QED
  BY <1>4, <1>5

\* The types of the records of the runtime log.
Numbers == 1 .. LogLines
Centers == [ring : Seq(Numbers), max : Sizes, file : 0 .. MaxFiles]
WriterStates == [todo : Seq(Numbers), line : 0 .. LogLines, file : 0 .. MaxFiles]
Pasts == [lines : 0 .. LogLines, piece : 0 .. LogLines, order : Seq(Numbers), lost : SUBSET Numbers,
          files : 0 .. MaxFiles, open : SUBSET (1 .. MaxFiles), excused : SUBSET Numbers]

\* The type invariant with the sets named.
LEMMA LineTypes ==
  Lines!TypeOK <=> /\ rows \in Centers /\ work \in Seq(Numbers)
                   /\ more \in [Lines!All -> WriterStates] /\ past \in Pasts
BY DEF Lines!TypeOK, Numbers, Centers, WriterStates, Pasts

\* Every numbered line that was not lost is at one place: among those that
\* were added, in the hands of one writer, or it is the piece that is kept.
AccountInv ==
  /\ Once(past.order) /\ \A w \in Lines!All : Once(more[w].todo)
  /\ \A n \in Numbers, w \in Lines!All :
       Has(more[w].todo, n) => ~Has(past.order, n) /\ n # past.piece /\ n <= past.lines
  /\ \A n \in Numbers, v, w \in Lines!All :
       Has(more[v].todo, n) /\ Has(more[w].todo, n) => v = w
  /\ \A n \in Numbers : Has(past.order, n) => n # past.piece /\ n <= past.lines
  /\ past.piece <= past.lines
  /\ \A n \in 1 .. past.lines :
       Has(past.order, n) \/ n = past.piece \/ n \in past.lost \/ \E w \in Lines!All : Has(more[w].todo, n)

\* What a writer makes of the text that was written to it.
LEMMA SplitFacts ==
  ASSUME NEW S \in SUBSET (Nat \ {0}), NEW text \in Seq(S), Once(text),
         NEW ends \in BOOLEAN, NEW short \in 0 .. Len(text), NEW got, got = Lines!Split(text, ends, short)
  PROVE  /\ got.lines \in Seq(S) /\ got.piece \in S \cup {0}
         /\ Once(got.lines) /\ ~Has(got.lines, got.piece)
         /\ \A k : Has(got.lines, k) \/ (k = got.piece /\ k # 0) => Has(text, k)
         /\ \A i \in 1 .. short : Has(got.lines, text[i]) \/ text[i] = got.piece
<1>1. PICK l \in Nat : l = Len(text) /\ short \in 0 .. l
  OBVIOUS
<1>2. \A i \in 1 .. l : text[i] \in S /\ text[i] # 0 /\ Has(text, text[i])
  BY <1>1 DEF Has
<1>3. \A i \in 1 .. short : i \in 1 .. l
  BY <1>1
<1>4. CASE ends \/ short = 0
  <2>1. got.lines = SubSeq(text, 1, short) /\ got.piece = 0
    BY <1>4 DEF Lines!Split
  <2>2. /\ got.lines \in Seq(S) /\ Once(got.lines)
        /\ \A n : Has(got.lines, n) <=> \E i \in 1 .. short : text[i] = n
    BY <2>1, FirstHas
  <2>3. \A n : Has(got.lines, n) => Has(text, n) /\ n # 0
    BY <1>2, <1>3, <2>2
  <2>4. \A i \in 1 .. short : Has(got.lines, text[i])
    BY <2>2
  <2> QED
    BY <2>1, <2>2, <2>3, <2>4
<1>5. CASE ~(ends \/ short = 0)
  <2>1. got.lines = SubSeq(text, 1, short - 1) /\ got.piece = text[short]
    BY <1>5 DEF Lines!Split
  <2>2. /\ short - 1 \in 0 .. l /\ short \in 1 .. l
        /\ \A i \in 1 .. short - 1 : i \in 1 .. l /\ i # short
        /\ \A i \in 1 .. short : i = short \/ i \in 1 .. short - 1
    BY <1>1, <1>5
  <2>3. PICK m \in Nat : m = short - 1 /\ m \in 0 .. Len(text)
    BY <1>1, <2>2
  <2>4. /\ got.lines \in Seq(S) /\ Once(got.lines)
        /\ \A n : Has(got.lines, n) <=> \E i \in 1 .. m : text[i] = n
    BY <2>1, <2>3, FirstHas
  <2>5. ~Has(got.lines, text[short])
    BY <1>1, <2>2, <2>3, <2>4 DEF Once
  <2> QED
    BY <1>2, <1>3, <2>1, <2>2, <2>3, <2>4, <2>5
<1> QED
  BY <1>4, <1>5

\* New lines get into the hands of a writer that had none, except the piece
\* and those that are lost.
Spoken(w, n, todo, piece, lost) ==
  /\ more[w] = Lines!Idle /\ past.lines + n <= LogLines
  /\ more' = [more EXCEPT ![w].todo = todo]
  /\ past' = [past EXCEPT !.lines = @ + n, !.piece = piece, !.lost = @ \cup lost]
  /\ UNCHANGED <<rows, work>>
  /\ Once(todo) /\ ~Has(todo, piece)
  /\ \A k : Has(todo, k) \/ (k = piece /\ k # 0)
       => (k = past.piece /\ k # 0) \/ k \in (past.lines + 1) .. (past.lines + n)
  /\ \A k : (k = past.piece /\ k # 0) \/ k \in (past.lines + 1) .. (past.lines + n)
       => Has(todo, k) \/ k = piece \/ k \in lost

\* A write of the log package is one of them.
LEMMA WriteIsSpoken ==
  ASSUME Lines!TypeOK, AccountInv, NEW n \in Nat, NEW ends \in BOOLEAN, Lines!Write(n, ends)
  PROVE  \E todo \in Seq(Numbers), piece \in 0 .. LogLines, lost \in SUBSET Numbers :
           Spoken(Lines!Log, n, todo, piece, lost)
<1>0. /\ past.lines \in Nat /\ past.piece \in Nat /\ past.piece <= past.lines
      /\ past.lines + n <= LogLines
  BY LineTypes DEF Pasts, AccountInv, Lines!Write
<1> DEFINE text == (IF past.piece = 0 THEN <<>> ELSE <<past.piece>>) \o Lines!New(n)
<1>a. PICK short \in 0 .. Len(text) :
        LET got == Lines!Split(text, ends, short) IN
        /\ more' = [more EXCEPT ![Lines!Log].todo = got.lines]
        /\ past' = [past EXCEPT !.lines = @ + n, !.piece = got.piece,
                                !.lost = @ \union {text[i] : i \in short + 1 .. Len(text)}]
  BY DEF Lines!Write
<1> DEFINE got == Lines!Split(text, ends, short)
           lost == {text[i] : i \in short + 1 .. Len(text)}
<1>1. /\ more[Lines!Log] = Lines!Idle /\ UNCHANGED <<rows, work>>
      /\ more' = [more EXCEPT ![Lines!Log].todo = got.lines]
      /\ past' = [past EXCEPT !.lines = @ + n, !.piece = got.piece, !.lost = @ \cup lost]
  BY <1>a DEF Lines!Write
<1>2. /\ text \in Seq(1 .. past.lines + n) /\ Once(text)
      /\ \A k : Has(text, k) <=> (k = past.piece /\ k # 0) \/ k \in (past.lines + 1) .. (past.lines + n)
  <2>1. text = Text(past.piece, past.lines, n)
    BY DEF Text, Lines!New
  <2> HIDE DEF text
  <2> QED
    BY <1>0, <2>1, TextFacts
<1>3. /\ Numbers \in SUBSET (Nat \ {0}) /\ 1 .. past.lines + n \subseteq Numbers
      /\ Numbers \cup {0} \subseteq 0 .. LogLines
  BY <1>0 DEF Numbers
<1> HIDE DEF text
<1>4. text \in Seq(Numbers)
  <2>1. text \in Seq(1 .. past.lines + n) /\ \A i \in 1 .. Len(text) : text[i] \in 1 .. past.lines + n
    BY <1>2, ElementOfSeq
  <2>2. \A i \in 1 .. Len(text) : text[i] \in Numbers
    BY <1>3, <2>1
  <2> QED
    BY <2>1, <2>2
<1>5. /\ got.lines \in Seq(Numbers) /\ got.piece \in Numbers \cup {0}
      /\ Once(got.lines) /\ ~Has(got.lines, got.piece)
      /\ \A k : Has(got.lines, k) \/ (k = got.piece /\ k # 0) => Has(text, k)
      /\ \A i \in 1 .. short : Has(got.lines, text[i]) \/ text[i] = got.piece
  <2> HIDE DEF got
  <2>1. got = Lines!Split(text, ends, short) /\ Once(text)
    BY <1>2 DEF got
  <2>2. Numbers \in SUBSET (Nat \ {0})
    BY <1>3
  <2> QED
    BY <1>4, <2>1, <2>2, SplitFacts
<1> HIDE DEF got
<1>6. lost \in SUBSET Numbers /\ \A k : Has(text, k) => Has(got.lines, k) \/ k = got.piece \/ k \in lost
  <2>1. PICK l \in Nat : l = Len(text) /\ short \in 0 .. l
    BY <1>4
  <2>2. /\ \A i \in short + 1 .. l : i \in 1 .. l
        /\ \A i \in 1 .. l : i \in 1 .. short \/ i \in short + 1 .. l
    BY <2>1
  <2>3. \A i \in 1 .. l : text[i] \in Numbers
    BY <1>4, <2>1
  <2> QED
    BY <1>5, <2>1, <2>2, <2>3 DEF Has
<1> HIDE DEF lost
<1>7. Spoken(Lines!Log, n, got.lines, got.piece, lost)
  BY <1>0, <1>1, <1>2, <1>5, <1>6 DEF Spoken
<1> QED
  BY <1>3, <1>5, <1>6, <1>7

\* So is a line that a goroutine logs itself.
LEMMA SayIsSpoken ==
  ASSUME Lines!TypeOK, AccountInv, NEW w \in Writers, Lines!Say(w)
  PROVE  \E todo \in Seq(Numbers), piece \in 0 .. LogLines : Spoken(w, 1, todo, piece, {})
<1>0. /\ past.lines \in Nat /\ past.piece \in 0 .. LogLines /\ past.piece <= past.lines
      /\ past.lines < LogLines /\ past \in Pasts
  BY LineTypes DEF Pasts, AccountInv, Lines!Say
<1> DEFINE todo == [i \in 1 .. 1 |-> past.lines + i]
<1>1. /\ more[w] = Lines!Idle /\ more' = [more EXCEPT ![w].todo = todo]
      /\ past' = [past EXCEPT !.lines = @ + 1] /\ UNCHANGED <<rows, work>>
  BY DEF Lines!Say, Lines!New
<1>2. /\ Len(todo) = 1 /\ todo[1] = past.lines + 1
      /\ past.lines + 1 \in Numbers /\ todo \in Seq(Numbers)
  BY <1>0 DEF Numbers
<1> HIDE DEF todo
<1>3. \A k : Has(todo, k) <=> k = past.lines + 1
  BY <1>2 DEF Has
<1>4. Once(todo)
  BY <1>2 DEF Once
<1>5. \A k : k \in (past.lines + 1) .. (past.lines + 1) <=> k = past.lines + 1
  BY <1>0
<1>6. past.lines + 1 # past.piece /\ past.lines + 1 # 0 /\ past.lines + 1 <= LogLines
  BY <1>0
<1>7. past' = [past EXCEPT !.lines = @ + 1, !.piece = past.piece, !.lost = @ \cup {}]
  BY <1>0, <1>1 DEF Pasts
<1>8. Spoken(w, 1, todo, past.piece, {})
  BY <1>1, <1>3, <1>4, <1>5, <1>6, <1>7 DEF Spoken
<1> QED
  BY <1>0, <1>2, <1>8

\* What a step with new lines does to the parts of the records.
LEMMA SpokenFacts ==
  ASSUME Lines!TypeOK, NEW w \in Lines!All, NEW n \in Nat, NEW todo \in Seq(Numbers),
         NEW piece \in 0 .. LogLines, NEW lost \in SUBSET Numbers, Spoken(w, n, todo, piece, lost)
  PROVE  /\ Lines!TypeOK'
         /\ more'[w] = [todo |-> todo, line |-> 0, file |-> 0]
         /\ \A v \in Lines!All : v # w => more'[v] = more[v]
         /\ past'.lines = past.lines + n /\ past'.piece = piece /\ past'.lost = past.lost \cup lost
         /\ past'.order = past.order /\ past'.files = past.files
         /\ past'.open = past.open /\ past'.excused = past.excused
<1>0. /\ rows \in Centers /\ work \in Seq(Numbers)
      /\ more \in [Lines!All -> WriterStates] /\ past \in Pasts
  BY LineTypes
<1>1. /\ more' = [more EXCEPT ![w] = [todo |-> todo, line |-> 0, file |-> 0]]
      /\ [todo |-> todo, line |-> 0, file |-> 0] \in WriterStates
  <2>1. more' = [more EXCEPT ![w] = [more[w] EXCEPT !.todo = todo]] /\ more[w] = Lines!Idle
    BY <1>0 DEF Spoken
  <2>2. [Lines!Idle EXCEPT !.todo = todo] = [todo |-> todo, line |-> 0, file |-> 0]
    BY DEF Lines!Idle
  <2>3. 0 \in 0 .. LogLines /\ 0 \in 0 .. MaxFiles
    OBVIOUS
  <2> QED
    BY <2>1, <2>2, <2>3 DEF WriterStates
<1>2. past.lines + n \in 0 .. LogLines
  <2>1. PICK k \in Nat : k = past.lines
    BY <1>0 DEF Pasts
  <2> QED
    BY <2>1 DEF Spoken
<1>3. past' = [lines |-> past.lines + n, piece |-> piece, order |-> past.order, lost |-> past.lost \cup lost,
               files |-> past.files, open |-> past.open, excused |-> past.excused]
  BY <1>0 DEF Spoken, Pasts
<1>4. past' \in Pasts
  BY <1>0, <1>2, <1>3 DEF Pasts
<1>5. more' \in [Lines!All -> WriterStates]
  BY <1>0, <1>1
<1>6. Lines!TypeOK'
  BY <1>0, <1>4, <1>5, LineTypes DEF Spoken, Lines!TypeOK, Centers, WriterStates, Pasts, Numbers
<1> QED
  BY <1>0, <1>1, <1>3, <1>6

\* What the ring keeps of its lines.
LEMMA NewestFacts ==
  ASSUME NEW S, NEW ring \in Seq(S), NEW max \in Nat
  PROVE  LET newest == Lines!Newest(ring, max)
         IN  /\ newest \in Seq(S) /\ Len(newest) <= Len(ring)
             /\ max <= Len(ring) => Len(newest) = max
             /\ \A i \in 1 .. Len(newest) : newest[i] = ring[Len(ring) - Len(newest) + i]
<1> DEFINE newest == Lines!Newest(ring, max)
<1>0. PICK m \in Nat : m = Len(ring)
  OBVIOUS
<1>1. CASE m > max
  <2>1. newest = SubSeq(ring, m - max + 1, m)
    BY <1>0, <1>1 DEF Lines!Newest
  <2>2. /\ m - max + 1 \in 1 .. m + 1 /\ m \in (m - max + 1) - 1 .. m
        /\ m - (m - max + 1) + 1 = max /\ max <= m
        /\ \A i \in 1 .. max : (m - max + 1) + i - 1 = m - max + i
    BY <1>1
  <2>3. /\ newest \in Seq(S) /\ Len(newest) = max
        /\ \A i \in 1 .. max : newest[i] = ring[m - max + i]
    BY <1>0, <2>1, <2>2, SubSeqProperties
  <2> QED
    BY <1>0, <2>2, <2>3
<1>2. CASE ~(m > max)
  <2>1. newest = ring
    BY <1>0, <1>2 DEF Lines!Newest
  <2>2. \A i \in 1 .. m : m - m + i = i
    OBVIOUS
  <2>3. max <= m => m = max
    BY <1>2
  <2>4. m <= m
    OBVIOUS
  <2> QED
    BY <1>0, <2>1, <2>2, <2>3, <2>4
<1> QED
  BY <1>1, <1>2

\* What the part of add under the lock does to the parts of the records.
LEMMA EnterFacts ==
  ASSUME Lines!TypeOK, NEW w \in Lines!All, Lines!Enter(w)
  PROVE  \E line \in Numbers :
           /\ more[w].todo # <<>> /\ line = Head(more[w].todo) /\ more[w].line = 0
           /\ Lines!TypeOK' /\ UNCHANGED work
           /\ more'[w] = [todo |-> Tail(more[w].todo), line |-> line, file |-> rows.file]
           /\ \A v \in Lines!All : v # w => more'[v] = more[v]
           /\ rows'.ring = Lines!Newest(Append(rows.ring, line), rows.max) /\ rows'.file = rows.file
           /\ past'.order = Append(past.order, line)
           /\ past'.excused = IF rows.file = 0 THEN past.excused \cup {line} ELSE past.excused
           /\ past'.lines = past.lines /\ past'.piece = past.piece /\ past'.lost = past.lost
           /\ past'.files = past.files /\ past'.open = past.open
<1>0. /\ rows \in Centers /\ work \in Seq(Numbers)
      /\ more \in [Lines!All -> WriterStates] /\ past \in Pasts
  BY LineTypes
<1> DEFINE line == Head(more[w].todo)
           state == [todo |-> Tail(more[w].todo), line |-> line, file |-> rows.file]
           ring == Lines!Newest(Append(rows.ring, line), rows.max)
<1>1. more[w].todo # <<>> /\ more[w].line = 0 /\ UNCHANGED work
  BY DEF Lines!Enter
<1>2. /\ rows' = [rows EXCEPT !.ring = ring]
      /\ more' = [more EXCEPT ![w] = state]
      /\ past' = [past EXCEPT !.order = Append(@, line),
                              !.excused = IF rows.file = 0 THEN @ \union {line} ELSE @]
  BY <1>0 DEF Lines!Enter, WriterStates
<1>3. /\ more[w].todo \in Seq(Numbers) /\ line \in Numbers /\ Tail(more[w].todo) \in Seq(Numbers)
  <2>1. more[w].todo \in Seq(Numbers)
    BY <1>0 DEF WriterStates
  <2> QED
    BY <1>1, <2>1, TailHas
<1>4. state \in WriterStates
  <2>1. line \in 0 .. LogLines /\ rows.file \in 0 .. MaxFiles
    BY <1>0, <1>3 DEF Numbers, Centers
  <2> QED
    BY <1>3, <2>1 DEF WriterStates
<1>5. ring \in Seq(Numbers) /\ Append(past.order, line) \in Seq(Numbers)
  <2>1. /\ rows.ring \in Seq(Numbers) /\ past.order \in Seq(Numbers)
        /\ rows.max \in Nat \ {0}
    BY <1>0 DEF Centers, Pasts
  <2>2. Append(rows.ring, line) \in Seq(Numbers) /\ Append(past.order, line) \in Seq(Numbers)
    BY <1>3, <2>1, AppendProperties
  <2> HIDE DEF line
  <2> QED
    BY <2>1, <2>2, NewestFacts
<1> DEFINE order == Append(past.order, line)
           spared == IF rows.file = 0 THEN past.excused \cup {line} ELSE past.excused
<1>6. spared \in SUBSET Numbers
  BY <1>0, <1>3 DEF Pasts
<1> HIDE DEF line, ring, state
<1>7. /\ rows' = [ring |-> ring, max |-> rows.max, file |-> rows.file] /\ rows' \in Centers
  BY <1>0, <1>2, <1>5 DEF Centers
<1>8. past' = [lines |-> past.lines, piece |-> past.piece, order |-> order, lost |-> past.lost, files |-> past.files,
               open |-> past.open, excused |-> spared]
  BY <1>0, <1>2 DEF Pasts
<1> HIDE DEF order, spared
<1>9. past' \in Pasts
  BY <1>0, <1>5, <1>6, <1>8 DEF Pasts, order
<1>10. more' \in [Lines!All -> WriterStates]
  BY <1>0, <1>2, <1>4
<1>11. Lines!TypeOK'
  BY <1>0, <1>1, <1>7, <1>9, <1>10 DEF Lines!TypeOK, Centers, WriterStates, Pasts, Numbers
<1>12. more'[w] = state /\ \A v \in Lines!All : v # w => more'[v] = more[v]
  BY <1>0, <1>2
<1> QED
  BY <1>1, <1>3, <1>7, <1>8, <1>11, <1>12 DEF line, ring, state, order, spared

\* A writer that has written its line.
LEMMA StoredState ==
  ASSUME NEW state \in WriterStates
  PROVE  /\ [[state EXCEPT !.line = 0] EXCEPT !.file = 0] = [todo |-> state.todo, line |-> 0, file |-> 0]
         /\ [todo |-> state.todo, line |-> 0, file |-> 0] \in WriterStates
<1>1. [state EXCEPT !.line = 0] = [todo |-> state.todo, line |-> 0, file |-> state.file]
  BY DEF WriterStates
<1> DEFINE one == [todo |-> state.todo, line |-> 0, file |-> state.file]
<1>2. [one EXCEPT !.file = 0] = [todo |-> state.todo, line |-> 0, file |-> 0]
  OBVIOUS
<1>3. 0 \in 0 .. LogLines /\ 0 \in 0 .. MaxFiles
  OBVIOUS
<1>4. [todo |-> state.todo, line |-> 0, file |-> 0] \in WriterStates
  BY <1>3 DEF WriterStates
<1> QED
  BY <1>1, <1>2, <1>4

\* What the write to the file does.
LEMMA StoreFacts ==
  ASSUME Lines!TypeOK, NEW w \in Lines!All, Lines!Store(w)
  PROVE  /\ more[w].line \in Numbers /\ Lines!TypeOK' /\ UNCHANGED rows
         /\ more'[w] = [todo |-> more[w].todo, line |-> 0, file |-> 0]
         /\ \A v \in Lines!All : v # w => more'[v] = more[v]
         /\ past'.order = past.order /\ past'.lines = past.lines /\ past'.piece = past.piece /\ past'.lost = past.lost
         /\ past'.files = past.files /\ past'.open = past.open
         /\ past.excused \subseteq past'.excused
         /\ \/ work' = Append(work, more[w].line)
            \/ work' = work /\ (more[w].line \in past'.excused \/ more[w].file \notin past.open)
<1>0. /\ rows \in Centers /\ work \in Seq(Numbers)
      /\ more \in [Lines!All -> WriterStates] /\ past \in Pasts
  BY LineTypes
<1> DEFINE line == more[w].line
           state == [todo |-> more[w].todo, line |-> 0, file |-> 0]
<1>1. line \in Numbers /\ UNCHANGED rows
  BY <1>0 DEF Lines!Store, WriterStates, Numbers
<1>2. more' = [more EXCEPT ![w] = state] /\ state \in WriterStates
  <2>1. more' = [more EXCEPT ![w] = [[more[w] EXCEPT !.line = 0] EXCEPT !.file = 0]]
    BY <1>0 DEF Lines!Store
  <2>2. more[w] \in WriterStates
    BY <1>0
  <2> QED
    BY <2>1, <2>2, StoredState
<1>3. \/ work' = Append(work, line) /\ past' = past
      \/ work' = work /\ past' = past /\ more[w].file \notin past.open
      \/ work' = work /\ past' = [past EXCEPT !.excused = @ \union {line}]
  BY DEF Lines!Store
<1>4. Append(work, line) \in Seq(Numbers)
  BY <1>0, <1>1, AppendProperties
<1> HIDE DEF line, state
<1>5. \/ work' = Append(work, line) /\ past' = past
      \/ work' = work /\ past' = past /\ more[w].file \notin past.open
      \/ /\ work' = work
         /\ past' = [lines |-> past.lines, piece |-> past.piece, order |-> past.order, lost |-> past.lost,
                     files |-> past.files, open |-> past.open, excused |-> past.excused \cup {line}]
  BY <1>0, <1>3 DEF Pasts
<1>6. past' \in Pasts /\ work' \in Seq(Numbers)
  <2>1. past.excused \cup {line} \in SUBSET Numbers
    BY <1>0, <1>1 DEF Pasts
  <2>2. [lines |-> past.lines, piece |-> past.piece, order |-> past.order, lost |-> past.lost, files |-> past.files,
         open |-> past.open, excused |-> past.excused \cup {line}] \in Pasts
    BY <1>0, <2>1 DEF Pasts
  <2> QED
    BY <1>0, <1>4, <1>5, <2>2
<1>7. more' \in [Lines!All -> WriterStates]
  BY <1>0, <1>2
<1>8. Lines!TypeOK'
  BY <1>0, <1>1, <1>6, <1>7 DEF Lines!TypeOK, Centers, WriterStates, Pasts, Numbers
<1>9. more'[w] = state /\ \A v \in Lines!All : v # w => more'[v] = more[v]
  BY <1>0, <1>2
<1>10. /\ past'.order = past.order /\ past'.lines = past.lines /\ past'.piece = past.piece /\ past'.lost = past.lost
       /\ past'.files = past.files /\ past'.open = past.open
       /\ past.excused \subseteq past'.excused
  BY <1>5
<1>11. \/ work' = Append(work, line)
       \/ work' = work /\ (line \in past'.excused \/ more[w].file \notin past.open)
  BY <1>5
<1> QED
  BY <1>1, <1>8, <1>9, <1>10, <1>11 DEF line, state

\* The file the ring's lock guards is open, and handles are used once.
HandlesInv == past.open \subseteq 1 .. past.files /\ (rows.file # 0 => rows.file \in past.open)

\* What Configure does: a writer whose file it closes is excused.
LEMMA ConfigureFacts ==
  ASSUME Lines!TypeOK, HandlesInv, Lines!Configure \/ \E max \in Sizes : Lines!Resize(max)
  PROVE  /\ Lines!TypeOK' /\ HandlesInv' /\ UNCHANGED <<work, more>> /\ rows'.ring = rows.ring
         /\ past'.order = past.order /\ past'.lines = past.lines /\ past'.piece = past.piece /\ past'.lost = past.lost
         /\ past.excused \subseteq past'.excused
         /\ \A w \in Lines!All :
              more[w].line # 0 /\ more[w].file \in past.open
                => more[w].file \in past'.open \/ more[w].line \in past'.excused
<1>0. /\ rows \in Centers /\ work \in Seq(Numbers)
      /\ more \in [Lines!All -> WriterStates] /\ past \in Pasts
  BY LineTypes
<1>1. ASSUME NEW max \in Sizes, Lines!Resize(max)
      PROVE  /\ UNCHANGED <<work, more, past>>
             /\ rows' = [ring |-> rows.ring, max |-> max, file |-> rows.file] /\ rows' \in Centers
  BY <1>0, <1>1 DEF Lines!Resize, Centers
<1>2. ASSUME past.files < MaxFiles,
             past' = [past EXCEPT !.files = @ + 1, !.open = @ \union {past.files + 1}],
             rows' = [rows EXCEPT !.file = past.files + 1], UNCHANGED <<work, more>>
      PROVE  /\ rows' \in Centers /\ past' \in Pasts /\ HandlesInv'
             /\ past.open \subseteq past'.open
             /\ rows'.ring = rows.ring /\ past'.order = past.order /\ past'.lines = past.lines
             /\ past'.piece = past.piece /\ past'.lost = past.lost /\ past'.excused = past.excused
  <2>1. PICK n \in Nat : n = past.files /\ past.open \subseteq 1 .. n
    BY <1>0 DEF Pasts, HandlesInv
  <2>2. n + 1 \in 0 .. MaxFiles /\ n + 1 \in 1 .. n + 1 /\ 1 .. n \subseteq 1 .. n + 1
    BY <1>2, <2>1
  <2>3. past.open \cup {n + 1} \in SUBSET (1 .. MaxFiles) /\ past.open \cup {n + 1} \subseteq 1 .. n + 1
    BY <1>0, <2>1, <2>2 DEF Pasts
  <2>4. past' = [lines |-> past.lines, piece |-> past.piece, order |-> past.order, lost |-> past.lost,
                 files |-> n + 1, open |-> past.open \cup {n + 1}, excused |-> past.excused]
    BY <1>0, <1>2, <2>1 DEF Pasts
  <2>5. rows' = [ring |-> rows.ring, max |-> rows.max, file |-> n + 1] /\ rows' \in Centers
    BY <1>0, <1>2, <2>1, <2>2 DEF Centers
  <2>6. past' \in Pasts
    BY <1>0, <2>2, <2>3, <2>4 DEF Pasts
  <2> QED
    BY <2>3, <2>4, <2>5, <2>6 DEF HandlesInv
<1>3. ASSUME NEW file \in past.open \ {rows.file},
             past' = [past EXCEPT !.open = @ \ {file}, !.excused = @ \union Lines!Under(file)],
             UNCHANGED <<rows, work, more>>
      PROVE  /\ past' \in Pasts /\ HandlesInv'
             /\ past'.order = past.order /\ past'.lines = past.lines /\ past'.piece = past.piece /\ past'.lost = past.lost
             /\ past.excused \subseteq past'.excused
             /\ \A w \in Lines!All : more[w].line # 0 /\ more[w].file \in past.open
                  => more[w].file \in past'.open \/ more[w].line \in past'.excused
  <2>1. Lines!Under(file) \subseteq Numbers
    BY <1>0 DEF Lines!Under, WriterStates, Numbers
  <2>2. past' = [lines |-> past.lines, piece |-> past.piece, order |-> past.order, lost |-> past.lost,
                 files |-> past.files, open |-> past.open \ {file},
                 excused |-> past.excused \cup Lines!Under(file)]
    BY <1>0, <1>3 DEF Pasts
  <2>3. past' \in Pasts
    BY <1>0, <2>1, <2>2 DEF Pasts
  <2>4. HandlesInv'
    BY <1>3, <2>2 DEF HandlesInv
  <2>5. ASSUME NEW w \in Lines!All, more[w].line # 0, more[w].file \in past.open
        PROVE  more[w].file \in past'.open \/ more[w].line \in past'.excused
    BY <2>2, <2>5 DEF Lines!Under
  <2> QED
    BY <2>2, <2>3, <2>4, <2>5
<1>4. ASSUME rows' \in Centers, past' \in Pasts, UNCHANGED <<work, more>> PROVE Lines!TypeOK'
  BY <1>0, <1>4 DEF Lines!TypeOK, Centers, WriterStates, Pasts, Numbers
<1>5. CASE \E max \in Sizes : Lines!Resize(max)
  BY <1>0, <1>1, <1>4, <1>5 DEF HandlesInv
<1>6. CASE Lines!Configure
  <2>1. CASE /\ past.files < MaxFiles /\ past.open \subseteq {rows.file}
             /\ past' = [past EXCEPT !.files = @ + 1, !.open = @ \union {past.files + 1}]
             /\ rows' = [rows EXCEPT !.file = past.files + 1]
             /\ UNCHANGED <<work, more>>
    BY <1>2, <1>4, <2>1
  <2>2. CASE \E file \in past.open \ {rows.file} :
               /\ past' = [past EXCEPT !.open = @ \ {file}, !.excused = @ \union Lines!Under(file)]
               /\ UNCHANGED <<rows, work, more>>
    BY <1>0, <1>3, <1>4, <2>2
  <2> QED
    BY <1>6, <2>1, <2>2 DEF Lines!Configure
<1> QED
  BY <1>5, <1>6

\* The ring has the last of the lines that were added, in their order.
RingInv ==
  /\ Len(rows.ring) <= Len(past.order)
  /\ \A i \in 1 .. Len(rows.ring) :
       rows.ring[i] = past.order[Len(past.order) - Len(rows.ring) + i]

\* A line that was added is in the file, or excused, or in the hands of one
\* writer, whose file is open unless the line is excused.
StoreInv ==
  /\ Once(work) /\ \A n \in Numbers : Has(work, n) => Has(past.order, n)
  /\ \A w \in Lines!All : more[w].line # 0 =>
       /\ Has(past.order, more[w].line) /\ ~Has(work, more[w].line)
       /\ more[w].file \in past.open \/ more[w].line \in past.excused
       /\ \A v \in Lines!All : more[v].line = more[w].line => v = w
  /\ \A n \in Numbers : Has(past.order, n) =>
       Has(work, n) \/ n \in past.excused \/ \E w \in Lines!All : more[w].line = n

LinesInv == Lines!TypeOK /\ AccountInv /\ RingInv /\ HandlesInv /\ StoreInv

\* The steps that add lines keep the account.
LEMMA SpokenKeeps ==
  ASSUME LinesInv, NEW w \in Lines!All, NEW n \in Nat, NEW todo \in Seq(Numbers),
         NEW piece \in 0 .. LogLines, NEW lost \in SUBSET Numbers, Spoken(w, n, todo, piece, lost)
  PROVE  LinesInv'
<1>0. Lines!TypeOK /\ AccountInv /\ RingInv /\ HandlesInv /\ StoreInv
  BY DEF LinesInv
<1>1. /\ Lines!TypeOK' /\ more'[w] = [todo |-> todo, line |-> 0, file |-> 0]
      /\ \A v \in Lines!All : v # w => more'[v] = more[v]
      /\ past'.lines = past.lines + n /\ past'.piece = piece /\ past'.lost = past.lost \cup lost
      /\ past'.order = past.order /\ past'.files = past.files
      /\ past'.open = past.open /\ past'.excused = past.excused
  BY <1>0, SpokenFacts
<1>2. /\ more[w].todo = <<>> /\ more[w].line = 0 /\ UNCHANGED <<rows, work>>
      /\ Once(todo) /\ ~Has(todo, piece)
      /\ \A k : Has(todo, k) \/ (k = piece /\ k # 0)
           => (k = past.piece /\ k # 0) \/ k \in (past.lines + 1) .. (past.lines + n)
      /\ \A k : (k = past.piece /\ k # 0) \/ k \in (past.lines + 1) .. (past.lines + n)
           => Has(todo, k) \/ k = piece \/ k \in lost
  BY DEF Spoken, Lines!Idle
<1>3. PICK last \in Nat : last = past.lines /\ past.piece \in 0 .. last
  BY <1>0, LineTypes DEF Pasts, AccountInv
<1>4. \A k : ~Has(<<>>, k)
  BY DEF Has
<1>5. \A k \in Numbers : (k = past.piece \/ k \in (last + 1) .. (last + n)) => k <= last + n
  BY <1>3 DEF Numbers
<1>6. \A k \in Numbers : k # 0 /\ (k <= last => k \notin (last + 1) .. (last + n) /\ k <= last + n)
  BY DEF Numbers
<1>7. AccountInv'
  <2>1. \A v \in Lines!All : more'[v].todo = IF v = w THEN todo ELSE more[v].todo
    BY <1>1
  <2>2. ASSUME NEW k \in Numbers, Has(past.order, k)
        PROVE  ~Has(todo, k) /\ k # piece /\ k <= last + n
    BY <1>0, <1>2, <1>3, <1>6, <2>2 DEF AccountInv
  <2>3. ASSUME NEW k \in Numbers, NEW v \in Lines!All, v # w, Has(more[v].todo, k)
        PROVE  ~Has(past.order, k) /\ ~Has(todo, k) /\ k # piece /\ k <= last + n
    BY <1>0, <1>2, <1>3, <1>6, <2>3 DEF AccountInv
  <2>4. ASSUME NEW k \in Numbers, Has(todo, k)
        PROVE  ~Has(past.order, k) /\ k # piece /\ k <= last + n
    BY <1>2, <1>3, <1>5, <2>2, <2>4
  <2>5. piece <= last + n
    <3>1. CASE piece = 0
      BY <3>1
    <3>2. CASE piece # 0
      BY <1>2, <1>3, <1>5, <3>2 DEF Numbers
    <3> QED
      BY <3>1, <3>2
  <2>6. ASSUME NEW k \in 1 .. last + n
        PROVE  \/ Has(past.order, k) \/ k = piece \/ k \in past.lost \cup lost
               \/ \E v \in Lines!All : Has(more'[v].todo, k)
    <3>1. CASE k <= last
      <4>1. k \in 1 .. past.lines /\ k # 0
        BY <1>3, <3>1
      <4>2. CASE Has(past.order, k)
        BY <4>2
      <4>3. CASE k = past.piece
        BY <1>2, <2>1, <4>1, <4>3
      <4>4. CASE \E v \in Lines!All : Has(more[v].todo, k)
        BY <1>2, <1>4, <2>1, <4>4
      <4>5. CASE k \in past.lost
        BY <4>5
      <4> QED
        BY <1>0, <4>1, <4>2, <4>3, <4>4, <4>5 DEF AccountInv
    <3>2. CASE ~(k <= last)
      <4>1. k \in (last + 1) .. (last + n)
        BY <3>2
      <4> QED
        BY <1>2, <1>3, <2>1, <4>1
    <3> QED
      BY <3>1, <3>2
  <2>7. Once(past.order) /\ \A v \in Lines!All : Once(more'[v].todo)
    BY <1>0, <1>2, <2>1 DEF AccountInv
  <2>8. \A k \in Numbers, v \in Lines!All :
          Has(more'[v].todo, k) => ~Has(past.order, k) /\ k # piece /\ k <= last + n
    BY <2>1, <2>3, <2>4
  <2>9. \A k \in Numbers, v, u \in Lines!All :
          Has(more'[v].todo, k) /\ Has(more'[u].todo, k) => v = u
    BY <1>0, <2>1, <2>3 DEF AccountInv
  <2>10. \A k \in Numbers : Has(past.order, k) => k # piece /\ k <= last + n
    BY <2>2
  <2> QED
    BY <1>1, <1>3, <2>5, <2>6, <2>7, <2>8, <2>9, <2>10 DEF AccountInv
<1>8. RingInv' /\ HandlesInv'
  <2>0. rows' = rows /\ past'.order = past.order
    BY <1>1, <1>2
  <2>1. RingInv'
    BY <1>0, <2>0 DEF RingInv
  <2>2. HandlesInv'
    BY <1>0, <1>1, <1>2 DEF HandlesInv
  <2> QED
    BY <2>1, <2>2
<1>9. StoreInv'
  <2>1. \A v \in Lines!All : more'[v].line = more[v].line /\ (v # w => more'[v].file = more[v].file)
    BY <1>1, <1>2
  <2>2. \A v \in Lines!All : more'[v].line # 0 => v # w
    BY <1>2, <2>1
  <2> QED
    BY <1>0, <1>1, <1>2, <2>1, <2>2 DEF StoreInv
<1> QED
  BY <1>1, <1>7, <1>8, <1>9 DEF LinesInv

\* So does the part of add under the lock, and the ring stays the newest.
LEMMA EnterKeeps == ASSUME LinesInv, NEW w \in Lines!All, Lines!Enter(w) PROVE LinesInv'
<1>0. Lines!TypeOK /\ AccountInv /\ RingInv /\ HandlesInv /\ StoreInv
  BY DEF LinesInv
<1>1. PICK line \in Numbers :
        /\ more[w].todo # <<>> /\ line = Head(more[w].todo) /\ more[w].line = 0
        /\ Lines!TypeOK' /\ UNCHANGED work
        /\ more'[w] = [todo |-> Tail(more[w].todo), line |-> line, file |-> rows.file]
        /\ \A v \in Lines!All : v # w => more'[v] = more[v]
        /\ rows'.ring = Lines!Newest(Append(rows.ring, line), rows.max) /\ rows'.file = rows.file
        /\ past'.order = Append(past.order, line)
        /\ past'.excused = IF rows.file = 0 THEN past.excused \cup {line} ELSE past.excused
        /\ past'.lines = past.lines /\ past'.piece = past.piece /\ past'.lost = past.lost
        /\ past'.files = past.files /\ past'.open = past.open
  BY <1>0, EnterFacts
<1>2. /\ more[w].todo \in Seq(Numbers) /\ rows.ring \in Seq(Numbers) /\ past.order \in Seq(Numbers)
      /\ rows.max \in Nat \ {0}
  BY <1>0, LineTypes DEF WriterStates, Centers, Pasts
<1>3. /\ \A k : Has(more[w].todo, k) <=> k = line \/ Has(Tail(more[w].todo), k)
      /\ Once(more[w].todo) => Once(Tail(more[w].todo)) /\ ~Has(Tail(more[w].todo), line)
  BY <1>1, <1>2, TailHas
<1>4. /\ \A k : Has(past'.order, k) <=> Has(past.order, k) \/ k = line
      /\ Once(past.order) /\ ~Has(past.order, line) => Once(past'.order)
  BY <1>1, <1>2, AppendHas
<1>5. \A v \in Lines!All : more'[v].todo = IF v = w THEN Tail(more[w].todo) ELSE more[v].todo
  <2>1. more'[w].todo = Tail(more[w].todo)
    BY <1>1
  <2> QED
    BY <1>1, <2>1
<1>6. /\ Has(more[w].todo, line) /\ ~Has(past.order, line) /\ line # past.piece /\ line <= past.lines
      /\ \A v \in Lines!All : v # w => ~Has(more[v].todo, line)
  BY <1>0, <1>3 DEF AccountInv
<1>7. AccountInv'
  <2>1. Once(past'.order) /\ \A v \in Lines!All : Once(more'[v].todo)
    BY <1>0, <1>3, <1>4, <1>5, <1>6 DEF AccountInv
  <2>2. ASSUME NEW k \in Numbers, NEW v \in Lines!All, Has(more'[v].todo, k)
        PROVE  Has(more[v].todo, k) /\ k # line
    BY <1>0, <1>3, <1>5, <1>6, <2>2 DEF AccountInv
  <2>3. \A k \in Numbers, v \in Lines!All :
          Has(more'[v].todo, k) => ~Has(past'.order, k) /\ k # past'.piece /\ k <= past'.lines
    BY <1>0, <1>1, <1>4, <2>2 DEF AccountInv
  <2>4. \A k \in Numbers, v, u \in Lines!All :
          Has(more'[v].todo, k) /\ Has(more'[u].todo, k) => v = u
    BY <1>0, <2>2 DEF AccountInv
  <2>5. \A k \in Numbers : Has(past'.order, k) => k # past'.piece /\ k <= past'.lines
    BY <1>0, <1>1, <1>4, <1>6 DEF AccountInv
  <2>6. ASSUME NEW k \in 1 .. past'.lines
        PROVE  \/ Has(past'.order, k) \/ k = past'.piece \/ k \in past'.lost
               \/ \E v \in Lines!All : Has(more'[v].todo, k)
    BY <1>0, <1>1, <1>3, <1>4, <1>5 DEF AccountInv
  <2>7. past'.piece <= past'.lines
    BY <1>0, <1>1 DEF AccountInv
  <2> QED
    BY <2>1, <2>3, <2>4, <2>5, <2>6, <2>7 DEF AccountInv
<1>8. RingInv'
  <2> DEFINE ring == Append(rows.ring, line)
             shown == Lines!Newest(ring, rows.max)
  <2>a. PICK m \in Nat, l \in Nat : m = Len(rows.ring) /\ l = Len(past.order)
    BY <1>2
  <2>b. m <= l /\ \A i \in 1 .. m : rows.ring[i] = past.order[l - m + i]
    BY <1>0, <2>a DEF RingInv
  <2>c. PICK d \in Nat : d = l - m /\ l = d + m
    BY <2>b, Difference
  <2>1. /\ m = Len(rows.ring) /\ Len(past.order) = d + m
        /\ \A i \in 1 .. m : rows.ring[i] = past.order[d + i]
    <3>1. m = Len(rows.ring) /\ Len(past.order) = d + m
      BY <2>a, <2>c
    <3>2. \A i \in 1 .. m : rows.ring[i] = past.order[d + i]
      BY <2>b, <2>c
    <3> QED
      BY <3>1, <3>2
  <2>2. /\ ring \in Seq(Numbers) /\ Len(ring) = m + 1 /\ ring[m + 1] = line
        /\ \A i \in 1 .. m : ring[i] = rows.ring[i]
    BY <1>2, <2>1, AppendProperties
  <2>3. /\ Len(past'.order) = d + m + 1 /\ past'.order[d + m + 1] = line
        /\ \A i \in 1 .. d + m : past'.order[i] = past.order[i]
    <3>1. PICK order \in Seq(Numbers) : order = past.order /\ Len(order) = d + m
      BY <1>2, <2>1
    <3>2. past'.order = Append(order, line)
      BY <1>1, <3>1
    <3> QED
      BY <1>2, <3>1, <3>2, AppendProperties
  <2> HIDE DEF ring
  <2>4. \A i \in 1 .. m + 1 : ring[i] = past'.order[d + i]
    <3> SUFFICES ASSUME NEW i \in 1 .. m + 1 PROVE ring[i] = past'.order[d + i]
      OBVIOUS
    <3>1. CASE i = m + 1
      <4>1. d + i = d + m + 1
        BY <3>1
      <4> QED
        BY <2>2, <2>3, <3>1, <4>1
    <3>2. CASE i # m + 1
      <4>1. i \in 1 .. m /\ d + i \in 1 .. d + m
        BY <3>2
      <4> QED
        BY <2>1, <2>2, <2>3, <4>1
    <3> QED
      BY <3>1, <3>2
  <2>5. /\ shown \in Seq(Numbers) /\ Len(shown) <= m + 1
        /\ \A i \in 1 .. Len(shown) : shown[i] = ring[(m + 1) - Len(shown) + i]
    <3>1. PICK r \in Seq(Numbers), max \in Nat : r = ring /\ max = rows.max
      BY <1>2, <2>2
    <3>2. Lines!Newest(r, max) \in Seq(Numbers)
      BY NewestFacts
    <3>3. Len(Lines!Newest(r, max)) <= Len(r)
      BY NewestFacts
    <3>4. \A i \in 1 .. Len(Lines!Newest(r, max)) :
            Lines!Newest(r, max)[i] = r[Len(r) - Len(Lines!Newest(r, max)) + i]
      BY NewestFacts
    <3> QED
      BY <2>2, <3>1, <3>2, <3>3, <3>4
  <2>6. rows'.ring = shown
    BY <1>1 DEF ring
  <2> HIDE DEF shown
  <2>7. PICK k \in Nat : k = Len(shown) /\ k <= m + 1
    BY <2>5
  <2>8. k <= d + m + 1
    BY <2>7
  <2>9. ASSUME NEW i \in 1 .. k PROVE shown[i] = past'.order[(d + m + 1) - k + i]
    <3>1. (m + 1) - k + i \in 1 .. m + 1 /\ d + ((m + 1) - k + i) = (d + m + 1) - k + i
      BY <2>7
    <3> QED
      BY <2>4, <2>5, <2>7, <3>1
  <2> QED
    BY <2>3, <2>6, <2>7, <2>8, <2>9 DEF RingInv
<1>9. HandlesInv'
  BY <1>0, <1>1 DEF HandlesInv
<1>10. StoreInv'
  <2>1. ~Has(work, line)
    BY <1>0, <1>6 DEF StoreInv
  <2>2. \A v \in Lines!All : v # w => more[v].line # line
    BY <1>0, <1>6 DEF StoreInv, Numbers
  <2>3. /\ more'[w].line = line /\ more'[w].file = rows.file
        /\ \A v \in Lines!All : v # w => more'[v].line = more[v].line /\ more'[v].file = more[v].file
    BY <1>1
  <2>4. rows.file \in past.open \/ line \in past'.excused
    BY <1>0, <1>1 DEF HandlesInv
  <2>5. past.excused \subseteq past'.excused
    BY <1>1
  <2>6. Once(work') /\ \A k \in Numbers : Has(work', k) => Has(past'.order, k)
    BY <1>0, <1>1, <1>4 DEF StoreInv
  <2>7. ASSUME NEW v \in Lines!All, more'[v].line # 0
        PROVE  /\ Has(past'.order, more'[v].line) /\ ~Has(work', more'[v].line)
               /\ more'[v].file \in past'.open \/ more'[v].line \in past'.excused
               /\ \A u \in Lines!All : more'[u].line = more'[v].line => u = v
    <3>1. CASE v = w
      BY <1>1, <1>4, <2>1, <2>2, <2>3, <2>4, <3>1
    <3>2. CASE v # w
      BY <1>0, <1>1, <1>4, <2>2, <2>3, <2>5, <2>7, <3>2 DEF StoreInv
    <3> QED
      BY <3>1, <3>2
  <2>8. ASSUME NEW k \in Numbers, Has(past'.order, k)
        PROVE  Has(work', k) \/ k \in past'.excused \/ \E v \in Lines!All : more'[v].line = k
    <3>1. CASE k = line
      BY <2>3, <3>1
    <3>2. CASE k # line
      <4>1. Has(work, k) \/ k \in past.excused \/ \E v \in Lines!All : more[v].line = k
        BY <1>0, <1>4, <2>8, <3>2 DEF StoreInv
      <4>2. ASSUME NEW v \in Lines!All, more[v].line = k PROVE more'[v].line = k
        BY <1>1, <2>3, <4>2 DEF Numbers
      <4> QED
        BY <1>1, <2>5, <4>1, <4>2
    <3> QED
      BY <3>1, <3>2
  <2> QED
    BY <2>6, <2>7, <2>8 DEF StoreInv
<1> QED
  BY <1>1, <1>7, <1>8, <1>9, <1>10 DEF LinesInv

\* So does the write to the file.
LEMMA StoreKeeps == ASSUME LinesInv, NEW w \in Lines!All, Lines!Store(w) PROVE LinesInv'
<1>0. Lines!TypeOK /\ AccountInv /\ RingInv /\ HandlesInv /\ StoreInv
  BY DEF LinesInv
<1> DEFINE line == more[w].line
<1>1. /\ line \in Numbers /\ Lines!TypeOK' /\ UNCHANGED rows
      /\ more'[w] = [todo |-> more[w].todo, line |-> 0, file |-> 0]
      /\ \A v \in Lines!All : v # w => more'[v] = more[v]
      /\ past'.order = past.order /\ past'.lines = past.lines /\ past'.piece = past.piece /\ past'.lost = past.lost
      /\ past'.files = past.files /\ past'.open = past.open
      /\ past.excused \subseteq past'.excused
      /\ \/ work' = Append(work, line)
         \/ work' = work /\ (line \in past'.excused \/ more[w].file \notin past.open)
  BY <1>0, StoreFacts
<1>2. AccountInv' /\ RingInv' /\ HandlesInv'
  <2>1. \A v \in Lines!All : more'[v].todo = more[v].todo
    BY <1>1
  <2>2. AccountInv'
    BY <1>0, <1>1, <2>1 DEF AccountInv
  <2> QED
    BY <1>0, <1>1, <2>2 DEF RingInv, HandlesInv
<1>3. StoreInv'
  <2>1. /\ line # 0 /\ Has(past.order, line) /\ ~Has(work, line)
        /\ more[w].file \in past.open \/ line \in past.excused
        /\ \A v \in Lines!All : more[v].line = line => v = w
    BY <1>0, <1>1 DEF StoreInv, Numbers
  <2>2. work \in Seq(Numbers)
    BY <1>0, LineTypes
  <2>3. /\ Once(work')
        /\ \A k \in Numbers : Has(work', k) => Has(work, k) \/ k = line
        /\ \A k \in Numbers : Has(work, k) => Has(work', k)
        /\ Has(work', line) \/ line \in past'.excused
    <3>1. CASE work' = Append(work, line)
      BY <1>0, <1>1, <2>1, <2>2, <3>1, AppendHas DEF StoreInv
    <3>2. CASE work' = work /\ (line \in past'.excused \/ more[w].file \notin past.open)
      BY <1>0, <1>1, <2>1, <3>2 DEF StoreInv
    <3> QED
      BY <1>1, <3>1, <3>2
  <2>4. \A v \in Lines!All : /\ v # w => more'[v].line = more[v].line /\ more'[v].file = more[v].file
                             /\ v = w => more'[v].line = 0
    BY <1>1
  <2>5. \A v \in Lines!All : more[v].line \in 0 .. LogLines
    BY <1>0, LineTypes DEF WriterStates
  <2> HIDE DEF line
  <2>6. \A k \in Numbers : Has(work', k) => Has(past'.order, k)
    BY <1>0, <1>1, <2>1, <2>3 DEF StoreInv
  <2>7. ASSUME NEW v \in Lines!All, more'[v].line # 0
        PROVE  /\ Has(past'.order, more'[v].line) /\ ~Has(work', more'[v].line)
               /\ more'[v].file \in past'.open \/ more'[v].line \in past'.excused
               /\ \A u \in Lines!All : more'[u].line = more'[v].line => u = v
    <3>1. /\ v # w /\ more'[v].line = more[v].line /\ more'[v].file = more[v].file
          /\ more[v].line # 0 /\ more[v].line \in Numbers /\ more[v].line # line
      <4>1. v # w
        BY <2>4, <2>7
      <4>2. more'[v].line = more[v].line /\ more'[v].file = more[v].file /\ more[v].line # line
        BY <2>1, <2>4, <4>1
      <4>3. more[v].line \in Numbers
        BY <2>5, <2>7, <4>2 DEF Numbers
      <4> QED
        BY <2>7, <4>1, <4>2, <4>3
    <3>2. /\ Has(past.order, more[v].line) /\ ~Has(work, more[v].line)
          /\ more[v].file \in past.open \/ more[v].line \in past.excused
          /\ \A u \in Lines!All : more[u].line = more[v].line => u = v
      BY <1>0, <3>1 DEF StoreInv
    <3> QED
      BY <1>1, <2>3, <2>4, <3>1, <3>2
  <2>8. ASSUME NEW k \in Numbers, Has(past'.order, k)
        PROVE  Has(work', k) \/ k \in past'.excused \/ \E v \in Lines!All : more'[v].line = k
    <3>1. CASE k = line
      BY <2>3, <3>1
    <3>2. CASE k # line
      <4>1. Has(work, k) \/ k \in past.excused \/ \E v \in Lines!All : more[v].line = k
        BY <1>0, <1>1, <2>8 DEF StoreInv
      <4>2. ASSUME NEW v \in Lines!All, more[v].line = k PROVE more'[v].line = k
        BY <2>4, <3>2, <4>2 DEF line
      <4> QED
        BY <1>1, <2>3, <4>1, <4>2
    <3> QED
      BY <3>1, <3>2
  <2> QED
    BY <2>3, <2>6, <2>7, <2>8 DEF StoreInv
<1> QED
  BY <1>1, <1>2, <1>3 DEF LinesInv

\* So does Configure.
LEMMA ConfigureKeeps ==
  ASSUME LinesInv, Lines!Configure \/ \E max \in Sizes : Lines!Resize(max)
  PROVE  LinesInv'
<1>0. Lines!TypeOK /\ AccountInv /\ RingInv /\ HandlesInv /\ StoreInv
  BY DEF LinesInv
<1>1. /\ Lines!TypeOK' /\ HandlesInv' /\ UNCHANGED <<work, more>> /\ rows'.ring = rows.ring
      /\ past'.order = past.order /\ past'.lines = past.lines /\ past'.piece = past.piece /\ past'.lost = past.lost
      /\ past.excused \subseteq past'.excused
      /\ \A w \in Lines!All :
           more[w].line # 0 /\ more[w].file \in past.open
             => more[w].file \in past'.open \/ more[w].line \in past'.excused
  BY <1>0, ConfigureFacts
<1>2. AccountInv' /\ RingInv'
  BY <1>0, <1>1 DEF AccountInv, RingInv
<1>3. StoreInv'
  <2>1. ASSUME NEW w \in Lines!All, more[w].line # 0
        PROVE  /\ Has(past.order, more[w].line) /\ ~Has(work, more[w].line)
               /\ more[w].file \in past'.open \/ more[w].line \in past'.excused
               /\ \A v \in Lines!All : more[v].line = more[w].line => v = w
    BY <1>0, <1>1, <2>1 DEF StoreInv
  <2>2. \A n \in Numbers : Has(past.order, n) =>
          Has(work, n) \/ n \in past'.excused \/ \E w \in Lines!All : more[w].line = n
    BY <1>0, <1>1 DEF StoreInv
  <2>3. Once(work) /\ \A n \in Numbers : Has(work, n) => Has(past.order, n)
    BY <1>0 DEF StoreInv
  <2> QED
    BY <1>1, <2>1, <2>2, <2>3 DEF StoreInv
<1> QED
  BY <1>1, <1>2, <1>3 DEF LinesInv

\* LinesInv is inductive.
LEMMA LinesSafe == Lines!Spec => []LinesInv
<1>1. Lines!Init => LinesInv
  <2> SUFFICES ASSUME Lines!Init PROVE LinesInv
    OBVIOUS
  <2>1. /\ <<>> \in Seq(Numbers) /\ Len(<<>>) = 0 /\ \A k : ~Has(<<>>, k)
        /\ \A i : i \notin 1 .. 0
    BY DEF Has
  <2>2. /\ rows \in [ring : {<<>>}, max : Sizes, file : {0}] /\ work = <<>>
        /\ more = [w \in Lines!All |-> Lines!Idle]
        /\ past = [lines |-> 0, piece |-> 0, order |-> <<>>, lost |-> {}, files |-> 0, open |-> {}, excused |-> {}]
    BY DEF Lines!Init
  <2>3. rows \in Centers /\ rows.ring = <<>> /\ rows.file = 0
    <3>1. PICK max \in Sizes : rows = [ring |-> <<>>, max |-> max, file |-> 0]
      BY <2>2
    <3>2. 0 \in 0 .. MaxFiles
      OBVIOUS
    <3> QED
      BY <2>1, <3>1, <3>2 DEF Centers
  <2>4. Lines!Idle \in WriterStates /\ Lines!Idle.todo = <<>> /\ Lines!Idle.line = 0
    BY <2>1 DEF WriterStates, Lines!Idle
  <2>5. past \in Pasts
    BY <2>1, <2>2 DEF Pasts
  <2>6. Lines!TypeOK
    BY <2>1, <2>2, <2>3, <2>4, <2>5, LineTypes
  <2>7. Once(<<>>)
    BY <2>1 DEF Once
  <2>8. /\ past.order = <<>> /\ past.lines = 0 /\ past.piece = 0 /\ past.open = {}
        /\ \A w \in Lines!All : more[w].todo = <<>> /\ more[w].line = 0
    BY <2>2, <2>4
  <2>9. AccountInv
    BY <2>1, <2>7, <2>8 DEF AccountInv
  <2>10. RingInv /\ HandlesInv
    BY <2>1, <2>3, <2>8 DEF RingInv, HandlesInv
  <2>11. StoreInv
    BY <2>1, <2>2, <2>7, <2>8 DEF StoreInv
  <2> QED
    BY <2>6, <2>9, <2>10, <2>11 DEF LinesInv
<1>2. LinesInv /\ [Lines!Next]_(Lines!vars) => LinesInv'
  <2> SUFFICES ASSUME LinesInv, [Lines!Next]_(Lines!vars) PROVE LinesInv'
    OBVIOUS
  <2>0. Lines!TypeOK /\ AccountInv /\ Lines!Log \in Lines!All /\ Writers \subseteq Lines!All
    BY DEF LinesInv, Lines!All
  <2>1. ASSUME NEW n \in 0 .. 2, NEW ends \in BOOLEAN, Lines!Write(n, ends) PROVE LinesInv'
    <3>1. n \in Nat
      OBVIOUS
    <3>2. PICK todo \in Seq(Numbers), piece \in 0 .. LogLines, lost \in SUBSET Numbers :
            Spoken(Lines!Log, n, todo, piece, lost)
      BY <2>0, <2>1, <3>1, WriteIsSpoken
    <3> QED
      BY <2>0, <3>1, <3>2, SpokenKeeps
  <2>2. ASSUME NEW w \in Writers, Lines!Say(w) PROVE LinesInv'
    <3>1. PICK todo \in Seq(Numbers), piece \in 0 .. LogLines : Spoken(w, 1, todo, piece, {})
      BY <2>0, <2>2, SayIsSpoken
    <3>2. w \in Lines!All /\ 1 \in Nat
      BY <2>0
    <3> QED
      BY <3>1, <3>2, SpokenKeeps
  <2>3. CASE UNCHANGED Lines!vars
    <3>1. UNCHANGED <<rows, work, more, past>>
      BY <2>3 DEF Lines!vars
    <3>2. AccountInv' /\ RingInv' /\ HandlesInv' /\ StoreInv'
      BY <3>1 DEF LinesInv, AccountInv, RingInv, HandlesInv, StoreInv
    <3>3. Lines!TypeOK'
      BY <2>0, <3>1 DEF Lines!TypeOK
    <3> QED
      BY <3>2, <3>3 DEF LinesInv
  <2> QED
    BY <2>1, <2>2, <2>3, EnterKeeps, StoreKeeps, ConfigureKeeps DEF Lines!Next
<1> QED
  BY <1>1, <1>2, PTL DEF Lines!Spec

\* The page lists the newest lines, and a line that was added is in the file.
LEMMA LinesKept == LinesInv => Lines!RingIsNewest /\ Lines!LinesReachTheFile
<1> SUFFICES ASSUME LinesInv PROVE Lines!RingIsNewest /\ Lines!LinesReachTheFile
  OBVIOUS
<1>0. /\ AccountInv /\ RingInv /\ StoreInv
      /\ rows.ring \in Seq(Numbers) /\ past.order \in Seq(Numbers) /\ work \in Seq(Numbers)
      /\ past.lines \in 0 .. LogLines /\ past.piece \in 0 .. LogLines
  BY LineTypes DEF LinesInv, Centers, Pasts
<1>1. rows.ring = Lines!Newest(past.order, Len(rows.ring))
  <2>1. PICK m \in Nat : m = Len(rows.ring) /\ m <= Len(past.order)
    BY <1>0 DEF RingInv
  <2> DEFINE newest == Lines!Newest(past.order, m)
  <2>2. /\ newest \in Seq(Numbers) /\ Len(newest) = m
        /\ \A i \in 1 .. m : newest[i] = past.order[Len(past.order) - m + i]
    <3>1. PICK r \in Seq(Numbers) : r = past.order
      BY <1>0
    <3>2. Lines!Newest(r, m) \in Seq(Numbers)
      BY NewestFacts
    <3>3. m <= Len(r) => Len(Lines!Newest(r, m)) = m
      BY NewestFacts
    <3>4. \A i \in 1 .. Len(Lines!Newest(r, m)) :
            Lines!Newest(r, m)[i] = r[Len(r) - Len(Lines!Newest(r, m)) + i]
      BY NewestFacts
    <3> QED
      BY <2>1, <3>1, <3>2, <3>3, <3>4
  <2> HIDE DEF newest
  <2>3. \A i \in 1 .. m : rows.ring[i] = newest[i]
    BY <1>0, <2>1, <2>2 DEF RingInv
  <2>4. rows.ring = newest
    BY <1>0, <2>1, <2>2, <2>3, SeqEqual
  <2> QED
    BY <2>1, <2>4 DEF newest
<1>2. Lines!IsInjective(past.order) /\ Lines!IsInjective(work)
  <2>1. Once(past.order) /\ Once(work)
    BY <1>0 DEF AccountInv, StoreInv
  <2>2. DOMAIN past.order = 1 .. Len(past.order) /\ DOMAIN work = 1 .. Len(work)
    BY <1>0
  <2> QED
    BY <2>1, <2>2 DEF Once, Lines!IsInjective
<1>3. ASSUME \A w \in Lines!All : more[w] = Lines!Idle, NEW n \in 1 .. past.lines
      PROVE  n \in Lines!Range(past.order) \/ n = past.piece \/ n \in past.lost
  <2>1. \A w \in Lines!All : ~Has(more[w].todo, n)
    BY <1>3 DEF Lines!Idle, Has
  <2>2. Has(past.order, n) => n \in Lines!Range(past.order)
    BY <1>0 DEF Has, Lines!Range
  <2> QED
    BY <1>0, <2>1, <2>2 DEF AccountInv
<1>4. ASSUME NEW i \in DOMAIN past.order
      PROVE  \/ past.order[i] \in Lines!Range(work) \/ past.order[i] \in past.excused
             \/ \E w \in Lines!All : more[w].line = past.order[i]
  <2>1. past.order[i] \in Numbers /\ Has(past.order, past.order[i])
    BY <1>0 DEF Has
  <2>2. Has(work, past.order[i]) => past.order[i] \in Lines!Range(work)
    BY <1>0 DEF Has, Lines!Range
  <2> QED
    BY <1>0, <2>1, <2>2 DEF StoreInv
<1> QED
  BY <1>1, <1>2, <1>3, <1>4 DEF Lines!RingIsNewest, Lines!LinesReachTheFile

-----------------------------------------------------------------------------
(* The rows of jobs.  Here more is the archives of the backups.            *)

\* The steps of the goroutine of a job that leave the rows alone.
Works(j) == Rows!RunScript(j) \/ Rows!RunCommand(j) \/ Rows!Create(j) \/ Rows!Pack(j) \/ Rows!Close(j)

\* The row of an id that is not used.
LEMMA UnusedRow == Rows!NoRow \in Rows!Row /\ Rows!NoRow.status = "none"
BY DEF Rows!NoRow, Rows!Row, Rows!Kinds

\* What a row gets when its job has ended.
LEMMA FinishedRow ==
  ASSUME NEW row \in Rows!Row, NEW status \in {"success", "failed"}
  PROVE  /\ [row EXCEPT !.status = status] \in Rows!Row
         /\ [row EXCEPT !.status = status].status = status
         /\ [row EXCEPT !.status = status].kind = row.kind
         /\ [row EXCEPT !.status = status].name = row.name
         /\ [row EXCEPT !.status = status].second = row.second
BY DEF Rows!Row

\* What the end of a job does to the rows and the goroutines.
LEMMA FinishChanges ==
  ASSUME Rows!TypeOK, NEW j \in Jobs, Rows!Finish(j)
  PROVE  /\ work[j] \in {"good", "bad"}
         /\ work' = [work EXCEPT ![j] = "none"] /\ UNCHANGED more
         /\ \/ rows' = rows /\ past' = [past EXCEPT !.orphans = @ \union {j}]
            \/ /\ UNCHANGED past
               /\ \E row \in Rows!Row :
                    /\ rows' = [rows EXCEPT ![j] = row]
                    /\ row.status = Rows!StatusOf(work[j]) /\ row.kind = rows[j].kind
                    /\ row.name = rows[j].name /\ row.second = rows[j].second
<1>1. rows[j] \in Rows!Row /\ Rows!StatusOf(work[j]) \in {"success", "failed"}
  BY DEF Rows!TypeOK, Rows!StatusOf
<1> DEFINE row == [rows[j] EXCEPT !.status = Rows!StatusOf(work[j])]
<1>2. /\ row \in Rows!Row /\ row.status = Rows!StatusOf(work[j]) /\ row.kind = rows[j].kind
      /\ row.name = rows[j].name /\ row.second = rows[j].second
  <2>1. PICK old \in Rows!Row, status \in {"success", "failed"} :
          old = rows[j] /\ status = Rows!StatusOf(work[j])
    BY <1>1
  <2>2. row = [old EXCEPT !.status = status]
    BY <2>1
  <2> HIDE DEF row
  <2>3. row \in Rows!Row /\ row.status = status
    BY <2>2, FinishedRow
  <2>4. row.kind = old.kind /\ row.name = old.name /\ row.second = old.second
    BY <2>2, FinishedRow
  <2> QED
    BY <2>1, <2>3, <2>4
<1>3. /\ work[j] \in {"good", "bad"} /\ work' = [work EXCEPT ![j] = "none"] /\ UNCHANGED more
      /\ \/ rows' = rows /\ past' = [past EXCEPT !.orphans = @ \union {j}]
         \/ UNCHANGED past /\ rows' = [rows EXCEPT ![j] = row]
  BY DEF Rows!Finish, Rows!RowOf
<1> HIDE DEF row
<1> QED
  BY <1>2, <1>3

\* The row a job starts with.
LEMMA StartedRow ==
  ASSUME Rows!TypeOK, NEW kind \in Rows!Kinds, NEW name \in Names, Rows!Start(kind, name)
  PROVE  \E j \in Jobs, row \in Rows!Row :
           /\ rows[j].status = "none" /\ rows' = [rows EXCEPT ![j] = row]
           /\ row.status = "running" /\ row.kind = kind /\ row.name = name
           /\ work' = [work EXCEPT ![j] = "made"] /\ UNCHANGED <<more, past>>
<1> DEFINE row == [status |-> "running", kind |-> kind, name |-> name, second |-> past.second]
<1>1. past.second \in 0 .. MaxSecond
  BY DEF Rows!TypeOK
<1>2. row \in Rows!Row
  BY <1>1 DEF Rows!Row
<1> QED
  BY <1>2 DEF Rows!Start

\* The variables keep their types.
LEMMA RowTypes == Rows!Spec => []Rows!TypeOK
<1>1. Rows!Init => Rows!TypeOK
  BY UnusedRow DEF Rows!Init, Rows!TypeOK
<1>2. Rows!TypeOK /\ [Rows!Next]_(Rows!vars) => Rows!TypeOK'
  <2> SUFFICES ASSUME Rows!TypeOK, [Rows!Next]_(Rows!vars) PROVE Rows!TypeOK'
    OBVIOUS
  <2>1. ASSUME NEW kind \in Rows!Kinds, NEW name \in Names, Rows!Start(kind, name)
        PROVE  Rows!TypeOK'
    BY <2>1, StartedRow DEF Rows!TypeOK
  <2>2. ASSUME NEW j \in Jobs, Works(j) PROVE Rows!TypeOK'
    <3>1. UNCHANGED <<rows, past>>
      BY <2>2 DEF Works, Rows!RunScript, Rows!RunCommand, Rows!Create, Rows!Pack, Rows!Close
    <3>2. work' \in [Jobs -> {"none", "made", "open", "packed", "good", "bad"}]
      BY <2>2 DEF Works, Rows!RunScript, Rows!RunCommand, Rows!Create, Rows!Pack, Rows!Close,
                  Rows!TypeOK
    <3>3. \/ more' = more
          \/ more' = [more EXCEPT ![Rows!PathOf(j)] = {}]
          \/ more' = [more EXCEPT ![Rows!PathOf(j)] = {j}]
          \/ more' = [more EXCEPT ![Rows!PathOf(j)] = @ \union {j}]
      BY <2>2 DEF Works, Rows!RunScript, Rows!RunCommand, Rows!Create, Rows!Pack, Rows!Close
    <3>4. more' \in [Rows!Paths -> SUBSET Jobs]
      BY <3>3 DEF Rows!TypeOK
    <3> QED
      BY <3>1, <3>2, <3>4 DEF Rows!TypeOK
  <2>3. ASSUME NEW j \in Jobs, Rows!Finish(j) PROVE Rows!TypeOK'
    BY <2>3, FinishChanges DEF Rows!TypeOK
  <2>4. CASE Rows!Tick
    BY <2>4 DEF Rows!Tick, Rows!TypeOK
  <2>5. CASE Rows!Restart
    <3>1. past.second \in 0 .. MaxSecond /\ past.orphans \subseteq Jobs
      BY DEF Rows!TypeOK
    <3>2. past' = [second |-> past.second + 1,
        orphans |-> past.orphans \union {j \in Jobs : work[j] # "none"}]
      BY <2>5 DEF Rows!Restart, Rows!TypeOK
    <3>3. past.second + 1 \in 0 .. MaxSecond
      BY <2>5, <3>1 DEF Rows!Restart
    <3>4. work' \in [Jobs -> {"none"}] /\ UNCHANGED <<rows, more>>
      BY <2>5 DEF Rows!Restart
    <3> QED
      BY <3>1, <3>2, <3>3, <3>4 DEF Rows!TypeOK
  <2> QED
    BY <2>1, <2>2, <2>3, <2>4, <2>5 DEF Rows!Next, Works, Rows!vars, Rows!TypeOK
<1> QED
  BY <1>1, <1>2, PTL DEF Rows!Spec

-----------------------------------------------------------------------------

\* A goroutine works for a row that is running, only a backup of files opens
\* an archive, and a row that is used has a name.
WorkInv ==
  \A j \in Jobs :
    /\ work[j] # "none" => rows[j].status = "running"
    /\ work[j] \in {"open", "packed"} => rows[j].kind = "files"
    /\ rows[j].status # "none" => rows[j].name \in Names

\* WorkInv is inductive, given the types.
LEMMA WorkInvariant == Rows!Spec => []WorkInv
<1>1. Rows!Init => WorkInv
  BY UnusedRow DEF Rows!Init, WorkInv
<1>2. Rows!TypeOK /\ WorkInv /\ [Rows!Next]_(Rows!vars) => WorkInv'
  <2> SUFFICES ASSUME Rows!TypeOK, WorkInv, [Rows!Next]_(Rows!vars) PROVE WorkInv'
    OBVIOUS
  <2>1. ASSUME NEW kind \in Rows!Kinds, NEW name \in Names, Rows!Start(kind, name) PROVE WorkInv'
    BY <2>1, StartedRow DEF Rows!TypeOK, WorkInv
  <2>2. ASSUME NEW j \in Jobs, Works(j) PROVE WorkInv'
    BY <2>2 DEF Works, Rows!RunScript, Rows!RunCommand, Rows!Create, Rows!Pack, Rows!Close,
                Rows!MayClose, Rows!TypeOK, WorkInv
  <2>3. ASSUME NEW j \in Jobs, Rows!Finish(j) PROVE WorkInv'
    BY <2>3, FinishChanges DEF Rows!TypeOK, WorkInv
  <2>4. CASE Rows!Tick \/ Rows!Restart
    BY <2>4 DEF Rows!Tick, Rows!Restart, WorkInv
  <2> QED
    BY <2>1, <2>2, <2>3, <2>4 DEF Rows!Next, Works, Rows!vars, WorkInv
<1> QED
  BY <1>1, <1>2, RowTypes, PTL DEF Rows!Spec

\* A row that says running has a goroutine that will finish it, except after
\* the end of the process or a failed final write.
LEMMA RunningRowsEnd == Rows!Spec => []Rows!RunningExplained
<1>1. Rows!Init => Rows!RunningExplained
  BY UnusedRow DEF Rows!Init, Rows!RunningExplained
<1>2. Rows!TypeOK /\ Rows!RunningExplained /\ [Rows!Next]_(Rows!vars) => Rows!RunningExplained'
  <2> SUFFICES ASSUME Rows!TypeOK, Rows!RunningExplained, [Rows!Next]_(Rows!vars)
               PROVE  Rows!RunningExplained'
    OBVIOUS
  <2>1. ASSUME NEW kind \in Rows!Kinds, NEW name \in Names, Rows!Start(kind, name)
        PROVE  Rows!RunningExplained'
    BY <2>1, StartedRow DEF Rows!TypeOK, Rows!RunningExplained
  <2>2. ASSUME NEW j \in Jobs, Works(j) PROVE Rows!RunningExplained'
    BY <2>2 DEF Works, Rows!RunScript, Rows!RunCommand, Rows!Create, Rows!Pack, Rows!Close,
                Rows!TypeOK, Rows!RunningExplained
  <2>3. ASSUME NEW j \in Jobs, Rows!Finish(j) PROVE Rows!RunningExplained'
    <3>1. Rows!StatusOf(work[j]) # "running"
      BY DEF Rows!StatusOf
    <3> QED
      BY <2>3, <3>1, FinishChanges DEF Rows!TypeOK, Rows!RunningExplained
  <2>4. CASE Rows!Tick
    BY <2>4 DEF Rows!Tick, Rows!TypeOK, Rows!RunningExplained
  <2>5. CASE Rows!Restart
    BY <2>5 DEF Rows!Restart, Rows!TypeOK, Rows!RunningExplained
  <2> QED
    BY <2>1, <2>2, <2>3, <2>4, <2>5 DEF Rows!Next, Works, Rows!vars, Rows!RunningExplained
<1> QED
  BY <1>1, <1>2, RowTypes, PTL DEF Rows!Spec

-----------------------------------------------------------------------------

\* The statuses of the rows when one row is replaced.
LEMMA StatusReplaced ==
  ASSUME Rows!TypeOK, focus = "rows", focus' = "rows",
         NEW j \in Jobs, NEW row \in Rows!Row, rows' = [rows EXCEPT ![j] = row]
  PROVE  Status' = [Status EXCEPT ![j] = row.status]
<1>1. \A i \in Jobs : rows'[i].status = IF i = j THEN row.status ELSE rows[i].status
  BY DEF Rows!TypeOK
<1> QED
  BY <1>1 DEF Status

\* The rows of script runs and backups get one final status, and it stays.
LEMMA RowStepIsRecorded ==
  ASSUME Rows!TypeOK, WorkInv, focus = "rows", focus' = "rows", [Rows!Next]_(Rows!vars)
  PROVE  [Record!Next]_Status
<1>1. ASSUME NEW kind \in Rows!Kinds, NEW name \in Names, Rows!Start(kind, name)
      PROVE  \E j \in Jobs : Record!Create(j)
  <2>1. PICK j \in Jobs, row \in Rows!Row :
          rows[j].status = "none" /\ rows' = [rows EXCEPT ![j] = row] /\ row.status = "running"
    BY <1>1, StartedRow
  <2>2. Status' = [Status EXCEPT ![j] = "running"] /\ Status[j] = "none"
    BY <2>1, StatusReplaced DEF Status
  <2> QED
    BY <2>2 DEF Record!Create
<1>2. ASSUME NEW j \in Jobs, Rows!Finish(j)
      PROVE  Status' = Status \/ \E final \in {"success", "failed"} : Record!Finish(j, final)
  <2>1. Rows!StatusOf(work[j]) \in {"success", "failed"}
    BY DEF Rows!StatusOf
  <2>2. Status[j] = "running"
    BY <1>2, FinishChanges DEF WorkInv, Status
  <2>3. Status' = Status \/ Status' = [Status EXCEPT ![j] = Rows!StatusOf(work[j])]
    BY <1>2, FinishChanges, StatusReplaced DEF Status
  <2> QED
    BY <2>1, <2>2, <2>3 DEF Record!Finish
<1>3. ASSUME NEW j \in Jobs, Works(j) PROVE Status' = Status
  BY <1>3 DEF Works, Rows!RunScript, Rows!RunCommand, Rows!Create, Rows!Pack, Rows!Close, Status
<1>4. Rows!Tick \/ Rows!Restart \/ UNCHANGED Rows!vars => Status' = Status
  BY DEF Rows!Tick, Rows!Restart, Rows!vars, Status
<1> QED
  BY <1>1, <1>2, <1>3, <1>4 DEF Rows!Next, Works, Record!Next

-----------------------------------------------------------------------------

Untwinned(j) == Rows!Backup(j) /\ \A i \in Jobs : Rows!Twins(i, j) => i = j

\* What the archive of an untwinned backup has at each place of its goroutine.
ArchiveInvAt(j) ==
  Untwinned(j) =>
    /\ work[j] = "open" => more[Rows!PathOf(j)] = {}
    /\ work[j] \in {"packed", "good"} => more[Rows!PathOf(j)] = {j}
    /\ rows[j].status = "success" => more[Rows!PathOf(j)] = {j}

ArchiveInv == \A j \in Jobs : ArchiveInvAt(j)

\* A step leaves what a row is made of as it is.
LEMMA RowsStay ==
  ASSUME Rows!TypeOK, WorkInv, [Rows!Next]_(Rows!vars), NEW i \in Jobs, rows[i].status # "none"
  PROVE  /\ rows'[i].status # "none" /\ rows'[i].kind = rows[i].kind
         /\ rows'[i].name = rows[i].name /\ rows'[i].second = rows[i].second
<1>1. ASSUME NEW kind \in Rows!Kinds, NEW name \in Names, Rows!Start(kind, name)
      PROVE  rows'[i] = rows[i]
  BY <1>1, StartedRow DEF Rows!TypeOK
<1>2. ASSUME NEW j \in Jobs, Rows!Finish(j)
      PROVE  /\ rows'[i].status # "none" /\ rows'[i].kind = rows[i].kind
             /\ rows'[i].name = rows[i].name /\ rows'[i].second = rows[i].second
  <2>1. Rows!StatusOf(work[j]) # "none"
    BY DEF Rows!StatusOf
  <2> QED
    BY <1>2, <2>1, FinishChanges DEF Rows!TypeOK
<1>3. ASSUME NEW j \in Jobs, Works(j) PROVE rows' = rows
  BY <1>3 DEF Works, Rows!RunScript, Rows!RunCommand, Rows!Create, Rows!Pack, Rows!Close
<1>4. Rows!Tick \/ Rows!Restart \/ Rows!vars' = Rows!vars => rows' = rows
  BY DEF Rows!Tick, Rows!Restart, Rows!vars
<1> QED
  BY <1>1, <1>2, <1>3, <1>4 DEF Rows!Next, Works

\* A backup that is untwinned after a step was so before it, unless the step
\* has started it.
LEMMA TwinsStay ==
  ASSUME Rows!TypeOK, WorkInv, [Rows!Next]_(Rows!vars),
         NEW j \in Jobs, rows[j].status # "none", Untwinned(j)'
  PROVE  Untwinned(j) /\ Rows!PathOf(j)' = Rows!PathOf(j)
<1>1. Rows!Backup(j) /\ Rows!PathOf(j)' = Rows!PathOf(j)
  BY RowsStay DEF Untwinned, Rows!Backup, Rows!PathOf
<1>2. ASSUME NEW i \in Jobs, Rows!Twins(i, j) PROVE Rows!Twins(i, j)'
  BY <1>2, RowsStay DEF Rows!Twins, Rows!Backup
<1> QED
  BY <1>1, <1>2 DEF Untwinned

\* An untwinned backup that says success has its own bytes in its archive.
LEMMA OwnArchives == Rows!Spec => []Rows!ArchiveIsOwn
<1>1. Rows!Init => ArchiveInv
  BY UnusedRow DEF Rows!Init, ArchiveInv, ArchiveInvAt, Untwinned, Rows!Backup
<1>2. Rows!TypeOK /\ WorkInv /\ ArchiveInv /\ [Rows!Next]_(Rows!vars) => ArchiveInv'
  <2> SUFFICES ASSUME Rows!TypeOK, WorkInv, ArchiveInv, [Rows!Next]_(Rows!vars), NEW j \in Jobs,
                      Untwinned(j)'
               PROVE  ArchiveInvAt(j)'
    BY DEF ArchiveInv, ArchiveInvAt
  <2>1. CASE rows[j].status = "none"
    <3>1. ASSUME NEW kind \in Rows!Kinds, NEW name \in Names, Rows!Start(kind, name)
          PROVE  work'[j] \in {"none", "made"} /\ rows'[j].status \in {"none", "running"}
      BY <2>1, <3>1, StartedRow DEF Rows!TypeOK, WorkInv
    <3>2. ASSUME NEW i \in Jobs, Rows!Finish(i)
          PROVE  work'[j] = "none" /\ rows'[j].status = "none"
      BY <2>1, <3>2, FinishChanges DEF Rows!TypeOK, WorkInv
    <3>3. ASSUME NEW i \in Jobs, Works(i) PROVE work'[j] = "none" /\ rows'[j].status = "none"
      BY <2>1, <3>3 DEF Works, Rows!RunScript, Rows!RunCommand, Rows!Create, Rows!Pack,
                        Rows!Close, Rows!MayClose, Rows!TypeOK, WorkInv
    <3>4. Rows!Tick \/ Rows!Restart \/ Rows!vars' = Rows!vars => work'[j] = "none" /\ rows'[j].status = "none"
      BY <2>1 DEF Rows!Tick, Rows!Restart, Rows!vars, WorkInv
    <3> QED
      BY <3>1, <3>2, <3>3, <3>4 DEF Rows!Next, Works, ArchiveInvAt
  <2>2. CASE rows[j].status # "none"
    <3>1. Untwinned(j) /\ Rows!PathOf(j)' = Rows!PathOf(j) /\ ArchiveInvAt(j)
      BY <2>2, TwinsStay DEF ArchiveInv
    <3>2. Rows!PathOf(j) \in Rows!Paths
      <4>1. rows[j] \in Rows!Row /\ rows[j].name \in Names
        BY <2>2 DEF Rows!TypeOK, WorkInv
      <4> QED
        BY <4>1 DEF Rows!PathOf, Rows!FileName, Rows!Paths, Rows!Row
    <3>3. ASSUME NEW k \in Jobs, k # j, Rows!Backup(k) PROVE Rows!PathOf(k) # Rows!PathOf(j)
      BY <3>1, <3>3 DEF Untwinned, Rows!Twins, Rows!Backup, Rows!PathOf, Rows!FileName
    <3>4. ASSUME NEW kind \in Rows!Kinds, NEW name \in Names, Rows!Start(kind, name)
          PROVE  ArchiveInvAt(j)'
      <4>1. work'[j] = work[j] /\ rows'[j] = rows[j] /\ more' = more
        BY <2>2, <3>4, StartedRow DEF Rows!TypeOK
      <4> QED
        BY <4>1, <3>1 DEF ArchiveInvAt
    <3>5. ASSUME NEW k \in Jobs, Rows!Finish(k) PROVE ArchiveInvAt(j)'
      <4>1. more' = more /\ work'[j] \in {work[j], "none"}
        BY <3>5, FinishChanges DEF Rows!TypeOK
      <4>2. rows'[j].status = "success" => rows[j].status = "success" \/ work[j] = "good"
        BY <3>5, FinishChanges DEF Rows!TypeOK, Rows!StatusOf
      <4> QED
        BY <4>1, <4>2, <3>1 DEF ArchiveInvAt
    <3>6. ASSUME NEW k \in Jobs, Works(k), k # j PROVE ArchiveInvAt(j)'
      <4>1. work'[j] = work[j] /\ rows' = rows
        BY <3>6 DEF Works, Rows!RunScript, Rows!RunCommand, Rows!Create, Rows!Pack, Rows!Close,
                    Rows!TypeOK
      <4>2. more'[Rows!PathOf(j)] = more[Rows!PathOf(j)]
        <5>1. Rows!RunScript(k) \/ Rows!Close(k) => more' = more
          BY DEF Rows!RunScript, Rows!Close
        <5>2. Rows!RunCommand(k) \/ Rows!Create(k) \/ Rows!Pack(k) => Rows!Backup(k)
          BY DEF Rows!RunCommand, Rows!Create, Rows!Pack, WorkInv, Rows!Backup
        <5>3. Rows!RunCommand(k) \/ Rows!Create(k) \/ Rows!Pack(k) =>
                more'[Rows!PathOf(j)] = more[Rows!PathOf(j)] \/ Rows!PathOf(k) = Rows!PathOf(j)
          BY <3>2 DEF Rows!RunCommand, Rows!Create, Rows!Pack, Rows!TypeOK
        <5> QED
          BY <5>1, <5>2, <5>3, <3>3, <3>6 DEF Works
      <4> QED
        BY <4>1, <4>2, <3>1 DEF ArchiveInvAt
    <3>7. ASSUME Works(j) PROVE ArchiveInvAt(j)'
      <4>1. rows[j].status # "success" /\ rows' = rows
        BY <3>7 DEF Works, Rows!RunScript, Rows!RunCommand, Rows!Create, Rows!Pack, Rows!Close,
                    Rows!MayClose, WorkInv
      <4>2. CASE Rows!RunScript(j)
        BY <4>2, <3>1 DEF Rows!RunScript, Untwinned, Rows!Backup
      <4>3. CASE Rows!RunCommand(j)
        BY <4>1, <4>3, <3>1, <3>2 DEF Rows!RunCommand, ArchiveInvAt, Rows!TypeOK
      <4>4. CASE Rows!Create(j)
        BY <4>1, <4>4, <3>1, <3>2 DEF Rows!Create, ArchiveInvAt, Rows!TypeOK
      <4>5. CASE Rows!Pack(j)
        BY <4>1, <4>5, <3>1, <3>2 DEF Rows!Pack, ArchiveInvAt, Rows!TypeOK
      <4>6. CASE Rows!Close(j)
        BY <4>1, <4>6, <3>1 DEF Rows!Close, Rows!MayClose, ArchiveInvAt, Rows!TypeOK
      <4> QED
        BY <3>7, <4>2, <4>3, <4>4, <4>5, <4>6 DEF Works
    <3>8. Rows!Tick \/ Rows!Restart \/ Rows!vars' = Rows!vars => ArchiveInvAt(j)'
      BY <3>1 DEF Rows!Tick, Rows!Restart, Rows!vars, ArchiveInvAt
    <3> QED
      BY <3>4, <3>5, <3>6, <3>7, <3>8 DEF Rows!Next, Works
  <2> QED
    BY <2>1, <2>2
<1>3. ArchiveInv => Rows!ArchiveIsOwn
  BY DEF ArchiveInv, ArchiveInvAt, Rows!ArchiveIsOwn, Untwinned
<1> QED
  BY <1>1, <1>2, <1>3, RowTypes, WorkInvariant, PTL DEF Rows!Spec

-----------------------------------------------------------------------------
(* All of it.                                                              *)

\* The rows of jobs are safe.
RowsInv == Rows!TypeOK /\ WorkInv /\ Rows!RunningExplained /\ Rows!ArchiveIsOwn

\* It is an invariant.
LEMMA RowsSafe == Rows!Spec => []RowsInv
BY RowTypes, WorkInvariant, RunningRowsEnd, OwnArchives, PTL DEF RowsInv

\* A behaviour of Services is one of RunOutput, which stutters when another
\* part has the focus, and one of the part that has it.
LEMMA OutputRuns == ServicesSpec => Spec
<1>1. ServicesInit => Init
  BY DEF ServicesInit
<1>2. [ServicesNext]_allVars => [Next]_vars
  BY DEF ServicesNext, allVars
<1> QED
  BY <1>1, <1>2, PTL DEF ServicesSpec, Spec

\* A behaviour that has the runtime log in focus is one of the runtime log.
LEMMA LinesAlone == ServicesSpec /\ focus = "lines" => Lines!Spec
<1>1. ServicesInit /\ focus = "lines" => Lines!Init
  BY DEF ServicesInit
<1>2. focus = "lines" /\ [ServicesNext]_allVars => (focus = "lines")' /\ [Lines!Next]_(Lines!vars)
  BY DEF ServicesNext, In, Output, allVars, partVars, Lines!vars
<1> QED
  BY <1>1, <1>2, PTL DEF ServicesSpec, Lines!Spec

\* What holds of it holds of the behaviours in which it has the focus.
LEMMA LinesRun == ServicesSpec => [](focus = "lines" => LinesInv)
<1>1. focus # "lines" /\ [ServicesNext]_allVars => (focus # "lines")'
  BY DEF ServicesNext, In, Output, allVars
<1>2. ServicesSpec /\ focus # "lines" => [](focus # "lines")
  BY <1>1, PTL DEF ServicesSpec
<1>3. focus # "lines" => (focus = "lines" => LinesInv)
  OBVIOUS
<1>4. LinesInv => (focus = "lines" => LinesInv)
  OBVIOUS
<1>5. focus = "lines" \/ focus # "lines"
  OBVIOUS
<1> QED
  BY <1>2, <1>3, <1>4, <1>5, LinesAlone, LinesSafe, PTL

\* A behaviour that has the rows in focus is one of the rows.
LEMMA RowsAlone == ServicesSpec /\ focus = "rows" => Rows!Spec
<1>1. ServicesInit /\ focus = "rows" => Rows!Init
  BY DEF ServicesInit
<1>2. focus = "rows" /\ [ServicesNext]_allVars => (focus = "rows")' /\ [Rows!Next]_(Rows!vars)
  BY DEF ServicesNext, In, Output, allVars, partVars, Rows!vars
<1> QED
  BY <1>1, <1>2, PTL DEF ServicesSpec, Rows!Spec

\* What holds of it holds of the behaviours in which it has the focus.
LEMMA RowsRun == ServicesSpec => [](focus = "rows" => RowsInv)
<1>1. focus # "rows" /\ [ServicesNext]_allVars => (focus # "rows")'
  BY DEF ServicesNext, In, Output, allVars
<1>2. ServicesSpec /\ focus # "rows" => [](focus # "rows")
  BY <1>1, PTL DEF ServicesSpec
<1>3. focus # "rows" => (focus = "rows" => RowsInv)
  OBVIOUS
<1>4. RowsInv => (focus = "rows" => RowsInv)
  OBVIOUS
<1>5. focus = "rows" \/ focus # "rows"
  OBVIOUS
<1> QED
  BY <1>2, <1>3, <1>4, <1>5, RowsAlone, RowsSafe, PTL

\* A behaviour that has the document in focus is one of the document.
LEMMA DocumentAlone == ServicesSpec /\ focus = "document" => Document!Spec
<1>1. ServicesInit /\ focus = "document" => Document!Init
  BY DEF ServicesInit
<1>2. focus = "document" /\ [ServicesNext]_allVars => (focus = "document")' /\ [Document!Next]_(Document!vars)
  BY DEF ServicesNext, In, Output, allVars, partVars, Document!vars
<1> QED
  BY <1>1, <1>2, PTL DEF ServicesSpec, Document!Spec

\* What holds of it holds of the behaviours in which it has the focus.
LEMMA DocumentRun == ServicesSpec => [](focus = "document" => DocumentInv)
<1>1. focus # "document" /\ [ServicesNext]_allVars => (focus # "document")'
  BY DEF ServicesNext, In, Output, allVars
<1>2. ServicesSpec /\ focus # "document" => [](focus # "document")
  BY <1>1, PTL DEF ServicesSpec
<1>3. focus # "document" => (focus = "document" => DocumentInv)
  OBVIOUS
<1>4. DocumentInv => (focus = "document" => DocumentInv)
  OBVIOUS
<1>5. focus = "document" \/ focus # "document"
  OBVIOUS
<1> QED
  BY <1>2, <1>3, <1>4, <1>5, DocumentAlone, DocumentSafe, PTL

\* The variables of every part keep their types.
THEOREM TypeCorrect == ServicesSpec => []ServiceTypes
<1>1. (OutputInv /\ (focus = "lines" => LinesInv) /\ (focus = "rows" => RowsInv)
         /\ (focus = "document" => DocumentInv))
        => ServiceTypes
  BY DEF ServiceTypes, OutputInv, LinesInv, RowsInv, DocumentInv
<1> QED
  BY <1>1, OutputRuns, OutputInvariant, LinesRun, RowsRun, DocumentRun, PTL

\* What a process writes is in its row in the order it was written, the ring
\* and the file of the runtime log have every line once, a running row has its
\* goroutine, an archive is its backup's own, and what the users asked for last
\* is what the server works with and the file has.
THEOREM WordKept == ServicesSpec => []ServicesKeepTheirWord
<1>1. OutputInv => LogInOrder
  <2> SUFFICES ASSUME OutputInv, NEW s \in Streams, NEW i \in DOMAIN log[s], NEW j \in DOMAIN log[s],
                      i < j
               PROVE  log[s][i] < log[s][j]
    BY DEF LogInOrder
  <2>1. log[s] \in Seq(Nat)
    BY OutputFacts DEF OutputInv
  <2>2. DOMAIN log[s] = 1 .. Len(log[s])
    BY <2>1
  <2> QED
    BY <2>2 DEF OutputInv, Ordered, InOrder
<1>2. (OutputInv /\ (focus = "lines" => LinesInv) /\ (focus = "rows" => RowsInv)
         /\ (focus = "document" => DocumentInv))
        => ServicesKeepTheirWord
  BY <1>1, LinesKept DEF ServicesKeepTheirWord, RowsInv, DocumentInv
<1> QED
  BY <1>2, OutputRuns, OutputInvariant, LinesRun, RowsRun, DocumentRun, PTL

\* A row gets no output of a process its run has left behind, and the rows of
\* script runs and backups get one final status, which stays.
THEOREM RowsFinal == ServicesSpec => RowsAreFinal
<1>1. ServicesInit => Record!Init
  <2> SUFFICES ASSUME ServicesInit PROVE Status = [j \in Jobs |-> "none"]
    BY DEF Record!Init
  <2>1. CASE focus = "rows"
    <3>1. rows = [j \in Jobs |-> Rows!NoRow]
      BY <2>1 DEF ServicesInit, Rows!Init
    <3> QED
      BY <2>1, <3>1, UnusedRow DEF Status
  <2>2. CASE focus # "rows"
    BY <2>2 DEF Status
  <2> QED
    BY <2>1, <2>2
<1>2. (focus = "rows" => RowsInv) /\ [ServicesNext]_allVars => [Record!Next]_Status
  <2> SUFFICES ASSUME focus = "rows" => RowsInv, [ServicesNext]_allVars PROVE [Record!Next]_Status
    OBVIOUS
  <2>1. CASE focus = "rows"
    <3>1. focus' = "rows" /\ [Rows!Next]_(Rows!vars)
      BY <2>1 DEF ServicesNext, In, Output, allVars, partVars, Rows!vars
    <3> QED
      BY <2>1, <3>1, RowStepIsRecorded DEF RowsInv
  <2>2. CASE focus # "rows"
    <3>1. focus' # "rows"
      BY <2>2 DEF ServicesNext, In, Output, allVars
    <3> QED
      BY <2>2, <3>1 DEF Status
  <2> QED
    BY <2>1, <2>2
<1>3. ServicesSpec => Record!Spec
  BY <1>1, <1>2, RowsRun, PTL DEF ServicesSpec, Record!Spec
<1> QED
  BY <1>3, OutputRuns, JoinInvariant, PTL DEF RowsAreFinal
=============================================================================
