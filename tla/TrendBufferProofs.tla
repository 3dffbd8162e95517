-------------------------- MODULE TrendBufferProofs --------------------------
(***************************************************************************)
(* Safety of TrendBuffer for buffers of any size, any retention and any    *)
(* number of samples: nothing is lost on the way to the table but what an  *)
(* overflow or the end of the process drops, and the order is kept.        *)
(***************************************************************************)
EXTENDS TrendBuffer, ProcessState, SequenceTheorems, TLAPS

USE TrendAssumption

-----------------------------------------------------------------------------
(* The operators of the buffer.                                            *)

\* The samples of a sequence, whatever their places.
Elements(s) == {s[i] : i \in DOMAIN s}

\* Every sample of s was collected before every sample of t.
Before(s, t) ==
  \A x \in Elements(s), y \in Elements(t) : x.at <= y.at /\ x.seq < y.seq

\* A sample's fields are numbers.
LEMMA SampleFacts ==
  /\ NoSample \in Sample
  /\ \A x \in Sample : x.at \in Nat /\ x.seq \in Nat
  /\ \A a, q \in Nat : /\ [at |-> a, seq |-> q] \in Sample
                       /\ [at |-> a, seq |-> q].at = a
                       /\ [at |-> a, seq |-> q].seq = q
BY DEF Sample, NoSample

\* The samples of a sequence of samples, and their buckets.
LEMMA ElementsFacts ==
  ASSUME NEW s \in Seq(Sample)
  PROVE  /\ Elements(s) \subseteq Sample
         /\ \A i \in 1 .. Len(s) : s[i] \in Elements(s)
         /\ \A x \in Elements(s) : \E i \in 1 .. Len(s) : x = s[i]
         /\ Buckets(s) = {x.at : x \in Elements(s)}
         /\ Elements(s) = {} <=> s = <<>>
<1>1. /\ Len(s) \in Nat /\ DOMAIN s = 1 .. Len(s)
      /\ \A i \in 1 .. Len(s) : s[i] \in Sample
  BY LenProperties, ElementOfSeq
<1>2. s = <<>> <=> Len(s) = 0
  BY <1>1, EmptySeq
<1>3. Elements(s) = {} <=> s = <<>>
  <2>1. CASE Len(s) = 0
    BY <1>1, <1>2, <2>1 DEF Elements
  <2>2. CASE Len(s) # 0
    <3>1. 1 \in DOMAIN s
      BY <1>1, <2>2
    <3> QED
      BY <1>2, <2>2, <3>1 DEF Elements
  <2> QED
    BY <2>1, <2>2
<1> QED
  BY <1>1, <1>3 DEF Elements, Buckets

\* Buckets are numbers.
LEMMA BucketsFacts ==
  ASSUME NEW s \in Seq(Sample)
  PROVE  Buckets(s) \subseteq Nat
<1>1. DOMAIN s = 1 .. Len(s) /\ \A i \in 1 .. Len(s) : s[i] \in Sample
  BY LenProperties, ElementOfSeq
<1> QED
  BY <1>1, SampleFacts DEF Buckets

\* The empty sequence has no sample.
LEMMA NoElements == <<>> \in Seq(Sample) /\ Elements(<<>>) = {} /\ Buckets(<<>>) = {}
<1>1. <<>> \in Seq(Sample)
  BY EmptySeq
<1> QED
  BY <1>1, ElementsFacts

\* What is queued in front of the buffer is followed by the buffer.
LEMMA ConcatElements ==
  ASSUME NEW s \in Seq(Sample), NEW t \in Seq(Sample)
  PROVE  /\ s \o t \in Seq(Sample)
         /\ Len(s \o t) = Len(s) + Len(t)
         /\ Elements(s \o t) = Elements(s) \cup Elements(t)
         /\ Buckets(s \o t) = Buckets(s) \cup Buckets(t)
<1>1. /\ s \o t \in Seq(Sample)
      /\ Len(s \o t) = Len(s) + Len(t)
      /\ \A i \in 1 .. Len(s) + Len(t) :
           (s \o t)[i] = IF i <= Len(s) THEN s[i] ELSE t[i - Len(s)]
  BY ConcatProperties
<1>2. Len(s) \in Nat /\ Len(t) \in Nat
  BY LenProperties
<1>3. ASSUME NEW x \in Elements(s \o t) PROVE x \in Elements(s) \cup Elements(t)
  <2>1. PICK i \in 1 .. Len(s) + Len(t) : x = (s \o t)[i]
    BY <1>1, <1>3, ElementsFacts
  <2>2. CASE i <= Len(s)
    BY <1>1, <1>2, <2>1, <2>2, ElementsFacts
  <2>3. CASE i > Len(s)
    <3>1. i - Len(s) \in 1 .. Len(t)
      BY <1>2, <2>1, <2>3
    <3> QED
      BY <1>1, <1>2, <2>1, <2>3, <3>1, ElementsFacts
  <2> QED
    BY <1>2, <2>2, <2>3
<1>4. ASSUME NEW x \in Elements(s) PROVE x \in Elements(s \o t)
  <2>1. PICK i \in 1 .. Len(s) : x = s[i]
    BY <1>4, ElementsFacts
  <2>2. i \in 1 .. Len(s \o t) /\ (s \o t)[i] = x
    BY <1>1, <1>2, <2>1
  <2> QED
    BY <1>1, <2>2, ElementsFacts
<1>5. ASSUME NEW x \in Elements(t) PROVE x \in Elements(s \o t)
  <2>1. PICK i \in 1 .. Len(t) : x = t[i]
    BY <1>5, ElementsFacts
  <2>2. i + Len(s) \in 1 .. Len(s \o t) /\ (s \o t)[i + Len(s)] = x
    BY <1>1, <1>2, <2>1
  <2> QED
    BY <1>1, <2>2, ElementsFacts
<1>6. Elements(s \o t) = Elements(s) \cup Elements(t)
  BY <1>3, <1>4, <1>5
<1>7. Buckets(s \o t) = Buckets(s) \cup Buckets(t)
  <2>1. /\ Buckets(s \o t) = {x.at : x \in Elements(s \o t)}
        /\ Buckets(s) = {x.at : x \in Elements(s)}
        /\ Buckets(t) = {x.at : x \in Elements(t)}
    BY <1>1, ElementsFacts
  <2> QED
    BY <1>6, <2>1
<1> QED
  BY <1>1, <1>6, <1>7

\* A sequence made of two is ordered when both are and the first is before
\* the second.
LEMMA ConcatOrdered ==
  ASSUME NEW s \in Seq(Sample), NEW t \in Seq(Sample)
  PROVE  Ordered(s \o t) <=> Ordered(s) /\ Ordered(t) /\ Before(s, t)
<1>1. /\ DOMAIN (s \o t) = 1 .. Len(s) + Len(t)
      /\ DOMAIN s = 1 .. Len(s) /\ DOMAIN t = 1 .. Len(t)
      /\ \A i \in 1 .. Len(s) + Len(t) :
           (s \o t)[i] = IF i <= Len(s) THEN s[i] ELSE t[i - Len(s)]
  BY ConcatProperties, LenProperties
<1>2. Len(s) \in Nat /\ Len(t) \in Nat
  BY LenProperties
<1>3. /\ \A i \in 1 .. Len(s) : i \in 1 .. Len(s) + Len(t) /\ (s \o t)[i] = s[i]
      /\ \A j \in 1 .. Len(t) : /\ Len(s) + j \in 1 .. Len(s) + Len(t)
                                /\ (s \o t)[Len(s) + j] = t[j]
  BY <1>1, <1>2
<1>4. ASSUME Ordered(s \o t) PROVE Ordered(s) /\ Ordered(t) /\ Before(s, t)
  <2>1. Ordered(s)
    BY <1>1, <1>2, <1>3, <1>4 DEF Ordered
  <2>2. Ordered(t)
    <3> SUFFICES ASSUME NEW i \in 1 .. Len(t), NEW j \in 1 .. Len(t), i < j
                 PROVE  t[i].at <= t[j].at /\ t[i].seq < t[j].seq
      BY <1>1 DEF Ordered
    <3> DEFINE a == Len(s) + i
               b == Len(s) + j
    <3>1. /\ a \in DOMAIN (s \o t) /\ (s \o t)[a] = t[i]
          /\ b \in DOMAIN (s \o t) /\ (s \o t)[b] = t[j]
          /\ a < b
      BY <1>1, <1>2, <1>3
    <3> HIDE DEF a, b
    <3> QED
      BY <1>4, <3>1 DEF Ordered
  <2>3. Before(s, t)
    <3> SUFFICES ASSUME NEW i \in 1 .. Len(s), NEW j \in 1 .. Len(t)
                 PROVE  s[i].at <= t[j].at /\ s[i].seq < t[j].seq
      BY ElementsFacts DEF Before
    <3>1. i < Len(s) + j
      BY <1>2
    <3> QED
      BY <1>1, <1>3, <1>4, <3>1 DEF Ordered
  <2> QED
    BY <2>1, <2>2, <2>3
<1>5. ASSUME Ordered(s), Ordered(t), Before(s, t) PROVE Ordered(s \o t)
  <2> SUFFICES ASSUME NEW i \in 1 .. Len(s) + Len(t), NEW j \in 1 .. Len(s) + Len(t), i < j
               PROVE  /\ (s \o t)[i].at <= (s \o t)[j].at
                      /\ (s \o t)[i].seq < (s \o t)[j].seq
    BY <1>1 DEF Ordered
  <2>1. CASE j <= Len(s)
    BY <1>1, <1>2, <1>5, <2>1 DEF Ordered
  <2>2. CASE i > Len(s)
    <3>1. i - Len(s) \in 1 .. Len(t) /\ j - Len(s) \in 1 .. Len(t) /\ i - Len(s) < j - Len(s)
      BY <1>2, <2>2
    <3>2. (s \o t)[i] = t[i - Len(s)] /\ (s \o t)[j] = t[j - Len(s)]
      BY <1>1, <1>2, <2>2
    <3> QED
      BY <1>1, <1>5, <3>1, <3>2 DEF Ordered
  <2>3. CASE i <= Len(s) /\ j > Len(s)
    <3>1. i \in 1 .. Len(s) /\ j - Len(s) \in 1 .. Len(t)
      BY <1>2, <2>3
    <3>2. (s \o t)[i] = s[i] /\ (s \o t)[j] = t[j - Len(s)]
      BY <1>1, <1>2, <2>3
    <3> QED
      BY <1>5, <3>1, <3>2, ElementsFacts DEF Before
  <2> QED
    BY <1>2, <2>1, <2>2, <2>3
<1> QED
  BY <1>4, <1>5

\* An overflow keeps the newest samples, as many as the buffer may hold, and
\* drops none that is newer than one it keeps.
LEMMA KeepFacts ==
  ASSUME NEW s \in Seq(Sample)
  PROVE  /\ KeepNewest(s) \in Seq(Sample)
         /\ Len(KeepNewest(s)) <= BufferMax
         /\ Elements(KeepNewest(s)) \subseteq Elements(s)
         /\ Buckets(KeepNewest(s)) \subseteq Buckets(s)
         /\ Ordered(s) =>
              /\ Ordered(KeepNewest(s))
              /\ \A b \in Overflow(s) : /\ Len(KeepNewest(s)) = BufferMax
                                        /\ \A x \in Elements(KeepNewest(s)) : b <= x.at
<1> DEFINE kept == KeepNewest(s)
<1>1. PICK n \in Nat : /\ n = Len(s) /\ DOMAIN s = 1 .. n
                       /\ \A i \in 1 .. n : s[i] \in Sample
  BY LenProperties, ElementOfSeq
<1>2. PICK d \in Nat, m \in Nat :
         /\ n = m + d /\ m <= BufferMax
         /\ d > 0 => m = BufferMax
         /\ kept = IF d > 0 THEN SubSeq(s, d + 1, n) ELSE s
  <2>1. CASE n > BufferMax
    <3>1. n - BufferMax \in Nat /\ n - BufferMax > 0 /\ n = BufferMax + (n - BufferMax)
      BY <2>1
    <3>2. kept = SubSeq(s, (n - BufferMax) + 1, n)
      BY <1>1, <2>1 DEF KeepNewest
    <3> QED
      BY <3>1, <3>2
  <2>2. CASE ~(n > BufferMax)
    <3>1. n = n + 0 /\ n <= BufferMax /\ kept = s
      BY <1>1, <2>2 DEF KeepNewest
    <3> QED
      BY <3>1
  <2> QED
    BY <2>1, <2>2
<1> HIDE DEF kept
<1>3. /\ kept \in Seq(Sample) /\ Len(kept) = m
      /\ \A i \in 1 .. m : kept[i] = s[i + d]
  <2>1. CASE d > 0
    <3>1. kept = SubSeq(s, d + 1, n) /\ d + 1 \in Int /\ n \in Int
      BY <1>2, <2>1
    <3>2. \A i \in d + 1 .. n : s[i] \in Sample
      BY <1>1
    <3>3. /\ kept \in Seq(Sample)
          /\ Len(kept) = IF d + 1 <= n THEN n - (d + 1) + 1 ELSE 0
          /\ \A i \in 1 .. n - (d + 1) + 1 : kept[i] = s[d + 1 + i - 1]
      BY <3>1, <3>2, SubSeqProperties
    <3>4. m > 0 /\ n - (d + 1) + 1 = m /\ d + 1 <= n
      BY <1>2, <2>1
    <3>5. \A i \in 1 .. m : d + 1 + i - 1 = i + d
      OBVIOUS
    <3> QED
      BY <3>3, <3>4, <3>5
  <2>2. CASE d = 0
    <3>1. kept = s /\ m = n
      BY <1>2, <2>2
    <3> QED
      BY <1>1, <2>2, <3>1
  <2> QED
    BY <2>1, <2>2
<1>4. DOMAIN kept = 1 .. m
  BY <1>3, LenProperties
<1>5. \A i \in 1 .. m : i + d \in 1 .. n /\ kept[i] = s[i + d]
  BY <1>2, <1>3
<1>6. Elements(kept) \subseteq Elements(s)
  BY <1>1, <1>4, <1>5 DEF Elements
<1>7. Buckets(kept) \subseteq Buckets(s)
  BY <1>1, <1>4, <1>5 DEF Buckets
<1>8. ASSUME Ordered(s) PROVE Ordered(kept)
  <2> SUFFICES ASSUME NEW i \in 1 .. m, NEW j \in 1 .. m, i < j
               PROVE  kept[i].at <= kept[j].at /\ kept[i].seq < kept[j].seq
    BY <1>4 DEF Ordered
  <2> DEFINE a == i + d
             b == j + d
  <2>1. /\ a \in DOMAIN s /\ kept[i] = s[a]
        /\ b \in DOMAIN s /\ kept[j] = s[b]
    BY <1>1, <1>5
  <2>2. a < b
    OBVIOUS
  <2> HIDE DEF a, b
  <2> QED
    BY <1>8, <2>1, <2>2 DEF Ordered
<1>9. ASSUME Ordered(s), NEW b \in Overflow(s)
      PROVE  Len(kept) = BufferMax /\ \A x \in Elements(kept) : b <= x.at
  <2>1. PICK i \in 1 .. n : b = s[i].at
    BY <1>1, <1>9 DEF Overflow, Buckets
  <2>2. b \notin Buckets(kept)
    BY <1>9 DEF Overflow, kept
  <2>3. i <= d
    <3> SUFFICES ASSUME i > d PROVE FALSE
      OBVIOUS
    <3>1. PICK j \in 1 .. m : j + d = i
      <4>1. i - d \in 1 .. m /\ (i - d) + d = i
        BY <1>2
      <4> QED
        BY <4>1
    <3>2. kept[j] = s[i] /\ j \in DOMAIN kept
      BY <1>4, <1>5, <3>1
    <3> QED
      BY <2>1, <2>2, <3>2 DEF Buckets
  <2>4. Len(kept) = BufferMax
    BY <1>2, <1>3, <2>3
  <2>5. ASSUME NEW j \in 1 .. m PROVE b <= kept[j].at
    <3> DEFINE a == j + d
    <3>1. a \in DOMAIN s /\ kept[j] = s[a] /\ i < a
      BY <1>1, <1>2, <1>5, <2>3
    <3> HIDE DEF a
    <3> QED
      BY <1>1, <1>9, <2>1, <3>1 DEF Ordered
  <2> QED
    BY <1>4, <2>4, <2>5 DEF Elements
<1> QED
  BY <1>2, <1>3, <1>6, <1>7, <1>8, <1>9 DEF kept

\* A sample is put behind the others, or in the place of the last one when
\* they share a bucket: no bucket goes and one comes.
LEMMA PutFacts ==
  ASSUME NEW s \in Seq(Sample), NEW x \in Sample
  PROVE  /\ Put(s, x) \in Seq(Sample)
         /\ Elements(Put(s, x)) \subseteq Elements(s) \cup {x}
         /\ Buckets(Put(s, x)) = Buckets(s) \cup {x.at}
         /\ Ordered(s) /\ (\A y \in Elements(s) : y.at <= x.at /\ y.seq < x.seq) =>
              Ordered(Put(s, x))
<1> DEFINE p == Put(s, x)
<1>1. Len(s) \in Nat /\ DOMAIN s = 1 .. Len(s) /\ \A i \in 1 .. Len(s) : s[i] \in Sample
  BY LenProperties, ElementOfSeq
<1>2. PICK n \in Nat : /\ p \in Seq(Sample) /\ Len(p) = n /\ n > 0 /\ p[n] = x
                       /\ \A i \in 1 .. n - 1 : i \in 1 .. Len(s) /\ p[i] = s[i]
                       /\ \/ n = Len(s) + 1
                          \/ n = Len(s) /\ s[n].at = x.at
  <2>0. PICK l \in Nat : l = Len(s)
    BY <1>1
  <2>1. CASE SameBucket(s, x)
    <3>1. s # <<>> /\ s[l].at = x.at /\ p = [s EXCEPT ![l] = x]
      BY <2>0, <2>1 DEF SameBucket, Put
    <3>2. l \in 1 .. Len(s)
      BY <2>0, <3>1, EmptySeq
    <3>3. /\ p \in Seq(Sample) /\ Len(p) = Len(s)
          /\ \A i \in 1 .. Len(s) : p[i] = IF i = l THEN x ELSE s[i]
      BY <3>1, <3>2, ExceptSeq
    <3> HIDE DEF p
    <3>4. /\ Len(p) = l /\ l > 0 /\ p[l] = x
          /\ \A i \in 1 .. l - 1 : i \in 1 .. l /\ p[i] = s[i]
      BY <2>0, <3>2, <3>3
    <3> QED
      BY <2>0, <3>1, <3>3, <3>4
  <2>2. CASE ~SameBucket(s, x)
    <3>1. p = Append(s, x)
      BY <2>2 DEF Put
    <3>2. /\ p \in Seq(Sample) /\ Len(p) = l + 1
          /\ \A i \in 1 .. l : p[i] = s[i]
          /\ p[l + 1] = x
      BY <2>0, <3>1, AppendProperties
    <3> HIDE DEF p
    <3>3. PICK n \in Nat : n = l + 1
      OBVIOUS
    <3>4. n > 0 /\ p[n] = x /\ \A i \in 1 .. n - 1 : i \in 1 .. l /\ p[i] = s[i]
      BY <3>2, <3>3
    <3> QED
      BY <2>0, <3>2, <3>3, <3>4
  <2> QED
    BY <2>1, <2>2
<1> HIDE DEF p
<1>3. DOMAIN p = 1 .. n
  BY <1>2, LenProperties
<1>4. Elements(p) \subseteq Elements(s) \cup {x}
  <2> SUFFICES ASSUME NEW i \in 1 .. n PROVE p[i] \in Elements(s) \cup {x}
    BY <1>3 DEF Elements
  <2>1. i = n \/ i \in 1 .. n - 1
    BY <1>2
  <2> QED
    BY <1>1, <1>2, <2>1 DEF Elements
<1>5. Buckets(p) = Buckets(s) \cup {x.at}
  <2>1. ASSUME NEW b \in Buckets(p) PROVE b \in Buckets(s) \cup {x.at}
    <3>1. PICK i \in 1 .. n : b = p[i].at
      BY <1>3, <2>1 DEF Buckets
    <3>2. i = n \/ i \in 1 .. n - 1
      BY <1>2
    <3> QED
      BY <1>1, <1>2, <3>1, <3>2 DEF Buckets
  <2>2. x.at \in Buckets(p)
    BY <1>2, <1>3 DEF Buckets
  <2>3. ASSUME NEW b \in Buckets(s) PROVE b \in Buckets(p)
    <3>1. PICK i \in 1 .. Len(s) : b = s[i].at
      BY <1>1, <2>3 DEF Buckets
    <3>2. i \in 1 .. n /\ b = p[i].at
      <4>1. i \in 1 .. n - 1 \/ (i = n /\ s[n].at = x.at)
        BY <1>1, <1>2
      <4> QED
        BY <1>2, <3>1, <4>1
    <3> QED
      BY <1>3, <3>2 DEF Buckets
  <2> QED
    BY <2>1, <2>2, <2>3
<1>6. ASSUME Ordered(s), \A y \in Elements(s) : y.at <= x.at /\ y.seq < x.seq
      PROVE  Ordered(p)
  <2> SUFFICES ASSUME NEW i \in 1 .. n, NEW j \in 1 .. n, i < j
               PROVE  p[i].at <= p[j].at /\ p[i].seq < p[j].seq
    BY <1>3 DEF Ordered
  <2>1. i \in 1 .. Len(s) /\ p[i] = s[i]
    BY <1>2
  <2>2. CASE j = n
    BY <1>2, <1>6, <2>1, <2>2, ElementsFacts
  <2>3. CASE j # n
    <3>1. j \in 1 .. Len(s) /\ p[j] = s[j]
      BY <1>2, <2>3
    <3> QED
      BY <1>1, <1>6, <2>1, <3>1 DEF Ordered
  <2> QED
    BY <2>2, <2>3
<1> QED
  BY <1>2, <1>4, <1>5, <1>6 DEF p

\* The head of a sequence is its first element.
LEMMA HeadIsFirst ==
  ASSUME NEW S, NEW s \in Seq(S), s # <<>>
  PROVE  Head(s) = s[1]
OBVIOUS

\* The rest of a batch, when its first sample is stored.
LEMMA TailFacts ==
  ASSUME NEW s \in Seq(Sample), s # <<>>
  PROVE  /\ Head(s) \in Sample /\ Head(s) \in Elements(s)
         /\ Tail(s) \in Seq(Sample) /\ Len(Tail(s)) <= Len(s)
         /\ Elements(Tail(s)) \subseteq Elements(s)
         /\ Buckets(s) = {Head(s).at} \cup Buckets(Tail(s))
         /\ Ordered(s) => Ordered(Tail(s))
<1> DEFINE t == Tail(s)
<1>1. Len(s) \in Nat /\ DOMAIN s = 1 .. Len(s) /\ Len(s) > 0
  BY LenProperties, EmptySeq
<1>2. /\ Head(s) \in Sample /\ Head(s) = s[1]
      /\ t \in Seq(Sample) /\ Len(t) = Len(s) - 1
      /\ \A i \in 1 .. Len(t) : t[i] = s[i + 1]
  <2>1. Head(s) = s[1]
    BY HeadIsFirst
  <2>2. /\ Head(s) \in Sample
        /\ t \in Seq(Sample) /\ Len(t) = Len(s) - 1
        /\ \A i \in 1 .. Len(t) : t[i] = s[i + 1]
    BY HeadTailProperties
  <2> QED
    BY <2>1, <2>2
<1> HIDE DEF t
<1>3. DOMAIN t = 1 .. Len(s) - 1
  BY <1>2, LenProperties
<1>4. \A i \in 1 .. Len(s) - 1 : i + 1 \in 1 .. Len(s) /\ t[i] = s[i + 1]
  BY <1>1, <1>2
<1>5. Head(s) \in Elements(s)
  BY <1>1, <1>2 DEF Elements
<1>6. Elements(t) \subseteq Elements(s)
  BY <1>1, <1>3, <1>4 DEF Elements
<1>7. Buckets(s) = {Head(s).at} \cup Buckets(t)
  <2>1. ASSUME NEW b \in Buckets(s) PROVE b \in {Head(s).at} \cup Buckets(t)
    <3>1. PICK i \in 1 .. Len(s) : b = s[i].at
      BY <1>1, <2>1 DEF Buckets
    <3>2. CASE i = 1
      BY <1>2, <3>1, <3>2
    <3>3. CASE i # 1
      <4> DEFINE j == i - 1
      <4>1. j \in DOMAIN t /\ t[j] = s[i]
        <5>1. j \in 1 .. Len(s) - 1 /\ j + 1 = i
          BY <1>1, <3>3
        <5> QED
          BY <1>3, <1>4, <5>1
      <4> HIDE DEF j
      <4> QED
        BY <3>1, <4>1 DEF Buckets
    <3> QED
      BY <3>2, <3>3
  <2>2. ASSUME NEW b \in Buckets(t) PROVE b \in Buckets(s)
    BY <1>1, <1>3, <1>4, <2>2 DEF Buckets
  <2>3. Head(s).at \in Buckets(s)
    BY <1>1, <1>2 DEF Buckets
  <2> QED
    BY <2>1, <2>2, <2>3
<1>8. ASSUME Ordered(s) PROVE Ordered(t)
  <2> SUFFICES ASSUME NEW i \in 1 .. Len(s) - 1, NEW j \in 1 .. Len(s) - 1, i < j
               PROVE  t[i].at <= t[j].at /\ t[i].seq < t[j].seq
    BY <1>3 DEF Ordered
  <2> DEFINE a == i + 1
             b == j + 1
  <2>1. a \in DOMAIN s /\ t[i] = s[a] /\ b \in DOMAIN s /\ t[j] = s[b] /\ a < b
    BY <1>1, <1>4
  <2> HIDE DEF a, b
  <2> QED
    BY <1>8, <2>1 DEF Ordered
<1> QED
  BY <1>1, <1>2, <1>5, <1>6, <1>7, <1>8 DEF t

-----------------------------------------------------------------------------
(* The invariants of the flushers.                                         *)

\* A sample is in hand only after it was counted.
Typed ==
  /\ TypeOK
  /\ pc["collector"] = "gathered" => taken > 0

\* The flushers keep the types, and no more than the buffer may hold.
LEMMA TypedInvariant == Spec => []Typed
<1> USE DEF Flushers
<1>1. Init => Typed
  <2> SUFFICES ASSUME Init PROVE Typed
    OBVIOUS
  <2>1. finalFailed \in BOOLEAN
    BY DEF Init
  <2>2. <<>> \in Seq(Sample) /\ Len(<<>>) = 0
    BY EmptySeq
  <2>3. NoSample \in Sample
    BY SampleFacts
  <2> HIDE DEF Sample, NoSample
  <2> QED
    BY <2>1, <2>2, <2>3 DEF Init, Typed, TypeOK
<1>2. Typed /\ [Next]_vars => Typed'
  <2> SUFFICES ASSUME Typed, [Next]_vars PROVE Typed'
    OBVIOUS
  <2> DEFINE Places == {"idle", "gathered", "check", "wait", "flush", "done"}
  <2>0. /\ clock \in Nat /\ taken \in Nat /\ finalSeq \in Nat /\ crashes \in Nat
        /\ pc \in [Flushers -> Places]
        /\ gathered \in Sample /\ buffer \in Seq(Sample)
        /\ batch \in [Flushers -> Seq(Sample)]
        /\ lastCleanup \in Nat \cup {Never}
    BY DEF Typed, TypeOK
  <2>e. <<>> \in Seq(Sample) /\ Len(<<>>) = 0
    BY EmptySeq
  <2> USE DEF Typed, TypeOK, Goto, history, flushVars
  <2> HIDE DEF Sample, NoSample, Never
  <2>1. CASE Collect
    <3>1. taken' = taken + 1 /\ gathered' = [at |-> clock, seq |-> taken + 1]
      BY <2>1 DEF Collect
    <3>2. gathered' \in Sample /\ taken' \in Nat /\ taken' > 0
      BY <2>0, <3>1, SampleFacts
    <3>3. pc' \in [Flushers -> Places]
      BY <2>0, <2>1 DEF Collect
    <3>4. UNCHANGED <<clock, buffer, flushVars, seen, lost, finalSeq, finalFailed, crashes>>
      BY <2>1 DEF Collect
    <3> QED
      BY <3>2, <3>3, <3>4
  <2>2. CASE AppendSample
    <3>1. /\ Put(buffer, gathered) \in Seq(Sample)
          /\ buffer' = KeepNewest(Put(buffer, gathered))
      BY <2>0, <2>2, PutFacts DEF AppendSample
    <3>2. buffer' \in Seq(Sample) /\ Len(buffer') <= BufferMax
      BY <3>1, KeepFacts
    <3>3. /\ gathered.at \in Nat
          /\ Buckets(Put(buffer, gathered)) \subseteq Nat
      BY <2>0, <3>1, BucketsFacts, SampleFacts
    <3>4. seen' \subseteq Nat /\ lost' \subseteq Nat
      BY <2>2, <3>3 DEF AppendSample, Overflow
    <3>5. pc' \in [Flushers -> Places] /\ pc'["collector"] = "check"
      BY <2>0, <2>2 DEF AppendSample
    <3>6. UNCHANGED <<clock, gathered, flushVars, taken, finalSeq, finalFailed, crashes>>
      BY <2>2 DEF AppendSample
    <3> QED
      BY <3>2, <3>4, <3>5, <3>6
  <2>3. CASE CheckLength
    <3>1. pc' \in [Flushers -> Places] /\ pc'["collector"] # "gathered"
      BY <2>0, <2>3 DEF CheckLength
    <3>2. UNCHANGED <<clock, gathered, buffer, flushVars, history>>
      BY <2>3 DEF CheckLength
    <3> QED
      BY <3>1, <3>2
  <2>4. CASE TickerFires \/ TickerStops \/ BeginShutdown
    <3>1. pc' \in [Flushers -> Places] /\ pc'["collector"] = pc["collector"]
      BY <2>0, <2>4 DEF TickerFires, TickerStops, BeginShutdown
    <3>2. UNCHANGED <<clock, gathered, buffer, flushVars, history>>
      BY <2>4 DEF TickerFires, TickerStops, BeginShutdown
    <3> QED
      BY <3>1, <3>2
  <2>5. ASSUME NEW f \in Flushers, TakeBatch(f) PROVE Typed'
    <3>1. pc' \in [Flushers -> Places] /\ (pc'["collector"] = "gathered" =>
                                            pc["collector"] = "gathered")
      BY <2>0, <2>5 DEF TakeBatch
    <3>2. AppendedSoFar \in Nat
      BY <2>0 DEF AppendedSoFar
    <3>3. finalSeq' \in Nat
      BY <2>0, <2>5, <3>2 DEF TakeBatch
    <3>4. /\ batch' \in [Flushers -> Seq(Sample)]
          /\ \A g \in Flushers : Len(batch'[g]) <= BufferMax
      BY <2>0, <2>5 DEF TakeBatch
    <3>5. /\ flushMu' = f /\ buffer' = <<>>
          /\ UNCHANGED <<clock, gathered, rows, lastCleanup, taken, seen, lost, finalFailed,
                         crashes>>
      BY <2>5 DEF TakeBatch
    <3> QED
      BY <2>e, <3>1, <3>3, <3>4, <3>5
  <2>6. ASSUME NEW f \in Flushers, StoreOne(f) PROVE Typed'
    <3>1. batch[f] \in Seq(Sample) /\ batch[f] # <<>>
      BY <2>0, <2>6 DEF StoreOne
    <3>2. /\ Head(batch[f]) \in Sample
          /\ Tail(batch[f]) \in Seq(Sample) /\ Len(Tail(batch[f])) <= Len(batch[f])
      BY <3>1, TailFacts
    <3>3. batch' = [batch EXCEPT ![f] = Tail(batch[f])]
      BY <2>6 DEF StoreOne
    <3>4. /\ batch' \in [Flushers -> Seq(Sample)]
          /\ \A g \in Flushers : Len(batch'[g]) <= BufferMax
      <4>1. Len(batch[f]) \in Nat /\ Len(Tail(batch[f])) \in Nat /\ Len(batch[f]) <= BufferMax
        BY <3>1, <3>2, LenProperties
      <4>2. Len(Tail(batch[f])) <= BufferMax
        BY <3>2, <4>1
      <4> QED
        BY <2>0, <3>2, <3>3, <4>2
    <3>5. rows' \subseteq Sample /\ lastCleanup' \in Nat \cup {Never}
      BY <2>0, <2>6, <3>2 DEF StoreOne, Upsert
    <3>6. UNCHANGED <<clock, pc, gathered, buffer, flushMu, history>>
      BY <2>6 DEF StoreOne
    <3> QED
      BY <3>4, <3>5, <3>6
  <2>7. ASSUME NEW f \in Flushers, StoreFails(f) PROVE Typed'
    <3>1. batch[f] \o buffer \in Seq(Sample) /\ buffer' = KeepNewest(batch[f] \o buffer)
      BY <2>0, <2>7, ConcatElements DEF StoreFails, Requeue
    <3>2. buffer' \in Seq(Sample) /\ Len(buffer') <= BufferMax
      BY <3>1, KeepFacts
    <3>3. lost' \subseteq Nat
      <4>1. Buckets(batch[f] \o buffer) \subseteq Nat
        BY <3>1, BucketsFacts
      <4> QED
        BY <2>7, <4>1 DEF StoreFails, Overflow, Requeue
    <3>4. /\ batch' \in [Flushers -> Seq(Sample)]
          /\ \A g \in Flushers : Len(batch'[g]) <= BufferMax
      BY <2>0, <2>7, <2>e DEF StoreFails
    <3>5. finalFailed' \in BOOLEAN
      BY <2>7 DEF StoreFails
    <3>6. pc' \in [Flushers -> Places] /\ (pc'["collector"] = "gathered" =>
                                            pc["collector"] = "gathered")
      BY <2>0, <2>7 DEF StoreFails, AfterFlush
    <3>7. /\ flushMu' = Nobody
          /\ UNCHANGED <<clock, gathered, rows, lastCleanup, taken, seen, finalSeq, crashes>>
      BY <2>7 DEF StoreFails
    <3> QED
      BY <3>2, <3>3, <3>4, <3>5, <3>6, <3>7
  <2>8. ASSUME NEW f \in Flushers, EndFlush(f) PROVE Typed'
    <3>1. pc' \in [Flushers -> Places] /\ (pc'["collector"] = "gathered" =>
                                            pc["collector"] = "gathered")
      BY <2>0, <2>8 DEF EndFlush, AfterFlush
    <3>2. /\ flushMu' = Nobody
          /\ UNCHANGED <<clock, gathered, buffer, batch, rows, lastCleanup, history>>
      BY <2>8 DEF EndFlush
    <3> QED
      BY <3>1, <3>2
  <2>9. CASE Tick
    <3>1. clock' \in Nat /\ UNCHANGED <<pc, gathered, buffer, flushVars, history>>
      BY <2>0, <2>9 DEF Tick
    <3> QED
      BY <3>1
  <2>10. CASE Restart
    <3>1. /\ pc' = [f \in Flushers |-> "idle"] /\ gathered' = NoSample /\ buffer' = <<>>
          /\ flushMu' = Nobody /\ batch' = [f \in Flushers |-> <<>>] /\ lastCleanup' = Never
          /\ finalSeq' = 0 /\ crashes' = crashes + 1
          /\ UNCHANGED <<clock, rows, taken, seen>>
      BY <2>10 DEF Restart
    <3>2. finalFailed' \in BOOLEAN
      BY <2>10 DEF Restart
    <3>3. lost' \subseteq Nat
      <4>1. ASSUME NEW s \in Seq(Sample) PROVE Buckets(s) \subseteq Nat
        BY <4>1, BucketsFacts
      <4>2. Buckets(buffer) \subseteq Nat /\ \A f \in Flushers : Buckets(batch[f]) \subseteq Nat
        BY <2>0, <4>1
      <4>3. lost \subseteq Nat /\ lost' = lost \cup InMemory
        BY <2>0, <2>10 DEF Restart
      <4> QED
        BY <4>2, <4>3 DEF InMemory
    <3> QED
      BY <2>0, <2>e, <3>1, <3>2, <3>3, SampleFacts
  <2>11. CASE UNCHANGED vars
    BY <2>11 DEF vars
  <2> QED
    BY <2>1, <2>2, <2>3, <2>4, <2>5, <2>6, <2>7, <2>8, <2>9, <2>10, <2>11 DEF Next, Flush
<1> QED
  BY <1>1, <1>2, PTL DEF Spec

\* The variables keep their types, and neither the buffer nor a batch grows
\* beyond the limit of the buffer.
THEOREM TypeCorrect == Spec => []TypeOK
<1>1. Typed => TypeOK
  BY DEF Typed
<1> QED
  BY <1>1, TypedInvariant, PTL

-----------------------------------------------------------------------------

\* Whoever flushes holds trendFlushMu, and nobody else has a batch.
LockInv ==
  \A f \in Flushers : /\ pc[f] = "flush" <=> flushMu = f
                      /\ pc[f] # "flush" => batch[f] = <<>>

\* LockInv is inductive, given the types.
LEMMA LockInvariant == Spec => []LockInv
<1> USE DEF Flushers, Nobody
<1>1. Init => LockInv
  BY DEF Init, LockInv
<1>2. Typed /\ LockInv /\ [Next]_vars => LockInv'
  <2> SUFFICES ASSUME Typed, LockInv, [Next]_vars PROVE LockInv'
    OBVIOUS
  <2>0. /\ pc \in [Flushers -> {"idle", "gathered", "check", "wait", "flush", "done"}]
        /\ batch \in [Flushers -> Seq(Sample)]
    BY DEF Typed, TypeOK
  <2> USE <2>0 DEF LockInv, Goto, history, flushVars
  <2>1. CASE Collect BY <2>1 DEF Collect
  <2>2. CASE AppendSample BY <2>2 DEF AppendSample
  <2>3. CASE CheckLength BY <2>3 DEF CheckLength
  <2>4. CASE TickerFires \/ TickerStops \/ BeginShutdown
    BY <2>4 DEF TickerFires, TickerStops, BeginShutdown
  <2>5. ASSUME NEW f \in Flushers, TakeBatch(f) PROVE LockInv'
    BY <2>5 DEF TakeBatch, FlushLockFree
  <2>6. ASSUME NEW f \in Flushers, StoreOne(f) PROVE LockInv'
    <3>1. /\ pc[f] = "flush" /\ UNCHANGED <<pc, flushMu>>
          /\ batch' = [batch EXCEPT ![f] = Tail(batch[f])]
      BY <2>6 DEF StoreOne
    <3> QED
      BY <3>1
  <2>7. ASSUME NEW f \in Flushers, StoreFails(f) PROVE LockInv'
    BY <2>7 DEF StoreFails, AfterFlush
  <2>8. ASSUME NEW f \in Flushers, EndFlush(f) PROVE LockInv'
    BY <2>8 DEF EndFlush, AfterFlush
  <2>9. CASE Tick BY <2>9 DEF Tick
  <2>10. CASE Restart BY <2>10 DEF Restart
  <2>11. CASE UNCHANGED vars BY <2>11 DEF vars
  <2> QED
    BY <2>1, <2>2, <2>3, <2>4, <2>5, <2>6, <2>7, <2>8, <2>9, <2>10, <2>11 DEF Next, Flush
<1> QED
  BY <1>1, <1>2, TypedInvariant, PTL DEF Spec

-----------------------------------------------------------------------------
(* What the steps do to the memory: the buffer and the batches.            *)

\* The samples in memory.
Memory == Elements(buffer) \cup UNION {Elements(batch[f]) : f \in Flushers}

\* AppendSample adds the sample in hand.
LEMMA AppendMemory ==
  ASSUME Typed, AppendSample
  PROVE  /\ batch' = batch
         /\ Elements(buffer') \subseteq Elements(buffer) \cup {gathered}
<1> HIDE DEF Sample
<1>1. buffer \in Seq(Sample) /\ gathered \in Sample
  BY DEF Typed, TypeOK
<1>2. /\ buffer' = KeepNewest(Put(buffer, gathered)) /\ batch' = batch
      /\ Put(buffer, gathered) \in Seq(Sample)
  BY <1>1, PutFacts DEF AppendSample, flushVars
<1>3. /\ Elements(KeepNewest(Put(buffer, gathered))) \subseteq Elements(Put(buffer, gathered))
      /\ Elements(Put(buffer, gathered)) \subseteq Elements(buffer) \cup {gathered}
  BY <1>1, <1>2, PutFacts, KeepFacts
<1> QED
  BY <1>2, <1>3

\* TakeBatch moves the buffer into the batch of the flusher, which was empty.
LEMMA TakeMemory ==
  ASSUME Typed, LockInv, NEW f \in Flushers, TakeBatch(f)
  PROVE  /\ buffer' = <<>> /\ batch'[f] = buffer
         /\ \A g \in Flushers : batch[g] = <<>>
         /\ \A g \in Flushers \ {f} : batch'[g] = <<>>
<1>1. \A g \in Flushers : batch[g] = <<>>
  BY DEF TakeBatch, FlushLockFree, LockInv, Flushers, Nobody
<1>2. buffer' = <<>> /\ batch' = [batch EXCEPT ![f] = buffer] /\ DOMAIN batch = Flushers
  BY DEF TakeBatch, Typed, TypeOK
<1> QED
  BY <1>1, <1>2

\* StoreOne takes the first sample out of the batch.
LEMMA StoreMemory ==
  ASSUME Typed, NEW f \in Flushers, StoreOne(f)
  PROVE  /\ buffer' = buffer
         /\ batch[f] \in Seq(Sample) /\ batch[f] # <<>>
         /\ batch'[f] = Tail(batch[f])
         /\ Elements(batch'[f]) \subseteq Elements(batch[f])
         /\ \A g \in Flushers \ {f} : batch'[g] = batch[g]
<1> HIDE DEF Sample
<1>1. /\ batch' = [batch EXCEPT ![f] = Tail(batch[f])] /\ DOMAIN batch = Flushers
      /\ buffer' = buffer /\ batch[f] \in Seq(Sample) /\ batch[f] # <<>>
  BY DEF StoreOne, Typed, TypeOK
<1>2. batch'[f] = Tail(batch[f])
  BY <1>1
<1>3. Elements(Tail(batch[f])) \subseteq Elements(batch[f])
  BY <1>1, TailFacts
<1> QED
  BY <1>1, <1>2, <1>3

\* StoreFails puts what is left of the batch in front of the buffer.
LEMMA FailMemory ==
  ASSUME Typed, LockInv, NEW f \in Flushers, StoreFails(f)
  PROVE  /\ batch[f] \o buffer \in Seq(Sample)
         /\ buffer' = KeepNewest(batch[f] \o buffer)
         /\ Elements(buffer') \subseteq Elements(batch[f]) \cup Elements(buffer)
         /\ batch'[f] = <<>>
         /\ \A g \in Flushers \ {f} : batch[g] = <<>> /\ batch'[g] = <<>>
<1> HIDE DEF Sample
<1>1. /\ batch' = [batch EXCEPT ![f] = <<>>] /\ DOMAIN batch = Flushers
      /\ buffer' = KeepNewest(batch[f] \o buffer)
      /\ batch[f] \in Seq(Sample) /\ buffer \in Seq(Sample)
  BY DEF StoreFails, Requeue, Typed, TypeOK
<1>2. \A g \in Flushers \ {f} : batch[g] = <<>>
  BY DEF StoreFails, LockInv, Flushers
<1>3. /\ batch[f] \o buffer \in Seq(Sample)
      /\ Elements(batch[f] \o buffer) = Elements(batch[f]) \cup Elements(buffer)
  BY <1>1, ConcatElements
<1>4. Elements(KeepNewest(batch[f] \o buffer)) \subseteq Elements(batch[f] \o buffer)
  BY <1>3, KeepFacts
<1> QED
  BY <1>1, <1>2, <1>3, <1>4

\* The steps that touch neither the buffer nor a batch.
Elsewhere ==
  \/ Collect \/ CheckLength \/ TickerFires \/ TickerStops \/ BeginShutdown
  \/ \E f \in Flushers : EndFlush(f)
  \/ Tick \/ UNCHANGED vars

\* They leave the memory as it is.
LEMMA ElsewhereMemory == Elsewhere => UNCHANGED <<buffer, batch>>
BY DEF Elsewhere, Collect, CheckLength, TickerFires, TickerStops, BeginShutdown, EndFlush,
       Tick, vars, flushVars

\* No step brings a sample into memory but the append of the one in hand.
LEMMA MemoryStep ==
  ASSUME Typed, LockInv, [Next]_vars
  PROVE  /\ Memory' \subseteq Memory \cup {gathered}
         /\ ~AppendSample => Memory' \subseteq Memory
<1> HIDE DEF Elements, Sample, Flushers
<1>1. CASE Elsewhere
  <2>1. Memory' = Memory
    BY <1>1, ElsewhereMemory DEF Memory, Elements
  <2> QED
    BY <2>1
<1>2. CASE AppendSample
  BY <1>2, AppendMemory DEF Memory
<1>3. ASSUME NEW f \in Flushers, TakeBatch(f) PROVE Memory' \subseteq Memory
  <2>1. /\ Elements(buffer') = {} /\ Elements(batch'[f]) = Elements(buffer)
        /\ \A g \in Flushers \ {f} : Elements(batch'[g]) = {}
    BY <1>3, TakeMemory, NoElements
  <2> QED
    BY <2>1 DEF Memory
<1>4. ASSUME NEW f \in Flushers, StoreOne(f) PROVE Memory' \subseteq Memory
  <2>1. /\ buffer' = buffer /\ Elements(batch'[f]) \subseteq Elements(batch[f])
        /\ \A g \in Flushers \ {f} : Elements(batch'[g]) = Elements(batch[g])
    BY <1>4, StoreMemory
  <2>2. \A g \in Flushers : Elements(batch'[g]) \subseteq Elements(batch[g])
    BY <2>1
  <2> QED
    BY <2>1, <2>2 DEF Memory
<1>5. ASSUME NEW f \in Flushers, StoreFails(f) PROVE Memory' \subseteq Memory
  <2>1. /\ Elements(buffer') \subseteq Elements(batch[f]) \cup Elements(buffer)
        /\ \A g \in Flushers : Elements(batch'[g]) = {}
    BY <1>5, FailMemory, NoElements
  <2> QED
    BY <2>1 DEF Memory
<1>6. CASE Restart
  <2>1. Elements(buffer') = {} /\ \A f \in Flushers : Elements(batch'[f]) = {}
    BY <1>6, NoElements DEF Restart
  <2> QED
    BY <2>1 DEF Memory
<1> QED
  BY <1>1, <1>2, <1>3, <1>4, <1>5, <1>6 DEF Next, Flush, Elsewhere

-----------------------------------------------------------------------------

\* No sample in memory is newer than the clock or than what was appended, and
\* none is newer than the one in hand.
AgeInv ==
  /\ pc["collector"] = "gathered" =>
       gathered.seq = taken /\ taken > 0 /\ gathered.at <= clock
  /\ \A x \in Memory :
       /\ x.at <= clock /\ x.seq <= AppendedSoFar
       /\ pc["collector"] = "gathered" => x.at <= gathered.at

\* AgeInv is inductive, given the types and the lock.
LEMMA AgeInvariant == Spec => []AgeInv
<1>1. Init => AgeInv
  <2> SUFFICES ASSUME Init PROVE AgeInv
    OBVIOUS
  <2>1. Memory = {}
    BY NoElements DEF Init, Memory
  <2> QED
    BY <2>1 DEF Init, AgeInv, Flushers
<1>2. Typed /\ LockInv /\ AgeInv /\ [Next]_vars => AgeInv'
  <2> SUFFICES ASSUME Typed, LockInv, AgeInv, [Next]_vars PROVE AgeInv'
    OBVIOUS
  <2>0. /\ clock \in Nat /\ taken \in Nat
        /\ pc \in [Flushers -> {"idle", "gathered", "check", "wait", "flush", "done"}]
        /\ gathered.at \in Nat
        /\ \A x \in Memory : x.at \in Nat /\ x.seq \in Nat
    <3>1. /\ buffer \in Seq(Sample) /\ \A f \in Flushers : batch[f] \in Seq(Sample)
          /\ gathered \in Sample
      BY DEF Typed, TypeOK
    <3>2. Memory \subseteq Sample
      BY <3>1, ElementsFacts DEF Memory
    <3> QED
      BY <3>1, <3>2, SampleFacts DEF Typed, TypeOK
  <2>m. ~AppendSample => Memory' \subseteq Memory
    BY MemoryStep
  <2> HIDE DEF Memory, Sample
  <2>f. ASSUME UNCHANGED <<clock, gathered, taken>>, ~AppendSample,
               pc'["collector"] = "gathered" <=> pc["collector"] = "gathered"
        PROVE  AgeInv'
    <3>1. AppendedSoFar' = AppendedSoFar
      BY <2>f DEF AppendedSoFar
    <3> QED
      BY <2>f, <2>m, <3>1 DEF AgeInv
  <2>1. CASE Collect
    <3>1. /\ pc["collector"] = "idle" /\ pc'["collector"] = "gathered"
          /\ clock' = clock /\ taken' = taken + 1
          /\ gathered' = [at |-> clock, seq |-> taken + 1]
      BY <2>0, <2>1 DEF Collect, Goto, Flushers
    <3>2. gathered'.at = clock /\ gathered'.seq = taken'
      BY <2>0, <3>1, SampleFacts
    <3>3. AppendedSoFar = taken /\ AppendedSoFar' = taken
      BY <2>0, <3>1 DEF AppendedSoFar
    <3>4. Memory' \subseteq Memory
      BY <2>1, <2>m, <3>1 DEF AppendSample
    <3> QED
      BY <2>0, <3>1, <3>2, <3>3, <3>4 DEF AgeInv
  <2>2. CASE AppendSample
    <3>1. /\ pc["collector"] = "gathered" /\ pc'["collector"] = "check"
          /\ UNCHANGED <<clock, taken>>
      BY <2>0, <2>2 DEF AppendSample, Goto, Flushers
    <3>2. AppendedSoFar = taken - 1 /\ AppendedSoFar' = taken
      BY <3>1 DEF AppendedSoFar
    <3>3. \A x \in Memory \cup {gathered} : x.at <= clock /\ x.seq <= taken
      BY <2>0, <3>1, <3>2 DEF AgeInv
    <3>4. Memory' \subseteq Memory \cup {gathered}
      BY MemoryStep
    <3> QED
      BY <3>1, <3>2, <3>3, <3>4 DEF AgeInv
  <2>3. CASE CheckLength \/ TickerFires \/ TickerStops \/ BeginShutdown
    <3>1. /\ UNCHANGED <<clock, gathered, taken>>
          /\ pc'["collector"] = "gathered" <=> pc["collector"] = "gathered"
          /\ pc["collector"] = "gathered" => pc' # [pc EXCEPT !["collector"] = "check"]
      BY <2>0, <2>3 DEF CheckLength, TickerFires, TickerStops, BeginShutdown, Goto, Flushers,
                        history
    <3> QED
      BY <2>f, <3>1 DEF AppendSample, Goto
  <2>4. ASSUME NEW f \in Flushers, Flush(f) PROVE AgeInv'
    <3>1. /\ UNCHANGED <<clock, gathered, taken>>
          /\ pc'["collector"] = "gathered" <=> pc["collector"] = "gathered"
          /\ pc["collector"] = "gathered" => pc' # [pc EXCEPT !["collector"] = "check"]
      BY <2>0, <2>4 DEF Flush, TakeBatch, StoreOne, StoreFails, EndFlush, Goto, Flushers,
                        history, AfterFlush
    <3> QED
      BY <2>f, <3>1 DEF AppendSample, Goto
  <2>5. CASE Tick
    <3>1. clock' = clock + 1 /\ UNCHANGED <<pc, gathered, taken>>
      BY <2>5 DEF Tick, history
    <3>2. AppendedSoFar' = AppendedSoFar /\ clock <= clock'
      BY <2>0, <3>1 DEF AppendedSoFar
    <3>3. Memory' \subseteq Memory
      BY <2>5, ElsewhereMemory DEF Elsewhere, Memory
    <3> QED
      BY <2>0, <3>1, <3>2, <3>3 DEF AgeInv
  <2>6. CASE Restart
    <3>1. pc'["collector"] = "idle"
      BY <2>6 DEF Restart, Flushers
    <3>2. Memory' = {}
      <4>1. Elements(buffer') = {} /\ \A f \in Flushers : Elements(batch'[f]) = {}
        BY <2>6, NoElements DEF Restart
      <4> QED
        BY <4>1 DEF Memory
    <3> QED
      BY <3>1, <3>2 DEF AgeInv
  <2>7. CASE UNCHANGED vars
    <3>1. Memory' = Memory /\ AppendedSoFar' = AppendedSoFar
      BY <2>7 DEF vars, flushVars, history, Memory, AppendedSoFar
    <3> QED
      BY <2>7, <3>1 DEF vars, history, AgeInv
  <2> QED
    BY <2>1, <2>2, <2>3, <2>4, <2>5, <2>6, <2>7 DEF Next
<1> QED
  BY <1>1, <1>2, TypedInvariant, LockInvariant, PTL DEF Spec

-----------------------------------------------------------------------------

\* The buffer is ordered, and so is each batch, which goes before the buffer.
OrderInv ==
  /\ Ordered(buffer)
  /\ \A f \in Flushers : Ordered(batch[f]) /\ Before(batch[f], buffer)

\* Nothing is out of order in the empty sequence, or before or after it.
LEMMA EmptyOrdered ==
  /\ Ordered(<<>>)
  /\ \A s : Before(<<>>, s) /\ Before(s, <<>>)
<1>1. Ordered(<<>>)
  BY NoElements, LenProperties, EmptySeq DEF Ordered
<1>2. Elements(<<>>) = {}
  BY NoElements
<1> QED
  BY <1>1, <1>2 DEF Before

\* The sample in hand is newer than all that is in memory.
LEMMA NewestInHand ==
  ASSUME Typed, AgeInv, pc["collector"] = "gathered"
  PROVE  \A x \in Memory : x.at <= gathered.at /\ x.seq < gathered.seq
<1>1. taken \in Nat /\ \A x \in Memory : x.seq \in Nat
  <2>1. buffer \in Seq(Sample) /\ \A f \in Flushers : batch[f] \in Seq(Sample)
    BY DEF Typed, TypeOK
  <2>2. Memory \subseteq Sample
    BY <2>1, ElementsFacts DEF Memory
  <2> QED
    BY <2>2, SampleFacts DEF Typed, TypeOK
<1>2. AppendedSoFar = taken - 1
  BY DEF AppendedSoFar
<1> QED
  BY <1>1, <1>2 DEF AgeInv

\* So the buffer is still in order when it has been put there.
LEMMA AppendOrdered ==
  ASSUME Typed, AgeInv, OrderInv, pc["collector"] = "gathered"
  PROVE  Put(buffer, gathered) \in Seq(Sample) /\ Ordered(Put(buffer, gathered))
<1>1. buffer \in Seq(Sample) /\ gathered \in Sample
  BY DEF Typed, TypeOK
<1>2. \A y \in Elements(buffer) : y.at <= gathered.at /\ y.seq < gathered.seq
  BY NewestInHand DEF Memory
<1> QED
  BY <1>1, <1>2, PutFacts DEF OrderInv

\* OrderInv is inductive, given the types, the lock and the ages.
LEMMA OrderInvariant == Spec => []OrderInv
<1>1. Init => OrderInv
  BY EmptyOrdered DEF Init, OrderInv
<1>2. Typed /\ LockInv /\ AgeInv /\ OrderInv /\ [Next]_vars => OrderInv'
  <2> SUFFICES ASSUME Typed, LockInv, AgeInv, OrderInv, [Next]_vars PROVE OrderInv'
    OBVIOUS
  <2>0. /\ buffer \in Seq(Sample) /\ \A f \in Flushers : batch[f] \in Seq(Sample)
        /\ gathered \in Sample
    BY DEF Typed, TypeOK
  <2> HIDE DEF Sample, Elements, Ordered, Flushers
  <2>1. CASE Elsewhere
    BY <2>1, ElsewhereMemory DEF OrderInv, Before
  <2>2. CASE AppendSample
    <3>1. pc["collector"] = "gathered" /\ buffer' = KeepNewest(Put(buffer, gathered))
      BY <2>2 DEF AppendSample
    <3>2. \A x \in Memory : x.at <= gathered.at /\ x.seq < gathered.seq
      BY <3>1, NewestInHand
    <3>3. Put(buffer, gathered) \in Seq(Sample) /\ Ordered(Put(buffer, gathered))
      BY <3>1, AppendOrdered
    <3>4. Ordered(buffer')
      BY <3>1, <3>3, KeepFacts
    <3>5. batch' = batch /\ Elements(buffer') \subseteq Elements(buffer) \cup {gathered}
      BY <2>2, AppendMemory
    <3>6. ASSUME NEW f \in Flushers PROVE Ordered(batch'[f]) /\ Before(batch'[f], buffer')
      BY <3>2, <3>5 DEF OrderInv, Before, Memory
    <3> QED
      BY <3>4, <3>6 DEF OrderInv, Before
  <2>3. ASSUME NEW f \in Flushers, TakeBatch(f) PROVE OrderInv'
    <3>1. buffer' = <<>> /\ Ordered(buffer')
      BY <2>3, TakeMemory, EmptyOrdered
    <3>2. ASSUME NEW g \in Flushers PROVE Ordered(batch'[g]) /\ Before(batch'[g], buffer')
      <4>1. batch'[g] = buffer \/ batch'[g] = <<>>
        BY <2>3, TakeMemory
      <4> QED
        BY <3>1, <4>1, EmptyOrdered DEF OrderInv
    <3> QED
      BY <3>1, <3>2 DEF OrderInv, Before
  <2>4. ASSUME NEW f \in Flushers, StoreOne(f) PROVE OrderInv'
    <3>1. /\ buffer' = buffer /\ batch'[f] = Tail(batch[f])
          /\ batch[f] \in Seq(Sample) /\ batch[f] # <<>>
          /\ Elements(batch'[f]) \subseteq Elements(batch[f])
          /\ \A g \in Flushers \ {f} : batch'[g] = batch[g]
      BY <2>4, StoreMemory
    <3>2. Ordered(batch'[f])
      BY <3>1, TailFacts DEF OrderInv
    <3>3. ASSUME NEW g \in Flushers PROVE Ordered(batch'[g]) /\ Before(batch'[g], buffer')
      BY <3>1, <3>2 DEF OrderInv, Before
    <3> QED
      BY <3>1, <3>3 DEF OrderInv, Before
  <2>5. ASSUME NEW f \in Flushers, StoreFails(f) PROVE OrderInv'
    <3>1. /\ batch[f] \o buffer \in Seq(Sample)
          /\ buffer' = KeepNewest(batch[f] \o buffer)
          /\ \A g \in Flushers : batch'[g] = <<>>
      BY <2>5, FailMemory
    <3>2. Ordered(batch[f] \o buffer)
      BY <2>0, ConcatOrdered DEF OrderInv
    <3>3. Ordered(buffer')
      BY <3>1, <3>2, KeepFacts
    <3>4. ASSUME NEW g \in Flushers PROVE Ordered(batch'[g]) /\ Before(batch'[g], buffer')
      BY <3>1, EmptyOrdered
    <3> QED
      BY <3>3, <3>4 DEF OrderInv, Before
  <2>6. CASE Restart
    <3>1. buffer' = <<>> /\ \A g \in Flushers : batch'[g] = <<>>
      BY <2>6 DEF Restart
    <3>2. ASSUME NEW g \in Flushers PROVE Ordered(batch'[g]) /\ Before(batch'[g], buffer')
      BY <3>1, EmptyOrdered
    <3> QED
      BY <3>1, <3>2, EmptyOrdered DEF OrderInv, Before
  <2> QED
    BY <2>1, <2>2, <2>3, <2>4, <2>5, <2>6 DEF Next, Flush, Elsewhere
<1> QED
  BY <1>1, <1>2, TypedInvariant, LockInvariant, AgeInvariant, PTL DEF Spec

\* What the flushers and the buffer hold is in the order of collection.
THEOREM OrderKept == Spec => []SamplesInOrder
<1>1. Typed /\ OrderInv => SamplesInOrder
  BY ConcatOrdered DEF Typed, TypeOK, OrderInv, SamplesInOrder
<1> QED
  BY <1>1, TypedInvariant, OrderInvariant, PTL

-----------------------------------------------------------------------------

\* Once Shutdown has taken its batch, and while its flush has not failed,
\* what was appended before is in its own batch or no longer in memory.
FinalInv ==
  /\ finalSeq <= AppendedSoFar
  /\ pc["shutdown"] \in {"flush", "done"} /\ ~finalFailed =>
       /\ \A x \in Elements(buffer) : x.seq > finalSeq
       /\ \A f \in Flushers \ {"shutdown"} : \A x \in Elements(batch[f]) : x.seq > finalSeq

\* FinalInv is inductive, given the types, the lock and the ages.
LEMMA FinalInvariant == Spec => []FinalInv
<1>1. Init => FinalInv
  BY DEF Init, FinalInv, AppendedSoFar, Flushers
<1>2. Typed /\ LockInv /\ AgeInv /\ FinalInv /\ [Next]_vars => FinalInv'
  <2> SUFFICES ASSUME Typed, LockInv, AgeInv, FinalInv, [Next]_vars PROVE FinalInv'
    OBVIOUS
  <2>0. /\ pc \in [Flushers -> {"idle", "gathered", "check", "wait", "flush", "done"}]
        /\ taken \in Nat /\ finalSeq \in Nat
        /\ "shutdown" \in Flushers /\ "collector" \in Flushers
    BY DEF Typed, TypeOK, Flushers
  <2>1. CASE Elsewhere
    <3>1. UNCHANGED <<buffer, batch, finalSeq, finalFailed>>
      BY <2>1, ElsewhereMemory DEF Elsewhere, Collect, CheckLength, TickerFires, TickerStops,
         BeginShutdown, EndFlush, Tick, vars, history
    <3>2. pc'["shutdown"] \in {"flush", "done"} => pc["shutdown"] \in {"flush", "done"}
      BY <2>0, <2>1 DEF Elsewhere, Collect, CheckLength, TickerFires, TickerStops,
         BeginShutdown, EndFlush, AfterFlush, Tick, vars, Goto, Flushers
    <3>3. AppendedSoFar' = AppendedSoFar
      BY <2>0, <2>1 DEF Elsewhere, Collect, CheckLength, TickerFires, TickerStops,
         BeginShutdown, EndFlush, AfterFlush, Tick, vars, history, Goto, Flushers, AppendedSoFar
    <3> QED
      BY <3>1, <3>2, <3>3 DEF FinalInv, Elements
  <2>2. CASE AppendSample
    <3>1. /\ UNCHANGED <<finalSeq, finalFailed, taken>>
          /\ pc["collector"] = "gathered" /\ pc'["collector"] = "check"
          /\ pc'["shutdown"] = pc["shutdown"]
      BY <2>0, <2>2 DEF AppendSample, Goto
    <3>2. AppendedSoFar = taken - 1 /\ AppendedSoFar' = taken /\ gathered.seq = taken
      BY <3>1 DEF AppendedSoFar, AgeInv
    <3>3. finalSeq <= taken - 1
      BY <3>2 DEF FinalInv
    <3>4. gathered.seq > finalSeq /\ finalSeq <= taken
      BY <2>0, <3>2, <3>3
    <3>5. batch' = batch /\ Elements(buffer') \subseteq Elements(buffer) \cup {gathered}
      BY <2>2, AppendMemory
    <3> HIDE DEF Elements
    <3> QED
      BY <3>1, <3>2, <3>4, <3>5 DEF FinalInv
  <2>3. ASSUME NEW f \in Flushers, TakeBatch(f) PROVE FinalInv'
    <3>1. /\ Elements(buffer') = {}
          /\ \A g \in Flushers \ {f} : Elements(batch'[g]) = {}
          /\ Elements(batch'[f]) = Elements(buffer)
      BY <2>3, TakeMemory, NoElements
    <3>2. AppendedSoFar' = AppendedSoFar
      BY <2>0, <2>3 DEF TakeBatch, Goto, AppendedSoFar
    <3>3. CASE f = "shutdown"
      <4>1. finalSeq' = AppendedSoFar /\ AppendedSoFar \in Int
        BY <2>0, <2>3, <3>3 DEF TakeBatch, AppendedSoFar
      <4> HIDE DEF Elements
      <4> QED
        BY <3>1, <3>2, <3>3, <4>1 DEF FinalInv
    <3>4. CASE f # "shutdown"
      <4>1. UNCHANGED <<finalSeq, finalFailed>> /\ pc'["shutdown"] = pc["shutdown"]
        BY <2>0, <2>3, <3>4 DEF TakeBatch, Goto
      <4> HIDE DEF Elements
      <4> QED
        BY <3>1, <3>2, <4>1 DEF FinalInv
    <3> QED
      BY <3>3, <3>4
  <2>4. ASSUME NEW f \in Flushers, StoreOne(f) PROVE FinalInv'
    <3>1. UNCHANGED <<pc, finalSeq, finalFailed, taken>>
      BY <2>4 DEF StoreOne, history
    <3>2. AppendedSoFar' = AppendedSoFar
      BY <3>1 DEF AppendedSoFar
    <3>3. /\ buffer' = buffer
          /\ Elements(batch'[f]) \subseteq Elements(batch[f])
          /\ \A g \in Flushers \ {f} : batch'[g] = batch[g]
      BY <2>4, StoreMemory
    <3>4. /\ Elements(buffer') = Elements(buffer)
          /\ \A g \in Flushers : Elements(batch'[g]) \subseteq Elements(batch[g])
      BY <3>3
    <3> HIDE DEF Elements
    <3> QED
      BY <3>1, <3>2, <3>4 DEF FinalInv
  <2>5. ASSUME NEW f \in Flushers, StoreFails(f) PROVE FinalInv'
    <3>1. /\ UNCHANGED <<finalSeq, taken>> /\ pc[f] = "flush"
          /\ finalFailed' = (finalFailed \/ f = "shutdown")
          /\ pc' = [pc EXCEPT ![f] = AfterFlush(f)]
      BY <2>5 DEF StoreFails, Goto
    <3>2. AppendedSoFar' = AppendedSoFar
      BY <2>0, <3>1 DEF AppendedSoFar, AfterFlush
    <3>3. /\ Elements(buffer') \subseteq Elements(batch[f]) \cup Elements(buffer)
          /\ \A g \in Flushers : Elements(batch'[g]) = {}
      BY <2>5, FailMemory, NoElements
    <3>4. CASE f = "shutdown"
      BY <3>1, <3>2, <3>4 DEF FinalInv
    <3>5. CASE f # "shutdown"
      <4>1. pc'["shutdown"] = pc["shutdown"] /\ (~finalFailed' => ~finalFailed)
        BY <2>0, <3>1, <3>5
      <4> HIDE DEF Elements
      <4> QED
        BY <3>1, <3>2, <3>3, <3>5, <4>1 DEF FinalInv
    <3> QED
      BY <3>4, <3>5
  <2>6. CASE Restart
    <3>1. finalSeq' = 0 /\ pc'["shutdown"] = "idle" /\ pc'["collector"] = "idle" /\ taken' = taken
      BY <2>0, <2>6 DEF Restart
    <3>2. AppendedSoFar' = taken
      BY <3>1 DEF AppendedSoFar
    <3> QED
      BY <2>0, <3>1, <3>2 DEF FinalInv
  <2> QED
    BY <2>1, <2>2, <2>3, <2>4, <2>5, <2>6 DEF Next, Flush, Elsewhere
<1> QED
  BY <1>1, <1>2, TypedInvariant, LockInvariant, AgeInvariant, PTL DEF Spec

-----------------------------------------------------------------------------

\* Every bucket that got a sample can be accounted for.
BucketsInv ==
  \A b \in seen : \/ b \in InMemory \cup StoredBuckets \cup lost
                  \/ b < clock - Retention

\* A stored sample is in the table, and what the clean-up deletes with it is
\* past the retention.
LEMMA UpsertFacts ==
  ASSUME rows \subseteq Sample, Retention \in Nat, NEW x \in Sample, Upsert(x)
  PROVE  /\ x.at \in StoredBuckets'
         /\ \A r \in rows : r \in rows' \/ r.at < x.at - Retention
<1> DEFINE added == IF x.at \in StoredBuckets THEN rows ELSE rows \cup {x}
<1>1. \A r \in added : r.at \in Nat
  BY SampleFacts
<1>2. \/ rows' = {r \in added : r.at >= x.at - Retention}
      \/ rows' = added
  BY DEF Upsert, Cutoff
<1>3. rows \subseteq added /\ \E r \in added : r.at = x.at
  BY DEF StoredBuckets
<1> HIDE DEF added
<1>4. \A r \in added : r \in rows' \/ r.at < x.at - Retention
  BY <1>1, <1>2, SampleFacts
<1>5. \A r \in added : r.at = x.at => r \in rows'
  BY <1>1, <1>2, SampleFacts
<1>6. x.at \in StoredBuckets'
  BY <1>3, <1>5 DEF StoredBuckets
<1> QED
  BY <1>3, <1>4, <1>6

\* BucketsInv is inductive, given the types, the lock and the ages.
LEMMA BucketsInvariant == Spec => []BucketsInv
<1>1. Init => BucketsInv
  BY DEF Init, BucketsInv
<1>2. Typed /\ LockInv /\ AgeInv /\ BucketsInv /\ [Next]_vars => BucketsInv'
  <2> SUFFICES ASSUME Typed, LockInv, AgeInv, BucketsInv, [Next]_vars PROVE BucketsInv'
    OBVIOUS
  <2>0. /\ buffer \in Seq(Sample) /\ \A f \in Flushers : batch[f] \in Seq(Sample)
        /\ gathered \in Sample /\ rows \subseteq Sample
        /\ clock \in Nat /\ seen \subseteq Nat /\ Retention \in Nat
    BY DEF Typed, TypeOK
  <2> HIDE DEF Sample, Buckets, Flushers
  <2>a. ASSUME seen' = seen, clock' = clock,
               InMemory \cup StoredBuckets \cup lost
                 \subseteq (InMemory \cup StoredBuckets \cup lost)'
        PROVE  BucketsInv'
    BY <2>a DEF BucketsInv
  <2>1. CASE Elsewhere
    <3>1. InMemory' = InMemory
      BY <2>1, ElsewhereMemory DEF InMemory
    <3>2. UNCHANGED <<rows, seen, lost>> /\ clock' \in {clock, clock + 1}
      BY <2>1 DEF Elsewhere, Collect, CheckLength, TickerFires, TickerStops, BeginShutdown,
         EndFlush, Tick, vars, flushVars, history
    <3>3. ASSUME NEW b \in seen, b < clock - Retention PROVE b < clock' - Retention
      <4>1. b \in Nat /\ clock \in Nat
        BY <2>0
      <4>2. CASE clock' = clock
        BY <3>3, <4>2
      <4>3. CASE clock' = clock + 1
        BY <3>3, <4>1, <4>3
      <4> QED
        BY <3>2, <4>2, <4>3
    <3>4. StoredBuckets' = StoredBuckets
      BY <3>2 DEF StoredBuckets
    <3> QED
      BY <3>1, <3>2, <3>3, <3>4 DEF BucketsInv
  <2>2. CASE AppendSample
    <3>1. /\ batch' = batch /\ rows' = rows /\ clock' = clock
          /\ seen' = seen \cup {gathered.at}
          /\ buffer' = KeepNewest(Put(buffer, gathered))
          /\ lost' = lost \cup Overflow(Put(buffer, gathered))
      BY <2>2 DEF AppendSample, flushVars
    <3>2. Buckets(Put(buffer, gathered)) = Buckets(buffer) \cup {gathered.at}
      BY <2>0, PutFacts
    <3>3. Buckets(buffer) \cup {gathered.at} \subseteq Buckets(buffer') \cup lost'
      BY <3>1, <3>2 DEF Overflow
    <3>4. StoredBuckets' = StoredBuckets /\ \A f \in Flushers : Buckets(batch'[f]) = Buckets(batch[f])
      BY <3>1 DEF StoredBuckets
    <3>5. InMemory \cup lost \cup {gathered.at} \subseteq InMemory' \cup lost'
      BY <3>1, <3>3, <3>4 DEF InMemory
    <3> QED
      BY <3>1, <3>4, <3>5 DEF BucketsInv
  <2>3. ASSUME NEW f \in Flushers, TakeBatch(f) PROVE BucketsInv'
    <3>1. UNCHANGED <<rows, seen, lost, clock>>
      BY <2>3 DEF TakeBatch
    <3>2. /\ \A g \in Flushers : Buckets(batch[g]) = {}
          /\ Buckets(batch'[f]) = Buckets(buffer)
      BY <2>3, TakeMemory, NoElements
    <3>3. InMemory \subseteq InMemory'
      BY <3>2 DEF InMemory
    <3> QED
      BY <2>a, <3>1, <3>3 DEF StoredBuckets
  <2>4. ASSUME NEW f \in Flushers, StoreOne(f) PROVE BucketsInv'
    <3> DEFINE x == Head(batch[f])
    <3>1. UNCHANGED <<seen, lost, clock>> /\ Upsert(x)
      BY <2>4 DEF StoreOne, history
    <3>2. /\ buffer' = buffer /\ batch[f] \in Seq(Sample) /\ batch[f] # <<>>
          /\ batch'[f] = Tail(batch[f])
          /\ \A g \in Flushers \ {f} : batch'[g] = batch[g]
      BY <2>4, StoreMemory
    <3>3. /\ x \in Sample /\ x \in Elements(batch[f])
          /\ Buckets(batch[f]) = {x.at} \cup Buckets(batch'[f])
      BY <3>2, TailFacts
    <3>4. x.at <= clock /\ x.at \in Nat
      BY <3>3, SampleFacts DEF AgeInv, Memory
    <3> HIDE DEF x
    <3>5. /\ x.at \in StoredBuckets'
          /\ \A r \in rows : r \in rows' \/ r.at < x.at - Retention
      BY <2>0, <3>1, <3>3, UpsertFacts
    <3>6. InMemory \subseteq InMemory' \cup StoredBuckets'
      <4>1. \A g \in Flushers : Buckets(batch[g]) \subseteq Buckets(batch'[g]) \cup {x.at}
        BY <3>2, <3>3
      <4> QED
        BY <3>2, <3>5, <4>1 DEF InMemory
    <3>7. ASSUME NEW b \in StoredBuckets PROVE b \in StoredBuckets' \/ b < clock' - Retention
      <4>1. PICK r \in rows : r.at = b
        BY <3>7 DEF StoredBuckets
      <4>2. r.at \in Nat
        BY <2>0, SampleFacts
      <4>3. r \in rows' => b \in StoredBuckets'
        BY <4>1 DEF StoredBuckets
      <4>4. r.at < x.at - Retention => b < clock' - Retention
        BY <2>0, <3>1, <3>4, <4>1, <4>2
      <4> QED
        BY <3>5, <4>3, <4>4
    <3> QED
      BY <3>1, <3>6, <3>7 DEF BucketsInv
  <2>5. ASSUME NEW f \in Flushers, StoreFails(f) PROVE BucketsInv'
    <3>1. /\ UNCHANGED <<rows, seen, clock>>
          /\ lost' = lost \cup Overflow(batch[f] \o buffer)
          /\ buffer' = KeepNewest(batch[f] \o buffer)
          /\ Buckets(batch[f] \o buffer) = Buckets(batch[f]) \cup Buckets(buffer)
      BY <2>0, <2>5, ConcatElements DEF StoreFails, Requeue
    <3>2. \A g \in Flushers \ {f} : Buckets(batch[g]) = {}
      BY <2>5, FailMemory, NoElements
    <3>3. InMemory \subseteq Buckets(batch[f] \o buffer)
      BY <3>1, <3>2 DEF InMemory
    <3>4. Buckets(batch[f] \o buffer) \subseteq InMemory' \cup lost'
      BY <3>1 DEF InMemory, Overflow
    <3> QED
      BY <2>a, <3>1, <3>3, <3>4 DEF StoredBuckets
  <2>6. CASE Restart
    <3>1. UNCHANGED <<rows, seen, clock>> /\ lost' = lost \cup InMemory
      BY <2>6 DEF Restart
    <3> QED
      BY <2>a, <3>1 DEF StoredBuckets
  <2> QED
    BY <2>1, <2>2, <2>3, <2>4, <2>5, <2>6 DEF Next, Flush, Elsewhere
<1> QED
  BY <1>1, <1>2, TypedInvariant, LockInvariant, AgeInvariant, PTL DEF Spec

\* No failed insert and no interleaving of the flushers loses a bucket, and
\* nothing appended before a successful last flush is left in memory.
THEOREM NothingLost == Spec => []EveryBucketAccounted
<1>1. Typed /\ LockInv /\ FinalInv /\ BucketsInv => EveryBucketAccounted
  <2> SUFFICES ASSUME Typed, LockInv, FinalInv, BucketsInv PROVE EveryBucketAccounted
    OBVIOUS
  <2>1. ASSUME pc["shutdown"] = "done", ~finalFailed, NEW f \in Flushers,
               NEW i \in DOMAIN (batch[f] \o buffer)
        PROVE  (batch[f] \o buffer)[i].seq > finalSeq
    <3>1. buffer \in Seq(Sample) /\ batch[f] \in Seq(Sample)
      BY DEF Typed, TypeOK
    <3>2. (batch[f] \o buffer)[i] \in Elements(batch[f]) \cup Elements(buffer)
      <4>1. (batch[f] \o buffer)[i] \in Elements(batch[f] \o buffer)
        BY DEF Elements
      <4> QED
        BY <3>1, <4>1, ConcatElements
    <3>3. f = "shutdown" => Elements(batch[f]) = {}
      BY <2>1, NoElements DEF LockInv
    <3> QED
      BY <2>1, <3>2, <3>3 DEF FinalInv
  <2> QED
    BY <2>1 DEF EveryBucketAccounted, BucketsInv
<1> QED
  BY <1>1, TypedInvariant, LockInvariant, FinalInvariant, BucketsInvariant, PTL

-----------------------------------------------------------------------------

\* When the memory becomes what an overflow keeps of an ordered sequence, the
\* buffer is full and what was dropped is not newer than what is kept.
LEMMA OverflowDropsOldest ==
  ASSUME NEW s \in Seq(Sample), Ordered(s), buffer' = KeepNewest(s),
         lost' = lost \cup Overflow(s)
  PROVE  \A b \in lost' \ lost : /\ Len(buffer') = BufferMax
                                 /\ \A i \in DOMAIN buffer' : b <= buffer'[i].at
<1>1. \A i \in DOMAIN buffer' : buffer'[i] \in Elements(buffer')
  BY DEF Elements
<1> QED
  BY <1>1, KeepFacts

\* A row leaves the table only past its retention; a running process loses a
\* bucket only from a full buffer, and only one that is not newer than any it
\* keeps.
THEOREM OldestGo == Spec => OnlyTheOldestGo
<1> DEFINE RowsLeaveOld == \A r \in rows \ rows' : r.at < clock - Retention
           LossesAreOld == \A b \in lost' \ lost :
                             crashes' = crashes =>
                               /\ Len(buffer') = BufferMax
                               /\ \A i \in DOMAIN buffer' : b <= buffer'[i].at
<1>1. Typed /\ LockInv /\ AgeInv /\ OrderInv /\ [Next]_vars => RowsLeaveOld /\ LossesAreOld
  <2> SUFFICES ASSUME Typed, LockInv, AgeInv, OrderInv, [Next]_vars
               PROVE  RowsLeaveOld /\ LossesAreOld
    OBVIOUS
  <2>0. /\ buffer \in Seq(Sample) /\ \A f \in Flushers : batch[f] \in Seq(Sample)
        /\ rows \subseteq Sample /\ clock \in Nat /\ crashes \in Nat /\ Retention \in Nat
    BY DEF Typed, TypeOK
  <2> HIDE DEF Sample, Elements, Ordered, Flushers
  <2>a. ASSUME UNCHANGED <<rows, lost>> PROVE RowsLeaveOld /\ LossesAreOld
    BY <2>a
  <2>1. CASE Elsewhere
    <3>1. UNCHANGED <<rows, lost>>
      BY <2>1 DEF Elsewhere, Collect, CheckLength, TickerFires, TickerStops, BeginShutdown,
         EndFlush, Tick, vars, flushVars, history
    <3> QED
      BY <2>a, <3>1
  <2>2. CASE AppendSample
    <3>1. /\ pc["collector"] = "gathered" /\ rows' = rows
          /\ buffer' = KeepNewest(Put(buffer, gathered))
          /\ lost' = lost \cup Overflow(Put(buffer, gathered))
      BY <2>2 DEF AppendSample, flushVars
    <3>2. LossesAreOld
      BY <3>1, AppendOrdered, OverflowDropsOldest
    <3> QED
      BY <3>1, <3>2
  <2>3. ASSUME NEW f \in Flushers, TakeBatch(f) PROVE RowsLeaveOld /\ LossesAreOld
    BY <2>a, <2>3 DEF TakeBatch
  <2>4. ASSUME NEW f \in Flushers, StoreOne(f) PROVE RowsLeaveOld /\ LossesAreOld
    <3> DEFINE x == Head(batch[f])
    <3>1. lost' = lost /\ Upsert(x)
      BY <2>4 DEF StoreOne, history
    <3>2. batch[f] \in Seq(Sample) /\ batch[f] # <<>>
      BY <2>4, StoreMemory
    <3>3. x \in Sample /\ x \in Elements(batch[f])
      BY <3>2, TailFacts
    <3>4. x.at <= clock /\ x.at \in Nat
      BY <3>3, SampleFacts DEF AgeInv, Memory
    <3> HIDE DEF x
    <3>5. \A r \in rows : r \in rows' \/ r.at < x.at - Retention
      BY <2>0, <3>1, <3>3, UpsertFacts
    <3>6. ASSUME NEW r \in rows, r.at < x.at - Retention PROVE r.at < clock - Retention
      <4>1. r.at \in Nat
        BY <2>0, SampleFacts
      <4> QED
        BY <2>0, <3>4, <3>6, <4>1
    <3> QED
      BY <3>1, <3>5, <3>6
  <2>5. ASSUME NEW f \in Flushers, StoreFails(f) PROVE RowsLeaveOld /\ LossesAreOld
    <3>1. /\ rows' = rows
          /\ buffer' = KeepNewest(batch[f] \o buffer)
          /\ lost' = lost \cup Overflow(batch[f] \o buffer)
      BY <2>5 DEF StoreFails, Requeue
    <3>2. batch[f] \o buffer \in Seq(Sample) /\ Ordered(batch[f] \o buffer)
      BY <2>0, ConcatElements, ConcatOrdered DEF OrderInv
    <3>3. LossesAreOld
      BY <3>1, <3>2, OverflowDropsOldest
    <3> QED
      BY <3>1, <3>3
  <2>6. CASE Restart
    <3>1. rows' = rows /\ crashes' # crashes
      BY <2>0, <2>6 DEF Restart
    <3> QED
      BY <3>1
  <2> QED
    BY <2>1, <2>2, <2>3, <2>4, <2>5, <2>6 DEF Next, Flush, Elsewhere
<1> QED
  BY <1>1, TypedInvariant, LockInvariant, AgeInvariant, OrderInvariant, PTL
     DEF Spec, OnlyTheOldestGo

-----------------------------------------------------------------------------
(* The process that has the buffer (ServerLifecycle, here Life): its       *)
(* shutdown tells the collector and the flusher to stop, writes the buffer *)
(* a last time and closes the database.                                    *)

Life == INSTANCE ServerLifecycle

USE LifecycleAssumption DEF Life!Up, Life!Loops, Loops

\* The variables keep their types; a signal waits in one place at most.
THEOREM ProcessTypes ==
  Life!Spec => []LifecycleTypes
<1>1. Life!Init => LifecycleTypes
  <2>1. Life!Init => deadline \in BOOLEAN
    BY DEF Life!Init
  <2> QED
    BY <2>1 DEF Life!Init, LifecycleTypes
<1>2. LifecycleTypes /\ [Life!Next]_Life!vars => LifecycleTypes'
  <2> SUFFICES ASSUME LifecycleTypes, [Life!Next]_Life!vars PROVE LifecycleTypes'
    OBVIOUS
  <2>0. deadline' \in BOOLEAN
    BY Zenon DEF LifecycleTypes, Life!vars, Life!Next, Life!Start, Life!Main,
       Life!MakeServer, Life!StartLoop, Life!Listen, Life!ListenFails,
       Life!Report, Life!ServerClosed, Life!RequestArrives, Life!RequestEnds,
       Life!LoopEnds, Life!StartServer, Life!Notify, Life!Signal,
       Life!SelectResult, Life!SelectSignal, Life!Deadline, Life!StopLoop,
       Life!Flush, Life!CloseServer, Life!Drain, Life!Await, Life!CloseStore,
       Life!Exit
  <2>a. requests \in 0 .. MaxRequests /\ sigCh \in 0 .. 1
    BY DEF LifecycleTypes
  <2>b. requests' \in 0 .. MaxRequests /\ sigCh' \in 0 .. 1
    <3> HIDE DEF Life!Loops, Loops
    <3>1. CASE Life!RequestArrives BY <2>a, <3>1 DEF Life!RequestArrives
    <3>2. CASE Life!RequestEnds BY <2>a, <3>2 DEF Life!RequestEnds
    <3>3. CASE Life!Signal
      <4>1. requests' = requests BY <3>3 DEF Life!Signal
      <4>2. sigCh' = sigCh \/ sigCh' = 1 BY <3>3 DEF Life!Signal, Life!KeepOneSignal
      <4> QED BY <2>a, <4>1, <4>2
    <3>4. CASE Life!SelectSignal
      <4>1. requests' = requests /\ sigCh' = sigCh - 1 /\ sigCh > 0
        BY <3>4 DEF Life!SelectSignal
      <4> QED BY <2>a, <4>1
    <3>5. CASE UNCHANGED <<requests, sigCh>> BY <2>a, <3>5
    <3> QED
      BY Zenon, <3>1, <3>2, <3>3, <3>4, <3>5
      DEF Life!vars, Life!Next, Life!Start, Life!Main, Life!MakeServer,
         Life!StartLoop, Life!Listen, Life!ListenFails, Life!Report,
         Life!ServerClosed, Life!LoopEnds, Life!StartServer, Life!Notify,
         Life!SelectResult, Life!Deadline, Life!StopLoop, Life!Flush,
         Life!CloseServer, Life!Drain, Life!Await, Life!CloseStore, Life!Exit
  <2> USE <2>0, <2>b DEF LifecycleTypes, Life!stopVars, Life!Stopping, Stopping
  <2>1. CASE Life!MakeServer BY <2>1 DEF Life!MakeServer
  <2>2. ASSUME NEW l \in Loops, Life!StartLoop(l) PROVE LifecycleTypes'
    BY <2>2 DEF Life!StartLoop
  <2>3. CASE Life!Listen BY <2>3 DEF Life!Listen
  <2>4. CASE Life!ListenFails BY <2>4 DEF Life!ListenFails, Life!Report
  <2>5. CASE Life!ServerClosed BY <2>5 DEF Life!ServerClosed, Life!Report
  <2>6. CASE Life!RequestArrives BY Zenon, <2>6 DEF Life!RequestArrives
  <2>7. CASE Life!RequestEnds BY Zenon, <2>7 DEF Life!RequestEnds
  <2>8. ASSUME NEW l \in Loops, Life!LoopEnds(l) PROVE LifecycleTypes'
    BY ZenonT(60), <2>8 DEF Life!LoopEnds
  <2>9. CASE Life!StartServer BY <2>9 DEF Life!StartServer
  <2>10. CASE Life!Notify BY <2>10 DEF Life!Notify
  <2>11. CASE Life!Signal
    <3>1. process' \in {"running", "exited", "failed", "killed"}
      BY <2>11 DEF Life!Signal
    <3> QED BY ZenonT(60), <2>11, <3>1 DEF Life!Signal
  <2>12. CASE Life!SelectResult BY <2>12 DEF Life!SelectResult
  <2>13. CASE Life!SelectSignal
    <3>1. main' \in Stopping
      BY <2>13 DEF Life!SelectSignal
    <3> QED BY Zenon, <2>13, <3>1 DEF Life!SelectSignal
  <2>14. CASE Life!Deadline BY <2>14 DEF Life!Deadline
  <2>15. ASSUME NEW l \in Loops, Life!StopLoop(l) PROVE LifecycleTypes'
    BY <2>15 DEF Life!StopLoop, Life!Stop
  <2>16. CASE Life!Flush BY <2>16 DEF Life!Flush
  <2>17. CASE Life!CloseServer BY <2>17 DEF Life!CloseServer
  <2>18. CASE Life!Drain BY <2>18 DEF Life!Drain
  <2>19. CASE Life!Await BY <2>19 DEF Life!Await
  <2>20. CASE Life!CloseStore BY <2>20 DEF Life!CloseStore
  <2>21. CASE Life!Exit BY <2>21 DEF Life!Exit
  <2>22. CASE UNCHANGED Life!vars BY ZenonT(60), <2>22 DEF Life!vars
  <2> QED
    BY <2>1, <2>2, <2>3, <2>4, <2>5, <2>6, <2>7, <2>8, <2>9, <2>10, <2>11, <2>12,
       <2>13, <2>14, <2>15, <2>16, <2>17, <2>18, <2>19, <2>20, <2>21, <2>22
       DEF Life!Next, Life!Start, Life!Main
<1> QED
  BY <1>1, <1>2, PTL DEF Life!Spec

-----------------------------------------------------------------------------

\* How far Start has come tells which of the shared fields it has made.
StartedInv ==
  /\ main = "start" <=> server = "none"
  /\ server \in {"none", "make"} <=> httpServer = "nil"
  /\ server \in {"none", "make", "flusher"} => stopChan["flusher"] = "nil"
  /\ server \in {"none", "make", "flusher", "collector"} => stopChan["collector"] = "nil"

\* The places of main after the loop was told to stop.
After(l) ==
  {"flush", "http", "drain", "await", "return"}
    \cup (IF l = "collector" THEN {"stop flusher"} ELSE {})

\* Each Once is used exactly when main passes it, and then the channel is
\* closed unless Start had not made it.
StopsInv ==
  \A l \in Loops :
    /\ l \in onceDone <=> main \in After(l)
    /\ l \in onceDone => stopChan[l] = "closed" \/ l \in overtaken

\* The HTTP server is closed only by main, which then waits for its requests;
\* Start ends without an error only after that.
DrainInv ==
  /\ httpServer = "closed" => main \in {"drain", "await", "return"}
  /\ main = "drain" => httpServer = "closed"
  /\ errCh = "nil" => httpServer = "closed"
  /\ httpServer = "nil" => requests = 0
  /\ httpServer = "closed" /\ main \in {"await", "return"} => requests = 0 \/ deadline

\* The shared fields follow the place of the goroutine that makes them.
LEMMA StartedInvariant ==
  Life!Spec => []StartedInv
<1>0. Life!Spec => []LifecycleTypes
  BY ProcessTypes
<1>1. Life!Init => StartedInv
  BY DEF Life!Init, StartedInv
<1>2. LifecycleTypes /\ StartedInv /\ [Life!Next]_Life!vars => StartedInv'
  <2> SUFFICES ASSUME LifecycleTypes, StartedInv, [Life!Next]_Life!vars PROVE StartedInv'
    OBVIOUS
  <2> USE DEF StartedInv, Life!stopVars
  <2>1. CASE Life!MakeServer BY <2>1 DEF Life!MakeServer
  <2>2. ASSUME NEW l \in Loops, Life!StartLoop(l) PROVE StartedInv'
    BY <2>2 DEF Life!StartLoop, LifecycleTypes
  <2>3. CASE Life!Listen BY <2>3 DEF Life!Listen
  <2>4. CASE Life!ListenFails BY <2>4 DEF Life!ListenFails, Life!Report
  <2>5. CASE Life!ServerClosed BY <2>5 DEF Life!ServerClosed, Life!Report
  <2>6. CASE Life!RequestArrives \/ Life!RequestEnds
    BY <2>6 DEF Life!RequestArrives, Life!RequestEnds
  <2>7. ASSUME NEW l \in Loops, Life!LoopEnds(l) PROVE StartedInv'
    BY <2>7 DEF Life!LoopEnds
  <2>8. CASE Life!StartServer BY <2>8 DEF Life!StartServer
  <2>9. CASE Life!Notify \/ Life!Signal \/ Life!SelectResult \/ Life!SelectSignal \/ Life!Deadline
    BY <2>9 DEF Life!Notify, Life!Signal, Life!SelectResult, Life!SelectSignal,
       Life!Deadline
  <2>10. ASSUME NEW l \in Loops, Life!StopLoop(l) PROVE StartedInv'
    BY <2>10 DEF Life!StopLoop, Life!Stop, LifecycleTypes
  <2>11. CASE Life!CloseServer BY <2>11 DEF Life!CloseServer
  <2>12. CASE Life!Flush \/ Life!Drain \/ Life!Await \/ Life!CloseStore \/ Life!Exit
    BY <2>12 DEF Life!Flush, Life!Drain, Life!Await, Life!CloseStore, Life!Exit
  <2>13. CASE UNCHANGED Life!vars BY <2>13 DEF Life!vars
  <2> QED
    BY <2>1, <2>2, <2>3, <2>4, <2>5, <2>6, <2>7, <2>8, <2>9, <2>10, <2>11, <2>12,
       <2>13 DEF Life!Next, Life!Start, Life!Main
<1> QED
  BY <1>1, <1>2, <1>0, PTL DEF Life!Spec

\* A closed server has been drained before main goes on.
LEMMA DrainInvariant ==
  Life!Spec => []DrainInv
<1>0. Life!Spec => []LifecycleTypes
  BY ProcessTypes
<1>1. Life!Init => DrainInv
  BY DEF Life!Init, DrainInv
<1>2. LifecycleTypes /\ StartedInv /\ DrainInv /\ [Life!Next]_Life!vars => DrainInv'
  <2> SUFFICES ASSUME LifecycleTypes, StartedInv, DrainInv, [Life!Next]_Life!vars PROVE DrainInv'
    OBVIOUS
  <2> USE DEF DrainInv, StartedInv, Life!stopVars
  <2>1. CASE Life!MakeServer BY <2>1 DEF Life!MakeServer
  <2>2. ASSUME NEW l \in Loops, Life!StartLoop(l) PROVE DrainInv'
    BY <2>2 DEF Life!StartLoop
  <2>3. CASE Life!Listen \/ Life!ListenFails \/ Life!ServerClosed
    BY <2>3 DEF Life!Listen, Life!ListenFails, Life!ServerClosed, Life!Report
  <2>4. CASE Life!RequestArrives BY <2>4 DEF Life!RequestArrives
  <2>5. CASE Life!RequestEnds BY <2>5 DEF Life!RequestEnds, LifecycleTypes
  <2>6. ASSUME NEW l \in Loops, Life!LoopEnds(l) \/ Life!StopLoop(l) PROVE DrainInv'
    BY <2>6 DEF Life!LoopEnds, Life!StopLoop, Life!Stop
  <2>7. CASE Life!StartServer \/ Life!Notify \/ Life!Signal \/ Life!SelectResult \/ Life!SelectSignal
    BY <2>7 DEF Life!StartServer, Life!Notify, Life!Signal, Life!SelectResult,
       Life!SelectSignal
  <2>8. CASE Life!Deadline BY <2>8 DEF Life!Deadline
  <2>9. CASE Life!CloseServer BY <2>9 DEF Life!CloseServer, LifecycleTypes
  <2>10. CASE Life!Drain BY <2>10 DEF Life!Drain, Life!Drained
  <2>11. CASE Life!Await BY <2>11 DEF Life!Await
  <2>12. CASE Life!Flush \/ Life!CloseStore \/ Life!Exit
    BY <2>12 DEF Life!Flush, Life!CloseStore, Life!Exit
  <2>13. CASE UNCHANGED Life!vars BY <2>13 DEF Life!vars
  <2> QED
    BY <2>1, <2>2, <2>3, <2>4, <2>5, <2>6, <2>7, <2>8, <2>9, <2>10, <2>11, <2>12,
       <2>13 DEF Life!Next, Life!Start, Life!Main
<1> QED
  BY <1>1, <1>2, <1>0, StartedInvariant, PTL DEF Life!Spec

\* What has been stopped follows the place of main.
LEMMA StopsInvariant ==
  Life!Spec => []StopsInv
<1>0. Life!Spec => []LifecycleTypes
  BY ProcessTypes
<1>1. Life!Init => StopsInv
  BY DEF Life!Init, StopsInv, After
<1>2. LifecycleTypes /\ StartedInv /\ DrainInv /\ StopsInv /\ [Life!Next]_Life!vars => StopsInv'
  <2> SUFFICES ASSUME LifecycleTypes, StartedInv, DrainInv, StopsInv, [Life!Next]_Life!vars PROVE StopsInv'
    OBVIOUS
  <2> USE DEF StopsInv, After, Life!stopVars
  <2>1. ASSUME NEW l \in Loops, Life!StartLoop(l) PROVE StopsInv'
    BY <2>1 DEF Life!StartLoop, StartedInv, LifecycleTypes
  <2>2. ASSUME NEW l \in Loops, Life!StopLoop(l) PROVE StopsInv'
    BY <2>2 DEF Life!StopLoop, Life!Stop, LifecycleTypes
  <2>3. CASE Life!SelectResult
    BY <2>3 DEF Life!SelectResult, DrainInv, LifecycleTypes
  <2>4. CASE Life!MakeServer \/ Life!Listen \/ Life!ListenFails \/ Life!ServerClosed
    BY <2>4 DEF Life!MakeServer, Life!Listen, Life!ListenFails,
       Life!ServerClosed, Life!Report
  <2>5. CASE Life!RequestArrives \/ Life!RequestEnds
    BY <2>5 DEF Life!RequestArrives, Life!RequestEnds
  <2>6. ASSUME NEW l \in Loops, Life!LoopEnds(l) PROVE StopsInv'
    BY <2>6 DEF Life!LoopEnds
  <2>7. CASE Life!StartServer \/ Life!Notify \/ Life!Signal \/ Life!SelectSignal \/ Life!Deadline
    BY <2>7 DEF Life!StartServer, Life!Notify, Life!Signal, Life!SelectSignal,
       Life!Deadline
  <2>8. CASE Life!Flush \/ Life!CloseServer \/ Life!Drain \/ Life!Await \/ Life!CloseStore \/ Life!Exit
    BY <2>8 DEF Life!Flush, Life!CloseServer, Life!Drain, Life!Await,
       Life!CloseStore, Life!Exit
  <2>9. CASE UNCHANGED Life!vars BY <2>9 DEF Life!vars
  <2> QED
    BY <2>1, <2>2, <2>3, <2>4, <2>5, <2>6, <2>7, <2>8, <2>9 DEF Life!Next,
       Life!Start, Life!Main
<1> QED
  BY <1>1, <1>2, <1>0, StartedInvariant, DrainInvariant, PTL DEF Life!Spec

\* When the database is closed, the requests still served are past the
\* deadline or belong to a server that the shutdown could not see, and the
\* loops still running are told to stop or were overtaken by the signal.
THEOREM DatabaseClosedLast ==
  Life!Spec => []QuietBeforeClose
<1>0. Life!Spec => []LifecycleTypes
  BY ProcessTypes
<1> DEFINE ClosedByMain == db = "closed" => main = "return"
<1>1. Life!Init => ClosedByMain
  BY DEF Life!Init
<1>2. ClosedByMain /\ [Life!Next]_Life!vars => ClosedByMain'
  BY DEF Life!vars, Life!stopVars, Life!Next, Life!Start, Life!Main,
     Life!MakeServer, Life!StartLoop, Life!Listen, Life!ListenFails, Life!Report,
     Life!ServerClosed, Life!RequestArrives, Life!RequestEnds, Life!LoopEnds,
     Life!StartServer, Life!Notify, Life!Signal, Life!SelectResult,
     Life!SelectSignal, Life!Deadline, Life!StopLoop, Life!Flush,
     Life!CloseServer, Life!Drain, Life!Await, Life!CloseStore, Life!Exit
<1>3. LifecycleTypes /\ StopsInv /\ DrainInv /\ ClosedByMain => QuietBeforeClose
  <2> SUFFICES ASSUME LifecycleTypes, StopsInv, DrainInv, ClosedByMain, db = "closed"
               PROVE  /\ requests > 0 => deadline \/ httpServer = "made"
                      /\ \A l \in running : stopChan[l] = "closed" \/ l \in overtaken
    BY DEF QuietBeforeClose
  <2>1. main = "return"
    OBVIOUS
  <2>2. requests > 0 => deadline \/ httpServer = "made"
    BY <2>1 DEF DrainInv, LifecycleTypes
  <2>3. \A l \in running : stopChan[l] = "closed" \/ l \in overtaken
    BY <2>1 DEF StopsInv, After, LifecycleTypes
  <2> QED
    BY <2>2, <2>3
<1> QED
  BY <1>1, <1>2, <1>3, <1>0, StopsInvariant, DrainInvariant, PTL DEF Life!Spec

=============================================================================
