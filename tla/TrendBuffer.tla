---------------------------- MODULE TrendBuffer ----------------------------
(***************************************************************************)
(* The trend samples of the monitor on their way to SQLite.  Every         *)
(* collection appends a sample to an in-memory buffer                      *)
(* (internal/web/server.go); three goroutines flush the buffer to the      *)
(* table monitor_trends (internal/store/store.go): the collecting one when *)
(* the buffer is long enough, a 30 s ticker, and Server.Shutdown.          *)
(*                                                                         *)
(* Time is counted in buckets of 5 s and does not run backwards.  A sample *)
(* is its bucket and its place in the order of collection; the measured    *)
(* values are left out.  Operators marked FAULT are seeded errors that no  *)
(* action uses: each replaces the definition that follows it.              *)
(***************************************************************************)
EXTENDS Integers, Sequences

CONSTANTS
  BufferMax,    \* trendBufferMax (4096 in the code)
  TriggerLen,   \* trendFlushTriggerLen (12)
  Retention,    \* trendRetention, in buckets (24 h)
  CleanupGap,   \* trendCleanupInterval, in buckets (5 min)
  MaxTime,      \* bound on the clock
  MaxSamples,   \* bound on the samples collected
  MaxCrashes    \* bound on the restarts

ASSUME TrendAssumption ==
  /\ BufferMax \in Nat \ {0}
  /\ TriggerLen \in Nat \ {0}
  /\ Retention \in Nat
  /\ CleanupGap \in Nat
  /\ MaxTime \in Nat
  /\ MaxSamples \in Nat
  /\ MaxCrashes \in Nat

Flushers == {"collector", "ticker", "shutdown"}
Nobody == "nobody"
Never == -1

VARIABLES
  clock,        \* the current bucket
  pc,           \* where each of the three goroutines is
  gathered,     \* the sample the collector has taken and not appended yet
  buffer,       \* Server.trendBuffer
  flushMu,      \* holder of trendFlushMu
  batch,        \* what each flusher has taken and not stored yet
  rows,         \* table monitor_trends: at most one sample of a bucket
  lastCleanup,  \* Store.trendLastCleanup; Never is the zero time
  taken,        \* number of samples collected since the first start
  seen,         \* history: the buckets that were ever appended
  lost,         \* history: buckets dropped by overflow or with the process
  finalSeq,     \* history: samples appended when Shutdown took its batch
  finalFailed,  \* Shutdown's own flush failed
  crashes       \* number of crashes and restarts so far

flushVars == <<flushMu, batch, rows, lastCleanup>>
history == <<taken, seen, lost, finalSeq, finalFailed, crashes>>
vars == <<clock, pc, gathered, buffer, flushVars, history>>

Sample == [at : Nat, seq : Nat]
NoSample == [at |-> 0, seq |-> 0]

\* The types, and the limit on what the buffer and a batch may hold.
TypeOK ==
  /\ clock \in Nat
  /\ pc \in [Flushers -> {"idle", "gathered", "check", "wait", "flush", "done"}]
  /\ gathered \in Sample
  /\ buffer \in Seq(Sample) /\ Len(buffer) <= BufferMax
  /\ flushMu \in Flushers \cup {Nobody}
  /\ batch \in [Flushers -> Seq(Sample)]
  /\ \A f \in Flushers : Len(batch[f]) <= BufferMax
  /\ rows \subseteq Sample
  /\ lastCleanup \in Nat \cup {Never}
  /\ taken \in Nat
  /\ seen \subseteq Nat
  /\ lost \subseteq Nat
  /\ finalSeq \in Nat
  /\ finalFailed \in BOOLEAN
  /\ crashes \in Nat

Init ==
  /\ clock = 0
  /\ pc = [f \in Flushers |-> "idle"]
  /\ gathered = NoSample
  /\ buffer = <<>>
  /\ flushMu = Nobody
  /\ batch = [f \in Flushers |-> <<>>]
  /\ rows = {}
  /\ lastCleanup = Never
  /\ taken = 0
  /\ seen = {}
  /\ lost = {}
  /\ finalSeq = 0
  /\ finalFailed = FALSE
  /\ crashes = 0

Buckets(s) == {s[i].at : i \in DOMAIN s}
StoredBuckets == {r.at : r \in rows}
Goto(f, label) == pc' = [pc EXCEPT ![f] = label]

-----------------------------------------------------------------------------
(* The buffer operations, each a critical section of trendMu.              *)

\* FAULT: an overflow drops the newest samples.
KeepOldest(s) == IF Len(s) > BufferMax THEN SubSeq(s, 1, BufferMax) ELSE s

\* FAULT: an overflow drops nothing.
KeepAll(s) == s

\* An overflow drops the oldest samples.
KeepNewest(s) ==
  IF Len(s) > BufferMax THEN SubSeq(s, Len(s) - BufferMax + 1, Len(s)) ELSE s

\* FAULT: the last sample is replaced whatever its bucket.
SameBucketAny(s, sample) == s # <<>>

SameBucket(s, sample) == s # <<>> /\ s[Len(s)].at = sample.at

Put(s, sample) ==
  IF SameBucket(s, sample) THEN [s EXCEPT ![Len(s)] = sample] ELSE Append(s, sample)

\* FAULT: what could not be stored is queued behind the newer samples.
RequeueLast(rest, s) == s \o rest

\* FAULT: what could not be stored is forgotten.
RequeueNothing(rest, s) == s

Requeue(rest, s) == rest \o s

Overflow(s) == Buckets(s) \ Buckets(KeepNewest(s))

-----------------------------------------------------------------------------
(* The collector: collectMonitorSnapshot appends a sample and flushes when *)
(* the buffer has grown long enough.                                       *)

Collect ==
  /\ pc["collector"] = "idle"
  /\ taken < MaxSamples
  /\ taken' = taken + 1
  /\ gathered' = [at |-> clock, seq |-> taken + 1]
  /\ Goto("collector", "gathered")
  /\ UNCHANGED <<clock, buffer, flushVars, seen, lost, finalSeq, finalFailed, crashes>>

AppendSample ==
  LET grown == Put(buffer, gathered)
  IN  /\ pc["collector"] = "gathered"
      /\ buffer' = KeepNewest(grown)
      /\ lost' = lost \cup Overflow(grown)
      /\ seen' = seen \cup {gathered.at}
      /\ Goto("collector", "check")
      /\ UNCHANGED <<clock, gathered, flushVars, taken, finalSeq, finalFailed, crashes>>

CheckLength ==
  /\ pc["collector"] = "check"
  /\ Goto("collector", IF Len(buffer) >= TriggerLen THEN "wait" ELSE "idle")
  /\ UNCHANGED <<clock, gathered, buffer, flushVars, history>>

-----------------------------------------------------------------------------
(* The ticker goroutine and Server.Shutdown, which closes the ticker's     *)
(* channel (stopTrendFlusher) and then flushes itself.                     *)

TickerFires ==
  /\ pc["ticker"] = "idle"
  /\ Goto("ticker", "wait")
  /\ UNCHANGED <<clock, gathered, buffer, flushVars, history>>

\* The select may still pick a tick that is due when the channel is closed.
TickerStops ==
  /\ pc["ticker"] = "idle" /\ pc["shutdown"] # "idle"
  /\ Goto("ticker", "done")
  /\ UNCHANGED <<clock, gathered, buffer, flushVars, history>>

BeginShutdown ==
  /\ pc["shutdown"] = "idle"
  /\ Goto("shutdown", "wait")
  /\ UNCHANGED <<clock, gathered, buffer, flushVars, history>>

\* Where a goroutine goes after its flush.
AfterFlush(f) == IF f = "shutdown" THEN "done" ELSE "idle"

-----------------------------------------------------------------------------
(* flushTrendBuffer.                                                       *)

\* Number of the last sample that was appended.
AppendedSoFar == IF pc["collector"] = "gathered" THEN taken - 1 ELSE taken

\* FAULT: a flush does not take trendFlushMu.
FlushLockIgnored(f) == TRUE

FlushLockFree(f) == flushMu = Nobody

TakeBatch(f) ==
  /\ pc[f] = "wait"
  /\ FlushLockFree(f)
  /\ flushMu' = f
  /\ batch' = [batch EXCEPT ![f] = buffer]
  /\ buffer' = <<>>
  /\ finalSeq' = IF f = "shutdown" THEN AppendedSoFar ELSE finalSeq
  /\ Goto(f, "flush")
  /\ UNCHANGED <<clock, gathered, rows, lastCleanup, taken, seen, lost, finalFailed, crashes>>

\* FAULT: the cutoff is the bucket of the sample itself.
CutoffNow(sample) == sample.at

Cutoff(sample) == sample.at - Retention

CleanupDue == lastCleanup = Never \/ clock - lastCleanup >= CleanupGap

\* INSERT ... ON CONFLICT DO NOTHING, then cleanupMonitorTrends at most once
\* in CleanupGap; an error of its DELETE is ignored.
Upsert(sample) ==
  LET added == IF sample.at \in StoredBuckets THEN rows ELSE rows \cup {sample}
  IN  IF CleanupDue
      THEN /\ rows' \in {{r \in added : r.at >= Cutoff(sample)}, added}
           /\ lastCleanup' = clock
      ELSE /\ rows' = added
           /\ UNCHANGED lastCleanup

StoreOne(f) ==
  /\ pc[f] = "flush" /\ batch[f] # <<>>
  /\ Upsert(Head(batch[f]))
  /\ batch' = [batch EXCEPT ![f] = Tail(@)]
  /\ UNCHANGED <<clock, pc, gathered, buffer, flushMu, history>>

\* The insert fails: what is left of the batch goes back in front.
StoreFails(f) ==
  LET merged == Requeue(batch[f], buffer)
  IN  /\ pc[f] = "flush" /\ batch[f] # <<>>
      /\ buffer' = KeepNewest(merged)
      /\ lost' = lost \cup Overflow(merged)
      /\ batch' = [batch EXCEPT ![f] = <<>>]
      /\ flushMu' = Nobody
      /\ finalFailed' = (finalFailed \/ f = "shutdown")
      /\ Goto(f, AfterFlush(f))
      /\ UNCHANGED <<clock, gathered, rows, lastCleanup, taken, seen, finalSeq, crashes>>

EndFlush(f) ==
  /\ pc[f] = "flush" /\ batch[f] = <<>>
  /\ flushMu' = Nobody
  /\ Goto(f, AfterFlush(f))
  /\ UNCHANGED <<clock, gathered, buffer, batch, rows, lastCleanup, history>>

-----------------------------------------------------------------------------
(* Time, and the end of the process: killed at any moment, or after        *)
(* Shutdown.  What is in memory is gone; the table is there at the restart. *)

Tick ==
  /\ clock < MaxTime
  /\ clock' = clock + 1
  /\ UNCHANGED <<pc, gathered, buffer, flushVars, history>>

InMemory == Buckets(buffer) \cup UNION {Buckets(batch[f]) : f \in Flushers}

Restart ==
  /\ crashes < MaxCrashes
  /\ crashes' = crashes + 1
  /\ lost' = lost \cup InMemory
  /\ pc' = [f \in Flushers |-> "idle"]
  /\ gathered' = NoSample
  /\ buffer' = <<>>
  /\ flushMu' = Nobody
  /\ batch' = [f \in Flushers |-> <<>>]
  /\ lastCleanup' = Never
  /\ finalSeq' = 0
  /\ finalFailed' = FALSE
  /\ UNCHANGED <<clock, rows, taken, seen>>

-----------------------------------------------------------------------------

Flush(f) == TakeBatch(f) \/ StoreOne(f) \/ StoreFails(f) \/ EndFlush(f)

Next ==
  \/ Collect \/ AppendSample \/ CheckLength
  \/ TickerFires \/ TickerStops \/ BeginShutdown
  \/ \E f \in Flushers : Flush(f)
  \/ Tick \/ Restart

Spec == Init /\ [][Next]_vars

(* The ticker keeps firing, goroutines that can run do, and an insert that *)
(* is tried again and again succeeds at last.                              *)
Fairness ==
  /\ WF_vars(TickerFires)
  /\ WF_vars(AppendSample \/ CheckLength)
  /\ \A f \in Flushers : /\ SF_vars(TakeBatch(f))
                         /\ WF_vars(EndFlush(f))
                         /\ SF_vars(StoreOne(f))

FairSpec == Spec /\ Fairness

-----------------------------------------------------------------------------
(* Properties.                                                             *)

\* A bucket that got a sample is in memory, in the table, past its retention,
\* or one of those an overflow or the end of the process has dropped: no
\* failed insert and no interleaving of the flushers loses one.  When
\* Shutdown's flush has succeeded, what was appended before it took its batch
\* is not in memory any more: only samples of a collection that was under way
\* can be lost at the exit.
EveryBucketAccounted ==
  /\ \A b \in seen : \/ b \in InMemory \cup StoredBuckets \cup lost
                     \/ b < clock - Retention
  /\ pc["shutdown"] = "done" /\ ~finalFailed =>
       \A f \in Flushers :
         \A i \in DOMAIN (batch[f] \o buffer) : (batch[f] \o buffer)[i].seq > finalSeq

Ordered(s) ==
  \A i, j \in DOMAIN s : i < j => s[i].at <= s[j].at /\ s[i].seq < s[j].seq

\* The memory of the flushers and the buffer together is in the order of
\* collection, also after a batch was put back by a failed insert.
SamplesInOrder == \A f \in Flushers : Ordered(batch[f] \o buffer)

\* A row leaves the table only when it is older than the retention.  A
\* running process loses a bucket of its memory only when the buffer is full,
\* and then the lost bucket is not newer than any sample that is kept.
OnlyTheOldestGo ==
  [][/\ \A r \in rows \ rows' : r.at < clock - Retention
     /\ \A b \in lost' \ lost :
          crashes' = crashes =>
            /\ Len(buffer') = BufferMax
            /\ \A i \in DOMAIN buffer' : b <= buffer'[i].at]_vars

\* Every bucket reaches the table, or was dropped, or the server shuts down.
EventuallyStored ==
  \A b \in 0 .. MaxTime :
    b \in seen ~> \/ b \in StoredBuckets \cup lost
                  \/ b < clock - Retention
                  \/ pc["shutdown"] # "idle"

=============================================================================
