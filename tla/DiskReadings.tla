----------------------------- MODULE DiskReadings -----------------------------
(***************************************************************************)
(* What the monitor page works out of the disks of a snapshot: how fast    *)
(* each volume and the whole machine are read and written, and how much    *)
(* storage there is (frontend/src/legacy-app.js), from what the collector  *)
(* counts (internal/monitor/collector.go).                                 *)
(*                                                                         *)
(* Read and written bytes and operations are one counter per device; the   *)
(* time between two snapshots is one, so that a rate is a difference (the  *)
(* times are in MonitorView).  Operators marked FAULT are seeded errors    *)
(* that no action uses: each replaces the definition that follows it.      *)
(***************************************************************************)
EXTENDS Integers, Sequences, FiniteSets, FiniteSetsExt

CONSTANTS
  Devices,   \* what has counters
  Matches,   \* for each volume the devices whose names fit its own: a sequence
  Size,      \* of each volume: [device, size]
  Hardware,  \* the disks the hardware's description lists: [name, size, serial]
  NoSerials, \* what stands for an unknown serial number
  MaxWork,   \* bound on a counter
  None

VARIABLES
  machine,  \* counters and mounted volumes
  page,     \* the last sample and what was worked out of it
  past      \* history: the counters at the last two snapshots

vars == <<machine, page, past>>

Volumes == DOMAIN Matches   \* what can be mounted, in the order of the paths
Counters == [Devices -> 0 .. MaxWork]

TypeOK ==
  /\ machine \in [work : Counters, mounted : SUBSET Volumes]
  /\ page.sample # None =>
       /\ page.sample.total \in Nat
       /\ page.sample.of \in [Volumes -> 0 .. MaxWork \cup {None}]
  /\ page.total \in Nat /\ page.rate \in [Volumes -> Nat]
  /\ page.storage \in Nat
  /\ past \in [now : Counters, before : Counters, failed : BOOLEAN, fails : BOOLEAN]

Init ==
  /\ machine \in [work : {[d \in Devices |-> 0]}, mounted : SUBSET Volumes]
  /\ page = [sample |-> None, total |-> 0, rate |-> [v \in Volumes |-> 0], storage |-> 0, serial |-> "-"]
  /\ past = [now |-> machine.work, before |-> machine.work, failed |-> FALSE, fails |-> FALSE]

-----------------------------------------------------------------------------
(* The machine.                                                            *)

Work(d) ==
  /\ machine.work[d] < MaxWork
  /\ machine' = [machine EXCEPT !.work[d] = @ + 1]
  /\ UNCHANGED <<page, past>>

Mount(v) ==
  /\ machine' = [machine EXCEPT !.mounted = IF v \in @ THEN @ \ {v} ELSE @ \cup {v}]
  /\ UNCHANGED <<page, past>>

-----------------------------------------------------------------------------
(* The collector.                                                          *)

\* gatherDisks and matchDiskIO: when no device has the volume's own name, any
\* one whose name fits counts for it; nothing counts when reading fails.
Volume(v, d, ok) == IF v \notin machine.mounted THEN None ELSE IF ok THEN machine.work[d] ELSE 0

\* gatherDiskIOSummary, which reads the counters by itself.
Summary(ok) == IF ok THEN MapThenSumSet(LAMBDA d : machine.work[d], Devices) ELSE 0

-----------------------------------------------------------------------------
(* The page.                                                               *)

Seen(of) == {v \in Volumes : of[v] # None}

\* FAULT: the volumes are added up, whatever the collector has summed up.
OfVolumes(summary, of) == MapThenSumSet(LAMBDA v : of[v], Seen(of))

\* normalizedDiskIOSummary: the volumes are added up when there is no sum.
Totals(summary, of) == IF summary # 0 THEN summary ELSE MapThenSumSet(LAMBDA v : of[v], Seen(of))

Grown(from, to) == IF to > from THEN to - from ELSE 0

\* FAULT: volumes that are not there keep the sample they had.
SampleKept(old, total, of) ==
  [total |-> total,
   of |-> [v \in Volumes |-> IF of[v] = None /\ old # None THEN old.of[v] ELSE of[v]]]

\* A sample replaces the one before as a whole.
Sample(old, total, of) == [total |-> total, of |-> of]

\* calculateDiskRealtime: the first sample of a volume has no rate.
Rates(old, of) ==
  [v \in Volumes |-> IF old # None /\ of[v] # None /\ old.of[v] # None THEN Grown(old.of[v], of[v]) ELSE 0]

\* FAULT: a device that is mounted twice is counted twice.
AllOf(list) == list

\* resolveTotalStorageBytes: of two that have one name and one size, one counts.
Distinct(list) ==
  LET First(i) == \A k \in DOMAIN list : k < i => list[k] # list[i]
  IN  [i \in {k \in DOMAIN list : First(k)} |-> list[i]]

Added(list) == LET once == Distinct(list) IN MapThenSumSet(LAMBDA i : once[i].size, DOMAIN once)

\* The hardware's own sizes count before those of the volumes.
Storage(hardware, volumes) ==
  LET ofHardware == Added([i \in DOMAIN hardware |-> [name |-> hardware[i].name, size |-> hardware[i].size]])
  IN  IF ofHardware > 0 THEN ofHardware ELSE Added([v \in volumes |-> Size[v]])

\* resolvePrimaryDiskSerial: the first number that is one.
Serial(hardware) ==
  LET known == {i \in DOMAIN hardware : hardware[i].serial \notin NoSerials}
  IN  IF known = {} THEN "-" ELSE hardware[Min(known)].serial

\* renderMonitor, renderSystemInfo.  Either reading of the counters may fail,
\* and the hardware may not have been described yet.
Snapshot ==
  \E summed, counted \in BOOLEAN, hardware \in {<<>>, Hardware},
     device \in {f \in [Volumes -> Devices] : \A v \in Volumes : f[v] \in Matches[v]} :
    LET of == [v \in Volumes |-> Volume(v, device[v], counted)]
        total == Totals(Summary(summed), of)
        old == page.sample
    IN  /\ page' = [sample |-> Sample(old, total, of),
                    total |-> IF old = None THEN 0 ELSE Grown(old.total, total),
                    rate |-> Rates(old, of),
                    storage |-> Storage(hardware, machine.mounted),
                    serial |-> Serial(hardware)]
        /\ past' = [now |-> machine.work, before |-> past.now,
                    failed |-> past.fails \/ ~summed \/ ~counted, fails |-> ~summed \/ ~counted]
        /\ UNCHANGED machine

-----------------------------------------------------------------------------

Next ==
  \/ Snapshot
  \/ \E d \in Devices : Work(d)
  \/ \E v \in Volumes : Mount(v)

Spec == Init /\ [][Next]_vars

-----------------------------------------------------------------------------
(* Properties.                                                             *)

Worked(d) == past.now[d] - past.before[d]

\* A rate that is shown is work that was done between the two snapshots: no
\* volume is told to be busy because it was mounted or came back, and the sum
\* is that of the devices, unless one of the two readings failed.  A volume
\* whose name fits several devices is left out: it has the counter of any.
RatesAreWork ==
  ~past.failed =>
    /\ \A v \in Volumes, d \in Devices : Matches[v] = {d} => page.rate[v] <= Worked(d)
    /\ page.total <= MapThenSumSet(Worked, Devices)

\* The storage that is told is that of the disks: none counts twice, in
\* whatever volumes it is seen.
StorageCountsOnce ==
  LET disks == {[name |-> Hardware[i].name, size |-> Hardware[i].size] : i \in DOMAIN Hardware}
  IN  /\ Storage(Hardware, machine.mounted) = MapThenSumSet(LAMBDA h : h.size, disks)
      /\ Storage(<<>>, machine.mounted) = MapThenSumSet(LAMBDA s : s.size, {Size[v] : v \in machine.mounted})
=============================================================================
