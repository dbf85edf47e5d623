--------------------------- MODULE MetricsRetention ---------------------------
(***************************************************************************)
(* The metrics of MemorySystem (core/cognition/memory.py) and              *)
(* enforce_retention, which the cycle calls every so many rounds: samples  *)
(* that are old are rolled up into one row per minute bucket, rows of      *)
(* minutes into rows of five minutes, and what has been rolled up or is    *)
(* too old is deleted.  The three steps are transactions of their own, a   *)
(* crash may fall between them, and the machine may be off for longer than *)
(* a window.  Time is counted in samples.                                  *)
(***************************************************************************)
EXTENDS Integers, FiniteSets, FiniteSetsExt

CONSTANTS
  Minute, Five,         \* bucket sizes, in samples (20 and 100)
  KeepRaw, KeepMinute, KeepFive,   \* the windows, in samples
  MaxTime               \* bound on time

ASSUME RetentionAssumption ==
  /\ {Minute, Five, KeepRaw, KeepMinute, KeepFive, MaxTime} \subseteq Nat \ {0}
  /\ 1 < Minute /\ Minute < Five
  /\ KeepRaw < KeepMinute /\ KeepMinute < KeepFive

VARIABLES
  metrics,   \* table metrics
  clock,     \* the present
  step,      \* what enforce_retention does next
  began,     \* its "now"
  taken,     \* history: the times of all samples
  minutes    \* history: the rows of minutes that were made

metricVars == <<metrics, clock, step, began, taken, minutes>>

Sizes == {1, Minute, Five}   \* sample_period of a row: a sample, or a bucket
Row   == [time : Nat, size : Sizes, bucket : Nat]

MetricsTypeOK ==
  /\ metrics \subseteq Row /\ minutes \subseteq Row /\ taken \subseteq Nat
  /\ clock \in 0..MaxTime /\ began \in 0..MaxTime
  /\ step \in {"idle", "minute", "five", "delete"}

MetricsInit ==
  /\ metrics = {} /\ clock = 1 /\ step = "idle" /\ began = 0 /\ taken = {} /\ minutes = {}

Bucket(t, size) == (t \div size) * size

-------------------------------------------------------------------------------
(* _rollup_window: one row for each bucket of the rows from start to end,   *)
(* with the time of the last of them, where the bucket has none yet.        *)
RolledUp(start, end, size, source) ==
  LET inside    == {r \in metrics : r.size = source /\ start <= r.time /\ r.time < end}
      of(b)     == {r.time : r \in {s \in inside : Bucket(s.time, size) = b}}
      missing   == {b \in {Bucket(r.time, size) : r \in inside} :
                      ~\E r \in metrics : r.size = size /\ r.bucket = b}
  IN  {[time |-> Max(of(b)), size |-> size, bucket |-> b] : b \in missing}
-------------------------------------------------------------------------------
(* Slips as above. *)

(* RollupMinutes, had its window ended where that of the next one does. *)
RollupMinutesLate ==
  LET made == RolledUp(began - KeepFive, began - KeepMinute, Minute, 1)
  IN  /\ step = "minute" /\ step' = "five"
      /\ metrics' = metrics \cup made /\ minutes' = minutes \cup made
      /\ UNCHANGED <<clock, began, taken>>

-------------------------------------------------------------------------------
(* store_snapshot, once in a cycle. *)
Sample ==
  /\ step = "idle" /\ clock < MaxTime
  /\ metrics' = metrics \cup {[time |-> clock, size |-> 1, bucket |-> 0]}
  /\ taken' = taken \cup {clock} /\ clock' = clock + 1
  /\ UNCHANGED <<step, began, minutes>>

(* The backend is off, or a cycle fails before it stores its snapshot. *)
TimePasses ==
  /\ clock < MaxTime /\ clock' = clock + 1 /\ step' = "idle"
  /\ UNCHANGED <<metrics, began, taken, minutes>>

RetentionBegins ==
  /\ step = "idle" /\ step' = "minute" /\ began' = clock
  /\ UNCHANGED <<metrics, clock, taken, minutes>>

RollupMinutes ==
  LET made == RolledUp(began - KeepMinute, began - KeepRaw, Minute, 1)
  IN  /\ step = "minute" /\ step' = "five"
      /\ metrics' = metrics \cup made /\ minutes' = minutes \cup made
      /\ UNCHANGED <<clock, began, taken>>

RollupFives ==
  /\ step = "five" /\ step' = "delete"
  /\ metrics' = metrics \cup RolledUp(began - KeepFive, began - KeepMinute, Five, Minute)
  /\ UNCHANGED <<clock, began, taken, minutes>>

Old(r) ==
  \/ r.size = 1 /\ r.time < began - KeepRaw
  \/ r.size = Minute /\ r.time < began - KeepMinute
  \/ r.time < began - KeepFive

Deletes ==
  /\ step = "delete" /\ step' = "idle"
  /\ metrics' = {r \in metrics : ~Old(r)}
  /\ UNCHANGED <<clock, began, taken, minutes>>

(* The process ends between two of the transactions. *)
RetentionDies ==
  /\ step # "idle" /\ step' = "idle"
  /\ UNCHANGED <<metrics, clock, began, taken, minutes>>

MetricsNext ==
  \/ Sample \/ TimePasses \/ RetentionBegins \/ RollupMinutes \/ RollupFives
  \/ Deletes \/ RetentionDies
MetricsSpec == MetricsInit /\ [][MetricsNext]_metricVars
-------------------------------------------------------------------------------
(* No bucket has two rows, and every bucket inside its window keeps one,    *)
(* whenever the backend died: for a sample of the last KeepMinute there is  *)
(* the row of its minute, unless the sample itself is there, and for a row  *)
(* of a minute of the last KeepFive there is itself or the row of its five  *)
(* minutes.  (The row may be made of a part of its bucket: of a bucket that *)
(* a cut-off divides the older part is rolled up, and the rest is deleted   *)
(* without a trace, as are samples that are older than KeepMinute before    *)
(* they were rolled up.)                                                    *)
Present(size, b) == \E r \in metrics : r.size = size /\ r.bucket = b
HistoryIsCovered ==
  /\ \A t \in taken : t >= clock - KeepMinute + Minute =>
       (\E r \in metrics : r.size = 1 /\ r.time = t) \/ Present(Minute, Bucket(t, Minute))
  /\ \A m \in minutes : m.time >= clock - KeepFive + Five =>
       m \in metrics \/ Present(Five, Bucket(m.time, Five))
  /\ \A r, s \in metrics : r.size = s.size /\ r.size # 1 /\ r.bucket = s.bucket => r = s
===============================================================================
