---------------------------- MODULE BenchmarkEngine ----------------------------
(***************************************************************************)
(* A benchmark measures the machine, applies a set of tweaks, measures     *)
(* again, takes the tweaks back in reverse order and stores the comparison *)
(* (core/benchmark_engine.py, run).  It is a client of the tweak calls: it *)
(* runs on the coroutine of its request, while other requests apply and    *)
(* restore tweaks of their own.                                            *)
(*                                                                         *)
(*   baseline -> apply (one tweak after another) -> optimized              *)
(*            -> revert (the last one first) -> record                     *)
(*                                                                         *)
(* What the two captures hold, and the verdict drawn from them, are        *)
(* numbers that decide nothing about the tweaks, and are left out.         *)
(***************************************************************************)
EXTENDS TweakLifecycle, SequencesExt

CONSTANTS
  TweakSets,     \* the tweak sets a request may ask for: sequences of targets
  MaxBenchmarks, \* bound on the benchmarks that are started
  MaxMishaps     \* bound on crashes, cancellations, exits and raises

ASSUME TweakSetsAssumption == TweakSets \subseteq Seq(Targets)
ASSUME BenchBoundAssumption == MaxBenchmarks \in Nat /\ MaxMishaps \in Nat

VARIABLES
  running,  \* BenchmarkEngine._running
  bench,    \* what run() holds on each coroutine
  started,  \* benchmarks started so far (bounds the model)
  mishaps,  \* what went wrong so far (bounds the model)
  results,  \* table benchmark_results: what each stored benchmark applied
  found     \* the settings when the running benchmark began, {} once another
            \* tweak call has run beside it (history)

benchVars  == <<running, bench, started, mishaps, results, found>>
engineVars == <<vars, running, bench, started, mishaps, results, found>>

BenchPoints == {"none", "baseline", "apply", "optimized", "revert", "record"}

(* asked: tweak_set.  todo: the positions of it still to apply.  applied:   *)
(* applied_snapshot_ids.  left: how many of those are still to be reverted. *)
Bench == [at : BenchPoints, asked : Seq(Targets), todo : SUBSET Nat,
          applied : Seq(Nat), left : Nat, revertAfter : BOOLEAN]

NoBench == [at |-> "none", asked |-> <<>>, todo |-> {}, applied |-> <<>>, left |-> 0,
            revertAfter |-> TRUE]

Benchmarking(c) == bench[c].at # "none"

(* list(dict.fromkeys(tweak_set)): the first of each, in order. *)
Firsts(ts) == {i \in DOMAIN ts : \A j \in 1..(i - 1) : ts[j] # ts[i]}

(* The locals of run() at its first await. *)
Begun(ts, revertAfter) ==
  [at |-> "baseline", asked |-> ts, todo |-> Firsts(ts), applied |-> <<>>, left |-> 0,
   revertAfter |-> revertAfter]

(* The tweak of the set that is applied next, by its position. *)
IsNext(c, i) == i \in bench[c].todo /\ \A j \in bench[c].todo : i <= j

(* Something goes wrong that the calls do not handle. *)
Mishap == mishaps < MaxMishaps /\ mishaps' = mishaps + 1

(* A write is refused; it counts as a mishap too, but is never held back,   *)
(* as it is what comes of a process that has ended.                         *)
Refusal ==
  /\ mishaps' = IF mishaps < MaxMishaps THEN mishaps + 1 ELSE mishaps
  /\ found' = {}

(* The rows of rollback_snapshots that running benchmarks are still to fill. *)
Owed == Cardinality(UNION {{c} \X bench[c].todo : c \in Tasks})
-------------------------------------------------------------------------------
(* Slips that an edit of the code could make, as in TweakLifecycle. *)

(* RevertEnds, had the loop left out the first tweak of the set. *)
RevertEndsEarly(c) ==
  /\ bench[c].at = "revert" /\ Idle(c)
  /\ bench[c].left <= 1
  /\ bench' = [bench EXCEPT ![c].at = "record"]
  /\ UNCHANGED <<vars, running, started, mishaps, results, found>>

(* RestoreRow, had it taken the row off the list only. *)
RowTakenOff(c, s) ==
  /\ job' = [job EXCEPT ![c].snap = s]
  /\ pc' = [pc EXCEPT ![c] = "remove"]
  /\ UNCHANGED <<os, dryRun, snapshots, applications>>

(* ApplyReturns, had the snapshot id not been kept. *)
ForgetsSnapshot(c) == bench' = bench

(* BenchRaises, had the flag been cleared at the return and not in the      *)
(* finally clause.                                                          *)
RaisesWithoutFinally(c) ==
  /\ bench[c].at \in {"baseline", "optimized", "record"}
  /\ Mishap
  /\ bench' = [bench EXCEPT ![c] = NoBench]
  /\ found' = {}
  /\ UNCHANGED <<vars, running, started, results>>
-------------------------------------------------------------------------------
BenchInit ==
  /\ Init
  /\ running = FALSE
  /\ bench = [c \in Tasks |-> NoBench]
  /\ started = 0 /\ mishaps = 0
  /\ results = <<>>
  /\ found = {}

(* run() up to its first await; a second run() is answered with an error    *)
(* (409 of the request) and changes nothing.                                *)
BenchStart(c) ==
  /\ Idle(c) /\ ~Benchmarking(c)
  /\ ~running
  /\ started < MaxBenchmarks
  /\ \E ts \in TweakSets, revertAfter \in BOOLEAN :
       /\ Len(snapshots) + Reserved + Owed + Cardinality(Firsts(ts)) <= MaxSnapshots
       /\ bench' = [bench EXCEPT ![c] = Begun(ts, revertAfter)]
  /\ running' = TRUE
  /\ started' = started + 1
  /\ found' = IF \A d \in Tasks \ {c} : Idle(d) THEN {os} ELSE {}
  /\ UNCHANGED <<vars, mishaps, results>>

(* The finally clause, whichever way run() is left. *)
Leave(c) ==
  /\ bench' = [bench EXCEPT ![c] = NoBench]
  /\ running' = FALSE
  /\ found' = {}

(* _capture_window has sampled for its duration and returns. *)
CaptureReturns(c) ==
  /\ bench[c].at \in {"baseline", "optimized"}
  /\ bench' = [bench EXCEPT ![c].at = IF @ = "baseline" THEN "apply"
                                      ELSE IF bench[c].revertAfter THEN "revert"
                                      ELSE "record"]
  /\ UNCHANGED <<vars, running, started, mishaps, results, found>>

(* The next apply_tweak of the set begins. *)
BenchApply(c) ==
  /\ bench[c].at = "apply"
  /\ \E i \in bench[c].todo :
       /\ IsNext(c, i) /\ ApplyBegin(c, bench[c].asked[i])
       /\ bench' = [bench EXCEPT ![c].todo = @ \ {i}]
  /\ UNCHANGED <<running, started, mishaps, results, found>>

(* It is blocked, as the process it is to change has ended. *)
BenchApplyBlocked(c) ==
  /\ bench[c].at = "apply" /\ Idle(c)
  /\ \E i \in bench[c].todo :
       /\ IsNext(c, i) /\ os[bench[c].asked[i]] = Gone
       /\ bench' = [bench EXCEPT ![c].todo = @ \ {i}]
  /\ UNCHANGED <<vars, running, started, mishaps, results, found>>

(* What run() keeps of an apply that has returned. *)
ApplyReturns(c) ==
  bench' = [bench EXCEPT ![c].applied = Append(@, job[c].snap), ![c].left = @ + 1]

(* The steps of the tweak call run() is waiting for.  A failed apply is one *)
(* of the results; a registry error raises through run().                   *)
BenchCall(c) ==
  /\ Benchmarking(c)
  /\ \/ /\ \/ ApplyCapture(c) \/ ApplyWrite(c)
           \/ RestoreWrite(c) \/ RestoreMark(c) \/ RestoreRemove(c)
        /\ UNCHANGED <<bench, running, mishaps, found>>
     \/ /\ ApplyRegister(c)
        /\ ApplyReturns(c)
        /\ UNCHANGED <<running, mishaps, found>>
     \/ /\ ApplyRefused(c) /\ Refusal
        /\ IF Kind[job[c].target] = "registry" THEN Leave(c)
           ELSE UNCHANGED <<bench, running>>
     \/ RestoreRefused(c) /\ Refusal /\ UNCHANGED <<bench, running>>
     \/ RestoreAborted(c) /\ Refusal /\ Leave(c)
  /\ UNCHANGED <<started, results>>

(* The whole set has been tried: the second capture begins. *)
ApplyEnds(c) ==
  /\ bench[c].at = "apply" /\ bench[c].todo = {}
  /\ Idle(c)
  /\ bench' = [bench EXCEPT ![c].at = "optimized"]
  /\ UNCHANGED <<vars, running, started, mishaps, results, found>>

(* revert_tweak(snapshot_id) restores the active row of that snapshot. *)
RestoreRow(c, s) ==
  /\ job' = [job EXCEPT ![c].todo = {a \in ActiveRows : applications[a].snap = s}]
  /\ pc' = [pc EXCEPT ![c] = "restore"]
  /\ UNCHANGED <<os, dryRun, snapshots, applications>>

(* The next tweak of reversed(applied_snapshot_ids); one that is no longer  *)
(* active, as another call has restored it, gives a failed result.          *)
RevertNext(c) ==
  /\ bench[c].at = "revert" /\ Idle(c)
  /\ bench[c].left > 0
  /\ LET s == bench[c].applied[bench[c].left] IN
       IF s \in ActiveSnapshots THEN RestoreRow(c, s) ELSE UNCHANGED vars
  /\ bench' = [bench EXCEPT ![c].left = @ - 1]
  /\ UNCHANGED <<running, started, mishaps, results, found>>

RevertEnds(c) ==
  /\ bench[c].at = "revert" /\ Idle(c)
  /\ bench[c].left = 0
  /\ bench' = [bench EXCEPT ![c].at = "record"]
  /\ UNCHANGED <<vars, running, started, mishaps, results, found>>

(* insert_benchmark_result, the audit event, and the return. *)
BenchRecord(c) ==
  /\ bench[c].at = "record"
  /\ results' = Append(results, [applied |-> bench[c].applied,
                                 revertAfter |-> bench[c].revertAfter])
  /\ Leave(c)
  /\ UNCHANGED <<vars, started, mishaps>>

(* A capture (network probes, GPU statistics, the collector) or the insert  *)
(* raises, or the request is cancelled there: nothing is reverted.          *)
BenchRaises(c) ==
  /\ bench[c].at \in {"baseline", "optimized", "record"}
  /\ Mishap
  /\ Leave(c)
  /\ UNCHANGED <<vars, started, results>>

(* The coroutine is lost within a tweak call. *)
BenchDropped(c) ==
  /\ Benchmarking(c)
  /\ Dropped(c) /\ Mishap
  /\ Leave(c)
  /\ UNCHANGED <<started, results>>

(* The tweak calls of all other requests. *)
BesideBench(c) ==
  /\ ~Benchmarking(c)
  /\ found' = {}
  /\ UNCHANGED <<running, bench, started, results>>

OtherBegin(c) ==
  /\ \/ \E t \in Targets : /\ Len(snapshots) + Reserved + Owed < MaxSnapshots
                           /\ ApplyBegin(c, t)
     \/ RevertBegin(c)
     \/ RestoreAllBegin(c)
  /\ BesideBench(c)
  /\ UNCHANGED mishaps

OtherStep(c) ==
  /\ \/ /\ \/ ApplyCapture(c) \/ ApplyWrite(c) \/ ApplyRegister(c)
           \/ RestoreWrite(c) \/ RestoreMark(c) \/ RestoreRemove(c)
        /\ UNCHANGED mishaps
     \/ (ApplyRefused(c) \/ RestoreRefused(c) \/ RestoreAborted(c)) /\ Refusal
  /\ BesideBench(c)

OtherDropped(c) == Dropped(c) /\ Mishap /\ BesideBench(c)

BenchProcessExit(t) ==
  /\ ProcessExit(t) /\ Mishap
  /\ found' = {}
  /\ UNCHANGED <<running, bench, started, results>>

BenchRestart ==
  /\ Restart /\ Mishap
  /\ running' = FALSE
  /\ bench' = [c \in Tasks |-> NoBench]
  /\ found' = {}
  /\ UNCHANGED <<started, results>>

(* What run() does by itself once it has been started. *)
BenchStep(c) ==
  \/ CaptureReturns(c) \/ BenchApply(c) \/ BenchApplyBlocked(c) \/ BenchCall(c)
  \/ ApplyEnds(c) \/ RevertNext(c) \/ RevertEnds(c) \/ BenchRecord(c)

BenchNext ==
  \/ \E c \in Tasks : \/ BenchStart(c) \/ BenchStep(c) \/ BenchRaises(c)
                      \/ BenchDropped(c)
                      \/ OtherBegin(c) \/ OtherStep(c) \/ OtherDropped(c)
  \/ \E t \in Targets : BenchProcessExit(t)
  \/ BenchRestart

BenchSpec == BenchInit /\ [][BenchNext]_engineVars

(* asyncio resumes every coroutine whose await has been answered; captures  *)
(* sleep for a bounded time.                                                *)
BenchFairness ==
  \A c \in Tasks : WF_engineVars(BenchStep(c)) /\ WF_engineVars(OtherStep(c))
BenchFairSpec == BenchSpec /\ BenchFairness
-------------------------------------------------------------------------------
BenchTypeOK ==
  /\ TypeOK
  /\ running \in BOOLEAN
  /\ bench \in [Tasks -> Bench]
  /\ started \in Nat /\ mishaps \in Nat
  /\ results \in Seq([applied : Seq(Nat), revertAfter : BOOLEAN])
  /\ found \subseteq [Targets -> OsValues]

(* A benchmark changes settings and tables by tweak calls only: what is     *)
(* checked and proved of TweakLifecycle holds while benchmarks run.         *)
BenchImplementsTweaks == Spec

(* Two benchmarks never run at the same time, so that neither measures the  *)
(* tweaks of the other as its baseline (the 409 of /api/benchmark/run).     *)
OneBenchmark ==
  \A c, d \in Tasks : Benchmarking(c) /\ Benchmarking(d) => c = d

(* A stored benchmark that was asked to take its tweaks back has taken back *)
(* every one that it applied, but for those whose restore was refused,      *)
(* though other requests apply and restore the same tweaks meanwhile.       *)
RecordedIsReverted ==
  \A i \in DOMAIN results : results[i].revertAfter =>
    \A s \in Range(results[i].applied) \cap ActiveSnapshots : ~snapshots[s].restorable

(* A benchmark that no other tweak call met leaves every setting as it      *)
(* found it, also one that a tweak of the user was already in force for.    *)
BenchmarkIsNeutral ==
  \A c \in Tasks :
    bench[c].at = "record" /\ bench[c].revertAfter => found \subseteq {os}

(* As long as nothing goes wrong, every row that a restore loop or the      *)
(* revert of a benchmark has listed is taken off the active list, whatever  *)
(* the other loops and benchmarks do with the same rows.                    *)
ListedRowsAreReverted ==
  \A a \in 1..MaxSnapshots :
    (\E c \in Tasks : a \in job[c].todo) ~>
      \/ a \in DOMAIN applications /\ applications[a].reverted
      \/ mishaps > 0

(* A benchmark ends, and lets the next one in, whether it returns, raises,  *)
(* is cancelled, or has a registry error raised through it.                 *)
RunningIsReleased == running ~> ~running
===============================================================================
