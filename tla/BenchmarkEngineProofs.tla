------------------------- MODULE BenchmarkEngineProofs -------------------------
(***************************************************************************)
(* Benchmarks take only steps of the tweak calls, and one at a time.       *)
(***************************************************************************)
EXTENDS BenchmarkEngine, TweakRecoveryProofs

(* register() adds no second active row of a snapshot, so that the revert   *)
(* by snapshot id restores one row.                                         *)
OneRowPerSnapshot ==
  \A a, b \in ActiveRows : applications[a].snap = applications[b].snap => a = b

LEMMA OneRowInit == Init => OneRowPerSnapshot
  BY DEF Init, OneRowPerSnapshot, ActiveRows

(* Rows are added by ApplyRegister and lose their place in RestoreRemove;   *)
(* no other step touches the table.                                         *)
LEMMA ApplicationsChange ==
  ASSUME [Next]_vars
  PROVE  \/ applications' = applications
         \/ \E c \in Tasks : ApplyRegister(c) \/ RestoreRemove(c)
<1>1. ASSUME NEW c \in Tasks, NEW t \in Targets, ApplyBegin(c, t)
      PROVE  applications' = applications
  BY <1>1 DEF ApplyBegin
<1>2. ASSUME NEW c \in Tasks, RevertBegin(c) \/ RestoreAllBegin(c) \/ Dropped(c)
      PROVE  applications' = applications
  BY <1>2 DEF RevertBegin, RestoreAllBegin, Dropped
<1>3. ASSUME NEW c \in Tasks, ApplyCapture(c) \/ ApplyWrite(c) \/ ApplyRefused(c)
      PROVE  applications' = applications
  BY <1>3 DEF ApplyCapture, ApplyWrite, ApplyRefused
<1>4. ASSUME NEW c \in Tasks,
             RestoreWrite(c) \/ RestoreRefused(c) \/ RestoreAborted(c) \/ RestoreMark(c)
      PROVE  applications' = applications
  BY <1>4 DEF RestoreWrite, RestoreRefused, RestoreAborted, RestoreMark
<1>5. (\E t \in Targets : ProcessExit(t)) \/ Restart \/ UNCHANGED vars
        => applications' = applications
  BY DEF ProcessExit, Restart, vars
<1> QED
  BY <1>1, <1>2, <1>3, <1>4, <1>5 DEF Next, Apply, Restore

LEMMA OneRowStep == Typed /\ OneRowPerSnapshot /\ [Next]_vars => OneRowPerSnapshot'
<1> SUFFICES ASSUME Typed, OneRowPerSnapshot, [Next]_vars PROVE OneRowPerSnapshot'
  OBVIOUS
<1> USE DEF OneRowPerSnapshot, ActiveRows
<1>1. CASE applications' = applications
  BY <1>1
<1>2. ASSUME NEW c \in Tasks, ApplyRegister(c) PROVE OneRowPerSnapshot'
  <2>1. CASE job[c].snap \in ActiveSnapshots
    BY <1>1, <1>2, <2>1 DEF ApplyRegister
  <2>2. CASE job[c].snap \notin ActiveSnapshots
    <3>1. \A a \in ActiveRows : applications[a].snap # job[c].snap
      BY <2>2 DEF ActiveSnapshots
    <3> DEFINE n == Len(applications) + 1
    <3>2. /\ DOMAIN applications' = DOMAIN applications \cup {n}
          /\ applications'[n].snap = job[c].snap
          /\ \A a \in DOMAIN applications : applications'[a] = applications[a]
      <4>1. /\ DOMAIN applications' = DOMAIN applications \cup {n}
            /\ applications'[n] = [snap |-> job[c].snap, reverted |-> FALSE]
            /\ \A a \in DOMAIN applications : applications'[a] = applications[a]
        BY <1>2, <2>2, RegisterShape
      <4> HIDE DEF n
      <4> QED
        BY <4>1
    <3> HIDE DEF n
    <3> QED
      BY <3>1, <3>2
  <2> QED
    BY <2>1, <2>2
<1>3. ASSUME NEW c \in Tasks, RestoreRemove(c) PROVE OneRowPerSnapshot'
  BY <1>3, RemoveShape
<1> QED
  BY <1>1, <1>2, <1>3, ApplicationsChange
-------------------------------------------------------------------------------
(* The inductive invariant of the engine: what run() holds is well typed,   *)
(* it asks for targets only, and the flag is set while a benchmark is under *)
(* way, of which there is one.                                              *)
Benches ==
  /\ bench \in [Tasks -> Bench]
  /\ running \in BOOLEAN
  /\ \A c \in Tasks : \A i \in bench[c].todo : bench[c].asked[i] \in Targets
  /\ \A c \in Tasks : Benchmarking(c) => running
  /\ OneBenchmark

-------------------------------------------------------------------------------
(* What a benchmark does of itself is no step of the tweak calls, or one.   *)
LEMMA RevertNextIsRevert ==
  ASSUME Typed, OneRowPerSnapshot, NEW c \in Tasks, RevertNext(c)
  PROVE  [Next]_vars
<1> DEFINE s == bench[c].applied[bench[c].left]
<1>1. CASE s \notin ActiveSnapshots
  BY <1>1 DEF RevertNext
<1>2. CASE s \in ActiveSnapshots
  <2>1. PICK a \in ActiveRows : applications[a].snap = s
    BY <1>2 DEF ActiveSnapshots
  <2>2. {b \in ActiveRows : applications[b].snap = s} = {a}
    BY <2>1 DEF OneRowPerSnapshot
  <2>3. Idle(c) /\ RestoreRow(c, s)
    BY <1>2 DEF RevertNext
  <2>4. RevertBegin(c)
    BY <2>1, <2>2, <2>3 DEF RestoreRow, RevertBegin
  <2> QED
    BY <2>4 DEF Next
<1> QED
  BY <1>1, <1>2

LEMMA BenchStepIsTweakStep ==
  ASSUME Typed, OneRowPerSnapshot, Benches, NEW c \in Tasks, BenchStep(c)
  PROVE  [Next]_vars
<1>1. CaptureReturns(c) \/ BenchApplyBlocked(c) \/ ApplyEnds(c) \/ RevertEnds(c) \/ BenchRecord(c)
        => UNCHANGED vars
  BY DEF CaptureReturns, BenchApplyBlocked, ApplyEnds, RevertEnds, BenchRecord
<1>2. BenchCall(c) => Apply(c) \/ Restore(c)
  BY DEF BenchCall, Apply, Restore
<1>3. ASSUME BenchApply(c) PROVE [Next]_vars
  <2>1. PICK i \in bench[c].todo : ApplyBegin(c, bench[c].asked[i])
    BY <1>3 DEF BenchApply
  <2>2. bench[c].asked[i] \in Targets
    BY <2>1 DEF Benches
  <2> QED
    BY <2>1, <2>2 DEF Next
<1> QED
  BY <1>1, <1>2, <1>3, RevertNextIsRevert DEF BenchStep, Next

LEMMA OtherIsTweakStep ==
  ASSUME NEW c \in Tasks,
         OtherBegin(c) \/ OtherStep(c) \/ OtherDropped(c) \/ BenchDropped(c)
  PROVE  [Next]_vars
<1>1. OtherBegin(c) =>
        \/ \E t \in Targets : ApplyBegin(c, t)
        \/ RevertBegin(c)
        \/ RestoreAllBegin(c)
  BY DEF OtherBegin
<1>2. OtherStep(c) => Apply(c) \/ Restore(c)
  BY DEF OtherStep, Apply, Restore
<1>3. OtherDropped(c) \/ BenchDropped(c) => Dropped(c)
  BY DEF OtherDropped, BenchDropped
<1> QED
  BY <1>1, <1>2, <1>3 DEF Next

LEMMA EngineStepIsTweakStep ==
  Typed /\ OneRowPerSnapshot /\ Benches /\ [BenchNext]_engineVars => [Next]_vars
<1> SUFFICES ASSUME Typed, OneRowPerSnapshot, Benches, [BenchNext]_engineVars
             PROVE  [Next]_vars
  OBVIOUS
<1>1. ASSUME NEW c \in Tasks, BenchStart(c) \/ BenchRaises(c) PROVE [Next]_vars
  BY <1>1 DEF BenchStart, BenchRaises
<1>2. ASSUME NEW t \in Targets, BenchProcessExit(t) PROVE [Next]_vars
  BY <1>2 DEF BenchProcessExit, Next
<1>3. BenchRestart => [Next]_vars
  BY DEF BenchRestart, Next
<1>4. UNCHANGED engineVars => UNCHANGED vars
  BY DEF engineVars
<1> QED
  BY <1>1, <1>2, <1>3, <1>4, BenchStepIsTweakStep, OtherIsTweakStep DEF BenchNext
-------------------------------------------------------------------------------
(* What the steps do to bench and to the flag: nothing; one benchmark goes  *)
(* on; it is left; one begins; all are lost.                                *)
LEMMA NoBenchShape == /\ NoBench \in Bench
                      /\ NoBench.at = "none" /\ NoBench.todo = {}
<1>1. <<>> \in Seq(Targets) /\ <<>> \in Seq(Nat)
  OBVIOUS
<1> QED
  BY <1>1 DEF NoBench, Bench, BenchPoints

LEMMA GoesOn ==
  ASSUME Benches, NEW c \in Tasks, Benchmarking(c), NEW b \in Bench,
         bench' = [bench EXCEPT ![c] = b], running' = running,
         b.at # "none", b.asked = bench[c].asked, b.todo \subseteq bench[c].todo
  PROVE  Benches'
  BY DEF Benches, OneBenchmark, Benchmarking

LEMMA IsLeft ==
  ASSUME Benches, NEW c \in Tasks, Benchmarking(c), Leave(c)
  PROVE  Benches'
  BY NoBenchShape DEF Benches, OneBenchmark, Benchmarking, Leave

LEMMA Begins ==
  ASSUME Benches, NEW c \in Tasks, BenchStart(c)
  PROVE  Benches'
<1>1. PICK ts \in TweakSets, revertAfter \in BOOLEAN :
        bench' = [bench EXCEPT ![c] = Begun(ts, revertAfter)]
  BY DEF BenchStart
<1> DEFINE b == Begun(ts, revertAfter)
<1>2. ts \in Seq(Targets) /\ Firsts(ts) \subseteq DOMAIN ts /\ DOMAIN ts \subseteq Nat
  BY TweakSetsAssumption DEF Firsts
<1>3. /\ b \in Bench /\ b.at = "baseline"
      /\ \A i \in b.todo : b.asked[i] \in Targets
  <2>1. <<>> \in Seq(Nat) /\ Firsts(ts) \subseteq Nat
    BY <1>2
  <2>2. \A i \in DOMAIN ts : ts[i] \in Targets
    BY <1>2, ElementOfSeq, LenProperties
  <2> QED
    BY <1>2, <2>1, <2>2 DEF Begun, Bench, BenchPoints
<1> HIDE DEF b
<1>4. \A d \in Tasks : ~Benchmarking(d)
  BY DEF BenchStart, Benches
<1>5. bench' = [bench EXCEPT ![c] = b] /\ running' = TRUE
  BY <1>1 DEF b, BenchStart
<1> QED
  BY <1>3, <1>4, <1>5 DEF Benches, OneBenchmark, Benchmarking

LEMMA AreLost == Benches /\ BenchRestart => Benches'
  BY NoBenchShape DEF Benches, BenchRestart, OneBenchmark, Benchmarking

LEMMA BenchesInit == BenchInit => Benches
  BY NoBenchShape DEF BenchInit, Benches, OneBenchmark, Benchmarking

LEMMA BenchCallKeeps ==
  ASSUME Typed, Benches, NEW c \in Tasks, BenchCall(c)
  PROVE  Benches'
<1>1. Benchmarking(c)
  BY DEF BenchCall
<1>2. CASE UNCHANGED <<bench, running>>
  BY <1>2 DEF Benches, OneBenchmark, Benchmarking
<1>3. CASE Leave(c)
  BY <1>1, <1>3, IsLeft
<1>4. CASE ApplyReturns(c) /\ running' = running
  <2> DEFINE ids == Append(bench[c].applied, job[c].snap)
             l   == bench[c].left + 1
             b   == [bench[c] EXCEPT !.applied = ids, !.left = l]
  <2>1. bench[c] \in Bench /\ job[c].snap \in Nat
    BY DEF Benches, Typed, TypeOK, Job
  <2>2. ids \in Seq(Nat) /\ l \in Nat
    BY <2>1, AppendProperties DEF Bench
  <2> HIDE DEF ids, l
  <2>3. /\ b \in Bench /\ b.at = bench[c].at
        /\ b.asked = bench[c].asked /\ b.todo = bench[c].todo
    BY <2>1, <2>2 DEF Bench
  <2>4. bench' = [bench EXCEPT ![c] = b]
    BY <1>4 DEF ApplyReturns, Benches, ids, l
  <2> HIDE DEF b
  <2> QED
    BY <1>1, <1>4, <2>3, <2>4, GoesOn DEF Benchmarking
<1> QED
  BY <1>2, <1>3, <1>4 DEF BenchCall

LEMMA BenchStepKeeps ==
  ASSUME Typed, Benches, NEW c \in Tasks, BenchStep(c)
  PROVE  Benches'
<1>t. bench \in [Tasks -> Bench] /\ bench[c] \in Bench
  BY DEF Benches
<1>1. CASE CaptureReturns(c)
  <2> DEFINE b == [bench[c] EXCEPT !.at = IF @ = "baseline" THEN "apply"
                                          ELSE IF bench[c].revertAfter THEN "revert"
                                          ELSE "record"]
  <2>1. /\ b \in Bench /\ b.at # "none"
        /\ b.asked = bench[c].asked /\ b.todo = bench[c].todo
    BY <1>t DEF Bench, BenchPoints
  <2>2. bench' = [bench EXCEPT ![c] = b] /\ Benchmarking(c) /\ running' = running
    BY <1>1, <1>t DEF CaptureReturns, Benchmarking
  <2> HIDE DEF b
  <2> QED
    BY <2>1, <2>2, GoesOn
<1>2. ASSUME NEW i \in bench[c].todo, bench[c].at = "apply", running' = running,
             bench' = [bench EXCEPT ![c].todo = @ \ {i}]
      PROVE  Benches'
  <2> DEFINE b == [bench[c] EXCEPT !.todo = @ \ {i}]
  <2>1. /\ b \in Bench /\ b.at = "apply"
        /\ b.asked = bench[c].asked /\ b.todo \subseteq bench[c].todo
    BY <1>t, <1>2 DEF Bench
  <2>2. bench' = [bench EXCEPT ![c] = b] /\ Benchmarking(c)
    BY <1>2, <1>t DEF Benchmarking
  <2> HIDE DEF b
  <2> QED
    BY <1>2, <2>1, <2>2, GoesOn
<1>3. CASE BenchApply(c) \/ BenchApplyBlocked(c)
  BY <1>2, <1>3 DEF BenchApply, BenchApplyBlocked
<1>4. ASSUME NEW at \in BenchPoints, at # "none", Benchmarking(c), running' = running,
             bench' = [bench EXCEPT ![c].at = at]
      PROVE  Benches'
  <2> DEFINE b == [bench[c] EXCEPT !.at = at]
  <2>1. /\ b \in Bench /\ b.at # "none"
        /\ b.asked = bench[c].asked /\ b.todo = bench[c].todo
    BY <1>t, <1>4 DEF Bench
  <2>2. bench' = [bench EXCEPT ![c] = b]
    BY <1>4, <1>t
  <2> HIDE DEF b
  <2> QED
    BY <1>4, <2>1, <2>2, GoesOn
<1>5. CASE ApplyEnds(c) \/ RevertEnds(c)
  BY <1>4, <1>5 DEF ApplyEnds, RevertEnds, BenchPoints, Benchmarking
<1>6. CASE RevertNext(c)
  <2> DEFINE l == bench[c].left - 1
             b == [bench[c] EXCEPT !.left = l]
  <2>1. l \in Nat /\ bench[c].at = "revert"
    BY <1>t, <1>6 DEF RevertNext, Bench
  <2> HIDE DEF l
  <2>2. /\ b \in Bench /\ b.at = "revert"
        /\ b.asked = bench[c].asked /\ b.todo = bench[c].todo
    BY <1>t, <2>1 DEF Bench
  <2>3. bench' = [bench EXCEPT ![c] = b] /\ running' = running
    BY <1>6, <1>t DEF RevertNext, l
  <2> HIDE DEF b
  <2> QED
    BY <2>1, <2>2, <2>3, GoesOn DEF Benchmarking
<1>7. CASE BenchRecord(c)
  BY <1>7, IsLeft DEF BenchRecord, Benchmarking
<1> QED
  BY <1>1, <1>3, <1>5, <1>6, <1>7, BenchCallKeeps DEF BenchStep

LEMMA BenchesStep == Typed /\ Benches /\ [BenchNext]_engineVars => Benches'
<1> SUFFICES ASSUME Typed, Benches, [BenchNext]_engineVars PROVE Benches'
  OBVIOUS
<1>1. CASE UNCHANGED <<bench, running>>
  BY <1>1 DEF Benches, OneBenchmark, Benchmarking
<1>2. ASSUME NEW c \in Tasks, BenchRaises(c) \/ BenchDropped(c) PROVE Benches'
  BY <1>2, IsLeft DEF BenchRaises, BenchDropped, Benchmarking
<1>3. ASSUME NEW c \in Tasks, OtherBegin(c) \/ OtherStep(c) \/ OtherDropped(c) PROVE Benches'
  BY <1>1, <1>3 DEF OtherBegin, OtherStep, OtherDropped, BesideBench
<1>4. ASSUME NEW t \in Targets, BenchProcessExit(t) PROVE Benches'
  BY <1>1, <1>4 DEF BenchProcessExit
<1>5. CASE UNCHANGED engineVars
  BY <1>1, <1>5 DEF engineVars
<1> QED
  BY <1>2, <1>3, <1>4, <1>5, Begins, BenchStepKeeps, AreLost DEF BenchNext
-------------------------------------------------------------------------------
LEMMA EngineInvariant == BenchSpec => [](Typed /\ OneRowPerSnapshot /\ Benches)
<1>1. BenchInit => Typed /\ OneRowPerSnapshot /\ Benches
  BY TypedInit, OneRowInit, BenchesInit DEF BenchInit
<1>2. Typed /\ OneRowPerSnapshot /\ Benches /\ [BenchNext]_engineVars
        => (Typed /\ OneRowPerSnapshot /\ Benches)'
  BY EngineStepIsTweakStep, TypedStep, OneRowStep, BenchesStep
<1> QED
  BY <1>1, <1>2, PTL DEF BenchSpec

(* The counters, the stored benchmarks and the history. *)
Records ==
  /\ started \in Nat /\ mishaps \in Nat
  /\ results \in Seq([applied : Seq(Nat), revertAfter : BOOLEAN])
  /\ found \subseteq [Targets -> OsValues]

LEMMA RecordsStep == Typed /\ Benches /\ Records /\ [BenchNext]_engineVars => Records'
<1> SUFFICES ASSUME Typed, Benches, Records, [BenchNext]_engineVars PROVE Records'
  OBVIOUS
<1>1. started' = started \/ started' = started + 1
  BY DEF BenchNext, BenchStart, BenchStep, CaptureReturns, BenchApply,
         BenchApplyBlocked, BenchCall, ApplyEnds, RevertNext, RevertEnds, BenchRecord,
         BenchRaises, BenchDropped, OtherBegin, OtherStep, OtherDropped, BesideBench,
         BenchProcessExit, BenchRestart, engineVars
<1>2. mishaps' = mishaps \/ mishaps' = mishaps + 1
  BY DEF BenchNext, BenchStart, BenchStep, CaptureReturns, BenchApply,
         BenchApplyBlocked, BenchCall, ApplyEnds, RevertNext, RevertEnds, BenchRecord,
         BenchRaises, BenchDropped, OtherBegin, OtherStep, OtherDropped, Mishap, Refusal,
         BenchProcessExit, BenchRestart, engineVars
<1>3. found' = found \/ found' = {} \/ found' = {os}
  BY DEF BenchNext, BenchStart, BenchStep, CaptureReturns, BenchApply,
         BenchApplyBlocked, BenchCall, ApplyEnds, RevertNext, RevertEnds, BenchRecord,
         BenchRaises, BenchDropped, OtherBegin, OtherStep, OtherDropped, BesideBench,
         Leave, Refusal, BenchProcessExit, BenchRestart, engineVars
<1>4. os \in [Targets -> OsValues]
  BY DEF Typed, TypeOK
<1>5. results' = results \/ \E c \in Tasks : BenchRecord(c)
  BY DEF BenchNext, BenchStart, BenchStep, CaptureReturns, BenchApply,
         BenchApplyBlocked, BenchCall, ApplyEnds, RevertNext, RevertEnds,
         BenchRaises, BenchDropped, OtherBegin, OtherStep, OtherDropped, BesideBench,
         BenchProcessExit, BenchRestart, engineVars
<1>6. ASSUME NEW c \in Tasks, BenchRecord(c)
      PROVE  results' \in Seq([applied : Seq(Nat), revertAfter : BOOLEAN])
  <2>1. bench[c] \in Bench
    BY DEF Benches
  <2>2. [applied |-> bench[c].applied, revertAfter |-> bench[c].revertAfter]
          \in [applied : Seq(Nat), revertAfter : BOOLEAN]
    BY <2>1 DEF Bench
  <2> QED
    BY <1>6, <2>2, AppendProperties DEF BenchRecord, Records
<1> QED
  BY <1>1, <1>2, <1>3, <1>4, <1>5, <1>6 DEF Records

(* Every reachable state of the engine is well typed. *)
THEOREM BenchTypeCorrect == BenchSpec => []BenchTypeOK
<1>1. BenchInit => Records
  BY DEF BenchInit, Records
<1>2. Typed /\ Benches /\ Records => BenchTypeOK
  BY DEF Typed, Benches, Records, BenchTypeOK
<1> QED
  BY <1>1, <1>2, EngineInvariant, RecordsStep, PTL DEF BenchSpec

(* Benchmarks change settings and tables by tweak calls only, beside those  *)
(* of other requests and whatever goes wrong.                               *)
THEOREM BenchImplementsTweaksAlways == BenchSpec => BenchImplementsTweaks
<1>1. BenchInit => Init
  BY DEF BenchInit
<1> QED
  BY <1>1, EngineInvariant, EngineStepIsTweakStep, PTL
     DEF BenchSpec, BenchImplementsTweaks, Spec

(* Two benchmarks never run at the same time. *)
THEOREM OneBenchmarkAlways == BenchSpec => []OneBenchmark
<1>1. Benches => OneBenchmark
  BY DEF Benches
<1> QED
  BY <1>1, EngineInvariant, PTL

(* So what is proved of the tweak calls holds while benchmarks run: an      *)
(* altered setting has its original value in a committed snapshot, and no   *)
(* row is taken off the list before its snapshot is marked.                 *)
THEOREM BenchOriginalSurvives == BenchSpec => []OriginalSurvives
  BY BenchImplementsTweaksAlways, OriginalSurvivesAlways, PTL DEF BenchImplementsTweaks

THEOREM BenchRemovedAfterMark == BenchSpec => []RemovedAfterMark
  BY BenchImplementsTweaksAlways, RemovedAfterMarkAlways, PTL DEF BenchImplementsTweaks

(* And while every launch is live, an altered setting captured in its       *)
(* original state only has a snapshot that is restorable or whose row is    *)
(* listed.                                                                  *)
THEOREM BenchAlteredIsRecoverable ==
  ASSUME LaunchModes = {FALSE}
  PROVE  BenchSpec => []AlteredIsRecoverable
<1>1. Spec => []AlteredIsRecoverable
  BY AlteredIsRecoverableLive
<1> QED
  BY <1>1, BenchImplementsTweaksAlways, PTL DEF BenchImplementsTweaks
-------------------------------------------------------------------------------
(* A snapshot whose tweak is in force and still to be taken back, and one   *)
(* that a revert of c has picked and not yet marked.                        *)
InForce(s)  == s \in ActiveSnapshots /\ snapshots[s].restorable
Picked(c, s) ==
  \/ /\ pc[c] \in {"restore", "mark", "remove"}
     /\ \E a \in job[c].todo \cap DOMAIN applications : applications[a].snap = s
  \/ pc[c] = "mark" /\ job[c].snap = s

(* A snapshot that has a row keeps it, and does not come into force again.  *)
LEMMA StaysOut ==
  ASSUME Typed, OwnersInv, [Next]_vars, NEW s, HasRow(s)
  PROVE  /\ HasRow(s)' /\ (InForce(s)' => InForce(s))
         /\ DOMAIN applications \subseteq DOMAIN applications'
         /\ \A a \in DOMAIN applications : applications'[a].snap = applications[a].snap
<1>t. s \in DOMAIN snapshots
  BY DEF HasRow, Typed, RefsOK
<1> USE DEF HasRow, InForce, ActiveSnapshots, ActiveRows
<1>1. ASSUME NEW c \in Tasks, ApplyCapture(c) PROVE applications' = applications /\ snapshots'[s] = snapshots[s]
  BY <1>1, <1>t, CaptureShape DEF ApplyCapture
<1>2. ASSUME NEW c \in Tasks, RestoreMark(c)
      PROVE  applications' = applications /\ (snapshots'[s].restorable => snapshots[s].restorable)
  BY <1>2, <1>t, MarkShape DEF RestoreMark
<1>3. CASE \E c \in Tasks : ApplyCapture(c) \/ RestoreMark(c)
  BY <1>1, <1>2, <1>3
<1>4. ASSUME NEW c \in Tasks, ApplyRegister(c)
      PROVE  /\ HasRow(s)' /\ (InForce(s)' => InForce(s))
             /\ DOMAIN applications \subseteq DOMAIN applications'
             /\ \A a \in DOMAIN applications : applications'[a].snap = applications[a].snap
  <2>1. job[c].snap # s /\ snapshots' = snapshots
    BY <1>4 DEF ApplyRegister, OwnersInv, Applying
  <2> QED
    BY <1>4, <2>1, RegisterRows
<1>5. ASSUME NEW c \in Tasks, RestoreRemove(c)
      PROVE  /\ HasRow(s)' /\ (InForce(s)' => InForce(s))
             /\ DOMAIN applications \subseteq DOMAIN applications'
             /\ \A a \in DOMAIN applications : applications'[a].snap = applications[a].snap
  <2>1. snapshots' = snapshots
    BY <1>5 DEF RestoreRemove
  <2>2. /\ DOMAIN applications' = DOMAIN applications
        /\ \A a \in DOMAIN applications :
             /\ applications'[a].snap = applications[a].snap
             /\ ~applications'[a].reverted => ~applications[a].reverted
    BY <1>5, RemoveShape
  <2> QED
    BY <2>1, <2>2
<1>6. CASE ~ \E c \in Tasks : \/ ApplyCapture(c) \/ ApplyRegister(c)
                              \/ RestoreMark(c) \/ RestoreRemove(c)
  <2>1. TablesKept
    BY <1>6 DEF TablesKept, Next, Apply, Restore, ApplyBegin, ApplyWrite, ApplyRefused,
                RevertBegin, RestoreAllBegin, RestoreWrite, RestoreRefused, RestoreAborted,
                ProcessExit, Dropped, Restart, vars
  <2> QED
    BY <2>1 DEF TablesKept
<1> QED
  BY <1>3, <1>4, <1>5, <1>6

(* What a restore has picked it keeps until it marks it. *)
LEMMA PicksUntilMarked ==
  ASSUME Typed, OwnersInv, [Next]_vars, NEW c \in Tasks, NEW s, HasRow(s),
         InForce(s) => Picked(c, s),
         \/ UNCHANGED <<pc[c], job[c]>>
         \/ Apply(c)
         \/ RestoreWrite(c) \/ RestoreRefused(c) \/ RestoreMark(c) \/ RestoreRemove(c)
  PROVE  InForce(s)' => Picked(c, s)'
<1> SUFFICES ASSUME InForce(s)' PROVE Picked(c, s)'
  OBVIOUS
<1>t. /\ pc \in [Tasks -> Points] /\ job \in [Tasks -> Job] /\ job[c] \in Job
      /\ s \in DOMAIN snapshots
  BY DEF Typed, TypeOK, HasRow, RefsOK
<1>1. /\ Picked(c, s)
      /\ DOMAIN applications \subseteq DOMAIN applications'
      /\ \A a \in DOMAIN applications : applications'[a].snap = applications[a].snap
  BY StaysOut
<1>2. CASE UNCHANGED <<pc[c], job[c]>>
  BY <1>1, <1>2 DEF Picked
<1>3. CASE Apply(c)
  BY <1>1, <1>3 DEF Apply, ApplyCapture, ApplyWrite, ApplyRefused, ApplyRegister, Picked
<1>4. CASE RestoreWrite(c) \/ RestoreRefused(c)
  <2>1. PICK a \in DOMAIN applications, ok \in BOOLEAN :
          job' = [job EXCEPT ![c].snap = applications[a].snap,
                             ![c].todo = @ \ {a}, ![c].ok = ok]
    BY <1>4 DEF RestoreWrite, RestoreRefused
  <2>2. job'[c] = [[[job[c] EXCEPT !.snap = applications[a].snap]
                       EXCEPT !.todo = @ \ {a}] EXCEPT !.ok = ok]
    BY <1>t, <2>1
  <2>3. job'[c].snap = applications[a].snap /\ job'[c].todo = job[c].todo \ {a}
    BY <1>t, <2>2 DEF Job
  <2>4. pc[c] = "restore" /\ pc'[c] = "mark"
    BY <1>t, <1>4 DEF RestoreWrite, RestoreRefused
  <2> QED
    BY <1>1, <2>3, <2>4 DEF Picked
<1>5. CASE RestoreMark(c)
  <2>1. job[c].snap # s
    BY <1>5, <1>t, MarkShape DEF InForce
  <2>2. PICK a \in job[c].todo \cap DOMAIN applications : applications[a].snap = s
    BY <1>1, <2>1 DEF Picked
  <2>3. job'[c].todo = job[c].todo /\ pc'[c] \in {"remove", "restore"}
    BY <1>t, <1>5, <2>2 DEF RestoreMark, AfterRow
  <2> QED
    BY <1>1, <2>2, <2>3 DEF Picked
<1>6. CASE RestoreRemove(c)
  <2>1. PICK a \in job[c].todo \cap DOMAIN applications : applications[a].snap = s
    BY <1>1, <1>6 DEF Picked, RestoreRemove
  <2>2. job'[c].todo = job[c].todo /\ pc'[c] = "restore"
    BY <1>t, <1>6, <2>1 DEF RestoreRemove, AfterRow
  <2> QED
    BY <1>1, <2>1, <2>2 DEF Picked
<1> QED
  BY <1>2, <1>3, <1>4, <1>5, <1>6

(* What run() on c knows of the tweaks that it has applied: each has a row, *)
(* and those that the revert loop has come to are out of force, but for the *)
(* one it is restoring.                                                     *)
Behind(c) == {i \in DOMAIN bench[c].applied : i > bench[c].left}
Reverts(c) ==
  /\ bench[c].left <= Len(bench[c].applied)
  /\ bench[c].at \in {"baseline", "apply", "optimized"} => bench[c].left = Len(bench[c].applied)
  /\ bench[c].at \in {"baseline", "optimized", "record"} => Idle(c)
  /\ bench[c].at = "revert" => pc[c] \in {"idle", "restore", "mark", "remove"}
  /\ bench[c].at = "record" /\ bench[c].revertAfter => bench[c].left = 0
  /\ \A i \in DOMAIN bench[c].applied : HasRow(bench[c].applied[i])
  /\ bench[c].at = "revert" \/ (bench[c].at = "record" /\ bench[c].revertAfter) =>
       \A i \in Behind(c) : InForce(bench[c].applied[i]) => Picked(c, bench[c].applied[i])

StoredAreOut ==
  \A i \in DOMAIN results : \A j \in DOMAIN results[i].applied :
    /\ HasRow(results[i].applied[j])
    /\ results[i].revertAfter => ~InForce(results[i].applied[j])

RevertInv == StoredAreOut /\ \A c \in Tasks : Reverts(c)

LEMMA NoBenchReverts ==
  ASSUME NEW c \in Tasks, bench'[c] = NoBench
  PROVE  Reverts(c)'
<1>1. Len(<<>>) = 0 /\ DOMAIN <<>> = {}
  OBVIOUS
<1> QED
  BY <1>1 DEF Reverts, NoBench, Behind

(* A step that is none of c's, or that c takes outside of a benchmark. *)
LEMMA RevertsStay ==
  ASSUME Typed, OwnersInv, [Next]_vars, NEW c \in Tasks, Reverts(c), bench'[c] = bench[c],
         bench[c].at = "none" \/ UNCHANGED <<pc[c], job[c]>>
  PROVE  Reverts(c)'
<1>1. \A i \in DOMAIN bench[c].applied : HasRow(bench[c].applied[i])'
  BY StaysOut DEF Reverts
<1>2. CASE bench[c].at = "none"
  BY <1>1, <1>2 DEF Reverts
<1>3. CASE UNCHANGED <<pc[c], job[c]>>
  <2>1. ASSUME NEW i \in Behind(c),
               InForce(bench[c].applied[i]) => Picked(c, bench[c].applied[i])
        PROVE  InForce(bench[c].applied[i])' => Picked(c, bench[c].applied[i])'
    BY <1>3, <2>1, PicksUntilMarked DEF Reverts, Behind
  <2> QED
    BY <1>1, <1>3, <2>1 DEF Reverts, Behind, Idle
<1> QED
  BY <1>2, <1>3

LEMMA StoredStay ==
  ASSUME Typed, OwnersInv, [Next]_vars, StoredAreOut, results' = results
  PROVE  StoredAreOut'
  BY StaysOut DEF StoredAreOut

(* The steps of run() before it reverts: at most the tweak just registered  *)
(* is new to it.                                                            *)
LEMMA RevertsBefore ==
  ASSUME Typed, OwnersInv, [Next]_vars, Benches, NEW c \in Tasks, Reverts(c),
         CaptureReturns(c) \/ BenchApply(c) \/ BenchApplyBlocked(c) \/ ApplyEnds(c)
  PROVE  Reverts(c)'
<1>t. bench[c] \in Bench /\ bench \in [Tasks -> Bench] /\ Len(bench[c].applied) \in Nat
      /\ DOMAIN bench[c].applied = 1..Len(bench[c].applied)
  BY LenProperties DEF Benches, Bench
<1>1. \A i \in DOMAIN bench[c].applied : \A s : s = bench[c].applied[i] => HasRow(s)'
  BY StaysOut DEF Reverts
<1>2. CASE CaptureReturns(c)
  <2>1. UNCHANGED <<pc, job>>
    BY <1>2 DEF CaptureReturns, vars
  <2>2. /\ bench'[c].applied = bench[c].applied /\ bench'[c].left = bench[c].left
        /\ bench'[c].revertAfter = bench[c].revertAfter
        /\ bench'[c].at = IF bench[c].at = "baseline" THEN "apply"
                          ELSE IF bench[c].revertAfter THEN "revert" ELSE "record"
        /\ bench[c].at \in {"baseline", "optimized"}
    BY <1>t, <1>2 DEF CaptureReturns, Bench
  <2> QED
    BY <1>t, <1>1, <2>1, <2>2 DEF Reverts, Behind, Idle
<1>3. CASE BenchApply(c) \/ BenchApplyBlocked(c)
  <2>1. /\ bench'[c].applied = bench[c].applied /\ bench'[c].left = bench[c].left
        /\ bench'[c].at = "apply" /\ bench[c].at = "apply"
    BY <1>t, <1>3 DEF BenchApply, BenchApplyBlocked, Bench
  <2> QED
    BY <1>1, <2>1 DEF Reverts
<1>4. CASE ApplyEnds(c)
  <2>1. /\ bench'[c].applied = bench[c].applied /\ bench'[c].left = bench[c].left
        /\ bench'[c].at = "optimized" /\ bench[c].at = "apply" /\ Idle(c)'
    BY <1>t, <1>4 DEF ApplyEnds, Bench, vars, Idle
  <2> QED
    BY <1>1, <2>1 DEF Reverts
<1> QED
  BY <1>2, <1>3, <1>4

(* A tweak that has been registered has a row. *)
LEMMA RevertsRegister ==
  ASSUME Typed, OwnersInv, [Next]_vars, Benches, NEW c \in Tasks, Reverts(c),
         Benchmarking(c), ApplyRegister(c), ApplyReturns(c)
  PROVE  Reverts(c)'
<1>t. /\ bench[c] \in Bench /\ bench \in [Tasks -> Bench] /\ Len(bench[c].applied) \in Nat
      /\ bench[c].applied \in Seq(Nat) /\ job[c].snap \in Nat
  BY LenProperties DEF Benches, Bench, Typed, TypeOK, Job
<1>1. \A i \in DOMAIN bench[c].applied : \A s : s = bench[c].applied[i] => HasRow(s)'
  BY StaysOut DEF Reverts
<1>2. bench[c].at = "apply"
  BY <1>t DEF Reverts, Benchmarking, ApplyRegister, Idle, Bench, BenchPoints
<1>i. PICK ids : ids = Append(bench[c].applied, job[c].snap)
  OBVIOUS
<1>n. PICK n \in Nat : n = Len(bench[c].applied) + 1
  BY <1>t
<1>3. /\ Len(ids) = n /\ ids[n] = job[c].snap /\ DOMAIN ids = DOMAIN bench[c].applied \cup {n}
      /\ \A i \in DOMAIN bench[c].applied : ids[i] = bench[c].applied[i]
  BY <1>t, <1>i, <1>n, AppendShape
<1>4. bench'[c].applied = ids /\ bench'[c].left = bench[c].left + 1 /\ bench'[c].at = "apply"
  BY <1>t, <1>2, <1>i DEF ApplyReturns, Bench
<1>5. \A s : s = job[c].snap => HasRow(s)'
  BY RegisterRows DEF ActiveSnapshots, ActiveRows, HasRow
<1>7. bench'[c].left = n
  BY <1>2, <1>4, <1>n DEF Reverts
<1>8. Len(bench'[c].applied) = n /\ DOMAIN bench'[c].applied = DOMAIN bench[c].applied \cup {n}
  BY <1>3, <1>4
<1>9. \A i \in DOMAIN bench'[c].applied : \A s : s = bench'[c].applied[i] => HasRow(s)'
  BY <1>1, <1>3, <1>4, <1>5, <1>8
<1> QED
  BY <1>4, <1>7, <1>8, <1>9 DEF Reverts

(* A step of a call that run() is waiting for. *)
LEMMA RevertsCall ==
  ASSUME Typed, OwnersInv, [Next]_vars, Benches, NEW c \in Tasks, Reverts(c), BenchCall(c)
  PROVE  Reverts(c)'
<1>t. /\ bench[c] \in Bench /\ bench \in [Tasks -> Bench] /\ Benchmarking(c)
      /\ pc \in [Tasks -> Points]
  BY DEF Benches, BenchCall, Typed, TypeOK
<1>1. \A i \in DOMAIN bench[c].applied : \A s : s = bench[c].applied[i] => HasRow(s)'
  BY StaysOut DEF Reverts
<1>2. CASE Leave(c)
  BY <1>2, <1>t, NoBenchReverts DEF Leave
<1>3. CASE ApplyRegister(c) /\ ApplyReturns(c)
  BY <1>3, <1>t, RevertsRegister
<1>4. CASE /\ bench' = bench
           /\ \/ ApplyCapture(c) \/ ApplyWrite(c) \/ ApplyRefused(c)
              \/ RestoreWrite(c) \/ RestoreRefused(c) \/ RestoreMark(c) \/ RestoreRemove(c)
  <2>1. pc[c] # "idle"
    BY <1>4 DEF ApplyCapture, ApplyWrite, ApplyRefused, RestoreWrite, RestoreRefused,
                RestoreMark, RestoreRemove
  <2>2. bench[c].at \in {"apply", "revert"}
    BY <1>t, <2>1 DEF Reverts, Idle, Benchmarking, Bench, BenchPoints
  <2>3. CASE bench[c].at = "apply"
    BY <1>1, <1>4, <2>3 DEF Reverts
  <2>4. CASE bench[c].at = "revert"
    <3>1. RestoreWrite(c) \/ RestoreRefused(c) \/ RestoreMark(c) \/ RestoreRemove(c)
      BY <1>4, <2>4 DEF ApplyCapture, ApplyWrite, ApplyRefused, Reverts
    <3>2. pc'[c] \in {"idle", "restore", "mark", "remove"}
      BY <1>t, <3>1 DEF RestoreWrite, RestoreRefused, RestoreMark, RestoreRemove, AfterRow
    <3>3. \A i \in Behind(c) : \A s : s = bench[c].applied[i] => (InForce(s)' => Picked(c, s)')
      BY <2>4, <3>1, PicksUntilMarked DEF Reverts, Behind
    <3> QED
      BY <1>1, <1>4, <2>4, <3>2, <3>3 DEF Reverts, Behind
  <2> QED
    BY <2>2, <2>3, <2>4
<1> QED
  BY <1>2, <1>3, <1>4 DEF BenchCall

(* The revert loop takes the next tweak, or has none left. *)
LEMMA RevertsNext ==
  ASSUME Typed, OwnersInv, [Next]_vars, Benches, NEW c \in Tasks, Reverts(c),
         RevertNext(c) \/ RevertEnds(c)
  PROVE  Reverts(c)'
<1>t. /\ bench[c] \in Bench /\ bench \in [Tasks -> Bench] /\ bench[c].left \in Nat
      /\ pc \in [Tasks -> Points] /\ job \in [Tasks -> Job] /\ job[c] \in Job
      /\ Len(bench[c].applied) \in Nat /\ DOMAIN bench[c].applied = 1..Len(bench[c].applied)
  BY LenProperties DEF Benches, Bench, Typed, TypeOK
<1>1. \A i \in DOMAIN bench[c].applied : \A s : s = bench[c].applied[i] => HasRow(s)'
  BY StaysOut DEF Reverts
<1>2. Idle(c) /\ bench[c].at = "revert"
  BY DEF RevertNext, RevertEnds
<1>3. \A i \in Behind(c) : \A s : s = bench[c].applied[i] => ~InForce(s)'
  <2>1. \A i \in Behind(c) : ~InForce(bench[c].applied[i])
    BY <1>2 DEF Reverts, Picked, Idle
  <2> QED
    BY <2>1, StaysOut DEF Reverts, Behind
<1>4. CASE RevertEnds(c)
  <2>1. /\ bench'[c].applied = bench[c].applied /\ bench'[c].left = bench[c].left
        /\ bench'[c].at = "record" /\ bench[c].left = 0 /\ Idle(c)'
    BY <1>t, <1>2, <1>4 DEF RevertEnds, Bench, vars, Idle
  <2> QED
    BY <1>1, <1>3, <2>1 DEF Reverts, Behind
<1>5. CASE RevertNext(c)
  <2>n. PICK n \in Nat : n = bench[c].left
    BY <1>t
  <2>s. PICK s : s = bench[c].applied[n]
    OBVIOUS
  <2>1. /\ bench'[c].applied = bench[c].applied /\ bench'[c].left = n - 1
        /\ bench'[c].at = "revert" /\ n > 0 /\ n \in DOMAIN bench[c].applied
    BY <1>t, <1>2, <1>5, <2>n DEF RevertNext, Bench, Reverts
  <2>2. \A i \in DOMAIN bench[c].applied : i > n - 1 => i = n \/ i \in Behind(c)
    BY <1>t, <2>n DEF Behind
  <2>3. /\ pc'[c] \in {"idle", "restore"}
        /\ InForce(s)' => Picked(c, s)'
    <3>1. CASE s \notin ActiveSnapshots
      <4>1. UNCHANGED vars
        BY <1>5, <2>n, <2>s, <3>1 DEF RevertNext
      <4> QED
        BY <1>2, <3>1, <4>1 DEF vars, InForce, ActiveSnapshots, ActiveRows, Idle
    <3>2. CASE s \in ActiveSnapshots
      <4>1. RestoreRow(c, s)
        BY <1>5, <2>n, <2>s, <3>2 DEF RevertNext
      <4>2. /\ pc'[c] = "restore" /\ UNCHANGED applications
            /\ job'[c].todo = {a \in ActiveRows : applications[a].snap = s}
        BY <1>t, <4>1 DEF RestoreRow, Job
      <4> QED
        BY <3>2, <4>2 DEF Picked, ActiveSnapshots, ActiveRows
    <3> QED
      BY <3>1, <3>2
  <2>4. n - 1 <= Len(bench[c].applied)
    BY <1>t, <2>n DEF Reverts
  <2>5. \A i \in DOMAIN bench[c].applied : i > n - 1 =>
          \A r : r = bench[c].applied[i] => (InForce(r)' => Picked(c, r)')
    BY <1>3, <2>2, <2>3, <2>s
  <2> QED
    BY <1>1, <2>1, <2>3, <2>4, <2>5 DEF Reverts, Behind
<1> QED
  BY <1>4, <1>5

(* The result that is stored: the loop has been through all of it. *)
LEMMA StoresReverted ==
  ASSUME Typed, OwnersInv, [Next]_vars, Benches, Records, StoredAreOut,
         NEW c \in Tasks, Reverts(c), BenchRecord(c)
  PROVE  StoredAreOut'
<1>t. bench[c] \in Bench /\ \A i \in DOMAIN bench[c].applied : i \in Nat /\ i >= 1
  <2>1. bench[c] \in Bench
    BY DEF Benches
  <2>2. DOMAIN bench[c].applied = 1..Len(bench[c].applied) /\ Len(bench[c].applied) \in Nat
    BY <2>1, LenProperties DEF Bench
  <2> QED
    BY <2>1, <2>2
<1> DEFINE new == [applied |-> bench[c].applied, revertAfter |-> bench[c].revertAfter]
<1>1. results \in Seq([applied : Seq(Nat), revertAfter : BOOLEAN])
      /\ new \in [applied : Seq(Nat), revertAfter : BOOLEAN]
  BY <1>t DEF Records, Bench
<1>2. PICK n : n = Len(results) + 1
  OBVIOUS
<1>3. /\ DOMAIN results' = DOMAIN results \cup {n} /\ results'[n] = new
      /\ \A i \in DOMAIN results : results'[i] = results[i]
  <2>1. results' = Append(results, new)
    BY DEF BenchRecord
  <2> HIDE DEF new
  <2> QED
    BY <1>1, <1>2, <2>1, AppendShape
<1>4. \A i \in DOMAIN results : \A j \in DOMAIN results[i].applied :
        \A s : s = results[i].applied[j] =>
          HasRow(s)' /\ (results[i].revertAfter => ~InForce(s)')
  BY StaysOut DEF StoredAreOut
<1>5. \A j \in DOMAIN new.applied : \A s : s = new.applied[j] =>
        HasRow(s)' /\ (new.revertAfter => ~InForce(s)')
  <2> SUFFICES ASSUME NEW j \in DOMAIN bench[c].applied, NEW s, s = bench[c].applied[j]
               PROVE  HasRow(s)' /\ (bench[c].revertAfter => ~InForce(s)')
    OBVIOUS
  <2>1. HasRow(s)
    BY DEF Reverts
  <2>2. bench[c].revertAfter => ~InForce(s)
    BY <1>t DEF Reverts, Behind, BenchRecord, Picked, Idle
  <2> QED
    BY <2>1, <2>2, StaysOut
<1> HIDE DEF new
<1> QED
  BY <1>3, <1>4, <1>5 DEF StoredAreOut

LEMMA RevertStep ==
  Typed /\ OwnersInv /\ OneRowPerSnapshot /\ Benches /\ Records /\ RevertInv
    /\ [BenchNext]_engineVars => RevertInv'
<1> SUFFICES ASSUME Typed, OwnersInv, OneRowPerSnapshot, Benches, Records, RevertInv,
                    [BenchNext]_engineVars
             PROVE  RevertInv'
  OBVIOUS
<1>t. /\ [Next]_vars /\ StoredAreOut /\ \A c \in Tasks : Reverts(c)
      /\ bench \in [Tasks -> Bench]
  BY EngineStepIsTweakStep DEF RevertInv, Benches
<1>1. ASSUME NEW c \in Tasks, results' = results, Reverts(c)',
             \A d \in Tasks \ {c} : UNCHANGED <<bench[d], pc[d], job[d]>>
      PROVE  RevertInv'
  BY <1>t, <1>1, RevertsStay, StoredStay DEF RevertInv
<1>2. ASSUME NEW c \in Tasks,
             \/ \E t \in Targets : ApplyBegin(c, t)
             \/ RevertBegin(c) \/ RestoreAllBegin(c) \/ Apply(c) \/ Restore(c) \/ Dropped(c)
             \/ UNCHANGED vars
      PROVE  \A d \in Tasks \ {c} : UNCHANGED <<pc[d], job[d]>>
  BY <1>2, OthersStay DEF vars
<1>3. ASSUME NEW c \in Tasks, BenchStart(c) PROVE RevertInv'
  <2>1. PICK ts \in TweakSets, revertAfter \in BOOLEAN :
          bench' = [bench EXCEPT ![c] = Begun(ts, revertAfter)]
    BY <1>3 DEF BenchStart
  <2>2. bench'[c].at = "baseline" /\ bench'[c].left = 0 /\ bench'[c].applied = <<>> /\ Idle(c)'
    BY <1>3, <1>t, <2>1 DEF Begun, BenchStart, vars, Idle
  <2>3. Len(<<>>) = 0 /\ DOMAIN <<>> = {}
    OBVIOUS
  <2>4. Reverts(c)'
    BY <2>2, <2>3 DEF Reverts
  <2> QED
    BY <1>1, <1>3, <2>1, <2>4, <1>t DEF BenchStart, vars
<1>4. ASSUME NEW c \in Tasks, CaptureReturns(c) \/ BenchApplyBlocked(c) \/ ApplyEnds(c) \/ RevertEnds(c)
      PROVE  RevertInv'
  <2>1. Reverts(c)'
    BY <1>4, <1>t, RevertsBefore, RevertsNext
  <2> QED
    BY <1>1, <1>4, <2>1, <1>t DEF CaptureReturns, BenchApplyBlocked, ApplyEnds, RevertEnds, vars
<1>5. ASSUME NEW c \in Tasks, BenchApply(c) PROVE RevertInv'
  <2>1. Reverts(c)'
    BY <1>5, <1>t, RevertsBefore
  <2>2. PICK i \in bench[c].todo : ApplyBegin(c, bench[c].asked[i])
    BY <1>5 DEF BenchApply
  <2>3. bench[c].asked[i] \in Targets
    BY <2>2 DEF Benches
  <2>4. \A d \in Tasks \ {c} : UNCHANGED <<pc[d], job[d]>>
    BY <1>2, <2>2, <2>3
  <2>5. results' = results /\ \A d \in Tasks \ {c} : UNCHANGED bench[d]
    BY <1>5, <1>t DEF BenchApply
  <2> QED
    BY <1>1, <2>1, <2>4, <2>5
<1>6. ASSUME NEW c \in Tasks, BenchCall(c) PROVE RevertInv'
  <2>1. Reverts(c)'
    BY <1>6, <1>t, RevertsCall
  <2>2. Apply(c) \/ Restore(c)
    BY <1>6 DEF BenchCall, Apply, Restore
  <2>3. results' = results /\ \A d \in Tasks \ {c} : UNCHANGED bench[d]
    BY <1>6, <1>t DEF BenchCall, Leave, ApplyReturns
  <2> QED
    BY <1>1, <1>2, <2>1, <2>2, <2>3
<1>7. ASSUME NEW c \in Tasks, RevertNext(c) PROVE RevertInv'
  <2>1. Reverts(c)'
    BY <1>7, <1>t, RevertsNext
  <2>2. results' = results /\ \A d \in Tasks \ {c} : UNCHANGED <<bench[d], pc[d], job[d]>>
    BY <1>7, <1>t DEF RevertNext, RestoreRow, vars, Typed, TypeOK
  <2> QED
    BY <1>1, <2>1, <2>2
<1>8. ASSUME NEW c \in Tasks, BenchRecord(c) PROVE RevertInv'
  <2>1. StoredAreOut'
    BY <1>8, <1>t, StoresReverted
  <2>2. Reverts(c)'
    BY <1>8, <1>t, NoBenchReverts DEF BenchRecord, Leave
  <2>3. \A d \in Tasks \ {c} : Reverts(d)'
    BY <1>8, <1>t, RevertsStay DEF BenchRecord, Leave, vars
  <2> QED
    BY <2>1, <2>2, <2>3 DEF RevertInv
<1>9. ASSUME NEW c \in Tasks, BenchRaises(c) \/ BenchDropped(c) PROVE RevertInv'
  <2>1. Reverts(c)'
    BY <1>9, <1>t, NoBenchReverts DEF BenchRaises, BenchDropped, Leave
  <2>2. results' = results /\ \A d \in Tasks \ {c} : UNCHANGED bench[d]
    BY <1>9, <1>t DEF BenchRaises, BenchDropped, Leave
  <2> QED
    BY <1>1, <1>2, <1>9, <2>1, <2>2 DEF BenchRaises, BenchDropped
<1>10. ASSUME NEW c \in Tasks, OtherBegin(c) \/ OtherStep(c) \/ OtherDropped(c)
       PROVE  RevertInv'
  <2>1. bench' = bench /\ results' = results /\ bench[c].at = "none"
    BY <1>10 DEF OtherBegin, OtherStep, OtherDropped, BesideBench, Benchmarking
  <2>2. Reverts(c)'
    BY <1>t, <2>1, RevertsStay
  <2>3. \A d \in Tasks \ {c} : UNCHANGED <<pc[d], job[d]>>
    BY <1>2, <1>10 DEF OtherBegin, OtherStep, OtherDropped, Apply, Restore
  <2> QED
    BY <1>1, <2>1, <2>2, <2>3
<1>11. CASE (\E t \in Targets : BenchProcessExit(t)) \/ UNCHANGED engineVars
  <2>1. UNCHANGED <<bench, results, pc, job>>
    BY <1>11 DEF BenchProcessExit, ProcessExit, engineVars, vars
  <2> QED
    BY <1>t, <2>1, RevertsStay, StoredStay DEF RevertInv
<1>12. CASE BenchRestart
  BY <1>12, <1>t, NoBenchReverts, StoredStay DEF BenchRestart, RevertInv
<1> QED
  BY <1>3, <1>4, <1>5, <1>6, <1>7, <1>8, <1>9, <1>10, <1>11, <1>12 DEF BenchNext, BenchStep

LEMMA RevertStart == BenchInit => RevertInv
<1>1. DOMAIN <<>> = {} /\ Len(<<>>) = 0
  OBVIOUS
<1> QED
  BY <1>1 DEF BenchInit, RevertInv, StoredAreOut, Reverts, NoBench, Behind

(* A stored benchmark that was to take its tweaks back has taken back every *)
(* one whose restore was not refused, for any tasks, tweak sets and faults, *)
(* beside any other calls, dry-run launches included.                       *)
THEOREM RecordedIsRevertedAlways == BenchSpec => []RecordedIsReverted
<1>1. BenchInit => OwnersInv /\ Records
  BY OwnersInit DEF BenchInit, Records
<1>2. ASSUME RevertInv PROVE RecordedIsReverted
  <2> SUFFICES ASSUME NEW i \in DOMAIN results, results[i].revertAfter,
                      NEW s \in Range(results[i].applied) \cap ActiveSnapshots
               PROVE  ~snapshots[s].restorable
    BY DEF RecordedIsReverted
  <2>1. PICK j \in DOMAIN results[i].applied : s = results[i].applied[j]
    BY DEF Range
  <2> QED
    BY <1>2, <2>1 DEF RevertInv, StoredAreOut, InForce
<1> QED
  BY <1>1, <1>2, RevertStart, EngineInvariant, EngineStepIsTweakStep, OwnersStep, RecordsStep,
     RevertStep, PTL DEF BenchSpec
-------------------------------------------------------------------------------
(* What a benchmark that nothing else has met knows of the settings f that  *)
(* it found: one that differs is the target of a tweak it has still to take *)
(* back, or of the call it is waiting for; and each of its snapshots holds  *)
(* the value of f, as the tweaks of a set have different targets.           *)
Holds(s, f)  == snapshots[s].before = f[snapshots[s].target]
Standing(c)  == 1..bench[c].left
Ahead(c, t)  == \E i \in bench[c].todo : bench[c].asked[i] = t
InApply(c)   == pc[c] \in {"capture", "write", "register"}
InRestore(c) == pc[c] \in {"restore", "mark", "remove"}
RowsOf(c)    == {applications[a].snap : a \in job[c].todo}

Alone(c) == \A d \in Tasks \ {c} : Idle(d)

Stands(c, s, f) ==
  /\ s \in ActiveSnapshots /\ Holds(s, f) /\ ~Ahead(c, snapshots[s].target)
  /\ pc[c] \in {"mark", "remove"} => job[c].snap # s
  /\ InRestore(c) => s \notin RowsOf(c)

Accounted(c, t, f) ==
  \/ os[t] = f[t]
  \/ \E i \in Standing(c) : snapshots[bench[c].applied[i]].target = t
  \/ pc[c] = "register" /\ job[c].target = t
  \/ InRestore(c) /\ \E s \in RowsOf(c) : snapshots[s].target = t

Neutral(c, f) ==
  /\ Alone(c)
  /\ \A i, j \in bench[c].todo : bench[c].asked[i] = bench[c].asked[j] => i = j
  /\ \A i \in Standing(c) : Stands(c, bench[c].applied[i], f)
  /\ \A i, j \in Standing(c) : bench[c].applied[i] = bench[c].applied[j] => i = j
  /\ InApply(c) => ~Ahead(c, job[c].target)
  /\ pc[c] = "capture" => job[c].before = f[job[c].target]
  /\ pc[c] \in {"write", "register"} => Holds(job[c].snap, f)
  /\ InRestore(c) => job[c].todo \subseteq DOMAIN applications /\ \A s \in RowsOf(c) : Holds(s, f)
  /\ \A t \in Targets : Accounted(c, t, f)
  /\ dryRun => \A t \in Targets : os[t] = f[t]

NeutralInv == \A c \in Tasks : Benchmarking(c) => \A f \in found : Neutral(c, f)

(* The first steps of an apply, and the write. *)
LEMMA NeutralApplies ==
  ASSUME Typed, NEW c \in Tasks, NEW f, Neutral(c, f), bench'[c] = bench[c],
         ApplyCapture(c) \/ ApplyWrite(c), Reverts(c)
  PROVE  Neutral(c, f)'
<1>t. /\ pc \in [Tasks -> Points] /\ job \in [Tasks -> Job] /\ job[c] \in Job
      /\ os \in [Targets -> OsValues] /\ job[c].target \in Targets
      /\ \A s \in ActiveSnapshots : s \in DOMAIN snapshots
  BY DEF Typed, TypeOK, Job, RefsOK, ActiveSnapshots, ActiveRows
<1>1. CASE ApplyCapture(c)
  <2> DEFINE n == Len(snapshots) + 1
  <2>1. /\ n \notin DOMAIN snapshots
        /\ snapshots'[n].target = job[c].target /\ snapshots'[n].before = job[c].before
        /\ \A s \in DOMAIN snapshots : snapshots'[s] = snapshots[s]
    <3>1. snapshots'[n] = [target |-> job[c].target, before |-> job[c].before,
                           restorable |-> TRUE]
      BY <1>1, CaptureShape
    <3>2. n \notin DOMAIN snapshots /\ \A s \in DOMAIN snapshots : snapshots'[s] = snapshots[s]
      BY <1>1, CaptureShape
    <3> HIDE DEF n
    <3> QED
      BY <3>1, <3>2
  <2>2. /\ pc[c] = "capture" /\ pc'[c] = "write"
        /\ job'[c].snap = n /\ job'[c].target = job[c].target /\ UNCHANGED <<os, dryRun, applications>>
        /\ \A d \in Tasks \ {c} : pc'[d] = pc[d]
    BY <1>1, <1>t DEF ApplyCapture, Job
  <2> HIDE DEF n
  <2>3. \A i \in Standing(c) : bench[c].applied[i] \in DOMAIN snapshots
    BY <1>t DEF Neutral, Stands
  <2>4. \A i \in Standing(c) : snapshots'[bench[c].applied[i]] = snapshots[bench[c].applied[i]]
    BY <2>1, <2>3
  <2>5. \A i \in Standing(c)' : Stands(c, bench[c].applied[i], f)'
    BY <2>2, <2>4 DEF Neutral, Stands, Standing, Holds, Ahead, InRestore, ActiveSnapshots, ActiveRows
  <2>6. \A t \in Targets : Accounted(c, t, f)'
    BY <2>2, <2>4 DEF Neutral, Accounted, Standing, InRestore
  <2> QED
    BY <2>1, <2>2, <2>5, <2>6
       DEF Neutral, Alone, Idle, InApply, InRestore, Holds, Ahead, Standing
<1>2. CASE ApplyWrite(c)
  <2>1. /\ pc[c] = "write" /\ pc'[c] = "register"
        /\ UNCHANGED <<dryRun, job, snapshots, applications>>
        /\ \A t \in Targets : t # job[c].target \/ dryRun => os'[t] = os[t]
        /\ \A d \in Tasks \ {c} : pc'[d] = pc[d]
    BY <1>2, <1>t DEF ApplyWrite
  <2>2. \A i \in Standing(c)' : Stands(c, bench[c].applied[i], f)'
    BY <2>1 DEF Neutral, Stands, Standing, Holds, Ahead, InRestore, ActiveSnapshots, ActiveRows
  <2>3. \A t \in Targets : Accounted(c, t, f)'
    BY <2>1 DEF Neutral, Accounted, Standing, InRestore
  <2> QED
    BY <2>1, <2>2, <2>3 DEF Neutral, Alone, Idle, InApply, InRestore, Holds, Ahead, Standing
<1> QED
  BY <1>1, <1>2

(* A restore writes the value that the snapshot holds, which is that of f. *)
LEMMA NeutralRestores ==
  ASSUME Typed, NEW c \in Tasks, NEW f, Neutral(c, f), bench'[c] = bench[c],
         RestoreWrite(c) \/ RestoreMark(c) \/ RestoreRemove(c),
         f \in [Targets -> OsValues]
  PROVE  Neutral(c, f)'
<1>t. /\ pc \in [Tasks -> Points] /\ job \in [Tasks -> Job] /\ job[c] \in Job
      /\ os \in [Targets -> OsValues]
      /\ \A a \in DOMAIN applications : /\ applications[a].snap \in DOMAIN snapshots
                                       /\ snapshots[applications[a].snap].target \in Targets
  <2>1. \A a \in DOMAIN applications : applications[a].snap \in DOMAIN snapshots
    BY DEF Typed, RefsOK
  <2> QED
    BY <2>1, SnapshotTyped DEF Typed, TypeOK, Snapshot
<1>1. CASE RestoreWrite(c)
  <2>1. PICK a \in DOMAIN applications :
          /\ a \in job[c].todo
          /\ os' = IF dryRun THEN os
                   ELSE [os EXCEPT ![snapshots[applications[a].snap].target] =
                           RestoredValue(snapshots[applications[a].snap].before)]
          /\ job' = [job EXCEPT ![c].snap = applications[a].snap,
                                ![c].todo = @ \ {a}, ![c].ok = TRUE]
    BY <1>1 DEF RestoreWrite, NextRow
  <2>2. PICK s : s = applications[a].snap
    OBVIOUS
  <2>3. job'[c].snap = s /\ job'[c].todo = job[c].todo \ {a} /\ job'[c].target = job[c].target
    BY <1>t, <2>1, <2>2 DEF Job
  <2>4. /\ pc[c] = "restore" /\ pc'[c] = "mark" /\ UNCHANGED <<dryRun, snapshots, applications>>
        /\ \A d \in Tasks \ {c} : pc'[d] = pc[d]
    BY <1>1, <1>t DEF RestoreWrite
  <2>5. s \in RowsOf(c) /\ Holds(s, f) /\ snapshots[s].target \in Targets
    BY <1>t, <2>1, <2>2, <2>4 DEF Neutral, InRestore, RowsOf
  <2>6. RestoredValue(snapshots[s].before) = f[snapshots[s].target]
    BY <2>5 DEF Holds, RestoredValue, OsValues, Unread, Original, Tweaked, Gone
  <2>7. \A t \in Targets : IF t = snapshots[s].target THEN os'[t] = f[t] ELSE os'[t] = os[t]
    BY <1>t, <2>1, <2>2, <2>5, <2>6 DEF Neutral
  <2>8. RowsOf(c)' \subseteq RowsOf(c) /\ \A r \in RowsOf(c) : r = s \/ r \in RowsOf(c)'
    BY <2>2, <2>3, <2>4 DEF RowsOf
  <2>9. \A i \in Standing(c)' : Stands(c, bench[c].applied[i], f)'
    BY <2>3, <2>4, <2>5, <2>8
       DEF Neutral, Stands, Standing, Holds, Ahead, InRestore, ActiveSnapshots, ActiveRows
  <2>10. \A t \in Targets : Accounted(c, t, f)'
    BY <2>4, <2>7, <2>8 DEF Neutral, Accounted, Standing, InRestore
  <2> QED
    BY <2>3, <2>4, <2>7, <2>8, <2>9, <2>10
       DEF Neutral, Alone, Idle, InApply, InRestore, Holds, Ahead, Standing
<1>2. ASSUME UNCHANGED <<os, dryRun>>, InRestore(c),
             pc'[c] \in {"idle", "restore", "remove"},
             pc'[c] = "idle" => job[c].todo = {},
             pc'[c] = "remove" => pc[c] = "mark" /\ job'[c].snap = job[c].snap,
             pc'[c] # "idle" => job'[c].todo = job[c].todo,
             \A d \in Tasks \ {c} : pc'[d] = pc[d],
             DOMAIN applications' = DOMAIN applications,
             \A a \in DOMAIN applications : applications'[a].snap = applications[a].snap,
             \A i \in Standing(c) : bench[c].applied[i] \in ActiveSnapshots',
             \A s \in DOMAIN snapshots : /\ snapshots'[s].before = snapshots[s].before
                                         /\ snapshots'[s].target = snapshots[s].target
      PROVE  Neutral(c, f)'
  <2>1. pc'[c] # "idle" => RowsOf(c)' = RowsOf(c)
    BY <1>2 DEF Neutral, RowsOf
  <2>2. /\ \A i \in Standing(c) : bench[c].applied[i] \in DOMAIN snapshots
        /\ \A s \in RowsOf(c) : s \in DOMAIN snapshots
    BY <1>2, <1>t DEF Neutral, Stands, RowsOf, ActiveSnapshots, ActiveRows
  <2>3. \A i \in Standing(c)' : Stands(c, bench[c].applied[i], f)'
    BY <1>2, <2>1, <2>2 DEF Neutral, Stands, Standing, Holds, Ahead, InRestore
  <2>4. \A t \in Targets : Accounted(c, t, f)'
    BY <1>2, <2>1, <2>2 DEF Neutral, Accounted, Standing, InRestore, RowsOf
  <2> QED
    BY <1>2, <2>1, <2>2, <2>3, <2>4
       DEF Neutral, Alone, Idle, InApply, InRestore, Holds, Ahead, Standing
<1>3. CASE RestoreMark(c)
  <2>1. /\ UNCHANGED <<os, dryRun, applications>> /\ pc[c] = "mark"
        /\ pc'[c] \in {"idle", "restore", "remove"}
        /\ pc'[c] = "idle" => job[c].todo = {}
        /\ pc'[c] # "idle" => job'[c] = job[c]
        /\ \A d \in Tasks \ {c} : pc'[d] = pc[d]
    BY <1>3, <1>t DEF RestoreMark, AfterRow
  <2>2. \A s \in DOMAIN snapshots : /\ snapshots'[s].before = snapshots[s].before
                                    /\ snapshots'[s].target = snapshots[s].target
    BY <1>3, MarkShape
  <2> QED
    BY <1>2, <2>1, <2>2 DEF Neutral, Stands, InRestore, ActiveSnapshots, ActiveRows
<1>4. CASE RestoreRemove(c)
  <2>1. /\ UNCHANGED <<os, dryRun, snapshots>> /\ pc[c] = "remove"
        /\ pc'[c] \in {"idle", "restore"}
        /\ pc'[c] = "idle" => job[c].todo = {}
        /\ pc'[c] # "idle" => job'[c] = job[c]
        /\ \A d \in Tasks \ {c} : pc'[d] = pc[d]
    BY <1>4, <1>t DEF RestoreRemove, AfterRow
  <2>2. /\ DOMAIN applications' = DOMAIN applications
        /\ \A a \in DOMAIN applications :
             /\ applications'[a].snap = applications[a].snap
             /\ ~applications[a].reverted /\ applications[a].snap # job[c].snap
                  => ~applications'[a].reverted
    BY <1>4, RemoveShape
  <2>3. \A i \in Standing(c) : bench[c].applied[i] \in ActiveSnapshots'
    BY <2>1, <2>2 DEF Neutral, Stands, ActiveSnapshots, ActiveRows
  <2> QED
    BY <1>2, <2>1, <2>2, <2>3 DEF InRestore
<1> QED
  BY <1>1, <1>3, <1>4

(* The next tweak of the set reads a setting that is as it was found. *)
LEMMA NeutralBegins ==
  ASSUME Typed, Benches, NEW c \in Tasks, NEW f, Neutral(c, f), "unread" \notin Faults,
         NEW i \in bench[c].todo, ApplyBegin(c, bench[c].asked[i]),
         bench' = [bench EXCEPT ![c].todo = @ \ {i}]
  PROVE  Neutral(c, f)'
<1>t. /\ pc \in [Tasks -> Points] /\ job \in [Tasks -> Job] /\ NoJob \in Job
      /\ bench \in [Tasks -> Bench] /\ bench[c] \in Bench /\ bench[c].asked[i] \in Targets
  BY NoJobType DEF Typed, TypeOK, Benches
<1>1. PICK t \in Targets : t = bench[c].asked[i]
  BY <1>t
<1>2. /\ pc[c] = "idle" /\ pc'[c] = "capture" /\ UNCHANGED <<os, dryRun, snapshots, applications>>
      /\ job'[c].target = t /\ job'[c].before = os[t]
      /\ \A d \in Tasks \ {c} : pc'[d] = pc[d]
  BY <1>t, <1>1 DEF ApplyBegin, ReadingsOf, Idle, Job
<1>3. /\ bench'[c].todo = bench[c].todo \ {i} /\ bench'[c].asked = bench[c].asked
      /\ bench'[c].applied = bench[c].applied /\ bench'[c].left = bench[c].left
  BY <1>t DEF Bench
<1>4. os[t] = f[t]
  BY <1>1, <1>2 DEF Neutral, Accounted, Stands, Ahead, InRestore
<1>5. \A k \in Standing(c)' : Stands(c, bench[c].applied[k], f)'
  <2>1. ASSUME NEW k \in Standing(c), NEW s, s = bench[c].applied[k]
        PROVE  Stands(c, s, f)'
    BY <1>2, <1>3, <2>1
       DEF Neutral, Stands, Standing, Holds, Ahead, InRestore, ActiveSnapshots, ActiveRows
  <2> QED
    BY <1>3, <2>1 DEF Standing, Stands, Holds, Ahead
<1>6. \A u \in Targets : Accounted(c, u, f)'
  BY <1>2, <1>3 DEF Neutral, Accounted, Standing, InRestore
<1> QED
  BY <1>1, <1>2, <1>3, <1>4, <1>5, <1>6
     DEF Neutral, Alone, Idle, InApply, InRestore, Holds, Ahead, Standing

(* A tweak that has been registered joins those to take back. *)
LEMMA NeutralRegisters ==
  ASSUME Typed, OwnersInv, Benches, NEW c \in Tasks, NEW f, Neutral(c, f),
         Reverts(c), Benchmarking(c), ApplyRegister(c), ApplyReturns(c)
  PROVE  Neutral(c, f)'
<1>t. /\ pc \in [Tasks -> Points] /\ job \in [Tasks -> Job] /\ job[c].snap \in Nat
      /\ bench \in [Tasks -> Bench] /\ bench[c] \in Bench
      /\ bench[c].applied \in Seq(Nat) /\ Len(bench[c].applied) \in Nat
  BY LenProperties DEF Typed, TypeOK, Benches, Bench, Job
<1>1. bench[c].at = "apply"
  BY <1>t DEF Reverts, Benchmarking, ApplyRegister, Idle, Bench, BenchPoints
<1>2. PICK n \in Nat : n = bench[c].left + 1
  BY <1>t DEF Bench
<1>3. PICK s : s = job[c].snap
  OBVIOUS
<1>4. PICK ids : ids = Append(bench[c].applied, job[c].snap)
  OBVIOUS
<1>5. /\ bench[c].left = Len(bench[c].applied) /\ bench[c].left \in Nat
      /\ DOMAIN bench[c].applied = 1..bench[c].left
  BY <1>1, <1>t, LenProperties DEF Reverts
<1>6. /\ bench'[c].left = n /\ bench'[c].applied = ids
      /\ bench'[c].todo = bench[c].todo /\ bench'[c].asked = bench[c].asked
  BY <1>2, <1>4, <1>t DEF ApplyReturns, Bench
<1>7. ids[n] = s /\ \A i \in Standing(c) : ids[i] = bench[c].applied[i]
  BY <1>2, <1>3, <1>4, <1>5, <1>t, AppendShape DEF Standing
<1>8. Standing(c)' = Standing(c) \cup {n} /\ n \notin Standing(c)
  BY <1>2, <1>5, <1>6 DEF Standing
<1>9. /\ pc[c] = "register" /\ pc'[c] = "idle" /\ UNCHANGED <<os, dryRun, snapshots>>
      /\ \A d \in Tasks \ {c} : pc'[d] = pc[d]
  BY <1>t DEF ApplyRegister
<1>10. /\ s \in ActiveSnapshots' /\ \A r \in ActiveSnapshots : r \in ActiveSnapshots'
       /\ ~HasRow(s)
  <2>1. ~HasRow(s)
    BY <1>3, <1>9 DEF OwnersInv, Applying
  <2> QED
    BY <1>3, <2>1, RegisterRows DEF ActiveSnapshots, ActiveRows
<1>11. \A i \in Standing(c) : bench[c].applied[i] # s
  BY <1>10 DEF Neutral, Stands, HasRow, ActiveSnapshots, ActiveRows
<1>12. Holds(s, f) /\ ~Ahead(c, snapshots[s].target) /\ snapshots[s].target = job[c].target
  <2>1. snapshots[s].target = job[c].target
    BY <1>3, <1>9 DEF Typed, RefsOK
  <2> QED
    BY <1>3, <1>9, <2>1 DEF Neutral, InApply
<1>13. \A i \in Standing(c)' : Stands(c, bench[c].applied[i], f)'
  <2>1. Stands(c, s, f)'
    BY <1>6, <1>9, <1>10, <1>12 DEF Stands, Holds, Ahead, InRestore
  <2>2. ASSUME NEW i \in Standing(c), NEW r, r = bench[c].applied[i] PROVE Stands(c, r, f)'
    BY <1>6, <1>9, <1>10, <2>2 DEF Neutral, Stands, Holds, Ahead, InRestore
  <2> QED
    BY <1>6, <1>7, <1>8, <2>1, <2>2 DEF Stands, Holds, Ahead
<1>14. \A t \in Targets : Accounted(c, t, f)'
  BY <1>6, <1>7, <1>8, <1>9, <1>12 DEF Neutral, Accounted, InRestore
<1>15. \A i, j \in Standing(c)' : bench'[c].applied[i] = bench'[c].applied[j] => i = j
  BY <1>6, <1>7, <1>8, <1>11 DEF Neutral
<1> QED
  BY <1>6, <1>9, <1>13, <1>14, <1>15 DEF Neutral, Alone, Idle, InApply, InRestore

(* The last one that stands is taken back next. *)
LEMMA NeutralReverts ==
  ASSUME Typed, Benches, NEW c \in Tasks, NEW f, Neutral(c, f), RevertNext(c)
  PROVE  Neutral(c, f)'
<1>t. /\ pc \in [Tasks -> Points] /\ job \in [Tasks -> Job] /\ job[c] \in Job
      /\ bench \in [Tasks -> Bench] /\ bench[c] \in Bench /\ bench[c].left \in Nat
  BY DEF Typed, TypeOK, Benches, Bench
<1>1. PICK n \in Nat : n = bench[c].left
  BY <1>t
<1>2. PICK s : s = bench[c].applied[n]
  OBVIOUS
<1>3. /\ bench'[c].left = n - 1 /\ bench'[c].applied = bench[c].applied /\ n > 0
      /\ bench'[c].todo = bench[c].todo /\ bench'[c].asked = bench[c].asked
  BY <1>1, <1>t DEF RevertNext, Bench
<1>4. Standing(c) = 1..n /\ Standing(c)' = 1..(n - 1) /\ n \in Standing(c)
  BY <1>1, <1>3 DEF Standing
<1>5. s \in ActiveSnapshots /\ Holds(s, f)
  BY <1>2, <1>4 DEF Neutral, Stands
<1>6. RestoreRow(c, s) /\ Idle(c)
  BY <1>1, <1>2, <1>5 DEF RevertNext
<1>7. /\ pc[c] = "idle" /\ pc'[c] = "restore" /\ UNCHANGED <<os, dryRun, snapshots, applications>>
      /\ job'[c].todo = {a \in ActiveRows : applications[a].snap = s}
      /\ \A d \in Tasks \ {c} : pc'[d] = pc[d]
  BY <1>6, <1>t DEF RestoreRow, Idle, Job
<1>8. RowsOf(c)' = {s} /\ job'[c].todo \subseteq DOMAIN applications
  BY <1>5, <1>7 DEF RowsOf, ActiveSnapshots, ActiveRows
<1>9. \A i \in 1..(n - 1) : i \in Standing(c) /\ bench[c].applied[i] # s
  BY <1>2, <1>4 DEF Neutral
<1>10. \A i \in Standing(c)' : Stands(c, bench[c].applied[i], f)'
  <2>1. ASSUME NEW i \in 1..(n - 1), NEW r, r = bench[c].applied[i] PROVE Stands(c, r, f)'
    BY <1>3, <1>7, <1>8, <1>9, <2>1
       DEF Neutral, Stands, Holds, Ahead, ActiveSnapshots, ActiveRows
  <2> QED
    BY <1>3, <1>4, <2>1 DEF Stands, Holds, Ahead
<1>11. \A t \in Targets : Accounted(c, t, f)'
  <2> SUFFICES ASSUME NEW t \in Targets PROVE Accounted(c, t, f)'
    OBVIOUS
  <2>1. CASE snapshots[s].target = t
    BY <1>7, <1>8, <2>1 DEF Accounted, InRestore
  <2>2. CASE snapshots[s].target # t
    <3>1. Accounted(c, t, f)
      BY DEF Neutral
    <3>2. CASE os[t] = f[t]
      BY <1>7, <3>2 DEF Accounted
    <3>3. CASE \E i \in Standing(c) : snapshots[bench[c].applied[i]].target = t
      <4>1. PICK i \in 1..n : snapshots[bench[c].applied[i]].target = t
        BY <1>4, <3>3
      <4>2. i \in 1..(n - 1)
        BY <1>2, <2>2, <4>1
      <4> QED
        BY <1>3, <1>4, <1>7, <4>1, <4>2 DEF Accounted
    <3> QED
      BY <1>7, <3>1, <3>2, <3>3 DEF Accounted, InRestore
  <2> QED
    BY <2>1, <2>2
<1>12. \A i, j \in Standing(c)' : bench'[c].applied[i] = bench'[c].applied[j] => i = j
  BY <1>3, <1>4, <1>9 DEF Neutral
<1> QED
  BY <1>3, <1>5, <1>7, <1>8, <1>10, <1>11, <1>12
     DEF Neutral, Alone, Idle, InApply, InRestore, Holds

(* So does a benchmark that drops a tweak of its set, or goes on to its     *)
(* next part.                                                               *)
LEMMA NeutralStays ==
  ASSUME NEW c \in Tasks, NEW f, Neutral(c, f), UNCHANGED vars,
         bench'[c].todo \subseteq bench[c].todo, bench'[c].asked = bench[c].asked,
         bench'[c].applied = bench[c].applied, bench'[c].left = bench[c].left
  PROVE  Neutral(c, f)'
<1>1. Standing(c)' = Standing(c)
  BY DEF Standing
<1>2. \A t : Ahead(c, t)' => Ahead(c, t)
  BY DEF Ahead
<1>3. \A i \in Standing(c)' : Stands(c, bench[c].applied[i], f)'
  BY <1>1, <1>2
     DEF Neutral, vars, Stands, Holds, InRestore, RowsOf, ActiveSnapshots, ActiveRows
<1>4. \A t \in Targets : Accounted(c, t, f)'
  BY <1>1 DEF Neutral, vars, Accounted, InRestore, RowsOf
<1> QED
  BY <1>1, <1>2, <1>3, <1>4
     DEF Neutral, vars, Alone, Idle, InApply, InRestore, RowsOf, Holds

LEMMA NeutralStarts ==
  ASSUME Typed, Benches, NEW c \in Tasks, BenchStart(c), NEW f \in found'
  PROVE  Neutral(c, f)'
<1>1. PICK ts \in TweakSets, revertAfter \in BOOLEAN :
        bench' = [bench EXCEPT ![c] = Begun(ts, revertAfter)]
  BY DEF BenchStart
<1>2. /\ bench'[c].left = 0 /\ bench'[c].todo = Firsts(ts) /\ bench'[c].asked = ts
      /\ Idle(c) /\ f = os /\ Alone(c) /\ UNCHANGED vars
  BY <1>1 DEF BenchStart, Benches, Begun, Alone
<1>3. \A i, j \in Firsts(ts) : ts[i] = ts[j] => i = j
  <2>1. DOMAIN ts \subseteq Nat
    BY TweakSetsAssumption, LenProperties
  <2>2. ASSUME NEW i \in Firsts(ts), NEW j \in Firsts(ts), i < j PROVE ts[i] # ts[j]
    <3>1. i \in Nat /\ j \in Nat /\ DOMAIN ts = 1..Len(ts) /\ i \in DOMAIN ts
      BY <2>1, TweakSetsAssumption, LenProperties DEF Firsts
    <3>2. i \in 1..(j - 1)
      BY <2>2, <3>1
    <3> QED
      BY <3>2 DEF Firsts
  <2>3. \A i, j \in Firsts(ts) : i < j \/ j < i \/ i = j
    BY <2>1 DEF Firsts
  <2> QED
    BY <2>2, <2>3
<1>4. Standing(c)' = {}
  BY <1>2 DEF Standing
<1>5. \A t \in Targets : Accounted(c, t, f)'
  BY <1>2 DEF Accounted, vars
<1> QED
  BY <1>2, <1>3, <1>4, <1>5 DEF Neutral, Alone, Idle, InApply, InRestore, vars

LEMMA NeutralStep ==
  ASSUME "unread" \notin Faults
  PROVE  Typed /\ OwnersInv /\ OneRowPerSnapshot /\ Benches /\ Records /\ RevertInv /\ NeutralInv
           /\ [BenchNext]_engineVars => NeutralInv'
<1> SUFFICES ASSUME Typed, OwnersInv, OneRowPerSnapshot, Benches, Records, RevertInv, NeutralInv,
                    [BenchNext]_engineVars
             PROVE  NeutralInv'
  OBVIOUS
<1>t. /\ bench \in [Tasks -> Bench] /\ found \subseteq [Targets -> OsValues]
      /\ \A c \in Tasks : Reverts(c)
  BY DEF Benches, Records, RevertInv
<1>1. ASSUME NEW c \in Tasks, \A d \in Tasks \ {c} : ~Benchmarking(d) /\ bench'[d] = bench[d],
             \A f \in found' : Neutral(c, f)'
      PROVE  NeutralInv'
  BY <1>1 DEF NeutralInv, Benchmarking
<1>2. CASE found' = {}
  BY <1>2 DEF NeutralInv
<1>3. CASE UNCHANGED engineVars
  <2> SUFFICES ASSUME NEW c \in Tasks, Benchmarking(c), NEW f \in found PROVE Neutral(c, f)'
    BY <1>3 DEF engineVars, NeutralInv, Benchmarking
  <2> QED
    BY <1>3, NeutralStays DEF engineVars, vars, NeutralInv
<1>4. ASSUME NEW c \in Tasks, BenchStart(c) PROVE NeutralInv'
  <2>1. \A d \in Tasks \ {c} : ~Benchmarking(d) /\ bench'[d] = bench[d]
    BY <1>4, <1>t DEF BenchStart, Benches
  <2> QED
    BY <1>1, <1>4, <2>1, NeutralStarts
<1>5. ASSUME NEW c \in Tasks, Benchmarking(c), found' = found,
             \A d \in Tasks \ {c} : bench'[d] = bench[d],
             \A f \in found : Neutral(c, f)'
      PROVE  NeutralInv'
  BY <1>1, <1>5 DEF Benches, OneBenchmark
<1>6. ASSUME NEW c \in Tasks,
             CaptureReturns(c) \/ BenchApplyBlocked(c) \/ ApplyEnds(c) \/ RevertEnds(c)
      PROVE  NeutralInv'
  <2>1. /\ Benchmarking(c) /\ found' = found /\ UNCHANGED vars
        /\ bench'[c].todo \subseteq bench[c].todo /\ bench'[c].asked = bench[c].asked
        /\ bench'[c].applied = bench[c].applied /\ bench'[c].left = bench[c].left
        /\ \A d \in Tasks \ {c} : bench'[d] = bench[d]
    <3>1. ASSUME NEW at, bench' = [bench EXCEPT ![c].at = at]
          PROVE  /\ bench'[c].todo = bench[c].todo /\ bench'[c].asked = bench[c].asked
                 /\ bench'[c].applied = bench[c].applied /\ bench'[c].left = bench[c].left
                 /\ \A d \in Tasks \ {c} : bench'[d] = bench[d]
      BY <1>t, <3>1 DEF Bench
    <3>2. CASE CaptureReturns(c)
      BY <3>1, <3>2 DEF CaptureReturns, Benchmarking
    <3>3. CASE BenchApplyBlocked(c)
      BY <1>t, <3>3 DEF BenchApplyBlocked, Benchmarking, Bench
    <3>4. CASE ApplyEnds(c) \/ RevertEnds(c)
      BY <3>1, <3>4 DEF ApplyEnds, RevertEnds, Benchmarking
    <3> QED
      BY <1>6, <3>2, <3>3, <3>4
  <2> QED
    BY <1>5, <2>1, NeutralStays DEF NeutralInv
<1>7. ASSUME NEW c \in Tasks, BenchApply(c) PROVE NeutralInv'
  <2>1. PICK i \in bench[c].todo : /\ ApplyBegin(c, bench[c].asked[i])
                                   /\ bench' = [bench EXCEPT ![c].todo = @ \ {i}]
    BY <1>7 DEF BenchApply
  <2>2. Benchmarking(c) /\ found' = found /\ \A d \in Tasks \ {c} : bench'[d] = bench[d]
    BY <1>7, <1>t, <2>1 DEF BenchApply, Benchmarking
  <2> QED
    BY <1>5, <2>1, <2>2, NeutralBegins DEF NeutralInv
<1>8. ASSUME NEW c \in Tasks, BenchCall(c) PROVE NeutralInv'
  <2>1. Benchmarking(c)
    BY <1>8 DEF BenchCall
  <2>2. CASE /\ \/ ApplyCapture(c) \/ ApplyWrite(c)
                \/ RestoreWrite(c) \/ RestoreMark(c) \/ RestoreRemove(c)
             /\ UNCHANGED <<bench, running, mishaps, found>>
    BY <1>5, <1>t, <2>1, <2>2, NeutralApplies, NeutralRestores DEF NeutralInv
  <2>3. CASE ApplyRegister(c) /\ ApplyReturns(c) /\ found' = found
    <3>1. \A d \in Tasks \ {c} : bench'[d] = bench[d]
      BY <1>t, <2>3 DEF ApplyReturns
    <3> QED
      BY <1>5, <1>t, <2>1, <2>3, <3>1, NeutralRegisters DEF NeutralInv
  <2> QED
    BY <1>2, <1>8, <2>2, <2>3 DEF BenchCall, Refusal
<1>9. ASSUME NEW c \in Tasks, RevertNext(c) PROVE NeutralInv'
  <2>1. Benchmarking(c) /\ found' = found /\ \A d \in Tasks \ {c} : bench'[d] = bench[d]
    BY <1>9, <1>t DEF RevertNext, Benchmarking
  <2> QED
    BY <1>5, <1>9, <2>1, NeutralReverts DEF NeutralInv
<1>10. ASSUME NEW c \in Tasks,
              \/ BenchRecord(c) \/ BenchRaises(c) \/ BenchDropped(c)
              \/ OtherBegin(c) \/ OtherStep(c) \/ OtherDropped(c)
       PROVE  found' = {}
  BY <1>10 DEF BenchRecord, BenchRaises, BenchDropped, Leave, OtherBegin, OtherStep, OtherDropped,
               BesideBench
<1>11. (\E t \in Targets : BenchProcessExit(t)) \/ BenchRestart => found' = {}
  BY DEF BenchProcessExit, BenchRestart
<1> QED
  BY <1>2, <1>3, <1>4, <1>6, <1>7, <1>8, <1>9, <1>10, <1>11 DEF BenchNext, BenchStep

(* Where every start type can be read, a benchmark that no other tweak call *)
(* met leaves every setting as it found it, for any tweak sets and targets, *)
(* also one that a tweak of the user was already in force for.              *)
THEOREM BenchmarkIsNeutralReadable ==
  ASSUME "unread" \notin Faults
  PROVE  BenchSpec => []BenchmarkIsNeutral
<1>1. BenchInit => OwnersInv /\ Records /\ NeutralInv
  BY OwnersInit DEF BenchInit, Records, NeutralInv
<1>2. Typed /\ Records /\ RevertInv /\ NeutralInv => BenchmarkIsNeutral
  <2> SUFFICES ASSUME Typed, Records, RevertInv, NeutralInv, NEW c \in Tasks,
                      bench[c].at = "record", bench[c].revertAfter, NEW f \in found
               PROVE  os = f
    BY DEF BenchmarkIsNeutral
  <2>1. Neutral(c, f) /\ Idle(c) /\ bench[c].left = 0
    BY DEF RevertInv, Reverts, NeutralInv, Benchmarking
  <2>2. \A t \in Targets : os[t] = f[t]
    BY <2>1 DEF Neutral, Accounted, Standing, Idle, InRestore
  <2>3. os \in [Targets -> OsValues] /\ f \in [Targets -> OsValues]
    BY DEF Typed, TypeOK, Records
  <2> QED
    BY <2>2, <2>3
<1>3. Typed /\ OwnersInv /\ OneRowPerSnapshot /\ Benches /\ Records /\ RevertInv /\ NeutralInv
        /\ [BenchNext]_engineVars => NeutralInv'
  BY NeutralStep
<1> QED
  BY <1>1, <1>2, <1>3, RevertStart, EngineInvariant, EngineStepIsTweakStep, OwnersStep,
     RecordsStep, RevertStep, PTL DEF BenchSpec
===============================================================================
