-------------------------- MODULE AppLifecycleProofs --------------------------
(***************************************************************************)
(* The application takes only steps of the tweak calls, so that what is    *)
(* proved of TweakLifecycle holds of every run of the backend.             *)
(***************************************************************************)
EXTENDS AppLifecycle, TweakRecoveryProofs

(* The calls of the three kinds of coroutine. *)
LEMMA LifespanStep == Lifespan => [Next]_vars
<1>m. main \in Tasks /\ orch \in Tasks
  BY LifespanAssumption
<1>l. ListAll => [Next]_vars
  BY <1>m DEF ListAll, Next
<1>1. RecoveryBegin => [Next]_vars
  BY <1>l DEF RecoveryBegin
<1>2. RestoreLoop => [Next]_vars
  BY <1>m DEF RestoreLoop, Restore, Next
<1>3. RestoreRaises => [Next]_vars
  BY <1>m DEF RestoreRaises, Restore, Next
<1>4. CleanupBegin => [Next]_vars
  BY <1>l DEF CleanupBegin
<1>5. CancelTasks => [Next]_vars
  BY <1>m DEF CancelTasks, Next
<1>6. CompleteSession => [Next]_vars
  BY DEF CompleteSession, Next
<1>7. StartServing \/ StopRaises => UNCHANGED vars
  BY DEF StartServing, StopRaises
<1> QED
  BY <1>1, <1>2, <1>3, <1>4, <1>5, <1>6, <1>7 DEF Lifespan

LEMMA CycleStepIsTweakStep == Cycle => [Next]_vars
<1>m. orch \in Tasks
  BY LifespanAssumption
<1>1. ASSUME NEW t \in Targets, AdaptiveApply(t) PROVE [Next]_vars
  BY <1>1, <1>m DEF AdaptiveApply, Next
<1>2. CycleStep => [Next]_vars
  BY <1>m DEF CycleStep, Next
<1>3. CycleBegin \/ AdaptiveEnabled \/ AdaptiveList \/ CycleEnd => UNCHANGED vars
  BY DEF CycleBegin, AdaptiveEnabled, AdaptiveList, CycleEnd
<1> QED
  BY <1>1, <1>2, <1>3 DEF Cycle

LEMMA ServeStep == \A c \in Requests : Serve(c) => [Next]_vars
<1> SUFFICES ASSUME NEW c \in Requests, Serve(c) PROVE [Next]_vars
  OBVIOUS
<1>1. c \in Tasks
  BY DEF Requests
<1> QED
  BY <1>1 DEF Serve, Next

LEMMA AppStep == [AppNext]_allVars => [Next]_vars
<1>1. Launch \/ Toggle \/ Stop => UNCHANGED vars
  BY DEF Launch, Toggle, Stop
<1>2. Crash => [Next]_vars
  BY DEF Crash, Next
<1>3. ASSUME NEW t \in Targets, AppProcessExit(t) PROVE [Next]_vars
  BY <1>3 DEF AppProcessExit, Next
<1>4. UNCHANGED allVars => UNCHANGED vars
  BY DEF allVars
<1> QED
  BY <1>1, <1>2, <1>3, <1>4, LifespanStep, CycleStepIsTweakStep, ServeStep DEF AppNext

(* AppLifecycle is built of tweak steps, so what is proved of TweakLifecycle *)
(* holds of it.                                                             *)
LEMMA AppTakesTweakSteps == AppSpec => Spec
<1>1. AppInit => Init
  BY DEF AppInit
<1> QED
  BY <1>1, AppStep, PTL DEF AppSpec, Spec

(* Whatever the application does, an altered setting has its original value *)
(* in a committed snapshot.                                                 *)
THEOREM AppOriginalSurvives == AppSpec => []OriginalSurvives
  BY AppTakesTweakSteps, OriginalSurvivesAlways, PTL

(* No row is taken off the list before its snapshot has been marked.        *)
THEOREM AppRemovedAfterMark == AppSpec => []RemovedAfterMark
  BY AppTakesTweakSteps, RemovedAfterMarkAlways

(* Where launches are live, an altered setting captured in its original     *)
(* state only has a snapshot that is restorable or whose row is listed.     *)
THEOREM AppAlteredIsRecoverable ==
  ASSUME LaunchModes = {FALSE}
  PROVE  AppSpec => []AlteredIsRecoverable
<1>1. Spec => []AlteredIsRecoverable
  BY AlteredIsRecoverableLive
<1> QED
  BY <1>1, AppTakesTweakSteps, PTL
-------------------------------------------------------------------------------
(* What the adaptive engine has listed are targets of rows that exist. *)
LEMMA ListedAreTargets ==
  ASSUME Typed PROVE {snapshots[applications[a].snap].target : a \in ActiveRows} \subseteq Targets
<1> SUFFICES ASSUME NEW a \in ActiveRows PROVE snapshots[applications[a].snap].target \in Targets
  OBVIOUS
<1>1. a \in DOMAIN applications /\ applications[a].snap \in DOMAIN snapshots
  BY DEF ActiveRows, Typed, RefsOK
<1>2. snapshots[applications[a].snap] \in Snapshot
  BY <1>1, SnapshotTyped
<1> QED
  BY <1>2 DEF Snapshot

(* What the lifespan, the session row and the cycle keep is well typed. *)
AppTyped ==
  /\ phase \in Phases /\ session \in [active : BOOLEAN, clean : BOOLEAN]
  /\ cycle \in Cycles /\ seen \subseteq Targets /\ adaptive \in BOOLEAN
  /\ refused \subseteq Nat /\ late \subseteq Nat

LEMMA AppTypedStep == Typed /\ AppTyped /\ [AppNext]_allVars => AppTyped'
<1> SUFFICES ASSUME Typed, AppTyped, [AppNext]_allVars PROVE AppTyped'
  OBVIOUS
<1> USE DEF AppTyped, Phases, Cycles
<1>s. /\ [active |-> TRUE, clean |-> FALSE] \in [active : BOOLEAN, clean : BOOLEAN]
      /\ [active |-> FALSE, clean |-> TRUE] \in [active : BOOLEAN, clean : BOOLEAN]
  OBVIOUS
<1>1. CASE Launch
  BY <1>s, <1>1 DEF Launch
<1>a. CASE Toggle \/ Stop \/ Crash \/ UNCHANGED allVars
  BY <1>a DEF Toggle, Stop, Crash, allVars, history
<1>2. CASE RecoveryBegin \/ RestoreRaises \/ StartServing \/ StopRaises \/ CleanupBegin
  BY <1>2 DEF RecoveryBegin, RestoreRaises, StartServing, StopRaises, CleanupBegin, history
<1>3. CASE CancelTasks
  BY <1>3 DEF CancelTasks, history
<1>b. CASE CompleteSession
  BY <1>s, <1>b DEF CompleteSession, history
<1>4. CASE AdaptiveList
  BY <1>4, ListedAreTargets DEF AdaptiveList, history
<1>5. CASE CycleBegin \/ AdaptiveEnabled \/ CycleEnd
  BY <1>5 DEF CycleBegin, AdaptiveEnabled, CycleEnd, history
<1>6. ASSUME NEW t \in Targets, AdaptiveApply(t) PROVE AppTyped'
  BY <1>6 DEF AdaptiveApply, history
<1>7. CASE UNCHANGED appVars
  BY <1>7 DEF appVars
<1>8. CASE RestoreLoop
  <2>1. job[main].todo \subseteq Nat
    BY LifespanAssumption DEF Typed, TypeOK, Job
  <2> QED
    BY <1>8, <2>1 DEF RestoreLoop
<1>9. CASE CycleStep
  <2>1. [Next]_vars
    BY <1>9, CycleStepIsTweakStep DEF Cycle
  <2>2. Typed'
    BY <2>1, TypedStep
  <2>3. \A a \in DOMAIN applications' : a \in Nat
    BY <2>2 DEF Typed, TypeOK
  <2> QED
    BY <1>9, <2>3 DEF CycleStep, ActiveRows
<1> QED
  BY <1>1, <1>2, <1>3, <1>4, <1>5, <1>6, <1>7, <1>8, <1>9, <1>a, <1>b
     DEF AppNext, Lifespan, Cycle, Serve, AppProcessExit

(* Every reachable state of the application is well typed. *)
THEOREM AppTypeCorrect == AppSpec => []AppTypeOK
<1>1. AppInit => Init /\ AppTyped
  BY DEF AppInit, AppTyped, Phases, Cycles
<1>2. Typed /\ AppTyped => AppTypeOK
  BY DEF Typed, AppTyped, AppTypeOK
<1> QED
  BY <1>1, <1>2, TypedInit, TypedStep, AppStep, AppTypedStep, PTL DEF AppSpec
-------------------------------------------------------------------------------
Armed == session.active /\ ~session.clean

(* Who may be at work in each phase. *)
PhaseInv ==
  /\ Idle(main) => job[main].todo = {}
  /\ phase \notin {"recovering", "cleaning"} => Idle(main)
  /\ ~CycleLives => Idle(orch)
  /\ phase # "running" => \A c \in Requests : Idle(c)
  /\ phase # "down" => Armed
  /\ phase \notin {"cleaning", "closing", "failed", "down"} => late = {}

(* After a row the loop has the same rows to do, and ends when it has none. *)
LEMMA AfterRowKeeps ==
  ASSUME Typed, AfterRow(main)
  PROVE  /\ job'[main].todo = job[main].todo
         /\ Idle(main)' => job'[main].todo = {}
<1>1. pc \in [Tasks -> Points] /\ job \in [Tasks -> Job] /\ main \in Tasks
  BY LifespanAssumption DEF Typed, TypeOK
<1>2. NoJob.todo = {}
  BY DEF NoJob
<1> QED
  BY <1>1, <1>2 DEF AfterRow, Idle

(* The loop begins with every row that is listed. *)
LEMMA ListBegins ==
  ASSUME Typed, ListAll, Idle(main), job[main].todo = {}
  PROVE  /\ Idle(main)' => job'[main].todo = {}
         /\ job'[main].todo = ActiveRows
         /\ UNCHANGED <<snapshots, applications>>
         /\ \A c \in Tasks \ {main} : pc'[c] = pc[c]
<1>1. /\ pc \in [Tasks -> Points] /\ job \in [Tasks -> Job] /\ main \in Tasks
      /\ job[main] \in Job
  BY LifespanAssumption DEF Typed, TypeOK
<1>2. CASE ActiveRows = {}
  BY <1>2 DEF ListAll, vars
<1>3. CASE ActiveRows # {}
  <2>1. /\ job'[main].todo = ActiveRows /\ pc'[main] = "restore"
        /\ UNCHANGED <<snapshots, applications>>
        /\ \A c \in Tasks \ {main} : pc'[c] = pc[c]
    BY <1>1, <1>3 DEF ListAll, RestoreAllBegin, Job
  <2> QED
    BY <2>1 DEF Idle
<1> QED
  BY <1>2, <1>3

(* The loop that has returned has nothing to do. *)
LEMMA LoopReturns ==
  ASSUME Typed, RestoreLoop, Idle(main)'
  PROVE  job'[main].todo = {}
<1>1. pc \in [Tasks -> Points] /\ main \in Tasks
  BY LifespanAssumption DEF Typed, TypeOK
<1>2. CASE RestoreWrite(main) \/ RestoreRefused(main)
  BY <1>1, <1>2 DEF RestoreWrite, RestoreRefused, Idle
<1>3. CASE RestoreMark(main)
  BY <1>1, <1>3, AfterRowKeeps DEF RestoreMark, Idle
<1>4. CASE RestoreRemove(main)
  BY <1>1, <1>4, AfterRowKeeps DEF RestoreRemove
<1> QED
  BY <1>2, <1>3, <1>4 DEF RestoreLoop

(* Requests are served, and the setting is switched, while the backend runs.*)
LEMMA ServeKeeps ==
  ASSUME Typed, PhaseInv, NEW c \in Requests, Serve(c)
  PROVE  PhaseInv'
<1>1. c \in Tasks /\ c # main /\ c # orch /\ main \in Tasks /\ orch \in Tasks
  BY LifespanAssumption DEF Requests
<1>2. phase = "running" /\ UNCHANGED appVars
  BY DEF Serve
<1>3. UNCHANGED <<pc[main], job[main], pc[orch]>>
  BY <1>1, OthersStay DEF Serve
<1> QED
  BY <1>2, <1>3 DEF PhaseInv, appVars, Idle, CycleLives, Armed

LEMMA CycleKeeps ==
  ASSUME Typed, PhaseInv, Cycle
  PROVE  PhaseInv'
<1>1. main # orch /\ main \in Tasks /\ orch \in Tasks
  BY LifespanAssumption
<1>2. CASE CycleBegin \/ AdaptiveEnabled \/ AdaptiveList \/ CycleEnd
  BY <1>2 DEF CycleBegin, AdaptiveEnabled, AdaptiveList, CycleEnd, PhaseInv, vars, history, Idle,
              CycleLives, Armed
<1>3. ASSUME CycleLives, UNCHANGED <<phase, session>>, phase # "cleaning" => UNCHANGED late,
             NEW t \in Targets, ApplyBegin(orch, t) \/ Apply(orch)
      PROVE  PhaseInv'
  <2>1. UNCHANGED <<pc[main], job[main]>>
    BY <1>1, <1>3, OthersStay
  <2>2. \A c \in Requests : UNCHANGED pc[c]
    BY <1>1, <1>3, OthersStay DEF Requests
  <2> QED
    BY <1>3, <2>1, <2>2 DEF PhaseInv, Idle, CycleLives, Armed
<1>4. ASSUME NEW t \in Targets, AdaptiveApply(t) PROVE PhaseInv'
  BY <1>3, <1>4 DEF AdaptiveApply, history
<1>5. CASE CycleStep
  <2>1. PICK t \in Targets : TRUE
    BY TargetsAssumption
  <2> QED
    BY <1>3, <1>5, <2>1 DEF CycleStep
<1> QED
  BY <1>2, <1>4, <1>5 DEF Cycle

LEMMA LifespanKeeps ==
  ASSUME Typed, PhaseInv, Lifespan
  PROVE  PhaseInv'
<1>1. main # orch /\ main \in Tasks /\ orch \in Tasks /\ Requests \subseteq Tasks \ {main, orch}
  BY LifespanAssumption DEF Requests
<1>t. pc \in [Tasks -> Points] /\ job \in [Tasks -> Job]
  BY DEF Typed, TypeOK
<1>n. NoJob.todo = {}
  BY DEF NoJob
<1>2. CASE RecoveryBegin \/ CleanupBegin
  <2>1. Idle(main) /\ ListAll /\ job[main].todo = {}
    BY <1>2 DEF RecoveryBegin, CleanupBegin, PhaseInv
  <2> QED
    BY <1>1, <1>2, <2>1, ListBegins
       DEF RecoveryBegin, CleanupBegin, PhaseInv, Idle, CycleLives, Armed, history
<1>3. CASE RestoreLoop
  <2>1. \A c \in Tasks \ {main} : UNCHANGED pc[c]
    BY <1>1, <1>3, OthersStay DEF RestoreLoop, Restore
  <2> QED
    BY <1>1, <1>3, <2>1, LoopReturns DEF RestoreLoop, PhaseInv, Idle, CycleLives, Armed
<1>4. CASE RestoreRaises
  <2>1. /\ \A c \in Tasks \ {main} : UNCHANGED pc[c]
        /\ Idle(main)' /\ job'[main] = NoJob
    BY <1>1, <1>4, <1>t DEF RestoreRaises, RestoreAborted, Idle
  <2> QED
    BY <1>1, <1>4, <1>n, <2>1 DEF RestoreRaises, PhaseInv, Idle, CycleLives, Armed, history
<1>5. CASE StartServing \/ StopRaises
  BY <1>5 DEF StartServing, StopRaises, PhaseInv, vars, Idle, CycleLives, Armed, history
<1>6. CASE CancelTasks
  <2>1. /\ \A c \in Tasks \ {orch} : UNCHANGED <<pc[c], job[c]>>
        /\ Idle(orch)'
    BY <1>1, <1>6, <1>t DEF CancelTasks, Dropped, Idle, vars
  <2> QED
    BY <1>1, <1>6, <2>1 DEF CancelTasks, PhaseInv, Idle, CycleLives, Armed, history
<1>7. CASE CompleteSession
  <2>1. \A c \in Tasks : Idle(c)' /\ job'[c] = NoJob
    BY <1>7 DEF CompleteSession, Restart, Idle
  <2> QED
    BY <1>1, <1>7, <1>n, <2>1 DEF CompleteSession, PhaseInv, CycleLives, Armed, history
<1> QED
  BY <1>2, <1>3, <1>4, <1>5, <1>6, <1>7 DEF Lifespan

LEMMA PhaseStep == Typed /\ PhaseInv /\ [AppNext]_allVars => PhaseInv'
<1> SUFFICES ASSUME Typed, PhaseInv, [AppNext]_allVars PROVE PhaseInv'
  OBVIOUS
<1>1. main \in Tasks /\ orch \in Tasks /\ Requests \subseteq Tasks
  BY LifespanAssumption DEF Requests
<1> USE DEF PhaseInv, Idle, CycleLives, Armed
<1>2. CASE Launch
  BY <1>2 DEF Launch, vars
<1>3. CASE Toggle \/ Stop
  BY <1>3 DEF Toggle, Stop, vars, history
<1>4. CASE Crash
  <2>1. /\ \A c \in Tasks : pc'[c] = "idle" /\ job'[c].todo = {}
    BY <1>4 DEF Crash, Restart, NoJob
  <2> QED
    BY <1>1, <1>4, <2>1 DEF Crash
<1>5. ASSUME NEW t \in Targets, AppProcessExit(t) PROVE PhaseInv'
  BY <1>5 DEF AppProcessExit, ProcessExit, appVars
<1>6. CASE UNCHANGED allVars
  BY <1>6 DEF allVars, vars
<1> HIDE DEF PhaseInv, Idle, CycleLives, Armed
<1> QED
  BY <1>2, <1>3, <1>4, <1>5, <1>6, LifespanKeeps, CycleKeeps, ServeKeeps DEF AppNext

LEMMA PhaseStart == AppInit => PhaseInv
  BY LifespanAssumption
     DEF AppInit, Init, PhaseInv, Idle, CycleLives, Armed, NoJob, Requests

LEMMA PhaseAlways == AppSpec => [](Typed /\ AppTyped /\ PhaseInv)
<1>1. AppInit => Init /\ AppTyped
  BY DEF AppInit, AppTyped, Phases, Cycles
<1> QED
  BY <1>1, TypedInit, PhaseStart, TypedStep, AppStep, AppTypedStep, PhaseStep, PTL DEF AppSpec

(* The loop has returned where its phase ends. *)
LEMMA DoneIsIdle ==
  ASSUME [AppNext]_allVars,
         \/ phase = "recovering" /\ phase' = "running"
         \/ phase = "cleaning" /\ phase' = "closing"
  PROVE  Idle(main)
<1>1. ~Launch /\ ~Toggle /\ ~Stop /\ ~Crash /\ ~UNCHANGED phase
  BY DEF Launch, Toggle, Stop, Crash
<1>2. ~Cycle
  BY <1>1 DEF Cycle, CycleBegin, AdaptiveEnabled, AdaptiveList, AdaptiveApply, CycleStep, CycleEnd
<1>3. ~(\E c \in Requests : Serve(c)) /\ ~(\E t \in Targets : AppProcessExit(t))
  BY <1>1 DEF Serve, AppProcessExit, appVars
<1>4. Lifespan
  BY <1>1, <1>2, <1>3 DEF AppNext, allVars
<1> QED
  BY <1>4 DEF Lifespan, RecoveryBegin, RestoreLoop, RestoreRaises, StartServing, StopRaises,
              CleanupBegin, CancelTasks, CompleteSession
-------------------------------------------------------------------------------
(* The rows that the restore loop of the lifespan accounts for: those it    *)
(* has still to do, the one it has just restored, those it was refused, and *)
(* those that were added behind it.                                         *)
Restored(a) == pc[main] \in {"mark", "remove"} /\ job[main].snap = applications[a].snap
               /\ (pc[main] = "mark" => job[main].ok)
Attended(a) == a \in job[main].todo \/ Restored(a) \/ a \in refused \cup late

LoopHasAll == \A a \in ActiveRows : Attended(a)

(* The last cycle has added one row at most, and adds no other. *)
RowTarget(a) == snapshots[applications[a].snap].target

OneIsLate ==
  /\ \A a, b \in late : a = b
  /\ \A a \in late : a \in DOMAIN applications /\ Kind[RowTarget(a)] # "registry"
  /\ phase = "cleaning" /\ late # {} => Idle(orch) /\ cycle \in {"asleep", "applied"}

(* Between its listing and the end of the run no row escapes the loop. *)
LeftInv ==
  /\ phase \in {"recovering", "cleaning"} => LoopHasAll
  /\ phase = "closing" \/ (phase = "down" /\ ~Armed) => ActiveRows \subseteq refused \cup late

(* The cycle applies one tweak, and its rules have no registry one. *)
OrchInv ==
  ~Idle(orch) => /\ cycle = "applied" /\ pc[orch] \in {"capture", "write", "register"}
                 /\ Kind[job[orch].target] # "registry"

(* A step of the loop takes a row from its list to restore it or to be      *)
(* refused it, and removes only what it has restored.                       *)
LEMMA LoopAttends ==
  ASSUME Typed, RestoreLoop, NEW a \in ActiveRows'
  PROVE  a \in ActiveRows /\ (Attended(a) => Attended(a)')
<1>1. /\ pc \in [Tasks -> Points] /\ job \in [Tasks -> Job] /\ main \in Tasks
      /\ job[main] \in Job
  BY LifespanAssumption DEF Typed, TypeOK
<1>h. refused \subseteq refused' /\ late' = late
  BY DEF RestoreLoop
<1>2. CASE RestoreWrite(main)
  <2>1. PICK b \in DOMAIN applications :
          job' = [job EXCEPT ![main].snap = applications[b].snap,
                             ![main].todo = @ \ {b}, ![main].ok = TRUE]
    BY <1>2 DEF RestoreWrite
  <2>2. /\ job'[main].snap = applications[b].snap /\ job'[main].ok
        /\ job'[main].todo = job[main].todo \ {b}
    BY <1>1, <2>1 DEF Job
  <2>3. /\ pc[main] = "restore" /\ pc'[main] = "mark" /\ UNCHANGED applications
    BY <1>1, <1>2 DEF RestoreWrite
  <2> QED
    BY <1>h, <2>2, <2>3 DEF Attended, Restored, ActiveRows
<1>3. CASE RestoreRefused(main) /\ refused' = refused \cup (job[main].todo \ job'[main].todo)
  <2>1. pc[main] = "restore" /\ UNCHANGED applications
    BY <1>1, <1>3 DEF RestoreRefused
  <2> QED
    BY <1>h, <1>3, <2>1 DEF Attended, Restored, ActiveRows
<1>4. CASE RestoreMark(main)
  <2>1. /\ pc[main] = "mark" /\ UNCHANGED applications
        /\ job'[main].todo = job[main].todo
        /\ job[main].ok => pc'[main] = "remove" /\ job' = job
    BY <1>1, <1>4, AfterRowKeeps DEF RestoreMark
  <2> QED
    BY <1>h, <2>1 DEF Attended, Restored, ActiveRows
<1>5. CASE RestoreRemove(main)
  <2>1. /\ pc[main] = "remove" /\ job'[main].todo = job[main].todo
    BY <1>1, <1>5, AfterRowKeeps DEF RestoreRemove
  <2>2. /\ DOMAIN applications' = DOMAIN applications
        /\ \A b \in DOMAIN applications :
             /\ applications'[b].snap = applications[b].snap
             /\ applications'[b].reverted =
                  (applications[b].reverted \/ applications[b].snap = job[main].snap)
    BY <1>1, <1>5, RemoveShape
  <2>3. a \in ActiveRows /\ ~Restored(a)
    BY <2>2 DEF ActiveRows, Restored
  <2> QED
    BY <1>h, <2>1, <2>3 DEF Attended
<1> QED
  BY <1>2, <1>3, <1>4, <1>5 DEF RestoreLoop

LEMMA OrchStep == Typed /\ OrchInv /\ [AppNext]_allVars => OrchInv'
<1> SUFFICES ASSUME Typed, OrchInv, [AppNext]_allVars PROVE OrchInv'
  OBVIOUS
<1>1. /\ main \in Tasks /\ orch \in Tasks /\ main # orch /\ Requests \subseteq Tasks \ {orch}
      /\ pc \in [Tasks -> Points] /\ job \in [Tasks -> Job] /\ job[orch] \in Job
  BY LifespanAssumption DEF Requests, Typed, TypeOK
<1> USE DEF OrchInv, Idle
<1>2. ASSUME UNCHANGED <<pc[orch], job[orch], cycle>> PROVE OrchInv'
  BY <1>2
<1>3. CASE Launch \/ Toggle \/ Stop \/ StartServing \/ StopRaises \/ UNCHANGED allVars
  BY <1>2, <1>3 DEF Launch, Toggle, Stop, StartServing, StopRaises, allVars, vars
<1>4. CASE Crash \/ CompleteSession
  BY <1>1, <1>4 DEF Crash, CompleteSession, Restart
<1>5. CASE RecoveryBegin \/ CleanupBegin \/ RestoreLoop \/ RestoreRaises
  <2>1. UNCHANGED cycle
    BY <1>5 DEF RecoveryBegin, CleanupBegin, RestoreLoop, RestoreRaises
  <2>2. UNCHANGED vars \/ RestoreAllBegin(main) \/ Restore(main)
    BY <1>5 DEF RecoveryBegin, CleanupBegin, RestoreLoop, RestoreRaises, ListAll, Restore
  <2>3. UNCHANGED <<pc[orch], job[orch]>>
    BY <1>1, <2>2, OthersStay DEF vars
  <2> QED
    BY <1>2, <2>1, <2>3
<1>6. CASE CancelTasks
  BY <1>1, <1>6 DEF CancelTasks, Dropped, vars
<1>7. CASE CycleBegin \/ AdaptiveEnabled \/ AdaptiveList \/ CycleEnd
  <2>1. UNCHANGED vars /\ (cycle = "applied" => Idle(orch))
    BY <1>7 DEF CycleBegin, AdaptiveEnabled, AdaptiveList, CycleEnd
  <2> QED
    BY <2>1 DEF vars
<1>8. ASSUME NEW t \in Targets, AdaptiveApply(t) PROVE OrchInv'
  <2>1. PICK v \in ReadingsOf(t) :
          job' = [job EXCEPT ![orch] = [NoJob EXCEPT !.target = t, !.before = v]]
    BY <1>8 DEF AdaptiveApply, ApplyBegin
  <2>2. job'[orch].target = t
    BY <1>1, <2>1 DEF NoJob
  <2> QED
    BY <1>1, <1>8, <2>2 DEF AdaptiveApply, ApplyBegin
<1>9. CASE CycleStep
  <2>1. UNCHANGED cycle
    BY <1>9 DEF CycleStep
  <2>2. CASE ApplyCapture(orch) \/ ApplyWrite(orch)
    <3>1. pc[orch] # "idle" /\ pc'[orch] \in {"write", "register"}
      BY <1>1, <2>2 DEF ApplyCapture, ApplyWrite
    <3>2. job'[orch].target = job[orch].target
      BY <1>1, <2>2 DEF ApplyCapture, ApplyWrite, Job
    <3> QED
      BY <2>1, <3>1, <3>2
  <2>3. CASE ApplyRefused(orch) \/ ApplyRegister(orch)
    BY <1>1, <2>3 DEF ApplyRefused, ApplyRegister
  <2> QED
    BY <1>9, <2>2, <2>3 DEF CycleStep, Apply
<1>10. ASSUME NEW c \in Requests, Serve(c) PROVE OrchInv'
  <2>1. UNCHANGED cycle /\ UNCHANGED <<pc[orch], job[orch]>>
    BY <1>1, <1>10, OthersStay DEF Serve, appVars
  <2> QED
    BY <1>2, <2>1
<1>11. ASSUME NEW t \in Targets, AppProcessExit(t) PROVE OrchInv'
  BY <1>2, <1>11 DEF AppProcessExit, ProcessExit, appVars
<1> QED
  BY <1>3, <1>4, <1>5, <1>6, <1>7, <1>8, <1>9, <1>10, <1>11 DEF AppNext, Lifespan, Cycle

(* No row is deleted, and each keeps its snapshot and its target. *)
LEMMA AppRowsStay ==
  ASSUME Typed, [Next]_vars, NEW a \in DOMAIN applications
  PROVE  a \in DOMAIN applications' /\ RowTarget(a)' = RowTarget(a)
<1>1. applications[a].snap \in DOMAIN snapshots
  BY DEF Typed, RefsOK
<1>2. a \in DOMAIN applications' /\ applications'[a].snap = applications[a].snap
  <2>1. ASSUME NEW c \in Tasks, ApplyRegister(c)
        PROVE  a \in DOMAIN applications' /\ applications'[a].snap = applications[a].snap
    BY <2>1, RegisterRows
  <2>2. ASSUME NEW c \in Tasks, RestoreRemove(c)
        PROVE  a \in DOMAIN applications' /\ applications'[a].snap = applications[a].snap
    BY <2>2, RemoveShape
  <2>3. CASE ~ \E c \in Tasks : ApplyRegister(c) \/ RestoreRemove(c)
    <3>1. applications' = applications
      BY <2>3 DEF Next, Apply, Restore, ApplyBegin, ApplyCapture, ApplyWrite, ApplyRefused,
                  RevertBegin, RestoreAllBegin, RestoreWrite, RestoreRefused, RestoreAborted,
                  RestoreMark, ProcessExit, Dropped, Restart, vars
    <3> QED
      BY <3>1
  <2> QED
    BY <2>1, <2>2, <2>3
<1> QED
  BY <1>1, <1>2, RowsKept DEF RowTarget

(* A tweak call of the cycle takes no row off the list; one that registers  *)
(* adds the row of its tweak.                                               *)
LEMMA ApplyAdds ==
  ASSUME Typed, Apply(orch), NEW a \in ActiveRows', a \notin ActiveRows
  PROVE  /\ ApplyRegister(orch) /\ a = Len(applications) + 1 /\ a \in DOMAIN applications'
         /\ RowTarget(a)' = job[orch].target
<1>1. orch \in Tasks
  BY LifespanAssumption
<1>2. ApplyRegister(orch)
  BY DEF Apply, ApplyCapture, ApplyWrite, ApplyRefused, ActiveRows
<1>3. UNCHANGED snapshots /\ snapshots[job[orch].snap].target = job[orch].target
  BY <1>1, <1>2 DEF ApplyRegister, Typed, RefsOK
<1>4. /\ DOMAIN applications' = DOMAIN applications \cup {Len(applications) + 1}
      /\ applications'[Len(applications) + 1].snap = job[orch].snap
      /\ \A b \in DOMAIN applications : applications'[b] = applications[b]
  <2>1. [snap |-> job[orch].snap, reverted |-> FALSE].snap = job[orch].snap
    OBVIOUS
  <2>2. applications' # applications
    BY DEF ActiveRows
  <2> QED
    BY <1>1, <1>2, <2>1, <2>2, RegisterShape
<1> QED
  BY <1>2, <1>3, <1>4 DEF ActiveRows, RowTarget

LEMMA OneIsLateStep ==
  Typed /\ PhaseInv /\ OrchInv /\ OneIsLate /\ [AppNext]_allVars => OneIsLate'
<1> SUFFICES ASSUME Typed, PhaseInv, OrchInv, OneIsLate, [AppNext]_allVars PROVE OneIsLate'
  OBVIOUS
<1>1. main \in Tasks /\ orch \in Tasks /\ main # orch
  BY LifespanAssumption
<1>2. \A a \in DOMAIN applications : a \in DOMAIN applications' /\ RowTarget(a)' = RowTarget(a)
  BY AppStep, AppRowsStay
<1>k. ASSUME late' \subseteq late,
             phase' = "cleaning" /\ late' # {} => Idle(orch)' /\ cycle' \in {"asleep", "applied"}
      PROVE  OneIsLate'
  BY <1>2, <1>k DEF OneIsLate
<1>3. CASE CleanupBegin
  BY <1>k, <1>3 DEF CleanupBegin, PhaseInv, history
<1>4. CASE RestoreLoop
  <2>1. UNCHANGED <<phase, cycle, late, pc[orch]>>
    BY <1>1, <1>4, OthersStay DEF RestoreLoop, Restore
  <2> QED
    BY <1>k, <2>1 DEF OneIsLate, Idle
<1>5. CASE AdaptiveEnabled \/ AdaptiveList \/ CycleEnd
  <2>1. /\ UNCHANGED <<vars, phase, late>>
        /\ cycle \in {"begun", "enabled"} \/ cycle' = "asleep"
    BY <1>5 DEF AdaptiveEnabled, AdaptiveList, CycleEnd, history
  <2> QED
    BY <1>k, <2>1 DEF OneIsLate, Idle, vars
<1>6. ASSUME NEW t \in Targets, AdaptiveApply(t) PROVE OneIsLate'
  <2>1. UNCHANGED <<phase, late>> /\ cycle = "listed"
    BY <1>6 DEF AdaptiveApply, history
  <2> QED
    BY <1>k, <2>1 DEF OneIsLate
<1>7. CASE CycleStep
  <2>1. /\ Apply(orch) /\ UNCHANGED <<phase, cycle>> /\ ~Idle(orch)
        /\ late' = IF phase = "cleaning" THEN late \cup (ActiveRows' \ ActiveRows) ELSE late
    BY <1>7 DEF CycleStep, Apply, ApplyCapture, ApplyWrite, ApplyRefused, ApplyRegister, Idle
  <2>2. CASE phase # "cleaning"
    BY <1>k, <2>1, <2>2
  <2>3. CASE phase = "cleaning"
    <3>1. late = {}
      BY <2>1, <2>3 DEF OneIsLate
    <3>2. \A a \in late' : /\ ApplyRegister(orch) /\ a = Len(applications) + 1
                           /\ a \in DOMAIN applications' /\ RowTarget(a)' = job[orch].target
      BY <2>1, <2>3, <3>1, ApplyAdds
    <3>3. ApplyRegister(orch) => Idle(orch)'
      BY <1>1 DEF ApplyRegister, Idle, Typed, TypeOK
    <3>4. cycle = "applied" /\ Kind[job[orch].target] # "registry"
      BY <2>1 DEF OrchInv
    <3> QED
      BY <2>1, <3>2, <3>3, <3>4 DEF OneIsLate
  <2> QED
    BY <2>2, <2>3
<1>8. CASE \/ Launch \/ Toggle \/ Stop \/ Crash \/ RecoveryBegin \/ RestoreRaises \/ StartServing
           \/ StopRaises \/ CancelTasks \/ CompleteSession \/ CycleBegin
  <2>1. late' \subseteq late /\ phase' # "cleaning"
    BY <1>8 DEF Launch, Toggle, Stop, Crash, RecoveryBegin, RestoreRaises, StartServing,
                StopRaises, CancelTasks, CompleteSession, CycleBegin, history
  <2> QED
    BY <1>k, <2>1
<1>9. CASE UNCHANGED allVars \/ \E t \in Targets : AppProcessExit(t)
  <2>1. UNCHANGED <<phase, cycle, late, pc>>
    BY <1>9 DEF allVars, vars, AppProcessExit, ProcessExit, appVars
  <2> QED
    BY <1>k, <2>1 DEF OneIsLate, Idle
<1>10. CASE \E c \in Requests : Serve(c)
  <2>1. UNCHANGED <<phase, late>> /\ phase # "cleaning"
    BY <1>10 DEF Serve, appVars
  <2> QED
    BY <1>k, <2>1
<1> QED
  BY <1>3, <1>4, <1>5, <1>6, <1>7, <1>8, <1>9, <1>10 DEF AppNext, Lifespan, Cycle

(* A step that changes neither table nor the loop leaves the rows accounted *)
(* for.                                                                     *)
LEMMA LeftStep == Typed /\ PhaseInv /\ LeftInv /\ [AppNext]_allVars => LeftInv'
<1> SUFFICES ASSUME Typed, PhaseInv, LeftInv, [AppNext]_allVars PROVE LeftInv'
  OBVIOUS
<1>1. main \in Tasks /\ orch \in Tasks /\ main # orch
  BY LifespanAssumption
<1>2. CASE RecoveryBegin \/ CleanupBegin
  <2>1. ListAll /\ Idle(main) /\ job[main].todo = {} /\ phase' \in {"recovering", "cleaning"}
    BY <1>2 DEF RecoveryBegin, CleanupBegin, PhaseInv
  <2>2. \A a \in ActiveRows' : a \in job'[main].todo
    BY <2>1, ListBegins DEF ActiveRows
  <2> QED
    BY <2>1, <2>2 DEF LeftInv, LoopHasAll, Attended
<1>3. CASE RestoreLoop
  <2>1. phase' = phase /\ phase \in {"recovering", "cleaning"}
    BY <1>3 DEF RestoreLoop
  <2> QED
    BY <1>3, <2>1, LoopAttends DEF LeftInv, LoopHasAll
<1>4. CASE CancelTasks
  <2>1. ActiveRows \subseteq refused \cup late
    BY <1>4 DEF CancelTasks, LeftInv, LoopHasAll, Attended, Restored, PhaseInv, Idle
  <2>2. ActiveRows' = ActiveRows /\ UNCHANGED history /\ phase' = "closing"
    BY <1>4 DEF CancelTasks, Dropped, vars, ActiveRows
  <2> QED
    BY <2>1, <2>2 DEF LeftInv, history
<1>5. CASE CompleteSession
  BY <1>5 DEF CompleteSession, Restart, LeftInv, ActiveRows, history
<1>6. CASE Crash
  BY <1>6 DEF Crash, LeftInv, PhaseInv, Armed
<1>7. CASE Launch \/ Toggle \/ Stop \/ RestoreRaises \/ StartServing \/ StopRaises
  BY <1>7 DEF Launch, Toggle, Stop, RestoreRaises, StartServing, StopRaises, LeftInv
<1>8. CASE CycleStep
  <2>1. /\ CycleLives /\ Apply(orch) /\ UNCHANGED <<phase, refused>>
        /\ late' = IF phase = "cleaning" THEN late \cup (ActiveRows' \ ActiveRows) ELSE late
    BY <1>8 DEF CycleStep
  <2>2. CASE phase # "cleaning"
    BY <2>1, <2>2 DEF LeftInv, CycleLives
  <2>3. CASE phase = "cleaning"
    <3>1. UNCHANGED <<pc[main], job[main]>>
      BY <1>1, <2>1, OthersStay
    <3>2. \A a \in ActiveRows : applications'[a].snap = applications[a].snap
      <4>1. CASE ApplyRegister(orch)
        BY <1>1, <4>1, RegisterShape DEF ActiveRows
      <4>2. CASE ~ApplyRegister(orch)
        BY <2>1, <4>2 DEF Apply, ApplyCapture, ApplyWrite, ApplyRefused
      <4> QED
        BY <4>1, <4>2
    <3>3. \A a \in ActiveRows' : a \in ActiveRows \/ a \in late'
      BY <2>1, <2>3
    <3> QED
      BY <2>1, <2>3, <3>1, <3>2, <3>3 DEF LeftInv, LoopHasAll, Attended, Restored
  <2> QED
    BY <2>2, <2>3
<1>9. CASE \/ CycleBegin \/ AdaptiveEnabled \/ AdaptiveList \/ CycleEnd
           \/ UNCHANGED allVars \/ \E t \in Targets : AppProcessExit(t)
  <2>1. /\ UNCHANGED <<phase, session, refused, late>>
        /\ UNCHANGED <<snapshots, applications, pc, job>>
    BY <1>9 DEF CycleBegin, AdaptiveEnabled, AdaptiveList, CycleEnd, allVars, vars, history,
                AppProcessExit, ProcessExit, appVars
  <2> QED
    BY <2>1 DEF LeftInv, LoopHasAll, Attended, Restored, ActiveRows, Armed
<1>10. ASSUME NEW t \in Targets, AdaptiveApply(t) PROVE LeftInv'
  <2>1. /\ UNCHANGED <<phase, session, refused, late, snapshots, applications>>
        /\ ApplyBegin(orch, t)
    BY <1>10 DEF AdaptiveApply, ApplyBegin, history
  <2>2. UNCHANGED <<pc[main], job[main]>>
    BY <1>1, <2>1, OthersStay
  <2> QED
    BY <2>1, <2>2 DEF LeftInv, LoopHasAll, Attended, Restored, ActiveRows, Armed
<1>11. CASE \E c \in Requests : Serve(c)
  BY <1>11 DEF Serve, appVars, LeftInv
<1> QED
  BY <1>2, <1>3, <1>4, <1>5, <1>6, <1>7, <1>8, <1>9, <1>10, <1>11 DEF AppNext, Lifespan, Cycle

LEMMA LeftAlways == AppSpec => [](Typed /\ PhaseInv /\ OrchInv /\ OneIsLate /\ LeftInv)
<1>1. AppInit => OrchInv /\ OneIsLate /\ LeftInv
  BY LifespanAssumption
     DEF AppInit, Init, OrchInv, OneIsLate, LeftInv, Idle, ActiveRows
<1> QED
  BY <1>1, OrchStep, OneIsLateStep, LeftStep, PhaseAlways, PTL DEF AppSpec

(* Whatever is refused, raises or crashes in whichever run, an exit that    *)
(* counts as clean leaves on the list only what its own cleanup was refused *)
(* and one service or process tweak of the last cycle.                      *)
THEOREM ExitLeavesRefusedOrLateAlways == AppSpec => []ExitLeavesRefusedOrLate
<1>1. OneIsLate /\ LeftInv => ExitLeavesRefusedOrLate
  BY DEF OneIsLate, LeftInv, ExitLeavesRefusedOrLate, Armed, RowTarget
<1> QED
  BY <1>1, LeftAlways, PTL

(* Where a restore loop of the lifespan has returned, it has attempted      *)
(* every row.                                                               *)
LEMMA DoneIsLeft ==
  ASSUME PhaseInv, LeftInv, [AppNext]_allVars,
         \/ phase = "recovering" /\ phase' = "running"
         \/ phase = "cleaning" /\ phase' = "closing"
  PROVE  /\ ActiveRows \subseteq refused \cup late
         /\ \A a \in ActiveRows : ~Restored(a)
  BY DoneIsIdle DEF LeftInv, LoopHasAll, Attended, Restored, PhaseInv, Idle

(* A backend that recovers begins to serve only when this recovery has      *)
(* attempted every tweak that is still listed.                              *)
THEOREM RecoveryAttemptsAllAlways == AppSpec => RecoveryAttemptsAll
<1>1. ASSUME PhaseInv, LeftInv, [AppNext]_allVars
      PROVE  phase = "recovering" /\ phase' = "running" => ActiveRows \subseteq refused
  BY <1>1, DoneIsLeft DEF PhaseInv
<1> QED
  BY <1>1, LeftAlways, PTL DEF AppSpec, RecoveryAttemptsAll
-------------------------------------------------------------------------------
(* What a recovery or a shutdown may leave altered: a setting that was      *)
(* captured while it was altered, one whose apply was cut or refused before *)
(* it registered its snapshot, one whose restore this loop attempted and    *)
(* was refused, and the late tweak of a cycle.                              *)
LeavesKnownSettings ==
  [][\/ phase = "recovering" /\ phase' = "running"
     \/ phase = "cleaning" /\ phase' = "closing"
       => \A t \in Targets : Altered(t) =>
            \/ Recaptured(t)
            \/ \E s \in SnapsOf(t) : snapshots[s].restorable /\ ~HasRow(s)
            \/ \E a \in ActiveRows \cap (refused \cup late) : RowTarget(a) = t]_allVars

LEMMA AlteredIsLeft ==
  ASSUME UsableInv, ActiveRows \subseteq refused \cup late,
         NEW t \in Targets, Altered(t), ~Recaptured(t)
  PROVE  \/ \E s \in SnapsOf(t) : snapshots[s].restorable /\ ~HasRow(s)
         \/ \E a \in ActiveRows \cap (refused \cup late) : RowTarget(a) = t
<1>1. PICK s \in SnapsOf(t) : Usable(s)
  BY DEF UsableInv
<1>2. CASE s \in ActiveSnapshots
  <2>1. PICK a \in ActiveRows : applications[a].snap = s
    BY <1>2 DEF ActiveSnapshots
  <2> QED
    BY <2>1 DEF RowTarget, SnapsOf
<1>3. CASE s \notin ActiveSnapshots
  BY <1>1, <1>3 DEF Usable
<1> QED
  BY <1>2, <1>3

(* That is all: where launches are live, a loop of the lifespan does what   *)
(* the documentation says of it but for the cases that rollback_order,      *)
(* unregistered_crash and clean_exit_race show, and the writes it was       *)
(* refused.                                                                 *)
THEOREM LeavesKnownSettingsLive ==
  ASSUME LaunchModes = {FALSE}
  PROVE  AppSpec => LeavesKnownSettings
<1>1. AppInit => UsableInv
  BY DEF AppInit, Init, UsableInv, Altered
<1>2. Typed /\ OwnersInv /\ UsableInv /\ [Next]_vars => UsableInv'
  BY UsableStep
<1>3. AppSpec => [](Typed /\ OwnersInv)
  BY AppTakesTweakSteps, OwnersInvariant, PTL
<1>4. AppSpec => []UsableInv
  BY <1>1, <1>2, <1>3, AppStep, PTL DEF AppSpec
<1>5. ASSUME PhaseInv, LeftInv, UsableInv, [AppNext]_allVars
      PROVE  \/ phase = "recovering" /\ phase' = "running"
             \/ phase = "cleaning" /\ phase' = "closing"
               => \A t \in Targets : Altered(t) =>
                    \/ Recaptured(t)
                    \/ \E s \in SnapsOf(t) : snapshots[s].restorable /\ ~HasRow(s)
                    \/ \E a \in ActiveRows \cap (refused \cup late) : RowTarget(a) = t
  <2> SUFFICES ASSUME \/ phase = "recovering" /\ phase' = "running"
                      \/ phase = "cleaning" /\ phase' = "closing",
                      NEW t \in Targets, Altered(t), ~Recaptured(t)
               PROVE  \/ \E s \in SnapsOf(t) : snapshots[s].restorable /\ ~HasRow(s)
                      \/ \E a \in ActiveRows \cap (refused \cup late) : RowTarget(a) = t
    OBVIOUS
  <2>1. ActiveRows \subseteq refused \cup late
    BY <1>5, DoneIsLeft
  <2> QED
    BY <1>5, <2>1, AlteredIsLeft
<1> QED
  BY <1>4, <1>5, LeftAlways, PTL DEF AppSpec, LeavesKnownSettings
===============================================================================
