----------------------------- MODULE AppLifecycle -----------------------------
(***************************************************************************)
(* One run of the backend after another over the same database: the        *)
(* lifespan of the FastAPI application, the session row that tells a clean *)
(* exit from an unclean one, the recovery of a later launch, and the       *)
(* cleanup of a shutdown, around the tweak calls of TweakLifecycle.        *)
(*                                                                         *)
(*   down -> recovery -> recovering -> running -> stopping -> cleaning     *)
(*        -> closing -> down                                               *)
(*                                                                         *)
(* A crash leads from any phase to down; an exception of the lifespan, in  *)
(* its restore loop or in orchestrator.stop(), leads through "failed".     *)
(***************************************************************************)
EXTENDS TweakLifecycle

CONSTANTS
  main,  \* the coroutine of lifespan()
  orch   \* the coroutine of orchestrator.run()

Requests == Tasks \ {main, orch}

ASSUME LifespanAssumption == main \in Tasks /\ orch \in Tasks /\ main # orch

VARIABLES
  phase,     \* how far lifespan() is
  session,   \* the row "current" of app_runtime_state
  cycle,     \* how far the monitoring cycle of the orchestrator is
  seen,      \* the targets of the rows the adaptive engine has listed
  adaptive,  \* the stored setting adaptive.enabled
  refused,   \* history: the rows the restore loop of this phase was refused
  late       \* history: the rows added while the cleanup was restoring

history == <<refused, late>>
appVars == <<phase, session, cycle, seen, adaptive, refused, late>>
allVars == <<vars, phase, session, cycle, seen, adaptive, refused, late>>

Phases == {"down", "recovery", "recovering", "running", "stopping",
           "cleaning", "closing", "failed"}
Cycles == {"asleep", "begun", "enabled", "listed", "applied"}

(* The phases in which the orchestrator's coroutine exists. *)
CycleLives == phase \in {"running", "stopping", "cleaning", "failed"}

(* A tweak that is listed and whose restore has not been attempted. *)
Pending(a) == a \in ActiveRows /\ snapshots[applications[a].snap].restorable
-------------------------------------------------------------------------------
(* Slips that an edit of the code could make, as in TweakLifecycle. *)

(* CancelTasks, had the cleanup been left to run as a task. *)
CancelWithoutCleanup ==
  /\ phase = "cleaning"
  /\ IF Idle(orch) THEN UNCHANGED vars ELSE Dropped(orch)
  /\ phase' = "closing"
  /\ cycle' = "asleep"
  /\ seen' = {}
  /\ UNCHANGED <<session, adaptive, history>>

(* StartServing, had the restore been left to run as a task. *)
StartServingEarly ==
  /\ phase = "recovering"
  /\ phase' = "running"
  /\ UNCHANGED <<vars, session, cycle, seen, adaptive, history>>

-------------------------------------------------------------------------------
AppInit ==
  /\ Init
  /\ phase = "down"
  /\ session = [active |-> FALSE, clean |-> TRUE]
  /\ cycle = "asleep"
  /\ seen = {}
  /\ adaptive = TRUE
  /\ refused = {}
  /\ late = {}

(* begin_session looks at the row the previous session left, and overwrites *)
(* it as active and unclean.                                                *)
Launch ==
  /\ phase = "down"
  /\ phase' = IF session.active /\ ~session.clean THEN "recovery" ELSE "running"
  /\ session' = [active |-> TRUE, clean |-> FALSE]
  /\ refused' = {}
  /\ late' = {}
  /\ UNCHANGED <<vars, cycle, seen, adaptive>>

(* restore_temporary_tweaks lists the active rows, once. *)
ListAll ==
  IF ActiveRows = {} THEN UNCHANGED vars ELSE RestoreAllBegin(main)

RecoveryBegin ==
  /\ phase = "recovery"
  /\ ListAll
  /\ phase' = "recovering"
  /\ UNCHANGED <<session, cycle, seen, adaptive, history>>

(* The restore loop of the lifespan coroutine, at startup or at shutdown. *)
RestoreLoop ==
  /\ phase \in {"recovering", "cleaning"}
  /\ \/ /\ RestoreWrite(main) \/ RestoreMark(main) \/ RestoreRemove(main)
        /\ UNCHANGED refused
     \/ /\ RestoreRefused(main)
        /\ refused' = refused \cup (job[main].todo \ job'[main].todo)
  /\ UNCHANGED <<phase, session, cycle, seen, adaptive, late>>

(* An exception of the loop propagates out of lifespan(). *)
RestoreRaises ==
  /\ phase \in {"recovering", "cleaning"}
  /\ RestoreAborted(main)
  /\ phase' = "failed"
  /\ UNCHANGED <<session, cycle, seen, adaptive, history>>

(* The loop has returned: the tasks are created and the server serves. *)
StartServing ==
  /\ phase = "recovering"
  /\ Idle(main)
  /\ phase' = "running"
  /\ refused' = {}
  /\ UNCHANGED <<vars, session, cycle, seen, adaptive, late>>

(* A request handler or one of its steps. *)
Serve(c) ==
  /\ phase = "running"
  /\ \/ \E t \in Targets : ApplyBegin(c, t)
     \/ RevertBegin(c)
     \/ RestoreAllBegin(c)
     \/ Apply(c)
     \/ Restore(c)
  /\ UNCHANGED appVars

(* A request switches the adaptive engine; set_enabled commits the setting. *)
Toggle ==
  /\ phase = "running"
  /\ adaptive' \in BOOLEAN
  /\ UNCHANGED <<vars, phase, session, cycle, seen, history>>

(* The server lets the requests finish, then lifespan() resumes after its   *)
(* yield and clears orchestrator.running.                                   *)
Stop ==
  /\ phase = "running"
  /\ \A c \in Requests : Idle(c)
  /\ phase' = "stopping"
  /\ UNCHANGED <<vars, session, cycle, seen, adaptive, history>>

(* orchestrator.stop() ends the game session, and an exception of that      *)
(* leaves lifespan() before its cleanup (see GameSessions).                 *)
StopRaises ==
  /\ phase = "stopping"
  /\ phase' = "failed"
  /\ UNCHANGED <<vars, session, cycle, seen, adaptive, history>>

CleanupBegin ==
  /\ phase = "stopping"
  /\ ListAll
  /\ phase' = "cleaning"
  /\ UNCHANGED <<session, cycle, seen, adaptive, history>>

(* The orchestrator's loop starts a cycle only while it is running; a cycle *)
(* that has begun goes on after stop().                                     *)
CycleBegin ==
  /\ phase = "running"
  /\ cycle = "asleep"
  /\ cycle' = "begun"
  /\ UNCHANGED <<vars, phase, session, seen, adaptive, history>>

(* evaluate reads whether it is enabled, and goes on if so ...              *)
AdaptiveEnabled ==
  /\ CycleLives
  /\ adaptive
  /\ cycle = "begun"
  /\ cycle' = "enabled"
  /\ UNCHANGED <<vars, phase, session, seen, adaptive, history>>

(* ... to list the active tweaks, before it goes through its rules.         *)
AdaptiveList ==
  /\ CycleLives
  /\ cycle = "enabled"
  /\ cycle' = "listed"
  /\ seen' = {snapshots[applications[a].snap].target : a \in ActiveRows}
  /\ UNCHANGED <<vars, phase, session, adaptive, history>>

(* It applies the tweak of the first rule that matches and is not listed,   *)
(* and leaves the loop.                                                     *)
AdaptiveApply(t) ==
  /\ CycleLives
  /\ cycle = "listed"
  /\ t \notin seen
  /\ Kind[t] \in {"service", "process"}
  /\ ApplyBegin(orch, t)
  /\ cycle' = "applied"
  /\ UNCHANGED <<phase, session, seen, adaptive, history>>

CycleStep ==
  /\ CycleLives
  /\ Apply(orch)
  /\ late' = IF phase = "cleaning" THEN late \cup (ActiveRows' \ ActiveRows) ELSE late
  /\ UNCHANGED <<phase, session, cycle, seen, adaptive, refused>>

CycleEnd ==
  /\ CycleLives
  /\ cycle # "asleep"
  /\ Idle(orch)
  /\ cycle' = "asleep"
  /\ seen' = {}
  /\ UNCHANGED <<vars, phase, session, adaptive, history>>

(* The cleanup has returned: the orchestrator is cancelled where it waits. *)
CancelTasks ==
  /\ phase = "cleaning"
  /\ Idle(main)
  /\ IF Idle(orch) THEN UNCHANGED vars ELSE Dropped(orch)
  /\ phase' = "closing"
  /\ cycle' = "asleep"
  /\ seen' = {}
  /\ UNCHANGED <<session, adaptive, history>>

(* complete_session records the clean exit, and the process ends. *)
CompleteSession ==
  /\ phase = "closing"
  /\ Restart
  /\ phase' = "down"
  /\ session' = [active |-> FALSE, clean |-> TRUE]
  /\ UNCHANGED <<cycle, seen, adaptive, history>>

(* The process ends, or is ended, without complete_session. *)
Crash ==
  /\ phase # "down"
  /\ Restart
  /\ phase' = "down"
  /\ cycle' = "asleep"
  /\ seen' = {}
  /\ refused' = {}
  /\ late' = {}
  /\ UNCHANGED <<session, adaptive>>

AppProcessExit(t) == ProcessExit(t) /\ UNCHANGED appVars

Cycle == \/ CycleBegin \/ AdaptiveEnabled \/ AdaptiveList \/ CycleStep \/ CycleEnd
         \/ \E t \in Targets : AdaptiveApply(t)
Lifespan == \/ RecoveryBegin \/ RestoreLoop \/ RestoreRaises \/ StartServing
            \/ StopRaises \/ CleanupBegin \/ CancelTasks \/ CompleteSession

AppNext ==
  \/ Launch \/ Toggle \/ Stop \/ Crash
  \/ Lifespan
  \/ Cycle
  \/ \E c \in Requests : Serve(c)
  \/ \E t \in Targets : AppProcessExit(t)

AppSpec == AppInit /\ [][AppNext]_allVars

(* lifespan() is resumed whenever its await has been answered, and a        *)
(* backend whose lifespan() has raised does exit.  Launching and stopping   *)
(* are the user's.                                                          *)
AppFairness == WF_allVars(Lifespan) /\ WF_allVars(phase = "failed" /\ Crash)
AppFairSpec == AppSpec /\ AppFairness
-------------------------------------------------------------------------------
AppTypeOK ==
  /\ TypeOK
  /\ phase \in Phases
  /\ session \in [active : BOOLEAN, clean : BOOLEAN]
  /\ cycle \in Cycles
  /\ seen \subseteq Targets
  /\ adaptive \in BOOLEAN
  /\ refused \subseteq Nat
  /\ late \subseteq Nat

(* When the backend starts to serve after an unclean exit, this recovery    *)
(* has attempted every tweak still listed and was refused it: recovery is   *)
(* over before a request or a cycle can add to the list.                    *)
RecoveryAttemptsAll ==
  [][phase = "recovering" /\ phase' = "running" => ActiveRows \subseteq refused]_allVars

(* Between two runs, a tweak that was never put back is left only where the *)
(* next launch will recover it ("Temporary tweaks must be restored on clean *)
(* shutdown when possible", docs/INSTALLER_ARCHITECTURE.md line 24).        *)
PendingArmsRecovery ==
  phase = "down" /\ (\E a \in ActiveRows : Pending(a)) =>
    session.active /\ ~session.clean

(* An exit that the next launch takes for clean leaves no more on the list  *)
(* than what its own cleanup attempted and was refused, and one tweak that  *)
(* the last cycle applied behind the cleanup's list, never a registry one:  *)
(* the shutdown restores before it cancels the cycle.  Both are left, the   *)
(* second against the documentation (see PendingArmsRecovery).              *)
ExitLeavesRefusedOrLate ==
  phase = "closing" \/ (phase = "down" /\ ~(session.active /\ ~session.clean)) =>
    /\ ActiveRows \subseteq refused \cup late
    /\ \A a, b \in late : a = b
    /\ \A a \in late : Kind[snapshots[applications[a].snap].target] # "registry"

(* "If the app exits uncleanly, startup recovery must review and restore    *)
(* temporary tweaks before reuse" (docs/INSTALLER_ARCHITECTURE.md line 25). *)
RecoveredBeforeReuse ==
  [][phase = "recovering" /\ phase' = "running" =>
       \A t \in Targets : ~Altered(t)]_allVars

(* A launch that finds tweaks to recover goes through all of them, unless   *)
(* it ends before: each is put back, or marked as one whose restore failed, *)
(* and no row keeps the startup waiting.                                    *)
RecoveryEnds ==
  \A a \in 1..MaxSnapshots :
    (phase = "recovery" /\ a \in ActiveRows) ~>
      (phase = "down" \/ (a \in DOMAIN applications /\ ~Pending(a)))
===============================================================================
