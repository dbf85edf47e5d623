---------------------------- MODULE TweakLifecycle ----------------------------
(***************************************************************************)
(* How PulseBoost changes an operating-system setting and puts it back.    *)
(*                                                                         *)
(* Every coroutine of the backend that applies or reverts a tweak (an API  *)
(* request, the adaptive cycle, a benchmark, the startup recovery, the     *)
(* shutdown cleanup) is a task.  asyncio switches tasks only at an await,  *)
(* and every await of this path is a database call in a transaction of its *)
(* own; so an action of this module is the code between two awaits that    *)
(* matter, and TLC interleaves the tasks there.                            *)
(*                                                                         *)
(*   apply    read -> capture_snapshot -> OS write -> register             *)
(*   restore  list -> (OS write -> mark_restored -> remove) for each row   *)
(*                                                                         *)
(* os, snapshots and applications survive a crash; pc and job do not.      *)
(* The list is ordered by applied_at, which register() stamps before its   *)
(* insert; the stamp and the insert are one step here.                     *)
(***************************************************************************)
EXTENDS Naturals, Sequences, FiniteSets

CONSTANTS
  Tasks,         \* coroutines that may run an optimizer call at the same time
  Targets,       \* OS settings that a tweak changes
  Kind,          \* which manager owns a target: see Kinds
  LaunchModes,   \* the values EXECUTOR_DRY_RUN may have at a launch
  Faults,        \* what may go wrong outside the program: see FaultKinds
  MaxSnapshots   \* bound on the rows of rollback_snapshots

Kinds == {"service", "registry", "process"}

(* "crash": the backend dies.  "drop": one coroutine ends at its await (it  *)
(* is cancelled, or its database call raises).  "refuse": the OS rejects a  *)
(* write.  "exit": a tweaked process ends.  "unread": sc qc prints no       *)
(* START_TYPE line, so a service reads as None.                             *)
FaultKinds == {"crash", "drop", "refuse", "exit", "unread"}

ASSUME KindAssumption == Kind \in [Targets -> Kinds]
ASSUME LaunchAssumption == LaunchModes \subseteq BOOLEAN /\ LaunchModes # {}
ASSUME FaultAssumption == Faults \subseteq FaultKinds
ASSUME TargetsAssumption == Targets # {}
ASSUME BoundAssumption == MaxSnapshots \in Nat

VARIABLES
  os,            \* the value each target has in the operating system
  dryRun,        \* settings.executor_dry_run of the running backend
  snapshots,     \* table rollback_snapshots, in insertion order
  applications,  \* table tweak_applications, in applied_at order
  pc,            \* the await each task is suspended at
  job            \* the local variables of each task

vars == <<os, dryRun, snapshots, applications, pc, job>>
-------------------------------------------------------------------------------
(* The value a target had before PulseBoost, the value its tweak writes, a  *)
(* process that no longer exists, and a reading that failed (None).         *)
Original == "original"
Tweaked  == "tweaked"
Gone     == "gone"
Unread   == "unread"

Readings  == {Original, Tweaked, Unread}
OsValues  == {Original, Tweaked, Gone}
Points    == {"idle", "capture", "write", "register", "restore", "mark", "remove"}

Snapshot    == [target : Targets, before : Readings, restorable : BOOLEAN]
Application == [snap : Nat, reverted : BOOLEAN]
Job         == [target : Targets, before : Readings, snap : Nat,
                todo : SUBSET Nat, ok : BOOLEAN]

(* What a task's locals hold when no call is running. *)
NoJob == [target |-> CHOOSE t \in Targets : TRUE, before |-> Original,
          snap |-> 0, todo |-> {}, ok |-> FALSE]

-------------------------------------------------------------------------------
(* Slips that an edit of the code could make.  No specification uses them;  *)
(* each stands in for the definition it names when a property is tried      *)
(* against it.                                                              *)

(* ReadingsOf, had the manager read its target after the write. *)
ReadAfterWrite(t) == {Tweaked}

(* RestoredValue, had the wrapper no default for a missing start type. *)
RestoresAnyReading(before) == before

(* RestoredValue, had the wrapper used its default for every start type. *)
RestoresDefault(before) == Tweaked

(* AfterRow, had restore_temporary_tweaks returned from inside its loop. *)
AfterOneRow(c) ==
  /\ pc' = [pc EXCEPT ![c] = "idle"]
  /\ job' = [job EXCEPT ![c] = NoJob]

(* RestoreMark, had mark_restored not been called before the removal. *)
MarkForgotten(c) ==
  /\ pc[c] = "mark"
  /\ pc' = [pc EXCEPT ![c] = "remove"]
  /\ UNCHANGED <<os, dryRun, snapshots, applications, job>>
-------------------------------------------------------------------------------
(* list_active_tweak_applications: the rows not reverted yet, by position.  *)
ActiveRows      == {a \in DOMAIN applications : ~applications[a].reverted}
ActiveSnapshots == {applications[a].snap : a \in ActiveRows}

Idle(c) == pc[c] = "idle"

(* What a manager can read from a target: None only from the services       *)
(* wrapper; the process managers return early on a process that is gone.    *)
ReadingsOf(t) ==
  {os[t]} \cup IF Kind[t] = "service" /\ "unread" \in Faults THEN {Unread} ELSE {}

(* The services wrapper restores a missing start type as "demand", which is *)
(* what its tweak writes; the other managers write the captured value.      *)
RestoredValue(before) == IF before = Unread THEN Tweaked ELSE before

(* A write can be refused by fault, and always is when the process is gone. *)
CanRefuse(t) == os[t] = Gone \/ "refuse" \in Faults

(* A restore loop goes on to its next row, or returns after the last one. *)
AfterRow(c) ==
  /\ pc' = [pc EXCEPT ![c] = IF job[c].todo = {} THEN "idle" ELSE "restore"]
  /\ job' = [job EXCEPT ![c] = IF @.todo = {} THEN NoJob ELSE @]

(* The slots of snapshots that calls already started will fill. *)
Reserved == Cardinality({c \in Tasks : pc[c] = "capture"})
-------------------------------------------------------------------------------
Init ==
  /\ os = [t \in Targets |-> Original]
  /\ dryRun \in LaunchModes
  /\ snapshots = <<>>
  /\ applications = <<>>
  /\ pc = [c \in Tasks |-> "idle"]
  /\ job = [c \in Tasks |-> NoJob]

(* apply_tweak up to the first await: the manager has checked its target    *)
(* and read the value it will capture.                                      *)
ApplyBegin(c, t) ==
  /\ Idle(c)
  /\ os[t] # Gone
  /\ Len(snapshots) + Reserved < MaxSnapshots
  /\ \E v \in ReadingsOf(t) :
       job' = [job EXCEPT ![c] = [NoJob EXCEPT !.target = t, !.before = v]]
  /\ pc' = [pc EXCEPT ![c] = "capture"]
  /\ UNCHANGED <<os, dryRun, snapshots, applications>>

(* capture_snapshot commits the pre-change value. *)
ApplyCapture(c) ==
  /\ pc[c] = "capture"
  /\ snapshots' = Append(snapshots, [target |-> job[c].target,
                                     before |-> job[c].before,
                                     restorable |-> TRUE])
  /\ job' = [job EXCEPT ![c].snap = Len(snapshots) + 1]
  /\ pc' = [pc EXCEPT ![c] = "write"]
  /\ UNCHANGED <<os, dryRun, applications>>

(* The OS write of set_start_type, set_value, set_priority, set_affinity. *)
ApplyWrite(c) ==
  /\ pc[c] = "write"
  /\ dryRun \/ os[job[c].target] # Gone
  /\ os' = IF dryRun THEN os ELSE [os EXCEPT ![job[c].target] = Tweaked]
  /\ pc' = [pc EXCEPT ![c] = "register"]
  /\ UNCHANGED <<dryRun, snapshots, applications, job>>

(* The write fails: a blocked result, a non-zero return code or an          *)
(* exception; the snapshot stays behind and nothing is registered.          *)
ApplyRefused(c) ==
  /\ pc[c] = "write"
  /\ ~dryRun
  /\ CanRefuse(job[c].target)
  /\ pc' = [pc EXCEPT ![c] = "idle"]
  /\ job' = [job EXCEPT ![c] = NoJob]
  /\ UNCHANGED <<os, dryRun, snapshots, applications>>

(* TemporaryTweakManager.register inserts the active application. *)
ApplyRegister(c) ==
  /\ pc[c] = "register"
  /\ applications' =
       IF job[c].snap \in ActiveSnapshots THEN applications
       ELSE Append(applications, [snap |-> job[c].snap, reverted |-> FALSE])
  /\ pc' = [pc EXCEPT ![c] = "idle"]
  /\ job' = [job EXCEPT ![c] = NoJob]
  /\ UNCHANGED <<os, dryRun, snapshots>>

(* revert_tweak lists the active rows and picks one: the row of a snapshot  *)
(* id, or the newest row of a tweak id, which is one of the same rows.      *)
RevertBegin(c) ==
  /\ Idle(c)
  /\ \E a \in ActiveRows : job' = [job EXCEPT ![c].todo = {a}]
  /\ pc' = [pc EXCEPT ![c] = "restore"]
  /\ UNCHANGED <<os, dryRun, snapshots, applications>>

(* restore_temporary_tweaks lists every active row; it visits them oldest   *)
(* first.                                                                   *)
RestoreAllBegin(c) ==
  /\ Idle(c)
  /\ ActiveRows # {}
  /\ job' = [job EXCEPT ![c].todo = ActiveRows]
  /\ pc' = [pc EXCEPT ![c] = "restore"]
  /\ UNCHANGED <<os, dryRun, snapshots, applications>>

(* The row a restore loop takes next. *)
NextRow(c, a) == a \in job[c].todo /\ \A b \in job[c].todo : a <= b

(* The manager's restore reads the snapshot, whatever its restorable flag,  *)
(* and writes the captured value back; in dry-run mode it writes nothing.   *)
RestoreWrite(c) ==
  /\ pc[c] = "restore"
  /\ \E a \in DOMAIN applications :
       LET s == applications[a].snap
           t == snapshots[s].target
       IN /\ NextRow(c, a)
          /\ dryRun \/ os[t] # Gone
          /\ os' = IF dryRun THEN os
                   ELSE [os EXCEPT ![t] = RestoredValue(snapshots[s].before)]
          /\ job' = [job EXCEPT ![c].snap = s, ![c].todo = @ \ {a}, ![c].ok = TRUE]
  /\ pc' = [pc EXCEPT ![c] = "mark"]
  /\ UNCHANGED <<dryRun, snapshots, applications>>

(* The write is refused.  The services and process managers go on to        *)
(* mark_restored with a failure status.                                     *)
RestoreRefused(c) ==
  /\ pc[c] = "restore"
  /\ ~dryRun
  /\ \E a \in DOMAIN applications :
       LET s == applications[a].snap
           t == snapshots[s].target
       IN /\ NextRow(c, a)
          /\ CanRefuse(t)
          /\ Kind[t] # "registry"
          /\ job' = [job EXCEPT ![c].snap = s, ![c].todo = @ \ {a}, ![c].ok = FALSE]
  /\ pc' = [pc EXCEPT ![c] = "mark"]
  /\ UNCHANGED <<os, dryRun, snapshots, applications>>

(* A refused registry write raises through restore, revert_tweak and        *)
(* restore_temporary_tweaks: the rows still to do are not visited.          *)
RestoreAborted(c) ==
  /\ pc[c] = "restore"
  /\ ~dryRun
  /\ "refuse" \in Faults
  /\ \E a \in DOMAIN applications :
       /\ NextRow(c, a)
       /\ Kind[snapshots[applications[a].snap].target] = "registry"
  /\ pc' = [pc EXCEPT ![c] = "idle"]
  /\ job' = [job EXCEPT ![c] = NoJob]
  /\ UNCHANGED <<os, dryRun, snapshots, applications>>

(* mark_restored clears restorable_flag, after a failure too. *)
RestoreMark(c) ==
  /\ pc[c] = "mark"
  /\ snapshots' = [snapshots EXCEPT ![job[c].snap].restorable = FALSE]
  /\ IF job[c].ok THEN pc' = [pc EXCEPT ![c] = "remove"] /\ UNCHANGED job
                  ELSE AfterRow(c)
  /\ UNCHANGED <<os, dryRun, applications>>

(* mark_tweak_application_reverted, after a successful restore only. *)
RestoreRemove(c) ==
  /\ pc[c] = "remove"
  /\ applications' =
       [a \in DOMAIN applications |->
          IF applications[a].snap = job[c].snap
          THEN [applications[a] EXCEPT !.reverted = TRUE] ELSE applications[a]]
  /\ AfterRow(c)
  /\ UNCHANGED <<os, dryRun, snapshots>>

(* A tweaked process ends; psutil finds no such pid from then on. *)
ProcessExit(t) ==
  /\ "exit" \in Faults
  /\ Kind[t] = "process"
  /\ os[t] # Gone
  /\ os' = [os EXCEPT ![t] = Gone]
  /\ UNCHANGED <<dryRun, snapshots, applications, pc, job>>

(* One coroutine ends where it waits: task.cancel() reaches the cycle at     *)
(* shutdown, or a database call raises through the handler.  Its statement  *)
(* may have been committed before that (the step of its own) or not.        *)
Dropped(c) ==
  /\ "drop" \in Faults
  /\ ~Idle(c)
  /\ pc' = [pc EXCEPT ![c] = "idle"]
  /\ job' = [job EXCEPT ![c] = NoJob]
  /\ UNCHANGED <<os, dryRun, snapshots, applications>>

(* Every coroutine is lost; the next launch reads EXECUTOR_DRY_RUN again. *)
Restart ==
  /\ "crash" \in Faults
  /\ dryRun' \in LaunchModes
  /\ pc' = [c \in Tasks |-> "idle"]
  /\ job' = [c \in Tasks |-> NoJob]
  /\ UNCHANGED <<os, snapshots, applications>>

Apply(c)   == \/ ApplyCapture(c) \/ ApplyWrite(c) \/ ApplyRefused(c) \/ ApplyRegister(c)
Restore(c) == \/ RestoreWrite(c) \/ RestoreRefused(c) \/ RestoreAborted(c)
              \/ RestoreMark(c) \/ RestoreRemove(c)

Next ==
  \/ \E c \in Tasks : \/ \E t \in Targets : ApplyBegin(c, t)
                      \/ RevertBegin(c)
                      \/ RestoreAllBegin(c)
                      \/ Apply(c)
                      \/ Restore(c)
                      \/ Dropped(c)
  \/ \E t \in Targets : ProcessExit(t)
  \/ Restart

Spec == Init /\ [][Next]_vars
-------------------------------------------------------------------------------
TypeOK ==
  /\ os \in [Targets -> OsValues]
  /\ dryRun \in BOOLEAN
  /\ snapshots \in Seq(Snapshot)
  /\ applications \in Seq(Application)
  /\ pc \in [Tasks -> Points]
  /\ job \in [Tasks -> Job]

Altered(t)  == os[t] \notin {Original, Gone}
SnapsOf(t)  == {s \in DOMAIN snapshots : snapshots[s].target = t}

(* Some snapshot of t holds a value other than the one t had at first: its  *)
(* apply read t while another tweak of t was in force, or could not read it. *)
Recaptured(t) == \E s \in SnapsOf(t) : snapshots[s].before # Original

(* A committed snapshot of t holds the original value, or says it could     *)
(* not be read.                                                             *)
Saved(t) == \E s \in SnapsOf(t) : snapshots[s].before \in {Original, Unread}

(* "Never apply a tweak without saving original state first" (implement.md  *)
(* line 47): while a setting differs from what it was before PulseBoost, a  *)
(* committed snapshot holds that value (or, for a service, records that it  *)
(* could not be read), whatever calls overlap, fail or are cut by a crash.  *)
OriginalSurvives ==
  \A t \in Targets : Altered(t) => Saved(t)

(* The tables and the operating system together implement the promise.     *)
Ledger == INSTANCE SettingLedger
            WITH saved   <- {t \in Targets : Saved(t)},
                 altered <- {t \in Targets : Altered(t)}

ImplementsLedger == Ledger!Spec

(* Rollback metadata stays usable: as long as every snapshot of a setting   *)
(* captured the original value, an altered setting has such a snapshot that *)
(* is still counted restorable, or whose application is still listed for    *)
(* the next restore.  No overlap of restores, refused write or crash        *)
(* between two steps loses both.  It does not say that the next restore     *)
(* finds the snapshot: that of an apply that was cut before it registered   *)
(* is restorable and on no list (RecoveredBeforeReuse of AppLifecycle).     *)
AlteredIsRecoverable ==
  \A t \in Targets : Altered(t) /\ ~Recaptured(t) =>
    \E s \in SnapsOf(t) : snapshots[s].restorable \/ s \in ActiveSnapshots

(* An application leaves the active list only after its snapshot has been   *)
(* marked, so a crash between the two leaves the row to be restored again,  *)
(* never a row that is gone with a snapshot that still counts as pending.   *)
RemovedAfterMark ==
  \A a \in DOMAIN applications :
    applications[a].reverted => ~snapshots[applications[a].snap].restorable

(* Once every tweak has been taken off the list and no call is running, the *)
(* settings are what they were ("restore all active temporary tweaks",      *)
(* docs/PULSEBOOST_API_REFERENCE.md line 418).                              *)
RollbackRestoresOriginal ==
  (\A c \in Tasks : Idle(c)) /\ ActiveRows = {} =>
    \A t \in Targets : ~Altered(t)
===============================================================================
