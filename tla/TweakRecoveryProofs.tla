-------------------------- MODULE TweakRecoveryProofs --------------------------
(***************************************************************************)
(* The rollback metadata of TweakLifecycle stays usable: what leads back   *)
(* from an altered setting is not lost, and the two tables of a removal    *)
(* are written in order.                                                   *)
(***************************************************************************)
EXTENDS TweakLifecycleProofs

(* An application of s has been registered, reverted or not. *)
HasRow(s) == \E a \in DOMAIN applications : applications[a].snap = s

Applying(c)  == pc[c] \in {"write", "register"}
Restoring(c) == pc[c] \in {"mark", "remove"}

(* A snapshot under an apply that has not registered it belongs to that     *)
(* apply alone; what a restore is about to mark or remove is registered,    *)
(* and marked before it is removed.                                         *)
OwnersInv ==
  /\ \A c \in Tasks : Applying(c) =>
       snapshots[job[c].snap].restorable /\ ~HasRow(job[c].snap)
  /\ \A c, d \in Tasks : Applying(c) /\ Applying(d) /\ c # d => job[c].snap # job[d].snap
  /\ \A c \in Tasks : Restoring(c) => HasRow(job[c].snap)
  /\ \A c \in Tasks : pc[c] = "remove" => ~snapshots[job[c].snap].restorable

(* Some restore has written the value of s back, and has yet to say so. *)
Released(s) ==
  \E c \in Tasks : job[c].snap = s /\ (pc[c] = "remove" \/ (pc[c] = "mark" /\ job[c].ok))

(* The next restore of everything, or the apply that captured it, will find *)
(* s, and no call that runs is about to take it away.                       *)
Usable(s) ==
  ~Released(s) /\ (s \in ActiveSnapshots \/ (snapshots[s].restorable /\ ~HasRow(s)))

(* AlteredIsRecoverable is not inductive: a row that is listed may be under *)
(* a restore that removes it next.                                          *)
UsableInv ==
  /\ ~dryRun
  /\ \A t \in Targets : Altered(t) /\ ~Recaptured(t) => \E s \in SnapsOf(t) : Usable(s)
-------------------------------------------------------------------------------
(* The steps that leave the two tables alone. *)
TablesKept == UNCHANGED <<snapshots, applications>>

(* Registering adds an active row of the task's snapshot, or nothing. *)
LEMMA RegisterRows ==
  ASSUME Typed, NEW c \in Tasks, ApplyRegister(c)
  PROVE  /\ DOMAIN applications \subseteq DOMAIN applications'
         /\ \A a \in DOMAIN applications : applications'[a] = applications[a]
         /\ \A a \in DOMAIN applications' \ DOMAIN applications :
              applications'[a].snap = job[c].snap /\ ~applications'[a].reverted
         /\ job[c].snap \in ActiveSnapshots'
<1>1. CASE applications' = applications /\ job[c].snap \in ActiveSnapshots
  BY <1>1 DEF ActiveSnapshots, ActiveRows
<1>2. CASE /\ DOMAIN applications' = DOMAIN applications \cup {Len(applications) + 1}
           /\ applications'[Len(applications) + 1] = [snap |-> job[c].snap, reverted |-> FALSE]
           /\ \A a \in DOMAIN applications : applications'[a] = applications[a]
  <2>1. /\ applications'[Len(applications) + 1].snap = job[c].snap
        /\ ~applications'[Len(applications) + 1].reverted
    BY <1>2
  <2> QED
    BY <1>2, <2>1 DEF ActiveSnapshots, ActiveRows
<1> QED
  BY <1>1, <1>2, RegisterShape

(* What a task is at, and with which snapshot, changes by its own step. *)
LEMMA OwnersStep == Typed /\ OwnersInv /\ [Next]_vars => OwnersInv'
<1> SUFFICES ASSUME Typed, OwnersInv, [Next]_vars PROVE OwnersInv'
  OBVIOUS
<1> USE DEF OwnersInv, HasRow, Applying, Restoring
<1>t. /\ pc \in [Tasks -> Points]
      /\ job \in [Tasks -> Job]
      /\ \A a \in DOMAIN applications : applications[a].snap \in DOMAIN snapshots
      /\ \A c \in Tasks : Applying(c) \/ Restoring(c) => job[c].snap \in DOMAIN snapshots
  BY DEF Typed, TypeOK, RefsOK
<1>1. ASSUME NEW c \in Tasks,
             \/ \E t \in Targets : ApplyBegin(c, t)
             \/ RevertBegin(c) \/ RestoreAllBegin(c) \/ ApplyRefused(c)
             \/ RestoreAborted(c) \/ Dropped(c)
      PROVE  OwnersInv'
  <2>1. /\ TablesKept
        /\ pc'[c] \in {"idle", "capture", "restore"}
        /\ \A d \in Tasks \ {c} : pc'[d] = pc[d] /\ job'[d] = job[d]
    BY <1>t, <1>1 DEF TablesKept, ApplyBegin, RevertBegin, RestoreAllBegin, ApplyRefused,
                      RestoreAborted, Dropped
  <2> QED
    BY <2>1 DEF TablesKept
<1>2. ASSUME NEW c \in Tasks, ApplyCapture(c) PROVE OwnersInv'
  <2>1. /\ pc'[c] = "write" /\ job'[c].snap = Len(snapshots) + 1
        /\ \A d \in Tasks \ {c} : pc'[d] = pc[d] /\ job'[d] = job[d]
        /\ applications' = applications
    BY <1>t, <1>2 DEF ApplyCapture, Job
  <2>2. /\ Len(snapshots) + 1 \notin DOMAIN snapshots
        /\ snapshots'[Len(snapshots) + 1] = [target |-> job[c].target, before |-> job[c].before,
                                             restorable |-> TRUE]
        /\ \A s \in DOMAIN snapshots : snapshots'[s] = snapshots[s]
    BY <1>2, CaptureShape
  <2>3. snapshots'[Len(snapshots) + 1].restorable
    BY <2>2
  <2> QED
    BY <1>t, <2>1, <2>2, <2>3
<1>3. ASSUME NEW c \in Tasks, ApplyWrite(c) PROVE OwnersInv'
  <2>1. /\ TablesKept
        /\ pc[c] = "write" /\ pc'[c] = "register" /\ job' = job
        /\ \A d \in Tasks \ {c} : pc'[d] = pc[d]
    BY <1>t, <1>3 DEF TablesKept, ApplyWrite
  <2> QED
    BY <2>1 DEF TablesKept
<1>4. ASSUME NEW c \in Tasks, ApplyRegister(c) PROVE OwnersInv'
  <2>1. /\ pc[c] = "register" /\ pc'[c] = "idle" /\ snapshots' = snapshots
        /\ \A d \in Tasks \ {c} : pc'[d] = pc[d] /\ job'[d] = job[d]
    BY <1>t, <1>4 DEF ApplyRegister
  <2>2. \A s : HasRow(s) => HasRow(s)'
    BY <1>4, RegisterRows
  <2>3. \A s : HasRow(s)' => HasRow(s) \/ s = job[c].snap
    BY <1>4, RegisterRows
  <2> HIDE DEF HasRow
  <2> QED
    BY <2>1, <2>2, <2>3
<1>5. ASSUME NEW c \in Tasks, RestoreWrite(c) \/ RestoreRefused(c) PROVE OwnersInv'
  <2>3. PICK a \in DOMAIN applications, ok \in BOOLEAN :
          job' = [job EXCEPT ![c].snap = applications[a].snap, ![c].todo = @ \ {a}, ![c].ok = ok]
    BY <1>5 DEF RestoreWrite, RestoreRefused
  <2>1. job'[c].snap = applications[a].snap
    BY <1>t, <2>3 DEF Job
  <2>2. /\ TablesKept /\ pc'[c] = "mark"
        /\ \A d \in Tasks \ {c} : pc'[d] = pc[d] /\ job'[d] = job[d]
    BY <1>t, <1>5 DEF TablesKept, RestoreWrite, RestoreRefused
  <2> QED
    BY <2>1, <2>2 DEF TablesKept
<1>6. ASSUME NEW c \in Tasks, RestoreMark(c) PROVE OwnersInv'
  <2>1. /\ pc[c] = "mark" /\ applications' = applications
        /\ \/ pc'[c] = "remove" /\ job'[c] = job[c]
           \/ pc'[c] \in {"idle", "restore"}
        /\ \A d \in Tasks \ {c} : pc'[d] = pc[d] /\ job'[d] = job[d]
    <3>1. CASE job[c].ok
      BY <1>t, <1>6, <3>1 DEF RestoreMark
    <3>2. CASE ~job[c].ok
      BY <1>t, <1>6, <3>2 DEF RestoreMark, AfterRow
    <3> QED
      BY <3>1, <3>2
  <2>2. /\ job[c].snap \in DOMAIN snapshots
        /\ \A s \in DOMAIN snapshots :
             snapshots'[s].restorable = (snapshots[s].restorable /\ s # job[c].snap)
    BY <1>6, MarkShape
  <2>3. \A s : HasRow(s)' <=> HasRow(s)
    BY <2>1
  <2>4. HasRow(job[c].snap)
    BY <2>1
  <2> HIDE DEF HasRow
  <2>5. \A d \in Tasks : Applying(d)' =>
          d # c /\ snapshots'[job'[d].snap].restorable /\ ~HasRow(job'[d].snap)
    BY <1>t, <2>1, <2>2, <2>4
  <2>6. \A d \in Tasks : pc'[d] = "remove" => ~snapshots'[job'[d].snap].restorable
    BY <1>t, <2>1, <2>2
  <2> QED
    BY <2>1, <2>3, <2>4, <2>5, <2>6
<1>7. ASSUME NEW c \in Tasks, RestoreRemove(c) PROVE OwnersInv'
  <2>1. /\ snapshots' = snapshots /\ pc'[c] \in {"idle", "restore"}
        /\ \A d \in Tasks \ {c} : pc'[d] = pc[d] /\ job'[d] = job[d]
    BY <1>t, <1>7 DEF RestoreRemove, AfterRow
  <2>2. \A s : HasRow(s)' <=> HasRow(s)
    BY <1>7, RemoveShape
  <2> HIDE DEF HasRow
  <2> QED
    BY <2>1, <2>2
<1>8. CASE Restart
  BY <1>8 DEF Restart
<1>9. CASE UNCHANGED vars \/ \E t \in Targets : ProcessExit(t)
  BY <1>9 DEF vars, ProcessExit
<1> QED
  BY <1>1, <1>2, <1>3, <1>4, <1>5, <1>6, <1>7, <1>8, <1>9 DEF Next, Apply, Restore

(* A row is reverted by a step from "remove" only, and no mark is undone. *)
LEMMA RemovedStep == Typed /\ OwnersInv /\ RemovedAfterMark /\ [Next]_vars => RemovedAfterMark'
<1> SUFFICES ASSUME Typed, OwnersInv, RemovedAfterMark, [Next]_vars PROVE RemovedAfterMark'
  OBVIOUS
<1>t. \A a \in DOMAIN applications : applications[a].snap \in DOMAIN snapshots
  BY DEF Typed, RefsOK
<1> USE DEF RemovedAfterMark
<1>1. ASSUME NEW c \in Tasks, ApplyCapture(c) PROVE RemovedAfterMark'
  <2>1. applications' = applications /\ \A s \in DOMAIN snapshots : snapshots'[s] = snapshots[s]
    BY <1>1, CaptureShape DEF ApplyCapture
  <2> QED
    BY <1>t, <2>1
<1>2. ASSUME NEW c \in Tasks, ApplyRegister(c) PROVE RemovedAfterMark'
  <2>1. snapshots' = snapshots
    BY <1>2 DEF ApplyRegister
  <2> QED
    BY <1>t, <1>2, <2>1, RegisterRows
<1>3. ASSUME NEW c \in Tasks, RestoreMark(c) PROVE RemovedAfterMark'
  <2>1. applications' = applications
    BY <1>3 DEF RestoreMark
  <2> QED
    BY <1>t, <1>3, <2>1, MarkShape
<1>4. ASSUME NEW c \in Tasks, RestoreRemove(c) PROVE RemovedAfterMark'
  <2>1. snapshots' = snapshots /\ ~snapshots[job[c].snap].restorable
    BY <1>4 DEF RestoreRemove, OwnersInv
  <2> QED
    BY <1>4, <2>1, RemoveShape
<1>5. CASE ~ \E c \in Tasks : \/ ApplyCapture(c) \/ ApplyRegister(c)
                              \/ RestoreMark(c) \/ RestoreRemove(c)
  <2>1. TablesKept
    BY <1>5 DEF TablesKept, Next, Apply, Restore, ApplyBegin, ApplyWrite, ApplyRefused,
                RevertBegin, RestoreAllBegin, RestoreWrite, RestoreRefused, RestoreAborted,
                ProcessExit, Dropped, Restart, vars
  <2> QED
    BY <2>1 DEF TablesKept
<1> QED
  BY <1>1, <1>2, <1>3, <1>4, <1>5

LEMMA OwnersInit == Init => OwnersInv /\ RemovedAfterMark
  BY DEF Init, OwnersInv, RemovedAfterMark, Applying, Restoring

LEMMA OwnersInvariant == Spec => [](Typed /\ OwnersInv /\ RemovedAfterMark)
  BY TypedInit, TypedStep, OwnersInit, OwnersStep, RemovedStep, PTL DEF Spec

(* An application leaves the active list only after its snapshot has been   *)
(* marked, for any tasks, faults and modes of launch.                       *)
THEOREM RemovedAfterMarkAlways == Spec => []RemovedAfterMark
  BY OwnersInvariant, PTL
-------------------------------------------------------------------------------
(* Only RestoreWrite makes a snapshot released. *)
LEMMA ReleasedByWrite ==
  ASSUME Typed, [Next]_vars, NEW s, Released(s)', ~Released(s)
  PROVE  \E c \in Tasks : RestoreWrite(c) /\ job'[c].snap = s
<1>t. pc \in [Tasks -> Points] /\ job \in [Tasks -> Job]
  BY DEF Typed, TypeOK
<1>p. PICK c \in Tasks : /\ job'[c].snap = s
                         /\ pc'[c] = "remove" \/ (pc'[c] = "mark" /\ job'[c].ok)
  BY DEF Released
<1>n. ~(job[c].snap = s /\ (pc[c] = "remove" \/ (pc[c] = "mark" /\ job[c].ok)))
  BY DEF Released
<1>1. ASSUME NEW d \in Tasks,
             \/ \E t \in Targets : ApplyBegin(d, t)
             \/ RevertBegin(d) \/ RestoreAllBegin(d) \/ ApplyCapture(d) \/ ApplyWrite(d)
             \/ ApplyRefused(d) \/ ApplyRegister(d) \/ RestoreAborted(d) \/ Dropped(d)
      PROVE  FALSE
  <2>1. /\ pc'[d] \notin {"mark", "remove"}
        /\ \A e \in Tasks \ {d} : pc'[e] = pc[e] /\ job'[e] = job[e]
    BY <1>t, <1>1 DEF ApplyBegin, RevertBegin, RestoreAllBegin, ApplyCapture, ApplyWrite,
                      ApplyRefused, ApplyRegister, RestoreAborted, Dropped
  <2> QED
    BY <1>p, <1>n, <2>1
<1>2. ASSUME NEW d \in Tasks, RestoreRefused(d) PROVE FALSE
  <2>1. PICK a \in DOMAIN applications :
          job' = [job EXCEPT ![d].snap = applications[a].snap, ![d].todo = @ \ {a}, ![d].ok = FALSE]
    BY <1>2 DEF RestoreRefused
  <2>2. ~job'[d].ok /\ pc'[d] = "mark"
    BY <1>t, <1>2, <2>1 DEF RestoreRefused, Job
  <2>3. \A e \in Tasks \ {d} : pc'[e] = pc[e] /\ job'[e] = job[e]
    BY <1>t, <1>2 DEF RestoreRefused
  <2> QED
    BY <1>p, <1>n, <2>2, <2>3
<1>3. ASSUME NEW d \in Tasks, RestoreMark(d) PROVE FALSE
  <2>1. /\ pc[d] = "mark"
        /\ \/ job[d].ok /\ pc'[d] = "remove" /\ job'[d] = job[d]
           \/ pc'[d] \in {"idle", "restore"}
        /\ \A e \in Tasks \ {d} : pc'[e] = pc[e] /\ job'[e] = job[e]
    <3>1. CASE job[d].ok
      BY <1>t, <1>3, <3>1 DEF RestoreMark
    <3>2. CASE ~job[d].ok
      BY <1>t, <1>3, <3>2 DEF RestoreMark, AfterRow
    <3> QED
      BY <3>1, <3>2
  <2> QED
    BY <1>p, <1>n, <2>1
<1>4. ASSUME NEW d \in Tasks, RestoreRemove(d) PROVE FALSE
  <2>1. /\ pc'[d] \in {"idle", "restore"}
        /\ \A e \in Tasks \ {d} : pc'[e] = pc[e] /\ job'[e] = job[e]
    BY <1>t, <1>4 DEF RestoreRemove, AfterRow
  <2> QED
    BY <1>p, <1>n, <2>1
<1>5. ASSUME NEW d \in Tasks, RestoreWrite(d)
      PROVE  \E e \in Tasks : RestoreWrite(e) /\ job'[e].snap = s
  <2>1. \A e \in Tasks \ {d} : pc'[e] = pc[e] /\ job'[e] = job[e]
    BY <1>t, <1>5 DEF RestoreWrite
  <2> QED
    BY <1>p, <1>n, <1>5, <2>1
<1>6. CASE Restart
  BY <1>p, <1>6 DEF Restart
<1>7. CASE UNCHANGED vars \/ \E t \in Targets : ProcessExit(t)
  BY <1>p, <1>n, <1>7 DEF vars, ProcessExit
<1> QED
  BY <1>1, <1>2, <1>3, <1>4, <1>5, <1>6, <1>7 DEF Next, Apply, Restore

(* A snapshot that no call has released stays listed or unregistered. *)
LEMMA UsableKept ==
  ASSUME Typed, OwnersInv, [Next]_vars, NEW s \in DOMAIN snapshots, Usable(s), ~Released(s)'
  PROVE  Usable(s)'
<1> DEFINE Found == s \in ActiveSnapshots \/ (snapshots[s].restorable /\ ~HasRow(s))
<1>f. Found /\ ~Released(s)
  BY DEF Usable
<1> SUFFICES Found'
  BY DEF Usable
<1> USE DEF HasRow, ActiveSnapshots, ActiveRows
<1>1. ASSUME NEW c \in Tasks, ApplyCapture(c) PROVE Found'
  <2>1. applications' = applications /\ snapshots'[s] = snapshots[s]
    BY <1>1, CaptureShape DEF ApplyCapture
  <2> QED
    BY <1>f, <2>1
<1>2. ASSUME NEW c \in Tasks, ApplyRegister(c) PROVE Found'
  <2>1. snapshots' = snapshots
    BY <1>2 DEF ApplyRegister
  <2>2. CASE s = job[c].snap
    BY <1>2, <2>2, RegisterRows
  <2>3. CASE s # job[c].snap
    BY <1>2, <1>f, <2>1, <2>3, RegisterRows
  <2> QED
    BY <2>2, <2>3
<1>3. ASSUME NEW c \in Tasks, RestoreMark(c) PROVE Found'
  <2>1. applications' = applications /\ HasRow(job[c].snap)
    BY <1>3 DEF RestoreMark, OwnersInv, Restoring
  <2>2. snapshots'[s].restorable = (snapshots[s].restorable /\ s # job[c].snap)
    BY <1>3, MarkShape
  <2>3. CASE s \in ActiveSnapshots
    BY <2>1, <2>3
  <2>4. CASE snapshots[s].restorable /\ ~HasRow(s)
    <3>1. s # job[c].snap
      BY <2>1, <2>4
    <3>2. snapshots'[s].restorable
      BY <2>2, <2>4, <3>1
    <3> QED
      BY <2>1, <2>4, <3>2
  <2> QED
    BY <1>f, <2>3, <2>4
<1>4. ASSUME NEW c \in Tasks, RestoreRemove(c) PROVE Found'
  <2>1. s # job[c].snap
    BY <1>4, <1>f DEF RestoreRemove, Released
  <2>2. snapshots' = snapshots
    BY <1>4 DEF RestoreRemove
  <2>3. /\ DOMAIN applications' = DOMAIN applications
        /\ \A a \in DOMAIN applications :
             /\ applications'[a].snap = applications[a].snap
             /\ applications'[a].reverted =
                  (applications[a].reverted \/ applications[a].snap = job[c].snap)
    BY <1>4, RemoveShape
  <2>4. \A a \in DOMAIN applications :
          applications[a].snap = s /\ ~applications[a].reverted => ~applications'[a].reverted
    BY <2>1, <2>3
  <2> QED
    BY <1>f, <2>2, <2>3, <2>4
<1>5. CASE ~ \E c \in Tasks : \/ ApplyCapture(c) \/ ApplyRegister(c)
                              \/ RestoreMark(c) \/ RestoreRemove(c)
  <2>1. TablesKept
    BY <1>5 DEF TablesKept, Next, Apply, Restore, ApplyBegin, ApplyWrite, ApplyRefused,
                RevertBegin, RestoreAllBegin, RestoreWrite, RestoreRefused, RestoreAborted,
                ProcessExit, Dropped, Restart, vars
  <2> QED
    BY <1>f, <2>1 DEF TablesKept
<1> QED
  BY <1>1, <1>2, <1>3, <1>4, <1>5

(* A live restore from an original value leaves its setting unaltered. *)
LEMMA RestoreUnalters ==
  ASSUME Typed, ~dryRun, NEW c \in Tasks, RestoreWrite(c)
  PROVE  /\ job'[c].snap \in DOMAIN snapshots
         /\ \A t \in Targets :
              IF snapshots[job'[c].snap].target = t
              THEN snapshots[job'[c].snap].before = Original => os'[t] = Original
              ELSE os'[t] = os[t]
<1>t. /\ job \in [Tasks -> Job] /\ os \in [Targets -> OsValues]
      /\ \A a \in DOMAIN applications : applications[a].snap \in DOMAIN snapshots
  BY DEF Typed, TypeOK, RefsOK
<1>1. PICK a \in DOMAIN applications :
        /\ os' = [os EXCEPT ![snapshots[applications[a].snap].target] =
                   RestoredValue(snapshots[applications[a].snap].before)]
        /\ job' = [job EXCEPT ![c].snap = applications[a].snap,
                              ![c].todo = @ \ {a}, ![c].ok = TRUE]
  BY DEF RestoreWrite
<1>2. job'[c].snap = applications[a].snap
  BY <1>t, <1>1 DEF Job
<1>3. RestoredValue(Original) = Original
  BY DEF RestoredValue, Original, Unread
<1> QED
  BY <1>t, <1>1, <1>2, <1>3

(* What an apply writes is led back to by its own snapshot. *)
LEMMA ApplyIsUsable ==
  ASSUME Typed, OwnersInv, [Next]_vars, NEW c \in Tasks, ApplyWrite(c)
  PROVE  job[c].snap \in SnapsOf(job[c].target) /\ Usable(job[c].snap)
<1>1. pc[c] = "write"
  BY DEF ApplyWrite
<1>2. /\ job[c].snap \in SnapsOf(job[c].target)
      /\ snapshots[job[c].snap].restorable /\ ~HasRow(job[c].snap)
  BY <1>1 DEF OwnersInv, Applying, Typed, RefsOK, SnapsOf
<1>3. ~Released(job[c].snap)
  BY <1>2 DEF Released, OwnersInv, Restoring
<1> QED
  BY <1>2, <1>3 DEF Usable

(* While every launch is live, no step turns the writes off. *)
LEMMA LiveStays ==
  ASSUME LaunchModes = {FALSE}, ~dryRun, [Next]_vars
  PROVE  ~dryRun'
<1>1. CASE Restart
  BY <1>1 DEF Restart
<1>2. CASE ~Restart
  <2>1. dryRun' = dryRun
    BY <1>2 DEF Next, Apply, Restore, ApplyBegin, ApplyCapture, ApplyWrite, ApplyRefused,
                ApplyRegister, RevertBegin, RestoreAllBegin, RestoreWrite, RestoreRefused,
                RestoreAborted, RestoreMark, RestoreRemove, ProcessExit, Dropped, vars
  <2> QED
    BY <2>1
<1> QED
  BY <1>1, <1>2

(* A setting that has only been captured as it was at first, and differs    *)
(* from it after a step, is not the one that the step restored.             *)
LEMMA NotRestored ==
  ASSUME Typed, [Next]_vars, ~dryRun, NEW t \in Targets, Altered(t)', ~Recaptured(t)
  PROVE  ~ \E c \in Tasks : RestoreWrite(c) /\ job'[c].snap \in SnapsOf(t)
<1>1. \A s \in SnapsOf(t) : s \in DOMAIN snapshots /\ snapshots[s].before = Original
  BY DEF Recaptured, SnapsOf
<1> QED
  BY <1>1, RestoreUnalters DEF Altered, SnapsOf

(* Nothing but the write of an apply makes such a setting differ. *)
LEMMA AlteredByWrite ==
  ASSUME Typed, [Next]_vars, ~dryRun, NEW t \in Targets, Altered(t)', ~Altered(t),
         ~ \E c \in Tasks : RestoreWrite(c) /\ job'[c].snap \in SnapsOf(t)
  PROVE  \E c \in Tasks : ApplyWrite(c) /\ t = job[c].target
<1>1. os'[t] \notin {os[t], Original, Gone}
  BY DEF Altered
<1>2. ASSUME NEW c \in Tasks, RestoreWrite(c) PROVE os'[t] = os[t]
  BY <1>2, RestoreUnalters DEF SnapsOf
<1>3. ASSUME NEW u \in Targets, ProcessExit(u) PROVE os'[t] \in {os[t], Gone}
  BY <1>3 DEF ProcessExit, Typed, TypeOK
<1>4. ASSUME NEW c \in Tasks, ApplyWrite(c) PROVE t = job[c].target \/ os'[t] = os[t]
  BY <1>4 DEF ApplyWrite, Typed, TypeOK
<1> QED
  BY <1>1, <1>2, <1>3, <1>4
     DEF Next, Apply, Restore, ApplyBegin, ApplyCapture, ApplyRefused, ApplyRegister,
         RevertBegin, RestoreAllBegin, RestoreRefused, RestoreAborted, RestoreMark,
         RestoreRemove, Dropped, Restart, vars

LEMMA UsableStep ==
  ASSUME LaunchModes = {FALSE}
  PROVE  Typed /\ OwnersInv /\ UsableInv /\ [Next]_vars => UsableInv'
<1> SUFFICES ASSUME Typed, OwnersInv, UsableInv, [Next]_vars PROVE UsableInv'
  OBVIOUS
<1>1. ~dryRun /\ ~dryRun'
  BY LiveStays DEF UsableInv
<1>2. ASSUME NEW t \in Targets, Altered(t)', ~Recaptured(t)'
      PROVE  \E s \in SnapsOf(t)' : Usable(s)'
  <2>1. ~Recaptured(t) /\ SnapsOf(t) \subseteq SnapsOf(t)'
    BY <1>2, RowsKept DEF Recaptured, SnapsOf
  <2>2. \A s \in SnapsOf(t) : s \in DOMAIN snapshots
    BY DEF SnapsOf
  <2>3. ~ \E c \in Tasks : RestoreWrite(c) /\ job'[c].snap \in SnapsOf(t)
    BY <1>1, <1>2, <2>1, NotRestored
  <2>4. \A s \in SnapsOf(t) : Usable(s) => Usable(s)'
    <3> SUFFICES ASSUME NEW s \in SnapsOf(t), Usable(s) PROVE Usable(s)'
      OBVIOUS
    <3>1. ~Released(s)'
      BY <2>3, ReleasedByWrite DEF Usable
    <3> QED
      BY <2>2, <3>1, UsableKept
  <2>5. CASE Altered(t)
    BY <1>2, <2>1, <2>4, <2>5 DEF UsableInv
  <2>6. CASE ~Altered(t)
    <3>1. PICK c \in Tasks : ApplyWrite(c) /\ t = job[c].target
      BY <1>1, <1>2, <2>3, <2>6, AlteredByWrite
    <3>2. \E s \in SnapsOf(t) : Usable(s)
      BY <3>1, ApplyIsUsable
    <3> QED
      BY <2>1, <2>4, <3>2
  <2> QED
    BY <2>5, <2>6
<1> QED
  BY <1>1, <1>2 DEF UsableInv

(* While every launch is live, an altered setting whose snapshots all hold  *)
(* the original value has one that is still counted restorable or whose row *)
(* is listed, whatever restores overlap, writes are refused or calls are    *)
(* cut; one that is on no list is found by no restore.                      *)
THEOREM AlteredIsRecoverableLive ==
  ASSUME LaunchModes = {FALSE}
  PROVE  Spec => []AlteredIsRecoverable
<1>1. Init => UsableInv
  BY DEF Init, UsableInv, Altered
<1>2. Typed /\ OwnersInv /\ UsableInv /\ [Next]_vars => UsableInv'
  BY UsableStep
<1>3. UsableInv => AlteredIsRecoverable
  BY DEF UsableInv, AlteredIsRecoverable, Usable
<1> QED
  BY <1>1, <1>2, <1>3, OwnersInvariant, PTL DEF Spec
-------------------------------------------------------------------------------
(* An application of s is listed, or its apply has written and is about to  *)
(* list it; and no restore has written s back already.                      *)
Listed(s) ==
  ~Released(s) /\ (s \in ActiveSnapshots \/ \E c \in Tasks : pc[c] = "register" /\ job[c].snap = s)

ListedInv ==
  /\ ~dryRun
  /\ \A t \in Targets : Altered(t) /\ ~Recaptured(t) => \E s \in SnapsOf(t) : Listed(s)

(* Once every tweak has been taken off the list and no call is running, the *)
(* settings whose snapshots all captured the original value are what they   *)
(* were.                                                                    *)
OnceCapturedIsRestored ==
  (\A c \in Tasks : Idle(c)) /\ ActiveRows = {} =>
    \A t \in Targets : Altered(t) => Recaptured(t)

LEMMA ListedKept ==
  ASSUME Typed, OwnersInv, [Next]_vars, Faults \cap {"crash", "drop"} = {},
         NEW s \in DOMAIN snapshots, Listed(s), ~Released(s)'
  PROVE  Listed(s)'
<1> DEFINE Found == s \in ActiveSnapshots \/ \E c \in Tasks : pc[c] = "register" /\ job[c].snap = s
<1>f. Found /\ ~Released(s)
  BY DEF Listed
<1>t. pc \in [Tasks -> Points] /\ job \in [Tasks -> Job]
  BY DEF Typed, TypeOK
<1> SUFFICES Found'
  BY DEF Listed
<1>1. ASSUME NEW c \in Tasks, ApplyRegister(c) PROVE Found'
  <2>1. CASE s = job[c].snap
    BY <1>1, <2>1, RegisterRows
  <2>2. CASE s # job[c].snap
    <3>1. s \in ActiveSnapshots => s \in ActiveSnapshots'
      BY <1>1, RegisterRows DEF ActiveSnapshots, ActiveRows
    <3>2. \A d \in Tasks : pc[d] = "register" /\ job[d].snap = s => pc'[d] = "register" /\ job'[d].snap = s
      BY <1>1, <1>t, <2>2 DEF ApplyRegister
    <3> QED
      BY <1>f, <3>1, <3>2
  <2> QED
    BY <2>1, <2>2
<1>2. ASSUME NEW c \in Tasks, RestoreRemove(c) PROVE Found'
  <2>1. s # job[c].snap
    BY <1>2, <1>f DEF RestoreRemove, Released
  <2>2. s \in ActiveSnapshots => s \in ActiveSnapshots'
    <3>1. /\ DOMAIN applications' = DOMAIN applications
          /\ \A a \in DOMAIN applications :
               /\ applications'[a].snap = applications[a].snap
               /\ applications'[a].reverted =
                    (applications[a].reverted \/ applications[a].snap = job[c].snap)
      BY <1>2, RemoveShape
    <3>2. \A a \in DOMAIN applications :
            applications[a].snap = s /\ ~applications[a].reverted => ~applications'[a].reverted
      BY <2>1, <3>1
    <3> QED
      BY <3>1, <3>2 DEF ActiveSnapshots, ActiveRows
  <2>3. pc[c] = "remove" /\ \A d \in Tasks \ {c} : pc'[d] = pc[d] /\ job'[d] = job[d]
    BY <1>2, <1>t DEF RestoreRemove, AfterRow
  <2> QED
    BY <1>f, <2>2, <2>3
<1>3. ASSUME NEW c \in Tasks,
             \/ \E t \in Targets : ApplyBegin(c, t)
             \/ RevertBegin(c) \/ RestoreAllBegin(c) \/ ApplyCapture(c) \/ ApplyWrite(c)
             \/ ApplyRefused(c) \/ RestoreWrite(c) \/ RestoreRefused(c) \/ RestoreAborted(c)
             \/ RestoreMark(c)
      PROVE  Found'
  <2>1. applications' = applications /\ pc[c] # "register"
    BY <1>3 DEF ApplyBegin, RevertBegin, RestoreAllBegin, ApplyCapture, ApplyWrite, ApplyRefused,
                RestoreWrite, RestoreRefused, RestoreAborted, RestoreMark, Idle
  <2>2. \A d \in Tasks \ {c} : pc'[d] = pc[d] /\ job'[d] = job[d]
    BY <1>3, <1>t DEF ApplyBegin, RevertBegin, RestoreAllBegin, ApplyCapture, ApplyWrite,
                ApplyRefused, RestoreWrite, RestoreRefused, RestoreAborted, RestoreMark, AfterRow
  <2> QED
    BY <1>f, <2>1, <2>2 DEF ActiveSnapshots, ActiveRows
<1>4. CASE UNCHANGED vars \/ \E t \in Targets : ProcessExit(t)
  BY <1>f, <1>4 DEF vars, ProcessExit, ActiveSnapshots, ActiveRows
<1>5. CASE Restart \/ \E c \in Tasks : Dropped(c)
  BY <1>5 DEF Restart, Dropped
<1> QED
  BY <1>1, <1>2, <1>3, <1>4, <1>5 DEF Next, Apply, Restore

LEMMA ListedStep ==
  ASSUME LaunchModes = {FALSE}, Faults \cap {"crash", "drop"} = {}
  PROVE  Typed /\ OwnersInv /\ ListedInv /\ [Next]_vars => ListedInv'
<1> SUFFICES ASSUME Typed, OwnersInv, ListedInv, [Next]_vars PROVE ListedInv'
  OBVIOUS
<1>1. ~dryRun /\ ~dryRun'
  BY LiveStays DEF ListedInv
<1>2. ASSUME NEW t \in Targets, Altered(t)', ~Recaptured(t)'
      PROVE  \E s \in SnapsOf(t)' : Listed(s)'
  <2>1. ~Recaptured(t) /\ SnapsOf(t) \subseteq SnapsOf(t)'
    BY <1>2, RowsKept DEF Recaptured, SnapsOf
  <2>2. \A s \in SnapsOf(t) : s \in DOMAIN snapshots
    BY DEF SnapsOf
  <2>3. ~ \E c \in Tasks : RestoreWrite(c) /\ job'[c].snap \in SnapsOf(t)
    BY <1>1, <1>2, <2>1, NotRestored
  <2>4. CASE Altered(t)
    <3>1. PICK s \in SnapsOf(t) : Listed(s)
      BY <1>2, <2>1, <2>4 DEF ListedInv
    <3>2. ~Released(s)'
      BY <2>3, <3>1, ReleasedByWrite DEF Listed
    <3> QED
      BY <2>1, <2>2, <3>1, <3>2, ListedKept
  <2>5. CASE ~Altered(t)
    <3>1. PICK c \in Tasks : ApplyWrite(c) /\ t = job[c].target
      BY <1>1, <1>2, <2>3, <2>5, AlteredByWrite
    <3>2. PICK s \in SnapsOf(t) : s = job[c].snap /\ Usable(s)
      BY <3>1, ApplyIsUsable
    <3>3. ~Released(s)'
      BY <2>3, <3>2, ReleasedByWrite DEF Usable
    <3>4. pc'[c] = "register" /\ job' = job
      BY <3>1 DEF ApplyWrite, Typed, TypeOK
    <3> QED
      BY <2>1, <3>2, <3>3, <3>4 DEF Listed
  <2> QED
    BY <2>4, <2>5
<1> QED
  BY <1>1, <1>2 DEF ListedInv

THEOREM OnceCapturedIsRestoredLive ==
  ASSUME LaunchModes = {FALSE}, Faults \cap {"crash", "drop"} = {}
  PROVE  Spec => []OnceCapturedIsRestored
<1>1. Init => ListedInv
  BY DEF Init, ListedInv, Altered
<1>2. Typed /\ OwnersInv /\ ListedInv /\ [Next]_vars => ListedInv'
  BY ListedStep
<1>3. ListedInv => OnceCapturedIsRestored
  BY DEF ListedInv, OnceCapturedIsRestored, Listed, ActiveSnapshots, Idle
<1> QED
  BY <1>1, <1>2, <1>3, OwnersInvariant, PTL DEF Spec
===============================================================================
