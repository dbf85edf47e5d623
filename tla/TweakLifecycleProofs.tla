-------------------------- MODULE TweakLifecycleProofs --------------------------
(***************************************************************************)
(* What holds of TweakLifecycle for every set of tasks and targets, every  *)
(* combination of faults and any number of snapshots.                      *)
(***************************************************************************)
EXTENDS TweakLifecycle, SequenceTheorems, TLAPS

(* A row update of a table: replacing elements keeps the length and the type. *)
LEMMA MapIsSeq ==
  ASSUME NEW S, NEW seq \in Seq(S), NEW f,
         DOMAIN f = DOMAIN seq, f = [i \in DOMAIN seq |-> f[i]],
         \A i \in DOMAIN seq : f[i] \in S
  PROVE  f \in Seq(S) /\ Len(f) = Len(seq)
<1>1. Len(seq) \in Nat /\ DOMAIN seq = 1..Len(seq)
  BY LenProperties
<1>2. f \in [1..Len(seq) -> S]
  BY <1>1
<1>3. f \in Seq(S)
  BY <1>1, <1>2, SeqDef
<1>4. Len(f) \in Nat /\ DOMAIN f = 1..Len(f)
  BY <1>3, LenProperties
<1> QED
  BY <1>1, <1>3, <1>4

(* Inserting a row: the old rows stay where they are. *)
LEMMA AppendShape ==
  ASSUME NEW S, NEW seq \in Seq(S), NEW e \in S
  PROVE  /\ Append(seq, e) \in Seq(S)
         /\ Len(Append(seq, e)) = Len(seq) + 1
         /\ DOMAIN Append(seq, e) = DOMAIN seq \cup {Len(seq) + 1}
         /\ Len(seq) + 1 \notin DOMAIN seq
         /\ Append(seq, e)[Len(seq) + 1] = e
         /\ \A i \in DOMAIN seq : Append(seq, e)[i] = seq[i]
<1>1. Len(seq) \in Nat /\ DOMAIN seq = 1..Len(seq)
  BY LenProperties
<1>2. Append(seq, e) \in Seq(S) /\ Len(Append(seq, e)) = Len(seq) + 1
  BY <1>1
<1>3. DOMAIN Append(seq, e) = 1..(Len(seq) + 1)
  BY <1>2, LenProperties
<1>4. \A i \in 1..Len(seq) : Append(seq, e)[i] = seq[i]
  BY <1>1
<1>5. Append(seq, e)[Len(seq) + 1] = e
  BY <1>1
<1> QED
  BY <1>1, <1>2, <1>3, <1>4, <1>5
-------------------------------------------------------------------------------
(* The locals of a task point at rows that exist. *)
RefsOK ==
  /\ \A a \in DOMAIN applications : applications[a].snap \in DOMAIN snapshots
  /\ \A c \in Tasks : pc[c] \in {"write", "register", "mark", "remove"} =>
       job[c].snap \in DOMAIN snapshots
  /\ \A c \in Tasks : pc[c] \in {"write", "register"} =>
       snapshots[job[c].snap].target = job[c].target

Typed == TypeOK /\ RefsOK

(* Elements of the two tables are rows. *)
LEMMA SnapshotTyped ==
  ASSUME Typed
  PROVE  /\ \A s \in DOMAIN snapshots : snapshots[s] \in Snapshot /\ s \in Nat
         /\ \A a \in DOMAIN applications : applications[a] \in Application /\ a \in Nat
<1>1. snapshots \in Seq(Snapshot) /\ applications \in Seq(Application)
  BY DEF Typed, TypeOK
<1> QED
  BY <1>1, LenProperties, ElementOfSeq

LEMMA NoJobType == NoJob \in Job
  BY TargetsAssumption DEF NoJob, Job, Readings, Original

LEMMA TypedInit == Init => Typed
  BY NoJobType, LaunchAssumption
     DEF Init, Typed, TypeOK, RefsOK, OsValues, Points, Snapshot, Application

(* Capturing a snapshot appends a well-typed row. *)
LEMMA CaptureShape ==
  ASSUME Typed, NEW c \in Tasks, ApplyCapture(c)
  PROVE  LET row == [target |-> job[c].target, before |-> job[c].before, restorable |-> TRUE]
         IN /\ row \in Snapshot
            /\ snapshots' \in Seq(Snapshot)
            /\ DOMAIN snapshots' = DOMAIN snapshots \cup {Len(snapshots) + 1}
            /\ Len(snapshots) + 1 \notin DOMAIN snapshots
            /\ Len(snapshots) + 1 \in Nat
            /\ snapshots'[Len(snapshots) + 1] = row
            /\ \A s \in DOMAIN snapshots : snapshots'[s] = snapshots[s]
<1> DEFINE row == [target |-> job[c].target, before |-> job[c].before, restorable |-> TRUE]
<1>1. snapshots \in Seq(Snapshot) /\ row \in Snapshot
  BY DEF Typed, TypeOK, Job, Snapshot
<1>2. snapshots' = Append(snapshots, row)
  BY DEF ApplyCapture
<1>3. Len(snapshots) \in Nat
  BY <1>1, LenProperties
<1> HIDE DEF row
<1>4. QED
  BY <1>1, <1>2, <1>3, AppendShape DEF row

(* Marking a snapshot changes nothing but its restorable flag. *)
LEMMA MarkShape ==
  ASSUME Typed, NEW c \in Tasks, RestoreMark(c)
  PROVE  /\ job[c].snap \in DOMAIN snapshots
         /\ snapshots' \in Seq(Snapshot)
         /\ DOMAIN snapshots' = DOMAIN snapshots
         /\ \A s \in DOMAIN snapshots :
              /\ snapshots'[s].target = snapshots[s].target
              /\ snapshots'[s].before = snapshots[s].before
              /\ snapshots'[s].restorable = (snapshots[s].restorable /\ s # job[c].snap)
<1>1. job[c].snap \in DOMAIN snapshots /\ snapshots \in Seq(Snapshot)
  BY DEF Typed, TypeOK, RefsOK, RestoreMark
<1>2. snapshots' = [snapshots EXCEPT ![job[c].snap].restorable = FALSE]
  BY DEF RestoreMark
<1>3. \A s \in DOMAIN snapshots : snapshots[s] \in Snapshot
  BY <1>1, LenProperties, ElementOfSeq
<1>4. \A s \in DOMAIN snapshots :
        snapshots'[s] = IF s = job[c].snap THEN [snapshots[s] EXCEPT !.restorable = FALSE]
                                           ELSE snapshots[s]
  BY <1>1, <1>2
<1>5. \A s \in DOMAIN snapshots :
        /\ snapshots'[s] \in Snapshot
        /\ snapshots'[s].target = snapshots[s].target
        /\ snapshots'[s].before = snapshots[s].before
        /\ snapshots'[s].restorable = (snapshots[s].restorable /\ s # job[c].snap)
  BY <1>3, <1>4 DEF Snapshot
<1>6. DOMAIN snapshots' = DOMAIN snapshots
  BY <1>2
<1>7. snapshots' = [s \in DOMAIN snapshots |-> snapshots'[s]]
  BY <1>2
<1>8. snapshots' \in Seq(Snapshot)
  BY <1>1, <1>5, <1>6, <1>7, MapIsSeq
<1> QED
  BY <1>1, <1>5, <1>6, <1>8

(* Removing an application changes nothing but reverted flags. *)
LEMMA RemoveShape ==
  ASSUME Typed, NEW c \in Tasks, RestoreRemove(c)
  PROVE  /\ applications' \in Seq(Application)
         /\ DOMAIN applications' = DOMAIN applications
         /\ \A a \in DOMAIN applications :
              /\ applications'[a].snap = applications[a].snap
              /\ applications'[a].reverted =
                   (applications[a].reverted \/ applications[a].snap = job[c].snap)
<1>1. applications \in Seq(Application)
  BY DEF Typed, TypeOK
<1>2. \A a \in DOMAIN applications : applications[a] \in Application
  BY <1>1, LenProperties, ElementOfSeq
<1>3. applications' =
        [a \in DOMAIN applications |->
           IF applications[a].snap = job[c].snap
           THEN [applications[a] EXCEPT !.reverted = TRUE] ELSE applications[a]]
  BY DEF RestoreRemove
<1>4. /\ DOMAIN applications' = DOMAIN applications
      /\ applications' = [a \in DOMAIN applications |-> applications'[a]]
  BY <1>3
<1>5. \A a \in DOMAIN applications :
        /\ applications'[a] \in Application
        /\ applications'[a].snap = applications[a].snap
        /\ applications'[a].reverted =
             (applications[a].reverted \/ applications[a].snap = job[c].snap)
  BY <1>2, <1>3 DEF Application
<1>6. applications' \in Seq(Application)
  BY <1>1, <1>4, <1>5, MapIsSeq
<1> QED
  BY <1>4, <1>5, <1>6

(* Registering an application appends an active row, or changes nothing. *)
LEMMA RegisterShape ==
  ASSUME Typed, NEW c \in Tasks, ApplyRegister(c)
  PROVE  \/ /\ applications' = applications
            /\ job[c].snap \in ActiveSnapshots
         \/ /\ applications' \in Seq(Application)
            /\ DOMAIN applications' = DOMAIN applications \cup {Len(applications) + 1}
            /\ Len(applications) + 1 \notin DOMAIN applications
            /\ applications'[Len(applications) + 1] = [snap |-> job[c].snap, reverted |-> FALSE]
            /\ \A a \in DOMAIN applications : applications'[a] = applications[a]
<1> DEFINE row == [snap |-> job[c].snap, reverted |-> FALSE]
<1>1. applications \in Seq(Application) /\ row \in Application
  BY DEF Typed, TypeOK, Job, Application
<1>2. CASE job[c].snap \in ActiveSnapshots
  BY <1>2 DEF ApplyRegister
<1>3. CASE job[c].snap \notin ActiveSnapshots
  <2>1. applications' = Append(applications, row)
    BY <1>3 DEF ApplyRegister
  <2> HIDE DEF row
  <2>2. /\ applications' \in Seq(Application)
        /\ DOMAIN applications' = DOMAIN applications \cup {Len(applications) + 1}
        /\ Len(applications) + 1 \notin DOMAIN applications
        /\ applications'[Len(applications) + 1] = row
        /\ \A a \in DOMAIN applications : applications'[a] = applications[a]
    BY <1>1, <2>1, AppendShape
  <2>3. QED
    BY <2>2 DEF row
<1> QED
  BY <1>2, <1>3
-------------------------------------------------------------------------------
(* Every step keeps the types and the references. *)
LEMMA TypedStep == Typed /\ [Next]_vars => Typed'
<1> SUFFICES ASSUME Typed, [Next]_vars PROVE Typed'
  OBVIOUS
<1> USE DEF Typed
<1>1. ASSUME NEW c \in Tasks, NEW t \in Targets, ApplyBegin(c, t) PROVE Typed'
  <2>1. \A v \in ReadingsOf(t) : [NoJob EXCEPT !.target = t, !.before = v] \in Job
    BY <1>1, NoJobType DEF ReadingsOf, ApplyBegin, TypeOK, OsValues, Readings, Job
  <2>2. TypeOK'
    BY <1>1, <2>1 DEF ApplyBegin, TypeOK, Points
  <2>3. RefsOK'
    BY <1>1 DEF ApplyBegin, TypeOK, RefsOK
  <2> QED
    BY <2>2, <2>3
<1>2. ASSUME NEW c \in Tasks, RevertBegin(c) PROVE Typed'
  <2>1. \A a \in ActiveRows : a \in Nat
    BY LenProperties DEF ActiveRows, TypeOK
  <2>2. PICK a \in ActiveRows : job' = [job EXCEPT ![c].todo = {a}]
    BY <1>2 DEF RevertBegin
  <2>4. TypeOK'
    BY <1>2, <2>1, <2>2 DEF RevertBegin, TypeOK, Points, Job
  <2>3. RefsOK'
    BY <1>2, <2>2 DEF RevertBegin, TypeOK, RefsOK
  <2> QED
    BY <2>3, <2>4
<1>3. ASSUME NEW c \in Tasks, RestoreAllBegin(c) PROVE Typed'
  <2>1. ActiveRows \subseteq Nat
    BY LenProperties DEF ActiveRows, TypeOK
  <2>2. TypeOK'
    BY <1>3, <2>1 DEF RestoreAllBegin, TypeOK, Points, Job
  <2>3. RefsOK'
    BY <1>3 DEF RestoreAllBegin, TypeOK, RefsOK
  <2> QED
    BY <2>2, <2>3
<1>4. ASSUME NEW c \in Tasks, ApplyCapture(c) PROVE Typed'
  <2>1. TypeOK'
    BY <1>4, CaptureShape DEF ApplyCapture, TypeOK, Points, Job
  <2>2. RefsOK'
    BY <1>4, CaptureShape DEF ApplyCapture, TypeOK, RefsOK
  <2> QED
    BY <2>1, <2>2
<1>5. ASSUME NEW c \in Tasks, ApplyWrite(c) PROVE Typed'
  BY <1>5 DEF ApplyWrite, TypeOK, RefsOK, Points, OsValues
<1>6. ASSUME NEW c \in Tasks, ApplyRefused(c) PROVE Typed'
  BY <1>6, NoJobType DEF ApplyRefused, TypeOK, RefsOK, Points
<1>7. ASSUME NEW c \in Tasks, ApplyRegister(c) PROVE Typed'
  <2>1. TypeOK'
    BY <1>7, NoJobType, RegisterShape DEF ApplyRegister, TypeOK, Points
  <2>2. RefsOK'
    BY <1>7, RegisterShape DEF ApplyRegister, TypeOK, RefsOK
  <2> QED
    BY <2>1, <2>2
<1>8. ASSUME NEW c \in Tasks, RestoreWrite(c) PROVE Typed'
  <2>1. PICK a \in DOMAIN applications :
          LET s == applications[a].snap
              t == snapshots[s].target
          IN /\ NextRow(c, a)
             /\ dryRun \/ os[t] # Gone
             /\ os' = IF dryRun THEN os
                      ELSE [os EXCEPT ![t] = RestoredValue(snapshots[s].before)]
             /\ job' = [job EXCEPT ![c].snap = s, ![c].todo = @ \ {a}, ![c].ok = TRUE]
    BY <1>8 DEF RestoreWrite
  <2>2. applications[a].snap \in DOMAIN snapshots /\ applications[a].snap \in Nat
    BY LenProperties DEF RefsOK, TypeOK
  <2>3. snapshots[applications[a].snap] \in Snapshot
    BY <2>2, LenProperties, ElementOfSeq DEF TypeOK
  <2>4. os' \in [Targets -> OsValues]
    BY <2>1, <2>3 DEF TypeOK, RestoredValue, Snapshot, Readings, OsValues
  <2>7. job[c] \in Job
    BY DEF TypeOK
  <2>8. [job[c] EXCEPT !.snap = applications[a].snap, !.todo = @ \ {a}, !.ok = TRUE] \in Job
    BY <2>2, <2>7 DEF Job
  <2>9. job' \in [Tasks -> Job]
    BY <2>1, <2>8 DEF TypeOK
  <2>5. TypeOK'
    BY <1>8, <2>4, <2>9 DEF RestoreWrite, TypeOK, Points
  <2>6. RefsOK'
    BY <1>8, <2>1, <2>2 DEF RestoreWrite, TypeOK, RefsOK, Job
  <2> QED
    BY <2>5, <2>6
<1>9. ASSUME NEW c \in Tasks, RestoreRefused(c) PROVE Typed'
  <2>1. PICK a \in DOMAIN applications :
          job' = [job EXCEPT ![c].snap = applications[a].snap,
                              ![c].todo = @ \ {a}, ![c].ok = FALSE]
    BY <1>9 DEF RestoreRefused
  <2>2. applications[a].snap \in DOMAIN snapshots /\ applications[a].snap \in Nat
    BY LenProperties DEF RefsOK, TypeOK
  <2>5. job[c] \in Job
    BY DEF TypeOK
  <2>6. [job[c] EXCEPT !.snap = applications[a].snap, !.todo = @ \ {a}, !.ok = FALSE] \in Job
    BY <2>2, <2>5 DEF Job
  <2>7. job' \in [Tasks -> Job]
    BY <2>1, <2>6 DEF TypeOK
  <2>3. TypeOK'
    BY <1>9, <2>7 DEF RestoreRefused, TypeOK, Points
  <2>4. RefsOK'
    BY <1>9, <2>1, <2>2 DEF RestoreRefused, TypeOK, RefsOK, Job
  <2> QED
    BY <2>3, <2>4
<1>10. ASSUME NEW c \in Tasks, RestoreAborted(c) PROVE Typed'
  BY <1>10, NoJobType DEF RestoreAborted, TypeOK, RefsOK, Points
<1>11. ASSUME NEW c \in Tasks, RestoreMark(c) PROVE Typed'
  <2>1. /\ job' \in [Tasks -> Job]
        /\ pc' \in [Tasks -> Points]
        /\ job'[c].snap = job[c].snap \/ pc'[c] = "idle"
        /\ pc'[c] \notin {"write", "register"}
        /\ \A d \in Tasks \ {c} : pc'[d] = pc[d] /\ job'[d] = job[d]
    <3>1. CASE job[c].ok
      BY <1>11, <3>1 DEF RestoreMark, TypeOK, Points
    <3>2. CASE ~job[c].ok
      BY <1>11, <3>2, NoJobType DEF RestoreMark, AfterRow, TypeOK, Points
    <3> QED
      BY <3>1, <3>2
  <2>2. TypeOK'
    BY <1>11, <2>1, MarkShape DEF RestoreMark, TypeOK
  <2>3. /\ job[c].snap \in DOMAIN snapshots
        /\ DOMAIN snapshots' = DOMAIN snapshots
        /\ \A s \in DOMAIN snapshots : snapshots'[s].target = snapshots[s].target
    BY <1>11, MarkShape
  <2>4. applications' = applications
    BY <1>11 DEF RestoreMark
  <2>5. RefsOK'
    BY <2>1, <2>3, <2>4 DEF RefsOK
  <2> QED
    BY <2>2, <2>5
<1>12. ASSUME NEW c \in Tasks, RestoreRemove(c) PROVE Typed'
  <2>1. TypeOK'
    BY <1>12, NoJobType, RemoveShape DEF RestoreRemove, AfterRow, TypeOK, Points
  <2>2. RefsOK'
    BY <1>12, RemoveShape DEF RestoreRemove, AfterRow, TypeOK, RefsOK
  <2> QED
    BY <2>1, <2>2
<1>13. ASSUME NEW t \in Targets, ProcessExit(t) PROVE Typed'
  BY <1>13 DEF ProcessExit, TypeOK, RefsOK, OsValues
<1>14. ASSUME Restart PROVE Typed'
  BY <1>14, NoJobType, LaunchAssumption DEF Restart, TypeOK, RefsOK, Points
<1>16. ASSUME NEW c \in Tasks, Dropped(c) PROVE Typed'
  BY <1>16, NoJobType DEF Dropped, TypeOK, RefsOK, Points
<1>15. ASSUME UNCHANGED vars PROVE Typed'
  BY <1>15 DEF vars, TypeOK, RefsOK
<1> QED
  BY <1>1, <1>2, <1>3, <1>4, <1>5, <1>6, <1>7, <1>8, <1>9, <1>10, <1>11, <1>12,
     <1>13, <1>14, <1>15, <1>16 DEF Next, Apply, Restore

(* Type correctness of every reachable state. *)
THEOREM TypeCorrect == Spec => []TypeOK
<1>1. Typed => TypeOK
  BY DEF Typed
<1> QED
  BY <1>1, TypedInit, TypedStep, PTL DEF Spec
(* A call moves its own coroutine and no other. *)
LEMMA OthersStay ==
  ASSUME NEW c \in Tasks, NEW d \in Tasks, c # d, Typed,
         \/ \E t \in Targets : ApplyBegin(c, t)
         \/ RevertBegin(c) \/ RestoreAllBegin(c) \/ Apply(c) \/ Restore(c) \/ Dropped(c)
  PROVE  pc'[d] = pc[d] /\ job'[d] = job[d]
<1>1. pc \in [Tasks -> Points] /\ job \in [Tasks -> Job]
  BY DEF Typed, TypeOK
<1>2. ASSUME NEW t \in Targets, ApplyBegin(c, t) PROVE pc'[d] = pc[d] /\ job'[d] = job[d]
  BY <1>1, <1>2 DEF ApplyBegin
<1>3. CASE RevertBegin(c) \/ RestoreAllBegin(c) \/ Dropped(c)
  BY <1>1, <1>3 DEF RevertBegin, RestoreAllBegin, Dropped
<1>4. CASE Apply(c)
  BY <1>1, <1>4 DEF Apply, ApplyCapture, ApplyWrite, ApplyRefused, ApplyRegister
<1>5. CASE Restore(c)
  BY <1>1, <1>5
     DEF Restore, RestoreWrite, RestoreRefused, RestoreAborted, RestoreMark, RestoreRemove, AfterRow
<1> QED
  BY <1>2, <1>3, <1>4, <1>5

-------------------------------------------------------------------------------
(* Rows of rollback_snapshots are never deleted, and keep what they captured. *)
LEMMA RowsKept ==
  ASSUME Typed, [Next]_vars
  PROVE  /\ DOMAIN snapshots \subseteq DOMAIN snapshots'
         /\ \A s \in DOMAIN snapshots : /\ snapshots'[s].target = snapshots[s].target
                                       /\ snapshots'[s].before = snapshots[s].before
<1>1. ASSUME NEW c \in Tasks, ApplyCapture(c)
      PROVE  /\ DOMAIN snapshots \subseteq DOMAIN snapshots'
             /\ \A s \in DOMAIN snapshots : snapshots'[s] = snapshots[s]
  BY <1>1, CaptureShape
<1>2. ASSUME NEW c \in Tasks, RestoreMark(c)
      PROVE  /\ DOMAIN snapshots \subseteq DOMAIN snapshots'
             /\ \A s \in DOMAIN snapshots : /\ snapshots'[s].target = snapshots[s].target
                                           /\ snapshots'[s].before = snapshots[s].before
  BY <1>2, MarkShape
<1>3. CASE \E c \in Tasks : ApplyCapture(c) \/ RestoreMark(c)
  BY <1>1, <1>2, <1>3
<1>4. CASE ~ \E c \in Tasks : ApplyCapture(c) \/ RestoreMark(c)
  <2>1. snapshots' = snapshots
    BY <1>4 DEF Next, Apply, Restore, ApplyBegin, ApplyWrite, ApplyRefused, ApplyRegister,
                RevertBegin, RestoreAllBegin, RestoreWrite, RestoreRefused, RestoreAborted,
                RestoreRemove, ProcessExit, Dropped, Restart, vars
  <2> QED
    BY <2>1
<1> QED
  BY <1>3, <1>4

LEMMA SavedGrows ==
  ASSUME Typed, [Next]_vars, NEW t \in Targets, Saved(t)
  PROVE  Saved(t)'
  BY RowsKept DEF Saved, SnapsOf

(* OriginalSurvives is not inductive: a second apply may capture the value *)
(* a first one wrote, and a restore writes whatever a snapshot holds.       *)
SavedInv ==
  /\ OriginalSurvives
  /\ \A c \in Tasks : pc[c] = "capture" /\ job[c].before = Tweaked => Saved(job[c].target)
  /\ \A s \in DOMAIN snapshots : Saved(snapshots[s].target)

(* Only the two OS writes and a process exit change a setting; the writes   *)
(* go to a target that some committed snapshot names.                       *)
LEMMA WritesHaveSnapshot ==
  ASSUME Typed, [Next]_vars, NEW t \in Targets, os'[t] # os[t]
  PROVE  os'[t] = Gone \/ \E s \in DOMAIN snapshots : snapshots[s].target = t
<1>1. ASSUME NEW c \in Tasks, ApplyWrite(c)
      PROVE  \E s \in DOMAIN snapshots : snapshots[s].target = t
  BY <1>1 DEF ApplyWrite, Typed, TypeOK, RefsOK
<1>2. ASSUME NEW c \in Tasks, RestoreWrite(c)
      PROVE  \E s \in DOMAIN snapshots : snapshots[s].target = t
  BY <1>2 DEF RestoreWrite, Typed, TypeOK, RefsOK
<1>3. ASSUME NEW u \in Targets, ProcessExit(u) PROVE os'[t] = Gone
  BY <1>3 DEF ProcessExit, Typed, TypeOK
<1> QED
  BY <1>1, <1>2, <1>3
     DEF Next, Apply, Restore, ApplyBegin, ApplyCapture, ApplyRefused, ApplyRegister,
         RevertBegin, RestoreAllBegin, RestoreRefused, RestoreAborted, RestoreMark,
         RestoreRemove, Dropped, Restart, vars

(* A task reaches its capture point by reading the target it will capture.  *)
LEMMA CaptureIsRead ==
  ASSUME Typed, [Next]_vars, NEW c \in Tasks, pc'[c] = "capture"
  PROVE  \/ pc[c] = "capture" /\ job'[c] = job[c]
         \/ job'[c].target \in Targets /\ job'[c].before \in ReadingsOf(job'[c].target)
<1>1. ASSUME NEW d \in Tasks, NEW t \in Targets, ApplyBegin(d, t)
      PROVE  \/ pc[c] = "capture" /\ job'[c] = job[c]
             \/ job'[c].target \in Targets /\ job'[c].before \in ReadingsOf(job'[c].target)
  BY <1>1, NoJobType DEF ApplyBegin, Typed, TypeOK, Job
<1>2. ASSUME NEW d \in Tasks,
             \/ RevertBegin(d) \/ RestoreAllBegin(d) \/ ApplyCapture(d) \/ ApplyWrite(d)
             \/ ApplyRefused(d) \/ ApplyRegister(d) \/ RestoreWrite(d) \/ RestoreRefused(d)
             \/ RestoreAborted(d) \/ Dropped(d)
      PROVE  pc[c] = "capture" /\ job'[c] = job[c]
  BY <1>2 DEF RevertBegin, RestoreAllBegin, ApplyCapture, ApplyWrite, ApplyRefused,
              ApplyRegister, RestoreWrite, RestoreRefused, RestoreAborted, Dropped,
              Typed, TypeOK
<1>3. ASSUME NEW d \in Tasks, RestoreMark(d)
      PROVE  pc[c] = "capture" /\ job'[c] = job[c]
  <2>1. CASE job[d].ok
    BY <1>3, <2>1 DEF RestoreMark, Typed, TypeOK
  <2>2. CASE ~job[d].ok
    BY <1>3, <2>2 DEF RestoreMark, AfterRow, Typed, TypeOK
  <2> QED
    BY <2>1, <2>2
<1>4. ASSUME NEW d \in Tasks, RestoreRemove(d)
      PROVE  pc[c] = "capture" /\ job'[c] = job[c]
  BY <1>4 DEF RestoreRemove, AfterRow, Typed, TypeOK
<1>5. CASE Restart
  BY <1>5 DEF Restart
<1>6. CASE UNCHANGED vars \/ \E t \in Targets : ProcessExit(t)
  BY <1>6 DEF vars, ProcessExit
<1> QED
  BY <1>1, <1>2, <1>3, <1>4, <1>5, <1>6 DEF Next, Apply, Restore

(* A new snapshot row holds what some task read before. *)
LEMMA NewRow ==
  ASSUME Typed, [Next]_vars, NEW s \in DOMAIN snapshots', s \notin DOMAIN snapshots
  PROVE  \E c \in Tasks : /\ pc[c] = "capture"
                         /\ snapshots'[s].target = job[c].target
                         /\ snapshots'[s].before = job[c].before
<1>1. ASSUME NEW c \in Tasks, ApplyCapture(c)
      PROVE  \E d \in Tasks : /\ pc[d] = "capture"
                             /\ snapshots'[s].target = job[d].target
                             /\ snapshots'[s].before = job[d].before
  <2>1. s = Len(snapshots) + 1
    BY <1>1, CaptureShape
  <2>4. snapshots'[s] = [target |-> job[c].target, before |-> job[c].before,
                         restorable |-> TRUE]
    BY <1>1, <2>1, CaptureShape
  <2>2. snapshots'[s].target = job[c].target /\ snapshots'[s].before = job[c].before
    BY <2>4
  <2>3. pc[c] = "capture"
    BY <1>1 DEF ApplyCapture
  <2> QED
    BY <2>2, <2>3
<1>2. ASSUME NEW c \in Tasks, RestoreMark(c) PROVE FALSE
  BY <1>2, MarkShape
<1>3. CASE ~ \E c \in Tasks : ApplyCapture(c) \/ RestoreMark(c)
  <2>1. snapshots' = snapshots
    BY <1>3 DEF Next, Apply, Restore, ApplyBegin, ApplyWrite, ApplyRefused, ApplyRegister,
                RevertBegin, RestoreAllBegin, RestoreWrite, RestoreRefused, RestoreAborted,
                RestoreRemove, ProcessExit, Dropped, Restart, vars
  <2> QED
    BY <2>1
<1> QED
  BY <1>1, <1>2, <1>3

LEMMA SavedInvInit == Init => SavedInv
  BY DEF Init, SavedInv, OriginalSurvives, Altered, NoJob, Original, Tweaked

LEMMA SavedInvStep == Typed /\ SavedInv /\ [Next]_vars => SavedInv'
<1> SUFFICES ASSUME Typed, SavedInv, [Next]_vars PROVE SavedInv'
  OBVIOUS
<1>1. \A t \in Targets : Saved(t) => Saved(t)'
  BY SavedGrows
<1>2. \A s \in DOMAIN snapshots : snapshots[s].target \in Targets
  BY SnapshotTyped DEF Snapshot
<1>3. OriginalSurvives'
  <2> SUFFICES ASSUME NEW t \in Targets, Altered(t)' PROVE Saved(t)'
    BY DEF OriginalSurvives
  <2>1. CASE os'[t] = os[t]
    BY <1>1, <2>1 DEF Altered, SavedInv, OriginalSurvives
  <2>2. CASE os'[t] # os[t]
    <3>1. PICK s \in DOMAIN snapshots : snapshots[s].target = t
      BY <2>2, WritesHaveSnapshot DEF Altered
    <3> QED
      BY <1>1, <3>1 DEF SavedInv
  <2> QED
    BY <2>1, <2>2
<1>4. ASSUME NEW c \in Tasks, pc'[c] = "capture", job'[c].before = Tweaked
      PROVE  Saved(job[c].target)'
  <2>1. CASE pc[c] = "capture" /\ job'[c] = job[c]
    BY <1>1, <1>4, <2>1 DEF SavedInv, Typed, TypeOK, Job
  <2>2. CASE /\ job'[c].target \in Targets
             /\ job'[c].before \in ReadingsOf(job'[c].target)
    <3>1. os[job'[c].target] = Tweaked
      BY <1>4, <2>2 DEF ReadingsOf, Tweaked, Unread
    <3>2. Saved(job'[c].target)
      BY <2>2, <3>1 DEF SavedInv, OriginalSurvives, Altered, Tweaked, Original, Gone
    <3> QED
      BY <1>1, <2>2, <3>2
  <2> QED
    <3>1. \/ pc[c] = "capture" /\ job'[c] = job[c]
          \/ /\ job'[c].target \in Targets
             /\ job'[c].before \in ReadingsOf(job'[c].target)
      BY <1>4, CaptureIsRead
    <3> QED
      BY <2>1, <2>2, <3>1
<1>5. ASSUME NEW s \in DOMAIN snapshots' PROVE Saved(snapshots[s].target)'
  <2>1. CASE s \in DOMAIN snapshots
    BY <1>1, <1>2, <2>1, RowsKept DEF SavedInv
  <2>2. CASE s \notin DOMAIN snapshots
    <3>1. PICK c \in Tasks : /\ pc[c] = "capture"
                             /\ snapshots'[s].target = job[c].target
                             /\ snapshots'[s].before = job[c].before
      BY <2>2, NewRow
    <3>2. job[c].target \in Targets /\ job[c].before \in Readings
      BY DEF Typed, TypeOK, Job
    <3>3. CASE job[c].before = Tweaked
      BY <1>1, <3>1, <3>2, <3>3 DEF SavedInv
    <3>4. CASE job[c].before \in {Original, Unread}
      BY <3>1, <3>4 DEF Saved, SnapsOf
    <3> QED
      BY <3>2, <3>3, <3>4 DEF Readings
  <2> QED
    BY <2>1, <2>2
<1>6. /\ \A c \in Tasks : pc'[c] = "capture" /\ job'[c].before = Tweaked
                            => Saved(job[c].target)'
      /\ \A s \in DOMAIN snapshots' : Saved(snapshots[s].target)'
  BY <1>4, <1>5
<1> QED
  BY <1>3, <1>6 DEF SavedInv, Saved, SnapsOf

(* The original value of an altered setting is in a committed snapshot: *)
(* TLC checks it for three snapshots, this proves it for any number.      *)
THEOREM OriginalSurvivesAlways == Spec => []OriginalSurvives
<1>1. Init => Typed /\ SavedInv
  BY TypedInit, SavedInvInit
<1>2. (Typed /\ SavedInv) /\ [Next]_vars => (Typed /\ SavedInv)'
  BY TypedStep, SavedInvStep
<1>3. Typed /\ SavedInv => OriginalSurvives
  BY DEF SavedInv
<1> QED
  BY <1>1, <1>2, <1>3, PTL DEF Spec
-------------------------------------------------------------------------------
SavedTargets   == {t \in Targets : Saved(t)}
AlteredTargets == {t \in Targets : Altered(t)}

(* A step that writes at most one target, of which a snapshot is committed, *)
(* is an Alter or a PutBack of the ledger.                                  *)
LEMMA OneWriteIsLedgerStep ==
  ASSUME Typed, SavedInv, Typed', NEW t \in Targets, Saved(t) \/ os'[t] = Gone,
         snapshots' = snapshots,
         \A u \in Targets \ {t} : os'[u] = os[u]
  PROVE  Ledger!Next
<1>1. SavedTargets' = SavedTargets
  BY DEF SavedTargets, Saved, SnapsOf
<1>2. \A u \in Targets \ {t} : Altered(u)' = Altered(u)
  BY DEF Altered
<1>3. CASE Altered(t)'
  <2>1. t \in SavedTargets
    BY <1>3 DEF SavedTargets, Altered
  <2>2. AlteredTargets' = AlteredTargets \cup {t}
    BY <1>2, <1>3 DEF AlteredTargets
  <2>3. Ledger!Alter(t)
    BY <1>1, <2>1, <2>2 DEF Ledger!Alter, SavedTargets, AlteredTargets
  <2> QED
    BY <2>3 DEF Ledger!Next
<1>4. CASE ~Altered(t)'
  <2>1. AlteredTargets' = AlteredTargets \ {t}
    BY <1>2, <1>4 DEF AlteredTargets
  <2>2. Ledger!PutBack(t)
    BY <1>1, <2>1 DEF Ledger!PutBack, SavedTargets, AlteredTargets
  <2> QED
    BY <2>2 DEF Ledger!Next
<1> QED
  BY <1>3, <1>4

LEMMA LedgerStep == Typed /\ SavedInv /\ [Next]_vars => [Ledger!Next]_(Ledger!ledger)
<1> SUFFICES ASSUME Typed, SavedInv, [Next]_vars PROVE [Ledger!Next]_(Ledger!ledger)
  OBVIOUS
<1>0. Typed'
  BY TypedStep
<1>1. ASSUME NEW c \in Tasks, ApplyCapture(c) PROVE Ledger!Next
  <2>0. PICK t \in Targets, n \in Nat : t = job[c].target /\ n = Len(snapshots) + 1
    BY <1>1, CaptureShape DEF Typed, TypeOK, Job
  <2>1. job[c].before \in Readings /\ pc[c] = "capture" /\ os' = os
    BY <1>1 DEF ApplyCapture, Typed, TypeOK, Job
  <2>2. /\ n \in DOMAIN snapshots'
        /\ DOMAIN snapshots' = DOMAIN snapshots \cup {n}
        /\ snapshots'[n] = [target |-> t, before |-> job[c].before, restorable |-> TRUE]
        /\ \A s \in DOMAIN snapshots : snapshots'[s] = snapshots[s]
    BY <1>1, <2>0, CaptureShape
  <2>3. snapshots'[n].target = t /\ snapshots'[n].before = job[c].before
    BY <2>2
  <2>4. Saved(t)'
    <3>1. CASE job[c].before = Tweaked
      BY <2>0, <2>1, <3>1, SavedGrows DEF SavedInv
    <3>2. CASE job[c].before \in {Original, Unread}
      BY <2>2, <2>3, <3>2 DEF Saved, SnapsOf
    <3> QED
      BY <2>1, <3>1, <3>2 DEF Readings
  <2>5. \A u \in Targets \ {t} : Saved(u)' = Saved(u)
    BY <2>2, <2>3 DEF Saved, SnapsOf
  <2>6. SavedTargets' = SavedTargets \cup {t}
    BY <2>1, <2>4, <2>5, SavedGrows DEF SavedTargets
  <2>7. AlteredTargets' = AlteredTargets
    BY <2>1 DEF AlteredTargets, Altered
  <2>8. Ledger!Save(t)
    BY <2>6, <2>7 DEF Ledger!Save, SavedTargets, AlteredTargets
  <2> QED
    BY <2>8 DEF Ledger!Next
<1>2. ASSUME NEW c \in Tasks, ApplyWrite(c) PROVE Ledger!Next
  <2> DEFINE t == job[c].target
  <2>1. /\ t \in Targets /\ job[c].snap \in DOMAIN snapshots
        /\ snapshots[job[c].snap].target = t
    BY <1>2 DEF ApplyWrite, Typed, TypeOK, RefsOK, Job
  <2>2. Saved(t)
    BY <2>1 DEF SavedInv
  <2>3. snapshots' = snapshots /\ \A u \in Targets \ {t} : os'[u] = os[u]
    BY <1>2 DEF ApplyWrite, Typed, TypeOK
  <2> QED
    BY <1>0, <2>1, <2>2, <2>3, OneWriteIsLedgerStep
<1>3. ASSUME NEW c \in Tasks, RestoreWrite(c) PROVE Ledger!Next
  <2>1. PICK a \in DOMAIN applications :
          os' = IF dryRun THEN os
                ELSE [os EXCEPT ![snapshots[applications[a].snap].target] =
                        RestoredValue(snapshots[applications[a].snap].before)]
    BY <1>3 DEF RestoreWrite
  <2> DEFINE t == snapshots[applications[a].snap].target
  <2>2. applications[a].snap \in DOMAIN snapshots
    BY DEF Typed, RefsOK
  <2>3. t \in Targets /\ Saved(t)
    BY <2>2, SnapshotTyped DEF SavedInv, Snapshot
  <2>4. snapshots' = snapshots
    BY <1>3 DEF RestoreWrite
  <2>5. \A u \in Targets \ {t} : os'[u] = os[u]
    BY <2>1 DEF Typed, TypeOK
  <2> QED
    BY <1>0, <2>3, <2>4, <2>5, OneWriteIsLedgerStep
<1>4. ASSUME NEW t \in Targets, ProcessExit(t) PROVE Ledger!Next
  <2>1. /\ os'[t] = Gone /\ snapshots' = snapshots
        /\ \A u \in Targets \ {t} : os'[u] = os[u]
    BY <1>4 DEF ProcessExit, Typed, TypeOK
  <2> QED
    BY <1>0, <2>1, OneWriteIsLedgerStep
<1>5. ASSUME os' = os,
             DOMAIN snapshots' = DOMAIN snapshots,
             \A s \in DOMAIN snapshots : /\ snapshots'[s].target = snapshots[s].target
                                        /\ snapshots'[s].before = snapshots[s].before
      PROVE  UNCHANGED Ledger!ledger
  <2>1. SavedTargets' = SavedTargets
    BY <1>5 DEF SavedTargets, Saved, SnapsOf
  <2>2. AlteredTargets' = AlteredTargets
    BY <1>5 DEF AlteredTargets, Altered
  <2> QED
    BY <2>1, <2>2 DEF Ledger!ledger, SavedTargets, AlteredTargets
<1>6. ASSUME NEW c \in Tasks, RestoreMark(c) PROVE UNCHANGED Ledger!ledger
  BY <1>5, <1>6, MarkShape DEF RestoreMark
<1>7. CASE UNCHANGED <<os, snapshots>>
  BY <1>5, <1>7
<1> QED
  BY <1>1, <1>2, <1>3, <1>4, <1>6, <1>7
     DEF Next, Apply, Restore, ApplyBegin, ApplyRefused, ApplyRegister, RevertBegin,
         RestoreAllBegin, RestoreRefused, RestoreAborted, RestoreRemove, Dropped, Restart, vars

(* The tweak machinery implements the ledger: whatever overlaps, fails or   *)
(* is cut, a setting is altered only after it has been saved, and what has  *)
(* been saved stays saved.                                                  *)
THEOREM LedgerIsImplemented == Spec => ImplementsLedger
<1>1. Init => Typed /\ SavedInv
  BY TypedInit, SavedInvInit
<1>2. (Typed /\ SavedInv) /\ [Next]_vars => (Typed /\ SavedInv)'
  BY TypedStep, SavedInvStep
<1>3. Init => Ledger!Init
  BY DEF Init, Ledger!Init, Saved, SnapsOf, Altered, Original
<1>4. (Typed /\ SavedInv) /\ [Next]_vars => [Ledger!Next]_(Ledger!ledger)
  BY LedgerStep
<1> QED
  BY <1>1, <1>2, <1>3, <1>4, PTL DEF Spec, ImplementsLedger, Ledger!Spec
===============================================================================
