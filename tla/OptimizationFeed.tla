---------------------------- MODULE OptimizationFeed ----------------------------
(***************************************************************************)
(* The optimizations PulseBoost finds, between the monitoring cycle that   *)
(* hunts for them, the executor that carries them out, and the user who    *)
(* approves or dismisses them.                                             *)
(*                                                                         *)
(* The table optimizations holds the status of each, the orchestrator's    *)
(* current_state what the user is shown.  The cycle reads the one, works   *)
(* for seconds, and writes both; a decision does the same at any time in   *)
(* between:                                                                *)
(*                                                                         *)
(*   cycle    (read -> [run -> log]) for each finding -> store -> fetch    *)
(*            -> publish                                                   *)
(*   dismiss  read -> status = dismissed, and off the list                 *)
(*   approve  read -> run -> log -> status = done or failed                *)
(*                                                                         *)
(* An action is the code between two awaits.  WasteHunter proposes only    *)
(* actions that the reasoner lets pass once they are confirmed, so its     *)
(* refusal is left out, as are the fields of a row that nothing reads.     *)
(***************************************************************************)
EXTENDS Naturals, FiniteSets

CONSTANTS
  Findings,   \* the ids of what WasteHunter may find
  Unasked,    \* those that are SAFE and may be executed unasked
  Decisions,  \* coroutines that handle a decision of the user
  MaxRaises   \* bound on the database calls that raise

ASSUME UnaskedAssumption == Unasked \subseteq Findings
ASSUME FindingsAssumption == Findings # {}
ASSUME DecisionsAssumption == "cycle" \notin Decisions
ASSUME BoundAssumption == MaxRaises \in Nat

VARIABLES
  status,   \* table optimizations: the status of each row
  shown,    \* current_state["optimizations"]: the status shown of each
  ran,      \* history: the findings that were carried out with success
  pc,       \* the await each coroutine is suspended at
  job,      \* its locals: the finding, and what the executor returned
  todo,     \* the findings the cycle has not looked at yet
  entries,  \* the feed that the cycle is putting together
  known,    \* history: what has been dismissed since before this cycle began
  raises    \* how many database calls have raised

cycleVars == <<todo, entries, known>>
vars == <<status, shown, ran, pc, job, todo, entries, known, raises>>
-------------------------------------------------------------------------------
Absent     == "absent"
Statuses   == {"pending", "done", "failed", "dismissed"}
Listings   == [Findings -> Statuses \cup {Absent}]
Coroutines == Decisions \cup {"cycle"}
Points     == {"idle", "look", "run", "log", "dismiss", "settle", "fetch", "publish"}

NoListing == [i \in Findings |-> Absent]

(* What a coroutine's locals hold when no call is running. *)
NoJob == [item |-> CHOOSE i \in Findings : TRUE, ok |-> FALSE]

(* It goes on to its next await, or its call returns. *)
GoTo(c, p) == pc' = [pc EXCEPT ![c] = p]
Return(c)  == GoTo(c, "idle") /\ job' = [job EXCEPT ![c] = NoJob]

(* The locals of the cycle while run() sleeps. *)
Asleep == todo' = {} /\ entries' = NoListing /\ known' = {}

Outcome(c) == IF job[c].ok THEN "done" ELSE "failed"

-------------------------------------------------------------------------------
(* Slips that an edit of the code could make; see TweakLifecycle. *)

(* Merged, had the conflict clause spared only what is done. *)
MergedOverDismissed(old, new) == IF old = "done" THEN old ELSE new

(* Skipped, had the cycle not looked at the status of the row. *)
NeverSkipped(old) == FALSE

(* Logged, had the cycle not looked at the result of the executor. *)
LoggedAsDone ==
  /\ pc["cycle"] = "log"
  /\ entries' = [entries EXCEPT ![job["cycle"].item] = "done"]
  /\ GoTo("cycle", "look")
  /\ job' = [job EXCEPT !["cycle"] = NoJob]
  /\ UNCHANGED <<status, shown, ran, todo, known, raises>>

(* Publish, had the new feed been laid over the one shown before. *)
PublishOver ==
  /\ pc["cycle"] = "publish"
  /\ shown' = [i \in Findings |-> IF entries[i] = Absent THEN shown[i] ELSE entries[i]]
  /\ Return("cycle")
  /\ Asleep
  /\ UNCHANGED <<status, ran, raises>>

-------------------------------------------------------------------------------
Init ==
  /\ status = NoListing
  /\ shown = NoListing
  /\ ran = {}
  /\ pc = [c \in Coroutines |-> "idle"]
  /\ job = [c \in Coroutines |-> NoJob]
  /\ todo = {}
  /\ entries = NoListing
  /\ known = {}
  /\ raises = 0

(* What store_optimizations leaves of a row that is there already. *)
Merged(old, new) == IF old \in {"done", "dismissed"} THEN old ELSE new

(* The cycle passes over what the user has dismissed. *)
Skipped(old) == old = "dismissed"

(* hunt() returns the findings of this cycle. *)
CycleBegin ==
  /\ pc["cycle"] = "idle"
  /\ todo' \in SUBSET Findings
  /\ entries' = NoListing
  /\ known' = {i \in Findings : status[i] = "dismissed"}
  /\ GoTo("cycle", "look")
  /\ UNCHANGED <<status, shown, ran, job, raises>>

(* The cycle reads the row of its next finding and passes over it, ...      *)
LookSkip(i) ==
  /\ pc["cycle"] = "look"
  /\ i \in todo
  /\ Skipped(status[i])
  /\ todo' = todo \ {i}
  /\ UNCHANGED <<status, shown, ran, pc, job, entries, known, raises>>

(* ... sends it to the executor, if ENABLE_AUTO_HEAL and the plan let it,   *)
(* whatever came of it in the cycles before, ...                            *)
LookRun(i) ==
  /\ pc["cycle"] = "look"
  /\ i \in todo \cap Unasked
  /\ ~Skipped(status[i])
  /\ todo' = todo \ {i}
  /\ job' = [job EXCEPT !["cycle"].item = i]
  /\ GoTo("cycle", "run")
  /\ UNCHANGED <<status, shown, ran, entries, known, raises>>

(* ... or lists it, with its outcome if it has been executed before.        *)
LookList(i) ==
  /\ pc["cycle"] = "look"
  /\ i \in todo
  /\ ~Skipped(status[i])
  /\ todo' = todo \ {i}
  /\ entries' = [entries EXCEPT ![i] =
                   IF status[i] \in {"done", "failed"} THEN status[i] ELSE "pending"]
  /\ UNCHANGED <<status, shown, ran, pc, job, known, raises>>

(* Executor.run carries the action out, or reports its failure. *)
Run(c) ==
  /\ pc[c] = "run"
  /\ \E success \in BOOLEAN :
       /\ job' = [job EXCEPT ![c].ok = success]
       /\ ran' = IF success THEN ran \cup {job[c].item} ELSE ran
  /\ GoTo(c, "log")
  /\ UNCHANGED <<status, shown, raises>>
  /\ UNCHANGED cycleVars

(* The action has been logged, and the cycle notes its outcome, ... *)
Logged ==
  /\ pc["cycle"] = "log"
  /\ entries' = [entries EXCEPT ![job["cycle"].item] = Outcome("cycle")]
  /\ GoTo("cycle", "look")
  /\ job' = [job EXCEPT !["cycle"] = NoJob]
  /\ UNCHANGED <<status, shown, ran, todo, known, raises>>

(* ... or a decision goes on to write it. *)
LoggedDecision(c) ==
  /\ pc[c] = "log"
  /\ GoTo(c, "settle")
  /\ UNCHANGED <<status, shown, ran, job, raises>>
  /\ UNCHANGED cycleVars

(* store_optimizations, in one transaction; an empty feed writes nothing. *)
Store ==
  /\ pc["cycle"] = "look"
  /\ todo = {}
  /\ status' = [i \in Findings |->
                  IF entries[i] = Absent THEN status[i] ELSE Merged(status[i], entries[i])]
  /\ GoTo("cycle", "fetch")
  /\ UNCHANGED <<shown, ran, job, todo, entries, known, raises>>

(* recent_optimizations takes the place of an empty feed. *)
Fetch ==
  /\ pc["cycle"] = "fetch"
  /\ entries' = IF entries = NoListing THEN status ELSE entries
  /\ GoTo("cycle", "publish")
  /\ UNCHANGED <<status, shown, ran, job, todo, known, raises>>

Publish ==
  /\ pc["cycle"] = "publish"
  /\ shown' = entries
  /\ Return("cycle")
  /\ Asleep
  /\ UNCHANGED <<status, ran, raises>>

(* decide_optimization has found the row. *)
Decide(c, i) ==
  /\ pc[c] = "idle"
  /\ status[i] # Absent
  /\ job' = [job EXCEPT ![c].item = i]
  /\ \E p \in {"dismiss", "run"} : GoTo(c, p)
  /\ UNCHANGED <<status, shown, ran, raises>>
  /\ UNCHANGED cycleVars

Dismiss(c) ==
  /\ pc[c] = "dismiss"
  /\ status' = [status EXCEPT ![job[c].item] = "dismissed"]
  /\ shown' = [shown EXCEPT ![job[c].item] = Absent]
  /\ Return(c)
  /\ UNCHANGED <<ran, raises>>
  /\ UNCHANGED cycleVars

(* The status is written whatever it has become since the row was read. *)
Settle(c) ==
  /\ pc[c] = "settle"
  /\ status' = [status EXCEPT ![job[c].item] = Outcome(c)]
  /\ shown' = [shown EXCEPT ![job[c].item] = IF @ = Absent THEN @ ELSE Outcome(c)]
  /\ known' = known \ {job[c].item}
  /\ Return(c)
  /\ UNCHANGED <<ran, todo, entries, raises>>

(* A database call raises, and the cycle or the request ends where it is:   *)
(* what the executor has done stays done.                                   *)
DatabaseRaises(c) ==
  /\ raises < MaxRaises
  /\ pc[c] # "idle"
  /\ Return(c)
  /\ IF c = "cycle" THEN Asleep ELSE UNCHANGED cycleVars
  /\ raises' = raises + 1
  /\ UNCHANGED <<status, shown, ran>>

(* The backend ends and is launched again, with an empty current_state. *)
Restart ==
  /\ shown' = NoListing
  /\ pc' = [c \in Coroutines |-> "idle"]
  /\ job' = [c \in Coroutines |-> NoJob]
  /\ Asleep
  /\ UNCHANGED <<status, ran, raises>>

Look(i)  == LookSkip(i) \/ LookRun(i) \/ LookList(i)
Cycle    == \/ CycleBegin \/ Run("cycle") \/ Logged \/ Store \/ Fetch \/ Publish
            \/ \E i \in Findings : Look(i)
Decision == \E c \in Decisions : \/ \E i \in Findings : Decide(c, i)
                                 \/ Dismiss(c)
                                 \/ Run(c)
                                 \/ LoggedDecision(c)
                                 \/ Settle(c)

Next == Cycle \/ Decision \/ Restart \/ \E c \in Coroutines : DatabaseRaises(c)

Spec == Init /\ [][Next]_vars

(* run() starts a cycle after every sleep, and the event loop resumes it    *)
(* whenever the database has answered.                                      *)
FairSpec == Spec /\ WF_vars(Cycle)
-------------------------------------------------------------------------------
TypeOK ==
  /\ status \in Listings
  /\ shown \in Listings
  /\ ran \subseteq Findings
  /\ pc \in [Coroutines -> Points]
  /\ job \in [Coroutines -> [item : Findings, ok : BOOLEAN]]
  /\ todo \subseteq Findings
  /\ entries \in Listings
  /\ known \subseteq Findings
  /\ raises \in 0..MaxRaises

(* What the table or the user's list calls done has been carried out: no    *)
(* failure, no other coroutine's outcome and no cut call is taken for it.   *)
DoneWasRun ==
  \A i \in Findings : "done" \in {status[i], shown[i]} => i \in ran

(* However late its feed is stored, the cycle never takes back a dismissal  *)
(* or an outcome: only a decision of the user does.                         *)
CycleRespectsDecisions ==
  [][\A i \in Findings : status[i] \in {"done", "dismissed"} =>
       \/ status'[i] = status[i]
       \/ \E c \in Decisions : job[c].item = i /\ (Dismiss(c) \/ Settle(c))]_vars

(* The cycle does not carry out what has been dismissed since before it     *)
(* began.  (What is dismissed while the cycle works on it may still run.)   *)
DismissedIsNotRun ==
  pc["cycle"] = "run" => job["cycle"].item \notin known

(* A cycle that overlaps a dismissal may show the optimization as pending   *)
(* again; it does not stay so, unless the user decides anew.                *)
DismissedLeavesFeed ==
  \A i \in Findings :
    status[i] = "dismissed" ~> (shown[i] \in {Absent, "dismissed"} \/ status[i] # "dismissed")
===============================================================================
