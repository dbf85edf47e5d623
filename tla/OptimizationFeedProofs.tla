------------------------ MODULE OptimizationFeedProofs ------------------------
(* Proofs of OptimizationFeed, for any findings and decisions. *)
EXTENDS OptimizationFeed, TLAPS

-------------------------------------------------------------------------------
LEMMA NoJobType == NoJob \in [item : Findings, ok : BOOLEAN]
  BY FindingsAssumption DEF NoJob

LEMMA NoListingType == NoListing \in Listings
  BY DEF NoListing, Listings

LEMMA FeedTypeInit == Init => TypeOK
  BY NoJobType, NoListingType, BoundAssumption DEF Init, TypeOK, Points

LEMMA FeedTypeStep == TypeOK /\ [Next]_vars => TypeOK'
<1> SUFFICES ASSUME TypeOK, [Next]_vars PROVE TypeOK'
  OBVIOUS
<1> USE DEF TypeOK, Points, GoTo
<1>c. "cycle" \in Coroutines
  BY DEF Coroutines
<1>1. ASSUME CycleBegin PROVE TypeOK'
  BY <1>1, <1>c, NoListingType DEF CycleBegin
<1>2. ASSUME NEW i \in Findings, Look(i) PROVE TypeOK'
  <2>1. CASE LookSkip(i)
    BY <2>1 DEF LookSkip
  <2>2. CASE LookRun(i)
    BY <2>2, <1>c DEF LookRun
  <2>3. CASE LookList(i)
    BY <2>3, <1>c DEF LookList, Listings, Statuses
  <2> QED
    BY <1>2, <2>1, <2>2, <2>3 DEF Look
<1>3. ASSUME NEW c \in Coroutines, Run(c) PROVE TypeOK'
  <2>1. PICK success \in BOOLEAN : job' = [job EXCEPT ![c].ok = success]
                                   /\ ran' = IF success THEN ran \cup {job[c].item} ELSE ran
    BY <1>3 DEF Run
  <2> QED
    BY <1>3, <2>1 DEF Run, cycleVars
<1>4. ASSUME Logged PROVE TypeOK'
  BY <1>4, <1>c, NoJobType DEF Logged, Outcome, Listings, Statuses
<1>5. ASSUME Store PROVE TypeOK'
  BY <1>5, <1>c DEF Store, Merged, Listings, Statuses
<1>6. ASSUME Fetch PROVE TypeOK'
  BY <1>6, <1>c DEF Fetch
<1>7. ASSUME Publish PROVE TypeOK'
  BY <1>7, <1>c, NoJobType, NoListingType DEF Publish, Return, Asleep
<1>8. ASSUME NEW c \in Decisions, NEW i \in Findings, Decide(c, i) PROVE TypeOK'
  BY <1>8 DEF Decide, cycleVars, Coroutines
<1>9. ASSUME NEW c \in Decisions, Dismiss(c) PROVE TypeOK'
  BY <1>9, NoJobType DEF Dismiss, Return, cycleVars, Coroutines, Listings, Statuses
<1>10. ASSUME NEW c \in Decisions, LoggedDecision(c) PROVE TypeOK'
  BY <1>10 DEF LoggedDecision, cycleVars, Coroutines
<1>11. ASSUME NEW c \in Decisions, Settle(c) PROVE TypeOK'
  BY <1>11, NoJobType DEF Settle, Return, Outcome, Coroutines, Listings, Statuses
<1>12. ASSUME NEW c \in Coroutines, DatabaseRaises(c) PROVE TypeOK'
  <2>1. todo' \subseteq Findings /\ entries' \in Listings /\ known' \subseteq Findings
    BY <1>12, NoListingType DEF DatabaseRaises, Asleep, cycleVars
  <2> QED
    BY <1>12, <2>1, NoJobType, BoundAssumption DEF DatabaseRaises, Return
<1>13. ASSUME Restart PROVE TypeOK'
  BY <1>13, NoJobType, NoListingType DEF Restart, Asleep
<1>14. CASE UNCHANGED vars
  BY <1>14 DEF vars
<1> QED
  BY <1>1, <1>2, <1>3, <1>4, <1>5, <1>6, <1>7, <1>8, <1>9, <1>10, <1>11, <1>12, <1>13, <1>14, <1>c
     DEF Next, Cycle, Decision, Coroutines

(* Every reachable state of the feed is well typed. *)
THEOREM FeedTypeCorrect == Spec => []TypeOK
  BY FeedTypeInit, FeedTypeStep, PTL DEF Spec
-------------------------------------------------------------------------------
(* DoneWasRun is not inductive as it stands: the cycle's feed and a         *)
(* coroutine's locals carry an outcome for a while before it is written.    *)
OutcomesRan ==
  /\ \A c \in Coroutines : job[c].ok => pc[c] \in {"log", "settle"} /\ job[c].item \in ran
  /\ \A i \in Findings : "done" \in {status[i], shown[i], entries[i]} => i \in ran

(* What is known to be dismissed is dismissed still. *)
KnownIsDismissed == \A i \in known : status[i] = "dismissed"

FeedInv == OutcomesRan /\ KnownIsDismissed /\ DismissedIsNotRun

LEMMA FeedInit == Init => FeedInv
  BY DEF Init, FeedInv, OutcomesRan, KnownIsDismissed, DismissedIsNotRun,
         NoListing, NoJob, Absent, Coroutines

(* The end of a call leaves no outcome behind in its locals. *)
LEMMA ReturnClears ==
  ASSUME TypeOK, OutcomesRan, NEW c \in Coroutines, Return(c), ran' = ran
  PROVE  \A d \in Coroutines : job'[d].ok => pc'[d] \in {"log", "settle"} /\ job'[d].item \in ran'
  BY NoJobType DEF TypeOK, OutcomesRan, Return, GoTo, NoJob

LEMMA OutcomesStep == TypeOK /\ OutcomesRan /\ [Next]_vars => OutcomesRan'
<1> SUFFICES ASSUME TypeOK, OutcomesRan, [Next]_vars PROVE OutcomesRan'
  OBVIOUS
<1> USE DEF OutcomesRan, TypeOK, GoTo
<1>c. "cycle" \in Coroutines
  BY DEF Coroutines
<1>n. \A i \in Findings : NoListing[i] # "done"
  BY DEF NoListing, Absent
<1>1. ASSUME CycleBegin PROVE OutcomesRan'
  BY <1>1, <1>c, <1>n DEF CycleBegin
<1>2. ASSUME NEW i \in Findings, Look(i) PROVE OutcomesRan'
  <2>1. CASE LookSkip(i)
    BY <2>1 DEF LookSkip
  <2>2. CASE LookRun(i)
    BY <2>2, <1>c DEF LookRun
  <2>3. CASE LookList(i)
    BY <2>3, <1>c DEF LookList, Listings
  <2> QED
    BY <1>2, <2>1, <2>2, <2>3 DEF Look
<1>3. ASSUME NEW c \in Coroutines, Run(c) PROVE OutcomesRan'
  <2>1. PICK success \in BOOLEAN : job' = [job EXCEPT ![c].ok = success]
                                   /\ ran' = IF success THEN ran \cup {job[c].item} ELSE ran
    BY <1>3 DEF Run
  <2> QED
    BY <1>3, <2>1 DEF Run, cycleVars
<1>4. ASSUME Logged PROVE OutcomesRan'
  BY <1>4, <1>c, NoJobType DEF Logged, Outcome, Listings, NoJob
<1>5. ASSUME Store PROVE OutcomesRan'
  BY <1>5, <1>c DEF Store, Merged, Listings
<1>6. ASSUME Fetch PROVE OutcomesRan'
  BY <1>6, <1>c DEF Fetch
<1>7. ASSUME Publish PROVE OutcomesRan'
  BY <1>7, <1>c, <1>n, ReturnClears DEF Publish, Asleep
<1>8. ASSUME NEW c \in Decisions, NEW i \in Findings, Decide(c, i) PROVE OutcomesRan'
  BY <1>8 DEF Decide, cycleVars, Coroutines
<1>9. ASSUME NEW c \in Decisions, Dismiss(c) PROVE OutcomesRan'
  <2>1. c \in Coroutines
    BY DEF Coroutines
  <2> QED
    BY <1>9, <2>1, ReturnClears DEF Dismiss, cycleVars, Listings, Absent
<1>10. ASSUME NEW c \in Decisions, LoggedDecision(c) PROVE OutcomesRan'
  BY <1>10 DEF LoggedDecision, cycleVars, Coroutines
<1>11. ASSUME NEW c \in Decisions, Settle(c) PROVE OutcomesRan'
  <2>1. c \in Coroutines
    BY DEF Coroutines
  <2>2. Outcome(c) = "done" => job[c].item \in ran
    BY <2>1 DEF Outcome
  <2> QED
    BY <1>11, <2>1, <2>2, ReturnClears DEF Settle, Listings, Absent
<1>12. ASSUME NEW c \in Coroutines, DatabaseRaises(c) PROVE OutcomesRan'
  <2>1. \A i \in Findings : entries'[i] = "done" => i \in ran
    BY <1>12, <1>n DEF DatabaseRaises, Asleep, cycleVars
  <2> QED
    BY <1>12, <2>1, ReturnClears DEF DatabaseRaises
<1>13. ASSUME Restart PROVE OutcomesRan'
  BY <1>13, <1>n DEF Restart, Asleep, NoJob
<1>14. CASE UNCHANGED vars
  BY <1>14 DEF vars
<1> QED
  BY <1>1, <1>2, <1>3, <1>4, <1>5, <1>6, <1>7, <1>8, <1>9, <1>10, <1>11, <1>12, <1>13, <1>14, <1>c
     DEF Next, Cycle, Decision, Coroutines

(* How the table may change: by a decision, or by a store that spares what  *)
(* is done or dismissed.                                                    *)
LEMMA StatusStep ==
  ASSUME TypeOK, [Next]_vars, NEW i \in Findings, status[i] \in {"done", "dismissed"}
  PROVE  \/ status'[i] = status[i]
         \/ \E c \in Decisions : job[c].item = i /\ (Dismiss(c) \/ Settle(c))
<1> USE DEF TypeOK
<1>1. CASE Store
  BY <1>1 DEF Store, Merged
<1>2. ASSUME NEW c \in Decisions, Dismiss(c) \/ Settle(c)
      PROVE  status'[i] = status[i] \/ job[c].item = i
  BY <1>2 DEF Dismiss, Settle, Listings
<1>3. CASE CycleBegin \/ Logged \/ Fetch \/ Publish \/ Restart
  BY <1>3 DEF CycleBegin, Logged, Fetch, Publish, Restart
<1>4. ASSUME NEW j \in Findings, Look(j) PROVE status' = status
  BY <1>4 DEF Look, LookSkip, LookRun, LookList
<1>5. ASSUME NEW c \in Coroutines, Run(c) \/ DatabaseRaises(c) PROVE status' = status
  BY <1>5 DEF Run, DatabaseRaises
<1>6. ASSUME NEW c \in Decisions, NEW j \in Findings, Decide(c, j) \/ LoggedDecision(c)
      PROVE  status' = status
  BY <1>6 DEF Decide, LoggedDecision
<1>7. ASSUME NEW c \in Decisions, LoggedDecision(c) PROVE status' = status
  BY <1>7 DEF LoggedDecision
<1>8. CASE UNCHANGED vars
  BY <1>8 DEF vars
<1> QED
  BY <1>1, <1>2, <1>3, <1>4, <1>5, <1>6, <1>7, <1>8 DEF Next, Cycle, Decision, Coroutines

(* A step leaves known as it is, empties it, fills it with what is          *)
(* dismissed, or takes out of it what a decision settles.                   *)
LEMMA KnownStep == TypeOK /\ KnownIsDismissed /\ [Next]_vars => KnownIsDismissed'
<1> SUFFICES ASSUME TypeOK, KnownIsDismissed, [Next]_vars, NEW i \in known'
             PROVE  status'[i] = "dismissed"
  BY DEF KnownIsDismissed
<1> USE DEF TypeOK, KnownIsDismissed
<1>1. CASE CycleBegin
  BY <1>1 DEF CycleBegin
<1>2. ASSUME NEW c \in Decisions, Settle(c) PROVE status'[i] = "dismissed"
  BY <1>2 DEF Settle, Listings
<1>3. ASSUME NEW c \in Decisions, Dismiss(c) PROVE status'[i] = "dismissed"
  BY <1>3 DEF Dismiss, cycleVars, Listings
<1>4. CASE known' \subseteq known /\ \A c \in Decisions : ~Dismiss(c) /\ ~Settle(c)
  BY <1>4, StatusStep
<1>5. known' \subseteq known \/ CycleBegin
  <2>1. ASSUME NEW j \in Findings, Look(j) PROVE known' = known
    BY <2>1 DEF Look, LookSkip, LookRun, LookList
  <2>2. ASSUME NEW c \in Coroutines, Run(c) PROVE known' = known
    BY <2>2 DEF Run, cycleVars
  <2>3. ASSUME NEW c \in Coroutines, DatabaseRaises(c) PROVE known' \subseteq known
    BY <2>3 DEF DatabaseRaises, Asleep, cycleVars
  <2>4. CASE Logged \/ Store \/ Fetch \/ Publish \/ Restart
    BY <2>4 DEF Logged, Store, Fetch, Publish, Restart, Asleep
  <2>5. ASSUME NEW c \in Decisions, NEW j \in Findings, Decide(c, j) PROVE known' = known
    BY <2>5 DEF Decide, cycleVars
  <2>6. ASSUME NEW c \in Decisions, Dismiss(c) \/ LoggedDecision(c) \/ Settle(c)
        PROVE  known' \subseteq known
    BY <2>6 DEF Dismiss, LoggedDecision, Settle, cycleVars
  <2>7. CASE UNCHANGED vars
    BY <2>7 DEF vars
  <2> QED
    BY <2>1, <2>2, <2>3, <2>4, <2>5, <2>6, <2>7 DEF Next, Cycle, Decision, Coroutines
<1> QED
  BY <1>1, <1>2, <1>3, <1>4, <1>5

(* The cycle sends to the executor only what it has just read as not        *)
(* dismissed; while the executor works, known does not grow.                *)
LEMMA NotRunStep ==
  TypeOK /\ KnownIsDismissed /\ DismissedIsNotRun /\ [Next]_vars => DismissedIsNotRun'
<1> SUFFICES ASSUME TypeOK, KnownIsDismissed, DismissedIsNotRun, [Next]_vars
             PROVE  DismissedIsNotRun'
  OBVIOUS
<1> USE DEF TypeOK, KnownIsDismissed, DismissedIsNotRun, GoTo
<1>c. "cycle" \in Coroutines /\ "cycle" \notin Decisions
  BY DecisionsAssumption DEF Coroutines
<1>1. ASSUME NEW i \in Findings, Look(i) PROVE DismissedIsNotRun'
  <2>1. CASE LookSkip(i)
    BY <2>1 DEF LookSkip
  <2>2. CASE LookRun(i)
    BY <2>2, <1>c DEF LookRun, Skipped
  <2>3. CASE LookList(i)
    BY <2>3 DEF LookList
  <2> QED
    BY <1>1, <2>1, <2>2, <2>3 DEF Look
<1>2. ASSUME NEW c \in Coroutines, Run(c) PROVE DismissedIsNotRun'
  <2>1. PICK success \in BOOLEAN : job' = [job EXCEPT ![c].ok = success]
    BY <1>2 DEF Run
  <2> QED
    BY <1>2, <2>1, <1>c DEF Run, cycleVars
<1>3. CASE CycleBegin \/ Logged \/ Store \/ Fetch \/ Publish
  BY <1>3, <1>c DEF CycleBegin, Logged, Store, Fetch, Publish, Return
<1>4. CASE Restart
  BY <1>4, <1>c DEF Restart
<1>5. ASSUME NEW c \in Decisions, NEW i \in Findings, Decide(c, i) PROVE DismissedIsNotRun'
  BY <1>5, <1>c DEF Decide, cycleVars, Coroutines
<1>6. ASSUME NEW c \in Decisions, Dismiss(c) \/ LoggedDecision(c) \/ Settle(c)
      PROVE  DismissedIsNotRun'
  BY <1>6, <1>c DEF Dismiss, LoggedDecision, Settle, Return, cycleVars, Coroutines
<1>7. ASSUME NEW c \in Coroutines, DatabaseRaises(c) PROVE DismissedIsNotRun'
  BY <1>7, <1>c DEF DatabaseRaises, Return, cycleVars
<1>8. CASE UNCHANGED vars
  BY <1>8 DEF vars
<1> QED
  BY <1>1, <1>2, <1>3, <1>4, <1>5, <1>6, <1>7, <1>8, <1>c DEF Next, Cycle, Decision, Coroutines

LEMMA FeedInvariant == Spec => [](TypeOK /\ FeedInv)
<1>1. Init => TypeOK /\ FeedInv
  BY FeedTypeInit, FeedInit
<1>2. TypeOK /\ FeedInv /\ [Next]_vars => (TypeOK /\ FeedInv)'
  BY FeedTypeStep, OutcomesStep, KnownStep, NotRunStep DEF FeedInv
<1> QED
  BY <1>1, <1>2, PTL DEF Spec

(* What the table or the user's list calls done has been carried out, for   *)
(* any number of decisions beside the cycle, and wherever they are cut.     *)
THEOREM DoneWasRunAlways == Spec => []DoneWasRun
<1>1. FeedInv => DoneWasRun
  BY DEF FeedInv, OutcomesRan, DoneWasRun
<1> QED
  BY <1>1, FeedInvariant, PTL

(* The cycle never carries out what was dismissed before it began. *)
THEOREM DismissedIsNotRunAlways == Spec => []DismissedIsNotRun
<1>1. FeedInv => DismissedIsNotRun
  BY DEF FeedInv
<1> QED
  BY <1>1, FeedInvariant, PTL

(* The cycle never takes back a dismissal or an outcome. *)
THEOREM CycleRespectsDecisionsAlways == Spec => CycleRespectsDecisions
<1>1. TypeOK /\ [Next]_vars =>
        [\A i \in Findings : status[i] \in {"done", "dismissed"} =>
           \/ status'[i] = status[i]
           \/ \E c \in Decisions : job[c].item = i /\ (Dismiss(c) \/ Settle(c))]_vars
  BY StatusStep
<1> QED
  BY <1>1, FeedTypeCorrect, PTL DEF Spec, CycleRespectsDecisions
===============================================================================
