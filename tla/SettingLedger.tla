----------------------------- MODULE SettingLedger -----------------------------
(***************************************************************************)
(* What PulseBoost promises about the settings it tweaks, without any of   *)
(* its machinery: a setting is altered only after its pre-change state has *)
(* been saved, and what has been saved is never lost.                      *)
(***************************************************************************)
CONSTANT Targets

VARIABLES
  saved,    \* the settings whose pre-change state is on disk
  altered   \* the settings that differ from what they were

ledger == <<saved, altered>>

TypeOK == saved \subseteq Targets /\ altered \subseteq Targets

Init == saved = {} /\ altered = {}

(* The pre-change state of t is committed. *)
Save(t) ==
  /\ saved' = saved \cup {t}
  /\ UNCHANGED altered

(* A saved setting takes the tweaked value, or keeps it. *)
Alter(t) ==
  /\ t \in saved
  /\ altered' = altered \cup {t}
  /\ UNCHANGED saved

(* t is again what it was, or belongs to a process that is gone. *)
PutBack(t) ==
  /\ altered' = altered \ {t}
  /\ UNCHANGED saved

Next == \E t \in Targets : Save(t) \/ Alter(t) \/ PutBack(t)

Spec == Init /\ [][Next]_ledger
===============================================================================
