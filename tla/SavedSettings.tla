----------------------------- MODULE SavedSettings -----------------------------
(***************************************************************************)
(* Two users of the settings table that read a row, change it in memory    *)
(* and write it back, with awaits between: GPUController.apply_setting,    *)
(* which any number of requests may run at once, and the cool-downs of     *)
(* AdaptiveEngine.evaluate, which only the cycle runs but which crashes    *)
(* and exceptions cut short.                                               *)
(***************************************************************************)
EXTENDS Naturals, FiniteSets

CONSTANTS
  GpuRequests,   \* requests of apply_setting
  GpuSettings,   \* ids of the settings
  Rules,         \* adaptive rules
  Cooldown,      \* cooldown_seconds
  MaxTick        \* bound on time

NoSetting == "none"
NoRule    == "none"

ASSUME SettingsAssumption ==
  Cooldown \in Nat /\ MaxTick \in Nat \ {0} /\ NoRule \notin Rules

VARIABLES
  items,      \* row "gpu.settings": the settings that were saved
  request,    \* each request: where it is, its setting, the items it has read
  accepted,   \* history: the settings whose request has returned success
  crossed,    \* history: settings whose write another request had read before
  cooldowns,  \* row "adaptive.cooldowns": next_allowed_at of each rule
  evaluation, \* the rule that is applied, and how far evaluate is
  tick,
  firedAt,    \* history: when each rule was applied last
  cut         \* history: the rules whose last trial was cut short

settingsVars ==
  <<items, request, accepted, crossed, cooldowns, evaluation, tick, firedAt, cut>>
gpuVars  == <<items, request, accepted, crossed>>
ruleVars == <<cooldowns, evaluation, tick, firedAt, cut>>

Request == [at : {"new", "read", "done"}, setting : GpuSettings \cup {NoSetting},
            read : SUBSET GpuSettings]

SettingsTypeOK ==
  /\ items \subseteq GpuSettings /\ accepted \subseteq GpuSettings
  /\ crossed \subseteq GpuSettings
  /\ request \in [GpuRequests -> Request]
  /\ cooldowns \in [Rules -> Nat] /\ firedAt \in [Rules -> Nat]
  /\ evaluation \in [rule : Rules \cup {NoRule}, applied : BOOLEAN]
  /\ tick \in 1..MaxTick /\ cut \subseteq Rules

SettingsInit ==
  /\ items = {} /\ accepted = {} /\ crossed = {}
  /\ request = [q \in GpuRequests |-> [at |-> "new", setting |-> NoSetting, read |-> {}]]
  /\ cooldowns = [r \in Rules |-> 0] /\ firedAt = [r \in Rules |-> 0]
  /\ evaluation = [rule |-> NoRule, applied |-> FALSE] /\ tick = 1 /\ cut = {}

(* Another request has read the row without s and has still to write it. *)
HasRead(q, s) ==
  \E p \in GpuRequests \ {q} : request[p].at = "read" /\ s \notin request[p].read
-------------------------------------------------------------------------------
(* Slips that an edit of the code could make; no specification uses them.   *)

(* ApplySettingWrites, had the items that were read been left out. *)
WritesOnlyItsOwn(q) ==
  /\ request[q].at = "read" /\ items' = {request[q].setting}
  /\ accepted' = accepted \cup {request[q].setting}
  /\ crossed' = IF HasRead(q, request[q].setting) THEN crossed \cup {request[q].setting}
                ELSE crossed
  /\ request' = [request EXCEPT ![q].at = "done"]
  /\ UNCHANGED ruleVars

(* TouchCooldown, had the rules that were read been left out. *)
TouchesOnlyItsOwn ==
  /\ evaluation.applied
  /\ cooldowns' = [r \in Rules |-> IF r = evaluation.rule THEN tick + Cooldown ELSE 0]
  /\ evaluation' = [rule |-> NoRule, applied |-> FALSE]
  /\ UNCHANGED <<gpuVars, tick, firedAt, cut>>
-------------------------------------------------------------------------------
(* apply_setting up to get_setting; unknown, unsupported and unconfirmed    *)
(* settings return before it.                                               *)
ApplySettingReads(q, s) ==
  /\ request[q].at = "new"
  /\ request' = [request EXCEPT ![q] = [at |-> "read", setting |-> s, read |-> items]]
  /\ UNCHANGED <<items, accepted, crossed, ruleVars>>

(* set_setting and the audit entry. *)
ApplySettingWrites(q) ==
  LET s == request[q].setting
  IN  /\ request[q].at = "read"
      /\ items' = request[q].read \cup {s}
      /\ accepted' = accepted \cup {s}
      /\ crossed' = IF HasRead(q, s) THEN crossed \cup {s} ELSE crossed \ {s}
      /\ request' = [request EXCEPT ![q].at = "done"]
      /\ UNCHANGED ruleVars

(* evaluate: a rule that matches and has cooled down is applied. *)
EvaluateFires(r) ==
  /\ evaluation.rule = NoRule /\ tick >= cooldowns[r]
  /\ evaluation' = [rule |-> r, applied |-> FALSE]
  /\ firedAt' = [firedAt EXCEPT ![r] = tick] /\ cut' = cut \ {r}
  /\ UNCHANGED <<gpuVars, cooldowns, tick>>

(* apply_tweak has returned, with success or not; the action is inserted. *)
RuleApplied ==
  /\ evaluation.rule # NoRule /\ ~evaluation.applied
  /\ evaluation' = [evaluation EXCEPT !.applied = TRUE]
  /\ UNCHANGED <<gpuVars, cooldowns, tick, firedAt, cut>>

(* _touch_cooldown; no one else writes the row. *)
TouchCooldown ==
  /\ evaluation.applied
  /\ cooldowns' = [cooldowns EXCEPT ![evaluation.rule] = tick + Cooldown]
  /\ evaluation' = [rule |-> NoRule, applied |-> FALSE]
  /\ UNCHANGED <<gpuVars, tick, firedAt, cut>>

(* apply_tweak or a database call raises, or the backend dies: the rule has *)
(* been tried and its cool-down is not set.                                 *)
EvaluateCut ==
  /\ evaluation.rule # NoRule
  /\ cut' = cut \cup {evaluation.rule}
  /\ evaluation' = [rule |-> NoRule, applied |-> FALSE]
  /\ UNCHANGED <<gpuVars, cooldowns, tick, firedAt>>

Tick ==
  /\ tick < MaxTick /\ tick' = tick + 1
  /\ UNCHANGED <<gpuVars, cooldowns, evaluation, firedAt, cut>>

GpuNext ==
  \E q \in GpuRequests : ApplySettingWrites(q) \/ \E s \in GpuSettings : ApplySettingReads(q, s)
RuleNext ==
  (\E r \in Rules : EvaluateFires(r)) \/ RuleApplied \/ TouchCooldown \/ EvaluateCut \/ Tick
SettingsSpec == SettingsInit /\ [][GpuNext \/ RuleNext]_settingsVars
-------------------------------------------------------------------------------
(* A setting whose request has returned success is in the row, unless       *)
(* another request had read the row before and wrote it after: nothing else *)
(* loses it, in any order of the requests.                                  *)
AcceptedIsSaved == accepted \ items \subseteq crossed

(* A rule is not tried again before its cool-down is over, however the      *)
(* other rules fire in between, unless its last trial was cut short: then   *)
(* it may be tried again in every cycle.                                    *)
RuleWaits ==
  [][\A r \in Rules : firedAt'[r] # firedAt[r] =>
       firedAt[r] = 0 \/ r \in cut \/ tick >= firedAt[r] + Cooldown]_settingsVars
===============================================================================
