---------------------------- MODULE ServicesProofs ----------------------------
(***************************************************************************)
(* What holds of a service alone, for any number of calls, connections,    *)
(* requests and rules, and therefore of the services together.             *)
(***************************************************************************)
EXTENDS Services, SequenceTheorems, FiniteSetTheorems, WellFoundedInduction, TLAPS

(* Beside the others, a service takes only steps of its own. *)
LEMMA OneServiceMoves ==
  [ServicesNext]_serviceVars =>
    /\ [LaunchNext]_dbVars /\ [PoolNext]_poolVars /\ [LiveNext]_liveVars
    /\ [MetricsNext]_metricVars /\ [CacheNext]_cacheVars
    /\ [GpuNext \/ RuleNext]_settingsVars /\ [ShellNext]_shellVars
<1> SUFFICES ASSUME [ServicesNext]_serviceVars
             PROVE  /\ [LaunchNext]_dbVars /\ [PoolNext]_poolVars /\ [LiveNext]_liveVars
                    /\ [MetricsNext]_metricVars /\ [CacheNext]_cacheVars
                    /\ [GpuNext \/ RuleNext]_settingsVars /\ [ShellNext]_shellVars
  OBVIOUS
<1>1. CASE UNCHANGED serviceVars
  BY <1>1 DEF serviceVars
<1>2. CASE ServicesNext
  BY <1>2 DEF ServicesNext, ButLaunch, ButPool, ButLive, ButMetrics, ButCache,
              ButSettings, ButShell
<1> QED
  BY <1>1, <1>2

LEMMA ServicesAreSpecs ==
  ServicesSpec => /\ LaunchSpec /\ PoolSpec /\ LiveSpec /\ MetricsSpec /\ CacheSpec
                  /\ SettingsSpec /\ ShellSpec
<1>1. ServicesInit => /\ LaunchInit /\ PoolInit /\ LiveInit /\ MetricsInit /\ CacheInit
                      /\ SettingsInit /\ ShellInit
  BY DEF ServicesInit
<1> QED
  BY <1>1, OneServiceMoves, PTL
     DEF ServicesSpec, LaunchSpec, PoolSpec, LiveSpec, MetricsSpec, CacheSpec, SettingsSpec,
         ShellSpec
-------------------------------------------------------------------------------
(* The response cache. *)
CacheTyped ==
  /\ profiles \in Nat /\ profiles # 0 /\ saving \in Nat
  /\ entry \in [save : Nat, at : Nat]
  /\ now \in Nat /\ reading \in [Readers -> Nat] /\ mayMiss \in Nat

(* An entry that misses the newest save is answered no longer than the save *)
(* may be missing.                                                          *)
EntryExpires ==
  /\ entry # None => entry.at <= now
  /\ entry # None /\ entry.save < profiles => entry.at + Ttl <= mayMiss

LEMMA CacheStart == CacheInit => CacheTyped /\ EntryExpires
  BY DEF CacheInit, CacheTyped, EntryExpires, None

LEMMA CacheStep == CacheTyped /\ EntryExpires /\ [CacheNext]_cacheVars
                     => CacheTyped' /\ EntryExpires'
<1> SUFFICES ASSUME CacheTyped, EntryExpires, [CacheNext]_cacheVars
             PROVE  CacheTyped' /\ EntryExpires'
  OBVIOUS
<1>t. Ttl \in Nat
  BY CacheAssumption
<1> USE DEF CacheTyped, EntryExpires, None
<1>1. ASSUME NEW r \in Readers, GetReads(r) \/ GetRaises(r)
      PROVE  CacheTyped' /\ EntryExpires'
  BY <1>t, <1>1 DEF GetReads, GetRaises
<1>2. ASSUME NEW r \in Readers, GetReturns(r) PROVE CacheTyped' /\ EntryExpires'
  BY <1>t, <1>2 DEF GetReturns
<1>3. CASE SaveCommits
  BY <1>t, <1>3 DEF SaveCommits
<1>4. CASE SaveReturns \/ SaveRaises \/ TweakDrops
  BY <1>t, <1>4 DEF SaveReturns, SaveRaises, TweakDrops
<1>5. CASE Second \/ UNCHANGED cacheVars
  BY <1>t, <1>5 DEF Second, cacheVars
<1> QED
  BY <1>1, <1>2, <1>3, <1>4, <1>5 DEF CacheNext

(* A save that is acknowledged is in every answer from the cache, but for a *)
(* GET that had read before it and returns after it; what such a GET, or a  *)
(* POST that raises behind its commit, leaves in the cache is answered for  *)
(* ttl_seconds at most, whatever requests overlap.                          *)
THEOREM SaveIsSeenAlways == ServicesSpec => []SaveIsSeen
<1>1. CacheTyped /\ EntryExpires => SaveIsSeen
  BY CacheAssumption DEF CacheTyped, EntryExpires, SaveIsSeen, Cached
<1> QED
  BY <1>1, CacheStart, CacheStep, ServicesAreSpecs, PTL DEF CacheSpec
-------------------------------------------------------------------------------
(* The settings of the GPU. *)
GpuTyped ==
  /\ items \subseteq GpuSettings /\ accepted \subseteq GpuSettings
  /\ request \in [GpuRequests -> [at : {"new", "read", "done"},
                                  setting : GpuSettings \cup {NoSetting},
                                  read : SUBSET GpuSettings]]
  /\ \A q \in GpuRequests : request[q].at = "read" => request[q].setting \in GpuSettings

(* What was accepted and is neither in the row nor in what a request under  *)
(* way will write there, was crossed by another request.                    *)
LossIsCrossed ==
  /\ AcceptedIsSaved
  /\ \A q \in GpuRequests : request[q].at = "read" =>
       accepted \ request[q].read \subseteq crossed

LEMMA GpuStart == SettingsInit => GpuTyped /\ LossIsCrossed
  BY DEF SettingsInit, GpuTyped, LossIsCrossed, AcceptedIsSaved

LEMMA GpuStep == GpuTyped /\ LossIsCrossed /\ [GpuNext \/ RuleNext]_settingsVars
                   => GpuTyped' /\ LossIsCrossed'
<1> SUFFICES ASSUME GpuTyped, LossIsCrossed, [GpuNext \/ RuleNext]_settingsVars
             PROVE  GpuTyped' /\ LossIsCrossed'
  OBVIOUS
<1> USE DEF GpuTyped, LossIsCrossed, AcceptedIsSaved
<1>1. ASSUME NEW q \in GpuRequests, NEW s \in GpuSettings, ApplySettingReads(q, s)
      PROVE  GpuTyped' /\ LossIsCrossed'
  BY <1>1 DEF ApplySettingReads
<1>2. ASSUME NEW q \in GpuRequests, ApplySettingWrites(q)
      PROVE  GpuTyped' /\ LossIsCrossed'
  <2> DEFINE s == request[q].setting
  <2>1. /\ s \in GpuSettings /\ request[q].read \subseteq GpuSettings
        /\ items' = request[q].read \cup {s} /\ accepted' = accepted \cup {s}
        /\ request' = [request EXCEPT ![q].at = "done"]
        /\ crossed' = IF HasRead(q, s) THEN crossed \cup {s} ELSE crossed \ {s}
    BY <1>2 DEF ApplySettingWrites
  <2> HIDE DEF s
  <2>2. GpuTyped'
    BY <2>1
  <2>3. accepted \ request[q].read \subseteq crossed
    BY <1>2 DEF ApplySettingWrites
  <2>4. AcceptedIsSaved'
    BY <2>1, <2>3
  <2>5. ASSUME NEW p \in GpuRequests, request'[p].at = "read"
        PROVE  accepted' \ request'[p].read \subseteq crossed'
    <3>1. p # q /\ request'[p] = request[p]
      BY <2>1, <2>5
    <3>2. accepted \ request[p].read \subseteq crossed
      BY <2>5, <3>1
    <3>3. s \notin request[p].read => HasRead(q, s)
      BY <2>5, <3>1 DEF HasRead
    <3> QED
      BY <2>1, <3>1, <3>2, <3>3
  <2> QED
    BY <2>2, <2>4, <2>5
<1>3. CASE UNCHANGED gpuVars
  BY <1>3 DEF gpuVars
<1>4. RuleNext => UNCHANGED gpuVars
  BY DEF RuleNext, EvaluateFires, RuleApplied, TouchCooldown, EvaluateCut, Tick
<1>5. UNCHANGED settingsVars => UNCHANGED gpuVars
  BY DEF settingsVars, gpuVars
<1> QED
  BY <1>1, <1>2, <1>3, <1>4, <1>5 DEF GpuNext

(* A setting that was accepted is lost to no one but a request that had     *)
(* read the row before and wrote it after, for any number of requests.      *)
THEOREM AcceptedIsSavedAlways == ServicesSpec => []AcceptedIsSaved
<1>1. LossIsCrossed => AcceptedIsSaved
  BY DEF LossIsCrossed
<1> QED
  BY <1>1, GpuStart, GpuStep, ServicesAreSpecs, PTL DEF SettingsSpec
-------------------------------------------------------------------------------
(* The cool-downs. *)
RulesTyped ==
  /\ cooldowns \in [Rules -> Nat] /\ firedAt \in [Rules -> Nat] /\ tick \in Nat
  /\ evaluation \in [rule : Rules \cup {NoRule}, applied : BOOLEAN]
  /\ evaluation.applied => evaluation.rule \in Rules
  /\ \A r \in Rules : firedAt[r] <= tick

(* A rule that was tried has its cool-down, is being tried, or was cut.     *)
CoolsDown ==
  \A r \in Rules : \/ firedAt[r] = 0 \/ r \in cut \/ evaluation.rule = r
                   \/ cooldowns[r] >= firedAt[r] + Cooldown

LEMMA RulesStart == SettingsInit => RulesTyped /\ CoolsDown
  BY DEF SettingsInit, RulesTyped, CoolsDown

LEMMA RulesStep == RulesTyped /\ CoolsDown /\ [GpuNext \/ RuleNext]_settingsVars
                     => RulesTyped' /\ CoolsDown'
<1> SUFFICES ASSUME RulesTyped, CoolsDown, [GpuNext \/ RuleNext]_settingsVars
             PROVE  RulesTyped' /\ CoolsDown'
  OBVIOUS
<1> USE SettingsAssumption DEF RulesTyped, CoolsDown
<1>1. ASSUME NEW r \in Rules, EvaluateFires(r) PROVE RulesTyped' /\ CoolsDown'
  BY <1>1 DEF EvaluateFires
<1>2. CASE RuleApplied
  BY <1>2 DEF RuleApplied
<1>3. CASE TouchCooldown
  BY <1>3 DEF TouchCooldown
<1>4. CASE EvaluateCut
  BY <1>4 DEF EvaluateCut
<1>5. CASE Tick
  BY <1>5 DEF Tick
<1>6. CASE UNCHANGED ruleVars
  BY <1>6 DEF ruleVars
<1>7. GpuNext \/ UNCHANGED settingsVars => UNCHANGED ruleVars
  BY DEF GpuNext, ApplySettingReads, ApplySettingWrites, settingsVars, ruleVars
<1> QED
  BY <1>1, <1>2, <1>3, <1>4, <1>5, <1>6, <1>7 DEF RuleNext

(* No rule is tried again within its cool-down unless its last trial was    *)
(* cut short, whatever the other rules do.                                  *)
THEOREM RuleWaitsAlways == ServicesSpec => RuleWaits
<1>1. ASSUME RulesTyped, CoolsDown, [GpuNext \/ RuleNext]_settingsVars,
             NEW r \in Rules, firedAt'[r] # firedAt[r]
      PROVE  firedAt[r] = 0 \/ r \in cut \/ tick >= firedAt[r] + Cooldown
  <2>1. EvaluateFires(r)
    <3>1. PICK s \in Rules : EvaluateFires(s)
      BY <1>1 DEF GpuNext, RuleNext, ApplySettingReads, ApplySettingWrites, RuleApplied,
                  TouchCooldown, EvaluateCut, Tick, ruleVars, settingsVars
    <3> QED
      BY <1>1, <3>1 DEF EvaluateFires, RulesTyped
  <2> QED
    BY <1>1, <2>1, SettingsAssumption DEF EvaluateFires, RulesTyped, CoolsDown
<1>2. RulesTyped /\ CoolsDown /\ [GpuNext \/ RuleNext]_settingsVars =>
        [\A r \in Rules : firedAt'[r] # firedAt[r] =>
           firedAt[r] = 0 \/ r \in cut \/ tick >= firedAt[r] + Cooldown]_settingsVars
  BY <1>1
<1> QED
  BY <1>2, RulesStart, RulesStep, ServicesAreSpecs, PTL DEF SettingsSpec, RuleWaits
-------------------------------------------------------------------------------
(* The connections. *)
Held == {c \in Pooled : Holding(c)}

(* Everyone in the queue is waiting there, once. *)
Queued ==
  /\ waiting \in Seq(Pooled)
  /\ \A i \in 1..Len(waiting) : at[waiting[i]] = "waiting"
  /\ \A i, j \in 1..Len(waiting) : waiting[i] = waiting[j] => i = j

PoolInv ==
  /\ at \in [Calls -> Points]
  /\ permits \in Nat /\ lost \in Nat
  /\ Queued
  /\ PermitsAccounted /\ AllOrNothing /\ NoIdlePermit

LEMMA RemoveAtShape ==
  ASSUME NEW S, NEW s \in Seq(S), NEW i \in 1..Len(s)
  PROVE  /\ RemoveAt(s, i) \in Seq(S)
         /\ Len(RemoveAt(s, i)) = Len(s) - 1
         /\ \A j \in 1..(Len(s) - 1) : RemoveAt(s, i)[j] = IF j < i THEN s[j] ELSE s[j + 1]
<1>1. Len(s) \in Nat /\ \A j \in 1..Len(s) : s[j] \in S
  BY LenProperties, ElementOfSeq
<1> DEFINE a == SubSeq(s, 1, i - 1)
           b == SubSeq(s, i + 1, Len(s))
<1>2. /\ a \in Seq(S) /\ Len(a) = i - 1
      /\ \A j \in 1..(i - 1) : a[j] = s[j]
  <2>1. 1 \in Int /\ i - 1 \in Int /\ \A j \in 1..(i - 1) : s[j] \in S
    BY <1>1
  <2>2. /\ a \in Seq(S) /\ Len(a) = IF 1 <= i - 1 THEN (i - 1) - 1 + 1 ELSE 0
        /\ \A j \in 1..((i - 1) - 1 + 1) : a[j] = s[1 + j - 1]
    BY <2>1, SubSeqProperties
  <2> QED
    BY <1>1, <2>2
<1>3. /\ b \in Seq(S) /\ Len(b) = Len(s) - i
      /\ \A j \in 1..(Len(s) - i) : b[j] = s[i + j]
  <2>1. i + 1 \in Int /\ Len(s) \in Int /\ \A j \in (i + 1)..Len(s) : s[j] \in S
    BY <1>1
  <2>2. /\ b \in Seq(S) /\ Len(b) = IF i + 1 <= Len(s) THEN Len(s) - (i + 1) + 1 ELSE 0
        /\ \A j \in 1..(Len(s) - (i + 1) + 1) : b[j] = s[(i + 1) + j - 1]
    BY <2>1, SubSeqProperties
  <2> QED
    BY <1>1, <2>2
<1> HIDE DEF a, b
<1>4. /\ a \o b \in Seq(S) /\ Len(a \o b) = Len(a) + Len(b)
      /\ \A j \in 1..(Len(a) + Len(b)) : (a \o b)[j] = IF j <= Len(a) THEN a[j] ELSE b[j - Len(a)]
  BY <1>2, <1>3, ConcatProperties
<1>5. RemoveAt(s, i) = a \o b
  BY DEF RemoveAt, a, b
<1>6. \A j \in 1..(Len(s) - 1) : (a \o b)[j] = IF j < i THEN s[j] ELSE s[j + 1]
  <2> SUFFICES ASSUME NEW j \in 1..(Len(s) - 1)
               PROVE  (a \o b)[j] = IF j < i THEN s[j] ELSE s[j + 1]
    OBVIOUS
  <2>1. CASE j < i
    BY <1>1, <1>2, <1>3, <1>4, <2>1
  <2>2. CASE ~(j < i)
    <3>1. (a \o b)[j] = b[j - (i - 1)] /\ j - (i - 1) \in 1..(Len(s) - i)
      BY <1>1, <1>2, <1>3, <1>4, <2>2
    <3>2. b[j - (i - 1)] = s[i + (j - (i - 1))]
      BY <1>3, <3>1
    <3> QED
      BY <1>1, <2>2, <3>1, <3>2
  <2> QED
    BY <2>1, <2>2
<1> QED
  BY <1>1, <1>2, <1>3, <1>4, <1>5, <1>6

LEMMA Accounts ==
  /\ PermitsAccounted <=> permits + lost + Cardinality(Held) = MaxConnections
  /\ PermitsAccounted' <=> permits' + lost' + Cardinality(Held') = MaxConnections
  BY DEF PermitsAccounted, Held

LEMMA HeldIsFinite == IsFiniteSet(Held) /\ Cardinality(Held) \in Nat
<1>1. Held \in SUBSET Pooled
  BY DEF Held
<1> QED
  BY <1>1, PoolAssumption, FS_Subset, FS_CardinalityType

LEMMA PoolStart == PoolInit => PoolInv
<1> SUFFICES ASSUME PoolInit PROVE PoolInv
  OBVIOUS
<1>1. Held = {} /\ Cardinality({}) = 0
  BY FS_EmptySet DEF Held, Holding, PoolInit, Calls
<1>2. PermitsAccounted
  BY <1>1, PoolAssumption, Accounts DEF PoolInit
<1>3. Queued
  BY EmptySeq DEF PoolInit, Queued
<1> QED
  BY <1>2, <1>3, PoolAssumption
     DEF PoolInit, PoolInv, Points, AllOrNothing, NoIdlePermit

(* A call that moves on, not from the queue and not to it. *)
LEMMA MovesOn ==
  ASSUME PoolInv, NEW c \in Calls, NEW to \in Points \ {"waiting"},
         at[c] # "waiting", at' = [at EXCEPT ![c] = to], waiting' = waiting
  PROVE  /\ at' \in [Calls -> Points] /\ Queued'
         /\ Held' = IF c \in Pooled /\ to # "idle" THEN Held \cup {c} ELSE Held \ {c}
<1>1. at' \in [Calls -> Points] /\ at'[c] = to /\ \A d \in Calls \ {c} : at'[d] = at[d]
  BY DEF PoolInv
<1>2. Queued'
  <2>1. \A i \in 1..Len(waiting) : waiting[i] \in Calls /\ waiting[i] # c
    BY ElementOfSeq DEF PoolInv, Queued, Calls
  <2> QED
    BY <1>1, <2>1 DEF PoolInv, Queued
<1>3. Held' = IF c \in Pooled /\ to # "idle" THEN Held \cup {c} ELSE Held \ {c}
  BY <1>1 DEF Held, Holding, Points, Calls
<1> QED
  BY <1>1, <1>2, <1>3

(* A returned permit becomes free, or goes to the first waiter. *)
LEMMA ReleaseKeeps ==
  ASSUME PoolInv, NEW c \in Pooled, NEW from \in {"creating", "releasing"},
         Release(c, from), lost' = lost
  PROVE  /\ at' \in [Calls -> Points] /\ permits' \in Nat
         /\ Queued' /\ PermitsAccounted' /\ NoIdlePermit'
         /\ \A d \in Calls : at'[d] \in {"first", "second"} <=> at[d] \in {"first", "second"}
<1>c. /\ c \in Calls /\ at[c] = from /\ c \in Held
      /\ at \in [Calls -> Points] /\ permits \in Nat /\ lost \in Nat
      /\ permits + lost + Cardinality(Held) = MaxConnections
  BY Accounts DEF Calls, Release, Held, Holding, PoolInv
<1>f. /\ IsFiniteSet(Held) /\ Cardinality(Held) \in Nat
      /\ IsFiniteSet(Held \ {c}) /\ Cardinality(Held \ {c}) = Cardinality(Held) - 1
  BY <1>c, HeldIsFinite, FS_RemoveElement
<1>1. CASE waiting = <<>>
  <2>1. /\ at' = [at EXCEPT ![c] = "idle"] /\ permits' = permits + 1 /\ waiting' = waiting
    BY <1>1 DEF Release
  <2>2. at' \in [Calls -> Points] /\ Queued' /\ Held' = Held \ {c}
    BY <1>c, <2>1, MovesOn DEF Points
  <2>3. PermitsAccounted'
    BY <1>c, <1>f, <2>1, <2>2, Accounts
  <2>4. \A d \in Calls : at'[d] \in {"first", "second"} <=> at[d] \in {"first", "second"}
    BY <1>c, <2>1
  <2> QED
    BY <1>1, <1>c, <2>1, <2>2, <2>3, <2>4 DEF NoIdlePermit
<1>2. CASE waiting # <<>>
  <2> DEFINE w == Head(waiting)
             q == Tail(waiting)
  <2>0. waiting \in Seq(Pooled) /\ Len(waiting) \in Nat \ {0}
    BY <1>2, EmptySeq DEF PoolInv, Queued
  <2>1. /\ w \in Pooled /\ w = waiting[1] /\ q \in Seq(Pooled) /\ Len(q) = Len(waiting) - 1
        /\ \A i \in 1..Len(q) : q[i] = waiting[i + 1]
    BY <1>2, <2>0, HeadTailProperties
  <2>2. at[w] = "waiting" /\ w \in Calls /\ w # c /\ w \notin Held
    BY <1>c, <2>0, <2>1 DEF PoolInv, Queued, Calls, Held, Holding
  <2>3. /\ at' = [at EXCEPT ![c] = "idle", ![w] = "creating"]
        /\ waiting' = q /\ permits' = permits
    BY <1>2 DEF Release
  <2> HIDE DEF w, q
  <2>4. /\ at' \in [Calls -> Points] /\ at'[c] = "idle" /\ at'[w] = "creating"
        /\ \A d \in Calls \ {c, w} : at'[d] = at[d]
    BY <1>c, <2>2, <2>3 DEF Points
  <2>5. Held' = (Held \ {c}) \cup {w}
    BY <1>c, <2>1, <2>2, <2>4 DEF Held, Holding, Calls
  <2>6. Cardinality(Held') = Cardinality(Held)
    <3>1. w \notin Held \ {c}
      BY <2>2
    <3>2. Cardinality((Held \ {c}) \cup {w}) = Cardinality(Held \ {c}) + 1
      BY <1>f, <3>1, FS_AddElement
    <3> QED
      BY <1>f, <2>5, <3>2
  <2>7. PermitsAccounted'
    BY <1>c, <2>3, <2>6, Accounts
  <2>8. Queued'
    <3>1. \A i \in 1..Len(waiting) : at[waiting[i]] = "waiting" /\ waiting[i] \in Calls
      BY <2>0, ElementOfSeq DEF PoolInv, Queued, Calls
    <3>2. \A i, j \in 1..Len(waiting) : waiting[i] = waiting[j] => i = j
      BY DEF PoolInv, Queued
    <3>3. \A i \in 1..Len(q) : q[i] \in Calls /\ at[q[i]] = "waiting" /\ q[i] # w
      BY <2>0, <2>1, <3>1, <3>2
    <3>4. \A i, j \in 1..Len(q) : q[i] = q[j] => i = j
      BY <2>0, <2>1, <3>2
    <3>5. \A i \in 1..Len(q) : at'[q[i]] = "waiting"
      BY <1>c, <2>4, <3>3
    <3> QED
      BY <2>1, <2>3, <3>4, <3>5 DEF Queued
  <2>9. \A d \in Calls : at'[d] \in {"first", "second"} <=> at[d] \in {"first", "second"}
    BY <1>c, <2>2, <2>4
  <2> QED
    BY <1>2, <1>c, <2>3, <2>4, <2>7, <2>8, <2>9 DEF NoIdlePermit, PoolInv
<1> QED
  BY <1>1, <1>2

LEMMA AcquireKeeps == ASSUME PoolInv, NEW c \in Calls, Acquire(c) PROVE PoolInv'
<1>t. /\ at \in [Calls -> Points] /\ permits \in Nat /\ lost \in Nat
      /\ permits + lost + Cardinality(Held) = MaxConnections
      /\ c \in Pooled /\ at[c] = "idle" /\ c \notin Held /\ lost' = lost
      /\ IsFiniteSet(Held) /\ Cardinality(Held) \in Nat
  BY Accounts, HeldIsFinite DEF PoolInv, Acquire, Goes, Held, Holding
<1>a. ASSUME NEW to \in {"creating", "waiting"}, at' = [at EXCEPT ![c] = to] PROVE AllOrNothing'
  BY <1>t, <1>a DEF Acquire, PoolInv, AllOrNothing
<1>1. CASE permits > 0
  <2>1. /\ at' = [at EXCEPT ![c] = "creating"] /\ permits' = permits - 1
        /\ waiting' = waiting
    BY <1>1 DEF Acquire, Goes
  <2>2. at' \in [Calls -> Points] /\ Queued' /\ Held' = Held \cup {c}
    BY <1>t, <2>1, MovesOn DEF Points
  <2>3. Cardinality(Held') = Cardinality(Held) + 1
    BY <1>t, <2>2, FS_AddElement
  <2>4. PermitsAccounted'
    BY <1>t, <1>1, <2>1, <2>3, Accounts
  <2>5. waiting = <<>>
    BY <1>1, <1>t DEF PoolInv, NoIdlePermit
  <2> QED
    BY <1>t, <1>1, <1>a, <2>1, <2>2, <2>4, <2>5 DEF PoolInv, NoIdlePermit
<1>2. CASE ~(permits > 0)
  <2>1. /\ at' = [at EXCEPT ![c] = "waiting"] /\ permits' = permits
        /\ waiting' = Append(waiting, c)
    BY <1>2 DEF Acquire, Goes
  <2>2. /\ at' \in [Calls -> Points] /\ at'[c] = "waiting"
        /\ \A d \in Calls \ {c} : at'[d] = at[d]
    BY <1>t, <2>1 DEF Points
  <2>3. Held' = Held
    BY <1>t, <2>2 DEF Held, Holding, Calls
  <2>4. /\ waiting \in Seq(Pooled) /\ Len(waiting) \in Nat
        /\ \A i \in 1..Len(waiting) : at[waiting[i]] = "waiting" /\ waiting[i] \in Calls
        /\ \A i, j \in 1..Len(waiting) : waiting[i] = waiting[j] => i = j
    BY ElementOfSeq, LenProperties DEF PoolInv, Queued, Calls
  <2>5. /\ waiting' \in Seq(Pooled) /\ Len(waiting') = Len(waiting) + 1
        /\ \A i \in 1..Len(waiting) : waiting'[i] = waiting[i]
        /\ waiting'[Len(waiting) + 1] = c
    BY <1>t, <2>1, <2>4, AppendProperties
  <2>6. \A i \in 1..Len(waiting) : waiting[i] # c
    BY <1>t, <2>4
  <2>7. Queued'
    <3>1. \A i \in 1..Len(waiting') : at'[waiting'[i]] = "waiting"
      BY <2>2, <2>4, <2>5, <2>6
    <3>2. \A i, j \in 1..Len(waiting') : waiting'[i] = waiting'[j] => i = j
      BY <2>4, <2>5, <2>6
    <3> QED
      BY <2>5, <3>1, <3>2 DEF Queued
  <2>8. PermitsAccounted'
    BY <1>t, <2>1, <2>3, Accounts
  <2> QED
    BY <1>t, <1>2, <1>a, <2>1, <2>2, <2>7, <2>8 DEF PoolInv, NoIdlePermit
<1> QED
  BY <1>1, <1>2

(* A call that neither takes nor returns a permit. *)
LEMMA KeepsPermits ==
  ASSUME PoolInv, NEW c \in Calls, NEW from \in Points \ {"waiting"},
         NEW to \in Points \ {"waiting"}, Goes(c, from, to),
         c \in Unpooled \/ (from # "idle" /\ to # "idle"),
         UNCHANGED <<permits, waiting, lost>>, AllOrNothing'
  PROVE  PoolInv'
<1>1. at[c] = from /\ at' = [at EXCEPT ![c] = to] /\ c \in Calls
  BY DEF Goes
<1>2. /\ at' \in [Calls -> Points] /\ Queued'
      /\ Held' = IF c \in Pooled /\ to # "idle" THEN Held \cup {c} ELSE Held \ {c}
  BY <1>1, MovesOn
<1>3. c \in Unpooled => c \notin Pooled /\ c \notin Held
  BY PoolAssumption DEF Held
<1>4. c \notin Unpooled => c \in Pooled /\ c \in Held
  BY <1>1 DEF Held, Holding, Calls, Points
<1>5. Held' = Held
  BY <1>2, <1>3, <1>4
<1>6. PermitsAccounted'
  BY <1>5, Accounts DEF PoolInv
<1> QED
  BY <1>2, <1>6 DEF PoolInv, NoIdlePermit

LEMMA CancelledKeeps == ASSUME PoolInv, NEW c \in Calls, Cancelled(c) PROVE PoolInv'
<1>t. /\ at \in [Calls -> Points] /\ permits \in Nat /\ lost \in Nat
      /\ permits + lost + Cardinality(Held) = MaxConnections
      /\ c \in Pooled /\ permits' = permits
      /\ IsFiniteSet(Held) /\ Cardinality(Held) \in Nat
  BY Accounts, HeldIsFinite, PoolAssumption DEF PoolInv, Cancelled
<1>a. ASSUME at[c] \in {"waiting", "creating"}, at' = [at EXCEPT ![c] = "idle"]
      PROVE  AllOrNothing'
  BY <1>t, <1>a DEF Cancelled, PoolInv, AllOrNothing
<1>1. ASSUME at[c] = "waiting", at' = [at EXCEPT ![c] = "idle"], lost' = lost,
             NEW i \in DOMAIN waiting, waiting[i] = c, waiting' = RemoveAt(waiting, i)
      PROVE  PoolInv'
  <2>1. /\ at' \in [Calls -> Points] /\ at'[c] = "idle"
        /\ \A d \in Calls \ {c} : at'[d] = at[d]
    BY <1>t, <1>1 DEF Points
  <2>2. Held' = Held
    BY <1>1, <2>1 DEF Held, Holding, Calls
  <2>3. /\ waiting \in Seq(Pooled) /\ Len(waiting) \in Nat /\ i \in 1..Len(waiting)
        /\ \A k \in 1..Len(waiting) : at[waiting[k]] = "waiting" /\ waiting[k] \in Calls
        /\ \A k, j \in 1..Len(waiting) : waiting[k] = waiting[j] => k = j
    BY ElementOfSeq, LenProperties DEF PoolInv, Queued, Calls
  <2> DEFINE q == RemoveAt(waiting, i)
  <2>4. /\ q \in Seq(Pooled) /\ Len(q) = Len(waiting) - 1
        /\ \A j \in 1..(Len(waiting) - 1) : q[j] = IF j < i THEN waiting[j] ELSE waiting[j + 1]
    BY <2>3, RemoveAtShape
  <2>5. waiting' = q
    BY <1>1
  <2> HIDE DEF q
  <2>6. \A j \in 1..Len(q) : \E k \in 1..Len(waiting) :
          q[j] = waiting[k] /\ k # i /\ k = IF j < i THEN j ELSE j + 1
    BY <2>3, <2>4
  <2>7. \A j \in 1..Len(q) : at'[q[j]] = "waiting"
    BY <1>1, <2>1, <2>3, <2>6
  <2>8. ASSUME NEW k \in 1..Len(q), NEW j \in 1..Len(q), q[k] = q[j] PROVE k = j
    <3>1. PICK kk \in 1..Len(waiting) : q[k] = waiting[kk] /\ kk = IF k < i THEN k ELSE k + 1
      BY <2>6
    <3>2. PICK jj \in 1..Len(waiting) : q[j] = waiting[jj] /\ jj = IF j < i THEN j ELSE j + 1
      BY <2>6
    <3>3. kk = jj
      BY <2>3, <2>8, <3>1, <3>2
    <3>4. k \in Int /\ j \in Int /\ i \in Int
      BY <2>3, <2>4
    <3> QED
      BY <3>1, <3>2, <3>3, <3>4
  <2>9. Queued'
    BY <2>4, <2>5, <2>7, <2>8 DEF Queued
  <2>10. PermitsAccounted'
    BY <1>t, <1>1, <2>2, Accounts
  <2>11. NoIdlePermit'
    BY <1>t, <2>3, EmptySeq DEF PoolInv, NoIdlePermit
  <2> QED
    BY <1>t, <1>a, <1>1, <2>1, <2>9, <2>10, <2>11 DEF PoolInv
<1>2. ASSUME at[c] = "creating", at' = [at EXCEPT ![c] = "idle"], lost = 0, lost' = lost + 1,
             waiting' = waiting
      PROVE  PoolInv'
  <2>1. at' \in [Calls -> Points] /\ Queued' /\ Held' = Held \ {c}
    BY <1>2, MovesOn DEF Points
  <2>2. c \in Held
    BY <1>t, <1>2 DEF Held, Holding
  <2>3. Cardinality(Held') = Cardinality(Held) - 1
    BY <1>t, <2>1, <2>2, FS_RemoveElement
  <2>4. PermitsAccounted'
    BY <1>t, <1>2, <2>3, Accounts
  <2> QED
    BY <1>t, <1>a, <1>2, <2>1, <2>4 DEF PoolInv, NoIdlePermit
<1> QED
  BY <1>1, <1>2 DEF Cancelled, Goes

LEMMA PoolStep == PoolInv /\ [PoolNext]_poolVars => PoolInv'
<1> SUFFICES ASSUME PoolInv, [PoolNext]_poolVars PROVE PoolInv'
  OBVIOUS
<1>c. ASSUME NEW c \in Calls PROVE c \notin Pooled => c \in Unpooled
  BY DEF Calls
<1>1. ASSUME NEW c \in Calls, Connect(c) PROVE PoolInv'
  <2>1. AllOrNothing'
    BY <1>1 DEF Connect, Goes, PoolInv, AllOrNothing
  <2> QED
    BY <1>1, <2>1, KeepsPermits DEF Connect, Points
<1>2. ASSUME NEW c \in Calls, Opened(c) PROVE PoolInv'
  <2>1. AllOrNothing'
    BY <1>2 DEF Opened, Goes, PoolInv, AllOrNothing
  <2> QED
    BY <1>2, <2>1, KeepsPermits DEF Opened, Points
<1>3. ASSUME NEW c \in Calls, Reads(c) PROVE PoolInv'
  <2>1. AllOrNothing'
    BY <1>3 DEF Reads, Goes, PoolInv, AllOrNothing
  <2> QED
    BY <1>3, <2>1, KeepsPermits DEF Reads, Points
<1>4. ASSUME NEW c \in Calls, FirstStatement(c) PROVE PoolInv'
  <2>1. AllOrNothing'
    BY <1>4, PoolAssumption DEF FirstStatement, Goes, PoolInv, AllOrNothing
  <2> QED
    BY <1>4, <2>1, KeepsPermits DEF FirstStatement, Points
<1>5. ASSUME NEW c \in Calls, SecondStatement(c) PROVE PoolInv'
  <2>1. AllOrNothing'
    BY <1>5 DEF SecondStatement, Goes, PoolInv, AllOrNothing
  <2> QED
    BY <1>5, <2>1, KeepsPermits DEF SecondStatement, Points
<1>6. ASSUME NEW c \in Calls, Commit(c) PROVE PoolInv'
  <2>1. writer = c /\ at[c] = "second"
    BY <1>6 DEF Commit, Goes, PoolInv, AllOrNothing
  <2>2. AllOrNothing'
    BY <1>6, <2>1, PoolAssumption DEF Commit, Goes, PoolInv, AllOrNothing
  <2> QED
    BY <1>6, <2>2, KeepsPermits DEF Commit, Points
<1>7. ASSUME NEW c \in Calls, Raises(c) PROVE PoolInv'
  <2>1. PICK p \in {"held", "first", "second"} : Goes(c, p, "releasing")
    BY <1>7 DEF Raises
  <2>2. AllOrNothing'
    BY <1>7, <2>1, PoolAssumption DEF Raises, Goes, PoolInv, AllOrNothing
  <2> QED
    BY <1>7, <2>1, <2>2, KeepsPermits DEF Raises, Points
<1>8. ASSUME NEW c \in Calls, NEW from \in {"creating", "releasing"},
             UNCHANGED <<writer, saved, lost>>,
             IF c \in Pooled THEN Release(c, from)
             ELSE Goes(c, from, "idle") /\ UNCHANGED <<permits, waiting>>
      PROVE  PoolInv'
  <2>1. CASE c \in Pooled
    <3>1. AllOrNothing'
      BY <1>8, <2>1, ReleaseKeeps DEF PoolInv, AllOrNothing
    <3> QED
      BY <1>8, <2>1, <3>1, ReleaseKeeps DEF PoolInv
  <2>2. CASE c \notin Pooled
    <3>1. AllOrNothing'
      BY <1>8, <2>2 DEF Goes, PoolInv, AllOrNothing
    <3> QED
      BY <1>8, <1>c, <2>2, <3>1, KeepsPermits DEF Points
  <2> QED
    BY <2>1, <2>2
<1>9. ASSUME NEW c \in Calls, OpenFails(c) \/ Closes(c) PROVE PoolInv'
  BY <1>8, <1>9 DEF OpenFails, Closes
<1>10. CASE CloseAll \/ UNCHANGED poolVars
  <2>1. UNCHANGED <<at, permits, waiting, writer, saved, lost>>
    BY <1>10 DEF CloseAll, poolVars
  <2>2. Queued'
    BY <2>1 DEF PoolInv, Queued
  <2>3. PermitsAccounted'
    BY <2>1 DEF PoolInv, PermitsAccounted, Holding
  <2>4. AllOrNothing' /\ NoIdlePermit'
    BY <2>1 DEF PoolInv, AllOrNothing, NoIdlePermit
  <2> QED
    BY <2>1, <2>2, <2>3, <2>4 DEF PoolInv
<1> QED
  BY <1>1, <1>2, <1>3, <1>4, <1>5, <1>6, <1>7, <1>9, <1>10, AcquireKeeps, CancelledKeeps
     DEF PoolNext

LEMMA PoolInvariant == ServicesSpec => []PoolInv
  BY PoolStart, PoolStep, ServicesAreSpecs, PTL DEF PoolSpec

(* A call that fails or is cancelled, wherever it is, keeps no permit, but  *)
(* for those counted as lost, for any number of calls and connections.      *)
THEOREM PermitsAccountedAlways == ServicesSpec => []PermitsAccounted
<1>1. PoolInv => PermitsAccounted
  BY DEF PoolInv
<1> QED
  BY <1>1, PoolInvariant, PTL

(* Transactions are committed whole or not at all, and an ended call keeps  *)
(* the write lock from nobody.                                              *)
THEOREM AllOrNothingAlways == ServicesSpec => []AllOrNothing
<1>1. PoolInv => AllOrNothing
  BY DEF PoolInv
<1> QED
  BY <1>1, PoolInvariant, PTL

(* No call waits while a permit is free. *)
THEOREM NoIdlePermitAlways == ServicesSpec => []NoIdlePermit
<1>1. PoolInv => NoIdlePermit
  BY DEF PoolInv
<1> QED
  BY <1>1, PoolInvariant, PTL
-------------------------------------------------------------------------------
(* The launches of the database. *)
Fields == {"versions", "schema", "rows", "profiles", "samples"}

(* The shape of a database, without what is in it. *)
Shaped(d) ==
  /\ DOMAIN d = Fields /\ d = [f \in Fields |-> d[f]]
  /\ DOMAIN d.rows = Tables /\ d.rows = [t \in Tables |-> d.rows[t]]
  /\ DOMAIN d.samples = ArtifactTables
  /\ d.samples = [a \in ArtifactTables |-> d.samples[a]]

(* A change of a database that keeps its shape and what it records. *)
Reshaped(d, e) == Shaped(e) /\ e.versions = d.versions

(* A launch applies what is not recorded yet, and what is committed is      *)
(* complete only when nothing is pending.                                   *)
LaunchInv ==
  /\ Shaped(disk) /\ Shaped(work)
  /\ disk.versions \subseteq work.versions /\ work.versions \subseteq Versions
  /\ disk.versions = Versions => work = disk
  /\ dbPhase = "migrating" => todo = Versions \ work.versions
  /\ dbPhase # "migrating" => work = disk /\ ~inScript
  /\ inScript => \E v \in Scripted : Earliest(v)

(* No migration records a version or loses a table. *)
LEMMA RowsReshaped ==
  ASSUME NEW d, Shaped(d), NEW t \in Tables, NEW ks
  PROVE  Reshaped(d, Overwrite(d, t, ks)) /\ Reshaped(d, Ignore(d, t, ks))
  BY DEF Overwrite, Ignore, Shaped, Fields, Reshaped

LEMMA ProfilesReshaped ==
  ASSUME NEW d, Shaped(d)
  PROVE  Reshaped(d, FillProfiles(d)) /\ Reshaped(d, UniqueProfiles(d))
  BY DEF FillProfiles, UniqueProfiles, Shaped, Fields, Reshaped

LEMMA MigrateShaped ==
  ASSUME NEW d, Shaped(d), NEW v \in Versions, NEW o
  PROVE  Reshaped(d, Migrate(v, d, o))
<1>1. Reshaped(d, CreateBase(d))
  BY DEF CreateBase, Shaped, Fields, Reshaped
<1>2. Reshaped(d, ExpandColumns(d))
  BY DEF ExpandColumns, Shaped, Fields, Reshaped
<1>3. Reshaped(d, MigrateSettings(d, o))
  <2> DEFINE a == Overwrite(d, "settings", o.settings)
  <2>1. Reshaped(d, a)
    BY RowsReshaped DEF Tables
  <2>2. Reshaped(a, Overwrite(a, "runtime_housekeeping", o.runtime))
    BY <2>1, RowsReshaped DEF Tables, Reshaped
  <2> QED
    BY <2>1, <2>2 DEF MigrateSettings, Reshaped
<1>4. Reshaped(d, MigrateDomain(d, o))
  <2> DEFINE a1 == MigrateRollback(d, o)
             a2 == Ignore(a1, "benchmark_runs", o.benchmarks)
             a3 == MigrateBenchmarks(a1, o)
             a4 == MigrateNetwork(a3, o)
             a5 == FillProfiles(a4)
             a6 == MigrateTweaks(a5, o)
             a7 == ProjectAccounts(a6, o)
             a8 == MigrateEntitlements(a7, o)
  <2>1. Reshaped(d, a1)
    BY RowsReshaped DEF Tables, MigrateRollback
  <2>2. Reshaped(a1, a2)
    BY <2>1, RowsReshaped DEF Tables, Reshaped
  <2>3. Reshaped(a2, a3)
    BY <2>2, RowsReshaped DEF Tables, Reshaped, MigrateBenchmarks
  <2>4. Reshaped(a3, a4)
    BY <2>3, RowsReshaped DEF Tables, Reshaped, MigrateNetwork
  <2>5. Reshaped(a4, a5)
    BY <2>4, ProfilesReshaped DEF Reshaped
  <2>6. Reshaped(a5, a6)
    BY <2>5, RowsReshaped DEF Tables, Reshaped, MigrateTweaks
  <2>7. Reshaped(a6, a7)
    BY <2>6, RowsReshaped DEF Tables, Reshaped, ProjectAccounts
  <2>8. Reshaped(a7, a8)
    BY <2>7, RowsReshaped DEF Tables, Reshaped, MigrateEntitlements
  <2>9. MigrateDomain(d, o) = a8
    BY DEF MigrateDomain
  <2> HIDE DEF a1, a2, a3, a4, a5, a6, a7, a8
  <2> QED
    BY <2>1, <2>2, <2>3, <2>4, <2>5, <2>6, <2>7, <2>8, <2>9 DEF Reshaped
<1>5. Reshaped(d, ImportArtifact(d, o))
  BY DEF ImportArtifact, Shaped, Fields, Reshaped
<1>6. Reshaped(d, UniqueProfiles(d))
  BY ProfilesReshaped
<1>7. Reshaped(d, AddHealth(d))
  BY DEF AddHealth, Shaped, Fields, Reshaped
<1> QED
  BY <1>1, <1>2, <1>3, <1>4, <1>5, <1>6, <1>7 DEF Migrate, Versions

LEMMA RecordShaped ==
  ASSUME NEW d, Shaped(d), NEW v
  PROVE  Shaped(Record(v, d)) /\ Record(v, d).versions = d.versions \cup {v}
  BY DEF Record, Shaped, Fields

LEMMA LaunchStart == LaunchInit => LaunchInv
<1> SUFFICES ASSUME LaunchInit PROVE LaunchInv
  OBVIOUS
<1>1. disk \in Db /\ work = disk /\ dbPhase = "down" /\ ~inScript
  BY LaunchesAssumption DEF LaunchInit
<1>2. Shaped(disk) /\ disk.versions \subseteq Versions
  BY <1>1 DEF Db, Shaped, Fields
<1> QED
  BY <1>1, <1>2 DEF LaunchInv

(* The same of what the running backend does. *)
LEMMA ServedShaped ==
  ASSUME Shaped(disk)
  PROVE  /\ \A t \in Tables, k \in Keys :
              Reshaped(disk, [disk EXCEPT !.rows[t] = [j \in DOMAIN @ \cup {k} |-> IF j = k THEN "user" ELSE @[j]]])
         /\ \A a \in ArtifactTables : Reshaped(disk, [disk EXCEPT !.samples[a] = "user"])
         /\ \A ps : Reshaped(disk, [disk EXCEPT !.profiles = ps])
         /\ Reshaped(disk, [disk EXCEPT !.rows = [t \in Tables |-> IF t \in BenchmarkTables THEN NoRows ELSE @[t]]])
<1>2. \A t \in Tables, k \in Keys :
              Reshaped(disk, [disk EXCEPT !.rows[t] = [j \in DOMAIN @ \cup {k} |-> IF j = k THEN "user" ELSE @[j]]])
  BY DEF Shaped, Fields, Reshaped
<1>3. \A a \in ArtifactTables : Reshaped(disk, [disk EXCEPT !.samples[a] = "user"])
  BY DEF Shaped, Fields, Reshaped
<1>4. \A ps : Reshaped(disk, [disk EXCEPT !.profiles = ps])
  BY DEF Shaped, Fields, Reshaped
<1>5. Reshaped(disk, [disk EXCEPT !.rows = [t \in Tables |-> IF t \in BenchmarkTables THEN NoRows ELSE @[t]]])
  BY DEF Shaped, Fields, Reshaped
<1> QED
  BY <1>2, <1>3, <1>4, <1>5

(* A row the running backend writes, whichever it is. *)
Written ==
  \/ \E t \in WrittenTables, k \in Keys : WriteRow(t, k)
  \/ \E a \in ArtifactTables : WriteSample(a)
  \/ \E g \in Games : SaveProfile(g)
  \/ ClearBenchmarks

LEMMA WrittenShaped ==
  ASSUME LaunchInv, Written
  PROVE  dbPhase = "serving" /\ Reshaped(disk, disk') /\ work' = disk' /\ UNCHANGED <<dbPhase, todo, inScript>>
<1> USE DEF LaunchInv, Served
<1>1. ASSUME NEW t \in WrittenTables, NEW k \in Keys, WriteRow(t, k)
      PROVE  dbPhase = "serving" /\ Reshaped(disk, disk') /\ work' = disk' /\ UNCHANGED <<dbPhase, todo, inScript>>
  BY <1>1, ServedShaped, LaunchesAssumption DEF WriteRow
<1>2. ASSUME NEW a \in ArtifactTables, WriteSample(a)
      PROVE  dbPhase = "serving" /\ Reshaped(disk, disk') /\ work' = disk' /\ UNCHANGED <<dbPhase, todo, inScript>>
  BY <1>2, ServedShaped DEF WriteSample
<1>3. ASSUME NEW g \in Games, SaveProfile(g)
      PROVE  dbPhase = "serving" /\ Reshaped(disk, disk') /\ work' = disk' /\ UNCHANGED <<dbPhase, todo, inScript>>
  BY <1>3, ServedShaped DEF SaveProfile
<1>4. ASSUME ClearBenchmarks
      PROVE  dbPhase = "serving" /\ Reshaped(disk, disk') /\ work' = disk' /\ UNCHANGED <<dbPhase, todo, inScript>>
  BY <1>4, ServedShaped DEF ClearBenchmarks
<1> QED
  BY <1>1, <1>2, <1>3, <1>4 DEF Written

LEMMA LaunchStep == LaunchInv /\ [LaunchNext]_dbVars => LaunchInv'
<1> SUFFICES ASSUME LaunchInv, [LaunchNext]_dbVars PROVE LaunchInv'
  OBVIOUS
<1> USE DEF LaunchInv
<1>1. CASE BeginMigrations
  BY <1>1 DEF BeginMigrations, Unapplied
<1>2. ASSUME NEW v \in Versions, ApplyMigration(v) PROVE LaunchInv'
  <2>1. v \in todo /\ v \notin work.versions /\ todo = Versions \ work.versions
    BY <1>2 DEF ApplyMigration, Earliest
  <2>3. ~inScript
    BY <1>2, <2>1 DEF ApplyMigration, Earliest, Versions
  <2>2. Shaped(work') /\ work'.versions = work.versions \cup {v}
    BY <1>2, MigrateShaped, RecordShaped DEF ApplyMigration, Reshaped
  <2> QED
    BY <1>2, <2>1, <2>2, <2>3 DEF ApplyMigration
<1>3. ASSUME NEW v \in Versions, ScriptCommits(v) PROVE LaunchInv'
  BY <1>3 DEF ScriptCommits, Earliest
<1>4. ASSUME NEW v \in Versions, ScriptRuns(v) PROVE LaunchInv'
  <2>1. v \in todo /\ v \notin work.versions /\ todo = Versions \ work.versions
    BY <1>4 DEF ScriptRuns, Earliest
  <2>2. Shaped(work') /\ work'.versions = work.versions \cup {v}
    BY <1>4, MigrateShaped, RecordShaped DEF ScriptRuns, Reshaped
  <2>3. Shaped(disk') /\ disk'.versions = disk.versions
    BY <1>4, MigrateShaped DEF ScriptRuns, Reshaped
  <2> QED
    BY <1>4, <2>1, <2>2, <2>3 DEF ScriptRuns
<1>5. ASSUME NEW v \in Versions, MigrationRaises(v) PROVE LaunchInv'
  BY <1>5 DEF MigrationRaises, Fails, Earliest, Scripted
<1>6. CASE FinishMigrations
  BY <1>6 DEF FinishMigrations, Earliest
<1>7. CASE DbDies
  BY <1>7 DEF DbDies
<1>8. CASE Written
  BY <1>8, WrittenShaped DEF Reshaped, Earliest
<1>9. CASE UNCHANGED dbVars
  BY <1>9 DEF dbVars, Earliest
<1> QED
  BY <1>1, <1>2, <1>3, <1>4, <1>5, <1>6, <1>7, <1>8, <1>9 DEF LaunchNext, Written
(* Legacy rows are compared table by table. *)
LEMMA LegacySubset ==
  ASSUME NEW d, NEW e,
         \A t \in Tables : \A k \in DOMAIN e.rows[t] : e.rows[t][k] = "legacy" =>
            k \in DOMAIN d.rows[t] /\ d.rows[t][k] = "legacy",
         \A a \in ArtifactTables : e.samples[a] = "legacy" => d.samples[a] = "legacy"
  PROVE  LegacyRows(e) \subseteq LegacyRows(d)
<1> DEFINE Of(x) == UNION {{t} \X {k \in DOMAIN x.rows[t] : x.rows[t][k] = "legacy"} : t \in Tables}
           Samples(x) == {<<a, "samples">> : a \in {b \in ArtifactTables : x.samples[b] = "legacy"}}
<1>1. Of(e) \subseteq Of(d)
  <2> SUFFICES ASSUME NEW t \in Tables, NEW r \in {t} \X {k \in DOMAIN e.rows[t] : e.rows[t][k] = "legacy"}
               PROVE  r \in {t} \X {k \in DOMAIN d.rows[t] : d.rows[t][k] = "legacy"}
    OBVIOUS
  <2> QED
    OBVIOUS
<1>2. Samples(e) \subseteq Samples(d)
  OBVIOUS
<1>3. LegacyRows(e) = Of(e) \cup Samples(e) /\ LegacyRows(d) = Of(d) \cup Samples(d)
  BY DEF LegacyRows
<1> QED
  BY <1>1, <1>2, <1>3

LEMMA WrittenKeepsLegacy ==
  ASSUME Shaped(disk), Written
  PROVE  LegacyRows(disk') \subseteq LegacyRows(disk)
<1>1. ASSUME NEW t \in WrittenTables, NEW k \in Keys, WriteRow(t, k)
      PROVE  LegacyRows(disk') \subseteq LegacyRows(disk)
  <2>1. /\ disk' = [disk EXCEPT !.rows[t] =
                       [j \in DOMAIN @ \cup {k} |-> IF j = k THEN "user" ELSE @[j]]]
        /\ t \in Tables
    BY <1>1, LaunchesAssumption DEF WriteRow, Served
  <2>2. /\ disk'.samples = disk.samples
        /\ \A s \in Tables : s # t => disk'.rows[s] = disk.rows[s]
        /\ disk'.rows[t] = [j \in DOMAIN disk.rows[t] \cup {k} |->
                             IF j = k THEN "user" ELSE disk.rows[t][j]]
    BY <2>1 DEF Shaped, Fields
  <2>3. \A j \in DOMAIN disk'.rows[t] : disk'.rows[t][j] = "legacy" =>
          j \in DOMAIN disk.rows[t] /\ disk.rows[t][j] = "legacy"
    BY <2>2
  <2> QED
    BY <2>2, <2>3, LegacySubset
<1>2. ASSUME NEW a \in ArtifactTables, WriteSample(a)
      PROVE  LegacyRows(disk') \subseteq LegacyRows(disk)
  <2>1. disk' = [disk EXCEPT !.samples[a] = "user"]
    BY <1>2 DEF WriteSample, Served
  <2>2. /\ disk'.rows = disk.rows
        /\ \A b \in ArtifactTables : disk'.samples[b] = IF b = a THEN "user" ELSE disk.samples[b]
    BY <2>1 DEF Shaped, Fields
  <2> QED
    BY <2>2, LegacySubset
<1>3. ASSUME NEW g \in Games, SaveProfile(g)
      PROVE  LegacyRows(disk') \subseteq LegacyRows(disk)
  <2>1. disk'.rows = disk.rows /\ disk'.samples = disk.samples
    BY <1>3 DEF SaveProfile, Served, Shaped, Fields
  <2> QED
    BY <2>1, LegacySubset
<1>4. ASSUME ClearBenchmarks PROVE LegacyRows(disk') \subseteq LegacyRows(disk)
  <2>1. disk'.samples = disk.samples
    BY <1>4 DEF ClearBenchmarks, Served, Shaped, Fields
  <2>2. \A t \in Tables : disk'.rows[t] = IF t \in BenchmarkTables THEN NoRows ELSE disk.rows[t]
    BY <1>4 DEF ClearBenchmarks, Served, Shaped, Fields
  <2>3. DOMAIN NoRows = {}
    BY DEF NoRows
  <2> QED
    BY <2>1, <2>2, <2>3, LegacySubset
<1> QED
  BY <1>1, <1>2, <1>3, <1>4 DEF Written

(* Once all versions are recorded, no launch, crashed or not, brings back a *)
(* legacy row that the user has overwritten or cleared, for any database    *)
(* that an older release may have left.                                     *)
THEOREM MigratedOnceAlways == ServicesSpec => MigratedOnce
<1>1. ASSUME LaunchInv, [LaunchNext]_dbVars, disk.versions = Versions
      PROVE  LegacyRows(disk') \subseteq LegacyRows(disk)
  <2>0. work = disk /\ (dbPhase = "migrating" => todo = {}) /\ Shaped(disk)
    BY <1>1 DEF LaunchInv
  <2>1. CASE disk' = disk
    BY <2>1
  <2>2. CASE Written
    BY <2>0, <2>2, WrittenKeepsLegacy
  <2>3. ASSUME NEW v \in Versions PROVE ~ScriptCommits(v) /\ ~ScriptRuns(v)
    BY <2>0 DEF ScriptCommits, ScriptRuns, Earliest
  <2> QED
    BY <1>1, <2>0, <2>1, <2>2, <2>3
       DEF LaunchNext, BeginMigrations, ApplyMigration, MigrationRaises, FinishMigrations,
           DbDies, Written, dbVars
<1> QED
  BY <1>1, LaunchStart, LaunchStep, ServicesAreSpecs, PTL DEF LaunchSpec, MigratedOnce
-------------------------------------------------------------------------------
(* Finite sets have a greatest element in every total order.                *)
LEMMA FiniteGreatest ==
  ASSUME NEW S, IsFiniteSet(S), S # {}, NEW R,
         \A x, y \in S : <<x, y>> \in R \/ <<y, x>> \in R,
         \A x, y, z \in S : <<x, y>> \in R /\ <<y, z>> \in R => <<x, z>> \in R
  PROVE  \E x \in S : \A y \in S : <<x, y>> \in R
<1> DEFINE Topped(U) == \E x \in U : \A y \in U : <<x, y>> \in R
           Untopped == {U \in SUBSET S : U # {} /\ ~Topped(U)}
<1>1. SUFFICES ASSUME ~Topped(S) PROVE FALSE
  OBVIOUS
<1>2. Untopped # {} /\ Untopped \subseteq FiniteSubsetsOf(S)
  BY <1>1, FS_FiniteSubsetsOfFinite
<1>3. PICK U \in Untopped : \A V \in Untopped : ~(<<V, U>> \in StrictSubsetOrdering(S))
  <2> HIDE DEF Untopped
  <2> QED
    BY <1>2, WFMin, FS_StrictSubsetOrderingWellFounded
<1>4. PICK x \in U : TRUE
  OBVIOUS
<1>5. CASE U \ {x} = {}
  BY <1>4, <1>5
<1>6. CASE U \ {x} # {}
  <2>1. Topped(U \ {x})
    <3>1. <<U \ {x}, U>> \in StrictSubsetOrdering(S)
      BY <1>4 DEF StrictSubsetOrdering
    <3> QED
      BY <1>3, <1>6, <3>1
  <2>2. PICK y \in U \ {x} : \A z \in U \ {x} : <<y, z>> \in R
    BY <2>1
  <2>3. CASE <<y, x>> \in R
    BY <2>2, <2>3
  <2>4. CASE <<x, y>> \in R
    BY <1>4, <2>2, <2>4
  <2> QED
    BY <2>2, <2>3, <2>4, <1>4
<1> QED
  BY <1>5, <1>6

LEMMA LeastNumber ==
  ASSUME NEW T, T \subseteq Nat, T # {}
  PROVE  \E m \in T : \A n \in T : m <= n
<1>1. PICK n \in T : TRUE
  OBVIOUS
<1> DEFINE F == {k \in T : k <= n}
           R == {p \in Nat \X Nat : p[1] <= p[2]}
<1>2. IsFiniteSet(F) /\ F # {}
  BY <1>1, FS_BoundedSetOfNaturals
<1>3. \A x, y \in F : <<x, y>> \in R \/ <<y, x>> \in R
  OBVIOUS
<1>4. \A x, y, z \in F : <<x, y>> \in R /\ <<y, z>> \in R => <<x, z>> \in R
  OBVIOUS
<1>5. PICK m \in F : \A y \in F : <<m, y>> \in R
  <2> HIDE DEF F, R
  <2> QED
    BY <1>2, <1>3, <1>4, FiniteGreatest
<1>6. ASSUME NEW k \in T PROVE m <= k
  <2>1. CASE k <= n
    BY <1>5, <2>1
  <2>2. CASE ~(k <= n)
    BY <1>1, <1>5, <2>2
  <2> QED
    BY <2>1, <2>2
<1> QED
  BY <1>6

LEMMA GreatestNumber ==
  ASSUME NEW T, T \subseteq Nat, IsFiniteSet(T), T # {}
  PROVE  \E m \in T : \A n \in T : m >= n
<1> DEFINE R == {p \in Nat \X Nat : p[1] >= p[2]}
<1>3. \A x, y \in T : <<x, y>> \in R \/ <<y, x>> \in R
  OBVIOUS
<1>4. \A x, y, z \in T : <<x, y>> \in R /\ <<y, z>> \in R => <<x, z>> \in R
  OBVIOUS
<1>5. \E x \in T : \A y \in T : <<x, y>> \in R
  <2> HIDE DEF R
  <2> QED
    BY <1>3, <1>4, FiniteGreatest
<1> QED
  BY <1>5

(* The image of a finite set is finite, and no larger.                      *)
LEMMA FiniteImage ==
  ASSUME NEW S, IsFiniteSet(S), NEW f, f = [x \in S |-> f[x]]
  PROVE  IsFiniteSet({f[x] : x \in S}) /\ Cardinality({f[x] : x \in S}) <= Cardinality(S)
<1> DEFINE T == {f[x] : x \in S}
<1>1. f \in [S -> T]
  OBVIOUS
<1>2. f \in Surjection(S, T)
  BY <1>1 DEF Surjection
<1> QED
  BY <1>2, FS_Surjection

(* Of the profiles of a table there is a newest one.                        *)
LEMMA NewestExists ==
  ASSUME NEW S, S \subseteq Profile, IsFiniteSet(S), S # {}
  PROVE  \E p \in S : \A q \in S : Newer(p, q)
<1> DEFINE R == {pq \in Profile \X Profile : Newer(pq[1], pq[2])}
<1>1. \A x, y \in S : <<x, y>> \in R \/ <<y, x>> \in R
  BY DEF Newer, Profile
<1>2. \A x, y, z \in S : <<x, y>> \in R /\ <<y, z>> \in R => <<x, z>> \in R
  BY DEF Newer, Profile
<1>3. \E x \in S : \A y \in S : <<x, y>> \in R
  <2> HIDE DEF R
  <2> QED
    BY <1>1, <1>2, FiniteGreatest
<1> QED
  BY <1>3
-------------------------------------------------------------------------------
(* What a launch knows of a database that it works on.                      *)
Sound(d) ==
  /\ Shaped(d) /\ d.profiles \subseteq Profile /\ IsFiniteSet(d.profiles)
  /\ \A p \in d.profiles : p.row # 0

Filled(d)     == \A p \in d.profiles : p.filled # 0
Distinct(d)   == \A p, q \in d.profiles : p.row = q.row => p = q
OnePerGame(d) == \A p, q \in d.profiles : p.game = q.game => p = q

(* e has all that d has, and of each game a profile at least as new.        *)
Advances(d, e) ==
  /\ Reshaped(d, e) /\ Sound(e)
  /\ d.schema \subseteq e.schema
  /\ \A t \in Tables : DOMAIN d.rows[t] \subseteq DOMAIN e.rows[t]
  /\ \A a \in ArtifactTables : d.samples[a] # "empty" => e.samples[a] # "empty"
  /\ Filled(d) => Filled(e)
  /\ Distinct(d) => Distinct(e)
  /\ OnePerGame(d) => OnePerGame(e)
  /\ \A p \in d.profiles : \E q \in e.profiles : q.game = p.game /\ q.stamp >= p.stamp

LEMMA AdvancesOn ==
  ASSUME NEW d, NEW e, NEW f, Sound(d), Advances(d, e), Advances(e, f)
  PROVE  Advances(d, f)
<1>1. ASSUME NEW p \in d.profiles
      PROVE  \E q \in f.profiles : q.game = p.game /\ q.stamp >= p.stamp
  <2>1. PICK q \in e.profiles : q.game = p.game /\ q.stamp >= p.stamp
    BY DEF Advances
  <2>2. PICK r \in f.profiles : r.game = q.game /\ r.stamp >= q.stamp
    BY DEF Advances
  <2>3. p.stamp \in Nat /\ q.stamp \in Nat /\ r.stamp \in Nat
    BY DEF Advances, Sound, Profile
  <2> QED
    BY <2>1, <2>2, <2>3
<1>2. \A a \in ArtifactTables : d.samples[a] # "empty" => f.samples[a] # "empty"
  BY DEF Advances
<1>3. \A t \in Tables : DOMAIN d.rows[t] \subseteq DOMAIN f.rows[t]
  BY DEF Advances
<1> QED
  BY <1>1, <1>2, <1>3 DEF Advances, Reshaped

(* A change of no profile.                                                  *)
LEMMA SameProfiles ==
  ASSUME NEW d, NEW e, Sound(d), Reshaped(d, e), e.profiles = d.profiles,
         d.schema \subseteq e.schema,
         \A t \in Tables : DOMAIN d.rows[t] \subseteq DOMAIN e.rows[t],
         \A a \in ArtifactTables : d.samples[a] # "empty" => e.samples[a] # "empty"
  PROVE  Advances(d, e)
<1>1. \A p \in d.profiles : p.stamp \in Nat
  BY DEF Sound, Profile
<1>2. \A p \in d.profiles : \E q \in e.profiles : q.game = p.game /\ q.stamp >= p.stamp
  BY <1>1
<1> QED
  BY <1>2 DEF Advances, Sound, Reshaped, Filled, Distinct, OnePerGame

LEMMA RowsAdvance ==
  ASSUME NEW d, Sound(d), NEW t \in Tables, NEW ks
  PROVE  /\ Advances(d, Overwrite(d, t, ks)) /\ Has(Overwrite(d, t, ks), t, ks)
         /\ Advances(d, Ignore(d, t, ks)) /\ Has(Ignore(d, t, ks), t, ks)
<1>1. ASSUME NEW e, e \in {Overwrite(d, t, ks), Ignore(d, t, ks)}
      PROVE  Advances(d, e) /\ Has(e, t, ks)
  <2>1. Shaped(d) /\ Reshaped(d, e)
    BY <1>1, RowsReshaped DEF Sound
  <2>2. e.profiles = d.profiles /\ e.schema = d.schema /\ e.samples = d.samples
    BY <1>1, <2>1 DEF Overwrite, Ignore, Shaped, Fields
  <2>3. \A s \in Tables : s # t => e.rows[s] = d.rows[s]
    BY <1>1, <2>1 DEF Overwrite, Ignore, Shaped, Fields
  <2>4. DOMAIN e.rows[t] = DOMAIN d.rows[t] \cup ks
    BY <1>1, <2>1 DEF Overwrite, Ignore, Shaped, Fields
  <2> QED
    BY <2>1, <2>2, <2>3, <2>4, SameProfiles DEF Has
<1> QED
  BY <1>1

(* Filling in the columns touches no other; the first row is a row.         *)
LEMMA FillAdvances ==
  ASSUME NEW d, Sound(d)
  PROVE  Advances(d, FillProfiles(d)) /\ Filled(FillProfiles(d))
<1> DEFINE e == FillProfiles(d)
           F(p) == IF p.filled = 0 THEN FirstRow(d, p.game) ELSE p.filled
           fill == [p \in d.profiles |-> [p EXCEPT !.filled = F(p)]]
<1>1. Reshaped(d, e)
  BY ProfilesReshaped DEF Sound
<1>2. /\ e.schema = d.schema /\ e.rows = d.rows /\ e.samples = d.samples
      /\ e.profiles = {fill[p] : p \in d.profiles}
  <2> DEFINE ps == {[p EXCEPT !.filled = F(p)] : p \in d.profiles}
  <2>1. e = [d EXCEPT !.profiles = ps]
    BY DEF FillProfiles
  <2>2. ps = {fill[p] : p \in d.profiles}
    OBVIOUS
  <2> HIDE DEF ps, e, fill
  <2> QED
    BY <2>1, <2>2 DEF Sound, Shaped, Fields
<1>3. ASSUME NEW p \in d.profiles PROVE F(p) \in Nat /\ F(p) # 0
  <2>1. p \in Profile /\ \A q \in d.profiles : q \in Profile /\ q.row \in Nat /\ q.row # 0
    BY DEF Sound, Profile
  <2> DEFINE T == {q.row : q \in {q \in d.profiles : q.game = p.game}}
  <2>2. PICK m \in T : \A n \in T : m <= n
    <3>1. T \subseteq Nat /\ p.row \in T
      BY <2>1
    <3> QED
      BY <3>1, LeastNumber
  <2>3. /\ m \in {q.row : q \in d.profiles}
        /\ \E q \in d.profiles : q.row = m /\ q.game = p.game
        /\ \A q \in d.profiles : q.game = p.game => m <= q.row
    BY <2>2
  <2>4. FirstRow(d, p.game) \in {q.row : q \in d.profiles}
    BY <2>3 DEF FirstRow
  <2> QED
    BY <2>1, <2>4 DEF Profile
<1>4. \A p \in d.profiles : /\ fill[p] \in Profile /\ fill[p].filled = F(p)
                            /\ fill[p].row = p.row /\ fill[p].game = p.game
                            /\ fill[p].stamp = p.stamp
  <2> HIDE DEF F
  <2> QED
    BY <1>3 DEF Sound, Profile
<1>5. IsFiniteSet(e.profiles)
  <2>1. fill = [p \in d.profiles |-> fill[p]]
    OBVIOUS
  <2> HIDE DEF fill
  <2> QED
    BY <1>2, <2>1, FiniteImage DEF Sound
<1>6. Sound(e) /\ Filled(e)
  <2> HIDE DEF fill, F, e
  <2> QED
    BY <1>1, <1>2, <1>3, <1>4, <1>5 DEF Sound, Filled, Reshaped
<1>7. \A p \in d.profiles : p.stamp \in Nat
  BY DEF Sound, Profile
<1> HIDE DEF fill, F, e
<1>8. \A p \in d.profiles : \E q \in e.profiles : q.game = p.game /\ q.stamp >= p.stamp
  BY <1>2, <1>4, <1>7
<1>9. (Distinct(d) => Distinct(e)) /\ (OnePerGame(d) => OnePerGame(e))
  BY <1>2, <1>4 DEF Distinct, OnePerGame
<1> QED
  BY <1>1, <1>2, <1>6, <1>8, <1>9 DEF Advances, e

(* Of each game the newest profile is kept.                                 *)
LEMMA UniqueAdvances ==
  ASSUME NEW d, Sound(d)
  PROVE  /\ Advances(d, UniqueProfiles(d)) /\ "unique" \in UniqueProfiles(d).schema
         /\ Distinct(d) => OnePerGame(UniqueProfiles(d))
<1> DEFINE e == UniqueProfiles(d)
<1>1. Reshaped(d, e)
  BY ProfilesReshaped DEF Sound
<1>2. /\ e.schema = d.schema \cup {"unique"} /\ e.rows = d.rows /\ e.samples = d.samples
      /\ e.profiles = {p \in d.profiles : \A q \in d.profiles : q.game = p.game => Newer(p, q)}
  BY DEF UniqueProfiles, Sound, Shaped, Fields
<1> HIDE DEF e
<1>3. Sound(e)
  BY <1>1, <1>2, FS_Subset DEF Sound, Reshaped
<1>4. ASSUME NEW p \in d.profiles
      PROVE  \E q \in e.profiles : q.game = p.game /\ q.stamp >= p.stamp
  <2> DEFINE S == {q \in d.profiles : q.game = p.game}
  <2>1. S \subseteq Profile /\ IsFiniteSet(S) /\ p \in S
    BY FS_Subset DEF Sound
  <2>2. PICK n \in S : \A q \in S : Newer(n, q)
    <3> HIDE DEF S
    <3> QED
      BY <2>1, NewestExists
  <2>3. n \in e.profiles /\ n.game = p.game
    BY <1>2, <2>2
  <2>4. n.stamp >= p.stamp
    BY <2>1, <2>2 DEF Newer, Profile
  <2> QED
    BY <2>3, <2>4
<1>5. Distinct(d) => OnePerGame(e)
  BY <1>2 DEF Distinct, OnePerGame, Newer, Sound, Profile
<1>6. (Distinct(d) => Distinct(e)) /\ (OnePerGame(d) => OnePerGame(e)) /\ (Filled(d) => Filled(e))
  BY <1>2 DEF Distinct, OnePerGame, Filled
<1> QED
  BY <1>1, <1>2, <1>3, <1>4, <1>5, <1>6 DEF Advances, e

(* The domain tables of migration 4.                                        *)
DomainDone(d, o) ==
  /\ Has(d, "rollback_snapshots", o.snapshots) /\ Has(d, "network_snapshots", o.network)
  /\ Has(d, "tweak_applications", o.tweaks) /\ Has(d, "account_cache", o.accounts)
  /\ Has(d, "entitlement_snapshot_history", o.entitlements)
  /\ Filled(d) /\ BenchmarksDone(d, o)

LEMMA HasOn ==
  ASSUME NEW d, NEW e, Advances(d, e), NEW t \in Tables, NEW ks, Has(d, t, ks)
  PROVE  Has(e, t, ks)
  BY DEF Advances, Has

LEMMA SettingsAdvance ==
  ASSUME NEW d, Sound(d), NEW o
  PROVE  /\ Advances(d, MigrateSettings(d, o))
         /\ Has(MigrateSettings(d, o), "settings", o.settings)
         /\ Has(MigrateSettings(d, o), "runtime_housekeeping", o.runtime)
<1> DEFINE a == Overwrite(d, "settings", o.settings)
<1>1. Advances(d, a) /\ Sound(a) /\ Has(a, "settings", o.settings)
  BY RowsAdvance DEF Tables, Advances
<1>2. /\ Advances(a, Overwrite(a, "runtime_housekeeping", o.runtime))
      /\ Has(Overwrite(a, "runtime_housekeeping", o.runtime), "runtime_housekeeping", o.runtime)
  BY <1>1, RowsAdvance DEF Tables
<1>3. "settings" \in Tables
  BY DEF Tables
<1>4. MigrateSettings(d, o) = Overwrite(a, "runtime_housekeeping", o.runtime)
  BY DEF MigrateSettings
<1> HIDE DEF a
<1> QED
  BY <1>1, <1>2, <1>3, <1>4, AdvancesOn, HasOn

LEMMA DomainAdvance ==
  ASSUME NEW d, Sound(d), NEW o
  PROVE  Advances(d, MigrateDomain(d, o)) /\ DomainDone(MigrateDomain(d, o), o)
<1> DEFINE a1 == MigrateRollback(d, o)
           a2 == Ignore(a1, "benchmark_runs", o.benchmarks)
           a3 == MigrateBenchmarks(a1, o)
           a4 == MigrateNetwork(a3, o)
           a5 == FillProfiles(a4)
           a6 == MigrateTweaks(a5, o)
           a7 == ProjectAccounts(a6, o)
           a8 == MigrateEntitlements(a7, o)
<1>1. Advances(d, a1) /\ Sound(a1) /\ Has(a1, "rollback_snapshots", o.snapshots)
  BY RowsAdvance DEF Tables, MigrateRollback, Advances
<1>2. Advances(a1, a2) /\ Sound(a2) /\ Has(a2, "benchmark_runs", o.benchmarks)
  BY <1>1, RowsAdvance DEF Tables, Advances
<1>3. Advances(a2, a3) /\ Sound(a3) /\ Has(a3, "benchmark_results", o.benchmarks)
  BY <1>2, RowsAdvance DEF Tables, MigrateBenchmarks, Advances
<1>4. Advances(a3, a4) /\ Sound(a4) /\ Has(a4, "network_snapshots", o.network)
  BY <1>3, RowsAdvance DEF Tables, MigrateNetwork, Advances
<1>5. Advances(a4, a5) /\ Sound(a5) /\ Filled(a5)
  BY <1>4, FillAdvances DEF Advances
<1>6. Advances(a5, a6) /\ Sound(a6) /\ Has(a6, "tweak_applications", o.tweaks)
  BY <1>5, RowsAdvance DEF Tables, MigrateTweaks, Advances
<1>7. Advances(a6, a7) /\ Sound(a7) /\ Has(a7, "account_cache", o.accounts)
  BY <1>6, RowsAdvance DEF Tables, ProjectAccounts, Advances
<1>8. Advances(a7, a8) /\ Sound(a8) /\ Has(a8, "entitlement_snapshot_history", o.entitlements)
  BY <1>7, RowsAdvance DEF Tables, MigrateEntitlements, Advances
<1>9. MigrateDomain(d, o) = a8
  BY DEF MigrateDomain
<1> HIDE DEF a1, a2, a3, a4, a5, a6, a7, a8
<1>10. /\ Advances(a7, a8) /\ Advances(a6, a8) /\ Advances(a5, a8) /\ Advances(a4, a8)
       /\ Advances(a3, a8) /\ Advances(a2, a8) /\ Advances(a1, a8) /\ Advances(d, a8)
  BY <1>1, <1>2, <1>3, <1>4, <1>5, <1>6, <1>7, <1>8, AdvancesOn
<1>11. /\ Has(a8, "rollback_snapshots", o.snapshots) /\ Has(a8, "network_snapshots", o.network)
       /\ Has(a8, "tweak_applications", o.tweaks) /\ Has(a8, "account_cache", o.accounts)
       /\ Has(a8, "benchmark_runs", o.benchmarks) /\ Has(a8, "benchmark_results", o.benchmarks)
  BY <1>1, <1>2, <1>3, <1>4, <1>6, <1>7, <1>10, HasOn DEF Tables
<1>12. Filled(a8)
  BY <1>5, <1>10 DEF Advances
<1> QED
  BY <1>8, <1>9, <1>10, <1>11, <1>12 DEF DomainDone, BenchmarksDone, BenchmarkTables

(* A migration keeps what others have done, and does what its version says. *)
LEMMA MigrateAdvances ==
  ASSUME NEW d, Sound(d), NEW o, NEW v \in Versions,
         ~Fails(v, d, o), v = 6 => Distinct(d)
  PROVE  /\ Advances(d, Migrate(v, d, o)) /\ Done(v, Migrate(v, d, o), o)
         /\ v = 4 => BenchmarksDone(Migrate(v, d, o), o)
<1> USE DEF Sound
<1>1. CASE v = 1
  <2>1. Reshaped(d, CreateBase(d)) /\ CreateBase(d).schema = d.schema \cup {"base"}
        /\ CreateBase(d).rows = d.rows /\ CreateBase(d).samples = d.samples
        /\ CreateBase(d).profiles = d.profiles
    BY DEF CreateBase, Shaped, Fields, Reshaped
  <2> QED
    BY <1>1, <2>1, SameProfiles DEF Migrate, Done
<1>2. CASE v = 2
  <2>1. Reshaped(d, ExpandColumns(d)) /\ ExpandColumns(d).schema = d.schema \cup {"columns"}
        /\ ExpandColumns(d).rows = d.rows /\ ExpandColumns(d).samples = d.samples
        /\ ExpandColumns(d).profiles = d.profiles
    BY DEF ExpandColumns, Shaped, Fields, Reshaped
  <2> QED
    BY <1>2, <2>1, SameProfiles DEF Migrate, Done
<1>3. CASE v = 3
  BY <1>3, SettingsAdvance DEF Migrate, Done
<1>4. CASE v = 4
  BY <1>4, DomainAdvance DEF Migrate, Done, DomainDone, Filled
<1>5. CASE v = 5
  <2> DEFINE e == ImportArtifact(d, o)
  <2>1. Reshaped(d, e) /\ e.schema = d.schema /\ e.rows = d.rows /\ e.profiles = d.profiles
    BY DEF ImportArtifact, Shaped, Fields, Reshaped
  <2>2. \A a \in ArtifactTables :
          e.samples[a] = IF Copied(d, o, a) THEN "legacy" ELSE d.samples[a]
    BY DEF ImportArtifact, Shaped, Fields
  <2>3. \A a \in ArtifactTables : d.samples[a] # "empty" => e.samples[a] # "empty"
    BY <2>2 DEF Copied
  <2>4. \A a \in ArtifactTables : o.artifact[a] = "rows" => e.samples[a] # "empty"
    BY <2>2 DEF Copied
  <2>5. Migrate(v, d, o) = e
    BY <1>5 DEF Migrate
  <2> HIDE DEF e
  <2> QED
    BY <1>5, <2>1, <2>3, <2>4, <2>5, SameProfiles DEF Done
<1>6. CASE v = 6
  <2>1. Migrate(v, d, o) = UniqueProfiles(d)
    BY <1>6 DEF Migrate
  <2> QED
    BY <1>6, <2>1, UniqueAdvances DEF Done, OnePerGame
<1>7. CASE v = 7
  <2>1. Reshaped(d, AddHealth(d)) /\ AddHealth(d).schema = d.schema \cup {"health"}
        /\ AddHealth(d).rows = d.rows /\ AddHealth(d).samples = d.samples
        /\ AddHealth(d).profiles = d.profiles
    BY DEF AddHealth, Shaped, Fields, Reshaped
  <2> QED
    BY <1>7, <2>1, SameProfiles DEF Migrate, Done
<1> QED
  BY <1>1, <1>2, <1>3, <1>4, <1>5, <1>6, <1>7 DEF Versions

LEMMA DoneOn ==
  ASSUME NEW d, NEW e, Advances(d, e), NEW o, NEW v \in Versions, Done(v, d, o)
  PROVE  Done(v, e, o)
<1>1. CASE v = 1
  BY <1>1 DEF Done, Advances
<1>2. CASE v = 2
  BY <1>2 DEF Done, Advances
<1>3. CASE v = 3
  BY <1>3, HasOn DEF Done, Tables
<1>4. CASE v = 4
  <2>1. Filled(e)
    BY <1>4 DEF Done, Advances, Filled
  <2> QED
    BY <1>4, <2>1, HasOn DEF Done, Tables, Filled
<1>5. CASE v = 5
  BY <1>5 DEF Done, Advances
<1>6. CASE v = 6
  BY <1>6 DEF Done, Advances, OnePerGame
<1>7. CASE v = 7
  BY <1>7 DEF Done, Advances
<1> QED
  BY <1>1, <1>2, <1>3, <1>4, <1>5, <1>6, <1>7 DEF Versions

(* What a version promises does not depend on what is recorded. *)
LEMMA DoneSame ==
  ASSUME NEW d, NEW e, e.schema = d.schema, e.rows = d.rows, e.samples = d.samples,
         e.profiles = d.profiles, NEW o, NEW v \in Versions, Done(v, d, o)
  PROVE  Done(v, e, o)
<1>1. CASE v = 1
  BY <1>1 DEF Done
<1>2. CASE v = 2
  BY <1>2 DEF Done
<1>3. CASE v = 3
  BY <1>3 DEF Done, Has
<1>4. CASE v = 4
  BY <1>4 DEF Done, Has
<1>5. CASE v = 5
  BY <1>5 DEF Done
<1>6. CASE v = 6
  BY <1>6 DEF Done
<1>7. CASE v = 7
  BY <1>7 DEF Done
<1> QED
  BY <1>1, <1>2, <1>3, <1>4, <1>5, <1>6, <1>7 DEF Versions

(* The versions a database records are done, and it has of each game of an  *)
(* older release a profile at least as new; until migration 6 has run, its  *)
(* rowids tell the profiles apart.                                          *)
Faithful(d) ==
  /\ Sound(d)
  /\ \A v \in d.versions : Done(v, d, old)
  /\ 4 \in d.versions /\ ~cleared => BenchmarksDone(d, old)
  /\ 6 \notin d.versions => Distinct(d)
  /\ \A p \in oldProfiles : \E q \in d.profiles : q.game = p.game /\ q.stamp >= p.stamp

LEMMA FaithfulOn ==
  ASSUME NEW d, NEW e, Faithful(d), Advances(d, e), d.versions \subseteq Versions,
         oldProfiles \subseteq Profile
  PROVE  Faithful(e)
<1>1. e.versions = d.versions /\ Sound(e)
  BY DEF Advances, Reshaped
<1>2. \A v \in e.versions : Done(v, e, old)
  BY <1>1, DoneOn DEF Faithful
<1>3. 4 \in e.versions /\ ~cleared => BenchmarksDone(e, old)
  BY <1>1, HasOn DEF Faithful, BenchmarksDone, BenchmarkTables, Tables
<1>4. ASSUME NEW p \in oldProfiles
      PROVE  \E q \in e.profiles : q.game = p.game /\ q.stamp >= p.stamp
  <2>1. PICK q \in d.profiles : q.game = p.game /\ q.stamp >= p.stamp
    BY DEF Faithful
  <2>2. PICK r \in e.profiles : r.game = q.game /\ r.stamp >= q.stamp
    BY DEF Advances
  <2>3. p.stamp \in Nat /\ q.stamp \in Nat /\ r.stamp \in Nat
    BY DEF Faithful, Advances, Sound, Profile
  <2> QED
    BY <2>1, <2>2, <2>3
<1> QED
  BY <1>1, <1>2, <1>3, <1>4 DEF Faithful, Advances

LEMMA RecordFaithful ==
  ASSUME NEW d, Faithful(d), d.versions \subseteq Versions, NEW v \in Versions,
         Done(v, d, old), v = 4 => BenchmarksDone(d, old)
  PROVE  Faithful(Record(v, d))
<1> DEFINE e == Record(v, d)
<1>1. /\ e.versions = d.versions \cup {v} /\ e.schema = d.schema /\ e.rows = d.rows
      /\ e.samples = d.samples /\ e.profiles = d.profiles
  BY DEF Record, Faithful, Sound, Shaped, Fields
<1>2. Shaped(e)
  BY RecordShaped DEF Faithful, Sound
<1> HIDE DEF e
<1>3. \A w \in e.versions : Done(w, e, old)
  BY <1>1, DoneSame DEF Faithful
<1> QED
  BY <1>1, <1>2, <1>3 DEF Faithful, Sound, BenchmarksDone, Has, Distinct, e

FaithfulInv ==
  /\ LaunchInv
  /\ Faithful(disk) /\ Faithful(work)
  /\ oldProfiles \subseteq Profile /\ \A p \in oldProfiles : p.stamp <= Now
  /\ dbPhase = "serving" => disk.versions = Versions

LEMMA FaithfulStart == LaunchInit => FaithfulInv
<1> SUFFICES ASSUME LaunchInit PROVE FaithfulInv
  OBVIOUS
<1>1. LaunchInv
  BY LaunchStart
<1>2. PICK release \in Releases :
        /\ dbPhase = "down" /\ disk = release.disk /\ work = release.disk
        /\ old = release.old /\ oldProfiles = release.disk.profiles
  BY DEF LaunchInit
<1>3. disk \in Db /\ Shaped(disk)
  BY <1>1, <1>2, LaunchesAssumption DEF LaunchInv
<1>4. disk.profiles \subseteq Profile
  BY <1>3 DEF Db
<1>5. /\ \A v \in disk.versions : Done(v, disk, old)
      /\ 4 \in disk.versions => BenchmarksDone(disk, old)
      /\ IsFiniteSet(disk.profiles)
      /\ \A p \in disk.profiles : p.row # 0 /\ p.stamp <= Now
      /\ \A p, q \in disk.profiles : p.row = q.row => p = q
  BY <1>2, ReleasesAssumption
<1>6. \A p \in disk.profiles : p.stamp \in Nat
  BY <1>4 DEF Profile
<1> QED
  BY <1>1, <1>2, <1>3, <1>4, <1>5, <1>6 DEF FaithfulInv, Faithful, Sound, Distinct

(* Saving a profile keeps one profile of each game, with a rowid.           *)
LEMMA SavedFaithful ==
  ASSUME FaithfulInv, NEW g \in Games, SaveProfile(g)
  PROVE  Faithful(disk')
<1> DEFINE same == {p \in disk.profiles : p.game = g}
           row  == IF same # {} THEN Min({p.row : p \in same})
                   ELSE 1 + Max({0} \cup {p.row : p \in disk.profiles})
           new  == [row |-> row, game |-> g, stamp |-> Now, filled |-> row]
           ps   == (disk.profiles \ same) \cup {new}
<1>1. /\ disk.versions = Versions /\ Faithful(disk) /\ Sound(disk) /\ disk' = [disk EXCEPT !.profiles = ps]
  BY DEF FaithfulInv, SaveProfile, Served, Faithful
<1>2. /\ disk'.versions = disk.versions /\ disk'.schema = disk.schema /\ disk'.rows = disk.rows
      /\ disk'.samples = disk.samples /\ disk'.profiles = ps /\ Shaped(disk')
  <2> HIDE DEF ps
  <2> QED
    BY <1>1 DEF Sound, Shaped, Fields
<1>3. row \in Nat /\ row # 0
  <2>1. \A p \in disk.profiles : p.row \in Nat /\ p.row # 0
    BY <1>1 DEF Sound, Profile
  <2>2. CASE same # {}
    <3> DEFINE T == {p.row : p \in same}
    <3>1. PICK m \in T : \A n \in T : m <= n
      <4>1. T \subseteq Nat /\ T # {}
        BY <2>1, <2>2
      <4> QED
        BY <4>1, LeastNumber
    <3>2. Min(T) \in T
      BY <3>1 DEF Min
    <3>3. Min(T) \in Nat /\ Min(T) # 0
      BY <2>1, <3>2
    <3> QED
      BY <2>2, <3>3
  <2>3. CASE same = {}
    <3> DEFINE f == [p \in disk.profiles |-> p.row]
               R == {p.row : p \in disk.profiles}
               T == {0} \cup R
    <3>1. R = {f[p] : p \in disk.profiles}
      OBVIOUS
    <3>2. IsFiniteSet(R)
      <4>1. f = [p \in disk.profiles |-> f[p]] /\ IsFiniteSet(disk.profiles)
        BY <1>1 DEF Sound
      <4> HIDE DEF f, R
      <4> QED
        BY <3>1, <4>1, FiniteImage
    <3>3. IsFiniteSet(T) /\ T \subseteq Nat /\ T # {}
      <4>1. R \subseteq Nat
        BY <2>1
      <4> HIDE DEF R
      <4>2. IsFiniteSet(R \cup {0})
        BY <3>2, FS_AddElement
      <4>3. T = R \cup {0}
        OBVIOUS
      <4> QED
        BY <4>1, <4>2, <4>3
    <3>4. PICK m \in T : \A n \in T : m >= n
      <4> HIDE DEF T
      <4> QED
        BY <3>3, GreatestNumber
    <3>5. Max(T) \in T
      BY <3>4 DEF Max
    <3>6. Max(T) \in Nat
      BY <3>3, <3>5
    <3> QED
      BY <2>3, <3>6
  <2> QED
    BY <2>2, <2>3
<1> HIDE DEF row
<1>4. new \in Profile /\ new.row # 0 /\ new.filled # 0 /\ new.game = g /\ new.stamp = Now
  BY <1>3, LaunchesAssumption DEF Profile
<1>5. IsFiniteSet(ps)
  <2>1. IsFiniteSet(disk.profiles \ same)
    BY <1>1, FS_Difference DEF Sound
  <2> QED
    BY <2>1, FS_AddElement
<1> HIDE DEF new
<1>6. Sound(disk')
  BY <1>1, <1>2, <1>4, <1>5 DEF Sound
<1>7. ASSUME NEW v \in Versions PROVE Done(v, disk', old)
  <2>1. Done(v, disk, old)
    BY <1>1 DEF Faithful
  <2>2. CASE v = 4
    <3>1. Filled(disk)
      BY <2>1, <2>2 DEF Done, Filled
    <3> QED
      BY <1>2, <1>4, <2>1, <2>2, <3>1 DEF Done, Filled, Has
  <2>3. CASE v = 6
    <3>1. OnePerGame(disk) /\ "unique" \in disk.schema
      BY <2>1, <2>3 DEF Done, OnePerGame
    <3>2. OnePerGame(disk')
      BY <1>2, <1>4, <3>1 DEF OnePerGame
    <3> QED
      BY <1>2, <2>3, <3>1, <3>2 DEF Done, OnePerGame
  <2>4. CASE v = 1
    BY <1>2, <2>1, <2>4 DEF Done
  <2>5. CASE v = 2
    BY <1>2, <2>1, <2>5 DEF Done
  <2>6. CASE v = 3
    BY <1>2, <2>1, <2>6 DEF Done, Has
  <2>7. CASE v = 5
    BY <1>2, <2>1, <2>7 DEF Done
  <2>8. CASE v = 7
    BY <1>2, <2>1, <2>8 DEF Done
  <2> QED
    BY <2>2, <2>3, <2>4, <2>5, <2>6, <2>7, <2>8 DEF Versions
<1>8. ASSUME NEW p \in oldProfiles
      PROVE  \E q \in disk'.profiles : q.game = p.game /\ q.stamp >= p.stamp
  <2>1. PICK q \in disk.profiles : q.game = p.game /\ q.stamp >= p.stamp
    BY <1>1 DEF Faithful
  <2>2. CASE q.game = g
    BY <1>2, <1>4, <2>1, <2>2 DEF FaithfulInv, Profile
  <2>3. CASE q.game # g
    BY <1>2, <2>1, <2>3
  <2> QED
    BY <2>2, <2>3
<1>9. 4 \in disk'.versions /\ ~cleared => BenchmarksDone(disk', old)
  BY <1>1, <1>2 DEF Faithful, BenchmarksDone, Has
<1>10. 6 \in Versions
  BY DEF Versions
<1> QED
  BY <1>1, <1>2, <1>6, <1>7, <1>8, <1>9, <1>10 DEF Faithful

LEMMA WrittenFaithful ==
  ASSUME FaithfulInv, Written
  PROVE  Faithful(disk)'
<1> USE DEF FaithfulInv
<1>1. Sound(disk) /\ Shaped(disk) /\ disk.versions \subseteq Versions
  BY DEF Faithful, Sound, LaunchInv
<1>2. UNCHANGED <<old, oldProfiles, cleared>> /\ Faithful(disk') => Faithful(disk)'
  BY DEF Faithful
<1>3. ASSUME NEW t \in WrittenTables, NEW k \in Keys, WriteRow(t, k) PROVE Faithful(disk)'
  <2>1. /\ disk' = [disk EXCEPT !.rows[t] =
                       [j \in DOMAIN @ \cup {k} |-> IF j = k THEN "user" ELSE @[j]]]
        /\ t \in Tables /\ UNCHANGED <<old, oldProfiles, cleared>>
    BY <1>3, LaunchesAssumption DEF WriteRow, Served
  <2>2. Reshaped(disk, disk')
    BY <1>1, <2>1, ServedShaped
  <2>3. /\ disk'.samples = disk.samples /\ disk'.profiles = disk.profiles
        /\ disk'.schema = disk.schema
        /\ \A s \in Tables : DOMAIN disk.rows[s] \subseteq DOMAIN disk'.rows[s]
    BY <1>1, <2>1 DEF Shaped, Fields
  <2>4. Advances(disk, disk')
    BY <1>1, <2>2, <2>3, SameProfiles
  <2> QED
    BY <1>1, <1>2, <2>1, <2>4, FaithfulOn
<1>4. ASSUME NEW a \in ArtifactTables, WriteSample(a) PROVE Faithful(disk)'
  <2>1. disk' = [disk EXCEPT !.samples[a] = "user"] /\ UNCHANGED <<old, oldProfiles, cleared>>
    BY <1>4 DEF WriteSample, Served
  <2>2. Reshaped(disk, disk')
    BY <1>1, <2>1, ServedShaped
  <2>3. /\ disk'.rows = disk.rows /\ disk'.profiles = disk.profiles
        /\ disk'.schema = disk.schema
        /\ \A b \in ArtifactTables : disk.samples[b] # "empty" => disk'.samples[b] # "empty"
    BY <1>1, <2>1 DEF Shaped, Fields
  <2>4. Advances(disk, disk')
    BY <1>1, <2>2, <2>3, SameProfiles
  <2> QED
    BY <1>1, <1>2, <2>1, <2>4, FaithfulOn
<1>5. ASSUME NEW g \in Games, SaveProfile(g) PROVE Faithful(disk)'
  <2>1. UNCHANGED <<old, oldProfiles, cleared>>
    BY <1>5 DEF SaveProfile, Served
  <2> QED
    BY <1>2, <1>5, <2>1, SavedFaithful
<1>6. ASSUME ClearBenchmarks PROVE Faithful(disk)'
  <2>1. /\ disk' = [disk EXCEPT !.rows =
                       [t \in Tables |-> IF t \in BenchmarkTables THEN NoRows ELSE @[t]]]
        /\ UNCHANGED <<old, oldProfiles>> /\ cleared'
    BY <1>6 DEF ClearBenchmarks, Served
  <2>2. Shaped(disk')
    BY <1>1, <2>1, ServedShaped DEF Reshaped
  <2>3. /\ disk'.samples = disk.samples /\ disk'.profiles = disk.profiles
        /\ disk'.schema = disk.schema /\ disk'.versions = disk.versions
        /\ \A t \in Tables \ BenchmarkTables : disk'.rows[t] = disk.rows[t]
    BY <1>1, <2>1 DEF Shaped, Fields
  <2>4. ASSUME NEW v \in Versions, Done(v, disk, old) PROVE Done(v, disk', old)
    <3>1. CASE v = 1
      BY <2>3, <2>4, <3>1 DEF Done
    <3>2. CASE v = 2
      BY <2>3, <2>4, <3>2 DEF Done
    <3>3. CASE v = 3
      BY <2>3, <2>4, <3>3 DEF Done, Has, Tables, BenchmarkTables
    <3>4. CASE v = 4
      BY <2>3, <2>4, <3>4 DEF Done, Has, Tables, BenchmarkTables
    <3>5. CASE v = 5
      BY <2>3, <2>4, <3>5 DEF Done
    <3>6. CASE v = 6
      BY <2>3, <2>4, <3>6 DEF Done
    <3>7. CASE v = 7
      BY <2>3, <2>4, <3>7 DEF Done
    <3> QED
      BY <3>1, <3>2, <3>3, <3>4, <3>5, <3>6, <3>7 DEF Versions
  <2>5. Faithful(disk)
    OBVIOUS
  <2> QED
    BY <1>1, <2>1, <2>2, <2>3, <2>4, <2>5 DEF Faithful, Sound, Distinct
<1> QED
  BY <1>3, <1>4, <1>5, <1>6 DEF Written

LEMMA FaithfulStep == FaithfulInv /\ [LaunchNext]_dbVars => FaithfulInv'
<1> SUFFICES ASSUME FaithfulInv, [LaunchNext]_dbVars PROVE FaithfulInv'
  OBVIOUS
<1>0. LaunchInv' /\ LaunchInv
  BY LaunchStep DEF FaithfulInv
<1>1. \A d : UNCHANGED <<old, oldProfiles, cleared>> /\ Faithful(d) =>
        (disk' = d => Faithful(disk)') /\ (work' = d => Faithful(work)')
  BY DEF Faithful
<1>2. ASSUME NEW d, Faithful(d), d.versions \subseteq Versions,
             NEW v \in Versions \ d.versions, ~Fails(v, d, old)
      PROVE  Faithful(Migrate(v, d, old)) /\ Faithful(Record(v, Migrate(v, d, old)))
  <2> DEFINE e == Migrate(v, d, old)
  <2>1. Advances(d, e) /\ Done(v, e, old) /\ (v = 4 => BenchmarksDone(e, old))
    BY <1>2, MigrateAdvances DEF Faithful
  <2>2. Faithful(e) /\ e.versions = d.versions
    BY <1>2, <2>1, FaithfulOn DEF FaithfulInv, Advances, Reshaped
  <2> HIDE DEF e
  <2>3. Faithful(Record(v, e))
    BY <1>2, <2>1, <2>2, RecordFaithful
  <2> QED
    BY <2>2, <2>3 DEF e
<1>3. disk.versions \subseteq work.versions /\ work.versions \subseteq Versions
  BY <1>0 DEF LaunchInv
<1>4. CASE BeginMigrations
  BY <1>0, <1>1, <1>4 DEF BeginMigrations, FaithfulInv
<1>5. ASSUME NEW v \in Versions, ApplyMigration(v) PROVE FaithfulInv'
  <2>1. v \notin work.versions
    BY <1>0, <1>5 DEF ApplyMigration, Earliest, LaunchInv
  <2>2. Faithful(Record(v, Migrate(v, work, old)))
    BY <1>2, <1>3, <1>5, <2>1, Faithful(work) DEF ApplyMigration, FaithfulInv
  <2> QED
    BY <1>0, <1>1, <1>5, <2>2 DEF ApplyMigration, FaithfulInv
<1>6. ASSUME NEW v \in Versions, ScriptCommits(v) PROVE FaithfulInv'
  BY <1>0, <1>1, <1>6 DEF ScriptCommits, FaithfulInv
<1>7. ASSUME NEW v \in Versions, ScriptRuns(v) PROVE FaithfulInv'
  <2>1. v \notin work.versions /\ v \notin disk.versions /\ v \notin {4, 5}
    BY <1>0, <1>3, <1>7 DEF ScriptRuns, Earliest, LaunchInv, Scripted
  <2>2. Faithful(Record(v, Migrate(v, work, old))) /\ Faithful(Migrate(v, disk, old))
    BY <1>2, <1>3, <2>1 DEF FaithfulInv, Fails
  <2> QED
    BY <1>0, <1>1, <1>7, <2>2 DEF ScriptRuns, FaithfulInv
<1>8. ASSUME NEW v \in Versions, MigrationRaises(v) PROVE FaithfulInv'
  BY <1>0, <1>1, <1>8 DEF MigrationRaises, FaithfulInv
<1>9. CASE FinishMigrations
  <2>1. work.versions = Versions
    BY <1>0, <1>3, <1>9 DEF FinishMigrations, LaunchInv
  <2> QED
    BY <1>0, <1>1, <1>9, <2>1 DEF FinishMigrations, FaithfulInv
<1>10. CASE DbDies
  BY <1>0, <1>1, <1>10 DEF DbDies, FaithfulInv
<1>11. CASE Written
  <2>1. Faithful(disk)'
    BY <1>11, WrittenFaithful
  <2>2. /\ dbPhase = "serving" /\ disk'.versions = disk.versions /\ work' = disk'
        /\ UNCHANGED <<dbPhase, oldProfiles>>
    BY <1>0, <1>11, WrittenShaped
       DEF Reshaped, Written, WriteRow, WriteSample, SaveProfile, ClearBenchmarks, Served
  <2>3. Faithful(work)'
    BY <2>1, <2>2 DEF Faithful
  <2> QED
    BY <1>0, <2>1, <2>2, <2>3 DEF FaithfulInv
<1>12. CASE UNCHANGED dbVars
  BY <1>0, <1>1, <1>12 DEF dbVars, FaithfulInv
<1> QED
  BY <1>4, <1>5, <1>6, <1>7, <1>8, <1>9, <1>10, <1>11, <1>12 DEF LaunchNext, Written

LEMMA FaithfulAlways == ServicesSpec => []FaithfulInv
  BY FaithfulStart, FaithfulStep, ServicesAreSpecs, PTL DEF LaunchSpec

(* Wherever crashes fall between the commits of a launch, a recorded        *)
(* version has done its work, for any database of an older release.         *)
THEOREM RecordedIsDoneAlways == ServicesSpec => []RecordedIsDone
<1>1. FaithfulInv => RecordedIsDone
  BY DEF FaithfulInv, Faithful, RecordedIsDone
<1> QED
  BY <1>1, FaithfulAlways, PTL

(* Of the profiles of each game, however many there were and in whatever    *)
(* order, a newest one is left and no other.                                *)
THEOREM NewestProfileKeptAlways == ServicesSpec => []NewestProfileKept
<1>1. ASSUME FaithfulInv, 6 \in disk.versions, NEW p \in oldProfiles
      PROVE  \E q \in disk.profiles : /\ q.game = p.game /\ q.stamp >= p.stamp
                                      /\ \A r \in disk.profiles : r.game = p.game => r = q
  <2>1. PICK q \in disk.profiles : q.game = p.game /\ q.stamp >= p.stamp
    BY <1>1 DEF FaithfulInv, Faithful
  <2>2. Done(6, disk, old)
    BY <1>1 DEF FaithfulInv, Faithful
  <2>3. OnePerGame(disk)
    BY <2>2 DEF Done, OnePerGame
  <2> QED
    BY <2>1, <2>3 DEF OnePerGame
<1>2. FaithfulInv => NewestProfileKept
  BY <1>1 DEF NewestProfileKept
<1> QED
  BY <1>2, FaithfulAlways, PTL
-------------------------------------------------------------------------------
(* The desktop shell. *)
ShellTyped ==
  /\ process \in [Spawns -> [is : Health, at : Ports]]
  /\ backend \in 0..MaxSpawns /\ owned \in BOOLEAN
  /\ call \in [ShellCalls -> [await : Awaits, of : 0..MaxSpawns, at : Ports]]
  /\ port \in Ports /\ overlapped \in BOOLEAN /\ failed \in BOOLEAN

Active(c) == call[c].await # "idle"

(* While no calls have overlapped, at most one is under way.  What it has   *)
(* started is its own; before it starts anything nothing is left of what    *)
(* was there, and what the shell has started it takes for its own.          *)
OneCall ==
  /\ \A c, d \in ShellCalls : Active(c) /\ Active(d) => c = d
  /\ Left \subseteq {backend} /\ (Left # {} => owned)
  /\ \A c \in ShellCalls :
       /\ call[c].await \in {"stopping", "probe", "front", "find"} => Left = {}
       /\ call[c].await = "quitting" /\ ~failed => Left = {}
       /\ call[c].await \in {"managed", "refind", "again"} => owned
  /\ shell = "quit" /\ ~failed => Left = {}

ShellInv == ShellTyped /\ (~overlapped => OneCall)

Call == [await : Awaits, of : 0..MaxSpawns, at : Ports]

LEMMA IdlingIsCall == Idling \in Call /\ \A a \in Awaits : [Idling EXCEPT !.await = a] \in Call
<1>1. 0 \in 0..MaxSpawns /\ Default \in Ports /\ "idle" \in Awaits
  BY ShellAssumption DEF Ports, Awaits
<1> QED
  BY <1>1 DEF Idling, Call

LEMMA ShellStart == ShellInit => ShellInv
<1> SUFFICES ASSUME ShellInit PROVE ShellInv
  OBVIOUS
<1>1. Left = {}
  BY DEF ShellInit, Left, NotYet
<1>2. ShellTyped
  <2>1. process \in [Spawns -> [is : Health, at : Ports]]
    BY DEF ShellInit, NotYet, Health, Ports
  <2>2. call \in [ShellCalls -> Call]
    <3>1. "probe" \in Awaits
      BY DEF Awaits
    <3> QED
      BY <3>1, IdlingIsCall DEF ShellInit
  <2>3. backend \in 0..MaxSpawns /\ port \in Ports
    BY ShellAssumption DEF ShellInit, Ports
  <2> QED
    BY <2>1, <2>2, <2>3 DEF ShellInit, ShellTyped, Call
<1>3. \A c \in ShellCalls : call[c].await = IF c = "launch" THEN "probe" ELSE "idle"
  BY DEF ShellInit, Idling
<1> QED
  BY <1>1, <1>2, <1>3 DEF ShellInit, ShellInv, OneCall, Active

(* A spawn where nothing was left: what it has started is all that is left. *)
LEMMA SpawnLeaves ==
  ASSUME ShellTyped, NEW c \in ShellCalls, NEW q \in Ports, NEW await \in Awaits, NEW ps,
         ps \in [Spawns -> [is : Health, at : Ports]],
         \A p \in Spawns : ps[p].is \notin {"starting", "serving"},
         SpawnAt(c, q, await, ps)
  PROVE  /\ Left' = {backend'} /\ backend' \in 0..MaxSpawns /\ port' \in Ports
         /\ process' \in [Spawns -> [is : Health, at : Ports]]
         /\ call' \in [ShellCalls -> [await : Awaits, of : 0..MaxSpawns, at : Ports]]
         /\ call'[c].await = await /\ \A d \in ShellCalls \ {c} : call'[d] = call[d]
         /\ UNCHANGED <<shell, failed>>
<1>1. PICK p \in Spawns :
        /\ process' = Spawned(ps, p, q) /\ backend' = p /\ port' = q
        /\ call' = [call EXCEPT ![c] = [await |-> await, of |-> p, at |-> q]]
        /\ UNCHANGED <<shell, failed>>
  BY DEF SpawnAt
<1>2. p \in 0..MaxSpawns
  BY ShellAssumption DEF Spawns
<1>3. process' = [ps EXCEPT ![p] = [is |-> "starting", at |-> q]]
  BY <1>1 DEF Spawned
<1>4. process' \in [Spawns -> [is : Health, at : Ports]]
  BY <1>3 DEF Health
<1>5. Left' = {p}
  BY <1>3 DEF Left
<1> QED
  BY <1>1, <1>2, <1>4, <1>5 DEF ShellTyped

(* A call that returns leaves everything but the calls as it is.            *)
LEMMA ReturnsOnly ==
  ASSUME ShellTyped, NEW c \in ShellCalls, NEW ok \in BOOLEAN, Returns(c, ok)
  PROVE  /\ call' \in [ShellCalls -> [await : Awaits, of : 0..MaxSpawns, at : Ports]]
         /\ failed' \in BOOLEAN /\ (failed => failed')
         /\ \A d \in ShellCalls \ {c} :
              call'[d].await = call[d].await \/ (d = "close" /\ call'[d].await = "quitting" /\ failed')
         /\ call'[c].await = "idle"
         /\ shell' = shell \/ shell' # "quit"
<1>1. /\ "quitting" \in Awaits /\ "close" \in ShellCalls /\ "launch" \in ShellCalls
      /\ Idling.await = "idle" /\ call \in [ShellCalls -> Call]
  BY DEF Awaits, ShellCalls, Idling, ShellTyped, Call
<1>2. CASE c = "launch" /\ ~ok
  <2>1. call' = [call EXCEPT ![c] = Idling, !["close"].await = "quitting"] /\ failed'
    BY <1>2 DEF Returns
  <2>2. [call["close"] EXCEPT !.await = "quitting"] \in Call
    BY <1>1 DEF Call
  <2>3. /\ call'["close"] = [call["close"] EXCEPT !.await = "quitting"] /\ call'[c] = Idling
        /\ \A d \in ShellCalls \ {c, "close"} : call'[d] = call[d]
        /\ call' \in [ShellCalls -> Call]
    BY <1>1, <1>2, <2>1, <2>2, IdlingIsCall
  <2>4. call'["close"].await = "quitting"
    BY <1>1, <2>3 DEF Call
  <2> QED
    BY <1>1, <2>1, <2>3, <2>4 DEF Returns, Call, ShellTyped
<1>3. CASE ~(c = "launch" /\ ~ok)
  <2>1. call' = [call EXCEPT ![c] = Idling] /\ failed' = failed
    BY <1>3 DEF Returns, ShellTyped
  <2>2. /\ call' \in [ShellCalls -> Call] /\ call'[c] = Idling
        /\ \A d \in ShellCalls \ {c} : call'[d] = call[d]
    BY <1>1, <2>1, IdlingIsCall
  <2> QED
    BY <1>1, <2>1, <2>2 DEF Returns, Call, ShellTyped
<1> QED
  BY <1>2, <1>3

LEMMA ReturnsKeeps ==
  ASSUME ShellInv, NEW c \in ShellCalls, NEW ok \in BOOLEAN, Returns(c, ok),
         shell # "quit", Active(c), process' = process, overlapped' = overlapped,
         backend' \in 0..MaxSpawns, owned' \in BOOLEAN, port' \in Ports,
         \/ ~overlapped => Left = {}
         \/ UNCHANGED <<backend, owned>>
  PROVE  ShellInv'
<1>1. ShellTyped'
  BY ReturnsOnly DEF ShellInv, ShellTyped
<1>2. ASSUME ~overlapped PROVE OneCall'
  <2>1. OneCall /\ Left' = Left
    BY <1>2 DEF ShellInv, Left
  <2>2. \A d \in ShellCalls \ {c} : call[d].await = "idle"
    BY <2>1 DEF OneCall, Active
  <2>3. \A d \in ShellCalls :
          call'[d].await = "idle" \/ (d = "close" /\ call'[d].await = "quitting" /\ failed')
    BY <2>2, ReturnsOnly DEF ShellInv
  <2>4. shell' # "quit"
    BY ReturnsOnly DEF ShellInv
  <2>5. Left' \subseteq {backend'} /\ (Left' # {} => owned')
    BY <1>2, <2>1 DEF OneCall
  <2> QED
    BY <2>3, <2>4, <2>5 DEF OneCall, Active
<1> QED
  BY <1>1, <1>2 DEF ShellInv

(* A call that starts a backend where nothing was left, or goes on.         *)
LEMMA SpawnKeeps ==
  ASSUME ShellInv, NEW c \in ShellCalls, NEW q \in Ports, NEW await \in {"managed", "again"},
         NEW ps, SpawnAt(c, q, await, ps), shell # "quit", Active(c),
         ps \in [Spawns -> [is : Health, at : Ports]],
         overlapped' = overlapped, owned' \in BOOLEAN, ~overlapped => owned',
         ~overlapped => \A p \in Spawns : ps[p].is \notin {"starting", "serving"}
  PROVE  ShellInv'
<1>0. await \in Awaits
  BY DEF Awaits
<1>1. ShellTyped'
  <2>1. PICK p \in Spawns :
          /\ process' = Spawned(ps, p, q) /\ backend' = p /\ port' = q
          /\ call' = [call EXCEPT ![c] = [await |-> await, of |-> p, at |-> q]]
          /\ UNCHANGED <<shell, failed>>
    BY DEF SpawnAt
  <2>2. p \in 0..MaxSpawns
    BY ShellAssumption DEF Spawns
  <2>3. process' \in [Spawns -> [is : Health, at : Ports]]
    BY <2>1 DEF Spawned, Health
  <2> QED
    BY <1>0, <2>1, <2>2, <2>3 DEF ShellInv, ShellTyped
<1>2. ASSUME ~overlapped PROVE OneCall'
  <2>1. /\ Left' = {backend'} /\ owned' /\ call'[c].await = await
        /\ \A d \in ShellCalls \ {c} : call'[d] = call[d]
        /\ UNCHANGED <<shell, failed>>
    BY <1>0, <1>2, SpawnLeaves DEF ShellInv
  <2>2. \A d \in ShellCalls \ {c} : call'[d].await = "idle"
    BY <1>2, <2>1 DEF ShellInv, OneCall, Active
  <2> QED
    BY <2>1, <2>2 DEF OneCall, Active
<1> QED
  BY <1>1, <1>2 DEF ShellInv

(* A call goes from one await to another, and nothing else changes.         *)
LEMMA GoesOn ==
  ASSUME ShellInv, NEW c \in ShellCalls, Active(c), NEW d \in Call, d.await # "idle",
         call' = [call EXCEPT ![c] = d],
         UNCHANGED <<process, backend, port, owned, shell, overlapped, failed>>,
         ~overlapped => /\ d.await \in {"stopping", "probe", "front", "find"} => Left = {}
                        /\ d.await = "quitting" /\ ~failed => Left = {}
                        /\ d.await \in {"managed", "refind", "again"} => owned
  PROVE  ShellInv'
<1>1. ShellTyped'
  BY DEF ShellInv, ShellTyped, Call
<1>2. /\ call'[c] = d /\ \A e \in ShellCalls \ {c} : call'[e] = call[e]
      /\ Left' = Left
  BY DEF ShellInv, ShellTyped, Left
<1>3. ASSUME ~overlapped PROVE OneCall'
  BY <1>2, <1>3 DEF ShellInv, OneCall, Active
<1> QED
  BY <1>1, <1>3 DEF ShellInv

LEMMA StopKeeps ==
  ASSUME ShellInv, NEW c \in ShellCalls, NEW next \in {"probe", "quitting"}, StopBegins(c, next),
         shell # "quit", shell' # "quit"
  PROVE  ShellInv'
<1>1. ShellTyped /\ "stopping" \in Awaits /\ next \in Awaits /\ 0 \in 0..MaxSpawns
  BY ShellAssumption DEF ShellInv, Awaits
<1>2. CASE owned /\ Running(backend)
  <2>1. /\ process' = Killed(process, backend) /\ backend' = 0 /\ owned' = FALSE
        /\ call' = [call EXCEPT ![c] = [Idling EXCEPT !.await = "stopping", !.of = backend]]
        /\ overlapped' = (overlapped \/ Busy(c)) /\ UNCHANGED <<port, failed>>
    BY <1>2 DEF StopBegins
  <2>2. backend \in Spawns
    BY <1>1, <1>2, ShellAssumption DEF Running, ShellTyped, Spawns
  <2>3. /\ process' \in [Spawns -> [is : Health, at : Ports]]
        /\ process'[backend].is \notin {"starting", "serving"}
        /\ \A p \in Spawns \ {backend} : process'[p] = process[p]
    BY <1>1, <2>1, <2>2 DEF Killed, ShellTyped, Health
  <2>4. [Idling EXCEPT !.await = "stopping", !.of = backend] \in Call
    BY <1>1, IdlingIsCall DEF Call, ShellTyped
  <2>5. ShellTyped'
    BY <1>1, <2>1, <2>3, <2>4 DEF ShellTyped, Call, Busy
  <2>6. ASSUME ~overlapped' PROVE OneCall'
    <3>1. OneCall /\ \A d \in ShellCalls \ {c} : call[d].await = "idle" /\ call'[d] = call[d]
      BY <1>1, <2>1, <2>6 DEF ShellInv, Busy, ShellTyped
    <3>2. Left' = {}
      BY <2>3, <3>1 DEF Left, OneCall
    <3>3. call'[c].await = "stopping"
      BY <1>1, <2>1, IdlingIsCall DEF ShellTyped, Call
    <3> QED
      BY <2>1, <3>1, <3>2, <3>3 DEF OneCall, Active
  <2> QED
    BY <2>5, <2>6 DEF ShellInv
<1>3. CASE ~(owned /\ Running(backend))
  <2>1. /\ process' = process /\ backend' = 0 /\ owned' = FALSE
        /\ call' = [call EXCEPT ![c] = [Idling EXCEPT !.await = next]]
        /\ overlapped' = (overlapped \/ Busy(c)) /\ UNCHANGED <<port, failed>>
    BY <1>3 DEF StopBegins
  <2>2. [Idling EXCEPT !.await = next] \in Call
    BY <1>1, IdlingIsCall
  <2>3. ShellTyped'
    BY <1>1, <2>1, <2>2 DEF ShellTyped, Call, Busy
  <2>4. ASSUME ~overlapped' PROVE OneCall'
    <3>1. OneCall /\ \A d \in ShellCalls \ {c} : call[d].await = "idle" /\ call'[d] = call[d]
      BY <1>1, <2>1, <2>4 DEF ShellInv, Busy, ShellTyped
    <3>2. Left = {}
      BY <1>1, <1>3, <3>1, ShellAssumption DEF Left, OneCall, Running, Spawns
    <3>3. Left' = {}
      BY <2>1, <3>2 DEF Left
    <3>4. call'[c].await = next
      BY <1>1, <2>1, IdlingIsCall DEF ShellTyped, Call, Idling
    <3> QED
      BY <2>1, <3>1, <3>3, <3>4 DEF OneCall, Active
  <2> QED
    BY <2>3, <2>4 DEF ShellInv
<1> QED
  BY <1>2, <1>3

LEMMA ShellStep == ShellInv /\ [ShellNext]_shellVars => ShellInv'
<1> SUFFICES ASSUME ShellInv, [ShellNext]_shellVars PROVE ShellInv'
  OBVIOUS
<1>0. /\ ShellTyped /\ (~overlapped => OneCall)
      /\ "close" \in ShellCalls /\ Restarts \subseteq ShellCalls
      /\ Default \in Ports /\ FallbackPorts \subseteq Ports
      /\ \A p \in Spawns : process[p] \in [is : Health, at : Ports]
      /\ process \in [Spawns -> [is : Health, at : Ports]]
      /\ TRUE \in BOOLEAN /\ FALSE \in BOOLEAN
  BY DEF ShellInv, ShellTyped, ShellCalls, Ports
<1>1. ASSUME NEW c \in Restarts, RestartBegins(c) PROVE ShellInv'
  BY <1>0, <1>1, StopKeeps DEF RestartBegins
<1>2. CASE WindowsClosed
  BY <1>0, <1>2, StopKeeps DEF WindowsClosed
<1>3. ASSUME NEW c \in ShellCalls, StopEnds(c) PROVE ShellInv'
  <2>1. /\ Active(c) /\ call[c].await = "stopping"
        /\ UNCHANGED <<process, backend, port, owned, shell, overlapped, failed>>
    BY <1>3 DEF StopEnds, Awaiting, Active
  <2>2. ~overlapped => Left = {}
    BY <1>0, <2>1 DEF OneCall
  <2> DEFINE d == IF c = "close" THEN [Idling EXCEPT !.await = "quitting"]
                  ELSE IF Running(backend) THEN [await |-> "wait", of |-> 0, at |-> port]
                  ELSE [Idling EXCEPT !.await = "probe"]
  <2>3. d \in Call /\ d.await \in {"quitting", "wait", "probe"}
    <3>1. {"quitting", "wait", "probe"} \subseteq Awaits /\ 0 \in 0..MaxSpawns /\ port \in Ports
      BY <1>0, ShellAssumption DEF Awaits, ShellTyped
    <3>2. [await |-> "wait", of |-> 0, at |-> port] \in Call
      BY <3>1 DEF Call
    <3>3. \A a \in {"quitting", "probe"} :
            [Idling EXCEPT !.await = a] \in Call /\ [Idling EXCEPT !.await = a].await = a
      BY <3>1, IdlingIsCall DEF Idling
    <3> QED
      BY <3>2, <3>3
  <2>4. call' = [call EXCEPT ![c] = d]
    BY <1>3 DEF StopEnds
  <2> HIDE DEF d
  <2> QED
    BY <2>1, <2>2, <2>3, <2>4, GoesOn
<1>4. ASSUME NEW c \in ShellCalls, Probe(c) PROVE ShellInv'
  <2>1. /\ Active(c) /\ call[c].await = "probe" /\ shell # "quit"
        /\ overlapped' = overlapped
    BY <1>4 DEF Probe, Awaiting, Active
  <2>2. ~overlapped => Left = {}
    BY <1>0, <2>1 DEF OneCall
  <2>3. CASE /\ call' = [call EXCEPT ![c].await = "front"]
             /\ UNCHANGED <<process, backend, port, owned, shell, failed>>
    <3>1. [call[c] EXCEPT !.await = "front"] \in Call
          /\ [call[c] EXCEPT !.await = "front"].await = "front"
      BY <1>0 DEF ShellTyped, Call, Awaits
    <3> QED
      BY <2>1, <2>2, <2>3, <3>1, GoesOn
  <2>4. CASE SpawnAt(c, Default, "managed", process) /\ owned' = TRUE
    BY <1>0, <2>1, <2>2, <2>4, SpawnKeeps DEF Left
  <2> QED
    BY <1>4, <2>3, <2>4 DEF Probe
<1>5. ASSUME NEW c \in ShellCalls, ProbeFrontend(c) PROVE ShellInv'
  <2>1. /\ Active(c) /\ call[c].await = "front" /\ shell # "quit"
        /\ overlapped' = overlapped /\ process' = process
    BY <1>5 DEF ProbeFrontend, Awaiting, Active
  <2>2. ~overlapped => Left = {}
    BY <1>0, <2>1 DEF OneCall
  <2>3. CASE backend' = 0 /\ port' = Default /\ owned' = FALSE /\ Returns(c, TRUE)
    <3>1. backend' \in 0..MaxSpawns
      BY <2>3, ShellAssumption
    <3> QED
      BY <1>0, <2>1, <2>2, <2>3, <3>1, ReturnsKeeps
  <2>4. CASE /\ call' = [call EXCEPT ![c].await = "find"]
             /\ UNCHANGED <<backend, port, owned, shell, failed>>
    <3>1. [call[c] EXCEPT !.await = "find"] \in Call
          /\ [call[c] EXCEPT !.await = "find"].await = "find"
      BY <1>0 DEF ShellTyped, Call, Awaits
    <3> QED
      BY <2>1, <2>2, <2>4, <3>1, GoesOn
  <2> QED
    BY <1>5, <2>3, <2>4 DEF ProbeFrontend
<1>6. ASSUME NEW c \in ShellCalls, Find(c) PROVE ShellInv'
  <2>1. /\ Active(c) /\ call[c].await = "find" /\ shell # "quit"
        /\ overlapped' = overlapped
    BY <1>6 DEF Find, Awaiting, Active
  <2>2. ~overlapped => Left = {}
    BY <1>0, <2>1 DEF OneCall
  <2>3. ASSUME NEW q \in FallbackPorts, SpawnAt(c, q, "managed", process), owned' = TRUE
        PROVE  ShellInv'
    BY <1>0, <2>1, <2>2, <2>3, SpawnKeeps DEF Left
  <2>4. CASE Returns(c, FALSE) /\ UNCHANGED <<process, backend, port, owned>>
    BY <1>0, <2>1, <2>4, ReturnsKeeps DEF ShellTyped
  <2> QED
    BY <1>6, <2>3, <2>4 DEF Find
<1>7. ASSUME NEW c \in ShellCalls, ManagedReady(c) PROVE ShellInv'
  <2> DEFINE d == [await |-> "wait", of |-> 0, at |-> port]
  <2>1. d \in Call /\ d.await = "wait"
    BY <1>0, ShellAssumption DEF Call, Awaits, ShellTyped
  <2>2. /\ Active(c) /\ call' = [call EXCEPT ![c] = d]
        /\ UNCHANGED <<process, backend, port, owned, shell, overlapped, failed>>
    BY <1>7 DEF ManagedReady, Awaiting, Active
  <2> HIDE DEF d
  <2> QED
    BY <2>1, <2>2, GoesOn
<1>8. ASSUME NEW c \in ShellCalls, ManagedFails(c) PROVE ShellInv'
  <2>1. /\ Active(c) /\ call[c].await = "managed" /\ shell # "quit"
        /\ UNCHANGED <<process, backend, port, owned, overlapped>>
    BY <1>8 DEF ManagedFails, Awaiting, Active
  <2>2. CASE call' = [call EXCEPT ![c].await = "refind"] /\ UNCHANGED <<shell, failed>>
    <3>1. [call[c] EXCEPT !.await = "refind"] \in Call
          /\ [call[c] EXCEPT !.await = "refind"].await = "refind"
      BY <1>0 DEF ShellTyped, Call, Awaits
    <3>2. ~overlapped => owned
      BY <1>0, <2>1 DEF OneCall
    <3> QED
      BY <2>1, <2>2, <3>1, <3>2, GoesOn
  <2>3. CASE Returns(c, FALSE)
    BY <1>0, <2>1, <2>3, ReturnsKeeps DEF ShellTyped
  <2> QED
    BY <1>8, <2>2, <2>3 DEF ManagedFails
<1>9. ASSUME NEW c \in ShellCalls, Refind(c) PROVE ShellInv'
  <2>1. /\ Active(c) /\ call[c].await = "refind" /\ shell # "quit"
        /\ UNCHANGED <<owned, overlapped>>
    BY <1>9 DEF Refind, Awaiting, Active
  <2>2. ~overlapped => owned /\ Left \subseteq {backend}
    BY <1>0, <2>1 DEF OneCall
  <2> DEFINE ps == IF Running(backend) THEN Killed(process, backend) ELSE process
  <2>3. ps \in [Spawns -> [is : Health, at : Ports]]
    BY <1>0 DEF Killed, Health
  <2>4. ~overlapped => \A p \in Spawns : ps[p].is \notin {"starting", "serving"}
    <3>1. CASE Running(backend)
      <4>1. backend \in Spawns
        BY <1>0, <3>1, ShellAssumption DEF Running, ShellTyped, Spawns
      <4>2. /\ ps[backend].is \notin {"starting", "serving"}
            /\ \A p \in Spawns \ {backend} : ps[p] = process[p]
        BY <1>0, <3>1, <4>1 DEF Killed, Health
      <4> QED
        BY <2>2, <4>2 DEF Left
    <3>2. CASE ~Running(backend)
      <4>1. ASSUME ~overlapped, NEW p \in Spawns, process[p].is \in {"starting", "serving"} PROVE FALSE
        <5>1. p = backend /\ p # 0
          BY <2>2, <4>1, ShellAssumption DEF Left, Spawns
        <5> QED
          BY <3>2, <4>1, <5>1 DEF Running
      <4> QED
        BY <3>2, <4>1
    <3> QED
      BY <3>1, <3>2
  <2> HIDE DEF ps
  <2>5. ASSUME NEW q \in FallbackPorts, SpawnAt(c, q, "again", ps) PROVE ShellInv'
    BY <1>0, <2>1, <2>2, <2>3, <2>4, <2>5, SpawnKeeps DEF ShellTyped
  <2>6. CASE Returns(c, FALSE) /\ UNCHANGED <<process, backend, port>>
    BY <1>0, <2>1, <2>6, ReturnsKeeps DEF ShellTyped
  <2> QED
    BY <1>9, <2>5, <2>6 DEF Refind, ps
<1>10. ASSUME NEW c \in ShellCalls, AgainEnds(c) \/ WaitEnds(c) PROVE ShellInv'
  <2>1. /\ Active(c) /\ shell # "quit"
        /\ UNCHANGED <<process, backend, port, owned, overlapped>>
        /\ Returns(c, TRUE) \/ Returns(c, FALSE)
    BY <1>10 DEF AgainEnds, WaitEnds, Awaiting, Active
  <2> QED
    BY <1>0, <2>1, ReturnsKeeps DEF ShellTyped
<1>11. CASE Quit
  <2>1. /\ call["close"].await = "quitting" /\ shell' = "quit"
        /\ UNCHANGED <<process, foreign, backend, port, owned, call, overlapped, failed>>
    BY <1>11 DEF Quit, Awaiting
  <2>2. Left' = Left
    BY <2>1 DEF Left
  <2> QED
    BY <1>0, <2>1, <2>2 DEF ShellInv, ShellTyped, OneCall, Active
<1>12. ASSUME NEW p \in Spawns, Serves(p) \/ Exits(p) PROVE ShellInv'
  <2>1. /\ UNCHANGED <<foreign, backend, port, owned, call, shell, overlapped, failed>>
        /\ \/ process[p].is = "starting" /\ process' = [process EXCEPT ![p].is = "serving"]
           \/ process' = [process EXCEPT ![p].is = "exited"]
    BY <1>12 DEF Serves, Exits
  <2>2. process' \in [Spawns -> [is : Health, at : Ports]] /\ Left' \subseteq Left
    BY <1>0, <2>1 DEF Health, Left
  <2> QED
    BY <1>0, <2>1, <2>2 DEF ShellInv, ShellTyped, OneCall, Active
<1>13. CASE ForeignChanges \/ UNCHANGED shellVars
  <2>1. UNCHANGED <<process, backend, port, owned, call, shell, overlapped, failed>>
    BY <1>13 DEF ForeignChanges, shellVars
  <2>2. Left' = Left
    BY <2>1 DEF Left
  <2> QED
    BY <1>0, <2>1, <2>2 DEF ShellInv, ShellTyped, OneCall, Active
<1> QED
  BY <1>1, <1>2, <1>3, <1>4, <1>5, <1>6, <1>7, <1>8, <1>9, <1>10, <1>11, <1>12, <1>13
     DEF ShellNext

(* As long as no call of the shell begins in the middle of another, it      *)
(* loses no backend that it has started, for any restarts, ports and number *)
(* of spawns.                                                               *)
THEOREM NoOrphanAlways == ServicesSpec => []NoOrphan
<1>1. ShellInv => NoOrphan
  BY DEF ShellInv, OneCall, NoOrphan
<1> QED
  BY <1>1, ShellStart, ShellStep, ServicesAreSpecs, PTL DEF ShellSpec

(* A closed window leaves no backend behind, and a failed launch none but   *)
(* the last that it has tried.                                              *)
THEOREM OnlyFailedLaunchLeavesAlways == ServicesSpec => []OnlyFailedLaunchLeaves
<1>1. ShellInv => OnlyFailedLaunchLeaves
  BY DEF ShellInv, OneCall, OnlyFailedLaunchLeaves
<1> QED
  BY <1>1, ShellStart, ShellStep, ServicesAreSpecs, PTL DEF ShellSpec
-------------------------------------------------------------------------------
(* The retention of metrics. *)
LEMMA BucketBounds ==
  ASSUME NEW t \in Nat, NEW size \in Nat \ {0}
  PROVE  /\ Bucket(t, size) \in Nat
         /\ Bucket(t, size) <= t /\ t < Bucket(t, size) + size
<1>1. t \div size \in Nat /\ t % size \in 0..(size - 1) /\ t = size * (t \div size) + (t % size)
  OBVIOUS
<1>2. size * (t \div size) = (t \div size) * size
  BY <1>1
<1> QED
  BY <1>1, <1>2 DEF Bucket

(* What a roll-up makes: a row for each bucket that a row of its window     *)
(* falls into and that has none yet.                                        *)
Within(q, start, end, source) == q.size = source /\ start <= q.time /\ q.time < end

LEMMA RollsUp ==
  ASSUME metrics \subseteq Row, \A r \in metrics : r.time \in 0..MaxTime,
         NEW start \in Int, NEW end \in Int, NEW size \in Sizes, NEW source \in Sizes
  PROVE  LET made == RolledUp(start, end, size, source) IN
         /\ made \subseteq Row
         /\ \A r \in made :
              /\ r.size = size /\ r.bucket = Bucket(r.time, size)
              /\ \E q \in metrics : Within(q, start, end, source) /\ q.time = r.time
              /\ \A p \in metrics : p.size = size => p.bucket # r.bucket
         /\ \A r, s \in made : r.bucket = s.bucket => r = s
         /\ \A q \in metrics : Within(q, start, end, source) =>
              \E r \in metrics \cup made : r.size = size /\ r.bucket = Bucket(q.time, size)
<1> DEFINE inside  == {r \in metrics : r.size = source /\ start <= r.time /\ r.time < end}
           of(b)   == {r.time : r \in {s \in inside : Bucket(s.time, size) = b}}
           missing == {b \in {Bucket(r.time, size) : r \in inside} :
                         ~\E r \in metrics : r.size = size /\ r.bucket = b}
           row(b)  == [time |-> Max(of(b)), size |-> size, bucket |-> b]
           made    == {row(b) : b \in missing}
<1>1. RolledUp(start, end, size, source) = made
  BY DEF RolledUp
<1>s. size \in Nat \ {0}
  BY RetentionAssumption DEF Sizes
<1>2. ASSUME NEW b \in missing
      PROVE  /\ b \in Nat /\ Max(of(b)) \in Nat
             /\ \E q \in inside : q.time = Max(of(b)) /\ Bucket(q.time, size) = b
  <2>1. of(b) # {} /\ of(b) \subseteq 0..MaxTime
    OBVIOUS
  <2>2. IsFiniteSet(0..MaxTime)
    BY RetentionAssumption, FS_Interval
  <2> DEFINE T == of(b)
  <2>3. T # {} /\ T \subseteq Nat /\ IsFiniteSet(T)
    <3> HIDE DEF T
    <3>1. T # {} /\ T \subseteq 0..MaxTime
      BY <2>1 DEF T
    <3>2. 0..MaxTime \subseteq Nat
      BY RetentionAssumption
    <3> QED
      BY <2>2, <3>1, <3>2, FS_Subset
  <2>4. Max(T) \in T
    <3> HIDE DEF T
    <3>1. \E m \in T : \A n \in T : m >= n
      BY <2>3, GreatestNumber
    <3> QED
      BY <3>1 DEF Max
  <2>5. PICK q \in inside : q.time = Max(of(b)) /\ Bucket(q.time, size) = b
    BY <2>4
  <2>6. q.time \in Nat
    BY <2>5 DEF Row
  <2> QED
    BY <2>5, <2>6, <1>s, BucketBounds
<1>3. ASSUME NEW b \in missing
      PROVE  /\ row(b) \in Row /\ row(b).size = size /\ row(b).bucket = b
             /\ \E q \in inside : q.time = row(b).time /\ Bucket(row(b).time, size) = b
  BY <1>2 DEF Row
<1>4. ASSUME NEW q \in inside
      PROVE  \E r \in metrics \cup made : r.size = size /\ r.bucket = Bucket(q.time, size)
  <2>1. CASE Bucket(q.time, size) \in missing
    BY <1>3, <2>1
  <2>2. CASE Bucket(q.time, size) \notin missing
    BY <2>2
  <2> QED
    BY <2>1, <2>2
<1>5. \A b \in missing : \A p \in metrics : p.size = size => p.bucket # b
  OBVIOUS
<1>6. \A q \in metrics : Within(q, start, end, source) <=> q \in inside
  BY DEF Within
<1> HIDE DEF row, missing
<1>7. \A r \in made : \E b \in missing : r = row(b) /\ b = r.bucket
  BY <1>3
<1> QED
  BY <1>1, <1>3, <1>4, <1>5, <1>6, <1>7

(* Beside what HistoryIsCovered says: where the steps of a retention have   *)
(* come to, what the next one deletes has been rolled up.                   *)
Covered(size, source, start, end) ==
  \A r \in metrics : Within(r, start, end, source) => Present(size, Bucket(r.time, size))

MetricsInv ==
  /\ metrics \subseteq Row /\ taken \subseteq Nat
  /\ clock \in 0..MaxTime /\ began \in 0..clock
  /\ \A r \in metrics : r.time \in 0..MaxTime
  /\ \A r \in metrics : r.size # 1 => r.bucket = Bucket(r.time, r.size)
  /\ minutes \subseteq Row /\ \A m \in minutes : m.size = Minute
  /\ HistoryIsCovered
  /\ step \in {"five", "delete"} => Covered(Minute, 1, began - KeepMinute, began - KeepRaw)
  /\ step = "delete" => Covered(Five, Minute, began - KeepFive, began - KeepMinute)

LEMMA MetricsStart == MetricsInit => MetricsInv
  BY RetentionAssumption DEF MetricsInit, MetricsInv, HistoryIsCovered, Covered

(* A row that is deleted is past its window, or has been rolled up; and its *)
(* bucket is not older than the rows that it stands for by more than itself. *)
LEMMA DeletesKeep == MetricsInv /\ Deletes => MetricsInv'
<1> SUFFICES ASSUME MetricsInv, Deletes PROVE MetricsInv'
  OBVIOUS
<1>t. /\ KeepRaw \in Nat /\ KeepMinute \in Nat /\ KeepFive \in Nat
      /\ Minute \in Nat \ {0} /\ Five \in Nat \ {0} /\ 1 < Minute /\ Minute < Five
      /\ KeepRaw < KeepMinute /\ KeepMinute < KeepFive
      /\ clock \in Nat /\ began \in Nat /\ began <= clock
  BY RetentionAssumption DEF MetricsInv
<1>r. \A r \in metrics : r.time \in Nat /\ r.size \in Sizes /\ r.bucket \in Nat
  BY DEF MetricsInv, Row
<1>1. /\ metrics' = {r \in metrics : ~Old(r)} /\ step' = "idle"
      /\ UNCHANGED <<clock, began, taken, minutes>>
  BY DEF Deletes
<1>2. ASSUME NEW b \in Nat, NEW t \in Nat, t >= clock - KeepMinute + Minute,
             b = Bucket(t, Minute), Present(Minute, b)
      PROVE  Present(Minute, b)'
  <2>1. PICK r \in metrics : r.size = Minute /\ r.bucket = b
    BY <1>2 DEF Present
  <2>2. b = Bucket(r.time, Minute)
    BY <1>t, <2>1 DEF MetricsInv
  <2>3. b <= r.time /\ t < b + Minute
    BY <1>2, <1>r, <1>t, <2>2, BucketBounds
  <2>4. ~Old(r)
    BY <1>2, <1>r, <1>t, <2>1, <2>3 DEF Old
  <2> QED
    BY <1>1, <2>1, <2>4 DEF Present
<1>3. ASSUME NEW b \in Nat, NEW t \in Nat, t >= clock - KeepFive + Five,
             b = Bucket(t, Five), Present(Five, b)
      PROVE  Present(Five, b)'
  <2>1. PICK r \in metrics : r.size = Five /\ r.bucket = b
    BY <1>3 DEF Present
  <2>2. b = Bucket(r.time, Five)
    BY <1>t, <2>1 DEF MetricsInv
  <2>3. b <= r.time /\ t < b + Five
    BY <1>3, <1>r, <1>t, <2>2, BucketBounds
  <2>4. ~Old(r)
    BY <1>3, <1>r, <1>t, <2>1, <2>3 DEF Old
  <2> QED
    BY <1>1, <2>1, <2>4 DEF Present
<1>4. ASSUME NEW t \in taken, t >= clock - KeepMinute + Minute
      PROVE  (\E r \in metrics' : r.size = 1 /\ r.time = t) \/ Present(Minute, Bucket(t, Minute))'
  <2>0. t \in Nat /\ Bucket(t, Minute) \in Nat
    BY <1>t, BucketBounds DEF MetricsInv
  <2>1. CASE Present(Minute, Bucket(t, Minute))
    BY <1>2, <1>4, <2>0, <2>1
  <2>2. CASE \E r \in metrics : r.size = 1 /\ r.time = t
    <3>1. PICK r \in metrics : r.size = 1 /\ r.time = t
      BY <2>2
    <3>2. CASE ~Old(r)
      BY <1>1, <3>1, <3>2
    <3>3. CASE Old(r)
      <4>1. Within(r, began - KeepMinute, began - KeepRaw, 1)
        BY <1>4, <1>t, <2>0, <3>1, <3>3 DEF Old, Within
      <4>2. Present(Minute, Bucket(t, Minute))
        BY <3>1, <4>1 DEF MetricsInv, Covered, Deletes
      <4> QED
        BY <1>2, <1>4, <2>0, <4>2
    <3> QED
      BY <3>2, <3>3
  <2> QED
    BY <1>4, <2>1, <2>2 DEF MetricsInv, HistoryIsCovered
<1>5. ASSUME NEW m \in minutes, m.time >= clock - KeepFive + Five
      PROVE  m \in metrics' \/ Present(Five, Bucket(m.time, Five))'
  <2>0. m.time \in Nat /\ Bucket(m.time, Five) \in Nat /\ m.size = Minute
    BY <1>t, BucketBounds DEF MetricsInv, Row
  <2>1. CASE Present(Five, Bucket(m.time, Five))
    BY <1>3, <1>5, <2>0, <2>1
  <2>2. CASE m \in metrics /\ Old(m)
    <3>1. Within(m, began - KeepFive, began - KeepMinute, Minute)
      BY <1>5, <1>t, <2>0, <2>2 DEF Old, Within
    <3>2. Present(Five, Bucket(m.time, Five))
      BY <2>2, <3>1 DEF MetricsInv, Covered, Deletes
    <3> QED
      BY <1>3, <1>5, <2>0, <3>2
  <2>3. CASE m \in metrics /\ ~Old(m)
    BY <1>1, <2>3
  <2> QED
    BY <1>5, <2>1, <2>2, <2>3 DEF MetricsInv, HistoryIsCovered
<1> QED
  BY <1>1, <1>4, <1>5 DEF MetricsInv, HistoryIsCovered

(* A roll-up adds rows only, each to a bucket that had none. *)
LEMMA RollupKeeps ==
  ASSUME MetricsInv, NEW start \in Int, NEW end \in Int,
         NEW size \in {Minute, Five}, NEW source \in {1, Minute},
         metrics' = metrics \cup RolledUp(start, end, size, source),
         minutes' = minutes \cup (IF size = Minute THEN RolledUp(start, end, size, source) ELSE {}),
         UNCHANGED <<clock, began, taken>>, step' \in {"five", "delete"},
         step' = "five" => size = Minute /\ source = 1 /\ start = began - KeepMinute
                             /\ end = began - KeepRaw,
         step' = "delete" => step = "five" /\ size = Five /\ source = Minute
                               /\ start = began - KeepFive /\ end = began - KeepMinute
  PROVE  MetricsInv'
<1> DEFINE made == RolledUp(start, end, size, source)
<1>t. /\ Minute \in Nat \ {0} /\ Five \in Nat \ {0} /\ 1 < Minute /\ Minute < Five
      /\ size \in Sizes /\ source \in Sizes
  BY RetentionAssumption DEF Sizes
<1>0. metrics \subseteq Row /\ \A r \in metrics : r.time \in 0..MaxTime
  BY DEF MetricsInv
<1>1. /\ made \subseteq Row
      /\ \A r \in made :
           /\ r.size = size /\ r.bucket = Bucket(r.time, size)
           /\ \E q \in metrics : Within(q, start, end, source) /\ q.time = r.time
           /\ \A p \in metrics : p.size = size => p.bucket # r.bucket
      /\ \A r, s \in made : r.bucket = s.bucket => r = s
      /\ \A q \in metrics : Within(q, start, end, source) =>
           \E r \in metrics \cup made : r.size = size /\ r.bucket = Bucket(q.time, size)
  BY <1>t, <1>0, RollsUp
<1> HIDE DEF made
<1>2. metrics' = metrics \cup made
  BY DEF made
<1>3. minutes' = minutes \cup (IF size = Minute THEN made ELSE {})
  BY DEF made
<1>4. \A s, b : Present(s, b) => Present(s, b)'
  BY <1>2 DEF Present
<1>5. \A r \in metrics' : r.time \in 0..MaxTime
  BY <1>1, <1>2 DEF MetricsInv
<1>6. \A r \in metrics' : r.size # 1 => r.bucket = Bucket(r.time, r.size)
  BY <1>1, <1>2 DEF MetricsInv
<1>7. minutes' \subseteq Row /\ \A m \in minutes' : m.size = Minute
  BY <1>1, <1>3 DEF MetricsInv
<1>8. HistoryIsCovered'
  <2>1. ASSUME NEW t \in taken, t >= clock - KeepMinute + Minute
        PROVE  (\E r \in metrics' : r.size = 1 /\ r.time = t) \/ Present(Minute, Bucket(t, Minute))'
    BY <1>2, <1>4, <2>1 DEF MetricsInv, HistoryIsCovered
  <2>2. ASSUME NEW m \in minutes', m.time >= clock - KeepFive + Five
        PROVE  m \in metrics' \/ Present(Five, Bucket(m.time, Five))'
    BY <1>2, <1>3, <1>4, <2>2 DEF MetricsInv, HistoryIsCovered
  <2>3. ASSUME NEW r \in metrics', NEW s \in metrics',
               r.size = s.size, r.size # 1, r.bucket = s.bucket
        PROVE  r = s
    BY <1>1, <1>2, <2>3 DEF MetricsInv, HistoryIsCovered
  <2> QED
    BY <2>1, <2>2, <2>3 DEF HistoryIsCovered
<1>9. ASSUME step' = "five" PROVE Covered(Minute, 1, began - KeepMinute, began - KeepRaw)'
  <2>1. ASSUME NEW r \in metrics', Within(r, start, end, 1) PROVE Present(Minute, Bucket(r.time, Minute))'
    <3>1. r \in metrics
      BY <1>1, <1>2, <1>9, <1>t, <2>1 DEF Within
    <3> QED
      BY <1>1, <1>2, <1>9, <2>1, <3>1 DEF Present
  <2> QED
    BY <1>9, <2>1 DEF Covered, Within
<1>10. ASSUME step' = "delete"
       PROVE  /\ Covered(Minute, 1, began - KeepMinute, began - KeepRaw)'
              /\ Covered(Five, Minute, began - KeepFive, began - KeepMinute)'
  <2>1. ASSUME NEW r \in metrics', Within(r, began - KeepMinute, began - KeepRaw, 1)
        PROVE  Present(Minute, Bucket(r.time, Minute))'
    <3>1. r \in metrics
      BY <1>1, <1>2, <1>10, <1>t, <2>1 DEF Within
    <3>2. Present(Minute, Bucket(r.time, Minute))
      BY <1>10, <2>1, <3>1 DEF MetricsInv, Covered
    <3> QED
      BY <1>4, <3>2
  <2>2. ASSUME NEW r \in metrics', Within(r, start, end, Minute)
        PROVE  Present(Five, Bucket(r.time, Five))'
    <3>1. r \in metrics
      BY <1>1, <1>2, <1>10, <1>t, <2>2 DEF Within
    <3> QED
      BY <1>1, <1>2, <1>10, <2>2, <3>1 DEF Present
  <2> QED
    BY <1>10, <2>1, <2>2 DEF Covered, Within
<1> QED
  BY <1>1, <1>2, <1>5, <1>6, <1>7, <1>8, <1>9, <1>10 DEF MetricsInv

LEMMA MetricsStep == MetricsInv /\ [MetricsNext]_metricVars => MetricsInv'
<1> SUFFICES ASSUME MetricsInv, [MetricsNext]_metricVars PROVE MetricsInv'
  OBVIOUS
<1>t. /\ KeepRaw \in Nat /\ KeepMinute \in Nat /\ KeepFive \in Nat /\ MaxTime \in Nat
      /\ Minute \in Nat /\ Five \in Nat /\ 1 < Minute /\ Minute < Five
      /\ clock \in Nat /\ began \in Nat /\ clock <= MaxTime /\ began <= clock
      /\ taken \subseteq Nat /\ minutes \subseteq Row
  BY RetentionAssumption DEF MetricsInv
<1>1. CASE Sample
  <2> DEFINE new == [time |-> clock, size |-> 1, bucket |-> 0]
  <2>1. new \in Row /\ new.size = 1 /\ new.time = clock
    BY <1>t DEF Row, Sizes
  <2>2. /\ metrics' = metrics \cup {new} /\ taken' = taken \cup {clock} /\ clock' = clock + 1
        /\ clock < MaxTime /\ step' = "idle" /\ UNCHANGED <<began, minutes>>
    BY <1>1 DEF Sample
  <2> HIDE DEF new
  <2>3. \A s, b : Present(s, b) => Present(s, b)'
    BY <2>2 DEF Present
  <2>4. ASSUME NEW t \in taken', t >= clock' - KeepMinute + Minute
        PROVE  (\E r \in metrics' : r.size = 1 /\ r.time = t) \/ Present(Minute, Bucket(t, Minute))'
    <3>1. CASE t = clock
      BY <2>1, <2>2, <3>1
    <3>2. CASE t \in taken
      BY <1>t, <2>2, <2>3, <2>4, <3>2 DEF MetricsInv, HistoryIsCovered
    <3> QED
      BY <2>2, <3>1, <3>2
  <2>5. ASSUME NEW m \in minutes', m.time >= clock' - KeepFive + Five
        PROVE  m \in metrics' \/ Present(Five, Bucket(m.time, Five))'
    <3>1. m.time \in Nat /\ m.time >= clock - KeepFive + Five
      BY <1>t, <2>2, <2>5 DEF Row
    <3> QED
      BY <2>2, <2>3, <3>1 DEF MetricsInv, HistoryIsCovered
  <2>6. \A r, s \in metrics' : r.size = s.size /\ r.size # 1 /\ r.bucket = s.bucket => r = s
    BY <2>1, <2>2 DEF MetricsInv, HistoryIsCovered
  <2>7. HistoryIsCovered'
    BY <2>4, <2>5, <2>6 DEF HistoryIsCovered
  <2> QED
    BY <1>t, <2>1, <2>2, <2>7 DEF MetricsInv
<1>2. CASE TimePasses
  <2>1. /\ clock' = clock + 1 /\ clock < MaxTime /\ step' = "idle"
        /\ UNCHANGED <<metrics, began, taken, minutes>>
    BY <1>2 DEF TimePasses
  <2>2. \A m \in minutes : m.time \in Nat
    BY <1>t DEF Row
  <2>3. HistoryIsCovered'
    BY <1>t, <2>1, <2>2 DEF MetricsInv, HistoryIsCovered, Present
  <2> QED
    BY <1>t, <2>1, <2>3 DEF MetricsInv
<1>3. CASE RetentionBegins
  BY <1>3, <1>t DEF RetentionBegins, MetricsInv, HistoryIsCovered, Present
<1>4. CASE RollupMinutes
  BY <1>4, <1>t, RollupKeeps DEF RollupMinutes
<1>5. CASE RollupFives
  BY <1>5, <1>t, RollupKeeps DEF RollupFives
<1>6. CASE RetentionDies \/ UNCHANGED metricVars
  BY <1>6 DEF RetentionDies, metricVars, MetricsInv, HistoryIsCovered, Present, Covered
<1> QED
  BY <1>1, <1>2, <1>3, <1>4, <1>5, <1>6, DeletesKeep DEF MetricsNext

(* No sample or bucket inside its window is lost or counted twice, wherever *)
(* a retention dies and however long the backend is off, for any windows    *)
(* and sizes of buckets.                                                    *)
THEOREM HistoryIsCoveredAlways == ServicesSpec => []HistoryIsCovered
<1>1. MetricsInv => HistoryIsCovered
  BY DEF MetricsInv
<1> QED
  BY <1>1, MetricsStart, MetricsStep, ServicesAreSpecs, PTL DEF MetricsSpec
-------------------------------------------------------------------------------
(* The live view.  Without numbers the positions that are kept: what is at  *)
(* j goes to Place(K, j), which is at most j, and is j while nothing before *)
(* it goes.                                                                 *)
Place(K, j) == Cardinality({i \in K : i <= j})

LEMMA Numbering ==
  ASSUME NEW n \in Nat, NEW K \in SUBSET (1..n)
  PROVE  /\ Cardinality(K) \in Nat /\ Cardinality(K) <= n
         /\ \A j \in K : Place(K, j) \in 1..Cardinality(K) /\ Place(K, j) <= j
         /\ \A i, j \in K : Place(K, i) = Place(K, j) => i = j
         /\ \A k \in 1..Cardinality(K) : \E j \in K : Place(K, j) = k
         /\ \A p \in Nat, j \in K : 1..p \subseteq K /\ p < j => p < Place(K, j)
<1> DEFINE below(j) == {i \in K : i <= j}
           pl(j)    == Place(K, j)
           m        == Cardinality(K)
<1>p. \A j : pl(j) = Cardinality(below(j))
  BY DEF Place
<1> HIDE DEF pl
<1>n. K \subseteq Nat /\ \A i, j \in K : i <= j \/ j <= i
  OBVIOUS
<1>1. /\ IsFiniteSet(K) /\ m \in Nat /\ m <= n
      /\ \A T \in SUBSET K : /\ IsFiniteSet(T) /\ Cardinality(T) \in Nat
                             /\ Cardinality(T) <= m
  <2>1. IsFiniteSet(1..n) /\ Cardinality(1..n) = n
    BY FS_Interval
  <2> QED
    BY <2>1, FS_Subset, FS_CardinalityType
<1> HIDE DEF m
<1>2. ASSUME NEW j \in K PROVE pl(j) \in 1..m /\ pl(j) <= j
  <2>1. below(j) \in SUBSET K /\ below(j) # {} /\ below(j) \in SUBSET (1..j)
    <3>1. j \in below(j)
      BY <1>2, <1>n
    <3>2. \A i \in K : i <= j => i \in 1..j
      BY <1>2, <1>n
    <3> QED
      BY <3>1, <3>2, Zenon
  <2>2. IsFiniteSet(1..j) /\ Cardinality(1..j) = j
    BY <1>2, FS_Interval
  <2> HIDE DEF below
  <2>3. pl(j) \in Nat /\ pl(j) <= m /\ pl(j) # 0
    BY <1>1, <1>p, <2>1, FS_EmptySet
  <2>4. pl(j) <= j
    BY <1>p, <2>1, <2>2, FS_Subset
  <2> QED
    BY <1>1, <2>3, <2>4
<1>3. ASSUME NEW i \in K, NEW j \in K, i < j PROVE pl(i) # pl(j)
  <2>1. below(i) \in SUBSET below(j) /\ below(i) # below(j) /\ below(j) \in SUBSET K
    <3>1. j \in below(j) /\ j \notin below(i)
      BY <1>3, <1>n
    <3>2. \A k \in K : k <= i => k <= j
      BY <1>3, <1>n
    <3> QED
      BY <3>1, <3>2
  <2> HIDE DEF below
  <2> QED
    BY <1>1, <1>p, <2>1, FS_Subset
<1>4. \A i, j \in K : pl(i) = pl(j) => i = j
  <2>1. \A i, j \in K : i < j \/ j < i \/ i = j
    OBVIOUS
  <2> QED
    BY <1>3, <2>1
<1>5. \A k \in 1..m : \E j \in K : pl(j) = k
  <2> DEFINE f == [j \in K |-> pl(j)]
  <2>1. f \in Injection(K, 1..m)
    BY <1>2, <1>4 DEF Injection, IsInjective
  <2>2. IsFiniteSet(1..m) /\ Cardinality(1..m) = m
    BY <1>1, FS_Interval
  <2>3. f \in Surjection(K, 1..m)
    BY <2>1, <2>2, FS_Injection DEF m
  <2> QED
    BY <2>3 DEF Surjection
<1>6. ASSUME NEW p \in Nat, NEW j \in K, 1..p \subseteq K, p < j PROVE p < pl(j)
  <2>1. (1..p) \cup {j} \in SUBSET below(j) /\ below(j) \in SUBSET K /\ j \notin 1..p
    BY <1>6
  <2>2. IsFiniteSet(1..p) /\ Cardinality(1..p) = p
    BY FS_Interval
  <2>3. Cardinality((1..p) \cup {j}) = p + 1
    BY <2>1, <2>2, FS_AddElement
  <2> HIDE DEF below
  <2>4. p + 1 <= pl(j) /\ pl(j) \in Nat
    BY <1>1, <1>p, <2>1, <2>3, FS_Subset
  <2> QED
    BY <2>4
<1> QED
  BY <1>1, <1>2, <1>4, <1>5, <1>6 DEF pl, m

Injective(s) == \A i, j \in DOMAIN s : s[i] = s[j] => i = j

(* What is left keeps its order: it moves down, and stays where it is if    *)
(* nothing before it goes.                                                  *)
LEMMA WithoutShape ==
  ASSUME NEW S, NEW s \in Seq(S), NEW gone, NEW t, t = Without(s, gone)
  PROVE  /\ t \in Seq(S)
         /\ \A k \in DOMAIN t : \E j \in DOMAIN s : s[j] = t[k] /\ s[j] \notin gone
         /\ \A j \in DOMAIN s : s[j] \notin gone => \E k \in DOMAIN t : t[k] = s[j] /\ k <= j
         /\ Injective(s) => Injective(t)
         /\ \A p \in Nat, k \in DOMAIN t :
              k <= p /\ (\A j \in 1..p : j \in DOMAIN s => s[j] \notin gone)
                => k \in DOMAIN s /\ t[k] = s[k]
<1> DEFINE K     == {j \in DOMAIN s : s[j] \notin gone}
           pl(j) == Place(K, j)
           n     == Len(s)
           m     == Cardinality(K)
           nth(k) == CHOOSE j \in K : pl(j) = k
<1>1. n \in Nat /\ DOMAIN s = 1..n /\ \A j \in 1..n : s[j] \in S
  BY LenProperties, ElementOfSeq
<1>2. K \in SUBSET (1..n)
  BY <1>1
<1>3. /\ m \in Nat /\ m <= n
      /\ \A j \in K : pl(j) \in 1..m /\ pl(j) <= j
      /\ \A i, j \in K : pl(i) = pl(j) => i = j
      /\ \A k \in 1..m : \E j \in K : pl(j) = k
      /\ \A p \in Nat, j \in K : 1..p \subseteq K /\ p < j => p < pl(j)
  <2> HIDE DEF n, K
  <2> QED
    BY <1>1, <1>2, Numbering
<1>4. t = [k \in 1..m |-> s[nth(k)]]
  BY DEF Without, Place
<1>5. \A j \in K : j \in DOMAIN s /\ s[j] \notin gone /\ s[j] \in S /\ j \in 1..n
  BY <1>1
<1>k. \A j \in DOMAIN s : s[j] \notin gone => j \in K
  OBVIOUS
<1> HIDE DEF K, pl, n, m
<1>6. \A k \in 1..m : nth(k) \in K /\ pl(nth(k)) = k
  BY <1>3
<1>7. \A j \in K : nth(pl(j)) = j
  BY <1>3, <1>6
<1> HIDE DEF nth
<1>8. t \in Seq(S) /\ DOMAIN t = 1..m /\ \A k \in 1..m : t[k] = s[nth(k)]
  <2>1. \A k \in 1..m : s[nth(k)] \in S
    BY <1>5, <1>6
  <2> QED
    BY <1>3, <1>4, <2>1
<1>9. \A j \in DOMAIN s : s[j] \notin gone => \E k \in DOMAIN t : t[k] = s[j] /\ k <= j
  BY <1>3, <1>7, <1>8, <1>k
<1>10. Injective(s) => Injective(t)
  BY <1>3, <1>5, <1>6, <1>8 DEF Injective
<1>11. ASSUME NEW p \in Nat, NEW k \in DOMAIN t, k <= p,
              \A j \in 1..p : j \in DOMAIN s => s[j] \notin gone
       PROVE  k \in DOMAIN s /\ t[k] = s[k]
  <2> DEFINE j == nth(k)
  <2>1. j \in K /\ pl(j) = k /\ pl(j) <= j /\ j \in Nat /\ k \in Nat /\ j \in 1..n
    BY <1>3, <1>5, <1>6, <1>8, <1>11
  <2> HIDE DEF j
  <2>2. CASE k < j
    <3>1. \A i \in 1..k : i \in 1..p /\ i \in DOMAIN s
      BY <1>1, <1>11, <2>1, <2>2
    <3>2. 1..k \subseteq K
      BY <1>11, <3>1, <1>k
    <3>3. k < pl(j)
      BY <1>3, <2>1, <2>2, <3>2
    <3> QED
      BY <2>1, <3>3
  <2>3. CASE k = j
    BY <1>5, <1>8, <1>11, <2>1, <2>3 DEF j
  <2> QED
    BY <2>1, <2>2, <2>3
<1> QED
  BY <1>5, <1>6, <1>8, <1>9, <1>10, <1>11

(* A broadcast has sent to all but as many positions as sockets have gone   *)
(* from behind it; and if none has, it has come upon every dead one there.  *)
Reached(s, w) == {c \in Range(s) : w.sent[c] # 0 /\ \E k \in DOMAIN s : s[k] = c /\ k <= w.position}
Behind(s, gone, w) == {c \in gone : \E k \in DOMAIN s : s[k] = c /\ k <= w.position}

Counted(s, w) == w.position <= Cardinality(Reached(s, w)) + w.removed
DeadFound(s, w) ==
  w.removed = 0 => \A k \in DOMAIN s : k <= w.position /\ s[k] \in w.dead
                                         => s[k] \in w.failed \cup w.sending

WalksOn(s, w) ==
  w.on => Counted(s, w) /\ DeadFound(s, w) /\ \A c, d \in w.sending : c = d

LiveInv ==
  /\ LiveTypeOK /\ Injective(connections)
  /\ \A k \in DOMAIN connections : socket[connections[k]] # "new"
  /\ \A s \in Senders : /\ WalksOn(connections, walk[s])
                        /\ \A c \in walk[s].dead : socket[c] = "orphan"

LEMMA FirstAreFinite ==
  ASSUME NEW S, NEW s \in Seq(S), NEW p \in Nat, NEW T,
         T \subseteq {s[k] : k \in {j \in DOMAIN s : j <= p}}
  PROVE  IsFiniteSet(T) /\ Cardinality(T) \in Nat /\ Cardinality(T) <= p
<1> DEFINE D == {j \in DOMAIN s : j <= p}
           f == [j \in D |-> s[j]]
           R == {f[j] : j \in D}
<1>1. D \in SUBSET (1..p)
  <2>1. DOMAIN s = 1..Len(s) /\ Len(s) \in Nat
    BY LenProperties
  <2>2. \A j \in 1..Len(s) : j <= p => j \in 1..p
    BY <2>1
  <2> QED
    BY <2>1, <2>2
<1>2. IsFiniteSet(1..p) /\ Cardinality(1..p) = p
  BY FS_Interval
<1>3. IsFiniteSet(D) /\ Cardinality(D) <= p /\ Cardinality(D) \in Nat
  BY <1>1, <1>2, FS_Subset, FS_CardinalityType
<1>4. T \subseteq R
  OBVIOUS
<1>5. f = [j \in D |-> f[j]]
  OBVIOUS
<1> HIDE DEF D, f
<1>6. IsFiniteSet(R) /\ Cardinality(R) <= Cardinality(D)
  BY <1>3, <1>5, FiniteImage
<1> HIDE DEF R
<1> QED
  BY <1>3, <1>4, <1>6, FS_Subset, FS_CardinalityType

LEMMA ReachedIsFinite ==
  ASSUME NEW s \in Seq(Sockets), NEW w \in Walk, NEW gone
  PROVE  /\ IsFiniteSet(Reached(s, w)) /\ Cardinality(Reached(s, w)) \in Nat
         /\ IsFiniteSet(Behind(s, gone, w)) /\ Cardinality(Behind(s, gone, w)) \in Nat
<1>1. w.position \in Nat
  BY DEF Walk
<1>2. /\ Reached(s, w) \subseteq {s[k] : k \in {j \in DOMAIN s : j <= w.position}}
      /\ Behind(s, gone, w) \subseteq {s[k] : k \in {j \in DOMAIN s : j <= w.position}}
  BY DEF Reached, Behind
<1> QED
  BY <1>1, <1>2, FirstAreFinite

LEMMA RemovalCounted ==
  ASSUME NEW s \in Seq(Sockets), NEW gone, NEW t, t = Without(s, gone),
         NEW w \in Walk, NEW v \in Walk, WalksOn(s, w),
         v.on = w.on, v.position = w.position, v.sent = w.sent, v.dead = w.dead,
         v.failed = w.failed, v.sending = w.sending,
         w.on => v.removed = w.removed + Cardinality(Behind(s, gone, w))
  PROVE  WalksOn(t, v)
<1> SUFFICES ASSUME w.on PROVE Counted(t, v) /\ DeadFound(t, v)
  BY DEF WalksOn
<1> DEFINE B == Behind(s, gone, w)
<1>1. /\ t \in Seq(Sockets)
      /\ \A j \in DOMAIN s : s[j] \notin gone => \E k \in DOMAIN t : t[k] = s[j] /\ k <= j
      /\ \A p \in Nat, k \in DOMAIN t :
           k <= p /\ (\A j \in 1..p : j \in DOMAIN s => s[j] \notin gone)
             => k \in DOMAIN s /\ t[k] = s[k]
  BY WithoutShape
<1>2. /\ Counted(s, w) /\ DeadFound(s, w)
      /\ w.position \in Nat /\ w.removed \in Nat /\ v.removed \in Nat
  BY DEF WalksOn, Walk
<1>3. /\ IsFiniteSet(B) /\ Cardinality(B) \in Nat
      /\ IsFiniteSet(Reached(s, w)) /\ Cardinality(Reached(s, w)) \in Nat
      /\ IsFiniteSet(Reached(t, v)) /\ Cardinality(Reached(t, v)) \in Nat
  BY <1>1, ReachedIsFinite
<1>n. DOMAIN s \subseteq Nat /\ DOMAIN t \subseteq Nat
  BY <1>1, LenProperties
<1>4. Reached(s, w) \subseteq Reached(t, v) \cup B
  <2> SUFFICES ASSUME NEW c \in Reached(s, w), c \notin B PROVE c \in Reached(t, v)
    OBVIOUS
  <2>1. PICK j \in DOMAIN s : s[j] = c /\ j <= w.position
    BY DEF Reached
  <2>2. c \notin gone
    BY <2>1 DEF Behind
  <2>3. PICK k \in DOMAIN t : t[k] = c /\ k <= j
    BY <1>1, <2>1, <2>2
  <2>4. k <= v.position
    BY <1>2, <1>n, <2>1, <2>3
  <2> QED
    BY <2>3, <2>4 DEF Reached, Range
<1> HIDE DEF B
<1>5. Cardinality(Reached(s, w)) <= Cardinality(Reached(t, v)) + Cardinality(B)
  <2>1. /\ IsFiniteSet(Reached(t, v) \cup B)
        /\ Cardinality(Reached(t, v) \cup B)
             = Cardinality(Reached(t, v)) + Cardinality(B) - Cardinality(Reached(t, v) \cap B)
    BY <1>3, FS_Union
  <2>2. Cardinality(Reached(t, v) \cap B) \in Nat
    BY <1>3, FS_Intersection, FS_CardinalityType
  <2>3. Cardinality(Reached(s, w)) <= Cardinality(Reached(t, v) \cup B)
    BY <1>4, <2>1, FS_Subset
  <2> QED
    BY <1>3, <2>1, <2>2, <2>3
<1>6. Counted(t, v)
  BY <1>2, <1>3, <1>5 DEF Counted, B
<1>7. DeadFound(t, v)
  <2> SUFFICES ASSUME v.removed = 0, NEW k \in DOMAIN t, k <= v.position, t[k] \in v.dead
               PROVE  t[k] \in v.failed \cup v.sending
    BY DEF DeadFound
  <2>1. Cardinality(B) = 0 /\ w.removed = 0
    BY <1>2, <1>3 DEF B
  <2>2. B = {}
    BY <1>3, <2>1, FS_EmptySet
  <2>3. \A j \in 1..w.position : j \in DOMAIN s => s[j] \notin gone
    BY <2>2 DEF B, Behind
  <2>4. k \in DOMAIN s /\ t[k] = s[k]
    BY <1>1, <1>2, <2>3
  <2> QED
    BY <1>2, <2>1, <2>4 DEF DeadFound
<1> QED
  BY <1>6, <1>7

LEMMA LiveStart == LiveInit => LiveInv
  BY DEF LiveInit, LiveInv, LiveTypeOK, Injective, WalksOn, Walk, NoWalk

(* A socket that is in the list is at one place of it. *)
LEMMA PlaceIsUnique ==
  ASSUME LiveInv, NEW c \in Range(connections)
  PROVE  /\ IndexOf(c) \in DOMAIN connections /\ connections[IndexOf(c)] = c
         /\ \A k \in DOMAIN connections : connections[k] = c => k = IndexOf(c)
<1>1. \E k \in DOMAIN connections : connections[k] = c
  BY DEF Range
<1>2. IndexOf(c) \in DOMAIN connections /\ connections[IndexOf(c)] = c
  BY <1>1 DEF IndexOf
<1> QED
  BY <1>2 DEF LiveInv, Injective

LEMMA AcceptKeeps == ASSUME LiveInv, NEW c \in Sockets, Accept(c) PROVE LiveInv'
<1> DEFINE n == Len(connections)
<1>1. /\ socket[c] = "new" /\ socket' = [socket EXCEPT ![c] = "open"] /\ walk' = walk
      /\ serving' = serving
      /\ connections' = Append(connections, c)
  BY DEF Accept
<1>2. /\ connections \in Seq(Sockets) /\ n \in Nat /\ DOMAIN connections = 1..n
      /\ walk \in [Senders -> Walk] /\ serving \in BOOLEAN
      /\ socket \in [Sockets -> {"new", "open", "left", "orphan", "closed"}]
      /\ \A k \in 1..n : connections[k] \in Sockets /\ connections[k] # c
  BY <1>1, LenProperties, ElementOfSeq DEF LiveInv, LiveTypeOK
<1>3. /\ connections' \in Seq(Sockets) /\ DOMAIN connections' = 1..(n + 1)
      /\ \A k \in 1..n : connections'[k] = connections[k]
      /\ connections'[n + 1] = c
  BY <1>1, <1>2, AppendProperties
<1> HIDE DEF n
<1>4. LiveTypeOK'
  BY <1>1, <1>2, <1>3 DEF LiveTypeOK
<1>5. Injective(connections')
  BY <1>2, <1>3 DEF LiveInv, Injective
<1>6. \A k \in DOMAIN connections' : socket'[connections'[k]] # "new"
  BY <1>1, <1>2, <1>3 DEF LiveInv
<1>7. ASSUME NEW s \in Senders PROVE \A d \in walk[s].dead : d # c /\ socket'[d] = "orphan"
  BY <1>1, <1>2 DEF LiveInv, Walk
<1>8. ASSUME NEW s \in Senders PROVE WalksOn(connections', walk[s])
  <2> SUFFICES ASSUME walk[s].on PROVE Counted(connections', walk[s]) /\ DeadFound(connections', walk[s])
    BY DEF WalksOn, LiveInv
  <2> DEFINE w == walk[s]
  <2>1. /\ w \in Walk /\ Counted(connections, w) /\ DeadFound(connections, w)
        /\ w.position \in Nat /\ w.removed \in Nat
    BY <1>2 DEF LiveInv, WalksOn, Walk
  <2>2. \A d \in w.dead : d # c
    BY <1>7
  <2> HIDE DEF w
  <2>3. Reached(connections, w) \subseteq Reached(connections', w)
    BY <1>2, <1>3 DEF Reached, Range
  <2>4. /\ IsFiniteSet(Reached(connections', w)) /\ Cardinality(Reached(connections', w)) \in Nat
        /\ Cardinality(Reached(connections, w)) \in Nat
    BY <1>2, <1>3, <2>1, ReachedIsFinite
  <2>5. Cardinality(Reached(connections, w)) <= Cardinality(Reached(connections', w))
    BY <2>3, <2>4, FS_Subset
  <2>6. Counted(connections', w)
    BY <2>1, <2>4, <2>5 DEF Counted
  <2>7. DeadFound(connections', w)
    <3> SUFFICES ASSUME w.removed = 0, NEW k \in DOMAIN connections', k <= w.position,
                        connections'[k] \in w.dead
                 PROVE  connections'[k] \in w.failed \cup w.sending
      BY DEF DeadFound
    <3>1. k \in 1..n /\ connections'[k] = connections[k]
      BY <1>2, <1>3, <2>2
    <3> QED
      BY <1>2, <2>1, <3>1 DEF DeadFound
  <2> QED
    BY <2>6, <2>7 DEF w
<1> QED
  BY <1>1, <1>4, <1>5, <1>6, <1>7, <1>8 DEF LiveInv

LEMMA LeavesKeeps == ASSUME LiveInv, NEW c \in Sockets, Leaves(c) PROVE LiveInv'
<1>1. PICK how \in {"left", "orphan"} : socket' = [socket EXCEPT ![c] = how]
  BY DEF Leaves
<1>2. socket[c] = "open" /\ UNCHANGED <<connections, walk, serving>>
  BY DEF Leaves
<1>3. connections \in Seq(Sockets) /\ \A k \in DOMAIN connections : connections[k] \in Sockets
  BY ElementOfSeq, LenProperties DEF LiveInv, LiveTypeOK
<1>4. LiveTypeOK'
  BY <1>1, <1>2 DEF LiveInv, LiveTypeOK
<1>5. \A k \in DOMAIN connections : socket'[connections[k]] # "new"
  BY <1>1, <1>3 DEF LiveInv, LiveTypeOK
<1>6. ASSUME NEW s \in Senders, NEW d \in walk[s].dead PROVE socket'[d] = "orphan"
  BY <1>1, <1>2 DEF LiveInv, LiveTypeOK, Walk
<1> QED
  BY <1>2, <1>4, <1>5, <1>6 DEF LiveInv

(* The walk that a removal has been noted in, be it seen or not. *)
LEMMA NoticedWalksOn ==
  ASSUME LiveInv, NEW c \in Range(connections), NEW s \in Senders
  PROVE  /\ Notice(walk[s], c) \in Walk
         /\ WalksOn(Without(connections, {c}), Notice(walk[s], c))
         /\ Notice(walk[s], c).dead = walk[s].dead
<1> DEFINE w == walk[s]
           v == Notice(w, c)
           B == Behind(connections, {c}, w)
<1>1. /\ w \in Walk /\ connections \in Seq(Sockets) /\ WalksOn(connections, w)
      /\ w.position \in Nat /\ w.removed \in Nat
  BY DEF LiveInv, LiveTypeOK, Walk
<1>2. /\ IndexOf(c) \in DOMAIN connections /\ connections[IndexOf(c)] = c
      /\ \A k \in DOMAIN connections : connections[k] = c => k = IndexOf(c)
  BY PlaceIsUnique
<1>3. B = IF IndexOf(c) <= w.position THEN {c} ELSE {}
  BY <1>2 DEF Behind
<1>4. Cardinality(B) = IF IndexOf(c) <= w.position THEN 1 ELSE 0
  BY <1>3, FS_EmptySet, FS_Singleton
<1> HIDE DEF w
<1>5. v = IF w.on /\ IndexOf(c) <= w.position THEN [w EXCEPT !.removed = @ + 1] ELSE w
  BY DEF Notice
<1>6. /\ v \in Walk /\ v.on = w.on /\ v.position = w.position /\ v.sent = w.sent
      /\ v.dead = w.dead /\ v.failed = w.failed /\ v.sending = w.sending
      /\ v.removed = IF w.on /\ IndexOf(c) <= w.position THEN w.removed + 1 ELSE w.removed
  BY <1>1, <1>5 DEF Walk
<1> HIDE DEF v, B
<1>7. w.on => v.removed = w.removed + Cardinality(B)
  BY <1>1, <1>4, <1>6
<1>8. WalksOn(Without(connections, {c}), v)
  BY <1>1, <1>6, <1>7, RemovalCounted DEF B
<1> QED
  BY <1>6, <1>8 DEF w, v

(* A socket that is removed, also with another state of its own, leaves the *)
(* broadcasts as they should be.                                            *)
LEMMA RemovedKeeps ==
  ASSUME LiveInv, NEW c \in Sockets, Removed(c),
         NEW how \in {"open", "left", "orphan", "closed"},
         socket' = [socket EXCEPT ![c] = how], socket[c] = "orphan" => how = "orphan"
  PROVE  LiveInv'
<1>1. /\ connections' = Without(connections, {c}) /\ serving' = serving
      /\ walk' = IF c \in Range(connections) THEN [s \in Senders |-> Notice(walk[s], c)] ELSE walk
  BY DEF Removed
<1>2. /\ connections \in Seq(Sockets) /\ walk \in [Senders -> Walk]
      /\ socket \in [Sockets -> {"new", "open", "left", "orphan", "closed"}]
      /\ \A k \in DOMAIN connections : connections[k] \in Sockets
  BY ElementOfSeq, LenProperties DEF LiveInv, LiveTypeOK
<1>3. /\ connections' \in Seq(Sockets) /\ Injective(connections')
      /\ \A k \in DOMAIN connections' :
           \E j \in DOMAIN connections : connections[j] = connections'[k] /\ connections[j] \notin {c}
  <2> DEFINE gone == {c}
  <2>1. /\ connections' = Without(connections, gone) /\ connections \in Seq(Sockets)
        /\ Injective(connections)
    BY <1>1, <1>2 DEF LiveInv
  <2> HIDE DEF gone
  <2>2. /\ connections' \in Seq(Sockets) /\ Injective(connections')
        /\ \A k \in DOMAIN connections' :
             \E j \in DOMAIN connections : connections[j] = connections'[k] /\ connections[j] \notin gone
    BY <2>1, WithoutShape
  <2> QED
    BY <2>2 DEF gone
<1>4. ASSUME NEW s \in Senders
      PROVE  walk'[s] \in Walk /\ WalksOn(connections', walk'[s]) /\ walk'[s].dead = walk[s].dead
  <2>1. CASE c \in Range(connections)
    BY <1>1, <2>1, NoticedWalksOn
  <2>2. CASE c \notin Range(connections)
    <3>1. walk' = walk /\ walk[s] \in Walk /\ WalksOn(connections, walk[s])
          /\ walk[s].removed \in Nat
      BY <1>1, <1>2, <2>2 DEF LiveInv, Walk
    <3>2. Behind(connections, {c}, walk[s]) = {}
      BY <2>2 DEF Behind, Range
    <3>3. walk[s].removed = walk[s].removed + Cardinality(Behind(connections, {c}, walk[s]))
      BY <3>1, <3>2, FS_EmptySet
    <3>4. WalksOn(connections', walk[s])
      BY <1>1, <1>2, <3>1, <3>3, RemovalCounted
    <3> QED
      BY <3>1, <3>4
  <2> QED
    BY <2>1, <2>2
<1>5. walk' \in [Senders -> Walk]
  BY <1>1, <1>2, <1>4
<1>6. LiveTypeOK'
  BY <1>1, <1>2, <1>3, <1>5 DEF LiveInv, LiveTypeOK
<1>7. \A k \in DOMAIN connections' : socket'[connections'[k]] # "new"
  BY <1>1, <1>2, <1>3 DEF LiveInv
<1>8. ASSUME NEW s \in Senders, NEW d \in walk'[s].dead PROVE socket'[d] = "orphan"
  BY <1>1, <1>2, <1>4 DEF LiveInv, Walk
<1> QED
  BY <1>3, <1>4, <1>6, <1>7, <1>8 DEF LiveInv

LEMMA ClosesKeeps ==
  ASSUME LiveInv, NEW c \in Sockets, Disconnect(c) \/ LifespanCloses(c)
  PROVE  LiveInv'
<1>1. CASE Disconnect(c)
  BY <1>1, RemovedKeeps DEF Disconnect
<1>2. CASE LifespanCloses(c)
  <2>1. /\ c \in Range(connections) /\ socket[c] # "new"
    <3>1. connections \in Seq(Sockets) /\ connections # <<>> /\ c = connections[1]
      BY <1>2, HeadTailProperties DEF LifespanCloses, LiveInv, LiveTypeOK
    <3>2. 1 \in DOMAIN connections
      BY <3>1, EmptySeq, LenProperties
    <3> QED
      BY <3>1, <3>2 DEF Range, LiveInv
  <2> DEFINE how == IF socket[c] = "open" THEN "left" ELSE socket[c]
  <2>2. /\ how \in {"open", "left", "orphan", "closed"}
        /\ socket[c] = "orphan" => how = "orphan"
    BY <2>1 DEF LiveInv, LiveTypeOK
  <2>3. socket' = [socket EXCEPT ![c] = how] /\ Removed(c)
    BY <1>2 DEF LifespanCloses
  <2> HIDE DEF how
  <2> QED
    BY <2>2, <2>3, RemovedKeeps
<1> QED
  BY <1>1, <1>2

(* A step of one broadcast that changes neither the list nor the sockets.   *)
LEMMA OneWalks ==
  ASSUME LiveInv, NEW s \in Senders, NEW w \in Walk, walk' = [walk EXCEPT ![s] = w],
         UNCHANGED <<connections, socket, serving>>, WalksOn(connections, w),
         \A c \in w.dead : socket[c] = "orphan"
  PROVE  LiveInv'
<1>1. /\ walk \in [Senders -> Walk] /\ walk' \in [Senders -> Walk]
      /\ \A t \in Senders : walk'[t] = IF t = s THEN w ELSE walk[t]
  BY DEF LiveInv, LiveTypeOK
<1>2. LiveTypeOK'
  BY <1>1 DEF LiveInv, LiveTypeOK
<1>3. ASSUME NEW t \in Senders
      PROVE  WalksOn(connections, walk'[t]) /\ \A c \in walk'[t].dead : socket[c] = "orphan"
  BY <1>1 DEF LiveInv
<1> QED
  BY <1>2, <1>3 DEF LiveInv

LEMMA NoWalkWalks == NoWalk \in Walk /\ NoWalk.dead = {} /\ \A s : WalksOn(s, NoWalk)
  BY DEF NoWalk, Walk, WalksOn

LEMMA BeginsKeeps == ASSUME LiveInv, NEW s \in Senders, BroadcastBegins(s) PROVE LiveInv'
<1> DEFINE D == {c \in Range(connections) : socket[c] = "orphan"}
           w == [NoWalk EXCEPT !.on = TRUE, !.dead = D]
<1>1. walk' = [walk EXCEPT ![s] = w] /\ UNCHANGED <<connections, socket, serving>>
  BY DEF BroadcastBegins
<1>2. /\ connections \in Seq(Sockets) /\ Len(connections) \in Nat
      /\ DOMAIN connections = 1..Len(connections)
      /\ \A k \in DOMAIN connections : connections[k] \in Sockets
  BY ElementOfSeq, LenProperties DEF LiveInv, LiveTypeOK
<1>3. D \in SUBSET Sockets /\ \A c \in D : socket[c] = "orphan"
  BY <1>2 DEF Range
<1> HIDE DEF D
<1>4. w \in Walk /\ w.on /\ w.position = 0 /\ w.removed = 0 /\ w.dead = D /\ w.sending = {}
  BY <1>3 DEF NoWalk, Walk
<1> HIDE DEF w
<1>5. Counted(connections, w)
  BY <1>2, <1>4, ReachedIsFinite DEF Counted
<1>6. DeadFound(connections, w)
  BY <1>2, <1>4 DEF DeadFound
<1> QED
  BY <1>1, <1>3, <1>4, <1>5, <1>6, OneWalks DEF WalksOn

LEMMA SendBeginsKeeps == ASSUME LiveInv, NEW s \in Senders, SendBegins(s) PROVE LiveInv'
<1> DEFINE w == walk[s]
           next == w.position + 1
           c == connections[next]
           v == [w EXCEPT !.position = next, !.sending = {c}, !.sent[c] = @ + 1]
<1>1. /\ w.on /\ w.sending = {} /\ next <= Len(connections)
      /\ UNCHANGED <<connections, socket, serving>>
  BY DEF SendBegins
<1>2. /\ connections \in Seq(Sockets) /\ Len(connections) \in Nat
      /\ DOMAIN connections = 1..Len(connections) /\ w \in Walk /\ walk \in [Senders -> Walk]
      /\ w.position \in Nat /\ w.removed \in Nat /\ w.sent \in [Sockets -> Nat]
      /\ Counted(connections, w) /\ DeadFound(connections, w)
      /\ \A d \in w.dead : socket[d] = "orphan"
  BY <1>1, LenProperties DEF LiveInv, LiveTypeOK, Walk, WalksOn
<1>3. next \in DOMAIN connections /\ c \in Sockets
  BY <1>1, <1>2, ElementOfSeq
<1>4. walk' = [walk EXCEPT ![s] = v]
  BY <1>2 DEF SendBegins
<1> HIDE DEF c
<1>5. /\ v \in Walk /\ v.on /\ v.position = next /\ v.sending = {c} /\ v.failed = w.failed
      /\ v.dead = w.dead /\ v.removed = w.removed
      /\ v.sent = [w.sent EXCEPT ![c] = @ + 1]
  <2>1. [w.sent EXCEPT ![c] = @ + 1] \in [Sockets -> Nat] /\ next \in Nat
    BY <1>2, <1>3
  <2> QED
    BY <1>1, <1>2, <1>3, <2>1 DEF Walk
<1> HIDE DEF v, w
<1>6. Counted(connections, v)
  <2>1. c \in Reached(connections, v) /\ c \notin Reached(connections, w)
    <3>1. v.sent[c] # 0
      BY <1>2, <1>3, <1>5
    <3>2. c \in Reached(connections, v)
      <4>1. c \in Range(connections) /\ connections[next] = c /\ next <= v.position
        BY <1>2, <1>3, <1>5 DEF Range, c
      <4> QED
        BY <1>3, <3>1, <4>1 DEF Reached
    <3>3. \A k \in DOMAIN connections : connections[k] = c => k = next
      BY <1>3 DEF LiveInv, Injective, c
    <3>4. c \notin Reached(connections, w)
      BY <1>2, <3>3 DEF Reached
    <3> QED
      BY <3>2, <3>4
  <2>2. Reached(connections, w) \subseteq Reached(connections, v)
    <3> SUFFICES ASSUME NEW d \in Reached(connections, w) PROVE d \in Reached(connections, v)
      OBVIOUS
    <3>1. d \in Range(connections) /\ w.sent[d] # 0
      BY DEF Reached
    <3>2. PICK k \in DOMAIN connections : connections[k] = d /\ k <= w.position
      BY DEF Reached
    <3>3. k <= v.position /\ d \in Sockets
      BY <1>2, <1>5, <3>2, ElementOfSeq
    <3>4. v.sent[d] # 0
      BY <1>2, <1>3, <1>5, <3>1, <3>3
    <3> QED
      BY <3>1, <3>2, <3>3, <3>4 DEF Reached
  <2>3. /\ IsFiniteSet(Reached(connections, v)) /\ Cardinality(Reached(connections, v)) \in Nat
        /\ IsFiniteSet(Reached(connections, w)) /\ Cardinality(Reached(connections, w)) \in Nat
    BY <1>2, <1>5, ReachedIsFinite
  <2>4. Cardinality(Reached(connections, w) \cup {c}) = Cardinality(Reached(connections, w)) + 1
    BY <2>1, <2>3, FS_AddElement
  <2>5. Cardinality(Reached(connections, w) \cup {c}) <= Cardinality(Reached(connections, v))
    BY <2>1, <2>2, <2>3, FS_Subset
  <2> QED
    BY <1>2, <1>5, <2>3, <2>4, <2>5 DEF Counted
<1>7. DeadFound(connections, v)
  <2> SUFFICES ASSUME v.removed = 0, NEW k \in DOMAIN connections, k <= v.position,
                      connections[k] \in v.dead
               PROVE  connections[k] \in v.failed \cup v.sending
    BY DEF DeadFound
  <2>1. CASE k = next
    BY <1>5, <2>1 DEF c
  <2>2. CASE k # next
    <3>1. k <= w.position
      BY <1>2, <1>5, <2>2
    <3> QED
      BY <1>1, <1>2, <1>5, <3>1 DEF DeadFound, w
  <2> QED
    BY <2>1, <2>2
<1> QED
  BY <1>1, <1>2, <1>4, <1>5, <1>6, <1>7, OneWalks DEF WalksOn

LEMMA SentKeeps ==
  ASSUME LiveInv, NEW s \in Senders, SendReturns(s) \/ SendFails(s) PROVE LiveInv'
<1> DEFINE w == walk[s]
<1>1. /\ walk \in [Senders -> Walk] /\ w \in Walk /\ w.failed \subseteq Sockets
      /\ w.sending \subseteq Sockets /\ \A c \in w.dead : socket[c] = "orphan"
  BY DEF LiveInv, LiveTypeOK, Walk
<1>2. ASSUME NEW c \in w.sending, NEW found \in SUBSET Sockets, w.failed \subseteq found,
             socket[c] = "orphan" => c \in found,
             walk' = [walk EXCEPT ![s] = [w EXCEPT !.sending = {}, !.failed = found]],
             UNCHANGED <<connections, socket, serving>>
      PROVE  LiveInv'
  <2> DEFINE v == [w EXCEPT !.sending = {}, !.failed = found]
  <2>1. /\ v \in Walk /\ v.on = w.on /\ v.position = w.position /\ v.sent = w.sent
        /\ v.sending = {} /\ v.failed = found /\ v.dead = w.dead /\ v.removed = w.removed
    BY <1>1 DEF Walk
  <2>w. WalksOn(connections, w)
    BY DEF LiveInv
  <2> HIDE DEF w
  <2>2. walk' = [walk EXCEPT ![s] = v]
    BY <1>2
  <2> HIDE DEF v
  <2>3. ASSUME v.on PROVE Counted(connections, v)
    BY <2>1, <2>w, <2>3 DEF WalksOn, Counted, Reached
  <2>4. ASSUME v.on, v.removed = 0, NEW k \in DOMAIN connections, k <= v.position,
               connections[k] \in v.dead
        PROVE  connections[k] \in v.failed
    <3>1. connections[k] \in w.failed \cup w.sending /\ \A d \in w.sending : d = c
      BY <1>2, <2>1, <2>w, <2>4 DEF WalksOn, DeadFound
    <3>2. socket[connections[k]] = "orphan"
      BY <1>1, <2>1, <2>4
    <3> QED
      BY <1>2, <2>1, <3>1, <3>2
  <2>5. WalksOn(connections, v)
    BY <2>1, <2>3, <2>4 DEF WalksOn, DeadFound
  <2> QED
    BY <1>1, <1>2, <2>1, <2>2, <2>5, OneWalks
<1>3. CASE SendReturns(s)
  <2>1. PICK c \in w.sending : socket[c] # "orphan" /\ walk' = [walk EXCEPT ![s].sending = {}]
                               /\ UNCHANGED <<connections, socket, serving>>
    BY <1>3 DEF SendReturns
  <2>2. [w EXCEPT !.sending = {}] = [w EXCEPT !.sending = {}, !.failed = w.failed]
    BY <1>1 DEF Walk
  <2>3. walk' = [walk EXCEPT ![s] = [w EXCEPT !.sending = {}, !.failed = w.failed]]
    BY <1>1, <2>1, <2>2
  <2> QED
    BY <1>1, <1>2, <2>1, <2>3
<1>4. CASE SendFails(s)
  <2>1. PICK c \in w.sending :
          walk' = [walk EXCEPT ![s] = [w EXCEPT !.sending = {}, !.failed = w.failed \cup {c}]]
          /\ UNCHANGED <<connections, socket, serving>>
    BY <1>1, <1>4 DEF SendFails
  <2>2. w.failed \cup {c} \in SUBSET Sockets
    BY <1>1
  <2> QED
    BY <1>2, <2>1, <2>2
<1> QED
  BY <1>3, <1>4

(* The sockets that were behind a broadcast are those that its sender       *)
(* counts as removed.                                                       *)
LEMMA EndsKeeps == ASSUME LiveInv, NEW s \in Senders, BroadcastEnds(s) PROVE LiveInv'
<1> DEFINE gone == walk[s].failed \cap Range(connections)
           left(w) == [w EXCEPT !.removed = @ + Cardinality(Behind(connections, gone, w))]
<1>1. /\ connections' = Without(connections, gone) /\ UNCHANGED <<socket, serving>>
      /\ connections \in Seq(Sockets) /\ walk \in [Senders -> Walk]
  BY DEF BroadcastEnds, LiveInv, LiveTypeOK
<1>2. ASSUME NEW w PROVE Behind(connections, gone, w) = {c \in gone : IndexOf(c) <= w.position}
  BY PlaceIsUnique DEF Behind
<1>3. walk' = [t \in Senders |-> IF t = s THEN NoWalk ELSE IF walk[t].on THEN left(walk[t]) ELSE walk[t]]
  BY <1>2 DEF BroadcastEnds
<1> HIDE DEF gone
<1>4. /\ connections' \in Seq(Sockets) /\ Injective(connections')
      /\ \A k \in DOMAIN connections' : \E j \in DOMAIN connections : connections[j] = connections'[k]
  BY <1>1, WithoutShape DEF LiveInv
<1>5. ASSUME NEW t \in Senders
      PROVE  /\ walk'[t] \in Walk /\ WalksOn(connections', walk'[t])
             /\ walk'[t].dead \subseteq walk[t].dead
  <2>1. CASE t = s
    BY <1>3, <2>1, NoWalkWalks
  <2>2. CASE t # s /\ walk[t].on
    <3> DEFINE w == walk[t]
               v == left(w)
    <3>1. w \in Walk /\ w.on /\ w.removed \in Nat /\ WalksOn(connections, w) /\ walk'[t] = v
      BY <1>1, <1>3, <2>2 DEF LiveInv, Walk
    <3> HIDE DEF w
    <3>2. Cardinality(Behind(connections, gone, w)) \in Nat
      BY <1>1, <3>1, ReachedIsFinite
    <3>3. /\ v \in Walk /\ v.on = w.on /\ v.position = w.position /\ v.sent = w.sent
          /\ v.dead = w.dead /\ v.failed = w.failed /\ v.sending = w.sending
          /\ v.removed = w.removed + Cardinality(Behind(connections, gone, w))
      <4>1. w.removed + Cardinality(Behind(connections, gone, w)) \in Nat
        BY <3>1, <3>2
      <4> QED
        BY <3>1, <4>1 DEF Walk
    <3> HIDE DEF v
    <3>4. WalksOn(connections', v)
      BY <1>1, <3>1, <3>3, RemovalCounted
    <3> QED
      BY <3>1, <3>3, <3>4 DEF w
  <2>3. CASE t # s /\ ~walk[t].on
    BY <1>1, <1>3, <2>3 DEF WalksOn
  <2> QED
    BY <2>1, <2>2, <2>3
<1>6. walk' \in [Senders -> Walk]
  <2>1. walk' = [t \in Senders |-> walk'[t]]
    BY <1>3
  <2> QED
    BY <1>5, <2>1
<1>7. LiveTypeOK'
  BY <1>1, <1>4, <1>6 DEF LiveInv, LiveTypeOK
<1>8. \A k \in DOMAIN connections' : socket'[connections'[k]] # "new"
  BY <1>1, <1>4 DEF LiveInv
<1>9. \A t \in Senders : \A c \in walk'[t].dead : socket'[c] = "orphan"
  BY <1>1, <1>5 DEF LiveInv
<1> QED
  BY <1>4, <1>5, <1>7, <1>8, <1>9 DEF LiveInv

LEMMA LiveStep == LiveInv /\ [LiveNext]_liveVars => LiveInv'
<1> SUFFICES ASSUME LiveInv, [LiveNext]_liveVars PROVE LiveInv'
  OBVIOUS
<1>1. CASE BroadcastCancelled
  <2>1. "monitor" \in Senders
    BY DEF Senders, Tasks
  <2> QED
    BY <1>1, <2>1, NoWalkWalks, OneWalks DEF BroadcastCancelled
<1>2. CASE TasksCancelled
  <2>1. /\ connections' = connections /\ socket' = socket /\ serving' = FALSE
        /\ walk' = [s \in Senders |-> IF s \in Tasks THEN NoWalk ELSE walk[s]]
    BY <1>2 DEF TasksCancelled
  <2>2. /\ walk \in [Senders -> Walk] /\ NoWalk \in Walk /\ NoWalk.dead = {}
        /\ \A c : WalksOn(c, NoWalk)
    BY NoWalkWalks DEF LiveInv, LiveTypeOK
  <2>3. LiveTypeOK'
    BY <2>1, <2>2 DEF LiveInv, LiveTypeOK
  <2>4. ASSUME NEW s \in Senders
        PROVE  /\ WalksOn(connections', walk'[s])
               /\ \A c \in walk'[s].dead : socket'[c] = "orphan"
    BY <2>1, <2>2 DEF LiveInv
  <2> QED
    BY <2>1, <2>3, <2>4 DEF LiveInv
<1>3. CASE UNCHANGED liveVars
  BY <1>3 DEF liveVars, LiveInv, LiveTypeOK
<1> QED
  BY <1>1, <1>2, <1>3, AcceptKeeps, LeavesKeeps, ClosesKeeps, BeginsKeeps, SendBeginsKeeps,
     SentKeeps, EndsKeeps DEF LiveNext, BroadcastStep

(* A broadcast passes a socket over only for one that went away, for any    *)
(* number of sockets that come and go while any number of senders broadcast.*)
THEOREM MissedForRemovalsAlways == ServicesSpec => []MissedForRemovals
<1>1. ASSUME LiveInv, NEW s \in Senders, walk[s].on
      PROVE  Cardinality(PassedOver(s)) <= walk[s].removed
  <2> DEFINE w == walk[s]
             P == PassedOver(s)
             R == Reached(connections, w)
             first == {connections[k] : k \in {j \in DOMAIN connections : j <= w.position}}
  <2>1. /\ connections \in Seq(Sockets) /\ w \in Walk /\ w.position \in Nat
        /\ w.removed \in Nat /\ Counted(connections, w)
    BY <1>1 DEF LiveInv, LiveTypeOK, WalksOn, Walk
  <2>2. P \subseteq first /\ R \subseteq first /\ P \cap R = {}
    BY DEF PassedOver, Reached
  <2> HIDE DEF w, P, R
  <2>3. /\ IsFiniteSet(P) /\ Cardinality(P) \in Nat /\ IsFiniteSet(R) /\ Cardinality(R) \in Nat
        /\ Cardinality(P \cup R) <= w.position
    BY <2>1, <2>2, FirstAreFinite
  <2>4. Cardinality(P \cup R) = Cardinality(P) + Cardinality(R) - Cardinality({})
    BY <2>2, <2>3, FS_Union
  <2>5. Cardinality({}) = 0
    BY FS_EmptySet
  <2>6. w.position <= Cardinality(R) + w.removed
    BY <2>1 DEF Counted, R
  <2> QED
    BY <2>1, <2>3, <2>4, <2>5, <2>6 DEF w, P
<1>2. LiveInv => MissedForRemovals
  BY <1>1 DEF MissedForRemovals
<1> QED
  BY <1>2, LiveStart, LiveStep, ServicesAreSpecs, PTL DEF LiveSpec

(* The sockets whose endpoint has died are gone when a broadcast that was   *)
(* not made to pass any over ends, for any number of sockets.               *)
THEOREM DeadAreDroppedAlways == ServicesSpec => DeadAreDropped
<1> DEFINE Ends == /\ walk["cycle"].on /\ ~walk["cycle"].on' /\ serving'
                   /\ walk["cycle"].removed = 0
<1>1. ASSUME LiveInv, [LiveNext]_liveVars, Ends PROVE walk["cycle"].dead \cap Range(connections') = {}
  <2> DEFINE w == walk["cycle"]
             gone == w.failed \cap Range(connections)
  <2>1. "cycle" \in Senders /\ "monitor" \in Senders /\ "cycle" # "monitor" /\ walk \in [Senders -> Walk]
    BY <1>1 DEF Senders, Tasks, LiveInv, LiveTypeOK
  <2>2. BroadcastEnds("cycle")
    <3>1. ~(\E c \in Sockets : Accept(c) \/ Leaves(c))
      BY <1>1 DEF Accept, Leaves
    <3>2. ~(\E c \in Sockets : Disconnect(c) \/ LifespanCloses(c))
      <4>1. \A c : Notice(walk["cycle"], c).on
        BY <1>1, <2>1 DEF Notice, Walk
      <4> QED
        BY <1>1, <2>1, <4>1 DEF Disconnect, LifespanCloses, Removed
    <3>3. ~BroadcastCancelled /\ ~TasksCancelled /\ ~UNCHANGED liveVars
      BY <1>1, <2>1 DEF BroadcastCancelled, TasksCancelled, liveVars
    <3>4. ASSUME NEW s \in Senders, BroadcastBegins(s) \/ SendBegins(s) \/ SendReturns(s) \/ SendFails(s)
          PROVE  FALSE
      <4>1. CASE BroadcastBegins(s)
        BY <1>1, <2>1, <4>1 DEF BroadcastBegins
      <4>2. CASE SendBegins(s)
        BY <1>1, <2>1, <4>2 DEF SendBegins, Walk
      <4>3. CASE SendReturns(s)
        BY <1>1, <2>1, <4>3 DEF SendReturns, Walk
      <4>4. CASE SendFails(s)
        BY <1>1, <2>1, <4>4 DEF SendFails, Walk
      <4> QED
        BY <3>4, <4>1, <4>2, <4>3, <4>4
    <3>5. ASSUME NEW s \in Senders, s # "cycle", BroadcastEnds(s) PROVE FALSE
      BY <1>1, <2>1, <3>5 DEF BroadcastEnds, Walk
    <3> QED
      BY <1>1, <3>1, <3>2, <3>3, <3>4, <3>5 DEF LiveNext, BroadcastStep
  <2>3. /\ connections' = Without(connections, gone) /\ w.sending = {}
        /\ w.position >= Len(connections) /\ connections \in Seq(Sockets)
        /\ DeadFound(connections, w) /\ w.position \in Nat
    BY <1>1, <2>1, <2>2 DEF BroadcastEnds, LiveInv, LiveTypeOK, WalksOn, Walk
  <2>4. DOMAIN connections = 1..Len(connections) /\ Len(connections) \in Nat
    BY <2>3, LenProperties
  <2>5. \A k \in DOMAIN connections : connections[k] \in w.dead => connections[k] \in gone
    BY <1>1, <2>3, <2>4 DEF DeadFound, Range
  <2> HIDE DEF gone
  <2>6. \A k \in DOMAIN connections' :
          \E j \in DOMAIN connections : connections[j] = connections'[k] /\ connections[j] \notin gone
    BY <2>3, WithoutShape
  <2> QED
    BY <2>5, <2>6 DEF Range
<1>2. LiveInv /\ [LiveNext]_liveVars =>
        [Ends => walk["cycle"].dead \cap Range(connections') = {}]_liveVars
  BY <1>1
<1> QED
  BY <1>2, LiveStart, LiveStep, ServicesAreSpecs, PTL DEF LiveSpec, DeadAreDropped
-------------------------------------------------------------------------------
(* The types.  A migration keeps the types of the tables that it works on.  *)
Kinds == {"empty", "legacy", "user"}

Contents(d) ==
  /\ d.schema \subseteq SchemaParts
  /\ \A t \in Tables : d.rows[t] \in Table
  /\ \A a \in ArtifactTables : d.samples[a] \in Kinds

LEMMA IsDb ==
  ASSUME NEW d, Sound(d), Contents(d), d.versions \subseteq Versions PROVE d \in Db
<1>1. /\ d = [f \in Fields |-> d[f]] /\ d.rows = [t \in Tables |-> d.rows[t]]
      /\ d.samples = [a \in ArtifactTables |-> d.samples[a]] /\ d.profiles \subseteq Profile
  BY DEF Sound, Shaped
<1>2. d.rows \in [Tables -> Table] /\ d.samples \in [ArtifactTables -> Kinds]
  BY <1>1 DEF Contents
<1>3. d = [versions |-> d.versions, schema |-> d.schema, rows |-> d.rows,
           profiles |-> d.profiles, samples |-> d.samples]
  BY <1>1 DEF Fields
<1> HIDE DEF Fields
<1> QED
  BY <1>1, <1>2, <1>3 DEF Db, Kinds, Contents

LEMMA IsTable ==
  /\ \A f \in Table : DOMAIN f \subseteq Keys /\ \A k \in DOMAIN f : f[k] \in Origins
  /\ \A ks \in SUBSET Keys : \A f \in [ks -> Origins] : f \in Table
  BY DEF Table

LEMMA RowsKeep ==
  ASSUME NEW d, Sound(d), Contents(d), NEW t \in Tables, NEW ks \in SUBSET Keys
  PROVE  Contents(Overwrite(d, t, ks)) /\ Contents(Ignore(d, t, ks))
<1> DEFINE row == d.rows[t]
           over == [k \in DOMAIN row \cup ks |-> IF k \in ks THEN "legacy" ELSE row[k]]
           ign == [k \in DOMAIN row \cup ks |-> IF k \in DOMAIN row THEN row[k] ELSE "legacy"]
<1>1. row \in Table
  BY DEF Contents
<1>2. over \in Table /\ ign \in Table
  <2> HIDE DEF row
  <2>1. DOMAIN row \cup ks \in SUBSET Keys /\ \A k \in DOMAIN row : row[k] \in Origins
    BY <1>1, IsTable
  <2>2. over \in [DOMAIN row \cup ks -> Origins] /\ ign \in [DOMAIN row \cup ks -> Origins]
    BY <2>1 DEF Origins
  <2> QED
    BY <2>1, <2>2, IsTable
<1>3. Overwrite(d, t, ks) = [d EXCEPT !.rows[t] = over] /\ Ignore(d, t, ks) = [d EXCEPT !.rows[t] = ign]
  BY DEF Overwrite, Ignore, Sound, Shaped, Fields
<1> HIDE DEF over, ign
<1>4. ASSUME NEW r \in Table PROVE Contents([d EXCEPT !.rows[t] = r])
  BY <1>4 DEF Contents, Sound, Shaped, Fields
<1> QED
  BY <1>2, <1>3, <1>4

LEMMA MigrateKeeps ==
  ASSUME NEW d, Sound(d), Contents(d), NEW v \in Versions, NEW o \in Legacy
  PROVE  Contents(Migrate(v, d, o))
<1>o. /\ o.settings \subseteq Keys /\ o.runtime \subseteq Keys /\ o.tweaks \subseteq Keys
      /\ o.snapshots \subseteq Keys /\ o.benchmarks \subseteq Keys /\ o.network \subseteq Keys
      /\ o.accounts \subseteq Keys /\ o.entitlements \subseteq Keys
  BY DEF Legacy
<1>s. Shaped(d)
  BY DEF Sound
<1>1. Contents(CreateBase(d)) /\ Contents(ExpandColumns(d)) /\ Contents(AddHealth(d))
  BY <1>s DEF CreateBase, ExpandColumns, AddHealth, Contents, SchemaParts, Shaped, Fields
<1>2. Contents(UniqueProfiles(d))
  BY <1>s DEF UniqueProfiles, Contents, SchemaParts, Shaped, Fields
<1>3. Contents(ImportArtifact(d, o))
  BY <1>s DEF ImportArtifact, Contents, Kinds, Shaped, Fields
<1>r. ASSUME NEW e, Sound(e), Contents(e), NEW t \in Tables, NEW ks \in SUBSET Keys
      PROVE  /\ Sound(Overwrite(e, t, ks)) /\ Contents(Overwrite(e, t, ks))
             /\ Sound(Ignore(e, t, ks)) /\ Contents(Ignore(e, t, ks))
  BY <1>r, RowsAdvance, RowsKeep DEF Advances
<1>f. ASSUME NEW e, Sound(e), Contents(e)
      PROVE  Sound(FillProfiles(e)) /\ Contents(FillProfiles(e))
  <2>1. Sound(FillProfiles(e))
    BY <1>f, FillAdvances DEF Advances
  <2>2. Contents(FillProfiles(e))
    BY <1>f DEF FillProfiles, Contents, Sound, Shaped, Fields
  <2> QED
    BY <2>1, <2>2
<1>4. Contents(MigrateSettings(d, o))
  BY <1>o, <1>r DEF MigrateSettings, Tables
<1>5. Contents(MigrateDomain(d, o))
  <2> DEFINE a1 == MigrateRollback(d, o)
             a2 == Ignore(a1, "benchmark_runs", o.benchmarks)
             a3 == MigrateBenchmarks(a1, o)
             a4 == MigrateNetwork(a3, o)
             a5 == FillProfiles(a4)
             a6 == MigrateTweaks(a5, o)
             a7 == ProjectAccounts(a6, o)
             a8 == MigrateEntitlements(a7, o)
             OK(e) == Sound(e) /\ Contents(e)
  <2>1. OK(a1)
    BY <1>o, <1>r DEF Tables, MigrateRollback
  <2>2. OK(a2)
    BY <1>o, <1>r, <2>1 DEF Tables
  <2>3. OK(a3)
    BY <1>o, <1>r, <2>2 DEF Tables, MigrateBenchmarks
  <2>4. OK(a4)
    BY <1>o, <1>r, <2>3 DEF Tables, MigrateNetwork
  <2>5. OK(a5)
    BY <1>f, <2>4
  <2>6. OK(a6)
    BY <1>o, <1>r, <2>5 DEF Tables, MigrateTweaks
  <2>7. OK(a7)
    BY <1>o, <1>r, <2>6 DEF Tables, ProjectAccounts
  <2>8. OK(a8)
    BY <1>o, <1>r, <2>7 DEF Tables, MigrateEntitlements
  <2> QED
    BY <2>8 DEF MigrateDomain
<1> QED
  BY <1>1, <1>2, <1>3, <1>4, <1>5 DEF Migrate, Versions

LEMMA RecordKeeps ==
  ASSUME NEW d, Shaped(d), Contents(d), NEW v PROVE Contents(Record(v, d))
  BY DEF Record, Contents, Shaped, Fields

LEMMA WrittenKeeps == ASSUME Shaped(disk), Contents(disk), Written PROVE Contents(disk')
<1>1. ASSUME NEW t \in WrittenTables, NEW k \in Keys, WriteRow(t, k) PROVE Contents(disk')
  <2> DEFINE row == disk.rows[t]
             new == [j \in DOMAIN row \cup {k} |-> IF j = k THEN "user" ELSE row[j]]
  <2>1. t \in Tables /\ row \in Table
    BY LaunchesAssumption DEF Contents
  <2>2. disk' = [disk EXCEPT !.rows[t] = new]
    BY <1>1, <2>1 DEF WriteRow, Served, Shaped, Fields
  <2> HIDE DEF row
  <2>3. DOMAIN row \cup {k} \in SUBSET Keys /\ \A j \in DOMAIN row : row[j] \in Origins
    BY <2>1, IsTable
  <2>4. new \in [DOMAIN row \cup {k} -> Origins]
    BY <2>3 DEF Origins
  <2>5. new \in Table
    BY <2>3, <2>4, IsTable
  <2> HIDE DEF new
  <2> QED
    BY <2>1, <2>2, <2>5 DEF Contents, Shaped, Fields
<1>2. ASSUME NEW a \in ArtifactTables, WriteSample(a) PROVE Contents(disk')
  BY <1>2 DEF WriteSample, Served, Contents, Kinds, Shaped, Fields
<1>3. ASSUME NEW g \in Games, SaveProfile(g) PROVE Contents(disk')
  <2>1. PICK ps : disk' = [disk EXCEPT !.profiles = ps]
    BY <1>3 DEF SaveProfile, Served
  <2> QED
    BY <2>1 DEF Contents, Shaped, Fields
<1>4. CASE ClearBenchmarks
  <2>1. NoRows \in Table
    <3>1. NoRows \in [{} -> Origins]
      BY DEF NoRows
    <3> QED
      BY <3>1, IsTable
  <2> QED
    BY <1>4, <2>1 DEF ClearBenchmarks, Served, Contents, Shaped, Fields
<1> QED
  BY <1>1, <1>2, <1>3, <1>4 DEF Written

LaunchTyped ==
  /\ FaithfulInv /\ Contents(disk) /\ Contents(work) /\ old \in Legacy
  /\ dbPhase \in {"down", "migrating", "serving"}
  /\ todo \subseteq Versions /\ inScript \in BOOLEAN /\ cleared \in BOOLEAN

LEMMA TypedStart == LaunchInit => LaunchTyped
<1> SUFFICES ASSUME LaunchInit PROVE LaunchTyped
  OBVIOUS
<1>1. PICK release \in Releases :
        disk = release.disk /\ work = release.disk /\ old = release.old
  BY DEF LaunchInit
<1>2. disk \in Db /\ old \in Legacy
  BY <1>1, LaunchesAssumption
<1>3. Contents(disk)
  BY <1>2 DEF Db, Contents, Kinds
<1> QED
  BY <1>1, <1>2, <1>3, FaithfulStart DEF LaunchInit, LaunchTyped

LEMMA TypedStep == LaunchTyped /\ [LaunchNext]_dbVars => LaunchTyped'
<1> SUFFICES ASSUME LaunchTyped, [LaunchNext]_dbVars PROVE LaunchTyped'
  OBVIOUS
<1>1. FaithfulInv /\ FaithfulInv'
  BY FaithfulStep DEF LaunchTyped
<1>2. Sound(disk) /\ Sound(work) /\ Shaped(disk) /\ Shaped(work)
  BY <1>1 DEF FaithfulInv, Faithful, Sound
<1>3. /\ Contents(disk) /\ Contents(work) /\ old \in Legacy /\ todo \subseteq Versions
      /\ inScript \in BOOLEAN /\ cleared \in BOOLEAN
      /\ dbPhase \in {"down", "migrating", "serving"}
  BY DEF LaunchTyped
<1>4. \A v \in Versions : \A d : Sound(d) /\ Contents(d) =>
        Contents(Migrate(v, d, old)) /\ Contents(Record(v, Migrate(v, d, old)))
  <2> SUFFICES ASSUME NEW v \in Versions, NEW d, Sound(d), Contents(d)
               PROVE  Contents(Migrate(v, d, old)) /\ Contents(Record(v, Migrate(v, d, old)))
    OBVIOUS
  <2>1. Contents(Migrate(v, d, old))
    BY <1>3, MigrateKeeps
  <2>2. Shaped(Migrate(v, d, old))
    BY MigrateShaped DEF Sound, Reshaped
  <2> QED
    BY <2>1, <2>2, RecordKeeps
<1>5. Contents(disk') /\ Contents(work')
  <2>1. CASE Written
    <3>1. disk' = work'
      BY <1>1, <2>1, WrittenShaped DEF FaithfulInv
    <3> QED
      BY <1>2, <1>3, <2>1, <3>1, WrittenKeeps
  <2>2. CASE \E v \in Versions : ApplyMigration(v) \/ ScriptCommits(v) \/ ScriptRuns(v)
    BY <1>2, <1>3, <1>4, <2>2 DEF ApplyMigration, ScriptCommits, ScriptRuns
  <2>3. CASE BeginMigrations \/ (\E v \in Versions : MigrationRaises(v)) \/ FinishMigrations \/ DbDies \/ UNCHANGED dbVars
    BY <1>3, <2>3 DEF BeginMigrations, MigrationRaises, FinishMigrations, DbDies, dbVars
  <2> QED
    BY <2>1, <2>2, <2>3 DEF LaunchNext, Written
<1>6. /\ old' \in Legacy /\ dbPhase' \in {"down", "migrating", "serving"}
      /\ todo' \subseteq Versions /\ inScript' \in BOOLEAN /\ cleared' \in BOOLEAN
  <2>1. CASE Written
    BY <1>3, <2>1 DEF Written, WriteRow, WriteSample, SaveProfile, ClearBenchmarks, Served
  <2>2. CASE \E v \in Versions : ApplyMigration(v) \/ ScriptCommits(v) \/ ScriptRuns(v)
    BY <1>3, <2>2 DEF ApplyMigration, ScriptCommits, ScriptRuns
  <2>3. CASE BeginMigrations \/ (\E v \in Versions : MigrationRaises(v)) \/ FinishMigrations \/ DbDies \/ UNCHANGED dbVars
    BY <1>3, <2>3 DEF BeginMigrations, MigrationRaises, FinishMigrations, DbDies, dbVars, Unapplied
  <2> QED
    BY <2>1, <2>2, <2>3 DEF LaunchNext, Written
<1> QED
  BY <1>1, <1>5, <1>6 DEF LaunchTyped

LEMMA LaunchTypes == ServicesSpec => []LaunchTypeOK
<1>1. LaunchTyped => LaunchTypeOK
  <2> SUFFICES ASSUME LaunchTyped PROVE LaunchTypeOK
    OBVIOUS
  <2>1. /\ Sound(disk) /\ Sound(work) /\ Contents(disk) /\ Contents(work)
        /\ disk.versions \subseteq Versions /\ work.versions \subseteq Versions
        /\ oldProfiles \subseteq Profile
    BY DEF LaunchTyped, FaithfulInv, Faithful, LaunchInv
  <2>2. disk \in Db /\ work \in Db
    BY <2>1, IsDb
  <2> QED
    BY <2>1, <2>2 DEF LaunchTyped, LaunchTypeOK
<1> QED
  BY <1>1, TypedStart, TypedStep, ServicesAreSpecs, PTL DEF LaunchSpec

(* A save is acknowledged after it was committed, so that no more are under *)
(* way than there were.                                                     *)
LEMMA CacheTypes == ServicesSpec => []CacheTypeOK
<1> DEFINE Typed == CacheTypeOK /\ saving < profiles
<1>1. CacheInit => Typed
  BY CacheAssumption DEF CacheInit, CacheTypeOK, None
<1>2. Typed /\ [CacheNext]_cacheVars => Typed'
  <2> SUFFICES ASSUME Typed, [CacheNext]_cacheVars PROVE Typed'
    OBVIOUS
  <2>n. MaxSaves \in Nat /\ MaxClock \in Nat \ {0} /\ Ttl \in Nat
    BY CacheAssumption
  <2>1. ASSUME NEW r \in Readers, GetReads(r) \/ GetReturns(r) \/ GetRaises(r)
        PROVE  Typed'
    BY <2>n, <2>1 DEF GetReads, GetReturns, GetRaises, CacheTypeOK, None
  <2>2. CASE SaveCommits \/ SaveReturns \/ SaveRaises \/ TweakDrops \/ Second \/ UNCHANGED cacheVars
    BY <2>n, <2>2 DEF SaveCommits, SaveReturns, SaveRaises, TweakDrops, Second, cacheVars, CacheTypeOK, None
  <2> QED
    BY <2>1, <2>2 DEF CacheNext
<1> QED
  BY <1>1, <1>2, ServicesAreSpecs, PTL DEF CacheSpec

LEMMA SettingsTypes == ServicesSpec => []SettingsTypeOK
<1> DEFINE Typed == SettingsTypeOK /\ GpuTyped /\ LossIsCrossed /\ RulesTyped /\ CoolsDown
<1>1. SettingsInit => Typed
  BY GpuStart, RulesStart, SettingsAssumption DEF SettingsInit, SettingsTypeOK, Request
<1>2. Typed /\ [GpuNext \/ RuleNext]_settingsVars => Typed'
  <2> SUFFICES ASSUME Typed, [GpuNext \/ RuleNext]_settingsVars PROVE Typed'
    OBVIOUS
  <2>1. GpuTyped' /\ LossIsCrossed' /\ RulesTyped' /\ CoolsDown'
    BY GpuStep, RulesStep
  <2>2. crossed' \subseteq GpuSettings /\ cut' \subseteq Rules /\ tick' \in 1..MaxTick
    <3>1. ASSUME NEW q \in GpuRequests, NEW s \in GpuSettings, ApplySettingReads(q, s)
          PROVE  crossed' = crossed /\ cut' = cut /\ tick' = tick
      BY <3>1 DEF ApplySettingReads, ruleVars
    <3>2. ASSUME NEW q \in GpuRequests, ApplySettingWrites(q)
          PROVE  crossed' \subseteq GpuSettings /\ cut' = cut /\ tick' = tick
      BY <3>2 DEF ApplySettingWrites, ruleVars, GpuTyped, SettingsTypeOK
    <3>3. ASSUME RuleNext
          PROVE  crossed' = crossed /\ cut' \subseteq Rules /\ tick' \in 1..MaxTick
      BY <3>3, SettingsAssumption
         DEF RuleNext, EvaluateFires, RuleApplied, TouchCooldown, EvaluateCut, Tick, gpuVars,
             SettingsTypeOK
    <3>4. crossed \subseteq GpuSettings /\ cut \subseteq Rules /\ tick \in 1..MaxTick
      BY DEF SettingsTypeOK
    <3> QED
      BY <3>1, <3>2, <3>3, <3>4 DEF GpuNext, settingsVars
  <2> QED
    BY <2>1, <2>2 DEF GpuTyped, RulesTyped, SettingsTypeOK, Request
<1> QED
  BY <1>1, <1>2, ServicesAreSpecs, PTL DEF SettingsSpec

LEMMA LiveTypes == ServicesSpec => []LiveTypeOK
<1>1. LiveInv => LiveTypeOK
  BY DEF LiveInv
<1> QED
  BY <1>1, LiveStart, LiveStep, ServicesAreSpecs, PTL DEF LiveSpec

LEMMA MetricsTypes == ServicesSpec => []MetricsTypeOK
<1> DEFINE Typed == MetricsInv /\ step \in {"idle", "minute", "five", "delete"}
<1>1. MetricsInit => Typed
  BY MetricsStart DEF MetricsInit
<1>2. Typed /\ [MetricsNext]_metricVars => Typed'
  BY MetricsStep
     DEF MetricsNext, Sample, TimePasses, RetentionBegins, RollupMinutes, RollupFives, Deletes,
         RetentionDies, metricVars
<1>3. Typed => MetricsTypeOK
  BY RetentionAssumption DEF MetricsInv, MetricsTypeOK
<1> QED
  BY <1>1, <1>2, <1>3, ServicesAreSpecs, PTL DEF MetricsSpec

(* A call that waits is one of the pool; a permit that is returned with     *)
(* nobody waiting was taken.                                                *)
LEMMA PoolTypes == ServicesSpec => []PoolTypeOK
<1> DEFINE Typed == PoolTypeOK /\ PoolInv
<1>1. PoolInit => Typed
  <2> SUFFICES ASSUME PoolInit PROVE PoolTypeOK /\ PoolInv
    OBVIOUS
  <2>1. MaxConnections \in Nat /\ MaxFailures \in Nat /\ 0 \in 0..2
    BY PoolAssumption
  <2>2. at \in [Calls -> Points] /\ saved \in [Calls -> 0..2] /\ writer \in Calls \cup {Nobody}
    BY <2>1 DEF PoolInit, Points
  <2>3. permits \in 0..MaxConnections /\ failures \in 0..MaxFailures /\ leaked \in Nat /\ lost \in Nat
    BY <2>1 DEF PoolInit
  <2> QED
    BY <2>2, <2>3, PoolStart DEF PoolInit, PoolInv, Queued, PoolTypeOK
<1>2. Typed /\ [PoolNext]_poolVars => Typed'
  <2> SUFFICES ASSUME Typed, [PoolNext]_poolVars PROVE Typed'
    OBVIOUS
  <2>1. PoolInv'
    BY PoolStep
  <2>2. permits' \in 0..MaxConnections
    <3>1. permits' \in Nat /\ lost' \in Nat
      BY <2>1 DEF PoolInv
    <3>2. (permits + lost + Cardinality(Held) = MaxConnections)'
      BY <2>1 DEF PoolInv, PermitsAccounted, Held
    <3>3. Cardinality(Held)' \in Nat
      <4>1. IsFiniteSet(Pooled) /\ Held' \subseteq Pooled
        BY PoolAssumption DEF Held
      <4> QED
        BY <4>1, FS_Subset, FS_CardinalityType
    <3> HIDE DEF Held
    <3> QED
      BY <3>1, <3>2, <3>3, PoolAssumption
  <2>3. /\ writer' \in Calls \cup {Nobody} /\ saved' \in [Calls -> 0..2]
        /\ failures' \in 0..MaxFailures /\ leaked' \in Nat /\ stopped' \in BOOLEAN
    <3>1. /\ writer \in Calls \cup {Nobody} /\ saved \in [Calls -> 0..2] /\ MaxFailures \in Nat
          /\ failures \in 0..MaxFailures /\ leaked \in Nat /\ stopped \in BOOLEAN
      BY PoolAssumption DEF PoolTypeOK
    <3>2. ASSUME NEW c \in Calls,
                 Acquire(c) \/ Connect(c) \/ Opened(c) \/ Reads(c) \/ FirstStatement(c)
                   \/ SecondStatement(c) \/ Commit(c)
          PROVE  /\ writer' \in Calls \cup {Nobody} /\ saved' \in [Calls -> 0..2]
                 /\ UNCHANGED <<failures, leaked, stopped>>
      BY <3>1, <3>2 DEF Acquire, Connect, Opened, Reads, FirstStatement, SecondStatement, Commit, Goes
    <3>3. ASSUME NEW c \in Calls, Raises(c) \/ Closes(c)
          PROVE  writer' \in {writer, Nobody} /\ UNCHANGED <<saved, failures, leaked, stopped>>
      BY <3>3 DEF Raises, Closes
    <3>4. ASSUME NEW c \in Calls, OpenFails(c) \/ Cancelled(c)
          PROVE  /\ failures' \in 0..MaxFailures /\ leaked' \in Nat
                 /\ UNCHANGED <<writer, saved, stopped>>
      BY <3>1, <3>4 DEF OpenFails, Cancelled
    <3>5. CASE CloseAll \/ UNCHANGED poolVars
      BY <3>1, <3>5 DEF CloseAll, poolVars
    <3> QED
      BY <3>1, <3>2, <3>3, <3>4, <3>5 DEF PoolNext
  <2> QED
    BY <2>1, <2>2, <2>3 DEF PoolInv, Queued, PoolTypeOK
<1> QED
  BY <1>1, <1>2, ServicesAreSpecs, PTL DEF PoolSpec

LEMMA ShellTypes == ServicesSpec => []ShellTypeOK
<1> DEFINE Typed == /\ ShellInv /\ foreign \in {"none", "desktop", "other"}
                    /\ shell \in {"starting", "open", "closing", "quit"}
<1>1. ShellInit => Typed
  BY ShellStart DEF ShellInit
<1>2. Typed /\ [ShellNext]_shellVars => Typed'
  <2> SUFFICES ASSUME Typed, [ShellNext]_shellVars PROVE Typed'
    OBVIOUS
  <2>1. ShellInv'
    BY ShellStep
  <2>2. /\ foreign' \in {"none", "desktop", "other"}
        /\ shell' \in {"starting", "open", "closing", "quit"}
    <3>1. ASSUME NEW c \in ShellCalls, NEW ok, Returns(c, ok) PROVE shell' \in {shell, "open", "closing"}
      BY <3>1 DEF Returns
    <3>2. ASSUME NEW c \in ShellCalls, NEW q, NEW await, NEW ps, SpawnAt(c, q, await, ps)
          PROVE  shell' = shell
      BY <3>2 DEF SpawnAt
    <3>3. ASSUME NEW c \in ShellCalls,
                 \/ StopEnds(c) \/ Probe(c) \/ ProbeFrontend(c) \/ Find(c) \/ ManagedReady(c)
                 \/ ManagedFails(c) \/ Refind(c) \/ AgainEnds(c) \/ WaitEnds(c)
          PROVE  foreign' = foreign /\ shell' \in {shell, "open", "closing"}
      <4>1. CASE StopEnds(c) \/ Probe(c) \/ ProbeFrontend(c) \/ Find(c) \/ ManagedReady(c)
        BY <3>1, <3>2, <4>1 DEF StopEnds, Probe, ProbeFrontend, Find, ManagedReady
      <4>2. CASE ManagedFails(c) \/ Refind(c) \/ AgainEnds(c) \/ WaitEnds(c)
        BY <3>1, <3>2, <4>2 DEF ManagedFails, Refind, AgainEnds, WaitEnds
      <4> QED
        BY <3>3, <4>1, <4>2
    <3>4. ASSUME NEW c \in Restarts, RestartBegins(c) PROVE foreign' = foreign /\ shell' = shell
      BY <3>4 DEF RestartBegins, StopBegins
    <3>5. CASE WindowsClosed \/ Quit \/ ForeignChanges \/ UNCHANGED shellVars
      BY <3>5 DEF WindowsClosed, StopBegins, Quit, ForeignChanges, shellVars
    <3>6. ASSUME NEW p \in Spawns, Serves(p) \/ Exits(p) PROVE foreign' = foreign /\ shell' = shell
      BY <3>6 DEF Serves, Exits
    <3> QED
      BY <3>3, <3>4, <3>5, <3>6 DEF ShellNext
  <2> QED
    BY <2>1, <2>2
<1>3. Typed => ShellTypeOK
  BY DEF ShellInv, ShellTyped, ShellTypeOK
<1> QED
  BY <1>1, <1>2, <1>3, ServicesAreSpecs, PTL DEF ShellSpec

(* Every variable of the services keeps its type, for any number of calls,  *)
(* sockets, samples, requests, rules, and whatever an older release left.   *)
THEOREM ServicesTypeCorrect == ServicesSpec => []ServicesTypeOK
  BY LaunchTypes, PoolTypes, LiveTypes, MetricsTypes, CacheTypes, SettingsTypes, ShellTypes, PTL
     DEF ServicesTypeOK
-------------------------------------------------------------------------------
(* What the pool shows of itself as a store. *)
Connected == {c \in Calls : Holding(c)}
Writing   == {c \in Calls : at[c] \in {"first", "second"}}
Effects   == [c \in Calls |-> Effect(saved[c])]

Shown == <<Connected, MaxConnections - lost, Writing, Effects>>

LEMMA StoreShown == Store!store = Shown /\ (Store!store)' = Shown'
  BY DEF Store!store, Shown, Connected, Writing, Effects

(* A step of one call, seen from outside. *)
LEMMA GoesShown ==
  ASSUME NEW c \in Calls, NEW from, NEW to \in Points, at \in [Calls -> Points], Goes(c, from, to)
  PROVE  /\ at[c] = from
         /\ Connected' = IF to \in {"idle", "waiting"} THEN Connected \ {c} ELSE Connected \cup {c}
         /\ Writing' = IF to \in {"first", "second"} THEN Writing \cup {c} ELSE Writing \ {c}
<1>1. at[c] = from /\ at'[c] = to /\ \A d \in Calls \ {c} : at'[d] = at[d]
  BY DEF Goes
<1> QED
  BY <1>1 DEF Connected, Writing, Holding, Points

LEMMA EffectsShown ==
  ASSUME NEW c \in Calls, NEW n, saved' = [saved EXCEPT ![c] = n], DOMAIN saved = Calls
  PROVE  Effects' = [Effects EXCEPT ![c] = Effect(n)]
<1>1. \A d \in Calls : saved'[d] = IF d = c THEN n ELSE saved[d]
  OBVIOUS
<1>2. \A d \in Calls : Effect(saved'[d]) = IF d = c THEN Effect(n) ELSE Effect(saved[d])
  BY <1>1
<1> QED
  BY <1>2 DEF Effects

LEMMA EffectNames == Effect(0) = "none" /\ Effect(2) = "whole"
  BY DEF Effect

(* The store counts what it holds as the pool does. *)
LEMMA StoreCardinality == ASSUME NEW S PROVE Store!Cardinality(S) = Cardinality(S)
  BY DEF Store!Cardinality, Cardinality

(* The connections of the service are those of the permits that are out. *)
LEMMA ConnectedHeld == Connected \cap Pooled = Held /\ Held \subseteq Connected
  BY DEF Connected, Held, Calls

LEMMA StoreNext ==
  ASSUME NEW c \in Calls,
         \/ Store!Call(c) \/ Store!Connect(c) \/ Store!Begin(c) \/ Store!Commit(c)
         \/ Store!Rollback(c) \/ Store!Disconnect(c) \/ Store!Lose(c)
         \/ \E d \in Calls : Store!HandOver(c, d)
  PROVE  Store!Next
  BY DEF Store!Next

LEMMA ShownCall ==
  ASSUME NEW c \in Calls, c \notin Connected, Effects' = [Effects EXCEPT ![c] = "none"],
         UNCHANGED <<Connected, lost, Writing>>
  PROVE  Store!Next
<1>1. Store!Call(c)
  BY DEF Store!Call, Connected, Writing, Effects
<1> QED
  BY <1>1, StoreNext

LEMMA ShownConnect ==
  ASSUME NEW c \in Calls, c \notin Connected,
         c \in Pooled => Cardinality(Connected \cap Pooled) < MaxConnections - lost,
         Connected' = Connected \cup {c}, Effects' = [Effects EXCEPT ![c] = "none"],
         UNCHANGED <<lost, Writing>>
  PROVE  Store!Next
<1>1. Store!Connect(c)
  BY StoreCardinality DEF Store!Connect, Connected, Writing, Effects
<1> QED
  BY <1>1, StoreNext

LEMMA ShownBegin ==
  ASSUME NEW c \in Calls, c \in Connected, Writing = {}, Writing' = {c},
         UNCHANGED <<Connected, lost, Effects>>
  PROVE  Store!Next
<1>1. Store!Begin(c)
  BY DEF Store!Begin, Connected, Writing, Effects
<1> QED
  BY <1>1, StoreNext

LEMMA ShownCommit ==
  ASSUME NEW c \in Calls, Writing = {c}, Writing' = {},
         Effects' = [Effects EXCEPT ![c] = "whole"], UNCHANGED <<Connected, lost>>
  PROVE  Store!Next
<1>1. Store!Commit(c)
  BY DEF Store!Commit, Connected, Writing, Effects
<1> QED
  BY <1>1, StoreNext

LEMMA ShownRollback ==
  ASSUME NEW c \in Calls, Writing = {c}, Writing' = {}, UNCHANGED <<Connected, lost, Effects>>
  PROVE  Store!Next
<1>1. Store!Rollback(c)
  BY DEF Store!Rollback, Connected, Writing, Effects
<1> QED
  BY <1>1, StoreNext

LEMMA ShownDisconnect ==
  ASSUME NEW c \in Calls, c \in Connected \ Writing, Connected' = Connected \ {c},
         UNCHANGED <<lost, Writing, Effects>>
  PROVE  Store!Next
<1>1. Store!Disconnect(c)
  BY DEF Store!Disconnect, Connected, Writing, Effects
<1> QED
  BY <1>1, StoreNext

LEMMA ShownHandOver ==
  ASSUME NEW c \in Pooled, NEW d \in Pooled, c \in Connected \ Writing, d \notin Connected,
         Connected' = (Connected \ {c}) \cup {d}, UNCHANGED <<lost, Writing, Effects>>
  PROVE  Store!Next
<1>1. Store!HandOver(c, d) /\ c \in Calls /\ d \in Calls
  BY DEF Store!HandOver, Connected, Writing, Effects, Calls
<1> QED
  BY <1>1, StoreNext

LEMMA ShownLose ==
  ASSUME NEW c \in Pooled, c \in Connected \ Writing, Connected' = Connected \ {c},
         lost \in Nat, lost' = lost + 1, UNCHANGED <<Writing, Effects>>
  PROVE  Store!Next
<1>1. MaxConnections - lost' = (MaxConnections - lost) - 1
  BY PoolAssumption
<1>2. Store!Lose(c) /\ c \in Calls
  BY <1>1 DEF Store!Lose, Connected, Writing, Effects, Calls
<1> QED
  BY <1>2, StoreNext

(* The call that has the write lock is the one with a transaction open. *)
LEMMA OneWrites ==
  ASSUME PoolInv
  PROVE  /\ \A c \in Writing : writer = c /\ Writing = {c} /\ c \in Connected
         /\ writer = Nobody => Writing = {}
  BY PoolAssumption DEF PoolInv, AllOrNothing, Writing, Connected, Holding

(* A permit that is returned: its call has gone, and the first waiter, if   *)
(* there is one, has its place.                                             *)
LEMMA ReleaseShown ==
  ASSUME PoolInv, NEW c \in Pooled, NEW from \in {"creating", "releasing"},
         Release(c, from), UNCHANGED <<saved, lost>>
  PROVE  Store!Next
<1>c. c \in Calls /\ at[c] = from /\ at \in [Calls -> Points] /\ c \in Connected \ Writing
  BY DEF Calls, Release, PoolInv, Connected, Writing, Holding
<1>e. UNCHANGED Effects
  BY DEF Effects
<1>1. CASE waiting = <<>>
  <2>1. at' = [at EXCEPT ![c] = "idle"]
    BY <1>1 DEF Release
  <2>2. Connected' = Connected \ {c} /\ UNCHANGED Writing
    BY <1>c, <2>1 DEF Connected, Writing, Holding
  <2> QED
    BY <1>c, <1>e, <2>2, ShownDisconnect
<1>2. CASE waiting # <<>>
  <2>1. PICK d \in Pooled : d = Head(waiting) /\ at[d] = "waiting"
    <3>1. waiting \in Seq(Pooled) /\ Len(waiting) \in Nat \ {0}
      BY <1>2, EmptySeq DEF PoolInv, Queued
    <3>2. Head(waiting) = waiting[1] /\ Head(waiting) \in Pooled
      BY <1>2, <3>1, HeadTailProperties
    <3> QED
      BY <3>1, <3>2 DEF PoolInv, Queued
  <2>2. at' = [at EXCEPT ![c] = "idle", ![d] = "creating"] /\ d \in Calls /\ d # c
    BY <1>2, <1>c, <2>1 DEF Release, Calls
  <2>3. /\ d \notin Connected /\ Connected' = (Connected \ {c}) \cup {d} /\ UNCHANGED Writing
    BY <1>c, <2>1, <2>2 DEF Connected, Writing, Holding
  <2> QED
    BY <1>c, <1>e, <2>3, ShownHandOver
<1> QED
  BY <1>1, <1>2

LEMMA StoreStep == PoolInv /\ PoolTypeOK /\ [PoolNext]_poolVars => [Store!Next]_(Store!store)
<1> SUFFICES ASSUME PoolInv, PoolTypeOK, [PoolNext]_poolVars PROVE Store!Next \/ UNCHANGED Shown
  BY StoreShown
<1>t. at \in [Calls -> Points] /\ permits \in Nat /\ lost \in Nat
  BY DEF PoolInv
<1>s. DOMAIN saved = Calls
  BY DEF PoolTypeOK
<1>e. UNCHANGED saved => UNCHANGED Effects
  BY DEF Effects
<1>p. \A c \in Calls : c \in Writing <=> at[c] \in {"first", "second"}
  BY DEF Writing
<1>h. \A c \in Calls : c \in Connected <=> at[c] \notin {"idle", "waiting"}
  BY <1>t DEF Connected, Holding, Points
<1> USE DEF Points
<1>1. ASSUME NEW c \in Calls, Connect(c) PROVE Store!Next
  <2>1. at[c] = "idle" /\ Connected' = Connected \cup {c} /\ UNCHANGED Writing /\ c \notin Pooled
    BY <1>1, <1>t, <1>p, GoesShown, PoolAssumption DEF Connect
  <2>2. Effects' = [Effects EXCEPT ![c] = "none"]
    BY <1>1, <1>s, EffectsShown, EffectNames DEF Connect
  <2> QED
    BY <1>1, <1>h, <2>1, <2>2, ShownConnect DEF Connect
<1>2. ASSUME NEW c \in Calls, Opened(c) \/ Reads(c) \/ SecondStatement(c) PROVE UNCHANGED Shown
  <2>1. Connected' = Connected /\ Writing' = Writing
    BY <1>2, <1>t, <1>p, <1>h, GoesShown DEF Opened, Reads, SecondStatement
  <2> QED
    BY <1>2, <1>e, <2>1 DEF Shown, Opened, Reads, SecondStatement
<1>3. ASSUME NEW c \in Calls, FirstStatement(c) PROVE Store!Next
  <2>1. Writing = {} /\ c \in Connected
    BY <1>3, <1>h, OneWrites DEF FirstStatement, Goes
  <2>2. Connected' = Connected /\ Writing' = {c}
    BY <1>3, <1>t, <2>1, GoesShown DEF FirstStatement
  <2> QED
    BY <1>3, <1>e, <2>1, <2>2, ShownBegin DEF FirstStatement
<1>4. ASSUME NEW c \in Calls, Commit(c) PROVE Store!Next
  <2>1. Writing = {c} /\ c \in Connected
    BY <1>4, <1>p, OneWrites DEF Commit, Goes
  <2>2. Connected' = Connected /\ Writing' = {}
    BY <1>4, <1>t, <2>1, GoesShown DEF Commit
  <2>3. Effects' = [Effects EXCEPT ![c] = "whole"]
    BY <1>4, <1>s, EffectsShown, EffectNames DEF Commit
  <2> QED
    BY <1>4, <2>1, <2>2, <2>3, ShownCommit DEF Commit
<1>5. ASSUME NEW c \in Calls, Raises(c) PROVE Store!Next \/ UNCHANGED Shown
  <2>1. PICK p \in {"held", "first", "second"} : Goes(c, p, "releasing")
    BY <1>5 DEF Raises
  <2>2. at[c] = p /\ Connected' = Connected /\ Writing' = Writing \ {c}
    BY <2>1, <1>t, <1>h, GoesShown
  <2>3. UNCHANGED <<lost, Effects>>
    BY <1>5, <1>e DEF Raises
  <2>4. CASE p = "held"
    BY <1>p, <2>2, <2>3, <2>4 DEF Shown
  <2>5. CASE p # "held"
    <3>1. Writing = {c} /\ Writing' = {}
      BY <1>p, <2>2, <2>5, OneWrites
    <3> QED
      BY <2>2, <2>3, <3>1, ShownRollback
  <2> QED
    BY <2>4, <2>5
<1>6. ASSUME NEW c \in Calls, OpenFails(c) \/ Closes(c) PROVE Store!Next
  <2>1. PICK from \in {"creating", "releasing"} :
          IF c \in Pooled THEN Release(c, from) ELSE Goes(c, from, "idle")
    BY <1>6 DEF OpenFails, Closes
  <2>2. UNCHANGED <<saved, lost>>
    BY <1>6 DEF OpenFails, Closes
  <2>3. CASE c \in Pooled
    BY <2>1, <2>2, <2>3, ReleaseShown
  <2>4. CASE c \notin Pooled
    <3>1. at[c] = from /\ Connected' = Connected \ {c} /\ UNCHANGED Writing
      BY <1>t, <1>p, <2>1, <2>4, GoesShown
    <3> QED
      BY <1>e, <1>p, <1>h, <2>2, <3>1, ShownDisconnect
  <2> QED
    BY <2>3, <2>4
<1>7. ASSUME NEW c \in Calls, Acquire(c) PROVE Store!Next
  <2>1. Effects' = [Effects EXCEPT ![c] = "none"] /\ lost' = lost /\ c \in Pooled
    BY <1>7, <1>s, EffectsShown, EffectNames DEF Acquire
  <2>2. CASE permits > 0
    <3>1. at[c] = "idle" /\ Connected' = Connected \cup {c} /\ UNCHANGED Writing
      BY <1>7, <1>t, <1>p, <2>2, GoesShown DEF Acquire
    <3>2. Cardinality(Connected \cap Pooled) < MaxConnections - lost
      <4>1. permits + lost + Cardinality(Held) = MaxConnections /\ Cardinality(Held) \in Nat
        BY Accounts, HeldIsFinite DEF PoolInv
      <4>2. Cardinality(Connected \cap Pooled) = Cardinality(Held)
        BY ConnectedHeld
      <4> QED
        BY <1>t, <2>2, <4>1, <4>2
    <3> QED
      BY <1>h, <2>1, <3>1, <3>2, ShownConnect
  <2>3. CASE ~(permits > 0)
    <3>1. at[c] = "idle" /\ Connected' = Connected /\ UNCHANGED Writing
      <4>1. Goes(c, "idle", "waiting") /\ at[c] = "idle"
        BY <1>7, <2>3 DEF Acquire, Goes
      <4> QED
        BY <1>t, <1>p, <1>h, <4>1, GoesShown
    <3> QED
      BY <1>h, <2>1, <3>1, ShownCall
  <2> QED
    BY <2>2, <2>3
<1>8. ASSUME NEW c \in Calls, Cancelled(c) PROVE Store!Next \/ UNCHANGED Shown
  <2>1. UNCHANGED Effects /\ c \in Pooled
    BY <1>8, <1>e, PoolAssumption DEF Cancelled
  <2>2. CASE Goes(c, "waiting", "idle") /\ lost' = lost
    <3>1. Connected' = Connected /\ Writing' = Writing
      BY <1>t, <1>p, <1>h, <2>2, GoesShown
    <3> QED
      BY <2>1, <2>2, <3>1 DEF Shown
  <2>3. CASE Goes(c, "creating", "idle") /\ lost' = lost + 1
    <3>1. at[c] = "creating" /\ Connected' = Connected \ {c} /\ Writing' = Writing
      BY <1>t, <1>p, <2>3, GoesShown
    <3> QED
      BY <1>t, <1>p, <1>h, <2>1, <2>3, <3>1, ShownLose
  <2> QED
    BY <1>8, <2>2, <2>3 DEF Cancelled
<1>9. CASE CloseAll \/ UNCHANGED poolVars
  BY <1>9 DEF CloseAll, poolVars, Shown, Connected, Writing, Effects, Holding
<1> QED
  BY <1>1, <1>2, <1>3, <1>4, <1>5, <1>6, <1>7, <1>8, <1>9 DEF PoolNext

(* The pool, with whatever raises, waits or is cancelled in it, is a store  *)
(* with one transaction at a time whose calls take effect as a whole.       *)
THEOREM ImplementsStoreAlways == ServicesSpec => ImplementsStore
<1>1. PoolInit => Store!Init
  <2> SUFFICES ASSUME PoolInit PROVE Store!Init
    OBVIOUS
  <2>1. Connected = {} /\ Writing = {}
    BY DEF PoolInit, Connected, Writing, Holding
  <2>2. Effects = [c \in Calls |-> "none"]
    BY EffectNames DEF PoolInit, Effects
  <2>3. MaxConnections - lost = MaxConnections
    BY PoolAssumption DEF PoolInit
  <2> QED
    BY <2>1, <2>2, <2>3 DEF Store!Init, Connected, Writing, Effects
<1> QED
  BY <1>1, PoolInvariant, PoolTypes, StoreStep, ServicesAreSpecs, PTL
     DEF PoolSpec, ImplementsStore, Store!Spec
===============================================================================
