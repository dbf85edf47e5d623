------------------------------- MODULE Services -------------------------------
(***************************************************************************)
(* The services of the backend that share no state: the launch of the      *)
(* database, its connections, the live view, the retention of metrics, the *)
(* response cache and the settings; and the desktop shell, a process of    *)
(* its own that starts them all.  No action of one reads or changes a      *)
(* variable of another, so what holds of one alone holds of it beside the  *)
(* others; a behaviour here moves one of them, chosen in the initial       *)
(* state, and TLC sums their states instead of multiplying them.           *)
(***************************************************************************)
EXTENDS DatabaseLaunch, ConnectionPool, LiveView, MetricsRetention, ResponseCache,
        SavedSettings, DesktopShell

VARIABLE service   \* the service that moves

serviceVars ==
  <<dbVars, poolVars, liveVars, metricVars, cacheVars, settingsVars,
    shellVars, service>>

ServicesInit ==
  /\ service \in {"launch", "pool", "live", "metrics", "cache", "gpu", "rules", "shell"}
  /\ LaunchInit /\ PoolInit /\ LiveInit /\ MetricsInit /\ CacheInit /\ SettingsInit
  /\ ShellInit
  /\ service # "launch" => disk = NewDb /\ old = NoLegacy
  /\ service # "shell"  => foreign = "none"

ButLaunch   == <<poolVars, liveVars, metricVars, cacheVars, settingsVars, shellVars>>
ButPool     == <<dbVars, liveVars, metricVars, cacheVars, settingsVars, shellVars>>
ButLive     == <<dbVars, poolVars, metricVars, cacheVars, settingsVars, shellVars>>
ButMetrics  == <<dbVars, poolVars, liveVars, cacheVars, settingsVars, shellVars>>
ButCache    == <<dbVars, poolVars, liveVars, metricVars, settingsVars, shellVars>>
ButSettings == <<dbVars, poolVars, liveVars, metricVars, cacheVars, shellVars>>
ButShell    == <<dbVars, poolVars, liveVars, metricVars, cacheVars, settingsVars>>

ServicesNext ==
  /\ UNCHANGED service
  /\ \/ service = "launch"  /\ LaunchNext  /\ UNCHANGED ButLaunch
     \/ service = "pool"    /\ PoolNext    /\ UNCHANGED ButPool
     \/ service = "live"    /\ LiveNext    /\ UNCHANGED ButLive
     \/ service = "metrics" /\ MetricsNext /\ UNCHANGED ButMetrics
     \/ service = "cache"   /\ CacheNext   /\ UNCHANGED ButCache
     \/ service = "gpu"     /\ GpuNext     /\ UNCHANGED ButSettings
     \/ service = "rules"   /\ RuleNext    /\ UNCHANGED ButSettings
     \/ service = "shell"   /\ ShellNext   /\ UNCHANGED ButShell

ServicesSpec == ServicesInit /\ [][ServicesNext]_serviceVars

ServicesTypeOK ==
  /\ LaunchTypeOK /\ PoolTypeOK /\ LiveTypeOK
  /\ MetricsTypeOK /\ CacheTypeOK /\ SettingsTypeOK /\ ShellTypeOK
===============================================================================
