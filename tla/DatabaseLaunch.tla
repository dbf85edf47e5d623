---------------------------- MODULE DatabaseLaunch ----------------------------
(***************************************************************************)
(* ensure_database_schema and the launches around it.  A launch applies    *)
(* the migrations that the database does not record, each followed by its  *)
(* row in schema_migrations.  Python's sqlite3 opens a transaction at the  *)
(* first statement that changes rows and keeps it open to the commit at    *)
(* the end, except that executescript (migrations 1 and 7) first commits   *)
(* what is pending and then runs outside of one.  A crash loses what is    *)
(* not committed, a raise of migration 4 or 5 closes the connection, which *)
(* rolls it back, and fails the launch; the next one starts from the disk. *)
(* Between launches and crashes the backend writes rows of its own.        *)
(***************************************************************************)
EXTENDS Migrations, FiniteSetsExt

CONSTANTS
  Releases,      \* the databases that older releases left: [disk : Db, old : Legacy]
  WrittenTables, \* the tables that the backend writes to (a bound)
  Now            \* updated_at of the profiles it saves

ASSUME LaunchesAssumption ==
  /\ Releases \subseteq [disk : Db, old : Legacy]
  /\ WrittenTables \subseteq Tables /\ Now \in Nat

(* What an older release has recorded it has done; its profiles have the    *)
(* rowids that SQLite counts from 1, and were saved before now.             *)
ASSUME ReleasesAssumption ==
  \A release \in Releases :
    LET d == release.disk IN
      /\ \A v \in d.versions : Done(v, d, release.old)
      /\ 4 \in d.versions => BenchmarksDone(d, release.old)
      /\ IsFiniteSet(d.profiles)
      /\ \A p \in d.profiles : p.row # 0 /\ p.stamp <= Now
      /\ \A p, q \in d.profiles : p.row = q.row => p = q

VARIABLES
  dbPhase,   \* "down" | "migrating" | "serving"
  old,       \* what an older release left behind; never changes
  oldProfiles, \* the profiles before the first launch; never changes
  disk,      \* what is committed
  work,      \* what the migrating connection sees
  todo,      \* the versions this launch has still to apply
  inScript,  \* executescript has committed and not yet run its statements
  cleared    \* history: the benchmark history has been cleared

dbVars == <<dbPhase, old, oldProfiles, disk, work, todo, inScript, cleared>>

LaunchTypeOK ==
  /\ dbPhase \in {"down", "migrating", "serving"}
  /\ old \in Legacy /\ oldProfiles \in SUBSET Profile
  /\ disk \in Db /\ work \in Db
  /\ todo \in SUBSET Versions /\ inScript \in BOOLEAN /\ cleared \in BOOLEAN

LaunchInit ==
  \E release \in Releases :
    /\ dbPhase = "down" /\ todo = {} /\ inScript = FALSE /\ cleared = FALSE
    /\ disk = release.disk /\ work = release.disk
    /\ old = release.old /\ oldProfiles = release.disk.profiles

Earliest(v) == v \in todo /\ \A w \in todo : v <= w
-------------------------------------------------------------------------------
(* Slips that an edit of the code could make; no specification uses them.   *)

(* ScriptCommits, had the version been inserted before its migration ran. *)
RecordedFirst(v) ==
  /\ dbPhase = "migrating" /\ Earliest(v) /\ v \in Scripted /\ ~inScript
  /\ disk' = Record(v, work) /\ work' = Record(v, work)
  /\ inScript' = TRUE
  /\ UNCHANGED <<dbPhase, old, oldProfiles, todo, cleared>>

-------------------------------------------------------------------------------
(* A launch reads which versions are recorded. *)
BeginMigrations ==
  /\ dbPhase = "down"
  /\ dbPhase' = "migrating" /\ work' = disk /\ todo' = Unapplied(disk)
  /\ UNCHANGED <<old, oldProfiles, disk, inScript, cleared>>

(* A migration without a script, and its version row: nothing is committed. *)
ApplyMigration(v) ==
  /\ dbPhase = "migrating" /\ Earliest(v) /\ v \notin Scripted
  /\ ~Fails(v, work, old)
  /\ work' = Record(v, Migrate(v, work, old)) /\ todo' = todo \ {v}
  /\ UNCHANGED <<dbPhase, old, oldProfiles, disk, inScript, cleared>>

(* executescript commits what the migrations before have written. *)
ScriptCommits(v) ==
  /\ dbPhase = "migrating" /\ Earliest(v) /\ v \in Scripted /\ ~inScript
  /\ disk' = work /\ inScript' = TRUE
  /\ UNCHANGED <<dbPhase, old, oldProfiles, work, todo, cleared>>

(* Its statements take effect at once; the version row stays pending. *)
ScriptRuns(v) ==
  /\ dbPhase = "migrating" /\ Earliest(v) /\ inScript
  /\ disk' = Migrate(v, disk, old)
  /\ work' = Record(v, Migrate(v, work, old))
  /\ todo' = todo \ {v} /\ inScript' = FALSE
  /\ UNCHANGED <<dbPhase, old, oldProfiles, cleared>>

(* Two profiles of a game under a key (migration 4), or an artifact that    *)
(* lacks a column (migration 5).                                            *)
MigrationRaises(v) ==
  /\ dbPhase = "migrating" /\ Earliest(v) /\ Fails(v, work, old)
  /\ dbPhase' = "down" /\ todo' = {} /\ work' = disk
  /\ UNCHANGED <<old, oldProfiles, disk, inScript, cleared>>

(* The commit after the last migration; the backend goes on to serve. *)
FinishMigrations ==
  /\ dbPhase = "migrating" /\ todo = {}
  /\ dbPhase' = "serving" /\ disk' = work
  /\ UNCHANGED <<old, oldProfiles, work, todo, inScript, cleared>>

(* The process ends, at any point; the next launch may be of this release.  *)
DbDies ==
  /\ dbPhase # "down"
  /\ dbPhase' = "down" /\ work' = disk /\ todo' = {} /\ inScript' = FALSE
  /\ UNCHANGED <<old, oldProfiles, disk, cleared>>
-------------------------------------------------------------------------------
Served(d) ==
  /\ dbPhase = "serving" /\ disk' = d /\ work' = d
  /\ UNCHANGED <<dbPhase, old, oldProfiles, todo, inScript>>

(* _set_setting, set_runtime_state and the other inserts of the service. *)
WriteRow(t, k) ==
  /\ Served([disk EXCEPT !.rows[t] = [j \in DOMAIN @ \cup {k} |-> IF j = k THEN "user" ELSE @[j]]])
  /\ UNCHANGED cleared

(* Metrics of the cognition tables, which the artifact is imported into. *)
WriteSample(a) ==
  /\ Served([disk EXCEPT !.samples[a] = "user"])
  /\ UNCHANGED cleared

(* upsert_game_profile: ON CONFLICT(game_id), which needs the unique index. *)
SaveProfile(g) ==
  LET same == {p \in disk.profiles : p.game = g}
      row  == IF same # {} THEN Min({p.row : p \in same})
              ELSE 1 + Max({0} \cup {p.row : p \in disk.profiles})
  IN  /\ "unique" \in disk.schema
      /\ Served([disk EXCEPT !.profiles = (@ \ same) \cup
                   {[row |-> row, game |-> g, stamp |-> Now, filled |-> row]}])
      /\ UNCHANGED cleared

(* clear_benchmark_history. *)
ClearBenchmarks ==
  /\ Served([disk EXCEPT !.rows = [t \in Tables |-> IF t \in BenchmarkTables THEN NoRows ELSE @[t]]])
  /\ cleared' = TRUE

LaunchNext ==
  \/ BeginMigrations \/ FinishMigrations \/ DbDies
  \/ \E v \in Versions :
       ApplyMigration(v) \/ ScriptCommits(v) \/ ScriptRuns(v) \/ MigrationRaises(v)
  \/ \E t \in WrittenTables, k \in Keys : WriteRow(t, k)
  \/ \E a \in ArtifactTables : WriteSample(a)
  \/ \E g \in Games : SaveProfile(g)
  \/ ClearBenchmarks

LaunchSpec == LaunchInit /\ [][LaunchNext]_dbVars
-------------------------------------------------------------------------------
(* A version is recorded on disk only with all that its migration does      *)
(* there, wherever a crash falls between the commits of executescript; the  *)
(* next launch would not make up for it (migrations.py:39).  What the user  *)
(* has cleared since is the exception.                                      *)
RecordedIsDone ==
  /\ \A v \in disk.versions : Done(v, disk, old)
  /\ 4 \in disk.versions /\ ~cleared => BenchmarksDone(disk, old)

(* Of the profiles of a game one is left by migration 6, and none of them   *)
(* was newer (migrations.py:1104-1110); saving never adds a second.         *)
NewestProfileKept ==
  6 \in disk.versions =>
    \A p \in oldProfiles :
      \E q \in disk.profiles : /\ q.game = p.game /\ q.stamp >= p.stamp
                              /\ \A r \in disk.profiles : r.game = p.game => r = q

(* Legacy rows come in once: no later launch brings back what the user has  *)
(* overwritten or cleared, although the tables they came from are kept      *)
(* ("ordered and idempotent", docs/PERSISTENCE_ARCHITECTURE.md:16).         *)
LegacyRows(d) ==
  (UNION {{t} \X {k \in DOMAIN d.rows[t] : d.rows[t][k] = "legacy"} : t \in Tables})
    \cup {<<a, "samples">> : a \in {b \in ArtifactTables : d.samples[b] = "legacy"}}
MigratedOnce ==
  [][disk.versions = Versions => LegacyRows(disk') \subseteq LegacyRows(disk)]_dbVars
===============================================================================
