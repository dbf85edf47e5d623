------------------------------ MODULE Migrations ------------------------------
(***************************************************************************)
(* What each of the seven migrations of core/db/migrations.py does to a    *)
(* database, as functions from databases to databases.  A table is a       *)
(* function from the keys of its rows to who wrote them: "legacy" for rows *)
(* that a migration brought over, "user" for rows of the running backend.  *)
(* Which columns a row has, and what it holds in them, is left out but for *)
(* the columns that an older release did not have ("columns").             *)
(***************************************************************************)
EXTENDS Naturals

CONSTANTS
  Keys,            \* primary keys of rows
  Games,           \* game_id of profiles
  ArtifactTables   \* the tables that are imported from a stale second database

Versions == 1..7

(* Structure that a migration adds: the base tables, the columns of         *)
(* migration 2, the unique index of migration 6, the table of migration 7.  *)
SchemaParts == {"base", "columns", "unique", "health"}

(* The tables that legacy rows are brought into. *)
Tables == {"settings", "runtime_housekeeping", "rollback_snapshots",
           "benchmark_runs", "benchmark_results", "network_snapshots",
           "tweak_applications", "account_cache", "entitlement_snapshot_history"}

BenchmarkTables == {"benchmark_runs", "benchmark_results"}

Origins == {"legacy", "user"}
Table   == UNION {[ks -> Origins] : ks \in SUBSET Keys}

(* A row of game_profiles: its rowid, updated_at, and the row whose payload *)
(* filled the columns that migration 2 added (0: nothing has).              *)
Profile == [row : Nat, game : Games, stamp : Nat, filled : Nat]

(* What an older release has left behind; nothing writes it any more.       *)
(* artifact says of each table of the second database whether it has rows,  *)
(* and "narrow" that it lacks a column of the table it is copied to; keyed, *)
(* that profile_id is the primary key of game_profiles, as migration 1      *)
(* declares it, and not the plain column that migration 2 adds.             *)
Legacy ==
  [settings : SUBSET Keys, runtime : SUBSET Keys, tweaks : SUBSET Keys,
   snapshots : SUBSET Keys, benchmarks : SUBSET Keys, network : SUBSET Keys,
   accounts : SUBSET Keys, entitlements : SUBSET Keys,
   artifact : [ArtifactTables -> {"none", "rows", "narrow"}],
   keyed : BOOLEAN]

Db == [versions : SUBSET Versions,
       schema   : SUBSET SchemaParts,
       rows     : [Tables -> Table],
       profiles : SUBSET Profile,
       samples  : [ArtifactTables -> {"empty", "legacy", "user"}]]

NoLegacy ==
  [settings |-> {}, runtime |-> {}, tweaks |-> {}, snapshots |-> {}, benchmarks |-> {},
   network |-> {}, accounts |-> {}, entitlements |-> {},
   artifact |-> [a \in ArtifactTables |-> "none"], keyed |-> TRUE]

NoRows == [k \in {} |-> "legacy"]

(* A file that sqlite3.connect has just created. *)
NewDb == [versions |-> {}, schema |-> {}, rows |-> [t \in Tables |-> NoRows],
          profiles |-> {}, samples |-> [a \in ArtifactTables |-> "empty"]]
-------------------------------------------------------------------------------
(* Slips that an edit of the code could make; no specification uses them.   *)

(* UniqueProfiles, had the duplicates been ordered oldest first. *)
KeepsOldestProfile(d) ==
  [d EXCEPT !.schema = @ \cup {"unique"},
            !.profiles = {p \in @ : \A q \in @ : q.game = p.game => p.stamp <= q.stamp}]

(* Unapplied, had the version rows not been looked at. *)
AllVersions(d) == Versions

-------------------------------------------------------------------------------
(* ON CONFLICT DO UPDATE, INSERT OR REPLACE: the legacy row wins.           *)
Overwrite(d, t, ks) ==
  [d EXCEPT !.rows[t] = [k \in DOMAIN @ \cup ks |-> IF k \in ks THEN "legacy" ELSE @[k]]]

(* INSERT OR IGNORE, or an insert after a look for the same row. *)
Ignore(d, t, ks) ==
  [d EXCEPT !.rows[t] = [k \in DOMAIN @ \cup ks |-> IF k \in DOMAIN @ THEN @[k] ELSE "legacy"]]

(* Migration 1: CREATE TABLE IF NOT EXISTS for every table. *)
CreateBase(d) == [d EXCEPT !.schema = @ \cup {"base"}]

(* Migration 2: ALTER TABLE ADD COLUMN for each column that is missing. *)
ExpandColumns(d) == [d EXCEPT !.schema = @ \cup {"columns"}]

(* Migration 3: the keys settings.* and runtime.* of app_state. *)
MigrateSettings(d, old) ==
  Overwrite(Overwrite(d, "settings", old.settings), "runtime_housekeeping", old.runtime)

(* Migration 4, table by table. *)
MigrateRollback(d, old)   == Ignore(d, "rollback_snapshots", old.snapshots)
MigrateBenchmarks(d, old) ==
  Ignore(Ignore(d, "benchmark_runs", old.benchmarks), "benchmark_results", old.benchmarks)
MigrateNetwork(d, old)    == Ignore(d, "network_snapshots", old.network)
MigrateTweaks(d, old)     == Ignore(d, "tweak_applications", old.tweaks)
MigrateEntitlements(d, old) ==
  Ignore(d, "entitlement_snapshot_history", old.entitlements)

(* The account cache is a projection of the identities: it is replaced. *)
ProjectAccounts(d, old)   == Overwrite(d, "account_cache", old.accounts)

(* UPDATE game_profiles ... WHERE game_id, with COALESCE, for each row in   *)
(* the order of their rowids: the first of the rows of a game fills the     *)
(* empty columns of all of them.  The update gives all of them one          *)
(* profile_id, so it raises for a second row where profile_id is the key.   *)
FillRaises(d, old) == old.keyed /\ \E p, q \in d.profiles : p.game = q.game /\ p # q
FirstRow(d, g) ==
  CHOOSE r \in {p.row : p \in d.profiles} :
    /\ \E p \in d.profiles : p.row = r /\ p.game = g
    /\ \A p \in d.profiles : p.game = g => r <= p.row
FillProfiles(d) ==
  [d EXCEPT !.profiles =
     {[p EXCEPT !.filled = IF @ = 0 THEN FirstRow(d, p.game) ELSE @] : p \in @}]

MigrateDomain(d, old) ==
  MigrateEntitlements(
    ProjectAccounts(
      MigrateTweaks(
        FillProfiles(MigrateNetwork(MigrateBenchmarks(MigrateRollback(d, old), old), old)),
        old),
      old),
    old)

(* Migration 5 copies a table of the second database into one without rows; *)
(* it raises when the second database lacks one of the columns.             *)
Copied(d, old, a)      == old.artifact[a] # "none" /\ d.samples[a] = "empty"
ImportRaises(d, old)   == \E a \in ArtifactTables : Copied(d, old, a) /\ old.artifact[a] = "narrow"
ImportArtifact(d, old) ==
  [d EXCEPT !.samples = [a \in ArtifactTables |->
                           IF Copied(d, old, a) THEN "legacy" ELSE d.samples[a]]]

(* The migrations that may raise; sqlite3 then loses the whole launch.      *)
Fails(v, d, old) ==
  \/ v = 4 /\ FillRaises(d, old)
  \/ v = 5 /\ ImportRaises(d, old)

(* Migration 6 keeps the newest row of each game (the last inserted of two  *)
(* with the same time) and then creates the unique index.                   *)
Newer(p, q) == p.stamp > q.stamp \/ (p.stamp = q.stamp /\ p.row >= q.row)
UniqueProfiles(d) ==
  [d EXCEPT !.schema = @ \cup {"unique"},
            !.profiles = {p \in @ : \A q \in @ : q.game = p.game => Newer(p, q)}]

(* Migration 7. *)
AddHealth(d) == [d EXCEPT !.schema = @ \cup {"health"}]

(* The migrations that run a script, which commits what is pending first.   *)
Scripted == {1, 7}

(* _MIGRATIONS, without the scripts. *)
Migrate(v, d, old) ==
  CASE v = 1 -> CreateBase(d)
    [] v = 2 -> ExpandColumns(d)
    [] v = 3 -> MigrateSettings(d, old)
    [] v = 4 -> MigrateDomain(d, old)
    [] v = 5 -> ImportArtifact(d, old)
    [] v = 6 -> UniqueProfiles(d)
    [] v = 7 -> AddHealth(d)

(* The row of schema_migrations. *)
Record(v, d) == [d EXCEPT !.versions = @ \cup {v}]

(* The migrations a launch has to run. *)
Unapplied(d) == Versions \ d.versions
-------------------------------------------------------------------------------
(* What each version promises of a database that records it. *)
Has(d, t, ks) == ks \subseteq DOMAIN d.rows[t]

BenchmarksDone(d, old) == \A t \in BenchmarkTables : Has(d, t, old.benchmarks)

Done(v, d, old) ==
  CASE v = 1 -> "base" \in d.schema
    [] v = 2 -> "columns" \in d.schema
    [] v = 3 -> Has(d, "settings", old.settings) /\ Has(d, "runtime_housekeeping", old.runtime)
    [] v = 4 -> /\ Has(d, "rollback_snapshots", old.snapshots)
                /\ Has(d, "network_snapshots", old.network)
                /\ Has(d, "tweak_applications", old.tweaks)
                /\ Has(d, "account_cache", old.accounts)
                /\ Has(d, "entitlement_snapshot_history", old.entitlements)
                /\ \A p \in d.profiles : p.filled # 0
    [] v = 5 -> \A a \in ArtifactTables : old.artifact[a] = "rows" => d.samples[a] # "empty"
    [] v = 6 -> /\ "unique" \in d.schema
                /\ \A p, q \in d.profiles : p.game = q.game => p = q
    [] v = 7 -> "health" \in d.schema
===============================================================================
