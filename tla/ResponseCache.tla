----------------------------- MODULE ResponseCache -----------------------------
(***************************************************************************)
(* The response cache of api/routes.py, on its key "games.profiles".  GET  *)
(* answers from an entry that is at most ttl old, else it lists the games  *)
(* and caches the list.  POST saves a profile and drops the entry.  Every  *)
(* await lets another request in.  (Sessions and benchmarks, which the     *)
(* list also shows, come without telling the cache and are left out.)      *)
(***************************************************************************)
EXTENDS Naturals

CONSTANTS
  Readers,     \* GET requests
  Ttl,         \* ttl_seconds
  MaxSaves,    \* bound on the saves of profiles
  MaxClock     \* bound on time, which begins at 1

ASSUME CacheAssumption ==
  Ttl \in Nat /\ MaxSaves \in Nat /\ MaxClock \in Nat \ {0}

VARIABLES
  profiles,    \* which save the table game_profiles holds, from 1
  entry,       \* the cached list: its save, 0 for no entry, and cached_at
  reading,     \* the save that each GET under way has read, 0 for none
  saving,      \* how many POSTs are between their commit and invalidation
  now,
  mayMiss      \* history: until when the newest save may be missing from an
               \* answer, 0 for not at all

cacheVars == <<profiles, entry, reading, saving, now, mayMiss>>

None == [save |-> 0, at |-> 0]

CacheTypeOK ==
  /\ profiles \in 1..MaxSaves + 1 /\ mayMiss \in 0..MaxClock + Ttl
  /\ entry \in [save : 0..MaxSaves + 1, at : 0..MaxClock] /\ now \in 1..MaxClock
  /\ reading \in [Readers -> 0..MaxSaves + 1] /\ saving \in 0..MaxSaves

CacheInit ==
  /\ profiles = 1 /\ entry = None /\ saving = 0 /\ now = 1
  /\ reading = [r \in Readers |-> 0] /\ mayMiss = 0

Cached == entry # None /\ now - entry.at <= Ttl
-------------------------------------------------------------------------------
(* Slips that an edit of the code could make; no specification uses them.   *)

(* SaveReturns, had the entry not been dropped. *)
ReturnsWithEntry ==
  /\ saving > 0 /\ saving' = saving - 1 /\ mayMiss' = 0
  /\ UNCHANGED <<profiles, entry, reading, now>>
-------------------------------------------------------------------------------
(* An entry is answered as it is; one that is too old is dropped, and       *)
(* list_game_profiles returns.                                              *)
GetReads(r) ==
  /\ reading[r] = 0 /\ ~Cached
  /\ entry' = None
  /\ reading' = [reading EXCEPT ![r] = profiles]
  /\ UNCHANGED <<profiles, saving, now, mayMiss>>

(* list_sessions and list_benchmark_results, then _cache_set. *)
GetReturns(r) ==
  /\ reading[r] # 0
  /\ entry' = [save |-> reading[r], at |-> now]
  /\ reading' = [reading EXCEPT ![r] = 0]
  /\ mayMiss' = IF reading[r] < profiles THEN now + Ttl ELSE mayMiss
  /\ UNCHANGED <<profiles, saving, now>>

(* One of the two raises. *)
GetRaises(r) ==
  /\ reading[r] # 0 /\ reading' = [reading EXCEPT ![r] = 0]
  /\ UNCHANGED <<profiles, entry, saving, now, mayMiss>>

SaveCommits ==
  /\ profiles <= MaxSaves /\ profiles' = profiles + 1 /\ saving' = saving + 1
  /\ mayMiss' = now + Ttl
  /\ UNCHANGED <<entry, reading, now>>

(* save_profile reads the profile back, and the entry is dropped ... *)
SaveReturns ==
  /\ saving > 0 /\ saving' = saving - 1 /\ entry' = None /\ mayMiss' = 0
  /\ UNCHANGED <<profiles, reading, now>>

(* ... or it raises on the way: the save stands, and so does the entry. *)
SaveRaises ==
  /\ saving > 0 /\ saving' = saving - 1
  /\ UNCHANGED <<profiles, entry, reading, now, mayMiss>>

(* A tweak that is applied or reverted drops the entry as well. *)
TweakDrops ==
  /\ entry # None /\ entry' = None
  /\ UNCHANGED <<profiles, reading, saving, now, mayMiss>>

Second ==
  /\ now < MaxClock /\ now' = now + 1
  /\ UNCHANGED <<profiles, entry, reading, saving, mayMiss>>

CacheNext ==
  \/ \E r \in Readers : GetReads(r) \/ GetReturns(r) \/ GetRaises(r)
  \/ SaveCommits \/ SaveReturns \/ SaveRaises \/ TweakDrops \/ Second
CacheSpec == CacheInit /\ [][CacheNext]_cacheVars
-------------------------------------------------------------------------------
(* An answer from the cache misses the newest save for ttl_seconds at most  *)
(* after its commit, and not at all once it is acknowledged: unless a GET   *)
(* that had read before the save returns after it and caches what it has    *)
(* read, and then for ttl_seconds at most after that return.  So a POST     *)
(* that raises behind its commit, and a GET that outlives an invalidation,  *)
(* hide a save for a bounded time only.                                     *)
SaveIsSeen == Cached /\ entry.save < profiles => now <= mayMiss
===============================================================================
