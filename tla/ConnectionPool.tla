---------------------------- MODULE ConnectionPool ----------------------------
(***************************************************************************)
(* The connections of DatabaseService (core/db/service.py).  A pooled call *)
(* takes a permit of the semaphore, opens a connection of its own, runs    *)
(* its statements in one transaction, commits and closes the connection;   *)
(* a call of MemorySystem opens a connection without a permit.  SQLite     *)
(* lets one connection write at a time and makes the others wait, for at   *)
(* most busy_timeout.  A call may raise at any statement, and opening or   *)
(* configuring its connection may fail; the call of the orchestrator's     *)
(* task may be cancelled at any await when the backend stops.              *)
(***************************************************************************)
EXTENDS Naturals, FiniteSets, SequencesExt

CONSTANTS
  Pooled, Unpooled,  \* calls, of DatabaseService and of MemorySystem
  Cancellable,       \* calls of the orchestrator's task
  MaxConnections,    \* _pool_size
  MaxFailures        \* bound on the connections that cannot be opened

Calls == Pooled \cup Unpooled
Nobody == "nobody"

ASSUME PoolAssumption ==
  /\ MaxConnections \in Nat \ {0} /\ MaxFailures \in Nat
  /\ IsFiniteSet(Pooled) /\ Pooled \cap Unpooled = {} /\ Cancellable \subseteq Pooled
  /\ Nobody \notin Calls

VARIABLES
  at,        \* where each call is
  permits,   \* the value of the semaphore
  waiting,   \* its waiters, first come first served
  writer,    \* the call whose transaction holds the write lock
  saved,     \* statements that the transaction of each call has committed
  leaked,    \* connections that nobody will close
  lost,      \* permits that nobody will release
  failures,  \* connections that could not be opened
  stopped    \* close_all has run

poolVars == <<at, permits, waiting, writer, saved, leaked, lost, failures, stopped>>

Points == {"idle", "waiting", "creating", "held", "first", "second", "releasing"}

PoolTypeOK ==
  /\ at \in [Calls -> Points] /\ permits \in 0..MaxConnections
  /\ waiting \in Seq(Pooled) /\ writer \in Calls \cup {Nobody}
  /\ saved \in [Calls -> 0..2] /\ failures \in 0..MaxFailures
  /\ leaked \in Nat /\ lost \in Nat /\ stopped \in BOOLEAN

PoolInit ==
  /\ at = [c \in Calls |-> "idle"] /\ permits = MaxConnections /\ waiting = <<>>
  /\ writer = Nobody /\ saved = [c \in Calls |-> 0]
  /\ leaked = 0 /\ lost = 0 /\ failures = 0 /\ stopped = FALSE

Goes(c, from, to) == ~stopped /\ at[c] = from /\ at' = [at EXCEPT ![c] = to]

-------------------------------------------------------------------------------
(* Slips that an edit of the code could make; no specification uses them.   *)

(* OpenFails, had acquire not released the permit. *)
FailsWithPermit(c) ==
  /\ Goes(c, "creating", "idle")
  /\ failures < MaxFailures /\ failures' = failures + 1
  /\ UNCHANGED <<permits, waiting, writer, saved, leaked, lost, stopped>>

(* Raises, had the connection been left to commit what it has. *)
RaisesAndCommits(c) ==
  /\ \E p \in {"held", "first", "second"} : Goes(c, p, "releasing")
  /\ writer' = IF writer = c THEN Nobody ELSE writer
  /\ saved' = [saved EXCEPT ![c] = IF at[c] = "first" THEN 1 ELSE @]
  /\ UNCHANGED <<permits, waiting, leaked, lost, failures, stopped>>

(* OpenFails, had the call been left to its release as well. *)
FailsTwice(c) ==
  /\ Goes(c, "creating", "idle")
  /\ failures < MaxFailures /\ failures' = failures + 1
  /\ permits' = permits + IF c \in Pooled THEN 2 ELSE 0
  /\ UNCHANGED <<waiting, writer, saved, leaked, lost, stopped>>

(* Cancelled, had the waiter taken a permit with it. *)
CancelReleases(c) ==
  /\ c \in Cancellable /\ Goes(c, "waiting", "idle")
  /\ \E i \in DOMAIN waiting : waiting[i] = c /\ waiting' = RemoveAt(waiting, i)
  /\ permits' = permits + 1
  /\ UNCHANGED <<writer, saved, leaked, lost, failures, stopped>>
-------------------------------------------------------------------------------
(* Semaphore.release hands the permit to the first waiter.  The call c that *)
(* releases it goes to "idle".                                              *)
Release(c, from) ==
  /\ ~stopped /\ at[c] = from
  /\ IF waiting = <<>>
       THEN /\ at' = [at EXCEPT ![c] = "idle"]
            /\ permits' = permits + 1 /\ UNCHANGED waiting
       ELSE /\ at' = [at EXCEPT ![c] = "idle", ![Head(waiting)] = "creating"]
            /\ waiting' = Tail(waiting) /\ UNCHANGED permits

(* DBPool.acquire. *)
Acquire(c) ==
  /\ c \in Pooled
  /\ IF permits > 0
       THEN Goes(c, "idle", "creating") /\ permits' = permits - 1 /\ UNCHANGED waiting
       ELSE Goes(c, "idle", "waiting") /\ waiting' = Append(waiting, c) /\ UNCHANGED permits
  /\ saved' = [saved EXCEPT ![c] = 0]
  /\ UNCHANGED <<writer, leaked, lost, failures, stopped>>

(* MemorySystem: aiosqlite.connect, without a permit. *)
Connect(c) ==
  /\ c \in Unpooled /\ Goes(c, "idle", "creating")
  /\ saved' = [saved EXCEPT ![c] = 0]
  /\ UNCHANGED <<permits, waiting, writer, leaked, lost, failures, stopped>>

Opened(c) ==
  /\ Goes(c, "creating", "held")
  /\ UNCHANGED <<permits, waiting, writer, saved, leaked, lost, failures, stopped>>

(* connect raises, or a PRAGMA of configure_connection: then the connection *)
(* is open and nobody knows it.                                             *)
OpenFails(c) ==
  /\ failures < MaxFailures /\ failures' = failures + 1
  /\ IF c \in Pooled THEN Release(c, "creating")
     ELSE Goes(c, "creating", "idle") /\ UNCHANGED <<permits, waiting>>
  /\ leaked' \in {leaked, leaked + 1}
  /\ UNCHANGED <<writer, saved, lost, stopped>>

(* A call that only reads. *)
Reads(c) ==
  /\ Goes(c, "held", "releasing")
  /\ UNCHANGED <<permits, waiting, writer, saved, leaked, lost, failures, stopped>>

(* The first statement that changes rows takes the write lock. *)
FirstStatement(c) ==
  /\ Goes(c, "held", "first") /\ writer = Nobody /\ writer' = c
  /\ UNCHANGED <<permits, waiting, saved, leaked, lost, failures, stopped>>

SecondStatement(c) ==
  /\ Goes(c, "first", "second")
  /\ UNCHANGED <<permits, waiting, writer, saved, leaked, lost, failures, stopped>>

Commit(c) ==
  /\ Goes(c, "second", "releasing") /\ writer' = Nobody
  /\ saved' = [saved EXCEPT ![c] = 2]
  /\ UNCHANGED <<permits, waiting, leaked, lost, failures, stopped>>

(* A statement raises, or the write lock is not free within busy_timeout;   *)
(* the open transaction is rolled back before the connection is closed.     *)
Raises(c) ==
  /\ \E p \in {"held", "first", "second"} : Goes(c, p, "releasing")
  /\ writer' = IF writer = c THEN Nobody ELSE writer
  /\ UNCHANGED <<permits, waiting, saved, leaked, lost, failures, stopped>>

(* The connection is closed, then DBPool.release returns the permit. *)
Closes(c) ==
  /\ IF c \in Pooled THEN Release(c, "releasing")
     ELSE Goes(c, "releasing", "idle") /\ UNCHANGED <<permits, waiting>>
  /\ UNCHANGED <<writer, saved, leaked, lost, failures, stopped>>

(* task.cancel() during acquire.  A waiter leaves the queue; while the      *)
(* connection is opened, "except Exception" lets CancelledError pass: the   *)
(* permit is not released and the connection is not closed.  Later the call *)
(* goes on to its finally, as when it raises (a waiter that has been handed *)
(* a permit but has not run yet would return it; here it counts as opening  *)
(* its connection).                                                         *)
Cancelled(c) ==
  /\ c \in Cancellable
  /\ \/ /\ Goes(c, "waiting", "idle")
        /\ \E i \in DOMAIN waiting : waiting[i] = c /\ waiting' = RemoveAt(waiting, i)
        /\ UNCHANGED <<leaked, lost>>
     \/ /\ lost = 0   \* the task is cancelled once
        /\ Goes(c, "creating", "idle")
        /\ leaked' = leaked + 1 /\ lost' = lost + 1 /\ UNCHANGED waiting
  /\ UNCHANGED <<permits, writer, saved, failures, stopped>>

(* DatabaseService.close, the last step of lifespan.  What a call that is   *)
(* still under way does between it and the end of the process is left out.  *)
CloseAll ==
  /\ ~stopped /\ stopped' = TRUE
  /\ UNCHANGED <<at, permits, waiting, writer, saved, leaked, lost, failures>>

PoolNext ==
  \/ \E c \in Calls :
       \/ Acquire(c) \/ Connect(c) \/ Opened(c) \/ OpenFails(c) \/ Reads(c)
       \/ FirstStatement(c) \/ SecondStatement(c) \/ Commit(c) \/ Raises(c)
       \/ Closes(c) \/ Cancelled(c)
  \/ CloseAll
PoolSpec == PoolInit /\ [][PoolNext]_poolVars
-------------------------------------------------------------------------------
Holding(c) == at[c] \in {"creating", "held", "first", "second", "releasing"}

(* Every permit is accounted for: with a call, free, or lost to a           *)
(* cancellation; so no more than MaxConnections calls of the service have a *)
(* connection open, and a failed call never keeps one.                      *)
PermitsAccounted ==
  permits + lost + Cardinality({c \in Pooled : Holding(c)}) = MaxConnections

(* A transaction of two statements is committed whole or not at all, and    *)
(* its call has the write lock as long as it is open and no longer: one     *)
(* that has raised or was cancelled between them keeps it from nobody.      *)
AllOrNothing ==
  \A c \in Calls : saved[c] \in {0, 2} /\ (writer = c <=> at[c] \in {"first", "second"})

(* No call waits while a permit is free: a permit that is returned, after   *)
(* whatever failure, goes to the first waiter.                              *)
NoIdlePermit == waiting # <<>> => permits = 0

(* To its callers the pool is a store with one transaction at a time and    *)
(* no more connections than it was made for, less those that a cancellation *)
(* has cost it: whatever raises, waits or is cancelled, a call takes effect *)
(* as a whole, at its commit.                                               *)
Effect(n) == CASE n = 0 -> "none" [] n = 1 -> "part" [] n = 2 -> "whole"
Store == INSTANCE TransactionStore
           WITH Callers   <- Calls,
                Bounded   <- Pooled,
                Capacity  <- MaxConnections,
                connected <- {c \in Calls : Holding(c)},
                left      <- MaxConnections - lost,
                writing   <- {c \in Calls : at[c] \in {"first", "second"}},
                effect    <- [c \in Calls |-> Effect(saved[c])]

ImplementsStore == Store!Spec
===============================================================================
