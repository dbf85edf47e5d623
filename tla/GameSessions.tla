----------------------------- MODULE GameSessions -----------------------------
(***************************************************************************)
(* The game session of SessionManager and its row in the table sessions.   *)
(*                                                                         *)
(* Two coroutines work on it: the monitoring cycle of the orchestrator,    *)
(* which starts and ends sessions as games come and go, and stop(), which  *)
(* ends the session at shutdown while the last cycle may still run:        *)
(*                                                                         *)
(*   start   insert the row -> current_session = it -> audit               *)
(*   end     update the row -> read current_session -> audit               *)
(*           -> current_session = None                                     *)
(*                                                                         *)
(* An action is the code between two awaits.  rows survives a crash.       *)
(***************************************************************************)
EXTENDS Naturals, Sequences, FiniteSets

CONSTANTS
  Games,      \* the games that can be detected
  MaxRows,    \* bound on rows: no game or launch begins beyond it
  MaxRaises   \* bound on the database calls that raise

ASSUME BoundAssumption == MaxRows \in Nat /\ MaxRaises \in Nat

NoGame == "none"
ASSUME GamesAssumption == NoGame \notin Games

VARIABLES
  rows,      \* table sessions: the game of each, and how often it was ended
  base,      \* the rows that earlier runs of the backend inserted
  current,   \* session_manager.current_session, 0 for None
  playing,   \* the game that runs on the machine
  phase,     \* how far the run of the backend is
  sampled,   \* orchestrator.last_snapshot is not None
  pc,        \* the await each coroutine is suspended at
  loc,       \* its locals: the game of the snapshot, the session it ends
  raises     \* how many database calls have raised

vars == <<rows, base, current, playing, phase, sampled, pc, loc, raises>>
-------------------------------------------------------------------------------
Coroutines == {"cycle", "stop"}
Points     == {"idle", "begun", "complete", "ended", "audit", "insert", "adopt"}
Phases     == {"down", "running", "stopping", "cleaning", "raised"}

NoLocals == [game |-> NoGame, session |-> 0]

At(c, p) == pc[c] = p

(* The rows of this run that are still active. *)
OpenRows == {s \in base + 1 .. Len(rows) : rows[s].ends = 0}

(* A coroutine's call returns: the cycle sleeps until its next round, and   *)
(* stop() hands over to the cleanup of the lifespan.                        *)
Return(c) ==
  /\ pc' = [pc EXCEPT ![c] = "idle"]
  /\ loc' = [loc EXCEPT ![c] = NoLocals]
  /\ phase' = IF c = "stop" THEN "cleaning" ELSE phase

(* An exception: run() reports that of a cycle and goes on; that of stop()  *)
(* ends the lifespan before its cleanup.                                    *)
Raise(c) ==
  /\ pc' = [pc EXCEPT ![c] = "idle"]
  /\ loc' = [loc EXCEPT ![c] = NoLocals]
  /\ phase' = IF c = "stop" THEN "raised" ELSE phase

(* finalize_active_session for the current session. *)
BeginEnd(c) ==
  /\ pc' = [pc EXCEPT ![c] = "complete"]
  /\ loc' = [loc EXCEPT ![c].session = current]
-------------------------------------------------------------------------------
(* Slips that an edit of the code could make; see TweakLifecycle. *)

(* Update, had current_session been cleared before the row was ended. *)
UpdateClearsFirst ==
  LET game == loc["cycle"].game
  IN /\ At("cycle", "begun")
     /\ CASE current = 0 /\ game # NoGame ->
               pc' = [pc EXCEPT !["cycle"] = "insert"] /\ UNCHANGED <<loc, phase, current>>
          [] current # 0 /\ game # rows[current].game ->
               BeginEnd("cycle") /\ current' = 0 /\ UNCHANGED phase
          [] OTHER -> Return("cycle") /\ UNCHANGED current
     /\ UNCHANGED <<rows, base, playing, sampled, raises>>

(* Update, had it ended a session only for another game. *)
UpdateKeepsOnQuit ==
  LET game == loc["cycle"].game
  IN /\ At("cycle", "begun")
     /\ CASE current = 0 /\ game # NoGame ->
               pc' = [pc EXCEPT !["cycle"] = "insert"] /\ UNCHANGED <<loc, phase>>
          [] current # 0 /\ game \notin {NoGame, rows[current].game} ->
               BeginEnd("cycle") /\ UNCHANGED phase
          [] OTHER -> Return("cycle")
     /\ UNCHANGED <<rows, base, current, playing, sampled, raises>>

(* Complete, had the update no condition on the session. *)
CompleteEvery(c) ==
  /\ At(c, "complete")
  /\ rows' = [s \in DOMAIN rows |-> [rows[s] EXCEPT !.ends = @ + 1]]
  /\ pc' = [pc EXCEPT ![c] = "ended"]
  /\ UNCHANGED <<base, current, playing, phase, sampled, loc, raises>>

(* Adopt, had the inserted record not been kept. *)
AdoptForgotten ==
  /\ At("cycle", "adopt")
  /\ Return("cycle")
  /\ UNCHANGED <<rows, base, current, playing, sampled, raises>>
-------------------------------------------------------------------------------
Init ==
  /\ rows = <<>>
  /\ base = 0
  /\ current = 0
  /\ playing = NoGame
  /\ phase = "down"
  /\ sampled = FALSE
  /\ pc = [c \in Coroutines |-> "idle"]
  /\ loc = [c \in Coroutines |-> NoLocals]
  /\ raises = 0

(* The user starts, quits or changes a game. *)
Play(g) ==
  /\ g # playing
  /\ g # NoGame => Len(rows) < MaxRows
  /\ playing' = g
  /\ UNCHANGED <<rows, base, current, phase, sampled, pc, loc, raises>>

Launch ==
  /\ phase = "down"
  /\ Len(rows) < MaxRows
  /\ phase' = "running"
  /\ base' = Len(rows)
  /\ UNCHANGED <<rows, current, playing, sampled, pc, loc, raises>>

(* The process ends, after the lifespan or before. *)
Exit ==
  /\ phase # "down"
  /\ phase' = "down"
  /\ current' = 0
  /\ sampled' = FALSE
  /\ pc' = [c \in Coroutines |-> "idle"]
  /\ loc' = [c \in Coroutines |-> NoLocals]
  /\ UNCHANGED <<rows, base, playing, raises>>

(* A cycle takes its snapshot; it detects the game from it much later. *)
CycleBegin ==
  /\ phase = "running"
  /\ At("cycle", "idle")
  /\ sampled' = TRUE
  /\ pc' = [pc EXCEPT !["cycle"] = "begun"]
  /\ loc' = [loc EXCEPT !["cycle"].game = playing]
  /\ UNCHANGED <<rows, base, current, playing, phase, raises>>

(* SessionManager.update: end the session of a game that is over, start one *)
(* for a game that is new, or leave it.                                     *)
Update ==
  LET game == loc["cycle"].game
  IN /\ At("cycle", "begun")
     /\ CASE current = 0 /\ game # NoGame ->
               /\ pc' = [pc EXCEPT !["cycle"] = "insert"]
               /\ UNCHANGED <<loc, phase>>
          [] current # 0 /\ game # rows[current].game ->
               BeginEnd("cycle") /\ UNCHANGED phase
          [] OTHER -> Return("cycle")
     /\ UNCHANGED <<rows, base, current, playing, sampled, raises>>

(* complete_session commits the end of the row, its time and its metrics,   *)
(* whether or not the row has been ended before.                            *)
Complete(c) ==
  /\ At(c, "complete")
  /\ rows' = [rows EXCEPT ![loc[c].session].ends = @ + 1]
  /\ pc' = [pc EXCEPT ![c] = "ended"]
  /\ UNCHANGED <<base, current, playing, phase, sampled, loc, raises>>

(* The audit entry names the game of current_session, whatever that is now. *)
AuditEnd(c) ==
  /\ At(c, "ended")
  /\ current # 0
  /\ pc' = [pc EXCEPT ![c] = "audit"]
  /\ UNCHANGED <<rows, base, current, playing, phase, sampled, loc, raises>>

(* None has no attribute get. *)
AuditRaises(c) ==
  /\ At(c, "ended")
  /\ current = 0
  /\ Raise(c)
  /\ UNCHANGED <<rows, base, current, playing, sampled, raises>>

(* current_session = None; update goes on to start the new game's session. *)
Clear(c) ==
  /\ At(c, "audit")
  /\ current' = 0
  /\ IF loc[c].game # NoGame
     THEN pc' = [pc EXCEPT ![c] = "insert"] /\ UNCHANGED <<loc, phase>>
     ELSE Return(c)
  /\ UNCHANGED <<rows, base, playing, sampled, raises>>

(* insert_session commits the row ... *)
Insert ==
  /\ At("cycle", "insert")
  /\ rows' = Append(rows, [game |-> loc["cycle"].game, ends |-> 0])
  /\ loc' = [loc EXCEPT !["cycle"].session = Len(rows) + 1]
  /\ pc' = [pc EXCEPT !["cycle"] = "adopt"]
  /\ UNCHANGED <<base, current, playing, phase, sampled, raises>>

(* ... and its record becomes current_session. *)
Adopt ==
  /\ At("cycle", "adopt")
  /\ current' = loc["cycle"].session
  /\ Return("cycle")
  /\ UNCHANGED <<rows, base, playing, sampled, raises>>

(* A database call raises before its commit. *)
DatabaseRaises(c) ==
  /\ raises < MaxRaises
  /\ pc[c] \in {"begun", "complete", "audit", "insert"}
  /\ Raise(c)
  /\ raises' = raises + 1
  /\ UNCHANGED <<rows, base, current, playing, sampled>>

(* stop() clears running, so that no cycle begins, and ends the session. *)
Stop ==
  /\ phase = "running"
  /\ IF sampled /\ current # 0
     THEN BeginEnd("stop") /\ phase' = "stopping"
     ELSE Return("stop")
  /\ UNCHANGED <<rows, base, current, playing, sampled, raises>>

(* After its cleanup the lifespan cancels the cycle where it waits. *)
Cancel ==
  /\ phase = "cleaning"
  /\ ~At("cycle", "idle")
  /\ pc' = [pc EXCEPT !["cycle"] = "idle"]
  /\ loc' = [loc EXCEPT !["cycle"] = NoLocals]
  /\ UNCHANGED <<rows, base, current, playing, phase, sampled, raises>>

End(c)  == Complete(c) \/ AuditEnd(c) \/ AuditRaises(c) \/ Clear(c)
Cycle   == CycleBegin \/ Update \/ End("cycle") \/ Insert \/ Adopt

Next ==
  \/ \E g \in Games \cup {NoGame} : Play(g)
  \/ Launch \/ Stop \/ Cancel \/ Exit
  \/ Cycle
  \/ End("stop")
  \/ \E c \in Coroutines : DatabaseRaises(c)

Spec == Init /\ [][Next]_vars

(* run() starts a cycle after every sleep, and the event loop resumes it    *)
(* whenever the database has answered.                                      *)
FairSpec == Spec /\ WF_vars(Cycle)
-------------------------------------------------------------------------------
TypeOK ==
  /\ rows \in Seq([game : Games, ends : Nat])
  /\ base \in 0..Len(rows)
  /\ current \in 0..Len(rows)
  /\ playing \in Games \cup {NoGame}
  /\ phase \in Phases
  /\ sampled \in BOOLEAN
  /\ pc \in [Coroutines -> Points]
  /\ loc \in [Coroutines -> [game : Games \cup {NoGame}, session : 0..Len(rows)]]
  /\ raises \in 0..MaxRaises

(* A run of the backend never has two sessions under way, although the last *)
(* cycle may start one while stop() ends another, and any call may raise.   *)
OneOpenRow == Cardinality(OpenRows) <= 1

(* While the backend serves, the row of a session that is under way is the  *)
(* one that SessionManager goes by, or is about to: no failed call leaves a *)
(* row behind that nothing will end.                                        *)
NoSessionLost ==
  phase = "running" =>
    \A s \in OpenRows : s = current \/ (At("cycle", "adopt") /\ s = loc["cycle"].session)

(* The table is the book of SessionBook: whatever the cycle and stop() do   *)
(* to each other, a row begins only when none of this run is open, no row   *)
(* of an earlier run is touched, and an end is written over only while no   *)
(* later session has ended, although each of them updates by a session      *)
(* that it has read before its await, and a raised call ends its row again. *)
Book == INSTANCE SessionBook WITH sessions <- rows, past <- base

ImplementsBook == Book!Spec

(* A session whose game is no longer played is ended, unless the game comes *)
(* back or the backend stops, also when calls have raised on the way.       *)
EndedGameIsClosed ==
  \A s \in 1..MaxRows :
    (s \in OpenRows /\ phase = "running" /\ playing # rows[s].game) ~>
      (s \notin OpenRows \/ phase # "running" \/ playing = rows[s].game)

(* Ending the session does not keep the lifespan from its cleanup           *)
(* ("Temporary tweaks must be restored on clean shutdown when possible",    *)
(* docs/INSTALLER_ARCHITECTURE.md line 24).                                 *)
StopReachesCleanup == phase # "raised"
===============================================================================
