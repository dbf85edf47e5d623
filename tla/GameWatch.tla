------------------------------- MODULE GameWatch -------------------------------
(***************************************************************************)
(* The watchdog of lifespan (api/main.py) and monitor_game_close, beside   *)
(* the game sessions they go by.  Once a second the watchdog looks at the  *)
(* current session and starts a monitor for its process, cancelling the    *)
(* one of another process; the monitor looks every five seconds whether    *)
(* the process still runs, announces the end of the game to the live view  *)
(* and returns.  The session begins and ends on the orchestrator's own     *)
(* schedule, so that both go by what was true some time ago.  (The         *)
(* announcement is a broadcast of LiveView.)                               *)
(***************************************************************************)
EXTENDS GameSessions

VARIABLES
  watched,    \* watched_process
  monitor     \* the watch_task

watchVars   == <<watched, monitor>>
watchedVars == <<vars, watchVars>>

Watching == phase = "running"

(* The process of session_manager.current_session. *)
SessionProcess == IF current = 0 THEN NoGame ELSE rows[current].game

WatchInit == Init /\ watched = NoGame /\ monitor = "none"
-------------------------------------------------------------------------------
(* Slips that an edit of the code could make; no specification uses them.   *)

(* Forgotten, had only the task been forgotten. *)
KeepsWatched == watched

(* MonitorPolls, had it returned without the callback. *)
PollReturns ==
  /\ monitor = "polling" /\ watched # playing
  /\ monitor' = "done"
  /\ UNCHANGED <<watched, vars>>
-------------------------------------------------------------------------------
(* The head of the watchdog's round: a monitor that has returned is         *)
(* forgotten together with what it watched.                                 *)
Forgotten == IF monitor = "done" THEN NoGame ELSE watched

WatchdogRound ==
  /\ Watching
  /\ IF SessionProcess \notin {NoGame, Forgotten}
       THEN watched' = SessionProcess /\ monitor' = "polling"
       ELSE watched' = Forgotten /\ monitor' = IF monitor = "done" THEN "none" ELSE monitor
  /\ UNCHANGED vars

MonitorPolls ==
  /\ monitor = "polling" /\ watched # playing
  /\ monitor' = "announcing"
  /\ UNCHANGED <<watched, vars>>

AnnouncementEnds ==
  /\ monitor = "announcing" /\ monitor' = "done"
  /\ UNCHANGED <<watched, vars>>

(* The first step of the shutdown stops the watchdog, whose finally cancels *)
(* its monitor; a launch has a new one.                                     *)
SessionStep ==
  /\ Next
  /\ IF phase' = "running" THEN UNCHANGED watchVars
     ELSE watched' = NoGame /\ monitor' = "none"

WatchNext == SessionStep \/ WatchdogRound \/ MonitorPolls \/ AnnouncementEnds

(* The watchdog and the monitor sleep for fixed times; sends end or raise. *)
WatchSpec ==
  /\ WatchInit /\ [][WatchNext]_watchedVars
  /\ WF_watchedVars(Cycle /\ SessionStep)
  /\ WF_watchedVars(WatchdogRound) /\ WF_watchedVars(MonitorPolls)
  /\ WF_watchedVars(AnnouncementEnds)
-------------------------------------------------------------------------------
WatchTypeOK ==
  /\ TypeOK
  /\ watched \in Games \cup {NoGame}
  /\ monitor \in {"none", "polling", "announcing", "done"}

(* A session that stays current comes to be watched, whatever was watched   *)
(* before: also the second session of a game whose end was announced.       *)
SessionIsWatched ==
  \A g \in Games :
    Watching /\ SessionProcess = g ~>
      \/ ~Watching \/ SessionProcess # g
      \/ watched = g /\ monitor \in {"polling", "announcing"}

(* The end of a watched game is announced, unless the game is back or the   *)
(* session of another game has taken the watchdog over before the next poll.*)
CloseIsAnnounced ==
  \A g \in Games :
    watched = g /\ monitor = "polling" /\ playing # g ~>
      \/ watched = g /\ monitor = "announcing"
      \/ playing = g \/ watched \notin {g, NoGame} \/ ~Watching
===============================================================================
