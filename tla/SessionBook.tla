------------------------------ MODULE SessionBook ------------------------------
(***************************************************************************)
(* What the table of game sessions promises those who read it: a session   *)
(* begins only when none of this run of the backend is under way, what an  *)
(* earlier run has left is not written again, one write touches one row,   *)
(* and no end is taken back.  The time and metrics of an end may be        *)
(* written over, but only until a later session has ended.  Who begins and *)
(* ends a session, and how, is left open.                                  *)
(***************************************************************************)
EXTENDS Naturals, Sequences

CONSTANT Games

VARIABLES
  sessions,   \* every session ever begun: its game, and how often it was ended
  past        \* those of earlier runs, which come first

book == <<sessions, past>>

ThisRun  == past + 1 .. Len(sessions)
UnderWay == {s \in ThisRun : sessions[s].ends = 0}

Init == sessions = <<>> /\ past = 0

Begin(g) ==
  /\ UnderWay = {}
  /\ sessions' = Append(sessions, [game |-> g, ends |-> 0])
  /\ UNCHANGED past

(* The end of a session, or a later word on it. *)
End(s) ==
  /\ \A r \in s + 1 .. Len(sessions) : sessions[r].ends = 0
  /\ sessions' = [sessions EXCEPT ![s].ends = @ + 1]
  /\ UNCHANGED past

(* What the last run has not ended stays as it is. *)
NewRun ==
  /\ past' = Len(sessions)
  /\ UNCHANGED sessions

Next ==
  \/ \E g \in Games : Begin(g)
  \/ \E s \in ThisRun : End(s)
  \/ NewRun

Spec == Init /\ [][Next]_book
===============================================================================
