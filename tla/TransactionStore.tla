--------------------------- MODULE TransactionStore ---------------------------
(***************************************************************************)
(* What the database promises those who call it, without semaphore, queue  *)
(* or connections: only so many calls of the service have a connection at  *)
(* a time, one transaction is open at a time, and what a call does is done *)
(* whole, by the commit of its own transaction, or not at all.             *)
(***************************************************************************)
EXTENDS Naturals, FiniteSets

CONSTANTS
  Callers,   \* calls of the database
  Bounded,   \* those of the service, whose connections are limited
  Capacity   \* the number of connections they may have

VARIABLES
  connected,   \* the calls that have a connection or are opening one
  left,        \* how many connections the service can still have
  writing,     \* the calls with a transaction open
  effect       \* what of each call is in the database

store == <<connected, left, writing, effect>>

Init ==
  /\ connected = {} /\ left = Capacity
  /\ writing = {} /\ effect = [c \in Callers |-> "none"]

(* A call begins; its effects are yet to come. *)
Call(c) ==
  /\ c \notin connected
  /\ effect' = [effect EXCEPT ![c] = "none"]
  /\ UNCHANGED <<connected, left, writing>>

Connect(c) ==
  /\ c \notin connected
  /\ c \in Bounded => Cardinality(connected \cap Bounded) < left
  /\ connected' = connected \cup {c}
  /\ effect' = [effect EXCEPT ![c] = "none"]
  /\ UNCHANGED <<left, writing>>

Begin(c) ==
  /\ c \in connected /\ writing = {}
  /\ writing' = {c}
  /\ UNCHANGED <<connected, left, effect>>

Commit(c) ==
  /\ writing = {c} /\ writing' = {}
  /\ effect' = [effect EXCEPT ![c] = "whole"]
  /\ UNCHANGED <<connected, left>>

Rollback(c) ==
  /\ writing = {c} /\ writing' = {}
  /\ UNCHANGED <<connected, left, effect>>

(* A call ends with no transaction open; another may have its connection,   *)
(* or nobody ever again.                                                    *)
Disconnect(c) ==
  /\ c \in connected \ writing
  /\ connected' = connected \ {c}
  /\ UNCHANGED <<left, writing, effect>>

HandOver(c, d) ==
  /\ c \in (connected \cap Bounded) \ writing /\ d \in Bounded \ connected
  /\ connected' = (connected \ {c}) \cup {d}
  /\ UNCHANGED <<left, writing, effect>>

Lose(c) ==
  /\ c \in (connected \cap Bounded) \ writing
  /\ connected' = connected \ {c} /\ left' = left - 1
  /\ UNCHANGED <<writing, effect>>

Next ==
  \E c \in Callers :
    \/ Call(c) \/ Connect(c) \/ Begin(c) \/ Commit(c) \/ Rollback(c)
    \/ Disconnect(c) \/ Lose(c)
    \/ \E d \in Callers : HandOver(c, d)

Spec == Init /\ [][Next]_store
===============================================================================
