-------------------------------- MODULE LiveView --------------------------------
(***************************************************************************)
(* ConnectionManager of api/main.py: the list of the websockets of the     *)
(* live view and the broadcasts that walk it.  broadcast awaits each send, *)
(* so that the broadcasts of the cycle, of the monitor of a game and of    *)
(* requests, new sockets, disconnects and the shutdown interleave.  Python *)
(* walks a list by position: a socket that is removed before the position  *)
(* moves the others up, and the next one is passed over.                   *)
(***************************************************************************)
EXTENDS Naturals, FiniteSets, SequencesExt

CONSTANTS
  Sockets,    \* websockets; each is accepted once
  Deciders    \* requests that decide an optimization, one after another

(* The orchestrator's cycle, the watchdog's monitor, and decide_optimization *)
(* with the state that it has changed.                                      *)
Tasks   == {"cycle", "monitor"}
Senders == Tasks \cup Deciders

ASSUME DecidersAssumption == Tasks \cap Deciders = {}

VARIABLES
  connections,  \* manager.connections
  socket,       \* what has become of each socket
  walk,         \* the broadcast of each sender
  serving       \* the lifespan has not cancelled its tasks

liveVars == <<connections, socket, walk, serving>>

(* position: how far the list has been walked; sending: the send that is    *)
(* awaited; failed: sockets to drop.  sent, removed and dead are history:   *)
(* the sends begun, the sockets that others removed before the position,    *)
(* and the sockets whose endpoint was dead at the beginning.                *)
Walk == [on : BOOLEAN, position : Nat, sending : SUBSET Sockets, failed : SUBSET Sockets,
         sent : [Sockets -> Nat], removed : Nat, dead : SUBSET Sockets]
NoWalk == [on |-> FALSE, position |-> 0, sending |-> {}, failed |-> {},
           sent |-> [c \in Sockets |-> 0], removed |-> 0, dead |-> {}]

LiveTypeOK ==
  /\ connections \in Seq(Sockets)
  /\ socket \in [Sockets -> {"new", "open", "left", "orphan", "closed"}]
  /\ walk \in [Senders -> Walk] /\ serving \in BOOLEAN

LiveInit ==
  /\ connections = <<>> /\ socket = [c \in Sockets |-> "new"]
  /\ walk = [s \in Senders |-> NoWalk] /\ serving = TRUE

IndexOf(c) == CHOOSE k \in DOMAIN connections : connections[k] = c

(* list.remove of each socket of gone: the others move up, in their order.  *)
(* It is what SelectSeq returns, as a function that can be reasoned about.  *)
Without(s, gone) ==
  LET kept  == {k \in DOMAIN s : s[k] \notin gone}
      at(j) == Cardinality({i \in kept : i <= j})
  IN  [k \in 1..Cardinality(kept) |-> s[CHOOSE j \in kept : at(j) = k]]

(* A removal seen by a broadcast under way. *)
Notice(w, c) ==
  IF w.on /\ IndexOf(c) <= w.position THEN [w EXCEPT !.removed = @ + 1] ELSE w
-------------------------------------------------------------------------------
(* Slips that an edit of the code could make; no specification uses them.   *)

(* SendFails, had it dropped the socket at once. *)
DropsAtOnce(s) ==
  \E c \in walk[s].sending :
    /\ socket[c] # "open"
    /\ walk' = [walk EXCEPT ![s].sending = {}]
    /\ connections' = Without(connections, {c})
    /\ UNCHANGED <<socket, serving>>

(* BroadcastEnds, had the failed sockets been kept. *)
KeepsFailed(s) ==
  /\ walk[s].on /\ walk[s].sending = {} /\ walk[s].position >= Len(connections)
  /\ walk' = [walk EXCEPT ![s] = NoWalk]
  /\ UNCHANGED <<connections, socket, serving>>
-------------------------------------------------------------------------------
(* ConnectionManager.connect. *)
Accept(c) ==
  /\ serving /\ socket[c] = "new" /\ socket' = [socket EXCEPT ![c] = "open"]
  /\ connections' = Append(connections, c)
  /\ UNCHANGED <<walk, serving>>

(* The peer goes away, or the endpoint raises something that is not a       *)
(* WebSocketDisconnect and leaves the socket in the list.                   *)
Leaves(c) ==
  /\ socket[c] = "open"
  /\ \E how \in {"left", "orphan"} : socket' = [socket EXCEPT ![c] = how]
  /\ UNCHANGED <<connections, walk, serving>>

(* ConnectionManager.disconnect. *)
Removed(c) ==
  /\ connections' = Without(connections, {c})
  /\ walk' = IF c \in Range(connections) THEN [s \in Senders |-> Notice(walk[s], c)] ELSE walk
  /\ UNCHANGED serving

(* websocket_endpoint: receive_json raises, disconnect. *)
Disconnect(c) ==
  /\ socket[c] = "left" /\ socket' = [socket EXCEPT ![c] = "closed"]
  /\ Removed(c)

BroadcastBegins(s) ==
  /\ ~walk[s].on /\ (s \in Tasks => serving)
  /\ walk' = [walk EXCEPT ![s] = [NoWalk EXCEPT !.on = TRUE,
                                        !.dead = {c \in Range(connections) : socket[c] = "orphan"}]]
  /\ UNCHANGED <<connections, socket, serving>>

SendBegins(s) ==
  LET next == walk[s].position + 1
  IN  /\ walk[s].on /\ walk[s].sending = {} /\ next <= Len(connections)
      /\ walk' = [walk EXCEPT ![s].position = next, ![s].sending = {connections[next]},
                              ![s].sent[connections[next]] = @ + 1]
      /\ UNCHANGED <<connections, socket, serving>>

(* A send to a socket that has left may still go out; to an orphan it       *)
(* raises.                                                                  *)
SendReturns(s) ==
  \E c \in walk[s].sending :
    /\ socket[c] # "orphan"
    /\ walk' = [walk EXCEPT ![s].sending = {}]
    /\ UNCHANGED <<connections, socket, serving>>

SendFails(s) ==
  \E c \in walk[s].sending :
    /\ socket[c] # "open"
    /\ walk' = [walk EXCEPT ![s].sending = {}, ![s].failed = @ \cup {c}]
    /\ UNCHANGED <<connections, socket, serving>>

(* The end of the loop: every failed socket is disconnected; the broadcasts *)
(* of the other senders see them go.                                        *)
BroadcastEnds(s) ==
  LET gone == walk[s].failed \cap Range(connections)
      before(w) == {c \in gone : IndexOf(c) <= w.position}
  IN  /\ walk[s].on /\ walk[s].sending = {} /\ walk[s].position >= Len(connections)
      /\ connections' = Without(connections, gone)
      /\ walk' = [t \in Senders |->
                    IF t = s THEN NoWalk
                    ELSE IF walk[t].on
                         THEN [walk[t] EXCEPT !.removed = @ + Cardinality(before(walk[t]))]
                         ELSE walk[t]]
      /\ UNCHANGED <<socket, serving>>

(* The watchdog cancels the monitor: what had failed is not dropped. *)
BroadcastCancelled ==
  /\ walk["monitor"].on /\ walk' = [walk EXCEPT !["monitor"] = NoWalk]
  /\ UNCHANGED <<connections, socket, serving>>

(* At the end of the lifespan the cycle and the monitor are cancelled, and  *)
(* the sockets closed in their order.                                       *)
TasksCancelled ==
  /\ serving /\ serving' = FALSE
  /\ walk' = [s \in Senders |-> IF s \in Tasks THEN NoWalk ELSE walk[s]]
  /\ UNCHANGED <<connections, socket>>

LifespanCloses(c) ==
  /\ ~serving /\ connections # <<>> /\ c = Head(connections)
  /\ socket' = [socket EXCEPT ![c] = IF @ = "open" THEN "left" ELSE @]
  /\ Removed(c)

BroadcastStep(s) ==
  SendBegins(s) \/ SendReturns(s) \/ SendFails(s) \/ BroadcastEnds(s)

LiveNext ==
  \/ \E c \in Sockets : Accept(c) \/ Leaves(c) \/ Disconnect(c) \/ LifespanCloses(c)
  \/ \E s \in Senders : BroadcastBegins(s) \/ BroadcastStep(s)
  \/ BroadcastCancelled \/ TasksCancelled

LiveSpec == LiveInit /\ [][LiveNext]_liveVars
-------------------------------------------------------------------------------
(* A broadcast passes a connected socket over only for a socket that went   *)
(* away meanwhile, one for one: no client misses an update while nobody     *)
(* leaves, whoever connects.                                                *)
PassedOver(s) ==
  {connections[k] : k \in {j \in DOMAIN connections :
     j <= walk[s].position /\ walk[s].sent[connections[j]] = 0}}
MissedForRemovals ==
  \A s \in Senders : walk[s].on => Cardinality(PassedOver(s)) <= walk[s].removed

(* A socket whose endpoint has died does not stay in the list: a broadcast  *)
(* of the cycle that was not made to pass sockets over drops every one that *)
(* was dead when it began, although nothing else removes them before the    *)
(* shutdown.                                                                *)
DeadAreDropped ==
  [][walk["cycle"].on /\ ~walk["cycle"].on' /\ serving' /\ walk["cycle"].removed = 0 =>
       walk["cycle"].dead \cap Range(connections') = {}]_liveVars
===============================================================================
