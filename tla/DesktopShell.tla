----------------------------- MODULE DesktopShell -----------------------------
(***************************************************************************)
(* How the Electron shell (electron/main.cjs) starts, adopts, restarts and *)
(* stops its backend.  The shell is one event loop, but startBackend and   *)
(* stopBackend await probes, ports and exits, and work on globals          *)
(* (backendProcess, backendPort, backendOwnedByElectron): a restart that   *)
(* the interface asks for twice, or a window closed during a restart, are  *)
(* two calls in the middle of each other.  Backends fail to bind their     *)
(* port, are slow, die, and a program that the shell has not started may   *)
(* serve the default port.                                                 *)
(***************************************************************************)
EXTENDS Naturals

CONSTANTS
  Restarts,       \* calls of pulseboost:restart-backend
  FallbackPorts,  \* ports after DEFAULT_BACKEND_PORT
  MaxSpawns       \* bound on the processes that are spawned

Default == 0
Ports == {Default} \cup FallbackPorts
ShellCalls == {"launch", "close"} \cup Restarts
Spawns == 1..MaxSpawns

ASSUME ShellAssumption == MaxSpawns \in Nat /\ FallbackPorts \subseteq Nat \ {0}

VARIABLES
  process,    \* every backend that was spawned: how it is, and its port
  foreign,    \* what another program serves at the default port
  backend,    \* backendProcess, 0 for null
  port,       \* backendPort
  owned,      \* backendOwnedByElectron
  call,       \* each call: its await, the process and the port it waits for
  shell,      \* "starting" | "open" | "closing" | "quit"
  overlapped, \* history: a call has begun while another was under way
  failed      \* history: the launch has failed

shellVars == <<process, foreign, backend, port, owned, call, shell, overlapped, failed>>

Awaits == {"idle", "wait", "probe", "front", "find", "managed", "refind", "again",
           "stopping", "quitting"}

Health == {"none", "starting", "serving", "killed", "dying", "exited"}

ShellTypeOK ==
  /\ process \in [Spawns -> [is : Health, at : Ports]]
  /\ foreign \in {"none", "desktop", "other"}
  /\ backend \in 0..MaxSpawns /\ port \in Ports /\ owned \in BOOLEAN
  /\ call \in [ShellCalls -> [await : Awaits, of : 0..MaxSpawns, at : Ports]]
  /\ shell \in {"starting", "open", "closing", "quit"}
  /\ overlapped \in BOOLEAN /\ failed \in BOOLEAN

NotYet == [is |-> "none", at |-> Default]
Idling == [await |-> "idle", of |-> 0, at |-> Default]

ShellInit ==
  /\ process = [p \in Spawns |-> NotYet]
  /\ foreign \in {"none", "desktop", "other"}
  /\ backend = 0 /\ port = Default /\ owned = FALSE
  /\ call = [c \in ShellCalls |-> IF c = "launch" THEN [Idling EXCEPT !.await = "probe"] ELSE Idling]
  /\ shell = "starting" /\ overlapped = FALSE /\ failed = FALSE

(* exitCode === null; a process that was killed may take a while to end, and *)
(* keeps the port it has bound ("dying") until then.                        *)
Running(p) == p # 0 /\ process[p].is \in {"starting", "serving", "killed", "dying"}

Binds(q)    == {p \in Spawns : process[p].is \in {"serving", "dying"} /\ process[p].at = q}
Taken(q)    == Binds(q) # {} \/ (q = Default /\ foreign # "none")
Answers(q)  == (\E p \in Binds(q) : process[p].is = "serving") \/ (q = Default /\ foreign # "none")
Frontend(q) == (\E p \in Binds(q) : process[p].is = "serving") \/ (q = Default /\ foreign = "desktop")

Awaiting(c, await) == shell # "quit" /\ call[c].await = await
Busy(c)  == \E d \in ShellCalls \ {c} : call[d].await # "idle"
Fresh(p) == process[p].is = "none" /\ \A q \in Spawns : process[q].is = "none" => p <= q

(* The table of processes after a kill, after a spawn. *)
Killed(ps, p) ==
  [ps EXCEPT ![p].is = CASE @ = "starting" -> "killed" [] @ = "serving" -> "dying" [] OTHER -> @]
Spawned(ps, p, q) == [ps EXCEPT ![p] = [is |-> "starting", at |-> q]]

(* findAvailableBackendPort *)
FirstFree(q) == q \in FallbackPorts /\ ~Taken(q) /\ \A r \in FallbackPorts : r < q => Taken(r)

(* What becomes of a call when startBackend has returned or thrown: the     *)
(* launch opens its window or quits the app; the interface gets its answer. *)
Returns(c, ok) ==
  /\ call' = IF c = "launch" /\ ~ok
             THEN [call EXCEPT ![c] = Idling, !["close"].await = "quitting"]
             ELSE [call EXCEPT ![c] = Idling]
  /\ shell' = IF c # "launch" THEN shell ELSE IF ok THEN "open" ELSE "closing"
  /\ failed' = (failed \/ (c = "launch" /\ ~ok))

SpawnAt(c, q, await, ps) ==
  \E p \in Spawns :
    /\ Fresh(p)
    /\ process' = Spawned(ps, p, q)
    /\ backend' = p /\ port' = q
    /\ call' = [call EXCEPT ![c] = [await |-> await, of |-> p, at |-> q]]
    /\ UNCHANGED <<shell, failed>>
-------------------------------------------------------------------------------
(* Slips that an edit of the code could make; no specification uses them.   *)

(* Refind, had it left the first process alone. *)
FallbackBeside(c) ==
  /\ Awaiting(c, "refind")
  /\ \/ \E q \in FallbackPorts : FirstFree(q) /\ SpawnAt(c, q, "again", process)
     \/ (\A q \in FallbackPorts : Taken(q)) /\ Returns(c, FALSE) /\ UNCHANGED <<process, backend, port>>
  /\ UNCHANGED <<foreign, owned, overlapped>>

(* Probe, had it not noted whose the backend is. *)
SpawnsUnowned(c) ==
  /\ Awaiting(c, "probe")
  /\ \/ /\ Answers(Default)
        /\ call' = [call EXCEPT ![c].await = "front"]
        /\ UNCHANGED <<process, backend, port, shell, failed>>
     \/ SpawnAt(c, Default, "managed", process)
  /\ UNCHANGED <<foreign, owned, overlapped>>
-------------------------------------------------------------------------------
(* stopBackend up to its await: an own backend is killed, another forgotten.*)
StopBegins(c, next) ==
  /\ IF owned /\ Running(backend)
       THEN /\ process' = Killed(process, backend)
            /\ call' = [call EXCEPT ![c] = [Idling EXCEPT !.await = "stopping", !.of = backend]]
       ELSE /\ call' = [call EXCEPT ![c] = [Idling EXCEPT !.await = next]]
            /\ UNCHANGED process
  /\ backend' = 0 /\ owned' = FALSE
  /\ overlapped' = (overlapped \/ Busy(c))
  /\ UNCHANGED <<foreign, port, failed>>

(* pulseboost:restart-backend *)
RestartBegins(c) ==
  /\ shell = "open" /\ call[c].await = "idle"
  /\ StopBegins(c, "probe") /\ UNCHANGED shell

(* window-all-closed *)
WindowsClosed ==
  /\ shell = "open" /\ shell' = "closing"
  /\ StopBegins("close", "quitting")

(* The process has ended, or five seconds have passed; then app.quit(), or  *)
(* startBackend, which waits for a backend that another call has started.   *)
StopEnds(c) ==
  /\ Awaiting(c, "stopping")
  /\ call' = [call EXCEPT ![c] =
       IF c = "close" THEN [Idling EXCEPT !.await = "quitting"]
       ELSE IF Running(backend) THEN [await |-> "wait", of |-> 0, at |-> port]
       ELSE [Idling EXCEPT !.await = "probe"]]
  /\ UNCHANGED <<process, foreign, backend, port, owned, shell, overlapped, failed>>

(* isBackendReachable at the default port, false also after its timeout. *)
Probe(c) ==
  /\ Awaiting(c, "probe")
  /\ \/ /\ Answers(Default)
        /\ call' = [call EXCEPT ![c].await = "front"]
        /\ UNCHANGED <<process, backend, port, owned, shell, failed>>
     \/ SpawnAt(c, Default, "managed", process) /\ owned' = TRUE
  /\ UNCHANGED <<foreign, overlapped>>

(* servesDesktopFrontend: what serves it is adopted. *)
ProbeFrontend(c) ==
  /\ Awaiting(c, "front")
  /\ \/ /\ Frontend(Default)
        /\ backend' = 0 /\ port' = Default /\ owned' = FALSE
        /\ Returns(c, TRUE)
     \/ /\ call' = [call EXCEPT ![c].await = "find"]
        /\ UNCHANGED <<backend, port, owned, shell, failed>>
  /\ UNCHANGED <<process, foreign, overlapped>>

Find(c) ==
  /\ Awaiting(c, "find")
  /\ \/ \E q \in FallbackPorts : FirstFree(q) /\ SpawnAt(c, q, "managed", process) /\ owned' = TRUE
     \/ /\ \A q \in FallbackPorts : Taken(q)
        /\ Returns(c, FALSE) /\ UNCHANGED <<process, backend, port, owned>>
  /\ UNCHANGED <<foreign, overlapped>>

(* waitForManagedBackend: whoever serves the interface at the port, as long *)
(* as the process is there.  waitForBackend then asks the current port.     *)
ManagedReady(c) ==
  /\ Awaiting(c, "managed")
  /\ Running(call[c].of) /\ Frontend(call[c].at)
  /\ call' = [call EXCEPT ![c] = [await |-> "wait", of |-> 0, at |-> port]]
  /\ UNCHANGED <<process, foreign, backend, port, owned, shell, overlapped, failed>>

(* The process has ended, or the time is over.  The port that is looked at  *)
(* is the current one.                                                      *)
ManagedFails(c) ==
  /\ Awaiting(c, "managed")
  /\ IF port = Default
       THEN call' = [call EXCEPT ![c].await = "refind"] /\ UNCHANGED <<shell, failed>>
       ELSE Returns(c, FALSE)
  /\ UNCHANGED <<process, foreign, backend, port, owned, overlapped>>

(* A second try at another port; whose it is stays as it is noted. *)
Refind(c) ==
  /\ Awaiting(c, "refind")
  /\ \/ \E q \in FallbackPorts :
          /\ FirstFree(q)
          /\ SpawnAt(c, q, "again", IF Running(backend) THEN Killed(process, backend) ELSE process)
     \/ (\A q \in FallbackPorts : Taken(q)) /\ Returns(c, FALSE) /\ UNCHANGED <<process, backend, port>>
  /\ UNCHANGED <<foreign, owned, overlapped>>

AgainEnds(c) ==
  /\ Awaiting(c, "again")
  /\ \/ Running(call[c].of) /\ Frontend(call[c].at) /\ Returns(c, TRUE)
     \/ Returns(c, FALSE)
  /\ UNCHANGED <<process, foreign, backend, port, owned, overlapped>>

(* waitForBackend: anything that answers at the port. *)
WaitEnds(c) ==
  /\ Awaiting(c, "wait")
  /\ \/ Answers(call[c].at) /\ Returns(c, TRUE)
     \/ Returns(c, FALSE)
  /\ UNCHANGED <<process, foreign, backend, port, owned, overlapped>>

(* app.quit() takes its time; then every call is gone. *)
Quit ==
  /\ Awaiting("close", "quitting") /\ shell' = "quit"
  /\ UNCHANGED <<process, foreign, backend, port, owned, call, overlapped, failed>>

(* A backend binds its port; one that cannot, or is killed, or fails, ends. *)
Serves(p) ==
  /\ process[p].is = "starting" /\ ~Taken(process[p].at)
  /\ process' = [process EXCEPT ![p].is = "serving"]
  /\ UNCHANGED <<foreign, backend, port, owned, call, shell, overlapped, failed>>

Exits(p) ==
  /\ Running(p)
  /\ process' = [process EXCEPT ![p].is = "exited"]
  /\ UNCHANGED <<foreign, backend, port, owned, call, shell, overlapped, failed>>

ForeignChanges ==
  /\ foreign' \in IF Binds(Default) = {} THEN {"none", "desktop", "other"} ELSE {"none"}
  /\ UNCHANGED <<process, backend, port, owned, call, shell, overlapped, failed>>

ShellNext ==
  \/ \E c \in Restarts : RestartBegins(c)
  \/ \E c \in ShellCalls :
       \/ StopEnds(c) \/ Probe(c) \/ ProbeFrontend(c) \/ Find(c) \/ ManagedReady(c)
       \/ ManagedFails(c) \/ Refind(c) \/ AgainEnds(c) \/ WaitEnds(c)
  \/ WindowsClosed \/ Quit
  \/ \E p \in Spawns : Serves(p) \/ Exits(p)
  \/ ForeignChanges
ShellSpec == ShellInit /\ [][ShellNext]_shellVars
-------------------------------------------------------------------------------
Left == {p \in Spawns : process[p].is \in {"starting", "serving"}}

(* As long as no call begins in the middle of another, the shell never      *)
(* loses a backend that it has started and not killed, whichever start is   *)
(* refused, late, or tried again at another port.                           *)
NoOrphan == ~overlapped => Left \subseteq {backend}

(* When the app has quit, only a launch that failed has left a backend      *)
(* behind (then the app quits without stopBackend): the one that it tried   *)
(* last, and no other.  After a closed window nothing is left.              *)
OnlyFailedLaunchLeaves ==
  shell = "quit" /\ ~overlapped => Left = {} \/ (failed /\ Left = {backend})
===============================================================================
