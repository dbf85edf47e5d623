--------------------------- MODULE GameSessionsProofs ---------------------------
(***************************************************************************)
(* What holds of GameSessions for any games, and any number of rows and of *)
(* calls that raise.                                                       *)
(***************************************************************************)
EXTENDS GameWatch, SequenceTheorems, FiniteSetTheorems, TLAPS

Row == [game : Games, ends : Nat]

(* TypeOK needs where each coroutine may be, and what it holds there. *)
Typed ==
  /\ TypeOK
  /\ pc["stop"] \in {"idle", "complete", "ended", "audit"}
  /\ pc["stop"] # "idle" => phase = "stopping"
  /\ loc["stop"].game = NoGame
  /\ \A c \in Coroutines : pc[c] \in {"complete", "ended", "audit"} => loc[c].session # 0
  /\ pc["cycle"] = "insert" => loc["cycle"].game # NoGame
  /\ phase = "down" => pc["cycle"] = "idle" /\ current = 0

LEMMA TypedInit == Init => Typed
<1> SUFFICES ASSUME Init PROVE Typed
  OBVIOUS
<1>1. rows \in Seq([game : Games, ends : Nat]) /\ Len(rows) = 0
  BY EmptySeq DEF Init
<1>2. /\ loc \in [Coroutines -> [game : Games \cup {NoGame}, session : 0..Len(rows)]]
      /\ \A c \in Coroutines : loc[c].game = NoGame
  BY <1>1 DEF Init, NoLocals
<1>3. /\ pc \in [Coroutines -> Points]
      /\ \A c \in Coroutines : pc[c] = "idle"
      /\ base = 0 /\ current = 0 /\ playing = NoGame /\ phase = "down"
      /\ sampled = FALSE /\ raises = 0
  BY DEF Init, Points
<1>4. TypeOK
  <2>1. base \in 0..Len(rows) /\ current \in 0..Len(rows) /\ raises \in 0..MaxRaises
    BY <1>1, <1>3, BoundAssumption
  <2>2. playing \in Games \cup {NoGame} /\ phase \in Phases
    BY <1>3 DEF Phases
  <2>3. sampled \in BOOLEAN
    BY <1>3
  <2> QED
    BY <1>1, <1>2, <1>3, <2>1, <2>2, <2>3 DEF TypeOK
<1> QED
  BY <1>2, <1>3, <1>4 DEF Typed, Coroutines

(* Ending a row counts it as ended once more and leaves the others. *)
LEMMA CompleteShape ==
  ASSUME Typed, NEW c \in Coroutines, Complete(c)
  PROVE  /\ rows' \in Seq(Row) /\ Len(rows') = Len(rows)
         /\ loc[c].session \in 1..Len(rows)
         /\ \A s \in 1..Len(rows) :
              /\ rows'[s].game = rows[s].game
              /\ rows'[s].ends = IF s = loc[c].session THEN rows[s].ends + 1
                                                       ELSE rows[s].ends
<1> DEFINE r == rows[loc[c].session]
           e == [r EXCEPT !.ends = r.ends + 1]
<1>1. rows \in Seq(Row) /\ loc[c].session \in 1..Len(rows)
  BY DEF Typed, TypeOK, Complete, At, Row
<1>2. \A s \in 1..Len(rows) : rows[s] \in Row
  BY <1>1, LenProperties, ElementOfSeq
<1>3. /\ e \in Row /\ e.game = rows[loc[c].session].game
      /\ e.ends = rows[loc[c].session].ends + 1
  <2>1. r \in Row
    BY <1>1, <1>2
  <2>2. \A x \in Row : /\ [x EXCEPT !.ends = x.ends + 1] \in Row
                       /\ [x EXCEPT !.ends = x.ends + 1].game = x.game
                       /\ [x EXCEPT !.ends = x.ends + 1].ends = x.ends + 1
    BY DEF Row
  <2> QED
    BY <2>1, <2>2
<1>4. rows' = [rows EXCEPT ![loc[c].session] = e]
  BY DEF Complete
<1> HIDE DEF e
<1>5. /\ rows' \in Seq(Row) /\ Len(rows') = Len(rows)
      /\ \A s \in 1..Len(rows) : rows'[s] = IF s = loc[c].session THEN e ELSE rows[s]
  BY <1>1, <1>3, <1>4, ExceptSeq
<1> QED
  BY <1>1, <1>3, <1>5

(* A new row is the last one, and open. *)
LEMMA InsertShape ==
  ASSUME Typed, Insert
  PROVE  /\ rows' \in Seq(Row) /\ Len(rows) \in Nat /\ Len(rows') = Len(rows) + 1
         /\ \A s \in 1..Len(rows) : rows'[s] = rows[s]
         /\ rows'[Len(rows) + 1].ends = 0
<1> DEFINE e == [game |-> loc["cycle"].game, ends |-> 0]
<1>1. rows \in Seq(Row) /\ e \in Row
  BY DEF Typed, TypeOK, Insert, At, Row, Coroutines
<1>2. rows' = Append(rows, e) /\ Len(rows) \in Nat
  BY <1>1, LenProperties DEF Insert
<1>3. e.ends = 0
  OBVIOUS
<1> HIDE DEF e
<1> QED
  BY <1>1, <1>2, <1>3, AppendProperties

LEMMA TypedStep == Typed /\ [Next]_vars => Typed'
<1> SUFFICES ASSUME Typed, [Next]_vars PROVE Typed'
  OBVIOUS
<1> USE DEF Typed
<1>l. Len(rows) \in Nat /\ "cycle" \in Coroutines /\ "stop" \in Coroutines
  BY LenProperties DEF TypeOK, Coroutines
<1>n. /\ NoLocals \in [game : Games \cup {NoGame}, session : 0..Len(rows)]
      /\ NoLocals.game = NoGame
  BY <1>l DEF NoLocals
<1>1. ASSUME NEW g \in Games \cup {NoGame}, Play(g) PROVE Typed'
  BY <1>1 DEF Play, TypeOK
<1>2. CASE Launch
  BY <1>l, <1>2 DEF Launch, TypeOK, Phases
<1>3. CASE Exit
  <2>1. /\ pc' \in [Coroutines -> Points]
        /\ \A c \in Coroutines : pc'[c] = "idle"
        /\ loc' \in [Coroutines -> [game : Games \cup {NoGame}, session : 0..Len(rows)]]
        /\ \A c \in Coroutines : loc'[c].game = NoGame
    BY <1>n, <1>3 DEF Exit, Points
  <2>2. /\ current' = 0 /\ sampled' = FALSE /\ phase' = "down"
        /\ UNCHANGED <<rows, base, playing, raises>>
    BY <1>3 DEF Exit
  <2>3. /\ current' \in 0..Len(rows') /\ phase' \in Phases
        /\ base' \in 0..Len(rows') /\ raises' \in 0..MaxRaises
        /\ rows' = rows /\ playing' \in Games \cup {NoGame}
    BY <1>l, <2>2 DEF Phases, TypeOK
  <2>4. TypeOK'
    <3>1. sampled' \in BOOLEAN
      BY <2>2
    <3> QED
      BY <2>1, <2>3, <3>1 DEF TypeOK
  <2> QED
    BY <1>l, <2>1, <2>2, <2>4
<1>4. CASE CycleBegin
  BY <1>l, <1>4 DEF CycleBegin, TypeOK, Points, Coroutines, At
<1>5. CASE Update
  <2> USE DEF Update, TypeOK, Points, Phases, Coroutines, At
  <2>1. CASE current = 0 /\ loc["cycle"].game # NoGame
    BY <1>l, <1>5, <2>1
  <2>2. CASE current # 0 /\ loc["cycle"].game # rows[current].game
    BY <1>l, <1>5, <2>2 DEF BeginEnd
  <2>3. CASE /\ ~(current = 0 /\ loc["cycle"].game # NoGame)
             /\ ~(current # 0 /\ loc["cycle"].game # rows[current].game)
    BY <1>l, <1>n, <1>5, <2>3 DEF Return
  <2> QED
    BY <2>1, <2>2, <2>3
<1>6. ASSUME NEW c \in Coroutines, Complete(c) PROVE Typed'
  <2>1. rows' \in Seq([game : Games, ends : Nat]) /\ Len(rows') = Len(rows)
    BY <1>6, CompleteShape DEF Row
  <2> QED
    BY <1>l, <1>6, <2>1 DEF Complete, TypeOK, Points, At, Coroutines
<1>7. ASSUME NEW c \in Coroutines, AuditEnd(c) PROVE Typed'
  BY <1>l, <1>7 DEF AuditEnd, TypeOK, Points, At, Coroutines
<1>8. ASSUME NEW c \in Coroutines, AuditRaises(c) \/ DatabaseRaises(c) PROVE Typed'
  <2>1. raises' \in 0..MaxRaises
    BY <1>8, BoundAssumption DEF AuditRaises, DatabaseRaises, TypeOK
  <2>2. /\ pc' = [pc EXCEPT ![c] = "idle"] /\ loc' = [loc EXCEPT ![c] = NoLocals]
        /\ phase' = IF c = "stop" THEN "raised" ELSE phase
        /\ UNCHANGED <<rows, base, current, playing, sampled>>
    BY <1>8 DEF AuditRaises, DatabaseRaises, Raise
  <2> USE DEF TypeOK, Points, Phases, Coroutines
  <2>3. CASE c = "cycle"
    BY <1>l, <1>n, <2>1, <2>2, <2>3
  <2>4. CASE c = "stop"
    BY <1>l, <1>n, <2>1, <2>2, <2>4
  <2> QED
    BY <2>3, <2>4
<1>9. ASSUME NEW c \in Coroutines, Clear(c) PROVE Typed'
  <2> USE DEF TypeOK, Points, Phases, Coroutines
  <2>1. current' = 0 /\ UNCHANGED <<rows, base, playing, sampled, raises>>
    BY <1>9 DEF Clear
  <2>2. CASE loc[c].game # NoGame
    BY <1>l, <1>9, <2>1, <2>2 DEF Clear, At
  <2>3. CASE loc[c].game = NoGame
    BY <1>l, <1>n, <1>9, <2>1, <2>3 DEF Clear, Return, At
  <2> QED
    BY <2>2, <2>3
<1>10. CASE Insert
  <2>1. rows' \in Seq([game : Games, ends : Nat]) /\ Len(rows') = Len(rows) + 1
    BY <1>10, InsertShape DEF Row
  <2>2. /\ pc' = [pc EXCEPT !["cycle"] = "adopt"]
        /\ loc' = [loc EXCEPT !["cycle"].session = Len(rows) + 1]
        /\ UNCHANGED <<base, current, playing, phase, sampled, raises>>
        /\ pc["cycle"] = "insert"
    BY <1>10 DEF Insert, At
  <2>3. /\ loc' \in [Coroutines -> [game : Games \cup {NoGame}, session : 0..Len(rows) + 1]]
        /\ loc'["stop"] = loc["stop"] /\ loc'["cycle"].session # 0
    <3> DEFINE m == Len(rows) + 1
               e == [loc["cycle"] EXCEPT !.session = m]
    <3>1. \A x \in [game : Games \cup {NoGame}, session : 0..Len(rows)] :
            /\ x \in [game : Games \cup {NoGame}, session : 0..m]
            /\ [x EXCEPT !.session = m] \in [game : Games \cup {NoGame}, session : 0..m]
            /\ [x EXCEPT !.session = m].session = m
      BY <1>l
    <3>2. /\ loc \in [Coroutines -> [game : Games \cup {NoGame}, session : 0..Len(rows)]]
          /\ m # 0
      BY <1>l DEF TypeOK
    <3>3. e \in [game : Games \cup {NoGame}, session : 0..m] /\ e.session = m
      BY <1>l, <3>1, <3>2
    <3>4. loc' = [loc EXCEPT !["cycle"] = e]
      BY <2>2
    <3> HIDE DEF e, m
    <3> QED
      BY <1>l, <3>1, <3>2, <3>3, <3>4 DEF m
  <2>4. /\ base' \in 0..Len(rows) + 1 /\ current' \in 0..Len(rows) + 1
        /\ pc' \in [Coroutines -> Points]
    BY <1>l, <2>2 DEF TypeOK, Points
  <2>5. TypeOK'
    BY <2>1, <2>2, <2>3, <2>4 DEF TypeOK
  <2>6. \A c \in Coroutines : /\ pc'[c] = IF c = "cycle" THEN "adopt" ELSE pc[c]
                              /\ c # "cycle" => loc'[c].session = loc[c].session
    BY <1>l, <2>2 DEF TypeOK
  <2>7. \A c \in Coroutines :
          pc'[c] \in {"complete", "ended", "audit"} => loc'[c].session # 0
    BY <2>3, <2>6
  <2>8. phase' # "down" /\ pc'["cycle"] # "insert" /\ pc'["stop"] = pc["stop"]
    BY <1>l, <2>2, <2>6
  <2> QED
    BY <2>2, <2>3, <2>5, <2>7, <2>8
<1>11. CASE Adopt
  BY <1>l, <1>n, <1>11 DEF Adopt, Return, TypeOK, Points, At, Coroutines
<1>12. CASE Stop
  <2> USE DEF TypeOK, Points, Phases, Coroutines
  <2>1. CASE sampled /\ current # 0
    <3>1. /\ rows' = rows /\ phase' = "stopping" /\ phase = "running"
          /\ pc' = [pc EXCEPT !["stop"] = "complete"]
          /\ loc' = [loc EXCEPT !["stop"].session = current]
      BY <1>12, <2>1 DEF Stop, BeginEnd
    <3>2. UNCHANGED <<base, current, playing, sampled, raises>>
      BY <1>12 DEF Stop
    <3> QED
      BY <1>l, <2>1, <3>1, <3>2
  <2>2. CASE ~(sampled /\ current # 0)
    BY <1>l, <1>n, <1>12, <2>2 DEF Stop, Return
  <2> QED
    BY <2>1, <2>2
<1>13. CASE Cancel
  BY <1>l, <1>n, <1>13 DEF Cancel, TypeOK, Points, Coroutines, At
<1>14. CASE UNCHANGED vars
  BY <1>14 DEF vars, TypeOK
<1> QED
  BY <1>1, <1>2, <1>3, <1>4, <1>5, <1>6, <1>7, <1>8, <1>9, <1>10, <1>11, <1>12, <1>13,
     <1>14, <1>l DEF Next, Cycle, End

(* Every reachable state of the sessions is well typed. *)
THEOREM SessionsTypeCorrect == Spec => []TypeOK
<1>1. Typed => TypeOK
  BY DEF Typed
<1> QED
  BY <1>1, TypedInit, TypedStep, PTL DEF Spec
-------------------------------------------------------------------------------
(* Which row may be open at each point of the cycle, and what stop() has    *)
(* done to it.                                                              *)
OneRowInv ==
  /\ pc["cycle"] \in {"ended", "audit", "insert"} => OpenRows = {}
  /\ pc["cycle"] \in {"complete", "adopt"} => OpenRows \subseteq {loc["cycle"].session}
  /\ pc["cycle"] = "begun" => OpenRows \subseteq {current}
  /\ phase = "running" /\ pc["cycle"] = "idle" => OpenRows \subseteq {current}
  /\ \E s \in Nat : OpenRows \subseteq {s}
  /\ phase = "running" /\ pc["cycle"] \in {"complete", "ended", "audit"} =>
       current = loc["cycle"].session
  /\ pc["stop"] \in {"ended", "audit"} => loc["stop"].session \notin OpenRows
  /\ pc["stop"] # "idle" /\ pc["cycle"] = "begun" => current = loc["stop"].session

LEMMA OneRowInit == Init => OneRowInv
<1> SUFFICES ASSUME Init PROVE OneRowInv
  OBVIOUS
<1>1. Len(rows) = 0
  BY EmptySeq DEF Init
<1>2. OpenRows = {}
  BY <1>1 DEF Init, OpenRows
<1>3. \A c \in Coroutines : pc[c] = "idle"
  BY DEF Init
<1> QED
  BY <1>2, <1>3 DEF OneRowInv, Coroutines

(* The rows that are open change at the end of a session, the start of one, *)
(* and a launch.                                                            *)
LEMMA OpenRowsChange ==
  ASSUME Typed, [Next]_vars
  PROVE  \/ OpenRows' = OpenRows /\ ~Insert /\ ~\E c \in Coroutines : Complete(c)
         \/ \E c \in Coroutines : Complete(c) /\ OpenRows' = OpenRows \ {loc[c].session}
         \/ Insert /\ OpenRows' \subseteq OpenRows \cup {Len(rows) + 1}
         \/ Launch /\ OpenRows' = {}
<1>l. rows \in Seq(Row) /\ Len(rows) \in Nat /\ base \in 0..Len(rows)
  BY LenProperties DEF Typed, TypeOK, Row
<1>1. ASSUME NEW c \in Coroutines, Complete(c)
      PROVE  OpenRows' = OpenRows \ {loc[c].session}
  <2>1. base' = base
    BY <1>1 DEF Complete
  <2>2. /\ Len(rows') = Len(rows)
        /\ \A s \in 1..Len(rows) :
             rows'[s].ends = IF s = loc[c].session THEN rows[s].ends + 1 ELSE rows[s].ends
    BY <1>1, CompleteShape
  <2>3. ASSUME NEW s \in base + 1 .. Len(rows)
        PROVE  rows'[s].ends = 0 <=> (rows[s].ends = 0 /\ s # loc[c].session)
    <3>1. s \in 1..Len(rows)
      BY <1>l
    <3>2. rows[s] \in Row
      BY <1>l, <3>1, ElementOfSeq
    <3>3. rows[s].ends \in Nat
      BY <3>2 DEF Row
    <3> QED
      BY <3>1, <3>3, <2>2
  <2> QED
    BY <2>1, <2>2, <2>3 DEF OpenRows
<1>2. ASSUME Insert PROVE OpenRows' \subseteq OpenRows \cup {Len(rows) + 1}
  <2>1. base' = base
    BY <1>2 DEF Insert
  <2> QED
    BY <1>l, <1>2, <2>1, InsertShape DEF OpenRows
<1>3. ASSUME Launch PROVE OpenRows' = {}
  BY <1>l, <1>3 DEF Launch, OpenRows
<1>4. ASSUME ~Insert, ~Launch, ~\E c \in Coroutines : Complete(c)
      PROVE  OpenRows' = OpenRows
  <2>1. rows' = rows /\ base' = base
    BY <1>4 DEF Next, Cycle, End, Play, Exit, CycleBegin, Update, AuditEnd, AuditRaises,
                Clear, Adopt, Stop, Cancel, DatabaseRaises, vars, Coroutines
  <2> QED
    BY <2>1 DEF OpenRows
<1> QED
  BY <1>1, <1>2, <1>3, <1>4

LEMMA OneRowStep == Typed /\ OneRowInv /\ [Next]_vars => OneRowInv'
<1> SUFFICES ASSUME Typed, OneRowInv, [Next]_vars PROVE OneRowInv'
  OBVIOUS
<1>t. /\ pc \in [Coroutines -> Points]
      /\ loc \in [Coroutines -> [game : Games \cup {NoGame}, session : 0..Len(rows)]]
      /\ current \in 0..Len(rows) /\ Len(rows) \in Nat
      /\ "cycle" \in Coroutines /\ "stop" \in Coroutines
      /\ \A c \in Coroutines : c = "cycle" \/ c = "stop"
  BY LenProperties DEF Typed, TypeOK, Coroutines
<1>s. /\ pc["stop"] \in {"idle", "complete", "ended", "audit"}
      /\ pc["stop"] # "idle" => phase = "stopping"
      /\ loc["stop"].game = NoGame
      /\ \A c \in Coroutines : pc[c] \in {"complete", "ended", "audit"} => loc[c].session # 0
      /\ phase = "down" => pc["cycle"] = "idle" /\ current = 0
  BY DEF Typed
<1> USE DEF OneRowInv, At
<1>1. CASE \/ UNCHANGED vars \/ Cancel
           \/ \E g \in Games \cup {NoGame} : Play(g)
  <2>1. OpenRows' = OpenRows
    BY <1>1 DEF vars, Cancel, Play, OpenRows
  <2> QED
    BY <1>t, <1>1, <2>1 DEF vars, Cancel, Play
<1>2. CASE Launch
  <2>1. OpenRows' = {}
    BY <1>t, <1>2 DEF Launch, OpenRows, Typed, TypeOK
  <2> QED
    BY <1>s, <1>2, <2>1 DEF Launch
<1>3. CASE Exit
  <2>1. OpenRows' = OpenRows
    BY <1>3 DEF Exit, OpenRows
  <2> QED
    BY <1>t, <1>3, <2>1 DEF Exit
<1>4. CASE CycleBegin
  <2>1. OpenRows' = OpenRows
    BY <1>4 DEF CycleBegin, OpenRows
  <2> QED
    BY <1>t, <1>s, <1>4, <2>1 DEF CycleBegin
<1>5. CASE Update
  <2>1. OpenRows' = OpenRows
    BY <1>5 DEF Update, OpenRows
  <2>2. CASE current = 0 /\ loc["cycle"].game # NoGame
    <3>1. 0 \notin OpenRows
      BY <1>t DEF OpenRows, Typed, TypeOK
    <3> QED
      BY <1>t, <1>5, <2>1, <2>2, <3>1 DEF Update
  <2>3. CASE current # 0 /\ loc["cycle"].game # rows[current].game
    BY <1>t, <1>5, <2>1, <2>3 DEF Update, BeginEnd
  <2>4. CASE /\ ~(current = 0 /\ loc["cycle"].game # NoGame)
             /\ ~(current # 0 /\ loc["cycle"].game # rows[current].game)
    BY <1>t, <1>5, <2>1, <2>4 DEF Update, Return
  <2> QED
    BY <2>2, <2>3, <2>4
<1>6. ASSUME NEW c \in Coroutines, Complete(c) PROVE OneRowInv'
  <2>1. OpenRows' = OpenRows \ {loc[c].session}
    BY <1>t, <1>6, OpenRowsChange DEF Complete, Insert, Launch
  <2> QED
    BY <1>t, <1>6, <2>1 DEF Complete
<1>7. ASSUME NEW c \in Coroutines, AuditEnd(c) PROVE OneRowInv'
  <2>1. OpenRows' = OpenRows
    BY <1>7 DEF AuditEnd, OpenRows
  <2> QED
    BY <1>t, <1>7, <2>1 DEF AuditEnd
<1>8. ASSUME NEW c \in Coroutines, AuditRaises(c) \/ DatabaseRaises(c) PROVE OneRowInv'
  <2>1. /\ pc' = [pc EXCEPT ![c] = "idle"] /\ loc' = [loc EXCEPT ![c] = NoLocals]
        /\ phase' = IF c = "stop" THEN "raised" ELSE phase
        /\ pc[c] \in {"begun", "complete", "ended", "audit", "insert"}
        /\ current' = current
    BY <1>8 DEF AuditRaises, DatabaseRaises, Raise
  <2>2. OpenRows' = OpenRows
    BY <1>8 DEF AuditRaises, DatabaseRaises, OpenRows
  <2>3. CASE c = "cycle"
    BY <1>t, <2>1, <2>2, <2>3
  <2>4. CASE c = "stop"
    BY <1>t, <2>1, <2>2, <2>4
  <2> QED
    BY <1>t, <2>3, <2>4
<1>9. CASE Clear("cycle")
  <2>1. /\ OpenRows' = OpenRows /\ pc["cycle"] = "audit" /\ current' = 0
        /\ pc'["cycle"] \in {"insert", "idle"} /\ phase' = phase
        /\ pc'["stop"] = pc["stop"] /\ loc'["stop"] = loc["stop"]
    BY <1>t, <1>9 DEF Clear, Return, OpenRows
  <2> QED
    BY <1>t, <2>1
<1>10. CASE Clear("stop")
  <2>1. /\ OpenRows' = OpenRows /\ pc["stop"] = "audit" /\ phase' = "cleaning"
        /\ pc'["stop"] = "idle" /\ pc'["cycle"] = pc["cycle"] /\ loc'["cycle"] = loc["cycle"]
    BY <1>t, <1>s, <1>10 DEF Clear, Return, OpenRows
  <2>2. pc["cycle"] = "begun" => OpenRows = {}
    BY <2>1
  <2> QED
    BY <1>t, <2>1, <2>2
<1>11. CASE Insert
  <2>1. OpenRows' \subseteq OpenRows \cup {Len(rows) + 1}
    BY <1>t, <1>11, OpenRowsChange DEF Complete, Insert, Launch
  <2>2. OpenRows = {} /\ loc'["cycle"].session = Len(rows) + 1 /\ loc'["stop"] = loc["stop"]
    BY <1>t, <1>11 DEF Insert
  <2>3. /\ OpenRows' \subseteq {Len(rows) + 1} /\ Len(rows) + 1 \in Nat
        /\ loc'["stop"].session # Len(rows) + 1
    BY <1>t, <2>1, <2>2
  <2>4. pc'["cycle"] = "adopt" /\ pc'["stop"] = pc["stop"] /\ phase' = phase
    BY <1>t, <1>11 DEF Insert
  <2> QED
    BY <2>2, <2>3, <2>4
<1>12. CASE Adopt
  <2>1. OpenRows' = OpenRows
    BY <1>12 DEF Adopt, OpenRows
  <2> QED
    BY <1>t, <1>12, <2>1 DEF Adopt, Return
<1>13. CASE Stop
  <2>1. OpenRows' = OpenRows
    BY <1>13 DEF Stop, OpenRows
  <2>2. CASE sampled /\ current # 0
    <3>1. /\ phase' = "stopping" /\ current' = current
          /\ pc' = [pc EXCEPT !["stop"] = "complete"]
          /\ loc' = [loc EXCEPT !["stop"].session = current]
      BY <1>13, <2>2 DEF Stop, BeginEnd
    <3> QED
      BY <1>t, <2>1, <3>1
  <2>3. CASE ~(sampled /\ current # 0)
    BY <1>t, <1>13, <2>1, <2>3 DEF Stop, Return
  <2> QED
    BY <2>2, <2>3
<1> QED
  BY <1>1, <1>2, <1>3, <1>4, <1>5, <1>6, <1>7, <1>8, <1>9, <1>10, <1>11, <1>12, <1>13, <1>t
     DEF Next, Cycle, End

LEMMA OneRowInvariant == Spec => [](Typed /\ OneRowInv)
  BY TypedInit, TypedStep, OneRowInit, OneRowStep, PTL DEF Spec

(* One session is under way at most, whatever stop() and the last cycle do  *)
(* to each other and however many calls raise.                              *)
THEOREM OneOpenRowAlways == Spec => []OneOpenRow
<1>1. OneRowInv => OneOpenRow
  <2> SUFFICES ASSUME OneRowInv PROVE OneOpenRow
    OBVIOUS
  <2>1. PICK s \in Nat : OpenRows \subseteq {s}
    BY DEF OneRowInv
  <2>2. IsFiniteSet({s}) /\ Cardinality({s}) = 1
    BY FS_Singleton
  <2>3. IsFiniteSet(OpenRows) /\ Cardinality(OpenRows) <= Cardinality({s})
    BY <2>1, <2>2, FS_Subset
  <2> QED
    BY <2>2, <2>3 DEF OneOpenRow
<1> QED
  BY <1>1, OneRowInvariant, PTL

(* While the backend serves, no row is open that nothing will end. *)
THEOREM NoSessionLostAlways == Spec => []NoSessionLost
<1>1. Typed /\ OneRowInv => NoSessionLost
  BY DEF Typed, TypeOK, OneRowInv, NoSessionLost, At, Points, Coroutines
<1> QED
  BY <1>1, OneRowInvariant, PTL
-------------------------------------------------------------------------------
(* The sessions that the backend goes by are of its own run; what it ends   *)
(* is no row that an earlier run has left.                                  *)
OwnRows ==
  /\ current # 0 => current > base
  /\ \A c \in Coroutines : loc[c].session # 0 => loc[c].session > base
  /\ \A c \in Coroutines : pc[c] = "idle" => loc[c].session = 0

LEMMA OwnRowsStep == Typed /\ OwnRows /\ [Next]_vars => OwnRows'
<1> SUFFICES ASSUME Typed, OwnRows, [Next]_vars PROVE OwnRows'
  OBVIOUS
<1>t. /\ pc \in [Coroutines -> Points]
      /\ loc \in [Coroutines -> [game : Games \cup {NoGame}, session : 0..Len(rows)]]
      /\ base \in Nat /\ Len(rows) \in Nat /\ base <= Len(rows)
      /\ "cycle" \in Coroutines /\ "stop" \in Coroutines
      /\ NoLocals.session = 0
      /\ phase = "down" => current = 0 /\ \A c \in Coroutines : pc[c] = "idle"
  BY LenProperties DEF Typed, TypeOK, Coroutines, NoLocals
<1> USE DEF OwnRows
<1>1. ASSUME NEW g \in Games \cup {NoGame}, Play(g) PROVE OwnRows'
  BY <1>1 DEF Play
<1>2. CASE Launch
  BY <1>t, <1>2 DEF Launch
<1>3. CASE Exit
  BY <1>t, <1>3 DEF Exit
<1>4. CASE CycleBegin
  BY <1>t, <1>4 DEF CycleBegin, At
<1>5. CASE Update
  BY <1>t, <1>5 DEF Update, BeginEnd, Return, At
<1>6. ASSUME NEW c \in Coroutines, Complete(c) \/ AuditEnd(c) PROVE OwnRows'
  BY <1>t, <1>6 DEF Complete, AuditEnd, At
<1>7. ASSUME NEW c \in Coroutines, AuditRaises(c) \/ DatabaseRaises(c) PROVE OwnRows'
  BY <1>t, <1>7 DEF AuditRaises, DatabaseRaises, Raise
<1>8. ASSUME NEW c \in Coroutines, Clear(c) PROVE OwnRows'
  BY <1>t, <1>8 DEF Clear, Return
<1>9. CASE Insert
  BY <1>t, <1>9 DEF Insert, At
<1>10. CASE Adopt
  BY <1>t, <1>10 DEF Adopt, Return
<1>11. CASE Stop
  BY <1>t, <1>11 DEF Stop, BeginEnd, Return
<1>12. CASE Cancel \/ UNCHANGED vars
  BY <1>t, <1>12 DEF Cancel, vars
<1> QED
  BY <1>1, <1>2, <1>3, <1>4, <1>5, <1>6, <1>7, <1>8, <1>9, <1>10, <1>11, <1>12
     DEF Next, Cycle, End, Coroutines

(* current_session is the last row; and whoever is about to end a row finds *)
(* no later row that has ended, for stop() and the cycle then end the same. *)
LastInv ==
  /\ current # 0 => current = Len(rows)
  /\ pc["cycle"] \in {"insert", "adopt"} => current = 0
  /\ pc["cycle"] = "adopt" => loc["cycle"].session = Len(rows)
  /\ (\A c \in Coroutines : pc[c] = "complete") =>
       loc["cycle"].session = loc["stop"].session
  /\ \A c \in Coroutines : pc[c] = "complete" =>
       \A r \in loc[c].session + 1 .. Len(rows) : rows[r].ends = 0

LEMMA LastStep == Typed /\ OneRowInv /\ LastInv /\ [Next]_vars => LastInv'
<1> SUFFICES ASSUME Typed, OneRowInv, LastInv, [Next]_vars PROVE LastInv'
  OBVIOUS
<1>t. /\ pc \in [Coroutines -> Points]
      /\ loc \in [Coroutines -> [game : Games \cup {NoGame}, session : 0..Len(rows)]]
      /\ current \in 0..Len(rows) /\ Len(rows) \in Nat
      /\ "cycle" \in Coroutines /\ "stop" \in Coroutines
      /\ \A c \in Coroutines : c = "cycle" \/ c = "stop"
  BY LenProperties DEF Typed, TypeOK, Coroutines
<1>s. /\ pc["stop"] # "idle" => phase = "stopping"
      /\ phase = "down" => pc["cycle"] = "idle" /\ current = 0
      /\ phase = "running" /\ pc["cycle"] \in {"complete", "ended", "audit"} =>
           current = loc["cycle"].session
      /\ pc["stop"] # "idle" /\ pc["cycle"] = "begun" => current = loc["stop"].session
  BY DEF Typed, OneRowInv
<1> USE DEF LastInv, At
<1>1. CASE UNCHANGED vars \/ Cancel \/ Launch \/ \E g \in Games \cup {NoGame} : Play(g)
  BY <1>t, <1>1 DEF vars, Cancel, Launch, Play
<1>2. CASE Exit
  BY <1>t, <1>2 DEF Exit
<1>3. CASE CycleBegin
  BY <1>t, <1>3 DEF CycleBegin
<1>4. CASE Update
  <2>1. rows' = rows /\ current' = current /\ pc["cycle"] = "begun"
    BY <1>4 DEF Update
  <2>2. CASE current = 0 /\ loc["cycle"].game # NoGame
    BY <1>t, <1>4, <2>1, <2>2 DEF Update
  <2>3. CASE current # 0 /\ loc["cycle"].game # rows[current].game
    <3>1. /\ pc' = [pc EXCEPT !["cycle"] = "complete"]
          /\ loc' = [loc EXCEPT !["cycle"].session = current]
      BY <1>4, <2>3 DEF Update, BeginEnd
    <3> QED
      BY <1>t, <1>s, <2>1, <2>3, <3>1
  <2>4. CASE /\ ~(current = 0 /\ loc["cycle"].game # NoGame)
             /\ ~(current # 0 /\ loc["cycle"].game # rows[current].game)
    BY <1>t, <1>4, <2>1, <2>4 DEF Update, Return
  <2> QED
    BY <2>2, <2>3, <2>4
<1>5. ASSUME NEW c \in Coroutines, Complete(c) PROVE LastInv'
  <2>1. /\ Len(rows') = Len(rows) /\ pc[c] = "complete"
        /\ pc' = [pc EXCEPT ![c] = "ended"] /\ loc' = loc /\ current' = current
        /\ \A r \in 1..Len(rows) : r # loc[c].session => rows'[r].ends = rows[r].ends
    BY <1>5, CompleteShape DEF Complete
  <2>2. ASSUME NEW d \in Coroutines, pc'[d] = "complete",
               NEW r \in loc[d].session + 1 .. Len(rows)
        PROVE  rows'[r].ends = 0
    <3>1. pc[d] = "complete" /\ loc[d].session = loc[c].session
      BY <1>t, <2>1, <2>2
    <3>2. r \in 1..Len(rows) /\ r # loc[c].session
      BY <1>t, <3>1
    <3> QED
      BY <2>1, <3>1, <3>2
  <2> QED
    BY <1>t, <2>1, <2>2
<1>6. ASSUME NEW c \in Coroutines, AuditEnd(c) PROVE LastInv'
  BY <1>t, <1>6 DEF AuditEnd
<1>7. ASSUME NEW c \in Coroutines, AuditRaises(c) \/ DatabaseRaises(c) PROVE LastInv'
  BY <1>t, <1>7 DEF AuditRaises, DatabaseRaises, Raise
<1>8. ASSUME NEW c \in Coroutines, Clear(c) PROVE LastInv'
  BY <1>t, <1>8 DEF Clear, Return
<1>9. CASE Insert
  <2>1. /\ Len(rows') = Len(rows) + 1 /\ rows'[Len(rows) + 1].ends = 0
        /\ \A r \in 1..Len(rows) : rows'[r] = rows[r]
    BY <1>9, InsertShape
  <2>2. /\ current' = current /\ current = 0
        /\ pc' = [pc EXCEPT !["cycle"] = "adopt"]
        /\ loc' = [loc EXCEPT !["cycle"].session = Len(rows) + 1]
    BY <1>9 DEF Insert
  <2>3. ASSUME NEW c \in Coroutines, pc'[c] = "complete",
               NEW r \in loc'[c].session + 1 .. Len(rows) + 1
        PROVE  rows'[r].ends = 0
    <3>1. pc[c] = "complete" /\ loc'[c].session = loc[c].session
      BY <1>t, <2>2, <2>3
    <3>2. r = Len(rows) + 1 \/ r \in loc[c].session + 1 .. Len(rows)
      BY <1>t, <3>1
    <3>3. r \in loc[c].session + 1 .. Len(rows) => r \in 1..Len(rows)
      BY <1>t
    <3> QED
      BY <2>1, <3>1, <3>2, <3>3
  <2> QED
    BY <1>t, <2>1, <2>2, <2>3
<1>10. CASE Adopt
  BY <1>t, <1>10 DEF Adopt, Return
<1>11. CASE Stop
  <2>1. rows' = rows /\ current' = current /\ phase = "running"
    BY <1>11 DEF Stop
  <2>2. CASE sampled /\ current # 0
    <3>1. /\ pc' = [pc EXCEPT !["stop"] = "complete"]
          /\ loc' = [loc EXCEPT !["stop"].session = current]
      BY <1>11, <2>2 DEF Stop, BeginEnd
    <3> QED
      BY <1>t, <1>s, <2>1, <2>2, <3>1
  <2>3. CASE ~(sampled /\ current # 0)
    BY <1>t, <1>11, <2>1, <2>3 DEF Stop, Return
  <2> QED
    BY <2>2, <2>3
<1> QED
  BY <1>1, <1>2, <1>3, <1>4, <1>5, <1>6, <1>7, <1>8, <1>9, <1>10, <1>11
     DEF Next, Cycle, End, Coroutines

(* The end of a row, or a later word on it, is an entry of the book. *)
LEMMA CompleteShown ==
  ASSUME Typed, OwnRows, LastInv, NEW c \in Coroutines, Complete(c)
  PROVE  [Book!Next]_<<rows, base>>
<1> DEFINE s == loc[c].session
<1>1. /\ s \in 1..Len(rows) /\ base \in Nat /\ Len(rows) \in Nat
      /\ s # 0 => s > base
  BY CompleteShape, LenProperties DEF Typed, TypeOK, OwnRows
<1>2. s \in Book!ThisRun
  BY <1>1 DEF Book!ThisRun
<1>3. rows' = [rows EXCEPT ![s].ends = @ + 1] /\ base' = base
  BY DEF Complete
<1>4. \A r \in s + 1 .. Len(rows) : rows[r].ends = 0
  BY DEF LastInv, Complete, At
<1> QED
  BY <1>2, <1>3, <1>4 DEF Book!Next, Book!End

LEMMA BookStep ==
  ASSUME Typed, OwnRows, OneRowInv, LastInv, [Next]_vars
  PROVE  [Book!Next]_<<rows, base>>
<1>1. ASSUME NEW c \in Coroutines, Complete(c) PROVE [Book!Next]_<<rows, base>>
  BY <1>1, CompleteShown
<1>2. CASE Insert
  <2>1. Book!UnderWay = {}
    BY <1>2 DEF Insert, At, OneRowInv, OpenRows, Book!UnderWay, Book!ThisRun
  <2>2. loc["cycle"].game \in Games
    BY <1>2 DEF Insert, At, Typed, TypeOK, Coroutines
  <2> QED
    BY <1>2, <2>1, <2>2 DEF Insert, Book!Next, Book!Begin
<1>3. CASE Launch
  BY <1>3 DEF Launch, Book!Next, Book!NewRun
<1>4. ASSUME ~Insert, ~Launch, ~\E c \in Coroutines : Complete(c)
      PROVE  rows' = rows /\ base' = base
  BY <1>4 DEF Next, Cycle, End, Play, Exit, CycleBegin, Update, AuditEnd, AuditRaises,
              Clear, Adopt, Stop, Cancel, DatabaseRaises, vars, Coroutines
<1> QED
  BY <1>1, <1>2, <1>3, <1>4

(* The sessions implement the book: a row begins when no other is open, one *)
(* row is written at a time and none that an earlier run has left, and the  *)
(* end of a row is written over only while no later row has ended.          *)
THEOREM ImplementsBookAlways == Spec => ImplementsBook
<1>1. Init => Book!Init
  BY DEF Init, Book!Init
<1>2. Init => OwnRows
  BY DEF Init, OwnRows, NoLocals
<1>3. Init => LastInv
  BY DEF Init, LastInv, Coroutines
<1> QED
  BY <1>1, <1>2, <1>3, OwnRowsStep, LastStep, BookStep, OneRowInvariant, PTL
     DEF Spec, ImplementsBook, Book!Spec, Book!book
-------------------------------------------------------------------------------
LEMMA WatchIsSessions == WatchSpec => Spec
<1>1. WatchInit => Init
  BY DEF WatchInit
<1>2. [WatchNext]_watchedVars => [Next]_vars
  BY DEF WatchNext, WatchdogRound, MonitorPolls, AnnouncementEnds, SessionStep, watchedVars
<1> QED
  BY <1>1, <1>2, PTL DEF WatchSpec, Spec

(* The watchdog and its monitor go by sessions and do nothing to them. *)
THEOREM OneOpenRowWatched == WatchSpec => []OneOpenRow
  BY WatchIsSessions, OneOpenRowAlways, PTL

THEOREM NoSessionLostWatched == WatchSpec => []NoSessionLost
  BY WatchIsSessions, NoSessionLostAlways, PTL

(* Nor does it write anything in their book. *)
THEOREM ImplementsBookWatched == WatchSpec => ImplementsBook
  BY WatchIsSessions, ImplementsBookAlways, PTL

(* Every reachable state of the sessions with their watchdog is well typed: *)
(* only games are watched.                                                  *)
THEOREM WatchTypeCorrect == WatchSpec => []WatchTypeOK
<1> DEFINE Watched == /\ watched \in Games \cup {NoGame}
                      /\ monitor \in {"none", "polling", "announcing", "done"}
<1>1. WatchInit => Watched
  BY DEF WatchInit
<1>2. TypeOK /\ Watched /\ [WatchNext]_watchedVars => Watched'
  <2> SUFFICES ASSUME TypeOK, Watched, [WatchNext]_watchedVars PROVE Watched'
    OBVIOUS
  <2>1. SessionProcess \in Games \cup {NoGame}
    <3>1. current # 0 => current \in 1..Len(rows)
      BY LenProperties DEF TypeOK
    <3>2. current # 0 => rows[current] \in Row
      BY <3>1, ElementOfSeq DEF TypeOK, Row
    <3> QED
      BY <3>2 DEF SessionProcess, Row
  <2>2. CASE WatchdogRound
    BY <2>1, <2>2 DEF WatchdogRound, Forgotten
  <2>3. CASE SessionStep
    BY <2>3 DEF SessionStep, watchVars
  <2>4. CASE MonitorPolls \/ AnnouncementEnds \/ UNCHANGED watchedVars
    BY <2>4 DEF MonitorPolls, AnnouncementEnds, watchedVars, watchVars
  <2> QED
    BY <2>2, <2>3, <2>4 DEF WatchNext
<1>3. TypeOK /\ Watched => WatchTypeOK
  BY DEF WatchTypeOK
<1> QED
  BY <1>1, <1>2, <1>3, WatchIsSessions, SessionsTypeCorrect, PTL DEF WatchSpec
===============================================================================
