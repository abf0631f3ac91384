--------------------------- MODULE Supervisor_proofs ---------------------------
(***************************************************************************)
(* Theorems about Supervisor, for every setting of the unit file: what is  *)
(* restarted and how often, and what the log keeps over kills and restarts. *)
(***************************************************************************)
EXTENDS Supervisor, FiniteSetTheorems, WellFoundedInduction, NaturalsInduction, TLAPS

USE DEF unitVars, daemonVars, diskVars, vars

-----------------------------------------------------------------------------
(* Sequences of anything.                                                   *)

LEMMA Elements ==
  ASSUME NEW S, NEW s \in Seq(S)
  PROVE  /\ Len(s) \in Nat /\ DOMAIN s = 1..Len(s)
         /\ \A k \in 1..Len(s) : s[k] \in S
OBVIOUS

LEMMA Appending ==
  ASSUME NEW S, NEW s \in Seq(S), NEW e \in S
  PROVE  /\ Append(s, e) \in Seq(S) /\ Append(s, e) # <<>>
         /\ Len(Append(s, e)) = Len(s) + 1
         /\ DOMAIN Append(s, e) = 1..Len(s) + 1
         /\ Append(s, e)[Len(s) + 1] = e
         /\ \A k \in 1..Len(s) : Append(s, e)[k] = s[k]
OBVIOUS

LEMMA Replacing ==
  ASSUME NEW S, NEW s \in Seq(S), NEW n \in 1..Len(s), NEW e \in S
  PROVE  /\ [s EXCEPT ![n] = e] \in Seq(S)
         /\ Len([s EXCEPT ![n] = e]) = Len(s)
         /\ \A i \in 1..Len(s) : [s EXCEPT ![n] = e][i] = IF i = n THEN e ELSE s[i]
OBVIOUS

-----------------------------------------------------------------------------
(* Types.                                                                   *)

LEMMA UnitTypes ==
  /\ RestartSec \in Nat /\ StartLimitInterval \in Nat
  /\ StartLimitBurst \in Nat /\ StartLimitBurst > 0
BY UnitAssumption

\* A start, allowed or not, leaves a daemon exactly when the unit is active.
LEMMA StartTypes ==
  ASSUME TypeOK, unit \in {"inactive", "failed", "auto_restart"}, Start, wanted' \in BOOLEAN
  PROVE  TypeOK'
<1> USE UnitTypes DEF TypeOK, Start, Results
<1>1. CASE StartAllowed
  <2>1. window' \in [age : 0..StartLimitInterval + 1, count : 0..StartLimitBurst]
    <3>1. CASE WindowOver
      BY <1>1, <3>1
    <3>2. CASE ~WindowOver
      <4>1. window.count < StartLimitBurst
        BY <1>1, <3>2 DEF StartAllowed
      <4>2. window.count + 1 \in 0..StartLimitBurst
        BY <4>1
      <4> QED
        BY <1>1, <3>2, <4>2
    <3> QED
      BY <3>1, <3>2
  <2>2. starts' \in [Ages -> Nat]
    <3>1. 0 \in Ages
      BY DEF Ages
    <3> QED
      BY <1>1, <3>1
  <2>3. signalled' \in BOOLEAN /\ config_valid' \in BOOLEAN
    BY <1>1
  <2> QED
    BY <1>1, <2>1, <2>2, <2>3
<1>2. CASE ~StartAllowed
  BY <1>2
<1> QED
  BY <1>1, <1>2

\* So does the end of a daemon.
LEMMA EndTypes ==
  ASSUME TypeOK, NEW how \in Results, DaemonEnds(how), daemon_pc # "none",
         event_log' \in Seq(Pieces),
         fates' \in Seq({"writing", "logged", "reported", "lost"})
  PROVE  TypeOK'
<1> USE UnitTypes DEF TypeOK, DaemonEnds
<1>1. CASE unit = "active" /\ RestartsAfter(how)
  BY <1>1
<1>2. CASE ~(unit = "active" /\ RestartsAfter(how))
  BY <1>2
<1> QED
  BY <1>1, <1>2

\* What an append leaves: the file as it was, or one piece more of this event.
LEMMA Appended ==
  ASSUME NEW file, NEW event, NEW outcome \in AppendMotion(file, event)
  PROVE  /\ \/ outcome.file = file
            \/ \E whole \in BOOLEAN : outcome.file = Append(file, Piece(event, whole))
         /\ outcome.status = "ok" => outcome.file = Append(file, Piece(event, TRUE))
<1> DEFINE whole == Append(file, Piece(event, TRUE))
           torn == Append(file, Piece(event, FALSE))
<1>1. \/ outcome = [status |-> "ok", file |-> whole]
      \/ outcome = [status |-> "open_error", file |-> file]
      \/ outcome = [status |-> "write_error", file |-> file]
      \/ outcome = [status |-> "write_error", file |-> torn]
      \/ outcome = [status |-> "close_error", file |-> whole]
  BY DEF AppendMotion
<1>2. /\ \E any \in BOOLEAN : whole = Append(file, Piece(event, any))
      /\ \E any \in BOOLEAN : torn = Append(file, Piece(event, any))
  OBVIOUS
<1> HIDE DEF whole, torn
<1>3. /\ outcome.file \in {file, whole, torn}
      /\ outcome.status = "ok" => outcome.file = whole
  BY <1>1
<1> QED
  BY <1>2, <1>3 DEF whole

LEMMA AppendTypes ==
  ASSUME NEW file \in Seq(Pieces), NEW event \in Nat, NEW outcome \in AppendMotion(file, event)
  PROVE  outcome.file \in Seq(Pieces)
<1>1. \A whole \in BOOLEAN : Piece(event, whole) \in Pieces
  BY DEF Piece, Pieces
<1>2. \A whole \in BOOLEAN : Append(file, Piece(event, whole)) \in Seq(Pieces)
  BY <1>1, Appending
<1> QED
  BY <1>2, Appended

LEMMA DecidedTypes ==
  ASSUME TypeOK, NEW fate \in {"writing", "logged", "reported", "lost"}
  PROVE  Decided(fate) \in Seq({"writing", "logged", "reported", "lost"})
<1> DEFINE Any == {"writing", "logged", "reported", "lost"}
<1>1. fates \in Seq(Any) /\ fate \in Any
  BY DEF TypeOK
<1> HIDE DEF Any
<1>2. Len(fates) \in Nat /\ DOMAIN fates = 1..Len(fates)
  BY <1>1, Elements
<1>3. CASE Len(fates) \in 1..Len(fates)
  BY <1>1, <1>3, Replacing DEF Decided, Any
<1>4. CASE Len(fates) = 0
  <2>1. fates = <<>> /\ Decided(fate) = fates
    BY <1>1, <1>4 DEF Decided
  <2> QED
    BY <1>1, <2>1 DEF Any
<1> QED
  BY <1>2, <1>3, <1>4

LEMMA StepTypes ==
  ASSUME TypeOK, [Next]_vars
  PROVE  TypeOK'
<1>1. CASE UserStarts
  BY <1>1, StartTypes DEF UserStarts
<1>2. CASE AutoRestart
  <2>1. wanted' \in BOOLEAN
    BY <1>2 DEF AutoRestart, TypeOK
  <2> QED
    BY <1>2, <2>1, StartTypes DEF AutoRestart
<1>3. CASE UserStops
  <2>1. CASE unit = "active"
    BY <1>3, <2>1 DEF UserStops, TypeOK
  <2>2. CASE unit = "auto_restart"
    BY <1>3, <2>2 DEF UserStops, TypeOK
  <2> QED
    BY <1>3, <2>1, <2>2 DEF UserStops
<1>4. CASE ResetFailed
  <2>1. NoWindow \in [age : 0..StartLimitInterval + 1, count : 0..StartLimitBurst]
        /\ NoStarts \in [Ages -> Nat]
    BY UnitTypes DEF NoWindow, NoStarts
  <2> QED
    BY <1>4, <2>1 DEF ResetFailed, TypeOK
<1>5. CASE StartUp
  <2>1. /\ event_log' \in Seq(Pieces)
        /\ fates' \in Seq({"writing", "logged", "reported", "lost"})
        /\ daemon_pc = "loading"
    BY <1>5 DEF StartUp, TypeOK
  <2>2. ASSUME NEW how \in {"config", "ok", "fatal"}, DaemonEnds(how) PROVE TypeOK'
    BY <2>1, <2>2, EndTypes DEF Results
  <2>3. ASSUME daemon_pc' = "serving", UNCHANGED <<unitVars, signalled, config_valid, wanted>>
        PROVE  TypeOK'
    BY <2>1, <2>3 DEF TypeOK
  <2> QED
    BY <1>5, <2>2, <2>3 DEF StartUp
<1>6. CASE Terminate
  BY <1>6 DEF Terminate, TypeOK
<1>7. CASE ServerReturns
  <2>1. /\ event_log' \in Seq(Pieces)
        /\ fates' \in Seq({"writing", "logged", "reported", "lost"})
        /\ daemon_pc = "serving"
    BY <1>7 DEF ServerReturns, TypeOK
  <2>2. \E how \in Results : DaemonEnds(how)
    BY <1>7 DEF ServerReturns, Results
  <2> QED
    BY <2>1, <2>2, EndTypes
<1>8. CASE EventCounted
  BY <1>8 DEF EventCounted, TypeOK
<1>9. CASE EventAppended
  <2>1. PICK outcome \in AppendMotion(event_log, Len(fates)) :
          /\ event_log' = outcome.file
          /\ fates' = Decided(IF outcome.status = "ok" THEN "logged" ELSE "reported")
    BY <1>9 DEF EventAppended
  <2>2. event_log' \in Seq(Pieces)
    BY <2>1, AppendTypes DEF TypeOK
  <2>3. fates' \in Seq({"writing", "logged", "reported", "lost"})
    BY <2>1, DecidedTypes
  <2> QED
    BY <1>9, <2>2, <2>3 DEF EventAppended, TypeOK
<1>10. CASE Killed
  <2>1. event_log' \in Seq(Pieces)
    BY <1>10, AppendTypes DEF Killed, TypeOK
  <2>2. fates' \in Seq({"writing", "logged", "reported", "lost"})
    BY <1>10, DecidedTypes DEF Killed, TypeOK
  <2> QED
    BY <1>10, <2>1, <2>2, EndTypes DEF Killed, Results
<1>11. CASE EditConfig
  BY <1>11 DEF EditConfig, TypeOK
<1>12. CASE Tick
  <2>1. window' \in [age : 0..StartLimitInterval + 1, count : 0..StartLimitBurst]
    <3>1. Older(window.age) \in 0..StartLimitInterval + 1
      BY UnitTypes DEF Older, TypeOK
    <3> QED
      BY <1>12, <3>1 DEF Tick, TypeOK
  <2>2. starts' \in [Ages -> Nat]
    <3>1. \A age \in Ages : age # 0 => age - 1 \in Ages
      BY UnitTypes DEF Ages
    <3>2. \A age \in Ages : (IF age = 0 THEN 0 ELSE starts[age - 1]) \in Nat
      BY <3>1 DEF TypeOK
    <3> QED
      BY <1>12, <3>2 DEF Tick
  <2>3. restart_in' \in 0..RestartSec
    BY <1>12, UnitTypes DEF Tick, TypeOK
  <2> QED
    BY <1>12, <2>1, <2>2, <2>3 DEF Tick, TypeOK
<1>13. CASE UNCHANGED vars
  BY <1>13 DEF TypeOK
<1> QED
  BY <1>1, <1>2, <1>3, <1>4, <1>5, <1>6, <1>7, <1>8, <1>9, <1>10, <1>11, <1>12, <1>13 DEF Next

LEMMA InitBooleans == Init => signalled \in BOOLEAN /\ wanted \in BOOLEAN
BY DEF Init

\* The window never holds more starts than the burst, and there is a daemon exactly
\* while the unit is active or stopping.
THEOREM TypeCorrect == Spec => []TypeOK
<1>1. Init => TypeOK
  <2> SUFFICES ASSUME Init PROVE TypeOK
    OBVIOUS
  <2>1. NoStarts \in [Ages -> Nat] /\ event_log \in Seq(Pieces)
        /\ NoWindow \in [age : 0..StartLimitInterval + 1, count : 0..StartLimitBurst]
    BY UnitTypes DEF Init, NoStarts, NoWindow
  <2> QED
    BY <2>1, UnitTypes, InitBooleans DEF Init, TypeOK, Results
<1> QED
  BY <1>1, StepTypes, PTL DEF Spec

-----------------------------------------------------------------------------
(* Restarts.                                                                *)

LEMMA EndStaysDown ==
  ASSUME TypeOK, StaysDown, NEW how, DaemonEnds(how), daemon_pc # "none"
  PROVE  StaysDown'
BY DEF TypeOK, StaysDown, DaemonEnds, RestartsAfter

LEMMA StaysDownStep ==
  ASSUME TypeOK, StaysDown, [Next]_vars
  PROVE  StaysDown'
<1>1. CASE UserStarts \/ AutoRestart
  BY <1>1 DEF UserStarts, AutoRestart, Start, StaysDown
<1>2. CASE UserStops
  BY <1>2 DEF UserStops, StaysDown
<1>3. CASE ResetFailed
  BY <1>3 DEF ResetFailed, StaysDown
<1>4. CASE StartUp
  <2>1. daemon_pc # "none"
    BY <1>4 DEF StartUp
  <2>2. CASE \E how \in Results : DaemonEnds(how)
    BY <2>1, <2>2, EndStaysDown
  <2>3. CASE UNCHANGED unitVars /\ UNCHANGED wanted
    BY <2>3 DEF StaysDown
  <2> QED
    BY <1>4, <2>2, <2>3 DEF StartUp, Results
<1>5. CASE ServerReturns
  BY <1>5, EndStaysDown DEF ServerReturns
<1>6. CASE Killed
  BY <1>6, EndStaysDown DEF Killed
<1>7. CASE Terminate \/ EventCounted \/ EventAppended \/ EditConfig \/ Tick \/ UNCHANGED vars
  BY <1>7 DEF Terminate, EventCounted, EventAppended, EditConfig, Tick, StaysDown
<1> QED
  BY <1>1, <1>2, <1>3, <1>4, <1>5, <1>6, <1>7 DEF Next

\* systemd restarts only what crashed or failed, and only what the user wants to run.
THEOREM RestartsAreWanted == Spec => []StaysDown
<1>1. Init => StaysDown
  BY DEF Init, StaysDown
<1> QED
  BY <1>1, StaysDownStep, TypeCorrect, PTL DEF Spec

-----------------------------------------------------------------------------
(* The log.                                                                 *)

Fates == {"writing", "logged", "reported", "lost"}

Interrupted == {"lost", "reported"}

\* What LogDamageBounded says of one logged event.
InTheLog(i) ==
  \E k \in DOMAIN event_log :
    /\ event_log[k] = Piece(i, TRUE)
    /\ ~IsLine(event_log, k) => fates[event_log[k - 1].event] \in Interrupted

LEMMA PieceEvent ==
  ASSUME NEW piece \in Pieces
  PROVE  piece.event \in Nat
BY DEF Pieces

\* The pieces in the file are of events already counted, and while a line is being
\* written of earlier events; the event being written is the last one counted.  A
\* piece that broke off is of an event that was interrupted.
LogInv ==
  /\ \A k \in 1..Len(event_log) :
       /\ event_log[k].event \in 1..Len(fates)
       /\ daemon_pc = "writing" => event_log[k].event < Len(fates)
       /\ ~event_log[k].whole => fates[event_log[k].event] \in Interrupted
  /\ daemon_pc = "writing" => fates # <<>>
  /\ LogDamageBounded

\* The end of a line, in whatever way, keeps what the file held.
LEMMA LineEnds ==
  ASSUME TypeOK, LogInv, daemon_pc = "writing", daemon_pc' # "writing",
         NEW outcome \in AppendMotion(event_log, Len(fates)),
         event_log' = outcome.file,
         NEW fate \in Interrupted \cup {"logged"}, fates' = Decided(fate),
         fate = "logged" => outcome.status = "ok"
  PROVE  LogInv'
<1> DEFINE n == Len(fates)
           m == Len(event_log)
<1>1. event_log \in Seq(Pieces) /\ fates \in Seq(Fates) /\ fate \in Fates
  BY DEF TypeOK, Fates, Interrupted
<1>2. /\ m \in Nat /\ DOMAIN event_log = 1..m
      /\ \A k \in 1..m : event_log[k] \in Pieces
  BY <1>1, Elements
<1>3. n \in Nat /\ n > 0 /\ n \in 1..n
  BY <1>1 DEF LogInv
<1>4. /\ Len(fates') = n /\ DOMAIN fates' = 1..n /\ DOMAIN fates = 1..n
      /\ \A i \in 1..n : fates'[i] = IF i = n THEN fate ELSE fates[i]
  BY <1>1, <1>3, Replacing, Elements DEF Decided
<1>5. \A k \in 1..m : event_log[k].event \in 1..n /\ event_log[k].event < n
  BY DEF LogInv
<1>6. \A k \in 1..m : ~event_log[k].whole => fates[event_log[k].event] \in Interrupted
  BY DEF LogInv
<1>7. \A i \in 1..n : fates[i] = "logged" => InTheLog(i)
  BY <1>4 DEF LogInv, LogDamageBounded, InTheLog, Interrupted
<1>8. \A k \in 1..m - 1 : event_log[k].event < event_log[k + 1].event
  BY DEF LogInv, LogDamageBounded
<1> HIDE DEF n, m
\* What the file held it holds, and the fates of its events are what they were.
<1>9. ASSUME NEW l \in {m, m + 1}, Len(event_log') = l, DOMAIN event_log' = 1..l,
             \A k \in 1..m : event_log'[k] = event_log[k],
             l = m + 1 => /\ event_log'[m + 1] \in Pieces
                          /\ event_log'[m + 1].event = n
                          /\ ~event_log'[m + 1].whole => fate \in Interrupted,
             fate = "logged" => l = m + 1 /\ event_log'[m + 1] = Piece(n, TRUE)
      PROVE  LogInv'
  <2>1. l \in Nat /\ l - 1 \in Int /\ \A k \in 1..l : k \in 1..m \/ (k = m + 1 /\ l = m + 1)
    BY <1>2
  <2>2. \A k \in 1..m : k \in 1..l
    BY <1>2
  <2>3. \A k \in 1..m : fates'[event_log[k].event] = fates[event_log[k].event]
    BY <1>4, <1>5
  <2>4. \A k \in 1..m : ~event_log'[k].whole => fates'[event_log'[k].event] \in Interrupted
    BY <1>6, <1>9, <2>3
  <2>5. \A k \in 1..l :
          /\ event_log'[k].event \in 1..n
          /\ ~event_log'[k].whole => fates'[event_log'[k].event] \in Interrupted
    <3>1. ASSUME NEW k \in 1..l
          PROVE  /\ event_log'[k].event \in 1..n
                 /\ ~event_log'[k].whole => fates'[event_log'[k].event] \in Interrupted
      <4>1. CASE k \in 1..m
        BY <1>5, <1>9, <2>4, <4>1
      <4>2. CASE k = m + 1 /\ l = m + 1
        BY <1>3, <1>4, <1>9, <4>2
      <4> QED
        BY <2>1, <4>1, <4>2
    <3> QED
      BY <3>1
  <2>6. ASSUME NEW i \in 1..n, fates'[i] = "logged"
        PROVE  InTheLog(i)'
    <3>1. CASE i = n
      <4>1. PICK k \in 1..l : k = m + 1
        <5>1. fate = "logged"
          BY <1>4, <2>6, <3>1
        <5>2. l = m + 1 /\ m + 1 \in 1..m + 1
          BY <1>2, <1>9, <5>1
        <5> QED
          BY <5>2
      <4>2. event_log'[k] = Piece(i, TRUE) /\ event_log'[k].whole
        BY <1>4, <1>9, <2>6, <3>1, <4>1 DEF Piece
      <4>3. IsLine(event_log, k)' \/ (~event_log'[k - 1].whole /\ k - 1 \in 1..m)
        BY <1>2, <4>1, <4>2 DEF IsLine
      <4>4. ~IsLine(event_log, k)' => fates'[event_log'[k - 1].event] \in Interrupted
        BY <2>4, <4>3
      <4> QED
        BY <1>9, <4>2, <4>4 DEF InTheLog
    <3>2. CASE i # n
      <4>1. InTheLog(i)
        BY <1>4, <1>7, <2>6, <3>2
      <4>2. PICK k \in 1..m :
              /\ event_log[k] = Piece(i, TRUE)
              /\ ~IsLine(event_log, k) => fates[event_log[k - 1].event] \in Interrupted
        BY <1>2, <4>1 DEF InTheLog
      <4>3. event_log'[k] = Piece(i, TRUE) /\ event_log[k].whole /\ event_log'[k].whole
        BY <1>9, <4>2 DEF Piece
      <4>4. IsLine(event_log, k)' \/ (~event_log'[k - 1].whole /\ k - 1 \in 1..m)
        BY <1>2, <4>3 DEF IsLine
      <4>5. ~IsLine(event_log, k)' => fates'[event_log'[k - 1].event] \in Interrupted
        BY <2>4, <4>4
      <4> QED
        BY <1>9, <2>2, <4>3, <4>5 DEF InTheLog
    <3> QED
      BY <3>1, <3>2
  <2>7. ASSUME NEW k \in 1..l - 1 PROVE event_log'[k].event < event_log'[k + 1].event
    <3>1. CASE k = m
      <4>1. l = m + 1 /\ m \in 1..m
        BY <1>2, <2>7, <3>1
      <4> QED
        BY <1>5, <1>9, <3>1, <4>1
    <3>2. CASE k # m
      <4>1. k \in 1..m - 1 /\ k \in 1..m /\ k + 1 \in 1..m
        BY <1>2, <2>7, <3>2
      <4> QED
        BY <1>8, <1>9, <4>1
    <3> QED
      BY <3>1, <3>2
  <2>8. LogDamageBounded'
    <3>1. \A i \in DOMAIN fates' : fates'[i] = "logged" => InTheLog(i)'
      BY <1>4, <2>6
    <3>2. \A k \in 1..Len(event_log') - 1 : event_log'[k].event < event_log'[k + 1].event
      BY <1>9, <2>7
    <3> QED
      BY <3>1, <3>2 DEF LogDamageBounded, InTheLog, Interrupted
  <2> QED
    BY <1>4, <1>9, <2>5, <2>8 DEF LogInv
<1>10. CASE event_log' = event_log /\ fate # "logged"
  <2>1. Len(event_log') = m /\ DOMAIN event_log' = 1..m /\ m # m + 1
    <3>1. Len(event_log') = m
      BY <1>10 DEF m
    <3> QED
      BY <1>2, <1>10, <3>1
  <2>2. \A k \in 1..m : event_log'[k] = event_log[k]
    BY <1>10
  <2> QED
    BY <1>9, <1>10, <2>1, <2>2, Zenon
<1>11. ASSUME NEW whole \in BOOLEAN, event_log' = Append(event_log, Piece(n, whole)),
              fate = "logged" => Piece(n, whole) = Piece(n, TRUE)
       PROVE  LogInv'
  <2> DEFINE piece == Piece(n, whole)
  <2>1. piece \in Pieces /\ piece.event = n
    BY <1>3 DEF Piece, Pieces
  <2>2. fate = "logged" => piece = Piece(n, TRUE)
    BY <1>11
  <2>3. ~piece.whole => fate \in Interrupted
    <3>1. Piece(n, TRUE).whole
      BY DEF Piece
    <3> HIDE DEF piece
    <3> QED
      BY <2>2, <3>1
  <2>4. event_log' = Append(event_log, piece)
    BY <1>11
  <2> HIDE DEF piece
  <2>5. /\ Len(event_log') = m + 1 /\ DOMAIN event_log' = 1..m + 1
        /\ event_log'[m + 1] = piece
        /\ \A k \in 1..m : event_log'[k] = event_log[k]
    BY <1>1, <2>1, <2>4, Appending DEF m
  <2> QED
    BY <1>9, <2>1, <2>2, <2>3, <2>5
<1>12. \/ event_log' = event_log
       \/ \E whole \in BOOLEAN : event_log' = Append(event_log, Piece(n, whole))
  BY Appended DEF n
<1>13. fate = "logged" => event_log' = Append(event_log, Piece(n, TRUE))
  BY Appended DEF n
<1>14. CASE fate = "logged"
  BY <1>11, <1>13, <1>14
<1>15. CASE fate # "logged"
  BY <1>10, <1>11, <1>12, <1>15
<1> QED
  BY <1>14, <1>15

LEMMA LogStep ==
  ASSUME TypeOK, LogInv, [Next]_vars
  PROVE  LogInv'
<1>1. CASE EventAppended
  <2>1. PICK outcome \in AppendMotion(event_log, Len(fates)) :
          /\ event_log' = outcome.file
          /\ fates' = Decided(IF outcome.status = "ok" THEN "logged" ELSE "reported")
    BY <1>1 DEF EventAppended
  <2> QED
    <3>1. daemon_pc = "writing" /\ daemon_pc' # "writing"
      BY <1>1 DEF EventAppended
    <3>2. CASE outcome.status = "ok"
      <4>1. fates' = Decided("logged") /\ "logged" \in Interrupted \cup {"logged"}
        BY <2>1, <3>2
      <4> QED
        BY <2>1, <3>1, <3>2, <4>1, LineEnds
    <3>3. CASE outcome.status # "ok"
      <4>1. fates' = Decided("reported") /\ "reported" \in Interrupted
        BY <2>1, <3>3 DEF Interrupted
      <4> QED
        BY <2>1, <3>1, <4>1, LineEnds
    <3> QED
      BY <3>2, <3>3
<1>2. CASE Killed /\ daemon_pc = "writing"
  <2>1. PICK outcome \in AppendMotion(event_log, Len(fates)) : event_log' = outcome.file
    BY <1>2 DEF Killed
  <2>2. fates' = Decided("lost") /\ daemon_pc' = "none"
    BY <1>2 DEF Killed, DaemonEnds
  <2> QED
    BY <1>2, <2>1, <2>2, LineEnds DEF Interrupted
<1>3. CASE EventCounted
  <2> DEFINE n == Len(fates)
             m == Len(event_log)
  <2>1. /\ fates' = Append(fates, "writing") /\ event_log' = event_log
        /\ fates \in Seq(Fates) /\ event_log \in Seq(Pieces) /\ "writing" \in Fates
    BY <1>3 DEF EventCounted, TypeOK, Fates
  <2>2. /\ n \in Nat /\ DOMAIN fates = 1..n
        /\ Len(fates') = n + 1 /\ fates' # <<>> /\ DOMAIN fates' = 1..n + 1
        /\ fates'[n + 1] = "writing"
        /\ \A i \in 1..n : fates'[i] = fates[i]
    BY <2>1, Elements, Appending
  <2>3. /\ m \in Nat /\ DOMAIN event_log = 1..m
        /\ \A k \in 1..m : event_log[k] \in Pieces
    BY <2>1, Elements
  <2>4. \A k \in 1..m :
          /\ event_log[k].event \in 1..n
          /\ ~event_log[k].whole => fates[event_log[k].event] \in Interrupted
    BY DEF LogInv
  <2>5. LogDamageBounded
    BY DEF LogInv
  <2> HIDE DEF n, m
  <2>6. \A k \in 1..m :
          /\ event_log[k].event \in 1..n + 1 /\ event_log[k].event < n + 1
          /\ fates'[event_log[k].event] = fates[event_log[k].event]
    BY <2>2, <2>4
  <2>7. ASSUME NEW i \in 1..n + 1, fates'[i] = "logged"
        PROVE  InTheLog(i)'
    <3>1. i \in 1..n /\ fates[i] = "logged"
      BY <2>2, <2>7
    <3>2. PICK k \in 1..m :
            /\ event_log[k] = Piece(i, TRUE)
            /\ ~IsLine(event_log, k) => fates[event_log[k - 1].event] \in Interrupted
      BY <2>2, <2>3, <2>5, <3>1 DEF LogDamageBounded, Interrupted
    <3>3. ~IsLine(event_log, k) => k - 1 \in 1..m
      BY <2>3, <3>2 DEF IsLine, Piece
    <3>4. ~IsLine(event_log, k) => fates'[event_log[k - 1].event] \in Interrupted
      BY <2>6, <3>2, <3>3
    <3> QED
      BY <2>1, <2>3, <3>2, <3>4 DEF InTheLog, IsLine
  <2>8. LogDamageBounded'
    BY <2>1, <2>2, <2>3, <2>5, <2>7 DEF LogDamageBounded, InTheLog, Interrupted
  <2> QED
    BY <2>1, <2>2, <2>4, <2>6, <2>8 DEF LogInv, m
<1>4. CASE ~EventAppended /\ ~EventCounted /\ ~(Killed /\ daemon_pc = "writing")
  <2>1. UNCHANGED <<event_log, fates>>
    BY <1>4 DEF Next, UserStarts, AutoRestart, UserStops, ResetFailed, StartUp, Terminate,
                ServerReturns, Killed, EditConfig, Tick, Start, DaemonEnds
  <2>2. daemon_pc' = "writing" => daemon_pc = "writing"
    BY <1>4 DEF Next, UserStarts, AutoRestart, UserStops, ResetFailed, StartUp, Terminate,
                ServerReturns, Killed, EditConfig, Tick, Start, DaemonEnds
  <2> QED
    BY <2>1, <2>2 DEF LogInv, LogDamageBounded, IsLine
<1> QED
  BY <1>1, <1>2, <1>3, <1>4

\* What was logged stays logged, and only what directly follows a record that a kill
\* or a reported failure broke off is not a line of its own, over any number of
\* kills, failures and restarts.
THEOREM LogDamageIsBounded == Spec => []LogDamageBounded
<1>1. Init => LogInv
  BY DEF Init, LogInv, LogDamageBounded
<1>2. LogInv => LogDamageBounded
  BY DEF LogInv
<1> QED
  BY <1>1, <1>2, LogStep, TypeCorrect, PTL DEF Spec

-----------------------------------------------------------------------------
(* Induction, for sums over the ages of starts.                             *)

Less == {pair \in Nat \X Nat : pair[1] < pair[2]}

LEMMA NaturalsWellFounded == IsWellFoundedOn(Less, Nat)
BY NatLessThanWellFounded DEF OpToRel, Less

\* A set of naturals that has 0, and with a number the next one, has them all.
LEMMA AllNaturals ==
  ASSUME NEW S, 0 \in S, \A n \in Nat : n \in S => n + 1 \in S
  PROVE  \A n \in Nat : n \in S
<1> SUFFICES ASSUME NEW k \in Nat, k \notin S PROVE FALSE
  OBVIOUS
<1> DEFINE Missing == Nat \ S
<1>2. PICK x \in Missing : \A y \in Missing : ~(<<y, x>> \in Less)
  <2>1. Missing \subseteq Nat /\ Missing # {}
    OBVIOUS
  <2> HIDE DEF Missing
  <2> QED
    BY NaturalsWellFounded, <2>1, WFMin, Zenon
<1>3. x \in Nat /\ x # 0
  BY <1>2
<1>4. x - 1 \in Nat /\ x - 1 < x /\ (x - 1) + 1 = x
  BY <1>3
<1>5. <<x - 1, x>> \in Less
  BY <1>3, <1>4 DEF Less
<1>6. x - 1 \in S
  BY <1>2, <1>4, <1>5
<1> QED
  BY <1>2, <1>4, <1>6

\* A family of subsets that has the empty one, and with a set every one with an
\* element more, has them all.
LEMMA AllSubsets ==
  ASSUME NEW D, IsFiniteSet(D), NEW P, {} \in P,
         \A s \in SUBSET D : \A x \in s : s \ {x} \in P => s \in P
  PROVE  \A s \in SUBSET D : s \in P
<1> DEFINE K == {k \in Nat : \A s \in SUBSET D : Cardinality(s) = k => s \in P}
<1>1. \A s \in SUBSET D : IsFiniteSet(s) /\ Cardinality(s) \in Nat
  BY FS_Subset, FS_CardinalityType
<1>2. 0 \in K
  BY <1>1, FS_EmptySet
<1>3. ASSUME NEW k \in Nat, k \in K
      PROVE  k + 1 \in K
  <2> SUFFICES ASSUME NEW s \in SUBSET D, Cardinality(s) = k + 1
               PROVE  s \in P
    OBVIOUS
  <2>1. s # {}
    BY FS_EmptySet
  <2>2. PICK x \in s : TRUE
    BY <2>1
  <2>3. s \ {x} \in SUBSET D /\ Cardinality(s \ {x}) = k
    <3>1. Cardinality(s \ {x}) = Cardinality(s) - 1
      BY ONLY <1>1, <2>2, FS_RemoveElement
    <3> QED
      BY <3>1
  <2>4. s \ {x} \in P
    BY <1>3, <2>3
  <2> QED
    BY <2>4
<1>4. \A k \in Nat : k \in K
  <2> HIDE DEF K
  <2> QED
    BY <1>2, <1>3, AllNaturals
<1> QED
  BY <1>1, <1>4

-----------------------------------------------------------------------------
(* Sums.                                                                    *)

Chosen(s) == CHOOSE x \in s : TRUE

\* What FoldFunction(+, 0, f) is the last value of.
IsSums(g, f, D) ==
  g = [s \in SUBSET D |-> IF s = {} THEN 0 ELSE f[Chosen(s)] + g[s \ {Chosen(s)}]]

Sums(f) == CHOOSE g : IsSums(g, f, DOMAIN f)
SumOver(f, s) == Sums(f)[s]

LEMMA FoldIsSum ==
  ASSUME NEW f
  PROVE  FoldFunction(+, 0, f) = SumOver(f, DOMAIN f)
BY Zenon DEF FoldFunction, FoldFunctionOnSet, MapThenFoldSet, SumOver, Sums, IsSums, Chosen

LEMMA SumsExist ==
  ASSUME NEW D, IsFiniteSet(D), NEW f \in [D -> Nat]
  PROVE  IsSums(Sums(f), f, D)
<1> DEFINE Value(g, s) == IF s = {} THEN 0 ELSE f[Chosen(s)] + g[s \ {Chosen(s)}]
           Small(k) == {s \in SUBSET D : Cardinality(s) <= k}
           K == {k \in Nat : \E g : \A s \in Small(k) : g[s] = Value(g, s)}
<1>1. \A s \in SUBSET D : IsFiniteSet(s) /\ Cardinality(s) \in Nat
  BY FS_Subset, FS_CardinalityType
<1>2. 0 \in K
  <2> DEFINE g == [s \in SUBSET D |-> 0]
  <2>1. \A s \in Small(0) : s = {}
    BY <1>1, FS_EmptySet
  <2>2. \A s \in Small(0) : g[s] = Value(g, s)
    BY <2>1
  <2> HIDE DEF g, Value, Small
  <2> QED
    BY <2>2
<1>3. ASSUME NEW k \in Nat, k \in K
      PROVE  k + 1 \in K
  <2>1. PICK g : \A s \in Small(k) : g[s] = Value(g, s)
    BY <1>3
  <2> DEFINE h == [s \in SUBSET D |-> Value(g, s)]
  <2>2. ASSUME NEW s \in Small(k + 1)
        PROVE  h[s] = Value(h, s)
    <3>1. CASE s = {}
      BY <3>1
    <3>2. CASE s # {}
      <4>1. Chosen(s) \in s
        BY <3>2 DEF Chosen
      <4>2. Cardinality(s \ {Chosen(s)}) = Cardinality(s) - 1
        BY ONLY <1>1, <2>2, <4>1, FS_RemoveElement
      <4>3. s \ {Chosen(s)} \in Small(k)
        BY <1>1, <4>2
      <4>4. h[s \ {Chosen(s)}] = g[s \ {Chosen(s)}]
        BY <2>1, <4>3, Zenon
      <4> QED
        BY <3>2, <4>4
    <3> QED
      BY <3>1, <3>2
  <2> HIDE DEF h, Value, Small
  <2> QED
    BY <2>2
<1>4. Cardinality(D) \in K
  <2> HIDE DEF K
  <2> QED
    BY <1>1, <1>2, <1>3, AllNaturals
<1>5. PICK g : \A s \in Small(Cardinality(D)) : g[s] = Value(g, s)
  BY <1>4
<1>6. \A s \in SUBSET D : s \in Small(Cardinality(D))
  BY <1>1, FS_Subset
<1> DEFINE h == [s \in SUBSET D |-> g[s]]
<1>7. ASSUME NEW s \in SUBSET D
      PROVE  g[s] = Value(h, s)
  <2>1. s \ {Chosen(s)} \in SUBSET D
    OBVIOUS
  <2> QED
    BY <1>5, <1>6, <2>1, Zenon
<1>8. IsSums(h, f, D)
  BY <1>7, Zenon DEF IsSums
<1>9. DOMAIN f = D
  OBVIOUS
<1> QED
  BY <1>8, <1>9, Zenon DEF Sums

\* The order does not matter.
LEMMA SumsAdd ==
  ASSUME NEW D, IsFiniteSet(D), NEW f \in [D -> Nat]
  PROVE  /\ SumOver(f, {}) = 0
         /\ \A s \in SUBSET D : /\ SumOver(f, s) \in Nat
                                /\ \A x \in s : SumOver(f, s) = f[x] + SumOver(f, s \ {x})
<1> DEFINE Good(s) == /\ SumOver(f, s) \in Nat
                      /\ \A x \in s : SumOver(f, s) = f[x] + SumOver(f, s \ {x})
           Small(k) == {s \in SUBSET D : Cardinality(s) <= k}
           K == {k \in Nat : \A s \in Small(k) : Good(s)}
<1>1. \A s \in SUBSET D : IsFiniteSet(s) /\ Cardinality(s) \in Nat
  BY FS_Subset, FS_CardinalityType
<1>2. \A s \in SUBSET D : SumOver(f, s) = IF s = {} THEN 0 ELSE f[Chosen(s)] + SumOver(f, s \ {Chosen(s)})
  <2>1. IsSums(Sums(f), f, D)
    BY SumsExist
  <2>2. ASSUME NEW s \in SUBSET D
        PROVE  Sums(f)[s] = IF s = {} THEN 0 ELSE f[Chosen(s)] + Sums(f)[s \ {Chosen(s)}]
    BY <2>1, Zenon DEF IsSums
  <2> QED
    BY <2>2, Zenon DEF SumOver
<1>3. SumOver(f, {}) = 0
  BY <1>2
<1>4. 0 \in K
  <2>1. \A s \in Small(0) : s = {}
    BY <1>1, FS_EmptySet
  <2>2. Good({})
    BY <1>3
  <2> HIDE DEF Good, Small
  <2> QED
    BY <2>1, <2>2
<1>5. ASSUME NEW k \in Nat, k \in K
      PROVE  k + 1 \in K
  <2>1. ASSUME NEW s \in Small(k + 1), s # {}
        PROVE  Good(s)
    <3> DEFINE c == Chosen(s)
    <3>1. c \in s /\ s \in SUBSET D
      BY <2>1 DEF Chosen
    <3> HIDE DEF c
    <3>2. ASSUME NEW x \in s
          PROVE  s \ {x} \in Small(k)
      <4>1. Cardinality(s \ {x}) = Cardinality(s) - 1
        BY ONLY <1>1, <2>1, <3>2, FS_RemoveElement
      <4> QED
        BY <1>1, <4>1
    <3>3. \A x \in s : Good(s \ {x})
      <4> HIDE DEF Good, Small
      <4> QED
        BY <1>5, <3>2
    <3>4. SumOver(f, s) = f[c] + SumOver(f, s \ {c})
      BY <1>2, <2>1, <3>1 DEF c
    <3>5. \A x \in s : f[x] \in Nat /\ SumOver(f, s \ {x}) \in Nat
      BY <3>1, <3>3
    <3>6. ASSUME NEW x \in s, x # c
          PROVE  SumOver(f, s) = f[x] + SumOver(f, s \ {x})
      <4>1. SumOver(f, s \ {c}) = f[x] + SumOver(f, (s \ {c}) \ {x})
        BY <3>1, <3>3, <3>6
      <4>2. SumOver(f, s \ {x}) = f[c] + SumOver(f, (s \ {x}) \ {c})
        BY <3>1, <3>3, <3>6
      <4>3. (s \ {x}) \ {c} = (s \ {c}) \ {x}
        OBVIOUS
      <4>4. SumOver(f, (s \ {c}) \ {x}) \in Nat
        <5>1. Cardinality(s \ {c}) = Cardinality(s) - 1
          BY ONLY <1>1, <2>1, <3>1, FS_RemoveElement
        <5>2. IsFiniteSet(s \ {c})
          BY <1>1, <3>1
        <5>3. Cardinality((s \ {c}) \ {x}) = Cardinality(s \ {c}) - 1
          BY ONLY <3>6, <5>2, FS_RemoveElement
        <5>4. (s \ {c}) \ {x} \in Small(k)
          BY <1>1, <3>1, <5>1, <5>3
        <5> QED
          BY <1>5, <5>4
      <4> QED
        <5>1. f[c] \in Nat /\ f[x] \in Nat
          BY <3>1, <3>5, <3>6
        <5>2. SumOver(f, s) = f[c] + (f[x] + SumOver(f, (s \ {c}) \ {x}))
          BY <3>4, <4>1
        <5>3. SumOver(f, s \ {x}) = f[c] + SumOver(f, (s \ {c}) \ {x})
          BY <4>2, <4>3
        <5> QED
          BY ONLY <4>4, <5>1, <5>2, <5>3
    <3> QED
      BY <3>1, <3>4, <3>5, <3>6
  <2>2. ASSUME NEW s \in Small(k + 1), s = {}
        PROVE  Good(s)
    BY <1>3, <2>2
  <2> HIDE DEF Good, Small
  <2> QED
    BY <2>1, <2>2
<1>6. Cardinality(D) \in K
  <2> HIDE DEF K
  <2> QED
    BY <1>1, <1>4, <1>5, AllNaturals
<1>7. \A s \in SUBSET D : s \in Small(Cardinality(D))
  BY <1>1, FS_Subset
<1>8. \A s \in SUBSET D : Good(s)
  BY <1>6, <1>7
<1> QED
  BY <1>3, <1>8

LEMMA SumsOfEqual ==
  ASSUME NEW D, IsFiniteSet(D), NEW f \in [D -> Nat], NEW h \in [D -> Nat],
         NEW s \in SUBSET D, \A x \in s : f[x] = h[x]
  PROVE  SumOver(f, s) = SumOver(h, s)
<1> DEFINE P == {t \in SUBSET s : SumOver(f, t) = SumOver(h, t)}
<1>1. IsFiniteSet(s)
  BY FS_Subset
<1>2. {} \in P
  BY SumsAdd
<1>3. ASSUME NEW t \in SUBSET s, NEW x \in t, t \ {x} \in P
      PROVE  t \in P
  <2>1. SumOver(f, t) = f[x] + SumOver(f, t \ {x})
    BY SumsAdd
  <2>2. SumOver(h, t) = h[x] + SumOver(h, t \ {x})
    BY SumsAdd
  <2> QED
    BY <1>3, <2>1, <2>2
<1>4. s \in P
  <2> HIDE DEF P
  <2> QED
    BY <1>1, <1>2, <1>3, AllSubsets
<1> QED
  BY <1>4

LEMMA SumOfNothing ==
  ASSUME NEW D, IsFiniteSet(D), NEW f \in [D -> Nat],
         NEW s \in SUBSET D, \A x \in s : f[x] = 0
  PROVE  SumOver(f, s) = 0
<1> DEFINE P == {t \in SUBSET s : SumOver(f, t) = 0}
<1>1. IsFiniteSet(s)
  BY FS_Subset
<1>2. {} \in P
  BY SumsAdd
<1>3. ASSUME NEW t \in SUBSET s, NEW x \in t, t \ {x} \in P
      PROVE  t \in P
  <2>1. SumOver(f, t) = f[x] + SumOver(f, t \ {x})
    BY SumsAdd
  <2> QED
    BY <1>3, <2>1
<1>4. s \in P
  <2> HIDE DEF P
  <2> QED
    BY <1>1, <1>2, <1>3, AllSubsets
<1> QED
  BY <1>4

LEMMA SumOfBoth ==
  ASSUME NEW D, IsFiniteSet(D), NEW f \in [D -> Nat], NEW s \in SUBSET D
  PROVE  SumOver(f, D) = SumOver(f, s) + SumOver(f, D \ s)
<1> DEFINE r == D \ s
           P == {t \in SUBSET s : SumOver(f, t \cup r) = SumOver(f, t) + SumOver(f, r)}
<1>1. IsFiniteSet(s)
  BY FS_Subset
<1>2. r \in SUBSET D /\ \A x \in s : x \notin r
  OBVIOUS
<1> HIDE DEF r
<1>3. SumOver(f, r) \in Nat
  BY <1>2, SumsAdd
<1>4. {} \in P
  <2>1. {} \cup r = r /\ SumOver(f, {}) = 0
    BY SumsAdd
  <2> QED
    BY <1>3, <2>1
<1>5. ASSUME NEW t \in SUBSET s, NEW x \in t, t \ {x} \in P
      PROVE  t \in P
  <2>1. SumOver(f, t) = f[x] + SumOver(f, t \ {x})
    BY SumsAdd
  <2>2. SumOver(f, t \cup r) = f[x] + SumOver(f, (t \cup r) \ {x})
    BY <1>2, SumsAdd
  <2>3. (t \cup r) \ {x} = (t \ {x}) \cup r
    BY <1>2
  <2>4. SumOver(f, t \ {x}) \in Nat /\ f[x] \in Nat
    BY SumsAdd
  <2>5. SumOver(f, (t \ {x}) \cup r) = SumOver(f, t \ {x}) + SumOver(f, r)
    BY <1>5
  <2>6. SumOver(f, t \cup r) = f[x] + (SumOver(f, t \ {x}) + SumOver(f, r))
    BY ONLY <2>2, <2>3, <2>5, Zenon
  <2>7. SumOver(f, t \cup r) = SumOver(f, t) + SumOver(f, r)
    BY ONLY <1>3, <2>1, <2>4, <2>6
  <2> QED
    BY <2>7
<1>6. s \in P
  <2> HIDE DEF P
  <2> QED
    BY ONLY <1>1, <1>4, <1>5, AllSubsets
<1>7. s \cup r = D
  BY DEF r
<1> QED
  BY <1>6, <1>7 DEF r

\* A tick makes every start one older, and forgets the oldest.
Aged(f) == [age \in Ages |-> IF age = 0 THEN 0 ELSE f[age - 1]]
Younger(s) == {age \in Ages : age + 1 \in s}

LEMMA SumOfAged ==
  ASSUME NEW f \in [Ages -> Nat], NEW s \in SUBSET Ages
  PROVE  SumOver(Aged(f), s) = SumOver(f, Younger(s))
<1> DEFINE P == {t \in SUBSET s : SumOver(Aged(f), t) = SumOver(f, Younger(t))}
<1>0. IsFiniteSet(Ages)
  BY UnitAssumption, FS_Interval DEF Ages
<1>1. IsFiniteSet(Ages) /\ IsFiniteSet(s)
  BY <1>0, FS_Subset
<1>2. Aged(f) \in [Ages -> Nat]
  BY UnitAssumption DEF Aged, Ages
<1>3. {} \in P
  <2>1. Younger({}) = {}
    BY DEF Younger
  <2> QED
    BY <1>1, <1>2, <2>1, SumsAdd
<1>4. ASSUME NEW t \in SUBSET s, NEW x \in t, t \ {x} \in P
      PROVE  t \in P
  <2>1. SumOver(Aged(f), t) = Aged(f)[x] + SumOver(f, Younger(t \ {x}))
    BY <1>1, <1>2, <1>4, SumsAdd
  <2>2. SumOver(f, Younger(t \ {x})) \in Nat
    BY <1>1, SumsAdd DEF Younger
  <2>3. CASE x = 0
    <3>1. Younger(t \ {x}) = Younger(t)
      BY <2>3, UnitAssumption DEF Younger, Ages
    <3> QED
      BY <2>1, <2>2, <2>3, <3>1 DEF Aged
  <2>4. CASE x # 0
    <3>1. x - 1 \in Younger(t) /\ Younger(t) \in SUBSET Ages
      BY <2>4, UnitAssumption DEF Younger, Ages
    <3>2. Younger(t) \ {x - 1} = Younger(t \ {x})
      BY <2>4, UnitAssumption DEF Younger, Ages
    <3>3. SumOver(f, Younger(t)) = f[x - 1] + SumOver(f, Younger(t) \ {x - 1})
      BY <1>1, <3>1, SumsAdd
    <3>4. Aged(f)[x] = f[x - 1]
      BY <2>4 DEF Aged
    <3> QED
      BY <2>1, <3>2, <3>3, <3>4
  <2> QED
    BY <2>3, <2>4
<1>5. s \in P
  <2> HIDE DEF P
  <2> QED
    BY <1>1, <1>3, <1>4, AllSubsets
<1> QED
  BY <1>5

\* A start is a start of now.
LEMMA SumOfOneMore ==
  ASSUME NEW f \in [Ages -> Nat], NEW s \in SUBSET Ages
  PROVE  SumOver([f EXCEPT ![0] = @ + 1], s) = SumOver(f, s) + IF 0 \in s THEN 1 ELSE 0
<1> DEFINE h == [f EXCEPT ![0] = @ + 1]
<1>1. IsFiniteSet(Ages) /\ 0 \in Ages
  BY UnitAssumption, FS_Interval DEF Ages
<1>2. h \in [Ages -> Nat] /\ h[0] = f[0] + 1 /\ \A x \in Ages \ {0} : h[x] = f[x]
  BY <1>1
<1> HIDE DEF h
<1>3. SumOver(h, s \ {0}) = SumOver(f, s \ {0})
  BY <1>1, <1>2, SumsOfEqual
<1>4. CASE 0 \in s
  <2>1. SumOver(h, s) = h[0] + SumOver(h, s \ {0})
    BY <1>1, <1>2, <1>4, SumsAdd
  <2>2. SumOver(f, s) = f[0] + SumOver(f, s \ {0}) /\ SumOver(f, s \ {0}) \in Nat
    BY <1>1, <1>4, SumsAdd
  <2> QED
    BY <1>1, <1>2, <1>3, <1>4, <2>1, <2>2 DEF h
<1>5. CASE 0 \notin s
  <2>1. s \ {0} = s
    BY <1>5
  <2>2. SumOver(f, s) \in Nat
    BY <1>1, SumsAdd
  <2>3. SumOver(h, s) = SumOver(f, s)
    BY <1>3, <2>1
  <2> QED
    BY <1>5, <2>2, <2>3 DEF h
<1> QED
  BY <1>4, <1>5

-----------------------------------------------------------------------------
(* The start limit.                                                         *)

Within(s) == \A age \in s : age <= window.age
Before(s) == \A age \in s : age > window.age

\* Everything that happened within the window was counted, and of the windows before
\* only the starts of one can be recent.  When the window is over, or none began,
\* nothing happened since.
WindowInv ==
  /\ \A s \in SUBSET Ages : Within(s) => SumOver(starts, s) <= window.count
  /\ \A s \in SUBSET Ages : Before(s) => SumOver(starts, s) <= StartLimitBurst
  /\ window.age > StartLimitInterval => starts[0] = 0
  /\ window.count = 0 => \A age \in Ages : starts[age] = 0

LEMMA AgesFinite == IsFiniteSet(Ages) /\ 0 \in Ages /\ Ages \subseteq Nat
<1>1. IsFiniteSet(Ages)
  BY UnitAssumption, FS_Interval DEF Ages
<1> QED
  BY <1>1, UnitAssumption DEF Ages

LEMMA SumsAreNaturals ==
  ASSUME NEW f \in [Ages -> Nat], NEW s \in SUBSET Ages
  PROVE  SumOver(f, s) \in Nat
BY AgesFinite, SumsAdd

LEMMA WindowBoundsStarts ==
  ASSUME TypeOK, WindowInv
  PROVE  NoRestartStorm
<1> DEFINE s == {age \in Ages : age <= window.age}
<1>1. starts \in [Ages -> Nat] /\ window.age \in Nat /\ window.count \in Nat
      /\ window.count <= StartLimitBurst /\ StartLimitBurst \in Nat
  BY UnitAssumption DEF TypeOK
<1>2. s \in SUBSET Ages /\ Within(s) /\ Before(Ages \ s)
  BY <1>1, AgesFinite DEF Within, Before
<1> HIDE DEF s
<1>3. SumOver(starts, s) <= window.count /\ SumOver(starts, Ages \ s) <= StartLimitBurst
  BY <1>2 DEF WindowInv
<1>4. SumOver(starts, s) \in Nat /\ SumOver(starts, Ages \ s) \in Nat
  BY <1>1, <1>2, SumsAreNaturals
<1>5. SumOver(starts, Ages) = SumOver(starts, s) + SumOver(starts, Ages \ s)
  BY <1>1, <1>2, AgesFinite, SumOfBoth
<1>6. SumOver(starts, Ages) <= 2 * StartLimitBurst
  BY ONLY <1>1, <1>3, <1>4, <1>5
<1>7. FoldFunction(+, 0, starts) = SumOver(starts, DOMAIN starts)
  BY FoldIsSum
<1>8. DOMAIN starts = Ages
  BY <1>1
<1> QED
  BY <1>6, <1>7, <1>8, Zenon DEF NoRestartStorm

LEMMA WindowInit ==
  ASSUME Init
  PROVE  WindowInv
<1>1. starts \in [Ages -> Nat] /\ \A age \in Ages : starts[age] = 0
  BY DEF Init, NoStarts
<1>2. ASSUME NEW s \in SUBSET Ages
      PROVE  SumOver(starts, s) = 0
  BY <1>1, AgesFinite, SumOfNothing
<1> QED
  BY <1>1, <1>2, UnitAssumption DEF WindowInv, Init, NoWindow

LEMMA WindowReset ==
  ASSUME starts' = NoStarts, window' = NoWindow
  PROVE  WindowInv'
<1> DEFINE h == NoStarts
<1>1. h \in [Ages -> Nat] /\ \A age \in Ages : h[age] = 0
  BY DEF NoStarts
<1> HIDE DEF h
<1>2. ASSUME NEW s \in SUBSET Ages
      PROVE  SumOver(h, s) = 0
  BY <1>1, AgesFinite, SumOfNothing
<1>3. starts' = h
  BY DEF h
<1> QED
  BY <1>1, <1>2, <1>3, UnitAssumption DEF WindowInv, NoWindow, Ages

LEMMA WindowStart ==
  ASSUME TypeOK, WindowInv, Start
  PROVE  WindowInv'
<1>1. /\ starts \in [Ages -> Nat] /\ window.age \in Nat /\ window.count \in Nat
      /\ window.count <= StartLimitBurst /\ StartLimitBurst \in Nat /\ StartLimitBurst > 0
      /\ StartLimitInterval \in Nat /\ window.age <= StartLimitInterval + 1
  BY UnitAssumption DEF TypeOK
<1>2. CASE UNCHANGED <<window, starts>>
  BY <1>2 DEF WindowInv, Within, Before
<1>3. CASE /\ StartAllowed
           /\ window' = IF WindowOver THEN [age |-> 0, count |-> 1]
                        ELSE [window EXCEPT !.count = @ + 1]
           /\ starts' = [starts EXCEPT ![0] = @ + 1]
  <2>1. ASSUME NEW s \in SUBSET Ages
        PROVE  /\ SumOver(starts', s) = SumOver(starts, s) + IF 0 \in s THEN 1 ELSE 0
               /\ SumOver(starts, s) \in Nat
    BY <1>1, <1>3, SumOfOneMore, SumsAreNaturals
  <2>2. starts'[0] = starts[0] + 1
    BY <1>1, <1>3, AgesFinite
  <2>3. CASE ~WindowOver
    <3>1. /\ window'.age = window.age /\ window'.count = window.count + 1
          /\ window.age <= StartLimitInterval
          /\ window.count < StartLimitBurst
      BY <1>1, <1>3, <2>3 DEF WindowOver, StartAllowed, TypeOK
    <3>2. ASSUME NEW s \in SUBSET Ages, Within(s)'
          PROVE  SumOver(starts', s) <= window'.count
      <4>1. SumOver(starts, s) <= window.count
        BY <3>1, <3>2 DEF Within, WindowInv
      <4> QED
        BY <1>1, <2>1, <3>1, <4>1
    <3>3. ASSUME NEW s \in SUBSET Ages, Before(s)'
          PROVE  SumOver(starts', s) <= StartLimitBurst
      <4>1. SumOver(starts, s) <= StartLimitBurst
        BY <3>1, <3>3 DEF Before, WindowInv
      <4>2. 0 \notin s
        BY <1>1, <3>1, <3>3 DEF Before
      <4> QED
        BY <1>1, <2>1, <4>1, <4>2
    <3> QED
      BY <1>1, <3>1, <3>2, <3>3 DEF WindowInv
  <2>4. CASE WindowOver
    <3>1. window'.age = 0 /\ window'.count = 1
      BY <1>3, <2>4
    <3>2. starts[0] = 0
      BY <2>4, AgesFinite DEF WindowOver, WindowInv
    <3>3. ASSUME NEW s \in SUBSET Ages
          PROVE  SumOver(starts, s) <= StartLimitBurst
      <4>1. CASE window.count = 0
        <5>1. SumOver(starts, s) = 0
          BY <1>1, <4>1, AgesFinite, SumOfNothing DEF WindowInv
        <5> QED
          BY <1>1, <5>1
      <4>2. CASE window.age > StartLimitInterval
        <5>1. Within(s)
          BY <1>1, <4>2 DEF Within, Ages
        <5>2. SumOver(starts, s) <= window.count
          BY <5>1 DEF WindowInv
        <5> QED
          BY <1>1, <2>1, <5>2
      <4> QED
        BY <2>4, <4>1, <4>2 DEF WindowOver
    <3>4. ASSUME NEW s \in SUBSET Ages, Within(s)'
          PROVE  SumOver(starts', s) <= window'.count
      <4>1. \A age \in s : age = 0
        BY <3>1, <3>4, AgesFinite DEF Within
      <4>2. SumOver(starts, s) = 0
        BY <1>1, <3>2, <4>1, AgesFinite, SumOfNothing
      <4> QED
        BY <2>1, <3>1, <4>2
    <3>5. ASSUME NEW s \in SUBSET Ages, Before(s)'
          PROVE  SumOver(starts', s) <= StartLimitBurst
      <4>1. 0 \notin s
        BY <3>1, <3>5 DEF Before
      <4> QED
        BY <1>1, <2>1, <3>3, <4>1
    <3> QED
      BY <1>1, <3>1, <3>4, <3>5 DEF WindowInv
  <2> QED
    BY <2>3, <2>4
<1> QED
  BY <1>2, <1>3 DEF Start

LEMMA WindowTick ==
  ASSUME TypeOK, WindowInv, Tick
  PROVE  WindowInv'
<1>1. /\ starts \in [Ages -> Nat] /\ window.age \in Nat /\ window.count \in Nat
      /\ window.count <= StartLimitBurst /\ StartLimitBurst \in Nat
      /\ StartLimitInterval \in Nat /\ window.age <= StartLimitInterval + 1
  BY UnitAssumption DEF TypeOK
<1>2. starts' = Aged(starts) /\ starts'[0] = 0
  BY AgesFinite DEF Tick, Aged
<1>3. ASSUME NEW s \in SUBSET Ages
      PROVE  SumOver(starts', s) = SumOver(starts, Younger(s)) /\ Younger(s) \in SUBSET Ages
  BY <1>1, <1>2, SumOfAged DEF Younger
<1>4. window'.count = window.count
  BY DEF Tick, TypeOK
<1>5. window.count = 0 => \A age \in Ages : starts'[age] = 0
  BY <1>1, <1>2, UnitAssumption DEF WindowInv, Aged, Ages
<1>6. CASE window.count = 0
  <2>1. ASSUME NEW s \in SUBSET Ages
        PROVE  SumOver(starts', s) = 0
    <3>1. SumOver(starts, Younger(s)) = 0
      <4>1. \A age \in Younger(s) : starts[age] = 0
        BY <1>3, <1>6, <2>1 DEF WindowInv
      <4> QED
        BY <1>1, <1>3, <4>1, AgesFinite, SumOfNothing
    <3> QED
      BY <1>3, <3>1
  <2> QED
    BY <1>1, <1>2, <1>4, <1>5, <1>6, <2>1 DEF WindowInv
<1>7. CASE window.count # 0
  <2>1. window'.age = Older(window.age)
    BY <1>7 DEF Tick, TypeOK
  <2>2. ASSUME NEW s \in SUBSET Ages, Within(s)'
        PROVE  Within(Younger(s))
    BY <1>1, <2>1, <2>2, AgesFinite DEF Within, Younger, Older, Ages
  <2>3. ASSUME NEW s \in SUBSET Ages, Before(s)'
        PROVE  Before(Younger(s))
    BY <1>1, <2>1, <2>3, AgesFinite DEF Before, Younger, Older, Ages
  <2> QED
    BY <1>2, <1>3, <1>4, <1>5, <2>2, <2>3 DEF WindowInv
<1> QED
  BY <1>6, <1>7

LEMMA WindowStep ==
  ASSUME TypeOK, WindowInv, [Next]_vars
  PROVE  WindowInv'
<1>1. CASE UNCHANGED <<window, starts>>
  BY <1>1 DEF WindowInv, Within, Before
<1>2. CASE Start
  BY <1>2, WindowStart
<1>3. CASE ResetFailed
  BY <1>3, WindowReset DEF ResetFailed
<1>4. CASE Tick
  BY <1>4, WindowTick
<1> QED
  BY <1>1, <1>2, <1>3, <1>4 DEF Next, UserStarts, AutoRestart, UserStops, StartUp,
     Terminate, ServerReturns, EventCounted, EventAppended, Killed, DaemonEnds, EditConfig

\* However often the daemon fails, it is started at most twice the burst in one
\* interval of the start limit.
THEOREM NoStorm == Spec => []NoRestartStorm
BY WindowInit, WindowStep, WindowBoundsStarts, TypeCorrect, PTL DEF Spec

=============================================================================
