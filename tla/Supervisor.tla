------------------------------ MODULE Supervisor ------------------------------
(***************************************************************************)
(* The service: systemd runs the daemon under imx6ull-sense.service, whose *)
(* restart policy goes by the exit code, and restarts one that was killed. *)
(* Of the daemon only this is left: it loads its configuration, serves,    *)
(* appends motion events to the log, and ends.  A new process remembers    *)
(* nothing; the log and the configuration are on the disk.                 *)
(*                                                                         *)
(* Time is kept as ages, which stop where nothing depends on them any      *)
(* longer, so that no run of the service is cut short.                     *)
(***************************************************************************)
EXTENDS EventLog, Functions

CONSTANTS
  RestartSec, StartLimitInterval, StartLimitBurst,   \* the unit file, in model time
  MaxEvents                                          \* bound on the motion events

\* 3 s, 30 s and 3: a daemon that fails at once runs into the limit
ASSUME UnitAssumption ==
  /\ RestartSec \in Nat /\ StartLimitInterval \in Nat /\ StartLimitBurst \in Nat \ {0}
  /\ StartLimitBurst * RestartSec < StartLimitInterval
ASSUME MaxEventsAssumption == MaxEvents \in Nat

VARIABLES
  unit,           \* what systemd makes of the service
  result,         \* how the daemon ended last
  restart_in,     \* the time to the automatic restart
  window,         \* the age of the start limit's window, and the starts in it
  config_valid,   \* whether config_load accepts the file on the disk
  daemon_pc,      \* where the daemon is
  signalled,      \* a SIGTERM was sent to the daemon that runs
  event_log,      \* the file
  wanted,         \* the user started the service and did not stop it (history)
  starts,         \* of each age, the starts within StartLimitInterval (history)
  fates           \* what became of each event ever counted (history)

unitVars == <<unit, result, restart_in, window, starts>>
daemonVars == <<daemon_pc, signalled>>
diskVars == <<config_valid, event_log>>
vars == <<unitVars, daemonVars, diskVars, wanted, fates>>

\* main.c returns SENSE_EXIT_OK, SENSE_EXIT_FATAL or SENSE_EXIT_CONFIG
Results == {"none", "ok", "fatal", "config", "killed", "start_limit"}

Ages == 0..StartLimitInterval

TypeOK ==
  /\ unit \in {"inactive", "active", "stopping", "auto_restart", "failed"}
  /\ result \in Results
  /\ restart_in \in 0..RestartSec
  /\ window \in [age : 0..StartLimitInterval + 1, count : 0..StartLimitBurst]
  /\ config_valid \in BOOLEAN
  /\ daemon_pc \in {"none", "loading", "serving", "writing"}
  /\ daemon_pc = "none" <=> unit \notin {"active", "stopping"}
  /\ signalled \in BOOLEAN /\ wanted \in BOOLEAN
  /\ event_log \in Seq(Pieces)
  /\ starts \in [Ages -> Nat]
  /\ fates \in Seq({"writing", "logged", "reported", "lost"})

NoWindow == [age |-> 0, count |-> 0]
NoStarts == [age \in Ages |-> 0]

Init ==
  /\ unit = "inactive" /\ result = "none"
  /\ restart_in = 0 /\ window = NoWindow /\ starts = NoStarts
  /\ config_valid \in BOOLEAN
  /\ daemon_pc = "none" /\ signalled = FALSE
  /\ event_log = <<>>
  /\ wanted = FALSE /\ fates = <<>>

-----------------------------------------------------------------------------
(* systemd.                                                                 *)

\* Mutant: the interval is shorter than the restarts it has to count.
WindowOver_Short == window.count = 0 \/ window.age > 0

\* The limit counts the starts in a window that begins with the first of them.
WindowOver == window.count = 0 \/ window.age > StartLimitInterval
StartAllowed == WindowOver \/ window.count < StartLimitBurst

\* Mutant: the unit file has no start limit.
Start_Unlimited ==
  /\ unit' = "active" /\ daemon_pc' = "loading" /\ signalled' = FALSE
  /\ window' = NoWindow
  /\ starts' = [starts EXCEPT ![0] = @ + 1]
  /\ UNCHANGED <<result, restart_in, diskVars, fates>>

\* a new process, or start-limit-hit
Start ==
  /\ IF StartAllowed
       THEN /\ unit' = "active" /\ daemon_pc' = "loading" /\ signalled' = FALSE
            /\ window' = IF WindowOver THEN [age |-> 0, count |-> 1]
                         ELSE [window EXCEPT !.count = @ + 1]
            /\ starts' = [starts EXCEPT ![0] = @ + 1]
            /\ UNCHANGED result
       ELSE /\ unit' = "failed" /\ result' = "start_limit"
            /\ UNCHANGED <<window, starts, daemonVars>>
  /\ UNCHANGED <<restart_in, diskVars, fates>>

\* systemctl start
UserStarts ==
  /\ unit \in {"inactive", "failed"}
  /\ Start
  /\ wanted' = TRUE

AutoRestart ==
  /\ unit = "auto_restart" /\ restart_in = 0
  /\ Start
  /\ UNCHANGED wanted

\* systemctl stop: a SIGTERM, or no restart of a daemon that is gone
UserStops ==
  /\ \/ unit = "active" /\ unit' = "stopping" /\ signalled' = TRUE
     \/ unit = "auto_restart" /\ unit' = "inactive" /\ UNCHANGED signalled
  /\ wanted' = FALSE
  /\ UNCHANGED <<result, restart_in, window, starts, daemon_pc, diskVars, fates>>

\* systemctl reset-failed also clears the start limit
ResetFailed ==
  /\ unit = "failed"
  /\ unit' = "inactive" /\ window' = NoWindow /\ starts' = NoStarts
  /\ UNCHANGED <<result, restart_in, daemonVars, diskVars, wanted, fates>>

\* Mutant: the unit file has no RestartPreventExitStatus.
RestartsAfter_AnyFailure(how) == how # "ok"

\* Restart=on-failure, RestartPreventExitStatus=78
RestartsAfter(how) == how \in {"fatal", "killed"}

\* The daemon is gone; what systemd does next goes by how it ended.
DaemonEnds(how) ==
  /\ result' = how
  /\ daemon_pc' = "none"
  /\ IF unit = "active" /\ RestartsAfter(how)
       THEN unit' = "auto_restart" /\ restart_in' = RestartSec
       ELSE /\ unit' = IF how = "ok" THEN "inactive" ELSE "failed"
            /\ UNCHANGED restart_in
  /\ UNCHANGED <<window, starts, signalled, config_valid, wanted>>

-----------------------------------------------------------------------------
(* The daemon.                                                              *)

\* From main to the accept loop.  A SIGTERM before install_signal_handlers kills
\* the process; systemd takes that for a clean end, as it does exit code 0.
StartUp ==
  /\ daemon_pc = "loading"
  /\ \/ ~config_valid /\ DaemonEnds("config")
     \/ signalled /\ DaemonEnds("ok")
     \/ DaemonEnds("fatal")
     \/ /\ config_valid /\ daemon_pc' = "serving"
        /\ UNCHANGED <<unitVars, signalled, config_valid, wanted>>
  /\ UNCHANGED <<event_log, fates>>

\* kill -TERM by hand, for which systemd does not answer
Terminate ==
  /\ daemon_pc # "none" /\ ~signalled
  /\ signalled' = TRUE
  /\ UNCHANGED <<unitVars, daemon_pc, diskVars, wanted, fates>>

\* http_server_run returns, on the signal or for a failure of its own; after a
\* signal the exit code is 0 whatever it returned
ServerReturns ==
  /\ daemon_pc = "serving"
  /\ DaemonEnds(IF signalled THEN "ok" ELSE "fatal")
  /\ UNCHANGED <<event_log, fates>>

\* A motion event is counted, and event_log_append_motion begins.
EventCounted ==
  /\ daemon_pc = "serving" /\ Len(fates) < MaxEvents
  /\ fates' = Append(fates, "writing")
  /\ daemon_pc' = "writing"
  /\ UNCHANGED <<unitVars, signalled, diskVars, wanted>>

Decided(fate) == [fates EXCEPT ![Len(fates)] = fate]

\* Mutant: the file is opened with O_TRUNC in place of O_APPEND.
EventAppended_Truncates ==
  /\ daemon_pc = "writing"
  /\ \E outcome \in AppendMotion(<<>>, Len(fates)) :
       /\ event_log' = outcome.file
       /\ fates' = Decided(IF outcome.status = "ok" THEN "logged" ELSE "reported")
  /\ daemon_pc' = "serving"
  /\ UNCHANGED <<unitVars, signalled, config_valid, wanted>>

\* It returns; a failure is shown in /status.
EventAppended ==
  /\ daemon_pc = "writing"
  /\ \E outcome \in AppendMotion(event_log, Len(fates)) :
       /\ event_log' = outcome.file
       /\ fates' = Decided(IF outcome.status = "ok" THEN "logged" ELSE "reported")
  /\ daemon_pc' = "serving"
  /\ UNCHANGED <<unitVars, signalled, config_valid, wanted>>

\* kill -9 at any moment: also in the middle of a line, or after it and before
\* anybody heard of it
Killed ==
  /\ daemon_pc # "none"
  /\ DaemonEnds("killed")
  /\ IF daemon_pc = "writing"
       THEN /\ \E outcome \in AppendMotion(event_log, Len(fates)) :
                 event_log' = outcome.file
            /\ fates' = Decided("lost")
       ELSE UNCHANGED <<event_log, fates>>

-----------------------------------------------------------------------------
EditConfig ==
  /\ config_valid' = ~config_valid
  /\ UNCHANGED <<unitVars, daemonVars, event_log, wanted, fates>>

Older(age) == IF age > StartLimitInterval THEN age ELSE age + 1

\* Starting up takes no time to speak of, and systemd restarts on time.
Tick ==
  /\ daemon_pc # "loading"
  /\ unit = "auto_restart" => restart_in > 0
  /\ restart_in' = IF restart_in > 0 THEN restart_in - 1 ELSE 0
  /\ window' = IF window.count = 0 THEN window ELSE [window EXCEPT !.age = Older(@)]
  /\ starts' = [age \in Ages |-> IF age = 0 THEN 0 ELSE starts[age - 1]]
  /\ UNCHANGED <<unit, result, daemonVars, diskVars, wanted, fates>>

Next ==
  \/ UserStarts \/ AutoRestart \/ UserStops \/ ResetFailed
  \/ StartUp \/ Terminate \/ ServerReturns \/ EventCounted \/ EventAppended \/ Killed
  \/ EditConfig \/ Tick

\* The clock goes on, systemd restarts what is due, and a daemon starts up.
Fairness == WF_vars(Tick) /\ WF_vars(AutoRestart) /\ WF_vars(StartUp)

Spec == Init /\ [][Next]_vars
FairSpec == Spec /\ Fairness

-----------------------------------------------------------------------------
\* Nothing is started again that somebody stopped, that was told to end, or whose
\* configuration is wrong: an automatic restart only follows a crash or a fatal
\* error nobody asked for.
StaysDown ==
  /\ unit \in {"active", "auto_restart"} => wanted
  /\ unit = "auto_restart" => result \in {"fatal", "killed"}

\* However the daemon fails and whatever the user does, there is no restart storm:
\* never more than twice the burst in one StartLimitInterval (two windows of the
\* limit may touch), until the user resets the limit.
NoRestartStorm == FoldFunction(+, 0, starts) <= 2 * StartLimitBurst

\* A daemon that crashed serves again, unless it fails for good or the user stops
\* it: systemd does not wait for a restart forever, nor restart forever.
CrashedComesBack ==
  unit = "auto_restart" ~> daemon_pc = "serving" \/ unit \in {"inactive", "failed"}

\* What was logged stays in the log, once and in order, whatever is killed and
\* started after it.  It is a line of its own, unless the record in front of it broke
\* off: for a kill, or for a failed write that was reported.  So each interruption
\* costs a reader of the log one logged event at most, and nothing else costs any.
\* docs/explanation/motion-detection.md promises more, a line for each event; but a
\* process that appends to a line another one left torn does not even know of it.
LogDamageBounded ==
  /\ \A i \in DOMAIN fates : fates[i] = "logged" =>
       \E k \in DOMAIN event_log :
         /\ event_log[k] = Piece(i, TRUE)
         /\ ~IsLine(event_log, k) => fates[event_log[k - 1].event] \in {"lost", "reported"}
  /\ \A k \in 1..Len(event_log) - 1 : event_log[k].event < event_log[k + 1].event

==============================================================================
