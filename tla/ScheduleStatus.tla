--------------------------- MODULE ScheduleStatus ---------------------------
(***************************************************************************)
(* scripts/bearbiz-backup-schedule.sh: enable, disable and the nightly run *)
(* each report to status.json, which write_status reads, changes and       *)
(* writes anew, without a lock.  write_text empties the file first.        *)
(***************************************************************************)
EXTENDS Integers, FiniteSets

CONSTANTS
  Commands,  \* invocations of the script at a time
  Empty      \* status.json absent, or emptied and not yet written

\* What status.json says; reason: whether it gives one for a failure.
Reports ==
  [enabled : BOOLEAN, state : {"none", "enabled", "disabled", "running", "success", "failed"},
   reason : BOOLEAN]

ASSUME EmptyAssumption == Empty \notin Reports

VARIABLES
  timer,    \* whether the timer is enabled, as systemd has it
  status,   \* [enabled, state, reason], or Empty
  running,  \* for each invocation: [step, command, state, read, sole]
  orderly,  \* kept for StatusTrue only, as is sole: see below
  failing   \* kept for FailureVisible only: the last outcome reported is a failure

statusVars == <<timer, status, running, orderly, failing>>

\* A file that is absent or holds no JSON is read as {}.
Nothing == [enabled |-> FALSE, state |-> "none", reason |-> FALSE]
Contents == IF status = Empty THEN Nothing ELSE status

NotRunning == [step |-> "idle", command |-> "none", state |-> "none", read |-> Nothing,
               sole |-> TRUE]

StatusInit ==
  /\ timer = FALSE
  /\ status = Empty
  /\ running = [c \in Commands |-> NotRunning]
  /\ orderly = TRUE
  /\ failing = FALSE

\* enable and disable between the change of the timer and the report of it, and
\* anyone between reading the file and having written it.
Switching(c) == running[c].command \in {"enable", "disable"}
Writing(c) == running[c].step \in {"read", "emptied"}

\* Whoever is in the way of c, and c itself, are not alone.
NotAlone(others, c) ==
  [d \in Commands |-> [running[d] EXCEPT !.sole = @ /\ d \notin others /\ (d = c => others = {})]]
OtherSwitches(c) == {d \in Commands \ {c} : Switching(d)}
OtherWriters(c) == {d \in Commands \ {c} : Writing(d)}

\* systemctl has been called; the report is due.
Switch(c, command) ==
  /\ running[c].step = "idle"
  /\ timer' = (command = "enable")
  /\ running' = [NotAlone(OtherSwitches(c), c) EXCEPT
       ![c].step = "due", ![c].command = command,
       ![c].state = IF command = "enable" THEN "enabled" ELSE "disabled"]
  /\ orderly' = (orderly /\ OtherSwitches(c) = {})
  /\ UNCHANGED <<status, failing>>

\* By the timer or by hand; the flock lets one run at a time.
StartRun(c) ==
  /\ running[c].step = "idle"
  /\ \A d \in Commands : running[d].command # "run"
  /\ running' = [running EXCEPT ![c] =
       [NotRunning EXCEPT !.step = "due", !.command = "run", !.state = "running"]]
  /\ UNCHANGED <<timer, status, orderly, failing>>

\* Mutant: what the first report read is used again.
ReadFor_Earlier(c) == IF running[c].state = "running" THEN Contents ELSE running[c].read

\* Each report reads the file anew.
ReadFor(c) == Contents

ReadStatus(c) ==
  /\ running[c].step = "due"
  /\ running' = [NotAlone(OtherWriters(c), c) EXCEPT ![c].step = "read", ![c].read = ReadFor(c)]
  /\ orderly' = (orderly /\ OtherWriters(c) = {})
  /\ UNCHANGED <<timer, status, failing>>

EmptyStatus(c) ==
  /\ running[c].step = "read"
  /\ status' = Empty
  /\ running' = [running EXCEPT ![c].step = "emptied"]
  /\ UNCHANGED <<timer, orderly, failing>>

\* A success takes the reason back; what is no outcome leaves it.
Reason(state, reason) ==
  CASE state = "failed" -> TRUE
    [] state = "success" -> FALSE
    [] OTHER -> reason

\* A run goes on after its first report.
WriteStatus(c) ==
  /\ running[c].step = "emptied"
  /\ status' = [enabled |-> CASE running[c].state = "enabled" -> TRUE
                              [] running[c].state = "disabled" -> FALSE
                              [] OTHER -> running[c].read.enabled,
                state |-> running[c].state,
                reason |-> Reason(running[c].state, running[c].read.reason)]
  /\ failing' = Reason(running[c].state, failing)
  /\ running' = [running EXCEPT ![c] =
       IF running[c].state = "running" THEN [@ EXCEPT !.step = "working", !.sole = TRUE] ELSE NotRunning]
  \* A switch that nobody gets in the way of sets the report right.
  /\ orderly' = (orderly \/ (Switching(c) /\ running[c].sole /\ OtherWriters(c) = {}))
  /\ UNCHANGED timer

FinishRun(c, outcome) ==
  /\ running[c].step = "working"
  /\ running' = [running EXCEPT ![c].step = "due", ![c].state = outcome]
  /\ UNCHANGED <<timer, status, orderly, failing>>

\* Killed, or the host is.
KillCommand(c) ==
  /\ running[c].step # "idle"
  /\ running' = [running EXCEPT ![c] = NotRunning]
  /\ orderly' = (orderly /\ ~Switching(c) /\ running[c].step # "emptied")
  /\ UNCHANGED <<timer, status, failing>>

StatusNext ==
  \E c \in Commands :
    \/ \E command \in {"enable", "disable"} : Switch(c, command)
    \/ StartRun(c)
    \/ ReadStatus(c)
    \/ EmptyStatus(c)
    \/ WriteStatus(c)
    \/ \E outcome \in {"success", "failed"} : FinishRun(c, outcome)
    \/ KillCommand(c)

StatusSpec == StatusInit /\ [][StatusNext]_statusVars

(***************************************************************************)
(* Properties                                                              *)
(***************************************************************************)
\* When nobody is writing or about to report a switch, status.json says of the
\* timer what is true, unless two reports or two switches overlapped, or one was
\* killed on the way, and no switch alone has set it right since.  A backup may
\* run all the while: write_status reads the file anew for each of its reports.
StatusTrue ==
  orderly /\ (\A c \in Commands : ~Switching(c) /\ ~Writing(c)) => Contents.enabled = timer

\* "failures leave the reason [...] visible" (README.md:224): the reason stands in
\* status.json once it has been written, until a success.
FailureVisible == failing /\ (\A c \in Commands : ~Writing(c)) => Contents.reason
=============================================================================
