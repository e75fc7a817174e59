----------------------------- MODULE WakeHelper -----------------------------
(***************************************************************************)
(* The wake helper: run-classic.sh stops the Bluetooth service and runs    *)
(* one of the three wake programs of pcble_backend/poc/pro-controller.c on *)
(* the bare adapter - a test of it (--wake-probe), a scan for a            *)
(* controller's wake advertisement (--wake-capture), the advertisement     *)
(* sent (--wake-send) - then starts the service again.                     *)
(*                                                                         *)
(* A command of the adapter is carried out and answered, or refused, or    *)
(* carried out with its answer lost: hci_send_req() waits 2 s for it.      *)
(***************************************************************************)
EXTENDS Integers, Sequences

CONSTANTS MaxHappenings     \* bound: what a capture hears

ASSUME WakeAssumption == MaxHappenings \in Nat

VARIABLES
    mode,               \* probe, capture, send
    script,             \* run-classic.sh: ask, stop, run, trap, over, unstarted
    service, wasActive, \* bluetooth is running; $bluetooth_was_active
    place, command,     \* the program: none, setup, steps, listen, cleanup, gone; its next command
    scanning, advertising, \* what the adapter does
    deaf,               \* history: a command to stop was not carried out
    ok, heard, happenings,  \* ok, found; reports heard
    code                \* the exit status: none, success, failure, killed

adapterVars == <<scanning, advertising, deaf>>
programVars == <<place, command, ok, heard, happenings, code>>
scriptVars == <<script, service, wasActive>>
wakeVars == <<mode, adapterVars, programVars, scriptVars>>

----------------------------------------------------------------------------
(* run-classic.sh *)

ScriptAsks ==
    /\ script = "ask" /\ script' = "stop" /\ wasActive' = service
    /\ UNCHANGED <<mode, adapterVars, programVars, service>>

\* Mutant of ScriptStops: the trap is set after the service is stopped.
ScriptStopsUntrapped ==
    /\ script = "stop"
    /\ \/ service' = FALSE /\ script' = "run" /\ place' = "setup"
       \/ service' = FALSE /\ script' = "over" /\ UNCHANGED place
    /\ UNCHANGED <<mode, adapterVars, command, ok, heard, happenings, code, wasActive>>

\* systemctl stop, and with set -e its failure: the trap is set before.
ScriptStops ==
    /\ script = "stop"
    /\ \/ service' = FALSE /\ script' = "run" /\ place' = "setup"
       \/ wasActive /\ script' = "trap" /\ UNCHANGED <<place, service>>
    /\ UNCHANGED <<mode, adapterVars, command, ok, heard, happenings, code, wasActive>>

\* The program ended, or a signal ended both.
ScriptRan ==
    /\ script = "run" /\ place = "gone" /\ script' = "trap"
    /\ UNCHANGED <<mode, adapterVars, programVars, service, wasActive>>

\* restore_probe_bluez(): "systemctl start bluetooth || true", whose failure
\* is not looked at.
ScriptRestores ==
    /\ script = "trap"
    /\ \/ script' = "over" /\ service' = (service \/ wasActive)
       \/ wasActive /\ ~service /\ script' = "unstarted" /\ UNCHANGED service
    /\ UNCHANGED <<mode, adapterVars, programVars, wasActive>>

----------------------------------------------------------------------------
(* The programs. *)

Exit(status) == place' = "gone" /\ code' = status

HelperKilled(status) ==
    /\ script = "run" /\ place \notin {"none", "gone"} /\ Exit(status)
    /\ UNCHANGED <<mode, adapterVars, command, ok, heard, happenings, scriptVars>>

\* The steps that must succeed, in order; those of wake_probe_run() put the
\* radio on and off twice.
Steps ==
    CASE mode = "probe" -> <<"set", "scan on", "scan off", "set", "set", "set", "advertise on", "advertise off">>
      [] mode = "capture" -> <<"filter", "set", "scan on">>
      [] OTHER -> <<"set", "set", "set", "advertise on">>

Command == Steps[command + 1]

\* What precedes: arguments, HCIDEVUP, hci_open_dev(); wake_send_run() first
\* puts the radio in a known state, whatever the answer.
Setup ==
    /\ place = "setup"
    /\ \/ Exit("failure") /\ UNCHANGED adapterVars
       \/ /\ place' = "steps" /\ UNCHANGED code
          /\ IF mode = "send" THEN scanning' \in {FALSE, scanning} /\ advertising' \in {FALSE, advertising}
             ELSE UNCHANGED <<scanning, advertising>>
          /\ UNCHANGED deaf
    /\ UNCHANGED <<mode, command, ok, heard, happenings, scriptVars>>

Carried(what) ==
    /\ scanning' = CASE what = "scan on" -> TRUE [] what = "scan off" -> FALSE [] OTHER -> scanning
    /\ advertising' = CASE what = "advertise on" -> TRUE [] what = "advertise off" -> FALSE [] OTHER -> advertising

\* Mutant of After: every program waits for reports.
AfterListening == "listen"

After == CASE mode = "capture" -> "listen" [] OTHER -> "cleanup"

\* wake_probe_command() that succeeds.
StepDone ==
    /\ place = "steps" /\ Carried(Command)
    /\ command' = command + 1
    /\ place' = IF command + 1 = Len(Steps) THEN After ELSE "steps"
    /\ UNCHANGED <<mode, deaf, ok, heard, happenings, code, scriptVars>>

\* Mutant of StepFails: an error of a wake sent is a return, like a capture's.
StepFailsAtOnce ==
    /\ place = "steps"
    /\ Carried(Command) \/ UNCHANGED <<scanning, advertising>>
    /\ ok' = FALSE
    /\ IF mode = "probe" THEN place' = "cleanup" /\ UNCHANGED code ELSE Exit("failure")
    /\ UNCHANGED <<mode, deaf, command, heard, happenings, scriptVars>>

\* Mutant of StepFails: the failure is forgotten.
StepFailsUnsaid ==
    /\ place = "steps"
    /\ Carried(Command) \/ UNCHANGED <<scanning, advertising>>
    /\ command' = command + 1
    /\ place' = IF command + 1 = Len(Steps) THEN After ELSE "steps"
    /\ UNCHANGED <<mode, deaf, ok, heard, happenings, code, scriptVars>>

\* A failed step of a capture returns at once and no command to stop is sent:
\* the scan is on when only the answer to LE Scan Enable was lost.
StepFails ==
    /\ place = "steps"
    /\ \/ Carried(Command)
       \/ UNCHANGED <<scanning, advertising>>
    /\ ok' = FALSE
    /\ IF mode = "capture" THEN Exit("failure") ELSE place' = "cleanup" /\ UNCHANGED code
    /\ UNCHANGED <<mode, deaf, command, heard, happenings, scriptVars>>

----------------------------------------------------------------------------
(* wake_capture_run(): 20 s of reports, until one holds the advertisement. *)

Report ==
    /\ place = "listen" /\ ~heard /\ happenings < MaxHappenings
    /\ happenings' = happenings + 1 /\ heard' \in BOOLEAN
    /\ UNCHANGED <<mode, adapterVars, place, command, ok, code, scriptVars>>

\* Mutant of Listened: only a report ends it.
ListenedForever ==
    /\ place = "listen" /\ heard /\ place' = "cleanup"
    /\ UNCHANGED <<mode, adapterVars, command, ok, heard, happenings, code, scriptVars>>

\* It was found, the deadline is over, or the socket failed.
Listened ==
    /\ place = "listen" /\ place' = "cleanup"
    /\ UNCHANGED <<mode, adapterVars, command, ok, heard, happenings, code, scriptVars>>

----------------------------------------------------------------------------
(* wake_probe_cleanup, wake_send_cleanup and the end of a capture: what the*)
(* program may have turned on is turned off, whether it failed or not.     *)

Offs == CASE mode = "probe" -> {"scan off", "advertise off"}
          [] mode = "capture" -> {"scan off"}
          [] OTHER -> {"advertise off"}

Status == CASE mode = "capture" -> IF heard THEN "success" ELSE "failure"
            [] OTHER -> IF ok THEN "success" ELSE "failure"

Cleanup ==
    /\ place = "cleanup"
    /\ \E refused \in SUBSET Offs :
           /\ scanning' = (scanning /\ "scan off" \notin Offs \ refused)
           /\ advertising' = (advertising /\ "advertise off" \notin Offs \ refused)
           /\ deaf' = (deaf \/ ("scan off" \in refused /\ scanning)
                            \/ ("advertise off" \in refused /\ advertising))
    /\ Exit(Status)
    /\ UNCHANGED <<mode, command, ok, heard, happenings, scriptVars>>

----------------------------------------------------------------------------
WakeInit ==
    /\ mode \in {"probe", "capture", "send"} /\ script = "ask"
    /\ service \in BOOLEAN /\ wasActive = FALSE
    /\ place = "none" /\ command = 0
    /\ scanning = FALSE /\ advertising = FALSE /\ deaf = FALSE
    /\ ok = TRUE /\ heard = FALSE /\ happenings = 0 /\ code = "none"

ScriptNext == ScriptAsks \/ ScriptStops \/ ScriptRan \/ ScriptRestores
ProgramNext == Setup \/ StepDone \/ StepFails \/ Listened \/ Cleanup

WakeNext == ScriptNext \/ ProgramNext \/ Report \/ HelperKilled("killed")
WakeSpec == WakeInit /\ [][WakeNext]_wakeVars

\* Commands are answered or time out; a capture's deadline comes.
WakeFairness == WF_wakeVars(ScriptNext) /\ WF_wakeVars(ProgramNext)

----------------------------------------------------------------------------
WakeTypeOK ==
    /\ mode \in {"probe", "capture", "send"} /\ script \in {"ask", "stop", "run", "trap", "over", "unstarted"}
    /\ place \in {"none", "setup", "steps", "listen", "cleanup", "gone"}
    /\ place = "listen" => mode = "capture"
    /\ command \in 0 .. Len(Steps) /\ happenings \in 0 .. MaxHappenings
    /\ service \in BOOLEAN /\ wasActive \in BOOLEAN /\ ok \in BOOLEAN /\ heard \in BOOLEAN
    /\ scanning \in BOOLEAN /\ advertising \in BOOLEAN /\ deaf \in BOOLEAN
    /\ code \in {"none", "success", "failure", "killed"}

\* The capture that returned from its failed LE Scan Enable.
ScanEnableFailed == mode = "capture" /\ place = "gone" /\ command < Len(Steps) /\ Command = "scan on"

\* A program that ends by itself leaves the radio silent, at whatever step it
\* failed, except for a command to stop that the adapter refused. One failure
\* of the code itself is set apart: after an LE Scan Enable carried out whose
\* answer was lost, wake_capture_run() returns with the scan on, and says
\* failure.
RadioLeftSilent ==
    /\ place = "gone" /\ code = "success" /\ ~deaf => ~scanning /\ ~advertising
    /\ place = "gone" /\ code = "failure" /\ ~deaf /\ ~ScanEnableFailed => ~scanning /\ ~advertising

\* A test that says the adapter can wake a console turned both halves of the
\* radio on and off, whatever the cleanup was refused.
ProbeTellsTheTruth == mode = "probe" /\ code = "success" => ~scanning /\ ~advertising

\* A program that ends by itself leaves the adapter as it says it does.
HelperLeavesClean == RadioLeftSilent /\ ProbeTellsTheTruth

=============================================================================
