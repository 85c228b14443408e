---------------------------- MODULE AgentService ----------------------------
(***************************************************************************)
(* The agent on Windows: agent --install, which copies the program and its *)
(* config and registers and starts the service; the service process, whose *)
(* Execute loop waits for control requests and for the end of the runtime; *)
(* and, external to the program, the service control manager (SCM) with    *)
(* its recovery actions, and Windows, which refuses to overwrite a program *)
(* that runs.                                                              *)
(*                                                                         *)
(* The n-th run of the installer copies version n of both files.           *)
(***************************************************************************)
EXTENDS Naturals

CONSTANTS
    MaxInstalls,    \* bound: runs of the installer
    MaxFaults       \* bound: runtime errors, crashes, reboots, steps that fail

ASSUME ServiceAssumption == MaxInstalls \in Nat /\ MaxFaults \in Nat

Versions == 1..MaxInstalls
Missing  == 0           \* no file, or one that is not completely written

NoFiles  == [exe |-> Missing, config |-> Missing]

VARIABLES
    step,       \* what the installer does next
    outcome,    \* what the last finished installer said
    installs,   \* runs of the installer so far
    exe, config,    \* the versions in the install directory
    service,    \* what the SCM has of the service: its entry, recovery actions, failureflag
    scm,        \* the SCM's state of the service
    timer,      \* "set" when the SCM is about to restart the service
    control,    \* a control request that Execute has not received
    loaded,     \* the versions the service process started with
    runtime,    \* the goroutine of Execute: how far it is, or its error
    faults

installVars == <<step, outcome, installs, exe, config, service>>
processVars == <<loaded, runtime>>
scmVars     == <<scm, timer, control>>
vars == <<installVars, processVars, scmVars, faults>>

Steps == {"off", "openExe", "writeExe", "openConfig", "writeConfig",
          "create", "recovery", "failureflag", "stop", "start"}

TypeOK ==
    /\ step \in Steps
    /\ outcome \in {"none", "completed", "failed"}
    /\ installs \in 0..MaxInstalls
    /\ exe \in Versions \cup {Missing} /\ config \in Versions \cup {Missing}
    /\ service \subseteq {"entry", "actions", "failureflag"}
    /\ scm \in {"stopped", "starting", "running", "stopping"}
    /\ timer \in {"off", "set"} /\ control \in {"none", "stop"}
    /\ loaded \in [exe : Versions \cup {Missing}, config : Versions \cup {Missing}]
    /\ scm # "stopped" => loaded.exe # Missing /\ loaded.config # Missing
    /\ runtime \in {"none", "provisioning", "opening", "serving", "error"}
    /\ faults \in 0..MaxFaults

\* A machine on which nothing was installed.
Init ==
    /\ step = "off" /\ outcome = "none" /\ installs = 0
    /\ exe = Missing /\ config = Missing
    /\ service = {}
    /\ scm = "stopped" /\ timer = "off" /\ control = "none"
    /\ loaded = NoFiles
    /\ runtime = "none"
    /\ faults = 0

Fault   == faults < MaxFaults /\ faults' = faults + 1
NoFault == UNCHANGED faults

-----------------------------------------------------------------------------
(***************************************************************************)
(* The SCM.                                                                *)
(***************************************************************************)
NoProcess ==
    /\ loaded' = NoFiles
    /\ runtime' = "none"
    /\ control' = "none"

\* Mutant: a config that cannot be loaded does not end the process.
StartsWithoutConfig == exe # Missing

\* A process that starts reads its config first; without one, or without a
\* whole program, it does not come up.
Started == exe # Missing /\ config # Missing

StartProcess ==
    /\ scm' = IF Started THEN "starting" ELSE "stopped"
    /\ loaded' = IF Started THEN [exe |-> exe, config |-> config] ELSE loaded
    /\ UNCHANGED <<runtime, control>>

\* The service process ended; failed: with an exit code other than 0, or
\* without a word, which needs no failureflag.
ProcessEnds(failed) ==
    /\ scm' = "stopped"
    /\ timer' = IF failed THEN "set" ELSE timer
    /\ NoProcess

\* restart/5000/restart/15000/restart/30000
RestartTimer ==
    /\ timer = "set"
    /\ timer' = "off"
    /\ IF scm = "stopped" THEN StartProcess ELSE UNCHANGED <<scm, control, processVars>>
    /\ NoFault
    /\ UNCHANGED installVars

\* The machine restarts: the installer is gone, the service starts with
\* Windows.
Reboot ==
    /\ Fault
    /\ step' = "off"
    /\ outcome' = IF step = "off" THEN outcome ELSE "failed"
    /\ timer' = "off"
    /\ scm' = IF "entry" \in service /\ Started THEN "starting" ELSE "stopped"
    /\ loaded' = IF scm' = "starting" THEN [exe |-> exe, config |-> config] ELSE NoFiles
    /\ runtime' = "none" /\ control' = "none"
    /\ UNCHANGED <<installs, exe, config, service>>

-----------------------------------------------------------------------------
(***************************************************************************)
(* The service process.                                                    *)
(***************************************************************************)

\* Execute starts the goroutine and announces Running.
BeginExecute ==
    /\ scm = "starting"
    /\ scm' = "running"
    /\ runtime' = "provisioning"
    /\ NoFault
    /\ UNCHANGED <<installVars, timer, control, loaded>>

\* ensureProvisioned, then runAgentRuntime, which does not come back from
\* its loop.
RuntimeAdvances ==
    /\ runtime \in {"provisioning", "opening"}
    /\ runtime' = IF runtime = "provisioning" THEN "opening" ELSE "serving"
    /\ NoFault
    /\ UNCHANGED <<installVars, scmVars, loaded>>

\* Provisioning fails, or runAgentRuntime before its loop: errCh <- err.
RuntimeFails ==
    /\ runtime \in {"provisioning", "opening"}
    /\ Fault
    /\ runtime' = "error"
    /\ UNCHANGED <<installVars, scmVars, loaded>>

\* Mutant: the loop looks at its requests when the runtime is done.
ReceiveStopLate ==
    /\ scm = "running"
    /\ control = "stop" /\ runtime = "error"
    /\ scm' = "stopping"
    /\ control' = "none"
    /\ NoFault
    /\ UNCHANGED <<installVars, timer, processVars>>

\* case change := <-req: StopPending ...
ReceiveStop ==
    /\ scm = "running"
    /\ control = "stop"
    /\ scm' = "stopping"
    /\ control' = "none"
    /\ NoFault
    /\ UNCHANGED <<installVars, timer, processVars>>

\* ... and Execute returns 0, whatever the runtime is doing.
StopReturns ==
    /\ scm = "stopping"
    /\ ProcessEnds(FALSE)
    /\ NoFault
    /\ UNCHANGED installVars

\* Mutant: an error of the runtime is a normal end.
ErrorReturnsZero ==
    /\ scm = "running"
    /\ runtime = "error"
    /\ ProcessEnds(FALSE)
    /\ NoFault
    /\ UNCHANGED installVars

\* case err := <-errCh: Execute returns 1, which counts as a failure of the
\* service only with the failureflag.
ErrorReturns ==
    /\ scm = "running"
    /\ runtime = "error"
    /\ ProcessEnds({"actions", "failureflag"} \subseteq service)
    /\ NoFault
    /\ UNCHANGED installVars

\* The process dies: a panic, or killed.
ProcessDies ==
    /\ scm \in {"running", "stopping"}
    /\ Fault
    /\ ProcessEnds("actions" \in service)
    /\ UNCHANGED installVars

-----------------------------------------------------------------------------
(***************************************************************************)
(* The installer.                                                          *)
(***************************************************************************)
StartInstall ==
    /\ step = "off"
    /\ installs < MaxInstalls
    /\ installs' = installs + 1
    /\ step' = "openExe"
    /\ NoFault
    /\ UNCHANGED <<outcome, exe, config, service, scmVars, processVars>>

Fails == step' = "off" /\ outcome' = "failed"

\* Mutant: a program that cannot be overwritten is kept, and the installer
\* goes on with the config.
OpenExeKeepsGoing ==
    /\ step = "openExe"
    /\ IF scm = "stopped"
       THEN step' = "writeExe" /\ exe' = Missing
       ELSE step' = "openConfig" /\ UNCHANGED exe
    /\ NoFault
    /\ UNCHANGED <<outcome, installs, config, service, scmVars, processVars>>

\* copyFile truncates agent.exe, unless the service runs it ...
OpenExe ==
    /\ step = "openExe"
    /\ IF scm = "stopped"
       THEN step' = "writeExe" /\ exe' = Missing /\ UNCHANGED outcome
       ELSE Fails /\ UNCHANGED exe
    /\ NoFault
    /\ UNCHANGED <<installs, config, service, scmVars, processVars>>

\* ... and writes it; config.json the same.
WriteExe ==
    /\ step = "writeExe"
    /\ step' = "openConfig"
    /\ exe' = installs
    /\ NoFault
    /\ UNCHANGED <<outcome, installs, config, service, scmVars, processVars>>

OpenConfig ==
    /\ step = "openConfig"
    /\ step' = "writeConfig"
    /\ config' = Missing
    /\ NoFault
    /\ UNCHANGED <<outcome, installs, exe, service, scmVars, processVars>>

WriteConfig ==
    /\ step = "writeConfig"
    /\ step' = "create"
    /\ config' = installs
    /\ NoFault
    /\ UNCHANGED <<outcome, installs, exe, service, scmVars, processVars>>

\* sc create, or sc config for a service that exists; sc failure; sc failureflag.
Configure(at, next, what) ==
    /\ step = at
    /\ step' = next
    /\ service' = service \cup {what}
    /\ NoFault
    /\ UNCHANGED <<outcome, installs, exe, config, scmVars, processVars>>

CreateService  == Configure("create", "recovery", "entry")
SetRecovery    == Configure("recovery", "failureflag", "actions")
SetFailureFlag == Configure("failureflag", "stop", "failureflag")

\* sc stop: the request is sent, nobody waits for its effect, and a refusal
\* (not running, or still starting) is ignored.
StopService ==
    /\ step = "stop"
    /\ step' = "start"
    /\ control' = IF scm = "running" THEN "stop" ELSE control
    /\ NoFault
    /\ UNCHANGED <<outcome, installs, exe, config, service, scm, timer, processVars>>

\* Mutant: the error of sc start is ignored like that of sc stop.
StartServiceUnchecked ==
    /\ step = "start"
    /\ step' = "off" /\ outcome' = "completed"
    /\ IF scm = "stopped" THEN StartProcess ELSE UNCHANGED <<scm, control, processVars>>
    /\ NoFault
    /\ UNCHANGED <<installs, exe, config, service, timer>>

\* sc start fails unless the service is stopped.
StartService ==
    /\ step = "start"
    /\ IF scm = "stopped"
       THEN step' = "off" /\ outcome' = "completed" /\ StartProcess
       ELSE Fails /\ UNCHANGED <<scm, control, processVars>>
    /\ NoFault
    /\ UNCHANGED <<installs, exe, config, service, timer>>

\* Any other step may fail and ends the installer; what was done stays done.
StepFails ==
    /\ step \notin {"off", "stop"}
    /\ Fault
    /\ Fails
    /\ UNCHANGED <<installs, exe, config, service, scmVars, processVars>>

-----------------------------------------------------------------------------
Install ==
    \/ OpenExe \/ WriteExe \/ OpenConfig \/ WriteConfig
    \/ CreateService \/ SetRecovery \/ SetFailureFlag
    \/ StopService \/ StartService

\* The runtime serves, or there is no service to wait for.
Settled ==
    /\ step = "off" /\ scm \in {"running", "stopped"} /\ timer = "off" /\ control = "none"
    /\ runtime \in {"serving", "none"}
    /\ UNCHANGED vars

Next ==
    \/ StartInstall \/ Install \/ StepFails
    \/ BeginExecute \/ RuntimeAdvances \/ RuntimeFails
    \/ ReceiveStop \/ StopReturns \/ ErrorReturns \/ ProcessDies
    \/ RestartTimer \/ Reboot
    \/ Settled

Spec == Init /\ [][Next]_vars

(***************************************************************************)
(* Both processes run, select in Execute comes to each of its cases, and   *)
(* the SCM's timer fires.  Nobody has to install, and nothing has to fail. *)
(***************************************************************************)
FairSpec ==
    /\ Spec
    /\ WF_vars(Install)
    /\ WF_vars(BeginExecute) /\ WF_vars(RuntimeAdvances)
    /\ WF_vars(ReceiveStop) /\ WF_vars(StopReturns) /\ WF_vars(ErrorReturns)
    /\ WF_vars(RestartTimer)

-----------------------------------------------------------------------------
(***************************************************************************)
(* When the installer says "Installation completed.", what runs, then and  *)
(* after every restart, is the program and the config it copied, also if   *)
(* the SCM started the service between two of its steps.  (installAgent's  *)
(* order, and that an error of sc start is reported.)                      *)
(***************************************************************************)
InstalledVersionRuns ==
    outcome = "completed" /\ step = "off" /\ scm # "stopped" =>
        loaded = [exe |-> installs, config |-> installs]

(***************************************************************************)
(* No process ever runs an older program with a newer config, whichever    *)
(* installations failed half-way and whenever the SCM started the service  *)
(* in between.  (installAgent copies the program first, and an error ends  *)
(* it before it touches the config.)                                       *)
(***************************************************************************)
ConfigFitsProgram == scm # "stopped" => loaded.config <= loaded.exe

(***************************************************************************)
(* "The agent is now running in the background": after an installation     *)
(* that said so, the runtime comes to serve, and again after every error,  *)
(* crash and reboot, until somebody installs anew.  (The recovery actions, *)
(* the failureflag, and Execute's exit code.)                              *)
(***************************************************************************)
InstalledServiceServes ==
    outcome = "completed" /\ step = "off" ~> runtime = "serving" \/ step # "off"

(***************************************************************************)
(* A stop request ends the service process, whatever its runtime is doing. *)
(* (Execute's select beside the goroutine.)                                *)
(***************************************************************************)
StopHonoured == control = "stop" ~> runtime = "none"
=============================================================================
