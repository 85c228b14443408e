------------------------ MODULE AgentService_proofs -------------------------
(***************************************************************************)
(* Proofs about AgentService, for any number of installations and faults.  *)
(***************************************************************************)
EXTENDS AgentService, TLAPS

(***************************************************************************)
(* InstalledVersionRuns and ConfigFitsProgram say nothing of the files     *)
(* while the service is down.  What makes them last: each of the           *)
(* installer's steps leaves the files it has copied alone; after a success *)
(* both files are the ones of the last installation, so that every later   *)
(* start loads these; and whenever there is a program to start, its config *)
(* is not a later one (a missing file counts as version 0).                *)
(***************************************************************************)
CopiedInv ==
    /\ step # "off" => installs \in Versions
    /\ step \in Steps \ {"off", "openExe", "writeExe"} => exe = installs
    /\ step \in {"create", "recovery", "failureflag", "stop", "start"} => config = installs
    /\ outcome = "completed" /\ step = "off" => exe = installs /\ config = installs
    /\ config <= installs
    /\ exe # Missing => config <= exe

IInv == TypeOK /\ CopiedInv /\ InstalledVersionRuns /\ ConfigFitsProgram

(***************************************************************************)
(* A machine on which nothing was installed satisfies the invariant.       *)
(***************************************************************************)
LEMMA IInvInit == Init => IInv
  BY ServiceAssumption
     DEF Init, IInv, TypeOK, CopiedInv, InstalledVersionRuns, ConfigFitsProgram, Steps, NoFiles,
         Missing, Versions

(***************************************************************************)
(* The installer's steps.                                                  *)
(***************************************************************************)
LEMMA InstallStepKeeps ==
    ASSUME IInv, StartInstall \/ Install \/ StepFails
    PROVE  IInv'
<1> USE ServiceAssumption
    DEF IInv, TypeOK, CopiedInv, InstalledVersionRuns, ConfigFitsProgram, Steps, Versions,
        Missing, NoFiles,
        Fault, NoFault, Fails, scmVars, processVars
<1>1. CASE StartInstall
  BY <1>1 DEF StartInstall
<1>2. CASE OpenExe
  BY <1>2 DEF OpenExe
<1>3. CASE WriteExe
  BY <1>3 DEF WriteExe
<1>4. CASE OpenConfig
  BY <1>4 DEF OpenConfig
<1>5. CASE WriteConfig
  BY <1>5 DEF WriteConfig
<1>6. CASE CreateService \/ SetRecovery \/ SetFailureFlag
  <2>1. CASE CreateService
    BY <1>6, <2>1 DEF CreateService, Configure
  <2>2. CASE SetRecovery
    BY <1>6, <2>2 DEF SetRecovery, Configure
  <2>3. CASE SetFailureFlag
    BY <1>6, <2>3 DEF SetFailureFlag, Configure
  <2> QED BY <1>6, <2>1, <2>2, <2>3
<1>7. CASE StopService
  BY <1>7 DEF StopService
<1>8. CASE StartService
  <2>1. CASE scm = "stopped" /\ Started
    <3>1. loaded' = [exe |-> installs, config |-> installs] /\ scm' = "starting"
      BY <1>8, <2>1 DEF StartService, StartProcess
    <3> QED BY <1>8, <2>1, <3>1 DEF StartService, StartProcess, Started
  <2>2. CASE scm = "stopped" /\ ~Started
    BY <1>8, <2>2 DEF StartService, StartProcess, Started
  <2>3. CASE scm # "stopped"
    BY <1>8, <2>3 DEF StartService
  <2> QED BY <2>1, <2>2, <2>3
<1>9. CASE StepFails
  BY <1>9 DEF StepFails
<1> QED BY <1>1, <1>2, <1>3, <1>4, <1>5, <1>6, <1>7, <1>8, <1>9 DEF Install

(***************************************************************************)
(* The steps of the service process and of the SCM.                        *)
(***************************************************************************)
LEMMA ServiceStepKeeps ==
    ASSUME IInv,
           \/ BeginExecute \/ RuntimeAdvances \/ RuntimeFails
           \/ ReceiveStop \/ StopReturns \/ ErrorReturns \/ ProcessDies
           \/ RestartTimer \/ Reboot
    PROVE  IInv'
<1> USE ServiceAssumption
    DEF IInv, TypeOK, CopiedInv, InstalledVersionRuns, ConfigFitsProgram, Versions, Missing,
        NoFiles,
        Fault, NoFault, installVars, scmVars, processVars
<1>1. CASE BeginExecute \/ RuntimeAdvances \/ RuntimeFails \/ ReceiveStop
  <2>1. CASE BeginExecute
    BY <2>1 DEF BeginExecute
  <2>2. CASE RuntimeAdvances
    BY <2>2 DEF RuntimeAdvances
  <2>3. CASE RuntimeFails
    BY <2>3 DEF RuntimeFails
  <2>4. CASE ReceiveStop
    BY <2>4 DEF ReceiveStop
  <2> QED BY <1>1, <2>1, <2>2, <2>3, <2>4
<1>2. CASE StopReturns \/ ErrorReturns \/ ProcessDies
  <2>1. timer' \in {"off", "set"}
    BY <1>2 DEF StopReturns, ErrorReturns, ProcessDies, ProcessEnds
  <2>2. scm' = "stopped" /\ loaded' = NoFiles /\ runtime' = "none" /\ control' = "none"
    BY <1>2 DEF StopReturns, ErrorReturns, ProcessDies, ProcessEnds, NoProcess
  <2>3. UNCHANGED installVars /\ faults' \in 0..MaxFaults
    <3>1. CASE StopReturns \/ ErrorReturns
      BY <3>1 DEF StopReturns, ErrorReturns
    <3>2. CASE ProcessDies
      BY <3>2 DEF ProcessDies
    <3> QED BY <1>2, <3>1, <3>2
  <2> QED BY <2>1, <2>2, <2>3
<1>3. CASE RestartTimer
  <2>1. timer' = "off" /\ UNCHANGED <<installVars, faults>>
    BY <1>3 DEF RestartTimer
  <2>2. CASE scm = "stopped" /\ Started
    <3>1. /\ loaded' = [exe |-> exe, config |-> config] /\ scm' = "starting"
          /\ UNCHANGED <<runtime, control>>
      BY <1>3, <2>2 DEF RestartTimer, StartProcess
    <3> QED BY <2>1, <2>2, <3>1 DEF Started
  <2>3. CASE ~(scm = "stopped" /\ Started)
    <3>1. UNCHANGED <<scm, control, processVars>>
      BY <1>3, <2>3 DEF RestartTimer, StartProcess
    <3> QED BY <2>1, <3>1
  <2> QED BY <2>2, <2>3
<1>4. CASE Reboot
  BY <1>4 DEF Reboot, Started, Steps
<1> QED BY <1>1, <1>2, <1>3, <1>4

(***************************************************************************)
(* No step of the installer, of the service or of the SCM breaks it.       *)
(***************************************************************************)
LEMMA IInvStep == IInv /\ [Next]_vars => IInv'
<1> SUFFICES ASSUME IInv, [Next]_vars PROVE IInv'
  OBVIOUS
<1>1. CASE Next
  BY <1>1, InstallStepKeeps, ServiceStepKeeps DEF Next, Settled, vars, installVars,
     processVars, scmVars, IInv, TypeOK, CopiedInv, InstalledVersionRuns, ConfigFitsProgram
<1>2. CASE UNCHANGED vars
  BY <1>2 DEF vars, installVars, processVars, scmVars, IInv, TypeOK, CopiedInv,
     InstalledVersionRuns, ConfigFitsProgram
<1> QED BY <1>1, <1>2

(***************************************************************************)
(* The inductive invariant holds in every reachable state.                 *)
(***************************************************************************)
THEOREM IInvCorrect == Spec => []IInv
  BY IInvInit, IInvStep, PTL DEF Spec

(***************************************************************************)
(* Type correctness; no service process runs without its program and its   *)
(* config.                                                                 *)
(***************************************************************************)
THEOREM TypeCorrect == Spec => []TypeOK
<1>1. IInv => TypeOK
  BY DEF IInv
<1> QED BY <1>1, IInvCorrect, PTL

(***************************************************************************)
(* After "Installation completed." the copied program and config run, for  *)
(* any number of installations, failures and restarts.                     *)
(***************************************************************************)
THEOREM InstalledVersionRunsCorrect == Spec => []InstalledVersionRuns
<1>1. IInv => InstalledVersionRuns
  BY DEF IInv
<1> QED BY <1>1, IInvCorrect, PTL

(***************************************************************************)
(* The config of a running process is never newer than its program, for    *)
(* any number of installations that fail at any step.                      *)
(***************************************************************************)
THEOREM ConfigFitsProgramCorrect == Spec => []ConfigFitsProgram
<1>1. IInv => ConfigFitsProgram
  BY DEF IInv
<1> QED BY <1>1, IInvCorrect, PTL
=============================================================================
