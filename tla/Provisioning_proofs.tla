------------------------ MODULE Provisioning_proofs ------------------------
(***************************************************************************)
(* Proofs about Provisioning: an inductive invariant, and from it the      *)
(* safety properties for every set of devices and every bound.             *)
(***************************************************************************)
EXTENDS Provisioning, TLAPS

(***************************************************************************)
(* An agent past loading its key has one to register and to sign with.     *)
(***************************************************************************)
AgentInv ==
    \A d \in Devices :
        agent[d] \in {"generated", "provisioning", "ready", "syncing", "connecting", "running"}
            => cur[d] \in Keys

(***************************************************************************)
(* mu, seen from the file: while a save is under way the map is the one    *)
(* being saved and the token that led to it is gone, and what was          *)
(* acknowledged is in the map of a running relay as well as in the file.   *)
(***************************************************************************)
SaveInv ==
    /\ relay = "down" => saving = {}
    /\ \A v \in saving :
         v.data = devices /\ devices[v.req.dev] # NoKey /\ v.req.dev \notin tokens
    /\ relay = "up" => \A d \in acked : devices[d] # NoKey
    /\ AckedDevicesInFile

(***************************************************************************)
(* With a keyring that works no other key than the stored one is around.   *)
(***************************************************************************)
KeyInv ==
    keyFaults = 0 =>
        /\ \A d \in Devices :
             /\ keyfile[d] = NoKey
             /\ agent[d] = "unprovisioned" => keyring[d] = NoKey
             /\ cur[d] \in {NoKey, keyring[d]}
             /\ devices[d] \in {NoKey, keyring[d]}
             /\ file[d] \in {NoKey, keyring[d]}
        /\ \A p \in posts : p.key = keyring[p.dev]

Invariant ==
    /\ TypeOK
    /\ AgentInv
    /\ SaveInv
    /\ NoDeviceShutOut
    /\ KeyInv

-----------------------------------------------------------------------------
(***************************************************************************)
(* Giving up a registration changes neither whose it is nor its key.       *)
(***************************************************************************)
LEMMA AbandonKeeps ==
    ASSUME TypeOK, NEW d \in Devices, Abandon(d)
    PROVE  /\ posts' \subseteq Registrations
           /\ saving' \subseteq Saves
           /\ reply' \in [Devices -> {"none", "ok", "refused", "failed"}]
           /\ \A p \in posts' : \E q \in posts : p.dev = q.dev /\ p.key = q.key
           /\ \A v \in saving' : \E w \in saving : v.req.dev = w.req.dev /\ v.data = w.data
           /\ saving = {} => saving' = {}
<1>1. \A p \in Registrations :
         /\ Forget(d, p) \in Registrations
         /\ Forget(d, p).dev = p.dev
         /\ Forget(d, p).key = p.key
  BY DEF Forget, Registrations
<1>2. \A v \in Saves :
         /\ [v EXCEPT !.req = Forget(d, v.req)] \in Saves
         /\ [v EXCEPT !.req = Forget(d, v.req)].req = Forget(d, v.req)
         /\ [v EXCEPT !.req = Forget(d, v.req)].data = v.data
         /\ v.req \in Registrations
  BY <1>1 DEF Saves
<1>3. posts \subseteq Registrations /\ saving \subseteq Saves
  BY DEF TypeOK
<1>4. /\ posts' = {Forget(d, p) : p \in posts}
      /\ saving' = {[v EXCEPT !.req = Forget(d, v.req)] : v \in saving}
  BY DEF Abandon
<1>5. reply' \in [Devices -> {"none", "ok", "refused", "failed"}]
  BY DEF Abandon, TypeOK
<1>6. posts' \subseteq Registrations /\ saving' \subseteq Saves
  BY <1>1, <1>2, <1>3, <1>4
<1>7. \A p \in posts' : \E q \in posts : p.dev = q.dev /\ p.key = q.key
  BY <1>1, <1>3, <1>4
<1>8. \A v \in saving' : \E w \in saving : v.req.dev = w.req.dev /\ v.data = w.data
  <2> SUFFICES ASSUME NEW w \in saving
               PROVE  LET v == [w EXCEPT !.req = Forget(d, w.req)]
                      IN  v.req.dev = w.req.dev /\ v.data = w.data
    BY <1>4
  <2> QED BY <1>1, <1>2, <1>3
<1>9. saving = {} => saving' = {}
  BY <1>4
<1> QED BY <1>5, <1>6, <1>7, <1>8, <1>9

(***************************************************************************)
(* A relay that starts for the first time satisfies the invariant.         *)
(***************************************************************************)
LEMMA InvariantInit == Init => Invariant
<1> SUFFICES ASSUME Init PROVE Invariant
  OBVIOUS
<1>1. TypeOK
  <2>1. [d \in Devices |-> NoKey] \in DeviceMaps
    BY DEF DeviceMaps
  <2>2. 0 \in 0..MaxKeys /\ 0 \in 0..MaxFaults /\ 0 \in 0..MaxKeyFaults
    BY ProvisioningAssumption
  <2>3. lastKey \in [Devices -> 0..MaxKeys]
    BY <2>2 DEF Init
  <2>4. /\ reply \in [Devices -> {"none", "ok", "refused", "failed"}]
        /\ agent \in [Devices -> {"off", "unprovisioned", "generated", "provisioning", "loading",
                                  "ready", "syncing", "connecting", "running"}]
    BY DEF Init
  <2> QED BY <2>1, <2>2, <2>3, <2>4 DEF Init, TypeOK
<1>2. AgentInv /\ SaveInv /\ NoDeviceShutOut
  BY DEF Init, AgentInv, SaveInv, NoDeviceShutOut, AckedDevicesInFile
<1>3. KeyInv
  BY DEF Init, KeyInv
<1> QED BY <1>1, <1>2, <1>3 DEF Invariant

(***************************************************************************)
(* The agent's steps that leave the relay's state alone.                   *)
(***************************************************************************)
LEMMA AgentStepKeeps ==
    ASSUME Invariant, NEW d \in Devices,
           AgentStep(d) \/ ManualProvision(d) \/ Disconnect(d)
    PROVE  Invariant'
<1> USE ProvisioningAssumption
    DEF Invariant, TypeOK, AgentInv, SaveInv, KeyInv, NoDeviceShutOut, AckedDevicesInFile,
        Keys, NoKey, DeviceMaps, relayVars, wireVars, faultVars, historyVars,
        Fault, KeyFault, NoFault, LoadKey, FileKey
<1>1. CASE EnsureProvisioned(d)
  BY <1>1 DEF EnsureProvisioned
<1>2. CASE GenerateKey(d)
  <2>1. CASE agent' = [agent EXCEPT ![d] = "generated"]
    BY <1>2, <2>1 DEF GenerateKey, StoreKey, KeyringStore, KeyfileStore, Registrations
  <2>2. CASE KeyFault /\ UNCHANGED <<keyring, keyfile, cur>> /\ agent' = [agent EXCEPT ![d] = "off"]
    BY <1>2, <2>2 DEF GenerateKey
  <2>3. CASE TearKeyFile(d) /\ UNCHANGED cur /\ agent' = [agent EXCEPT ![d] = "off"]
    BY <1>2, <2>3 DEF GenerateKey, TearKeyFile, KeyfileStore, BadKey
  <2> QED BY <1>2, <2>1, <2>2, <2>3 DEF GenerateKey
<1>3. CASE LoadRuntimeKey(d)
  BY <1>3 DEF LoadRuntimeKey
<1>4. CASE PostKey(d)
  <2> DEFINE p == [dev |-> d, key |-> cur[d], awaited |-> TRUE]
  <2>1. cur[d] \in Keys
    BY <1>4 DEF PostKey
  <2>2. p \in Registrations /\ p.dev = d /\ p.key = cur[d]
    BY <2>1 DEF Registrations
  <2>3. posts' \subseteq posts \cup {p}
    BY <1>4 DEF PostKey
  <2> HIDE DEF p
  <2>4. keyFaults = 0 => \A q \in posts' : q.key = keyring[q.dev]
    BY <2>1, <2>2, <2>3
  <2> QED BY <1>4, <2>1, <2>2, <2>3, <2>4 DEF PostKey
<1>5. CASE GetReply(d)
  BY <1>5 DEF GetReply, AfterReply, Awaiting
<1>6. CASE PostBreaks(d)
  BY <1>6 DEF PostBreaks, AfterReply, Awaiting
<1>7. CASE Connect(d)
  BY <1>7 DEF Connect
<1>8. CASE Disconnect(d)
  BY <1>8 DEF Disconnect
<1>9. CASE ManualProvision(d)
  <2> DEFINE k == lastKey[d] + 1
             p == [dev |-> d, key |-> k, awaited |-> FALSE]
  <2>1. k \in Keys /\ p \in Registrations
    BY <1>9 DEF ManualProvision, Registrations
  <2>2. posts' \subseteq posts \cup {p} /\ lastKey' = [lastKey EXCEPT ![d] = k]
    BY <1>9 DEF ManualProvision
  <2>3. /\ keyring' \in DeviceMaps
        /\ keyfile' \in [Devices -> Keys \cup {NoKey, BadKey}]
    BY <1>9, <2>1 DEF ManualProvision, KeyringStore, KeyfileStore
  <2>4. keyFaults' \in 0..MaxKeyFaults /\ keyFaults' # 0
    BY <1>9 DEF ManualProvision
  <2>5. UNCHANGED <<relayVars, agent, cur, reply, historyVars, faults>>
    BY <1>9 DEF ManualProvision
  <2> HIDE DEF k, p
  <2>6. posts' \subseteq Registrations /\ lastKey' \in [Devices -> 0..MaxKeys]
    BY <2>1, <2>2
  <2>7. TypeOK'
    BY <2>3, <2>4, <2>5, <2>6
  <2> QED BY <2>4, <2>5, <2>7
<1> QED BY <1>1, <1>2, <1>3, <1>4, <1>5, <1>6, <1>7, <1>8, <1>9 DEF AgentStep

(***************************************************************************)
(* The client's timeout and the death of an agent process.                 *)
(***************************************************************************)
LEMMA AbandonStepKeeps ==
    ASSUME Invariant, NEW d \in Devices, GiveUp(d) \/ AgentCrash(d)
    PROVE  Invariant'
<1>1. Abandon(d)
  BY DEF GiveUp, AgentCrash
<1>2. /\ posts' \subseteq Registrations
      /\ saving' \subseteq Saves
      /\ reply' \in [Devices -> {"none", "ok", "refused", "failed"}]
      /\ \A p \in posts' : \E q \in posts : p.dev = q.dev /\ p.key = q.key
      /\ \A v \in saving' : \E w \in saving : v.req.dev = w.req.dev /\ v.data = w.data
      /\ saving = {} => saving' = {}
  BY <1>1, AbandonKeeps DEF Invariant
<1> USE ProvisioningAssumption
    DEF Invariant, TypeOK, AgentInv, SaveInv, KeyInv, NoDeviceShutOut, AckedDevicesInFile,
        Keys, NoKey, DeviceMaps, historyVars, Fault
<1>3. CASE GiveUp(d)
  BY <1>2, <1>3 DEF GiveUp, AfterReply, Awaiting
<1>4. CASE AgentCrash(d)
  BY <1>2, <1>4 DEF AgentCrash
<1> QED BY <1>3, <1>4

(***************************************************************************)
(* The relay's steps.                                                      *)
(***************************************************************************)
LEMMA RelayStepKeeps ==
    ASSUME Invariant,
           \/ \E p \in posts : HandleProvision(p)
           \/ SaveStep
           \/ RelayCrash \/ RelayStart
    PROVE  Invariant'
<1> USE ProvisioningAssumption
    DEF Invariant, TypeOK, AgentInv, SaveInv, KeyInv, NoDeviceShutOut, AckedDevicesInFile,
        Keys, NoKey, DeviceMaps, agentVars, wireVars, faultVars, historyVars, Fault, NoFault
<1>1. ASSUME NEW p \in posts, HandleProvision(p) PROVE Invariant'
  <2>1. p \in Registrations
    OBVIOUS
  <2>2. CASE p.dev \in tokens
    BY <1>1, <2>1, <2>2 DEF HandleProvision, Registrations, Saves
  <2>3. CASE p.dev \notin tokens
    BY <1>1, <2>1, <2>3 DEF HandleProvision, Registrations, Answer
  <2> QED BY <2>2, <2>3
<1>2. ASSUME NEW v \in saving, Truncate(v) PROVE Invariant'
  BY <1>2 DEF Truncate, Saves
<1>3. ASSUME NEW v \in saving, FinishSave(v) PROVE Invariant'
  <2>1. v.data = devices /\ v.req \in Registrations /\ relay = "up"
    BY DEF Saves
  <2> QED BY <1>3, <2>1 DEF FinishSave, Answer, Registrations
<1>4. ASSUME NEW v \in saving, FailSave(v) PROVE Invariant'
  <2>1. v.req \in Registrations
    BY DEF Saves
  <2> QED BY <1>4, <2>1 DEF FailSave, Answer, Registrations
<1>5. CASE RelayCrash
  BY <1>5 DEF RelayCrash
<1>6. CASE RelayStart
  BY <1>6 DEF RelayStart, LoadDevicesFromFile, LoadSetupTokens
<1> QED BY <1>1, <1>2, <1>3, <1>4, <1>5, <1>6 DEF SaveStep

(***************************************************************************)
(* Every step keeps the invariant.                                         *)
(***************************************************************************)
LEMMA InvariantStep == Invariant /\ [Next]_vars => Invariant'
<1> SUFFICES ASSUME Invariant, [Next]_vars PROVE Invariant'
  OBVIOUS
<1>1. CASE \E d \in Devices : AgentStep(d) \/ ManualProvision(d) \/ Disconnect(d)
  BY <1>1, AgentStepKeeps
<1>2. CASE \E d \in Devices : GiveUp(d) \/ AgentCrash(d)
  BY <1>2, AbandonStepKeeps
<1>3. CASE (\E p \in posts : HandleProvision(p)) \/ SaveStep \/ RelayCrash \/ RelayStart
  BY <1>3, RelayStepKeeps
<1>4. CASE UNCHANGED vars
  BY <1>4 DEF vars, relayVars, agentVars, wireVars, faultVars, historyVars, Invariant, TypeOK,
     AgentInv, SaveInv, KeyInv, NoDeviceShutOut, AckedDevicesInFile
<1> QED BY <1>1, <1>2, <1>3, <1>4 DEF Next, Settled

(***************************************************************************)
(* The invariant holds in every state of every behaviour.                  *)
(***************************************************************************)
THEOREM InvariantCorrect == Spec => []Invariant
  BY InvariantInit, InvariantStep, PTL DEF Spec

(***************************************************************************)
(* Type correctness; no agent ever registers or signs without a key.       *)
(***************************************************************************)
THEOREM TypeCorrect == Spec => []TypeOK
<1>1. Invariant => TypeOK
  BY DEF Invariant
<1> QED BY <1>1, InvariantCorrect, PTL

(***************************************************************************)
(* handleProvision and main: the relay always knows a key of a device or   *)
(* would still take one.                                                   *)
(***************************************************************************)
THEOREM NobodyShutOut == Spec => []NoDeviceShutOut
<1>1. Invariant => NoDeviceShutOut
  BY DEF Invariant
<1> QED BY <1>1, InvariantCorrect, PTL

(***************************************************************************)
(* saveDevicesToFile under mu: a registration answered with 200 stays in   *)
(* every complete file the relay writes or reads from then on.             *)
(***************************************************************************)
THEOREM AckedIsDurable == Spec => []AckedDevicesInFile
<1>1. Invariant => AckedDevicesInFile
  BY DEF Invariant, SaveInv
<1> QED BY <1>1, InvariantCorrect, PTL

(***************************************************************************)
(* Provision stores the key before it registers it: with a keyring that    *)
(* works, both sides hold the same key whatever crashes or times out.      *)
(***************************************************************************)
THEOREM KeysAlwaysAgree == Spec => []KeysAgree
<1>1. Invariant => KeysAgree
  BY DEF Invariant, KeyInv, KeysAgree
<1> QED BY <1>1, InvariantCorrect, PTL

-----------------------------------------------------------------------------
(***************************************************************************)
(* Refinement.  Taking a registration is Enrol, finishing its save is      *)
(* Persist: SaveInv says that what is written then is the map in memory.   *)
(***************************************************************************)
LEMMA RegistryStep ==
    ASSUME Invariant, [Next]_vars
    PROVE  [Registry!RegistryNext]_(Registry!registryVars)
<1> USE DEF Registry!registryVars, relayVars, agentVars, historyVars
<1>t. TypeOK /\ SaveInv
  BY DEF Invariant
<1>1. ASSUME NEW p \in posts, HandleProvision(p)
      PROVE  [Registry!RegistryNext]_(Registry!registryVars)
  <2>1. p.dev \in Devices /\ p.key \in Keys
    BY <1>t DEF TypeOK, Registrations
  <2>2. CASE p.dev \in tokens
    BY <1>1, <2>1, <2>2 DEF HandleProvision, Registry!RegistryNext, Registry!Enrol
  <2>3. CASE p.dev \notin tokens
    BY <1>1, <2>3 DEF HandleProvision
  <2> QED BY <2>2, <2>3
<1>2. ASSUME NEW v \in saving, Truncate(v) \/ FailSave(v)
      PROVE  UNCHANGED Registry!registryVars
  BY <1>2 DEF Truncate, FailSave
<1>3. ASSUME NEW v \in saving, FinishSave(v) PROVE Registry!RegistryNext
  <2>1. /\ v.req.dev \in Devices /\ v.data = devices /\ v.req.dev \notin tokens
        /\ relay = "up"
    BY <1>t DEF TypeOK, SaveInv, Saves, Registrations
  <2> QED BY <1>3, <2>1 DEF FinishSave, Registry!RegistryNext, Registry!Persist
<1>4. CASE RelayCrash
  BY <1>4 DEF RelayCrash, Registry!RegistryNext, Registry!Crash, Registry!NoKeys
<1>5. CASE RelayStart
  BY <1>5 DEF RelayStart, LoadDevicesFromFile, LoadSetupTokens, Registry!RegistryNext,
              Registry!Start
<1>6. ASSUME NEW d \in Devices,
             AgentStep(d) \/ ManualProvision(d) \/ GiveUp(d) \/ AgentCrash(d) \/ Disconnect(d)
      PROVE  UNCHANGED Registry!registryVars
  BY <1>6 DEF AgentStep, EnsureProvisioned, GenerateKey, LoadRuntimeKey, PostKey, GetReply,
              PostBreaks, Connect, ManualProvision, GiveUp, AgentCrash, Disconnect
<1>7. CASE UNCHANGED vars
  BY <1>7 DEF vars
<1> QED BY <1>1, <1>2, <1>3, <1>4, <1>5, <1>6, <1>7 DEF Next, SaveStep, Settled

(***************************************************************************)
(* Provisioning implements KeyRegistry: a key changes at most once in one  *)
(* run of the relay, the file only ever receives the map in memory, and    *)
(* every acknowledged registration reached it so.                          *)
(***************************************************************************)
THEOREM RefinesKeyRegistry == Spec => ImplementsKeyRegistry
<1>1. Init => Registry!RegistryInit
  BY DEF Init, Registry!RegistryInit, Registry!NoKeys
<1>2. Invariant /\ [Next]_vars => [Registry!RegistryNext]_(Registry!registryVars)
  BY RegistryStep
<1> QED
  BY <1>1, <1>2, InvariantCorrect, PTL DEF Spec, ImplementsKeyRegistry, Registry!RegistrySpec
=============================================================================
