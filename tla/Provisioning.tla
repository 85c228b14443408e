---------------------------- MODULE Provisioning ----------------------------
(***************************************************************************)
(* How a device's key comes to be known by the relay, and stays known:     *)
(* the agent's key stores, ensureProvisioned, Provision and the re-sync    *)
(* before every connection; the relay's handleProvision with its setup     *)
(* tokens, its device map and the file behind it; failures and restarts of *)
(* both processes.                                                         *)
(*                                                                         *)
(* The keys of a device are numbered in the order the agent generates      *)
(* them.  Every device has a setup token in the relay's environment or     *)
(* token file and in its own config.                                       *)
(***************************************************************************)
EXTENDS Naturals, FiniteSets

CONSTANTS
    Devices,
    MaxKeys,        \* bound: keys one agent generates
    MaxFaults,      \* bound: crashes, timeouts, failed writes, lost connections
    MaxKeyFaults,   \* bound: transient keyring failures and runs of agent --provision
    Fallback,       \* BIGBROTHER_ALLOW_KEYFILE_FALLBACK
    TornWrites      \* whether a process may die, or a disk fail, inside WriteFile

ASSUME ProvisioningAssumption ==
    /\ MaxKeys \in Nat /\ MaxFaults \in Nat /\ MaxKeyFaults \in Nat
    /\ Fallback \in BOOLEAN /\ TornWrites \in BOOLEAN

Keys   == 1..MaxKeys
NoKey  == 0
BadKey == MaxKeys + 1   \* a key file that was written in part

VARIABLES
    relay,      \* "up" or "down"
    tokens,     \* devices whose setup token the relay process still has
    devices,    \* the relay process's map of device keys
    saving,     \* calls of handleProvision inside saveDevicesToFile
    file,       \* the device map on disk
    torn,       \* whether the file holds no complete map
    posts,      \* registrations under way to the relay
    reply,      \* the relay's answer to the registration a device waits for
    agent,      \* where the agent process of each device is
    cur,        \* the key the agent process uses
    keyring,    \* the key in the operating system's keyring
    keyfile,    \* what the fallback file holds
    lastKey,    \* keys generated so far
    faults, keyFaults,
    acked,      \* (history) devices whose registration was acknowledged
    spent       \* (history) setup tokens that registered a key

relayVars   == <<relay, tokens, devices, saving, file, torn>>
agentVars   == <<agent, cur, keyring, keyfile, lastKey>>
wireVars    == <<posts, reply>>
faultVars   == <<faults, keyFaults>>
historyVars == <<acked, spent>>
vars == <<relayVars, agentVars, wireVars, faultVars, historyVars>>

DeviceMaps    == [Devices -> Keys \cup {NoKey}]
Registrations == [dev : Devices, key : Keys, awaited : BOOLEAN]
Saves         == [req : Registrations, data : DeviceMaps, stage : {"opening", "truncated"}]

TypeOK ==
    /\ relay \in {"up", "down"}
    /\ tokens \subseteq Devices
    /\ devices \in DeviceMaps
    /\ saving \subseteq Saves
    /\ file \in DeviceMaps
    /\ torn \in BOOLEAN
    /\ posts \subseteq Registrations
    /\ reply \in [Devices -> {"none", "ok", "refused", "failed"}]
    /\ agent \in [Devices -> {"off", "unprovisioned", "generated", "provisioning", "loading", "ready",
                              "syncing", "connecting", "running"}]
    /\ cur \in DeviceMaps
    /\ keyring \in DeviceMaps
    /\ keyfile \in [Devices -> Keys \cup {NoKey, BadKey}]
    /\ lastKey \in [Devices -> 0..MaxKeys]
    /\ faults \in 0..MaxFaults
    /\ keyFaults \in 0..MaxKeyFaults
    /\ acked \subseteq Devices
    /\ spent \subseteq Devices

\* A relay that starts for the first time, agents not started yet.
Init ==
    /\ relay = "up"
    /\ tokens = Devices
    /\ devices = [d \in Devices |-> NoKey]
    /\ saving = {}
    /\ file = [d \in Devices |-> NoKey]
    /\ torn = FALSE
    /\ posts = {}
    /\ reply = [d \in Devices |-> "none"]
    /\ agent = [d \in Devices |-> "off"]
    /\ cur = [d \in Devices |-> NoKey]
    /\ keyring = [d \in Devices |-> NoKey]
    /\ keyfile = [d \in Devices |-> NoKey]
    /\ lastKey = [d \in Devices |-> 0]
    /\ faults = 0
    /\ keyFaults = 0
    /\ acked = {}
    /\ spent = {}

Fault      == faults < MaxFaults /\ faults' = faults + 1 /\ UNCHANGED keyFaults
KeyFault == keyFaults < MaxKeyFaults /\ keyFaults' = keyFaults + 1 /\ UNCHANGED faults
NoFault    == UNCHANGED faultVars

-----------------------------------------------------------------------------
(***************************************************************************)
(* The agent process: main or the Windows service, then runAgentRuntime.   *)
(***************************************************************************)
FileKey(d) == IF Fallback THEN keyfile[d] ELSE NoKey

\* loadPrivateKey returns k: the keyring first, then the fallback file; the
\* keyring may fail although it holds a key.
LoadKey(d, k) ==
    \/ keyring[d] # NoKey /\ k = keyring[d] /\ NoFault
    \/ keyring[d] = NoKey /\ k = FileKey(d) /\ NoFault
    \/ keyring[d] # NoKey /\ k = FileKey(d) /\ KeyFault

\* storePrivateKey: the keyring, or the file if the keyring fails.
KeyringStore(d, k) == keyring' = [keyring EXCEPT ![d] = k] /\ UNCHANGED keyfile
KeyfileStore(d, k) == Fallback /\ keyfile' = [keyfile EXCEPT ![d] = k] /\ UNCHANGED keyring

StoreKey(d, k) ==
    \/ KeyringStore(d, k) /\ NoFault
    \/ KeyfileStore(d, k) /\ KeyFault

\* The process dies, or the disk is full, after os.WriteFile truncated the file.
TearKeyFile(d) ==
    /\ TornWrites
    /\ KeyfileStore(d, BadKey)
    /\ faults < MaxFaults /\ faults' = faults + 1
    /\ keyFaults < MaxKeyFaults /\ keyFaults' = keyFaults + 1

\* ensureProvisioned: any failure to load a key leads to Provision.
EnsureProvisioned(d) ==
    /\ agent[d] = "off"
    /\ \E k \in Keys \cup {NoKey, BadKey} :
         /\ LoadKey(d, k)
         /\ agent' = [agent EXCEPT ![d] = IF k = NoKey THEN "unprovisioned" ELSE "loading"]
    /\ UNCHANGED <<relayVars, cur, keyring, keyfile, lastKey, wireVars, historyVars>>

\* Mutant: the key is registered before it is stored.
GenerateKeyUnstored(d) ==
    /\ agent[d] = "unprovisioned"
    /\ lastKey[d] < MaxKeys
    /\ lastKey' = [lastKey EXCEPT ![d] = @ + 1]
    /\ agent' = [agent EXCEPT ![d] = "generated"]
    /\ cur' = [cur EXCEPT ![d] = lastKey[d] + 1]
    /\ NoFault
    /\ UNCHANGED <<relayVars, keyring, keyfile, wireVars, historyVars>>

\* Provision up to the registration: a new key, stored before the relay
\* knows it.  A key that cannot be stored ends the process.
GenerateKey(d) ==
    /\ agent[d] = "unprovisioned"
    /\ lastKey[d] < MaxKeys
    /\ lastKey' = [lastKey EXCEPT ![d] = @ + 1]
    /\ \/ /\ StoreKey(d, lastKey[d] + 1)
          /\ agent' = [agent EXCEPT ![d] = "generated"]
          /\ cur' = [cur EXCEPT ![d] = lastKey[d] + 1]
       \/ /\ \/ KeyFault /\ UNCHANGED <<keyring, keyfile>>
             \/ TearKeyFile(d)
          /\ agent' = [agent EXCEPT ![d] = "off"]
          /\ UNCHANGED cur
    /\ UNCHANGED <<relayVars, wireVars, historyVars>>

\* Mutant: the error of loadStoredPrivateKey is ignored.
LoadRuntimeKeyUnchecked(d) ==
    /\ agent[d] = "loading"
    /\ \E k \in Keys \cup {NoKey, BadKey} :
         /\ LoadKey(d, k)
         /\ agent' = [agent EXCEPT ![d] = "ready"]
         /\ cur' = [cur EXCEPT ![d] = k]
    /\ UNCHANGED <<relayVars, keyring, keyfile, lastKey, wireVars, historyVars>>

\* runAgentRuntime loads the key once more.  It ends without a key, and
\* panics on one that is too short (readKeyFile checks no length).
LoadRuntimeKey(d) ==
    /\ agent[d] = "loading"
    /\ \E k \in Keys \cup {NoKey, BadKey} :
         /\ LoadKey(d, k)
         /\ agent' = [agent EXCEPT ![d] = IF k \in Keys THEN "ready" ELSE "off"]
         /\ cur' = [cur EXCEPT ![d] = IF k \in Keys THEN k ELSE NoKey]
    /\ UNCHANGED <<relayVars, keyring, keyfile, lastKey, wireVars, historyVars>>

\* agent --provision, a process of its own beside the service: Provision once
\* more, whatever key is stored.  Its post is lost if it dies before, and
\* nothing depends on the answer.
ManualProvision(d) ==
    LET k == lastKey[d] + 1 IN
    /\ lastKey[d] < MaxKeys
    /\ lastKey' = [lastKey EXCEPT ![d] = k]
    /\ KeyringStore(d, k) \/ KeyfileStore(d, k)
    /\ \/ UNCHANGED posts
       \/ relay = "up" /\ posts' = posts \cup {[dev |-> d, key |-> k, awaited |-> FALSE]}
    /\ KeyFault
    /\ UNCHANGED <<relayVars, agent, cur, reply, historyVars>>

\* Mutant: the reconnect loop does not register again.
PostKeyOnce(d) ==
    /\ agent[d] \in {"generated", "ready"}
    /\ agent' = [agent EXCEPT ![d] = IF @ = "generated" THEN "provisioning" ELSE "connecting"]
    /\ posts' = IF relay = "up" /\ agent[d] = "generated"
                THEN posts \cup {[dev |-> d, key |-> cur[d], awaited |-> TRUE]}
                ELSE posts
    /\ NoFault
    /\ UNCHANGED <<relayVars, cur, keyring, keyfile, lastKey, reply, historyVars>>

\* registerPublicKey posts the key: from Provision, or from
\* syncProvisionedDevice at the head of the reconnect loop.
PostKey(d) ==
    /\ agent[d] \in {"generated", "ready"}
    /\ agent' = [agent EXCEPT ![d] = IF @ = "generated" THEN "provisioning" ELSE "syncing"]
    /\ posts' = IF relay = "up"
                THEN posts \cup {[dev |-> d, key |-> cur[d], awaited |-> TRUE]}
                ELSE posts
    /\ NoFault
    /\ UNCHANGED <<relayVars, cur, keyring, keyfile, lastKey, reply, historyVars>>

Awaiting(d) == agent[d] \in {"provisioning", "syncing"}

\* A failed registration ends Provision and the process; a failed sync is
\* logged and the agent connects all the same.
AfterReply(d, ok) ==
    IF agent[d] = "syncing" THEN "connecting" ELSE IF ok THEN "loading" ELSE "off"

GetReply(d) ==
    /\ Awaiting(d)
    /\ reply[d] # "none"
    /\ agent' = [agent EXCEPT ![d] = AfterReply(d, reply[d] = "ok")]
    /\ reply' = [reply EXCEPT ![d] = "none"]
    /\ NoFault
    /\ UNCHANGED <<relayVars, cur, keyring, keyfile, lastKey, posts, historyVars>>

\* The relay is down, or went down before it answered.
PostBreaks(d) ==
    /\ Awaiting(d)
    /\ reply[d] = "none"
    /\ \A p \in posts \cup {v.req : v \in saving} : ~(p.dev = d /\ p.awaited)
    /\ agent' = [agent EXCEPT ![d] = AfterReply(d, FALSE)]
    /\ NoFault
    /\ UNCHANGED <<relayVars, cur, keyring, keyfile, lastKey, wireVars, historyVars>>

\* The device no longer waits for its registration, which the relay may
\* still receive.
Forget(d, p) == IF p.dev = d THEN [p EXCEPT !.awaited = FALSE] ELSE p
Abandon(d) ==
    /\ posts' = {Forget(d, p) : p \in posts}
    /\ saving' = {[v EXCEPT !.req = Forget(d, v.req)] : v \in saving}
    /\ reply' = [reply EXCEPT ![d] = "none"]

\* The client's 10 s are over.
GiveUp(d) ==
    /\ Awaiting(d)
    /\ Fault
    /\ Abandon(d)
    /\ agent' = [agent EXCEPT ![d] = AfterReply(d, FALSE)]
    /\ UNCHANGED <<relay, tokens, devices, file, torn, cur, keyring, keyfile, lastKey, historyVars>>

\* The agent process dies; what it had in memory is gone.
AgentCrash(d) ==
    /\ agent[d] # "off"
    /\ Fault
    /\ Abandon(d)
    /\ agent' = [agent EXCEPT ![d] = "off"]
    /\ cur' = [cur EXCEPT ![d] = NoKey]
    /\ UNCHANGED <<relay, tokens, devices, file, torn, keyring, keyfile, lastKey, historyVars>>

\* tls.Dial and the check of the key in handleAgentConn, under mu.  A dial
\* error and a refused connection both lead back to the sync.
Connect(d) ==
    /\ agent[d] = "connecting"
    /\ relay = "up" => saving = {}
    /\ agent' = [agent EXCEPT ![d] =
                   IF relay = "up" /\ devices[d] = cur[d] THEN "running" ELSE "ready"]
    /\ NoFault
    /\ UNCHANGED <<relayVars, cur, keyring, keyfile, lastKey, wireVars, historyVars>>

\* The connection breaks.
Disconnect(d) ==
    /\ agent[d] = "running"
    /\ Fault
    /\ agent' = [agent EXCEPT ![d] = "ready"]
    /\ UNCHANGED <<relayVars, cur, keyring, keyfile, lastKey, wireVars, historyVars>>

-----------------------------------------------------------------------------
(***************************************************************************)
(* The relay process.  handleProvision holds mu from the check of the      *)
(* token until saveDevicesToFile returns.                                  *)
(***************************************************************************)
Answer(p, result) == IF p.awaited THEN [reply EXCEPT ![p.dev] = result] ELSE reply

\* Mutant: mu is released before saveDevicesToFile.
HandleProvisionUnlocked(p) ==
    /\ relay = "up"
    /\ p \in posts
    /\ posts' = posts \ {p}
    /\ IF p.dev \in tokens
       THEN /\ tokens' = tokens \ {p.dev}
            /\ devices' = [devices EXCEPT ![p.dev] = p.key]
            /\ saving' = saving \cup {[req |-> p, data |-> devices', stage |-> "opening"]}
            /\ spent' = spent \cup {p.dev}
            /\ UNCHANGED reply
       ELSE /\ reply' = Answer(p, "refused")
            /\ UNCHANGED <<tokens, devices, saving, spent>>
    /\ NoFault
    /\ UNCHANGED <<relay, file, torn, agentVars, acked>>

HandleProvision(p) ==
    /\ relay = "up"
    /\ saving = {}
    /\ p \in posts
    /\ posts' = posts \ {p}
    /\ IF p.dev \in tokens
       THEN /\ tokens' = tokens \ {p.dev}
            /\ devices' = [devices EXCEPT ![p.dev] = p.key]
            /\ saving' = saving \cup {[req |-> p, data |-> devices', stage |-> "opening"]}
            /\ spent' = spent \cup {p.dev}
            /\ UNCHANGED reply
       ELSE /\ reply' = Answer(p, "refused")
            /\ UNCHANGED <<tokens, devices, saving, spent>>
    /\ NoFault
    /\ UNCHANGED <<relay, file, torn, agentVars, acked>>

\* os.WriteFile opens the file with O_TRUNC ...
Truncate(v) ==
    /\ v \in saving /\ v.stage = "opening"
    /\ torn' = TRUE
    /\ saving' = (saving \ {v}) \cup {[v EXCEPT !.stage = "truncated"]}
    /\ NoFault
    /\ UNCHANGED <<relay, tokens, devices, file, agentVars, wireVars, historyVars>>

\* ... and writes the map; the agent gets its 200.
FinishSave(v) ==
    /\ v \in saving /\ v.stage = "truncated"
    /\ file' = v.data
    /\ torn' = FALSE
    /\ saving' = saving \ {v}
    /\ reply' = Answer(v.req, "ok")
    /\ acked' = acked \cup {v.req.dev}
    /\ NoFault
    /\ UNCHANGED <<relay, tokens, devices, agentVars, posts, spent>>

\* Mutant: a failed save takes the key back, but not the token.
FailSaveForgetsKey(v) ==
    /\ v \in saving
    /\ v.stage = "opening" \/ TornWrites
    /\ saving' = saving \ {v}
    /\ reply' = Answer(v.req, "failed")
    /\ devices' = [devices EXCEPT ![v.req.dev] = file[v.req.dev]]
    /\ Fault
    /\ UNCHANGED <<relay, tokens, file, torn, agentVars, posts, historyVars>>

\* 500 "persist devices failed": the directory or the file cannot be opened,
\* or the write fails half-way.  Token and map stay as they are.
FailSave(v) ==
    /\ v \in saving
    /\ v.stage = "opening" \/ TornWrites
    /\ saving' = saving \ {v}
    /\ reply' = Answer(v.req, "failed")
    /\ Fault
    /\ UNCHANGED <<relay, tokens, devices, file, torn, agentVars, posts, historyVars>>

\* The process dies; connections and requests break with it.
RelayCrash ==
    /\ relay = "up"
    /\ torn => TornWrites
    /\ Fault
    /\ relay' = "down"
    /\ tokens' = {}
    /\ devices' = [d \in Devices |-> NoKey]
    /\ saving' = {}
    /\ posts' = {}
    /\ agent' = [d \in Devices |-> IF agent[d] = "running" THEN "ready" ELSE agent[d]]
    /\ UNCHANGED <<file, torn, cur, keyring, keyfile, lastKey, reply, historyVars>>

\* Mutant: a token that was used is not configured any more.
LoadUnspentTokens == tokens' = Devices \ spent

\* Every configured token, whether it was used before or not.
LoadSetupTokens == tokens' = Devices

\* A file that is no JSON map is fatal; no file is an empty map.
LoadDevicesFromFile == ~torn /\ devices' = file

\* main up to its listeners.
RelayStart ==
    /\ relay = "down"
    /\ LoadDevicesFromFile
    /\ LoadSetupTokens
    /\ relay' = "up"
    /\ NoFault
    /\ UNCHANGED <<saving, file, torn, agentVars, wireVars, historyVars>>

-----------------------------------------------------------------------------
AgentStep(d) ==
    \/ EnsureProvisioned(d) \/ GenerateKey(d) \/ LoadRuntimeKey(d)
    \/ PostKey(d) \/ GetReply(d) \/ PostBreaks(d) \/ Connect(d)

SaveStep == \E v \in saving : Truncate(v) \/ FinishSave(v) \/ FailSave(v)

\* Every agent is connected and no registration is left.
Settled ==
    /\ \A d \in Devices : agent[d] = "running"
    /\ posts = {} /\ saving = {}
    /\ UNCHANGED vars

Next ==
    \/ \E d \in Devices :
         AgentStep(d) \/ ManualProvision(d) \/ GiveUp(d) \/ AgentCrash(d) \/ Disconnect(d)
    \/ \E p \in posts : HandleProvision(p)
    \/ SaveStep
    \/ RelayCrash \/ RelayStart
    \/ Settled

Spec == Init /\ [][Next]_vars

(***************************************************************************)
(* The service managers start a process again that ended, the agent's loop *)
(* goes on after every failure, and the relay handles the registrations it *)
(* received.  Nothing has to fail.                                         *)
(***************************************************************************)
FairSpec ==
    /\ Spec
    /\ \A d \in Devices :
         /\ WF_vars(AgentStep(d))
         /\ WF_vars(\E p \in posts : p.dev = d /\ HandleProvision(p))
    /\ WF_vars(SaveStep)
    /\ WF_vars(RelayStart)

-----------------------------------------------------------------------------
(***************************************************************************)
(* No device is shut out: the relay knows a key of it or would still take  *)
(* one.  (The token goes in the same critical section that stores the key, *)
(* also when saving fails; a restart brings tokens back.)                  *)
(***************************************************************************)
NoDeviceShutOut ==
    relay = "up" => \A d \in Devices : devices[d] # NoKey \/ d \in tokens

(***************************************************************************)
(* A registration answered with 200 is in the file, whatever other         *)
(* registrations, failed saves and restarts came after it, as long as the  *)
(* file holds a map at all.                                                *)
(***************************************************************************)
AckedDevicesInFile == ~torn => \A d \in acked : file[d] # NoKey

(***************************************************************************)
(* If the keyring works and nobody runs agent --provision by hand, the key *)
(* the relay has of a device, in memory and on disk, is the one its agent  *)
(* has stored: a crash between storing and registering, a late duplicate   *)
(* of a registration that timed out or a failed save never leave them with *)
(* different keys.                                                         *)
(***************************************************************************)
KeysAgree ==
    keyFaults = 0 =>
        \A d \in Devices : {devices[d], file[d]} \subseteq {NoKey, keyring[d]}

(***************************************************************************)
(* "persists current device key map for relay restart durability": the     *)
(* relay process can always be started again.                              *)
(***************************************************************************)
FileSurvivesCrash == relay = "down" => ~torn

(***************************************************************************)
(* After any sequence of crashes, timeouts, failed saves and restarts of   *)
(* both sides the agent comes to be connected again, without anybody's     *)
(* help (what syncProvisionedDevice before every connection is for), if    *)
(* only the relay can start and no agent lost or changed its key.          *)
(***************************************************************************)
EventuallyConnected ==
    [](keyFaults = 0 /\ FileSurvivesCrash) => \A d \in Devices : []<>(agent[d] = "running")

\* The key a new agent process would load.
StoredKey(d) == IF keyring[d] # NoKey THEN keyring[d] ELSE FileKey(d)

(***************************************************************************)
(* An agent that lost or changed its key is kept away by one thing only:   *)
(* a relay that runs, holds another key of the device and has spent its    *)
(* token.  As long as the relay has the token, or no key, the agent comes  *)
(* to be connected, whatever crashed, timed out or was saved in vain,      *)
(* unless the key it would load is a torn file, on which it dies.          *)
(***************************************************************************)
KeptOutByOtherKey ==
    []FileSurvivesCrash =>
        \A d \in Devices :
            \/ []<>(agent[d] = "running")
            \/ <>[](/\ relay = "up" /\ d \notin tokens
                    /\ devices[d] \in Keys \ {cur[d]}
                    /\ agent[d] \in {"ready", "syncing", "connecting"})
            \/ <>[](StoredKey(d) = BadKey)

(***************************************************************************)
(* And a restart of the relay ends that: when it is down, an agent whose   *)
(* key in use, if any, is the one it has stored comes to be connected with *)
(* that key, although the relay's file holds another one, if its stored    *)
(* key is not lost or changed again.  (The tokens are back, and the sync   *)
(* before every connection registers the key anew.)                        *)
(***************************************************************************)
RestartHeals ==
    []FileSurvivesCrash =>
        \A d \in Devices :
            (/\ relay = "down" /\ keyFaults = MaxKeyFaults
             /\ StoredKey(d) # BadKey /\ cur[d] \in {NoKey, StoredKey(d)})
            ~> agent[d] = "running"

\* What memory and file amount to; a torn file is loaded by no relay.
Registry == INSTANCE KeyRegistry WITH
    open   <- tokens,
    known  <- devices,
    stored <- file

(***************************************************************************)
(* handleProvision, saveDevicesToFile and main keep the promises of        *)
(* KeyRegistry: registrations that overlap, come late or are saved in      *)
(* vain, and a relay that dies between two of their steps, never change a  *)
(* key twice in one run of the relay, and put no map on disk but the one   *)
(* the relay has in memory.                                                *)
(***************************************************************************)
ImplementsKeyRegistry == Registry!RegistrySpec

(***************************************************************************)
(* "one-time setup tokens": a token registers a key once.                  *)
(***************************************************************************)
TokensRegisterOnce ==
    [][\A d \in spent : d \in tokens /\ relay' = "up" => d \in tokens']_vars

=============================================================================
