# Big Brother: a TLA+ model of the relay, its agents and the controller's page

This directory holds a TLA+ description of the Go programs under `src/`: the
relay (`relay/main.go`), the agent (`agent/*.go`) and the controller
(`controller/main.go`). TLC checks it on small instances, TLAPS proves its
safety properties for all instances. `PROJECT.json` lists the runs, the source
lines of every definition, the hazards of the code and the theorems.

## 1. The system

| Component | State | Operations | Works with |
|---|---|---|---|
| Relay, request routing: `agentSession`, `sendRequest`, `readLoop`, `handleExec`, `handleSimpleAction` | per session: map of response channels; per call: its channel | look up the session, register a channel, encode, wait 15 s, delete the channel; decode, look up, dispatch | HTTP handlers and one `readLoop` goroutine per session share the map (`respMu`); the agent over TLS |
| Relay, session table: `handleAgentConn`, `sessions` | device -> session (`mu`) | verify the auth message and register; clean up after `readLoop` | one goroutine per connection; HTTP handlers read the table |
| Relay, provisioning: `handleProvision`, `saveDevicesToFile`, `main` | device -> key, device -> setup token (`mu`), a JSON file | take a token, store and save a key; load both at start | agents over HTTP, the file system |
| Agent, start-up: `ensureProvisioned`, `Provision`, key stores | keyring, key file | load or generate and store a key, register it | relay's `/api/provision`, the operating system's keyring |
| Agent, runtime: `runAgentRuntime`, `handleConnection`, `runCommand` | the connection, the command it runs | re-sync, dial, authenticate, one command at a time, reconnect | relay's TLS listener |
| Controller, page and proxy: `launchGUI` | list of agents, selection, disabled buttons, fetches | refresh, select, send; proxy to the relay | browser event loop, relay's API |
| Controller, command line | none | one request per process | relay's API |
| Agent, Windows service and installer: `installAgent`, `installWindowsService`, `Execute` | two files, the service's entry, recovery actions and failureflag; a goroutine with its error channel | copy, create or update, stop, start; wait for control requests and for the runtime's end | service control manager, which starts, stops and restarts |
| Clocks: the loop's pauses, the timestamp check of `handleAgentConn` | the agent's backoff, two machines' clocks | double, cap and reset; compare within two minutes | |
| Authorization, TLS set-up, device listing, scripts | configuration | stateless checks, set-up | |

What makes it hard:

* **One request id.** Both handlers send the id `"1"`. Calls on one session
  overwrite and delete each other's channels, and a response that is late
  belongs to whoever holds the id by then.
* **Two ends of a dead connection.** Agent and relay learn at different times
  that a connection broke; an agent can be back while the old goroutine has
  its cleanup ahead.
* **Look up, unlock, use.** Sessions are read under `mu` and channels under
  `respMu`, and both are used after the lock is released.
* **Two parties that must remember the same key** across crashes, timeouts,
  failed writes and late duplicates, with a token that is spent before the
  outcome is known.
* **Three parties change an installation**: installer, service process and
  service control manager, each in steps the others can come between.
* **Two clocks** and a loop of pauses, each of which may keep an agent away.
* **Overlapping fetches** on a page whose single busy flag knows no counter.

## 2. Modules

| Module | Models | Extends / instantiates |
|---|---|---|
| `RequestRouting` | `sendRequest`, `readLoop`, the agent's message loop, both directions of each connection | |
| `RemoteCall` | abstract: what a call through the relay promises | |
| `RequestRoutingRefinement` | the mapping by which the first implements the second | both |
| `SessionRegistry` | `handleAgentConn`, the `sessions` table, the agents' reconnect loop | |
| `RelayBroker` | calls that find their session by device in the table, over connections that come and go | instantiates `RequestRoutingRefinement`, `SessionRegistry` and `RemoteCall` |
| `KeyRegistry` | abstract: what the relay promises about device keys in memory and on disk | |
| `Provisioning` | keys, tokens, device file, both processes' crashes | instantiates `KeyRegistry` |
| `Reconnect` | the reconnect loop's pauses and the timestamp check, in time | |
| `AgentService` | the Windows installer, the service process, the SCM | |
| `ControllerPage` | the browser page and its fetches | |
| `MC...` | constants of the TLC instances | the module of that name |
| `QueueLemmas` | lemmas on the connections' queues | |
| `..._proofs` | theorems and proofs | the component |

### RequestRouting

A call is an element of `Requests`, which also names its wire request, its
channel and the response computed from it; so "the answer is one's own" is
`answer[r] = r`. `pc` follows the code: `idle`, `found` (the session was read
from the table), `registered` (`s.responses[id] = ch`), `waiting` (encoded, in
the `select`), `returning` (the deferred delete is ahead), `done`. `responses`
is the map of each session, `chan` the one-element channels, `hand` what
`readLoop` holds between its lookup under `respMu` and its send after it.
`toAgent` and `toRelay` are a connection's two directions; a write blocks while
`WireCap` messages are buffered. A cut connection still delivers a prefix of
what was under way; a write on it may be accepted and lost (`EncodeIntoVoid`)
or fail (`EncodeError`). The shared `json.Encoder` is used by concurrent handlers
without a lock; its only shared field is the error it remembers, so a racing
write on a broken connection has one of these two outcomes. `solo`, `quiet` and `fate`
are history.

Time is not modelled here: `TimeOut` may happen whenever a call waits. That
covers 15 s that are over before a 30 s command is.

`RelayEnds(S)` is the end of the relay process with the connections `S` it had
(all but those nobody used yet, `Untouched`): every call under way fails, the
maps, channels and what `readLoop` held are gone, and what was written to
agents may still be read and run by them. A `lock` or `locate` request reaches
the agent's `default` branch and is dropped; such a call must not be given
another one's answer (`AnsweredInSession`) and ends by its timeout.

`RemoteCall` says what is left of the promise: a call ends once, with an
execution at its own site that no other call receives, or with an error. It
does not say that the execution is the caller's own. The calls that fail
together when the relay ends are one `Fail` of a set of calls. A site is
whatever a call can be made to (`SitesOf`): any session here, the device it
names in `RelayBroker`.

Which other output a call may get is the subject of `NeverAnsweredByLater`: a
later registration takes the channel out of the map before its own command is
sent, so what a call gets instead of its own output is always older.

### SessionRegistry

`phase` is how far the goroutine of a connection is (`auth`, `serving`,
`leaving`, `closed`), `link` whether the connection carries data, `agentOn`
which connection the agent's `handleConnection` runs on. `Unregister` deletes
the device's entry whoever owns it, as line 435 does. The reasons to refuse an
auth message are one action `Reject`. `overlapped` is history: the devices
whose last registration found an earlier goroutine of theirs with its cleanup
still to come. `ListedUnlessOverlapped` says that nothing else can take a
served connection out of the table.

### RelayBroker

Each of its actions is an action of one component, or a joint step of both
(breaking a connection, the end of `readLoop`, the agent's leaving, a restart
of the relay). `link` is shared: a connection that is still to be dialed counts
as up for `RequestRouting`, which does not know of dialing (`dialed`). A
connection is not used a second time here: a new connection is a new name. In
`SessionRegistry` names are used again.

`ImplementsDeviceCalls` is `RemoteCall` as a controller sees it: `site` is the
device of the connection a call found, and a call may be made to one site
only, the device it names.

### Provisioning

The agent passes through `ensureProvisioned` (`off` to `unprovisioned` or
`loading`), `Provision` (`generated`, `provisioning`) and the runtime's loop
(`ready`, `syncing`, `connecting`, `running`). `cur` is the key it has in
memory; `keyring` and `keyfile` survive a crash. A registration is in `posts`
until the relay handles it; one its client gave up is still there, with nobody
to answer (`awaited`). `handleProvision` holds `mu` while it saves: `saving`
has at most one element, and `os.WriteFile` is two steps, with `torn` between
them. `LoadSetupTokens` brings back every configured token at each start.

`KeyRegistry` is this seen from the relay's memory and disk alone: a running
relay changes a device's key at most once (`Enrol`), the disk receives the map
in memory as a whole and then a device is acknowledged (`Persist`), and a start
loads what is on disk. The critical section with its file write, failed saves
and all that agents do is hidden. A file that is torn needs no state there,
because no relay loads it.

Key stores fail, too: `KeyFault` counts keyring calls that fail and runs of
`agent --provision` by hand (`ManualProvision`), each of which makes the agent
change its key without the relay. With `BIGBROTHER_ALLOW_KEYFILE_FALLBACK`
(`Fallback`) a key goes to the file when the keyring fails; a file that was
written in part is `BadKey`, and `LoadRuntimeKey` ends the process on it at
every start, as `ed25519.PrivateKey.Public` panics.

What such an agent can count on is two properties. `KeptOutByOtherKey`: it comes
to be connected again and again, unless for good the relay runs with another key
of the device and its token is spent, or the key the agent would load is a torn
file. `RestartHeals`: if the relay is down, no key store fails any more and the
agent uses the key it has stored (or none yet), it comes to be connected with it,
whatever the relay's file says. The last condition is needed: an agent that just
generated a key into the file while the keyring still holds an older one
registers the former with the restarted relay and loads the latter.

### Reconnect

`Tick` is the passing of time; `wait` counts down to the end of a `Sleep`, or
to the latest end of what the agent does, so a step may also come earlier.
`skew` is the agent's clock minus the relay's, `frac` where the agent's clock
is within its second (`ts` is in whole seconds), `lag` what the relay's clock
will say of the message under way. `DialFails` is any error of `tls.Dial`,
whether the relay is down or not: it sleeps `backoff` and doubles it up to
`MaxBackoff`; `DialSucceeds` resets it. A connection that ends, by a refusal (the
timestamp is out of the window), a break or the relay's end, leaves the agent
`cut`: `handleConnection` returns only when it reads or writes again, after the
command it runs or the keep-alive's verdict, within `NoticeTime`; then comes the
pause of 2 s. Relay restarts, lost connections and `SetClock` happen at any time
and set the history variable `calm` back to 0. So does a dial that fails although
the relay was up all the time it took; `outage` (history) tells it from a dial
that began or was caught in an outage, whose late failure is part of the way back.

`BackWithinBound` is the promise: after `Bound` ticks of calm the agent is
served. `Bound` is the longer of the two ways on which the end of trouble may find the
agent (`LostTime`: a dial that is about to fail late, followed by the longest pause; or an
auth message made with the wrong clock, whose refusal is noticed late, followed by 2 s),
plus one re-sync, dial and transit. It is exact: one tick less does not hold in
the run's instance, nor with `NoticeTime = 9`, where the other way is the longer
one. `Tolerable` says which clocks never lead to a refusal; because a timestamp
is cut to seconds and travels, a clock may be ahead by more than it may be
behind. The length of a re-sync (two requests of 10 s), of a dial and the notice
(`NoticeTime`: 30 s or `BIGBROTHER_COMMAND_TIMEOUT`, or what the keep-alive takes)
are constants. The code does not bound the latter two: a dial has no timeout but
the system's, and a command whose grandchildren keep its pipes open outlives its
deadline. That they are bounded is assumed.

### AgentService

`step` is what `installAgent` does next, with one step per file operation
(open, which truncates and which Windows refuses for a program that runs; then write) and
per call of `sc`. `service` is what the SCM has of the service: its entry, recovery
actions and failureflag. `scm` is the SCM's state of the service, `timer` its
pending restart, `control` a stop request that `Execute` did not receive yet,
`runtime` the goroutine that `Execute` waits for, `loaded` the versions of
program and config the process was started with; the n-th run of the installer
copies version n. `sc stop` does not wait and its refusal is ignored, `sc start`
fails unless the service is stopped. Exit code 1 counts as a failure only with
the failureflag; a process that dies needs only the recovery actions. The SCM
and the overwrite rule are external to the program.

### ControllerPage

The page's functions run in turns of the event loop that end at `await`;
`Fetch` is the first turn of `refreshDevices` and `runAction`, `Resume` the
last. The refresh of the load event asks no button: this is the only way two
fetches come to overlap, and `early` records a click before it.

## 3. Runs and bounds

| Run | Instance | Shows |
|---|---|---|
| `RequestRouting` | 2 `exec` calls and a `lock` call, 2 sessions, `WireCap` 1 | `ResponsesOwned`, `AnsweredInSession`, `AnswersUnique`, `LoneAnswerIsOwn`, `NeverReexecuted` |
| `RequestRoutingLive` | 2 calls, 2 sessions, fairness | `RequestsReturn`, `ReaderEnds`, `ImplementsRemoteCall`, `NeverAnsweredByLater` |
| `RequestRoutingSerial` | 3 calls, 1 session | **violated**: `SerialAnswerIsOwn` |
| `SessionRegistry` | 2 devices, 3 connections, 3 failures, fairness | `NoFinishedSession`, `OneLiveLink`, `ListedUnlessOverlapped`, `DeadSessionsLeave`, `AgentsServed` |
| `SessionRegistryListed` | 1 device, 3 connections, 2 failures, fairness | **violated**: `ServedDevicesListed` |
| `RelayBroker` | 2 calls for 2 devices, 3 connections, 2 failures | `AnsweredByTarget`, `IsRequestRouting`, `ImplementsDeviceCalls` |
| `Provisioning` | 2 devices, 2 keys, 2 failures, 1 key fault, key file fallback, torn writes, fairness | `NoDeviceShutOut`, `AckedDevicesInFile`, `KeysAgree`, `ImplementsKeyRegistry`, `EventuallyConnected`, `KeptOutByOtherKey`, `RestartHeals` |
| `ProvisioningTorn` | 1 failure, torn writes | **violated**: `FileSurvivesCrash` |
| `ProvisioningTokens` | 1 device, 1 failure | **violated**: `TokensRegisterOnce` |
| `Reconnect` | half-second ticks, 5 s of backoff at most, a window of 4 s, 3 s until a broken connection is noticed, 7 clocks | `BackWithinBound`, `WindowDecides` |
| `AgentService` | 3 installations, 5 faults, fairness | `InstalledVersionRuns`, `ConfigFitsProgram`, `InstalledServiceServes`, `StopHonoured` |
| `ControllerPage` | 2 agents, 5 fetches, fairness | `FewFetches`, `OutputIsLatest`, `SendsToListed`, `PageUsableAgain` |

Why the bounds are enough to be interesting: three calls are one that times
out, one that gets its answer, and one that is never answered; the second
session is there so that an answer could cross. Three connections for two
devices let a device be back while its old connection is being cleaned up, and
still leave one for the other device. Two keys let an agent generate a second
one after its keyring failed or somebody provisioned by hand; two failures are, for
example, a failed save and a crash of the relay, in one of two devices'
registrations or between them. In `Reconnect` the durations are small but keep their order:
the cap is not a power of two, so that it, and not doubling, bounds the
backoff, and the clocks lie at, just inside and just outside of what the window
tolerates. Three installations are a first one, one that fails half-way on a running
service, and one that succeeds after it; five faults let the recovery
actions, a reboot and a failed step meet. Five fetches are two refreshes that overlap, two commands in what
follows, and one more. `WireCap` 1 makes writes block. All bounds are
constants that guard an action; the proofs are for all their values.

Symmetry is used in runs without liveness only: sessions in `RequestRouting`,
connections in `RelayBroker`. No definition distinguishes the elements.

### Fairness, and what justifies it

* `RequestRouting`: goroutines of the relay are scheduled (`SendRequest`,
  `ReadLoop`), the timer fires, and the agent's loop goes on
  (`HandleConnection`), which rests on the deadline `runCommand` gives every
  command; `RequestsReturn` therefore says nothing of a call on whose session a
  command never ends. Nobody has to call, no connection has to break.
* `SessionRegistry`: an agent dials again after every failure, and both ends
  learn that a connection is broken: at the next read or write, or from the
  keep-alive probes that Go's listener and dialer turn on. An agent does not
  have to hang up a connection that works.
* `Provisioning`: the service managers start an agent that ended
  (`Restart=always` in `install-systemd.sh`, `KeepAlive` in
  `install-launchd.sh`, recovery actions in `service_windows.go:83-88`); the relay,
  a systemd unit according to `src/README.md`, is started again too, and
  handles the requests it received. Nothing has to fail.
* `AgentService`: the installer and the service process run, `select` in
  `Execute` comes to each of its cases, and the SCM's timer fires: the 5, 15 and
  30 s of the recovery actions. That the last action repeats, so that the SCM
  never gives up, is how Windows treats failures beyond the third. Nobody has
  to install, nothing has to fail.
* `Reconnect` has no liveness: that the agent comes back in time is an
  invariant, and `Tick` cannot pass the end of anybody's wait.
* `ControllerPage`: a fetch is answered or fails, and the browser runs what
  it resumes.

### Where code and documents disagree

* `SerialAnswerIsOwn`: a command that takes longer than 15 s answers the next
  call on its session, even if calls never overlap. `LoneAnswerIsOwn` is what
  does hold: alone in `sendRequest`, and no response outstanding. And the
  answer is never that of a later call (`NeverAnsweredByLater`).
* `ServedDevicesListed`: the cleanup of an old connection deletes the entry of
  the new one. The device stays connected and is offline to controllers.
  `ListedUnlessOverlapped` is what does hold, and says that this overlap is the
  only way to it.
* `FileSurvivesCrash`: a crash inside `os.WriteFile` leaves a file that keeps
  the relay from starting.
* `TokensRegisterOnce`: a restart makes used tokens valid again. The recovery
  that `EventuallyConnected` shows depends on it: with a token that stays
  spent (the mutant `LoadUnspentTokens`), a relay that lost a registration
  never takes the agent back.

Besides, without a run of its own: the API's `lock` and `locate` reach the
agent's `default` branch (`agent/runtime.go:171`), so these calls never have an
effect and end in their timeout.

## 4. What is proved

All theorems hold for every value of the constants, under the named
assumptions of the modules (`RoutingAssumption`, `RegistryAssumption`,
`BrokerAssumption`, `ProvisioningAssumption`, `TimingAssumption`,
`ServiceAssumption`, `PageAssumption`), which only say what the constants
are; `TimingAssumption` also says that the longest backoff is at least a second. TLC evaluates these assumptions in the runs.

* **RequestRouting** (`RequestRouting_proofs`). `AnswersUnique` and
  `LoneAnswerIsOwn` are not inductive. `Invariant` adds where a response can
  be: what is under way on a session belongs to calls of that session
  (`SessionInv`); a response is in one place, and once delivered nowhere else
  (`OnceInv`); while a call is alone and was quiet, nothing but its own response is outstanding
  (`AloneInv`). One lemma per kind of step. From the
  invariant follow the five safety properties, `NeverReexecuted` as an action
  property, and `RefinesRemoteCall`: each step is a step of `RemoteCall` or
  none. `NeverAnsweredByLater` speaks of two moments of one behaviour. For one
  pair of calls, `AheadOf` holds from the first of them on and is kept by every
  step: no channel, hand or map entry can bring the later call's response to
  the earlier call. `QueueLemmas` says what append, tail and prefix do to the set of
  queued messages and to their being distinct.
* **SessionRegistry** (`SessionRegistry_proofs`). `OneLiveLink` follows from
  the stronger `LiveIsOn`: a connection carries data only while its agent is
  on it. `ListedUnlessOverlapped` needs `OneCleanup`: a device whose last
  registration did not overlap has one goroutine, so the only cleanup to come
  is that of the listed session.
* **RelayBroker** (`RelayBroker_proofs`). Every step of the composition is a
  step of each component or none of its business (`RoutingStep`,
  `RegistryStep`), the former giving `IsRequestRouting`. The theorems of both components are instantiated (`RoutingProofs`,
  `RegistryProofs`) and with them their inductive invariants hold here. What
  neither knows is `Placed`: the table's session of a device was dialed by it,
  a call's session belongs to the device the call names, and a connection keeps
  its device. With `AnsweredInSession` it gives `AnsweredByTarget`. And it
  carries the refinement of `RemoteCall` over from sessions to devices
  (`DeviceStep`): before and after every step the device of a call's session is
  the one the call names, so each step of a session's call is one of a
  device's. `PromisesKeptTogether` lists the components' invariants for the
  composition.
* **Provisioning** (`Provisioning_proofs`). `AckedDevicesInFile` needs that a
  save under way writes the current map, which is what `mu` is held for, and
  that a running relay knows every acknowledged device (`SaveInv`). `KeysAgree`
  needs the same of every copy of a key, those in late registrations included
  (`KeyInv`). `RefinesKeyRegistry` maps `HandleProvision` to `Enrol` and the end
  of a save to `Persist`, where `SaveInv` supplies that the map written is the
  one in memory and that its token was spent in this run of the relay.
* **Reconnect** (`Reconnect_proofs`). `BackWithinBound` says nothing of an agent
  on its way; `CalmInv` bounds, for each place in the loop, the calm so far plus
  what is left to wait, and says that a dial the outage may still fail began
  before the calm. `LagInv` bounds what clocks, truncation and transit can
  make of a message.
* **AgentService** (`AgentService_proofs`). `CopiedInv`: each step of the
  installer leaves what it copied alone, so that every start after a success
  loads the files of the last installation. `ConfigFitsProgram` needs of it
  that the config on disk is never newer than the program next to it.
* **ControllerPage** (`ControllerPage_proofs`). `FewFetches` and
  `OutputIsLatest` need what enabled buttons say about the number of fetches
  (`ButtonInv`) and that without overlap what is under way was made last
  (`LastInv`).

Only model-checked: all liveness properties (`RequestsReturn`, `ReaderEnds`,
`DeadSessionsLeave`, `AgentsServed`, `EventuallyConnected`, `KeptOutByOtherKey`, `RestartHeals`,
`InstalledServiceServes`, `StopHonoured`, `PageUsableAgain`), which are out of
the prover's reach. Every safety property and every refinement of a passing run
is proved.

Each property of a passing run also fails for a plausible bug in the code: the
operators commented "Mutant" are such bugs, `PROJECT.json` says which property
each of them breaks.

## 5. What is not modelled

* The command deadline of `runCommand`: `RequestRouting` assumes that every
  command ends, `Reconnect` that it does within `NoticeTime`. `CombinedOutput` also waits for pipes a grandchild keeps open,
  which the deadline does not reach (a hazard without a property).
* Time outside of `Reconnect`: 15 s and 10 s timeouts are nondeterministic.
* Cryptography, TLS, JSON: a message is a value; a malformed one is a refusal
  or the end of a connection. Responses without a known id are dropped in the
  code; agents here send no others than `handleConnection` sends. The relay
  never sends `ping`.
* Bytes that the auth decoder of `handleAgentConn` read ahead and the
  session's own decoder misses: an agent sends nothing before its first
  request.
* Configurations without a setup token: `Provision` is then refused and the re-sync
  does nothing, so there is nothing to interleave. The plain-HTTP fallback of
  `registerPublicKey` is one more try of the same registration.
* The page's command text and presets, its status line and the relay address
  field (the list may come from another relay than the one a command is sent
  to), reloading the page, the start of the local server, `validateGUIRequest`'s
  comparisons.
* `handleDevices` and `authorizeControllerRequest`: a read and a comparison
  that change nothing; what they refuse is `RefuseCall`, or a fetch that fails.
* The controller's command line: one request per process, which a call of
  `RequestRouting` stands for.
* The defaults `LoadConfig` fills in, the stubs for other systems, generating
  certificates, the scripts.

## 6. Plan

Done and proved: `RequestRouting` with `RemoteCall`, `SessionRegistry`,
`RelayBroker` over both with `RemoteCall` device by device, `Provisioning` with
`KeyRegistry`, `ControllerPage`, `Reconnect`, `AgentService`. What could follow:

1. The page with the relay: what two overlapping commands do to the answers
   (`FewFetches` against `LoneAnswerIsOwn`), and the relay address a list came
   from.
2. `AgentService` as what restarts the agents of `Provisioning`: the latter's
   fairness of `AgentStep` derived from `InstalledServiceServes`.
3. The command deadline with process trees, which would replace the
   assumption that `HandleConnection` goes on.
