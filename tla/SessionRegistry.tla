-------------------------- MODULE SessionRegistry --------------------------
(***************************************************************************)
(* Which agent connection the relay uses for a device: the sessions table, *)
(* the goroutine handleAgentConn of every accepted connection, and the     *)
(* reconnect loop of the agents.  A connection may be dead long before     *)
(* either end notices, so an agent can be back on a new connection while   *)
(* the goroutine of the old one still has its cleanup ahead.               *)
(*                                                                         *)
(* An element of Conns names a connection and its agentSession, and is     *)
(* used again once nothing refers to it any more.                          *)
(***************************************************************************)
EXTENDS Naturals

CONSTANTS
    Devices,    \* provisioned devices, one agent process each
    Conns,      \* TLS connections
    MaxBreaks,  \* bound: connections broken or refused, relay restarts
    None        \* no connection

ASSUME RegistryAssumption == MaxBreaks \in Nat /\ None \notin Conns

VARIABLES
    phase,      \* how far handleAgentConn of each connection is
    device,     \* the device whose agent dialed the connection
    link,       \* whether the connection carries data
    agentOn,    \* the connection the agent's handleConnection runs on
    sessions,   \* the relay's table of sessions
    breaks,     \* how much went wrong so far
    overlapped  \* (history) devices whose last registration came before an earlier one was over

vars == <<phase, device, link, agentOn, sessions, breaks, overlapped>>

TypeOK ==
    /\ phase \in [Conns -> {"closed", "auth", "serving", "leaving"}]
    /\ device \in [Conns -> Devices]
    /\ link \in [Conns -> {"up", "cut"}]
    /\ agentOn \in [Devices -> Conns \cup {None}]
    /\ sessions \in [Devices -> Conns \cup {None}]
    /\ breaks \in 0..MaxBreaks
    /\ overlapped \subseteq Devices

Init ==
    /\ phase = [c \in Conns |-> "closed"]
    /\ device \in [Conns -> Devices]
    /\ link = [c \in Conns |-> "cut"]
    /\ agentOn = [d \in Devices |-> None]
    /\ sessions = [d \in Devices |-> None]
    /\ breaks = 0
    /\ overlapped = {}

-----------------------------------------------------------------------------
(***************************************************************************)
(* The agent: runAgentRuntime's loop around tls.Dial and handleConnection. *)
(***************************************************************************)

\* Nobody refers to c.
Unused(c) == phase[c] = "closed" /\ \A d \in Devices : agentOn[d] # c

\* Mutant: the relay lists a connection as soon as it is accepted.
DialRegisters(d, c) ==
    /\ agentOn[d] = None
    /\ Unused(c)
    /\ phase' = [phase EXCEPT ![c] = "auth"]
    /\ device' = [device EXCEPT ![c] = d]
    /\ link' = [link EXCEPT ![c] = "up"]
    /\ agentOn' = [agentOn EXCEPT ![d] = c]
    /\ sessions' = [sessions EXCEPT ![d] = c]
    /\ UNCHANGED <<breaks, overlapped>>

\* tls.Dial succeeds and handleConnection sends the auth message.  A dial
\* that fails only makes the agent wait for its next try.
Dial(d, c) ==
    /\ agentOn[d] = None
    /\ Unused(c)
    /\ phase' = [phase EXCEPT ![c] = "auth"]
    /\ device' = [device EXCEPT ![c] = d]
    /\ link' = [link EXCEPT ![c] = "up"]
    /\ agentOn' = [agentOn EXCEPT ![d] = c]
    /\ UNCHANGED <<sessions, breaks, overlapped>>

\* Mutant: conn.Close after handleConnection is missing.
HangUpWithoutClose(d) ==
    LET c == agentOn[d] IN
    /\ c # None
    /\ agentOn' = [agentOn EXCEPT ![d] = None]
    /\ IF link[c] = "cut" THEN UNCHANGED breaks ELSE breaks < MaxBreaks /\ breaks' = breaks + 1
    /\ UNCHANGED <<phase, device, link, sessions, overlapped>>

\* handleConnection returns: it noticed that the connection is broken, read
\* something that is no message, or the process ends.  conn.Close() follows.
HangUp(d) ==
    LET c == agentOn[d] IN
    /\ c # None
    /\ agentOn' = [agentOn EXCEPT ![d] = None]
    /\ link' = [link EXCEPT ![c] = "cut"]
    /\ IF link[c] = "cut" THEN UNCHANGED breaks ELSE breaks < MaxBreaks /\ breaks' = breaks + 1
    /\ UNCHANGED <<phase, device, sessions, overlapped>>

-----------------------------------------------------------------------------
(***************************************************************************)
(* The relay: handleAgentConn, one goroutine per accepted connection.      *)
(***************************************************************************)

\* The goroutine of c has its session, and will delete the device's entry.
Held(c) == phase[c] \in {"serving", "leaving"}

\* The auth message is verified and the session registered, in one critical
\* section of mu; an entry the device already had is overwritten.
Register(c) ==
    /\ phase[c] = "auth"
    /\ phase' = [phase EXCEPT ![c] = "serving"]
    /\ sessions' = [sessions EXCEPT ![device[c]] = c]
    /\ overlapped' = IF \E b \in Conns \ {c} : Held(b) /\ device[b] = device[c]
                     THEN overlapped \cup {device[c]} ELSE overlapped \ {device[c]}
    /\ UNCHANGED <<device, link, agentOn, breaks>>

\* Mutant: the deferred c.Close() is missing.
RejectLeavesOpen(c) ==
    /\ phase[c] = "auth"
    /\ phase' = [phase EXCEPT ![c] = "closed"]
    /\ IF link[c] = "cut" THEN UNCHANGED breaks ELSE breaks < MaxBreaks /\ breaks' = breaks + 1
    /\ UNCHANGED <<device, link, agentOn, sessions, overlapped>>

\* Mutant: the entry is deleted by a deferred call, also when auth fails.
RejectUnregisters(c) ==
    /\ phase[c] = "auth"
    /\ phase' = [phase EXCEPT ![c] = "closed"]
    /\ link' = [link EXCEPT ![c] = "cut"]
    /\ sessions' = [sessions EXCEPT ![device[c]] = None]
    /\ IF link[c] = "cut" THEN UNCHANGED breaks ELSE breaks < MaxBreaks /\ breaks' = breaks + 1
    /\ UNCHANGED <<device, agentOn, overlapped>>

\* Reading or verifying the auth message fails; the deferred c.Close().
Reject(c) ==
    /\ phase[c] = "auth"
    /\ phase' = [phase EXCEPT ![c] = "closed"]
    /\ link' = [link EXCEPT ![c] = "cut"]
    /\ IF link[c] = "cut" THEN UNCHANGED breaks ELSE breaks < MaxBreaks /\ breaks' = breaks + 1
    /\ UNCHANGED <<device, agentOn, sessions, overlapped>>

\* readLoop returns: at EOF, at a reset, or when the keep-alive probes of the
\* listener's connections go unanswered.
ReadLoopReturns(c) ==
    /\ phase[c] = "serving"
    /\ link[c] = "cut"
    /\ phase' = [phase EXCEPT ![c] = "leaving"]
    /\ UNCHANGED <<device, link, agentOn, sessions, breaks, overlapped>>

\* Mutant: a session that ended stays in the table.
UnregisterNothing(c) ==
    /\ phase[c] = "leaving"
    /\ phase' = [phase EXCEPT ![c] = "closed"]
    /\ UNCHANGED <<device, link, agentOn, sessions, breaks, overlapped>>

\* delete(sessions, auth.DeviceID): whichever session the device has goes.
Unregister(c) ==
    /\ phase[c] = "leaving"
    /\ phase' = [phase EXCEPT ![c] = "closed"]
    /\ sessions' = [sessions EXCEPT ![device[c]] = None]
    /\ UNCHANGED <<device, link, agentOn, breaks, overlapped>>

-----------------------------------------------------------------------------
(***************************************************************************)
(* What goes wrong, at most MaxBreaks times.                               *)
(***************************************************************************)

\* The network breaks a connection; neither end knows yet.
CutLink(c) ==
    /\ link[c] = "up"
    /\ breaks < MaxBreaks
    /\ link' = [link EXCEPT ![c] = "cut"]
    /\ breaks' = breaks + 1
    /\ UNCHANGED <<phase, device, agentOn, sessions, overlapped>>

\* The relay process ends and starts: table and goroutines are gone.
RelayRestart ==
    /\ breaks < MaxBreaks
    /\ phase' = [c \in Conns |-> "closed"]
    /\ link' = [c \in Conns |-> "cut"]
    /\ sessions' = [d \in Devices |-> None]
    /\ breaks' = breaks + 1
    /\ overlapped' = {}
    /\ UNCHANGED <<device, agentOn>>

\* Nothing more goes wrong, every agent is served and no cleanup is left.
Settled ==
    /\ breaks = MaxBreaks
    /\ \A d \in Devices :
         agentOn[d] # None /\ link[agentOn[d]] = "up" /\ phase[agentOn[d]] = "serving"
    /\ \A c \in Conns : phase[c] \in {"closed", "serving"} /\ (link[c] = "cut" => phase[c] = "closed")
    /\ UNCHANGED vars

RuntimeLoop(d) == (\E c \in Conns : Dial(d, c)) \/ HangUp(d)

HandleAgentConn(c) == Register(c) \/ Reject(c) \/ ReadLoopReturns(c) \/ Unregister(c)

Next ==
    \/ \E d \in Devices : RuntimeLoop(d)
    \/ \E c \in Conns : HandleAgentConn(c) \/ CutLink(c)
    \/ RelayRestart
    \/ Settled

Spec == Init /\ [][Next]_vars

NoticeBreak(d) == agentOn[d] # None /\ link[agentOn[d]] = "cut" /\ HangUp(d)

(***************************************************************************)
(* An agent tries again after every failure and learns of a broken         *)
(* connection; the relay's goroutines run, and keep-alive tells them of a  *)
(* connection that died silently.  Nothing has to go wrong, and no agent   *)
(* has to hang up a connection that works.                                 *)
(***************************************************************************)
FairSpec ==
    /\ Spec
    /\ \A d \in Devices :
         /\ WF_vars(\E c \in Conns : Dial(d, c))
         /\ WF_vars(NoticeBreak(d))
    /\ \A c \in Conns : WF_vars(HandleAgentConn(c))

-----------------------------------------------------------------------------
(***************************************************************************)
(* A device's entry is a session of that device whose goroutine has not    *)
(* finished: no order of connects, failed handshakes, late cleanups and    *)
(* restarts leaves a finished session for controllers to find.             *)
(***************************************************************************)
NoFinishedSession ==
    \A d \in Devices :
        sessions[d] # None =>
            /\ device[sessions[d]] = d
            /\ phase[sessions[d]] \in {"serving", "leaving"}

(***************************************************************************)
(* Of the connections the relay still has for a device at most one is      *)
(* alive: the agent closes one before it dials the next, so the others     *)
(* can only still have their cleanup ahead.                                *)
(***************************************************************************)
OneLiveLink ==
    \A b, c \in Conns : link[b] = "up" /\ link[c] = "up" /\ device[b] = device[c] => b = c

(***************************************************************************)
(* When a served connection is listed: if no earlier goroutine of its      *)
(* device was left when it registered, it is in the table as long as       *)
(* readLoop serves it, whatever is dialed, refused or cut meanwhile.  One  *)
(* registration without overlap ends what an overlap has done before.      *)
(***************************************************************************)
ListedUnlessOverlapped ==
    \A c \in Conns :
        phase[c] = "serving" /\ device[c] \notin overlapped => sessions[device[c]] = c

(***************************************************************************)
(* A session whose connection is dead leaves the table: controllers are    *)
(* not sent to it for ever, however silently the connection died.          *)
(***************************************************************************)
DeadSessionsLeave ==
    \A d \in Devices, c \in Conns :
        sessions[d] = c /\ link[c] = "cut" ~> sessions[d] # c

(***************************************************************************)
(* However often it was cut off or refused, every agent ends up on a live  *)
(* connection that readLoop serves.                                        *)
(***************************************************************************)
AgentsServed ==
    \A d \in Devices :
        []<>(/\ agentOn[d] # None
             /\ phase[agentOn[d]] = "serving"
             /\ link[agentOn[d]] = "up")

(***************************************************************************)
(* What the table is documented as, "active agent sessions", together with *)
(* AgentsServed: a device whose agent keeps a live, served connection is   *)
(* found in the table again and again.                                     *)
(***************************************************************************)
ServedDevicesListed == \A d \in Devices : []<>(sessions[d] # None)
=============================================================================
