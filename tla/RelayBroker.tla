---------------------------- MODULE RelayBroker ----------------------------
(***************************************************************************)
(* The relay with its agents: RequestRouting over the connections that     *)
(* SessionRegistry sets up and gives up.  A call names a device; the       *)
(* session it uses is the one the table has for that device at that        *)
(* moment, and the call keeps it whatever happens to the table.            *)
(*                                                                         *)
(* Both components speak of the same connections, so breaking one, its     *)
(* readLoop's end, its agent's leaving and a restart of the relay are      *)
(* joint steps.  A connection is not used again here (in SessionRegistry   *)
(* it is).                                                                 *)
(***************************************************************************)
EXTENDS Naturals

CONSTANTS
    Devices, Conns, Requests,
    Kind,       \* the endpoint of each call
    Target,     \* the device each call names
    WireCap, MaxBreaks, None

ASSUME BrokerAssumption ==
    /\ Target \in [Requests -> Devices]
    /\ Kind \in [Requests -> {"exec", "lock", "locate"}]
    /\ MaxBreaks \in Nat /\ WireCap \in Nat \ {0}
    /\ None \notin Requests \cup Conns

VARIABLES
    phase, device, link, agentOn, sessions, breaks, overlapped,
    pc, via, responses, chan, answer, hand, reader,
    toAgent, toRelay, running, agentUp, fate, solo, quiet,
    dialed      \* connections that were ever set up

registryVars == <<phase, device, agentOn, sessions, breaks, overlapped>>
routingVars  == <<pc, via, responses, chan, answer, hand, reader,
                  toAgent, toRelay, running, agentUp, fate, solo, quiet>>
vars == <<registryVars, routingVars, link, dialed>>

Registry == INSTANCE SessionRegistry

\* A connection that is still to be set up breaks no promise of RequestRouting.
Routing == INSTANCE RequestRoutingRefinement WITH
    Sessions <- Conns,
    link     <- [c \in Conns |-> IF c \in dialed THEN link[c] ELSE "up"]

Init ==
    /\ Registry!Init
    /\ dialed = {}
    /\ Routing!Init

-----------------------------------------------------------------------------
\* Mutant: a lookup that ignores which device was asked for.
FindAnySession(r, c) ==
    /\ \E d \in Devices : sessions[d] = c
    /\ UNCHANGED <<registryVars, link, dialed>>
    /\ Routing!FindSession(r, c)

\* Mutant: a call that waits moves to the session the device has by now.
FollowDevice(r, c) ==
    /\ sessions[Target[r]] = c
    /\ UNCHANGED <<registryVars, link, dialed>>
    /\ \/ Routing!FindSession(r, c)
       \/ /\ pc[r] = "waiting"
          /\ via' = [via EXCEPT ![r] = c]
          /\ UNCHANGED <<pc, responses, chan, answer, hand, reader,
                         toAgent, toRelay, running, agentUp, fate, solo, quiet>>

\* handleExec and handleSimpleAction: s, ok := sessions[e.DeviceID]
FindSession(r, c) ==
    /\ sessions[Target[r]] = c
    /\ UNCHANGED <<registryVars, link, dialed>>
    /\ Routing!FindSession(r, c)

\* 503 "device offline"
RefuseCall(r) ==
    /\ sessions[Target[r]] = None
    /\ UNCHANGED <<registryVars, link, dialed>>
    /\ Routing!RefuseCall(r)

\* sendRequest, readLoop and the agent's loop on connections that exist.
RouteMessages ==
    /\ UNCHANGED <<registryVars, link, dialed>>
    /\ \/ \E r \in Requests : Routing!SendRequest(r)
       \/ \E c \in Conns : \/ Routing!DecodeResponse(c) \/ Routing!DispatchResponse(c)
                           \/ Routing!AgentDecode(c) \/ Routing!AgentRespond(c)

Dial(d, c) ==
    /\ c \notin dialed
    /\ Registry!Dial(d, c)
    /\ dialed' = dialed \cup {c}
    /\ UNCHANGED routingVars

Register(c) == Registry!Register(c) /\ UNCHANGED <<routingVars, dialed>>

Unregister(c) == Registry!Unregister(c) /\ UNCHANGED <<routingVars, dialed>>

\* The auth message is refused: nothing was sent on c yet.
Reject(c) ==
    /\ Registry!Reject(c)
    /\ UNCHANGED <<routingVars, dialed>>

CutLink(c) ==
    /\ Registry!CutLink(c)
    /\ UNCHANGED dialed
    /\ Routing!CutLink(c)

ReadLoopReturns(c) ==
    /\ Registry!ReadLoopReturns(c)
    /\ UNCHANGED dialed
    /\ Routing!ReadLoopEnds(c)

HangUp(d) ==
    /\ Registry!NoticeBreak(d)
    /\ UNCHANGED dialed
    /\ Routing!AgentLeaves(agentOn[d])

RelayRestart ==
    /\ Registry!RelayRestart
    /\ UNCHANGED dialed
    /\ IF dialed = {} THEN UNCHANGED routingVars ELSE Routing!RelayEnds(dialed)

\* Every call is over, no connection is left to be set up or to break.
Settled ==
    /\ \A r \in Requests : pc[r] = "done"
    /\ UNCHANGED vars

Next ==
    \/ \E r \in Requests : (\E c \in Conns : FindSession(r, c)) \/ RefuseCall(r)
    \/ RouteMessages
    \/ \E d \in Devices : (\E c \in Conns : Dial(d, c)) \/ HangUp(d)
    \/ \E c \in Conns : \/ Register(c) \/ Unregister(c) \/ Reject(c)
                        \/ CutLink(c) \/ ReadLoopReturns(c)
    \/ RelayRestart
    \/ Settled

Spec == Init /\ [][Next]_vars

-----------------------------------------------------------------------------
(***************************************************************************)
(* A controller's call is answered only by a command that was addressed to *)
(* the same device and ran on a connection of that device, however often   *)
(* the device's entry changed between the lookup and the answer.           *)
(***************************************************************************)
AnsweredByTarget ==
    \A r \in Requests :
        answer[r] # None =>
            /\ Target[answer[r]] = Target[r]
            /\ device[via[r]] = Target[r]

(***************************************************************************)
(* The calls of the composition are those of RequestRouting: a call keeps  *)
(* the connection it found, one that was never set up carries nothing, and *)
(* a session that the table loses or replaces goes on as it would there.   *)
(* (The sessions are those of SessionRegistry by definition: every action  *)
(* is one of its actions or leaves its variables alone.)                   *)
(***************************************************************************)
IsRequestRouting == Routing!Spec

\* What a controller sees: a call is made to a device, not to a connection.
Remote == INSTANCE RemoteCall WITH
    Calls    <- Requests,
    SitesOf  <- [r \in Requests |-> {Target[r]}],
    Null     <- None,
    state    <- [r \in Requests |-> Routing!CallState(r)],
    site     <- [r \in Requests |-> IF via[r] = None THEN None ELSE device[via[r]]],
    executed <- {r \in Requests : fate[r] = "run"},
    result   <- answer

(***************************************************************************)
(* The relay and its agents implement RemoteCall device by device: through *)
(* overwritten and deleted entries, reconnects, cuts and restarts, a call  *)
(* is made to the device it names and to no other and ends once, with an   *)
(* error or with the outcome of a command that was addressed to that       *)
(* device, was carried out, and is returned to nobody else.                *)
(***************************************************************************)
ImplementsDeviceCalls == Remote!CallSpec
=============================================================================
