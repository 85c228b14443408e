------------------------- MODULE RelayBroker_proofs -------------------------
(***************************************************************************)
(* The relay with its agents keeps the promises of both components, and    *)
(* answers a call only with a command addressed to the same device, for    *)
(* any number of devices, connections, calls and failures.                 *)
(*                                                                         *)
(* What RequestRouting knows of a call is the session it found; that the   *)
(* session belongs to the device the call names is Placed, an invariant of *)
(* the composition: a connection has its device for good.                  *)
(***************************************************************************)
EXTENDS RelayBroker, QueueLemmas

RoutingProofs == INSTANCE RequestRouting_proofs WITH
    Sessions <- Conns,
    link     <- [c \in Conns |-> IF c \in dialed THEN link[c] ELSE "up"]

RegistryProofs == INSTANCE SessionRegistry_proofs

Placed ==
    /\ dialed \subseteq Conns
    /\ \A c \in Conns : phase[c] # "closed" => c \in dialed
    /\ \A d \in Devices :
         sessions[d] # None => sessions[d] \in dialed /\ device[sessions[d]] = d
    /\ \A r \in Requests :
         via[r] # None => via[r] \in dialed /\ device[via[r]] = Target[r]

Invariant == RegistryProofs!Invariant /\ RoutingProofs!Invariant /\ Placed

-----------------------------------------------------------------------------
(***************************************************************************)
(* The constants of the composition suit both components.                  *)
(***************************************************************************)
LEMMA ComponentAssumptions ==
    RoutingProofs!RoutingAssumption /\ RegistryProofs!RegistryAssumption
  BY BrokerAssumption DEF RoutingProofs!Kinds

(***************************************************************************)
(* A whole queue is one of its prefixes.                                   *)
(***************************************************************************)
LEMMA WholeQueue ==
    ASSUME NEW S, NEW D, NEW f \in [D -> Seq(S)], NEW c \in D
    PROVE  \E m \in 0..Len(f[c]) : f = [f EXCEPT ![c] = SubSeq(@, 1, m)]
<1>1. f[c] \in Seq(S) /\ Len(f[c]) \in 0..Len(f[c])
  OBVIOUS
<1>2. SubSeq(f[c], 1, Len(f[c])) = f[c]
  <2>1. /\ DOMAIN SubSeq(f[c], 1, Len(f[c])) = DOMAIN f[c]
        /\ \A i \in DOMAIN f[c] : SubSeq(f[c], 1, Len(f[c]))[i] = f[c][i]
    BY <1>1
  <2> QED BY <1>1, <2>1
<1> QED BY <1>1, <1>2

(***************************************************************************)
(* Every step is one of SessionRegistry, or none of its business.          *)
(***************************************************************************)
LEMMA RegistryStep == [Next]_vars => [Registry!Next]_(Registry!vars)
<1> SUFFICES ASSUME [Next]_vars PROVE Registry!Next \/ UNCHANGED Registry!vars
  OBVIOUS
<1> USE DEF Registry!Next, Registry!RuntimeLoop, Registry!HandleAgentConn
<1>1. ASSUME NEW d \in Devices, NEW c \in Conns, Dial(d, c) PROVE Registry!Next
  BY <1>1 DEF Dial
<1>2. ASSUME NEW d \in Devices, HangUp(d) PROVE Registry!Next
  BY <1>2 DEF HangUp, Registry!NoticeBreak
<1>3. ASSUME NEW c \in Conns,
             Register(c) \/ Unregister(c) \/ Reject(c) \/ CutLink(c) \/ ReadLoopReturns(c)
      PROVE  Registry!Next
  BY <1>3 DEF Register, Unregister, Reject, CutLink, ReadLoopReturns
<1>4. ASSUME RelayRestart PROVE Registry!Next
  BY <1>4 DEF RelayRestart
<1>5. ASSUME \/ \E r \in Requests : (\E c \in Conns : FindSession(r, c)) \/ RefuseCall(r)
             \/ RouteMessages
             \/ UNCHANGED vars
      PROVE  UNCHANGED Registry!vars
  BY <1>5 DEF FindSession, RefuseCall, RouteMessages, vars, registryVars, Registry!vars
<1> QED BY <1>1, <1>2, <1>3, <1>4, <1>5 DEF Next, Settled

(***************************************************************************)
(* The instance the theorems of SessionRegistry are about has the steps of *)
(* the instance RelayBroker is built from.                                 *)
(***************************************************************************)
LEMMA SameRegistryStep ==
    [Registry!Next]_(Registry!vars) <=> [RegistryProofs!Next]_(RegistryProofs!vars)
BY DEF Registry!Next, Registry!RuntimeLoop, Registry!HandleAgentConn, Registry!Dial,
       Registry!Unused, Registry!Held, RegistryProofs!Held, Registry!HangUp, Registry!Register, Registry!Reject,
       Registry!ReadLoopReturns, Registry!Unregister, Registry!CutLink, Registry!RelayRestart,
       Registry!Settled, Registry!vars,
       RegistryProofs!Next, RegistryProofs!RuntimeLoop, RegistryProofs!HandleAgentConn,
       RegistryProofs!Dial, RegistryProofs!Unused, RegistryProofs!HangUp,
       RegistryProofs!Register, RegistryProofs!Reject, RegistryProofs!ReadLoopReturns,
       RegistryProofs!Unregister, RegistryProofs!CutLink, RegistryProofs!RelayRestart,
       RegistryProofs!Settled, RegistryProofs!vars

(***************************************************************************)
(* The instance the theorems of RequestRouting are about has the steps of  *)
(* the instance RelayBroker is built from.                                 *)
(***************************************************************************)
LEMMA SameStep ==
    [Routing!Next]_(Routing!vars) <=> [RoutingProofs!Next]_(RoutingProofs!vars)
<1> USE DEF Routing!relayVars, Routing!agentVars, Routing!wireVars, Routing!historyVars,
            RoutingProofs!relayVars, RoutingProofs!agentVars, RoutingProofs!wireVars,
            RoutingProofs!historyVars
<1>1. \A r \in Requests, c \in Conns : Routing!FindSession(r, c) <=> RoutingProofs!FindSession(r, c)
  BY DEF Routing!FindSession, RoutingProofs!FindSession
<1>2. \A r \in Requests : Routing!RefuseCall(r) <=> RoutingProofs!RefuseCall(r)
  BY DEF Routing!RefuseCall, RoutingProofs!RefuseCall
<1>3. \A r \in Requests : Routing!RegisterChannel(r) <=> RoutingProofs!RegisterChannel(r)
  BY DEF Routing!RegisterChannel, RoutingProofs!RegisterChannel, Routing!RequestId,
         RoutingProofs!RequestId, Routing!InSendRequest, RoutingProofs!InSendRequest,
         Routing!Outstanding, RoutingProofs!Outstanding, Routing!Range, RoutingProofs!Range
<1>4. \A r \in Requests : Routing!EncodeRequest(r) <=> RoutingProofs!EncodeRequest(r)
  BY DEF Routing!EncodeRequest, RoutingProofs!EncodeRequest
<1>5. \A r \in Requests : Routing!EncodeIntoVoid(r) <=> RoutingProofs!EncodeIntoVoid(r)
  BY DEF Routing!EncodeIntoVoid, RoutingProofs!EncodeIntoVoid
<1>6. \A r \in Requests : Routing!EncodeError(r) <=> RoutingProofs!EncodeError(r)
  BY DEF Routing!EncodeError, RoutingProofs!EncodeError
<1>7. \A r \in Requests : Routing!ReceiveResponse(r) <=> RoutingProofs!ReceiveResponse(r)
  BY DEF Routing!ReceiveResponse, RoutingProofs!ReceiveResponse
<1>8. \A r \in Requests : Routing!TimeOut(r) <=> RoutingProofs!TimeOut(r)
  BY DEF Routing!TimeOut, RoutingProofs!TimeOut
<1>9. \A r \in Requests : Routing!DeleteChannel(r) <=> RoutingProofs!DeleteChannel(r)
  BY DEF Routing!DeleteChannel, RoutingProofs!DeleteChannel, Routing!RequestId,
         RoutingProofs!RequestId
<1>10. \A c \in Conns : Routing!DecodeResponse(c) <=> RoutingProofs!DecodeResponse(c)
  BY DEF Routing!DecodeResponse, RoutingProofs!DecodeResponse, Routing!RequestId,
         RoutingProofs!RequestId, Routing!NoHand, RoutingProofs!NoHand
<1>11. \A c \in Conns : Routing!DispatchResponse(c) <=> RoutingProofs!DispatchResponse(c)
  BY DEF Routing!DispatchResponse, RoutingProofs!DispatchResponse, Routing!NoHand,
         RoutingProofs!NoHand
<1>12. \A c \in Conns : Routing!ReadLoopEnds(c) <=> RoutingProofs!ReadLoopEnds(c)
  BY DEF Routing!ReadLoopEnds, RoutingProofs!ReadLoopEnds, Routing!NoHand,
         RoutingProofs!NoHand
<1>13. \A c \in Conns : Routing!AgentDecode(c) <=> RoutingProofs!AgentDecode(c)
  BY DEF Routing!AgentDecode, RoutingProofs!AgentDecode
<1>14. \A c \in Conns : Routing!AgentRespond(c) <=> RoutingProofs!AgentRespond(c)
  BY DEF Routing!AgentRespond, RoutingProofs!AgentRespond
<1>15. \A c \in Conns : Routing!AgentLeaves(c) <=> RoutingProofs!AgentLeaves(c)
  BY DEF Routing!AgentLeaves, RoutingProofs!AgentLeaves
<1>16. \A c \in Conns : Routing!CutLink(c) <=> RoutingProofs!CutLink(c)
  BY DEF Routing!CutLink, RoutingProofs!CutLink
<1>17. \A S \in SUBSET Conns : Routing!RelayEnds(S) <=> RoutingProofs!RelayEnds(S)
  BY DEF Routing!RelayEnds, RoutingProofs!RelayEnds, Routing!Untouched,
         RoutingProofs!Untouched, Routing!RequestId, RoutingProofs!RequestId,
         Routing!Ids, RoutingProofs!Ids, Routing!NoHand, RoutingProofs!NoHand
<1>18. Routing!AllClosed <=> RoutingProofs!AllClosed
  BY DEF Routing!AllClosed, RoutingProofs!AllClosed, Routing!vars, RoutingProofs!vars
<1> QED
  BY <1>1, <1>2, <1>3, <1>4, <1>5, <1>6, <1>7, <1>8, <1>9, <1>10, <1>11, <1>12, <1>13,
     <1>14, <1>15, <1>16, <1>17, <1>18
     DEF Routing!Next, Routing!SendRequest, Routing!ReadLoop, Routing!HandleConnection,
         RoutingProofs!Next, RoutingProofs!SendRequest, RoutingProofs!ReadLoop,
         RoutingProofs!HandleConnection, Routing!vars, RoutingProofs!vars

(***************************************************************************)
(* Every step is one of RequestRouting, or none of its business.  Refusing *)
(* a connection breaks it, and what is on it stays readable.               *)
(***************************************************************************)
LEMMA RoutingStep == Invariant /\ [Next]_vars => [Routing!Next]_(Routing!vars)
<1> SUFFICES ASSUME Invariant, [Next]_vars
             PROVE  Routing!Next \/ UNCHANGED Routing!vars
  OBVIOUS
<1> DEFINE carries == [c \in Conns |-> IF c \in dialed THEN link[c] ELSE "up"]
<1> USE DEF Routing!Next
<1>t. /\ link \in [Conns -> {"up", "cut"}]
      /\ toAgent \in [Conns -> Seq(Requests)] /\ toRelay \in [Conns -> Seq(Requests)]
      /\ dialed \subseteq Conns
      /\ \A c \in Conns : phase[c] # "closed" => c \in dialed
  BY DEF Invariant, Placed, RegistryProofs!Invariant, RegistryProofs!TypeOK,
         RoutingProofs!Invariant, RoutingProofs!TypeOK
<1>1. ASSUME NEW r \in Requests, (\E c \in Conns : FindSession(r, c)) \/ RefuseCall(r)
      PROVE  Routing!Next
  BY <1>1 DEF FindSession, RefuseCall
<1>2. CASE RouteMessages
  BY <1>2 DEF RouteMessages, Routing!ReadLoop, Routing!HandleConnection
<1>3. ASSUME NEW d \in Devices, NEW c \in Conns, Dial(d, c) PROVE UNCHANGED Routing!vars
  <2>1. carries' = carries
    BY <1>3, <1>t DEF Dial, Registry!Dial
  <2> QED BY <1>3, <2>1 DEF Dial, routingVars, Routing!vars, Routing!relayVars, Routing!agentVars,
                        Routing!wireVars, Routing!historyVars
<1>4. ASSUME NEW c \in Conns, Register(c) \/ Unregister(c) PROVE UNCHANGED Routing!vars
  BY <1>4 DEF Register, Unregister, Registry!Register, Registry!Unregister, routingVars,
              Routing!vars, Routing!relayVars, Routing!agentVars, Routing!wireVars,
              Routing!historyVars
<1>5. ASSUME NEW c \in Conns, Reject(c) PROVE Routing!Next \/ UNCHANGED Routing!vars
  <2>1. /\ c \in dialed /\ dialed' = dialed
        /\ link' = [link EXCEPT ![c] = "cut"]
        /\ UNCHANGED routingVars
    BY <1>5, <1>t DEF Reject, Registry!Reject
  <2>2. carries' = [carries EXCEPT ![c] = "cut"]
    BY <2>1, <1>t
  <2>3. CASE link[c] = "cut"
    <3>1. carries' = carries
      BY <2>1, <2>3, <1>t
    <3> QED BY <2>1, <3>1 DEF routingVars, Routing!vars, Routing!relayVars, Routing!agentVars,
                          Routing!wireVars, Routing!historyVars
  <2>4. CASE link[c] = "up"
    <3>1. carries[c] = "up"
      BY <2>1, <2>4
    <3>2. /\ \E m \in 0..Len(toAgent[c]) : toAgent = [toAgent EXCEPT ![c] = SubSeq(@, 1, m)]
          /\ \E n \in 0..Len(toRelay[c]) : toRelay = [toRelay EXCEPT ![c] = SubSeq(@, 1, n)]
      BY <1>t, WholeQueue
    <3>3. Routing!CutLink(c)
      BY <2>1, <2>2, <3>1, <3>2 DEF Routing!CutLink, routingVars, Routing!relayVars,
                                    Routing!agentVars, Routing!historyVars
    <3> QED BY <3>3
  <2> QED BY <2>3, <2>4, <1>t
<1>6. ASSUME NEW c \in Conns, CutLink(c) \/ ReadLoopReturns(c) PROVE Routing!Next
  BY <1>6 DEF CutLink, ReadLoopReturns, Routing!ReadLoop
<1>7. ASSUME NEW d \in Devices, HangUp(d) PROVE Routing!Next
  <2>1. agentOn[d] \in Conns
    BY <1>7 DEF HangUp, Registry!NoticeBreak, Invariant, RegistryProofs!Invariant,
                RegistryProofs!TypeOK
  <2> QED BY <1>7, <2>1 DEF HangUp, Routing!HandleConnection
<1>8. ASSUME RelayRestart PROVE Routing!Next \/ UNCHANGED Routing!vars
  <2>1. CASE dialed = {}
    <3>1. carries' = carries
      BY <1>8, <2>1 DEF RelayRestart
    <3> QED BY <1>8, <2>1, <3>1 DEF RelayRestart, routingVars, Routing!vars, Routing!relayVars,
                 Routing!agentVars, Routing!wireVars, Routing!historyVars
  <2>2. CASE dialed # {}
    <3>1. PICK S \in SUBSET Conns : S = dialed
      BY <1>t
    <3>2. Routing!RelayEnds(S)
      BY <1>8, <2>2, <3>1 DEF RelayRestart, Routing!RelayEnds
    <3> QED BY <3>2
  <2> QED BY <2>1, <2>2
<1>9. CASE UNCHANGED vars
  BY <1>9 DEF vars, routingVars, Routing!vars, Routing!relayVars, Routing!agentVars,
              Routing!wireVars, Routing!historyVars
<1> QED BY <1>1, <1>2, <1>3, <1>4, <1>5, <1>6, <1>7, <1>8, <1>9 DEF Next, Settled

(***************************************************************************)
(* A connection keeps its device, and a call its session.                  *)
(***************************************************************************)
LEMMA PlacedStep == Invariant /\ [Next]_vars => Placed'
<1> SUFFICES ASSUME Invariant, [Next]_vars PROVE Placed'
  OBVIOUS
<1> USE BrokerAssumption DEF Placed
<1>t. /\ Placed
      /\ device \in [Conns -> Devices]
      /\ phase \in [Conns -> {"closed", "auth", "serving", "leaving"}]
      /\ sessions \in [Devices -> Conns \cup {None}]
      /\ via \in [Requests -> Conns \cup {None}]
  BY DEF Invariant, RegistryProofs!Invariant, RegistryProofs!TypeOK,
         RoutingProofs!Invariant, RoutingProofs!TypeOK
<1>1. ASSUME NEW r \in Requests, NEW c \in Conns, FindSession(r, c) PROVE Placed'
  BY <1>1, <1>t DEF FindSession, Routing!FindSession, registryVars
<1>2. ASSUME UNCHANGED <<phase, device, sessions, via, dialed>> PROVE Placed'
  BY <1>2, <1>t
<1>3. ASSUME NEW r \in Requests, RefuseCall(r)
      PROVE  UNCHANGED <<phase, device, sessions, via, dialed>>
  BY <1>3 DEF RefuseCall, Routing!RefuseCall, registryVars
<1>4. CASE RouteMessages
  <2>1. UNCHANGED <<phase, device, sessions, dialed>>
    BY <1>4 DEF RouteMessages, registryVars
  <2>2. via' = via
    BY <1>4 DEF RouteMessages, Routing!SendRequest, Routing!RegisterChannel, Routing!EncodeRequest,
                Routing!EncodeIntoVoid, Routing!EncodeError, Routing!ReceiveResponse,
                Routing!TimeOut, Routing!DeleteChannel, Routing!DecodeResponse,
                Routing!DispatchResponse, Routing!AgentDecode, Routing!AgentRespond,
                Routing!relayVars
  <2> QED BY <2>1, <2>2, <1>2
<1>5. ASSUME NEW d \in Devices, NEW c \in Conns, Dial(d, c) PROVE Placed'
  BY <1>5, <1>t DEF Dial, Registry!Dial, routingVars
<1>6. ASSUME NEW c \in Conns, Register(c) PROVE Placed'
  BY <1>6, <1>t DEF Register, Registry!Register, routingVars
<1>7. ASSUME NEW c \in Conns, Unregister(c) \/ Reject(c) PROVE Placed'
  BY <1>7, <1>t DEF Unregister, Registry!Unregister, Reject, Registry!Reject, routingVars
<1>8. ASSUME NEW c \in Conns, CutLink(c) \/ ReadLoopReturns(c) PROVE Placed'
  BY <1>8, <1>t DEF CutLink, Registry!CutLink, Routing!CutLink, ReadLoopReturns,
                    Registry!ReadLoopReturns, Routing!ReadLoopEnds, Routing!relayVars
<1>9. ASSUME NEW d \in Devices, HangUp(d) PROVE Placed'
  BY <1>9, <1>t DEF HangUp, Registry!NoticeBreak, Registry!HangUp, Routing!AgentLeaves,
                    Routing!relayVars
<1>10. CASE RelayRestart
  BY <1>10, <1>t DEF RelayRestart, Registry!RelayRestart, Routing!RelayEnds, routingVars
<1>11. CASE UNCHANGED vars
  BY <1>11, <1>2 DEF vars, registryVars, routingVars
<1> QED
  BY <1>1, <1>2, <1>3, <1>4, <1>5, <1>6, <1>7, <1>8, <1>9, <1>10, <1>11 DEF Next, Settled

-----------------------------------------------------------------------------
(***************************************************************************)
(* Both components' invariants and Placed hold in every reachable state.   *)
(***************************************************************************)
THEOREM InvariantCorrect == Spec => []Invariant
<1>1. Init => Invariant
  <2>1. Init => RegistryProofs!Invariant
    <3>1. Registry!Init => RegistryProofs!Init
      BY DEF Registry!Init, RegistryProofs!Init
    <3> QED BY <3>1, ComponentAssumptions, RegistryProofs!InvariantInit DEF Init
  <2>2. Init => RoutingProofs!Invariant
    <3>1. Routing!Init => RoutingProofs!Init
      BY DEF Routing!Init, RoutingProofs!Init, Routing!Ids, RoutingProofs!Ids, Routing!RequestId,
             RoutingProofs!RequestId, Routing!NoHand, RoutingProofs!NoHand
    <3> QED BY <3>1, ComponentAssumptions, RoutingProofs!InvariantInit DEF Init
  <2>3. Init => Placed
    BY DEF Init, Placed, Registry!Init, Routing!Init
  <2> QED BY <2>1, <2>2, <2>3 DEF Invariant
<1>2. Invariant /\ [Next]_vars => Invariant'
  <2> SUFFICES ASSUME Invariant, [Next]_vars PROVE Invariant'
    OBVIOUS
  <2>1. RegistryProofs!Invariant'
    <3>1. [RegistryProofs!Next]_(RegistryProofs!vars)
      BY RegistryStep, SameRegistryStep
    <3> QED BY <3>1, ComponentAssumptions, RegistryProofs!InvariantStep DEF Invariant
  <2>2. RoutingProofs!Invariant'
    <3>1. [RoutingProofs!Next]_(RoutingProofs!vars)
      BY RoutingStep, SameStep
    <3> QED BY <3>1, ComponentAssumptions, RoutingProofs!InvariantStep DEF Invariant
  <2> QED BY <2>1, <2>2, PlacedStep DEF Invariant
<1> QED BY <1>1, <1>2, PTL DEF Spec

(***************************************************************************)
(* A call is answered only by a command addressed to the same device, on a *)
(* connection of that device, whatever happened to the table meanwhile.    *)
(***************************************************************************)
THEOREM AnswersComeFromTarget == Spec => []AnsweredByTarget
<1>1. Invariant => AnsweredByTarget
  <2> SUFFICES ASSUME Invariant, NEW r \in Requests, answer[r] # None
               PROVE  Target[answer[r]] = Target[r] /\ device[via[r]] = Target[r]
    BY DEF AnsweredByTarget
  <2>1. answer[r] \in Requests /\ via[answer[r]] = via[r] /\ via[r] # None
    BY DEF Invariant, RoutingProofs!Invariant, RoutingProofs!TypeOK, RoutingProofs!SessionInv,
           RoutingProofs!CallInv, RoutingProofs!AnsweredInSession
  <2> QED BY <2>1 DEF Invariant, Placed
<1> QED BY <1>1, InvariantCorrect, PTL

(***************************************************************************)
(* The composition is a RequestRouting: its theorems hold here, and with   *)
(* them that calls end as RemoteCall promises.                             *)
(***************************************************************************)
THEOREM BrokerIsRequestRouting == Spec => IsRequestRouting
<1>1. Init => Routing!Init
  BY DEF Init
<1> QED BY <1>1, RoutingStep, InvariantCorrect, PTL DEF Spec, IsRequestRouting, Routing!Spec

(***************************************************************************)
(* What the components promise on their own they keep together: no leaked  *)
(* response channel, no outcome returned twice, the own outcome to a call  *)
(* that is alone; a table without finished sessions, one live connection   *)
(* per device, and an entry for every session registered without overlap.  *)
(***************************************************************************)
THEOREM PromisesKeptTogether ==
    Spec => [](/\ Routing!ResponsesOwned /\ Routing!AnswersUnique /\ Routing!LoneAnswerIsOwn
               /\ Registry!NoFinishedSession /\ Registry!OneLiveLink
               /\ Registry!ListedUnlessOverlapped)
<1>1. Invariant => /\ Routing!ResponsesOwned /\ Routing!AnswersUnique /\ Routing!LoneAnswerIsOwn
  <2>1. ASSUME Invariant
        PROVE  /\ RoutingProofs!ResponsesOwned /\ RoutingProofs!AnswersUnique
               /\ RoutingProofs!LoneAnswerIsOwn
    BY <2>1 DEF Invariant, RoutingProofs!Invariant, RoutingProofs!SessionInv,
                RoutingProofs!OnceInv, RoutingProofs!AloneInv
  <2> QED
    BY <2>1 DEF Routing!ResponsesOwned, RoutingProofs!ResponsesOwned, Routing!Ids, RoutingProofs!Ids,
      Routing!InSendRequest, RoutingProofs!InSendRequest, Routing!RequestId, RoutingProofs!RequestId,
      Routing!AnswersUnique, RoutingProofs!AnswersUnique,
      Routing!LoneAnswerIsOwn, RoutingProofs!LoneAnswerIsOwn
<1>2. Invariant => /\ Registry!NoFinishedSession /\ Registry!OneLiveLink
                   /\ Registry!ListedUnlessOverlapped
  BY DEF Invariant, RegistryProofs!Invariant, RegistryProofs!LiveIsOn, RegistryProofs!NoFinishedSession,
         RegistryProofs!ListedUnlessOverlapped,
         Registry!NoFinishedSession, Registry!OneLiveLink, Registry!ListedUnlessOverlapped
<1> QED BY <1>1, <1>2, InvariantCorrect, PTL

-----------------------------------------------------------------------------
(***************************************************************************)
(* Refinement.  RequestRouting's calls are made to connections; a step of  *)
(* such a call is one of a call to the connection's device, because Placed *)
(* holds before and after it.                                              *)
(***************************************************************************)
LEMMA DeviceStep ==
    ASSUME Invariant, Invariant', [Next]_vars
    PROVE  [Remote!CallNext]_(Remote!callVars)
<1> DEFINE calls == [r \in Requests |-> Routing!CallState(r)]
           sites == [r \in Requests |-> IF via[r] = None THEN None ELSE device[via[r]]]
           ran   == {r \in Requests : fate[r] = "run"}
<1>1. [RoutingProofs!Remote!CallNext]_(RoutingProofs!Remote!callVars)
  <2>1. [RoutingProofs!Next]_(RoutingProofs!vars)
    BY RoutingStep, SameStep
  <2>2. RoutingProofs!Invariant /\ RoutingProofs!Invariant'
    BY DEF Invariant
  <2> QED BY <2>1, <2>2, ComponentAssumptions, RoutingProofs!RefinementStep
<1>2. /\ calls = [r \in Requests |-> RoutingProofs!CallState(r)]
      /\ calls' = [r \in Requests |-> RoutingProofs!CallState(r)]'
  BY DEF Routing!CallState, RoutingProofs!CallState
<1>3. /\ via \in [Requests -> Conns \cup {None}]
      /\ via' \in [Requests -> Conns \cup {None}]
      /\ None \notin Conns
  BY BrokerAssumption DEF Invariant, RoutingProofs!Invariant, RoutingProofs!TypeOK
<1>4. /\ sites = [r \in Requests |-> IF via[r] = None THEN None ELSE Target[r]]
      /\ sites' = [r \in Requests |-> IF via'[r] = None THEN None ELSE Target[r]]
  BY DEF Invariant, Placed
<1> HIDE DEF calls, ran
<1>5. ASSUME NEW r \in Requests, NEW c \in Conns,
             calls[r] = "new", calls' = [calls EXCEPT ![r] = "pending"],
             via' = [via EXCEPT ![r] = c], answer' = answer, ran' = ran
      PROVE  Remote!CallNext
  <2>1. sites' = [sites EXCEPT ![r] = Target[r]]
    BY <1>3, <1>4, <1>5
  <2>2. Target[r] \in [q \in Requests |-> {Target[q]}][r]
    OBVIOUS
  <2> HIDE DEF sites
  <2> QED BY <1>5, <2>1, <2>2 DEF Remote!CallNext, Remote!Submit, calls, sites, ran
<1>6. ASSUME via' = via PROVE sites' = sites
  BY <1>4, <1>6
<1>7. CASE \E r \in Requests, c \in Conns : RoutingProofs!Remote!Submit(r, c)
  <2>1. PICK r \in Requests, c \in Conns : RoutingProofs!Remote!Submit(r, c)
    BY <1>7
  <2> QED BY <1>2, <1>5, <2>1 DEF RoutingProofs!Remote!Submit, ran
<1>8. CASE \E r \in Requests : RoutingProofs!Remote!Execute(r)
  BY <1>2, <1>6, <1>8 DEF RoutingProofs!Remote!Execute, Remote!Execute, Remote!CallNext,
                          calls, ran
<1>9. CASE \E r, e \in Requests : RoutingProofs!Remote!Answer(r, e)
  <2>1. PICK r \in Requests, e \in Requests : RoutingProofs!Remote!Answer(r, e)
    BY <1>9
  <2>2. sites[e] = sites[r] /\ sites' = sites
    BY <1>6, <2>1 DEF RoutingProofs!Remote!Answer
  <2> HIDE DEF sites
  <2>3. Remote!Answer(r, e)
    BY <1>2, <2>1, <2>2 DEF RoutingProofs!Remote!Answer, Remote!Answer, calls, sites, ran
  <2> QED BY <2>3 DEF Remote!CallNext
<1>10. CASE \E C \in SUBSET Requests : RoutingProofs!Remote!Fail(C)
  <2>1. PICK C \in SUBSET Requests : RoutingProofs!Remote!Fail(C)
    BY <1>10
  <2>2. sites' = sites
    BY <1>6, <2>1 DEF RoutingProofs!Remote!Fail
  <2>3. Remote!Fail(C)
    BY <1>2, <2>1, <2>2 DEF RoutingProofs!Remote!Fail, Remote!Fail, calls, ran
  <2> QED BY <2>3 DEF Remote!CallNext
<1>11. CASE UNCHANGED RoutingProofs!Remote!callVars
  BY <1>2, <1>6, <1>11 DEF RoutingProofs!Remote!callVars, Remote!callVars, calls, ran
<1> QED
  BY <1>1, <1>7, <1>8, <1>9, <1>10, <1>11 DEF RoutingProofs!Remote!CallNext

(***************************************************************************)
(* The relay with its agents implements RemoteCall device by device: a     *)
(* call is made to the device it names, ends once, and what it returns was *)
(* carried out for that device and is returned to nobody else.             *)
(***************************************************************************)
THEOREM BrokerImplementsDeviceCalls == Spec => ImplementsDeviceCalls
<1>1. Init => Remote!CallInit
  BY DEF Init, Routing!Init, Remote!CallInit, Routing!CallState
<1>2. Invariant /\ Invariant' /\ [Next]_vars => [Remote!CallNext]_(Remote!callVars)
  BY DeviceStep
<1> QED BY <1>1, <1>2, InvariantCorrect, PTL DEF Spec, ImplementsDeviceCalls, Remote!CallSpec
=============================================================================
