----------------------- MODULE RequestRouting_proofs -----------------------
(***************************************************************************)
(* The safety properties of RequestRouting and its refinement of           *)
(* RemoteCall, for any set of calls, sessions, kinds and wire capacity.    *)
(*                                                                         *)
(* None of the properties is inductive by itself: that an answer reaches   *)
(* one call only holds because a request is, at every moment, in at most   *)
(* one place on its way through the connection, the agent, the             *)
(* connection, readLoop's hands, a response channel and a controller's     *)
(* answer.  Invariant says so, and that the way never leaves the session.  *)
(***************************************************************************)
EXTENDS RequestRoutingRefinement, QueueLemmas

Sending(r) == pc[r] \in {"registered", "waiting", "returning"}
Sent(r)    == pc[r] \in {"waiting", "returning", "done"}
Ran(r)     == fate[r] = "run" /\ Kind[r] = "exec"

\* What a call has by the point its handler reached.
CallInv ==
    \A r \in Requests :
        /\ pc[r] = "idle" => via[r] = None
        /\ pc[r] = "found" => via[r] # None /\ chan[r] = None
        /\ Sending(r) => via[r] # None
        /\ via[r] = None => chan[r] = None /\ answer[r] = None /\ fate[r] = "unread"
        /\ pc[r] \notin {"returning", "done"} => answer[r] = None
        /\ fate[r] # "unread" => Sent(r)

\* Everything under way on a session belongs to calls of that session.
WireInv ==
    \A s \in Sessions :
        /\ \A q \in Range(toAgent[s]) : via[q] = s /\ Sent(q) /\ fate[q] = "unread"
        /\ \A q \in Range(toRelay[s]) : via[q] = s /\ Ran(q)
        /\ running[s] # None => via[running[s]] = s /\ Ran(running[s])

HandInv ==
    \A s \in Sessions :
        hand[s].ch # None =>
            /\ via[hand[s].ch] = s /\ pc[hand[s].ch] \notin {"idle", "found"}
            /\ via[hand[s].resp] = s /\ Ran(hand[s].resp)

ChanInv ==
    \A r \in Requests : chan[r] # None => via[chan[r]] = via[r] /\ Ran(chan[r])

\* A request is in one place.
QueuedOnce ==
    \A s \in Sessions : IsInjective(toAgent[s]) /\ IsInjective(toRelay[s])

InOnePlace ==
    \A s \in Sessions :
        /\ running[s] # None => running[s] \notin Range(toRelay[s]) \cup {hand[s].resp}
        /\ hand[s].resp # None => hand[s].resp \notin Range(toRelay[s])

\* What was delivered to a call is under way no more, and delivered once.
DeliveredOnce ==
    \A p \in Requests :
        /\ \A s \in Sessions :
             /\ chan[p] # None => chan[p] \notin Range(toRelay[s]) \cup {running[s], hand[s].resp}
             /\ answer[p] # None => answer[p] \notin Range(toRelay[s]) \cup {running[s], hand[s].resp}
        /\ \A q \in Requests :
             /\ chan[p] # None /\ chan[p] = chan[q] => p = q
             /\ chan[p] # None => chan[p] # answer[q]

\* A call alone in sendRequest on a session that owed nothing.
LoneInv ==
    \A r \in Requests :
        Sending(r) /\ solo[r] =>
            /\ InSendRequest(via[r]) = {r}
            /\ quiet[r] => Outstanding(via[r]) \subseteq {r} /\ chan[r] \in {None, r}

\* The three parts the proof of a step treats one by one.
SessionInv ==
    /\ CallInv
    /\ WireInv
    /\ HandInv
    /\ ChanInv
    /\ ResponsesOwned
    /\ AnsweredInSession

OnceInv ==
    /\ QueuedOnce
    /\ InOnePlace
    /\ DeliveredOnce
    /\ AnswersUnique

AloneInv ==
    /\ LoneInv
    /\ LoneAnswerIsOwn

Invariant ==
    /\ TypeOK
    /\ SessionInv
    /\ OnceInv
    /\ AloneInv

-----------------------------------------------------------------------------
(***************************************************************************)
(* Every step keeps every variable in its type.                            *)
(***************************************************************************)
LEMMA TypeStep == TypeOK /\ [Next]_vars => TypeOK'
<1> SUFFICES ASSUME TypeOK, [Next]_vars PROVE TypeOK'
  OBVIOUS
<1> USE RoutingAssumption
<1>1. ASSUME NEW r \in Requests, NEW s \in Sessions, FindSession(r, s) PROVE TypeOK'
  BY <1>1 DEF TypeOK, FindSession, agentVars, wireVars, historyVars
<1>2. ASSUME NEW r \in Requests, RefuseCall(r) PROVE TypeOK'
  BY <1>2 DEF TypeOK, RefuseCall, agentVars, wireVars, historyVars
<1>3. ASSUME NEW r \in Requests, RegisterChannel(r) PROVE TypeOK'
  BY <1>3 DEF TypeOK, RegisterChannel, agentVars, wireVars, Ids
<1>4. ASSUME NEW r \in Requests, EncodeRequest(r) PROVE TypeOK'
  <2>1. CASE via[r] \in Sessions
    <3>1. Append(toAgent[via[r]], r) \in Seq(Requests)
      BY <2>1, AppendQueue DEF TypeOK
    <3> QED BY <1>4, <2>1, <3>1 DEF TypeOK, EncodeRequest, agentVars, historyVars
  <2>2. CASE via[r] \notin Sessions
    <3>1. toAgent' = toAgent
      BY <1>4, <2>2 DEF TypeOK, EncodeRequest
    <3> QED BY <1>4, <3>1 DEF TypeOK, EncodeRequest, agentVars, historyVars
  <2> QED BY <2>1, <2>2
<1>5. ASSUME NEW r \in Requests, EncodeIntoVoid(r) \/ EncodeError(r) \/ TimeOut(r)
      PROVE  TypeOK'
  BY <1>5 DEF TypeOK, EncodeIntoVoid, EncodeError, TimeOut, agentVars, wireVars, historyVars
<1>6. ASSUME NEW r \in Requests, ReceiveResponse(r) PROVE TypeOK'
  BY <1>6 DEF TypeOK, ReceiveResponse, agentVars, wireVars, historyVars
<1>7. ASSUME NEW r \in Requests, DeleteChannel(r) PROVE TypeOK'
  BY <1>7 DEF TypeOK, DeleteChannel, agentVars, wireVars, historyVars
<1>8. ASSUME NEW s \in Sessions, DecodeResponse(s) PROVE TypeOK'
  <2>1. Head(toRelay[s]) \in Requests /\ Tail(toRelay[s]) \in Seq(Requests)
    BY <1>8, TailQueue DEF TypeOK, DecodeResponse
  <2>2. responses[s][RequestId(Head(toRelay[s]))] \in Requests \cup {None}
    <3>1. RequestId(Head(toRelay[s])) \in Ids
      BY <2>1 DEF Ids
    <3> QED BY <3>1 DEF TypeOK
  <2>3. hand' \in [Sessions -> [ch : Requests \cup {None}, resp : Requests \cup {None}]]
    BY <1>8, <2>1, <2>2 DEF TypeOK, DecodeResponse
  <2>4. toRelay' \in [Sessions -> Seq(Requests)]
    BY <1>8, <2>1 DEF TypeOK, DecodeResponse
  <2> QED BY <1>8, <2>3, <2>4 DEF TypeOK, DecodeResponse, agentVars, historyVars
<1>9. ASSUME NEW s \in Sessions, DispatchResponse(s) PROVE TypeOK'
  BY <1>9 DEF TypeOK, DispatchResponse, NoHand, agentVars, wireVars, historyVars
<1>10. ASSUME NEW s \in Sessions, ReadLoopEnds(s) PROVE TypeOK'
  BY <1>10 DEF TypeOK, ReadLoopEnds, agentVars, wireVars, historyVars
<1>11. ASSUME NEW s \in Sessions, AgentDecode(s) PROVE TypeOK'
  <2>1. Head(toAgent[s]) \in Requests /\ Tail(toAgent[s]) \in Seq(Requests)
    BY <1>11, TailQueue DEF TypeOK, AgentDecode
  <2>2. toAgent' \in [Sessions -> Seq(Requests)]
    BY <1>11, <2>1 DEF TypeOK, AgentDecode
  <2>3. running' \in [Sessions -> Requests \cup {None}]
    <3>1. \/ running' = [running EXCEPT ![s] = Head(toAgent[s])]
          \/ running' = running
      BY <1>11 DEF AgentDecode
    <3> QED BY <2>1, <3>1 DEF TypeOK
  <2>4. fate' \in [Requests -> {"unread", "run", "ignored"}]
    BY <1>11, <2>1 DEF TypeOK, AgentDecode
  <2> QED BY <1>11, <2>2, <2>3, <2>4 DEF TypeOK, AgentDecode, relayVars, historyVars
<1>12. ASSUME NEW s \in Sessions, AgentRespond(s) PROVE TypeOK'
  <2>1. Append(toRelay[s], running[s]) \in Seq(Requests)
    BY <1>12, AppendQueue DEF TypeOK, AgentRespond
  <2>2. toRelay' \in [Sessions -> Seq(Requests)]
    BY <1>12, <2>1 DEF TypeOK, AgentRespond
  <2> QED BY <1>12, <2>2 DEF TypeOK, AgentRespond, relayVars, historyVars
<1>13. ASSUME NEW s \in Sessions, AgentLeaves(s) PROVE TypeOK'
  BY <1>13 DEF TypeOK, AgentLeaves, relayVars, historyVars
<1>14. ASSUME NEW s \in Sessions, CutLink(s) PROVE TypeOK'
  <2>1. PICK m \in 0..Len(toAgent[s]), n \in 0..Len(toRelay[s]) :
           /\ toAgent' = [toAgent EXCEPT ![s] = SubSeq(@, 1, m)]
           /\ toRelay' = [toRelay EXCEPT ![s] = SubSeq(@, 1, n)]
    BY <1>14 DEF CutLink
  <2>2. /\ SubSeq(toAgent[s], 1, m) \in Seq(Requests)
        /\ SubSeq(toRelay[s], 1, n) \in Seq(Requests)
    BY PrefixQueue DEF TypeOK
  <2> QED BY <1>14, <2>1, <2>2 DEF TypeOK, CutLink, relayVars, agentVars, historyVars
<1>15. ASSUME NEW S \in SUBSET Sessions, RelayEnds(S) PROVE TypeOK'
  BY <1>15, QueueElements DEF TypeOK, RelayEnds, NoHand, agentVars, historyVars
<1>16. CASE UNCHANGED vars
  BY <1>16 DEF TypeOK, vars, relayVars, agentVars, wireVars, historyVars
<1> QED
  BY <1>1, <1>2, <1>3, <1>4, <1>5, <1>6, <1>7, <1>8, <1>9, <1>10, <1>11, <1>12, <1>13,
     <1>14, <1>15, <1>16 DEF Next, SendRequest, ReadLoop, HandleConnection, AllClosed
-----------------------------------------------------------------------------
(***************************************************************************)
(* The steps that leave both directions of the connection alone.           *)
(***************************************************************************)
LEMMA HandlerStep ==
    ASSUME Invariant, TypeOK', NEW r \in Requests,
           \/ \E s \in Sessions : FindSession(r, s)
           \/ RefuseCall(r)
           \/ RegisterChannel(r)
           \/ EncodeIntoVoid(r) \/ EncodeError(r)
           \/ ReceiveResponse(r) \/ TimeOut(r)
           \/ DeleteChannel(r)
    PROVE  Invariant'
<1> USE RoutingAssumption
    DEF Invariant, TypeOK, SessionInv, CallInv, WireInv, HandInv, ChanInv, ResponsesOwned,
        AnsweredInSession, OnceInv, QueuedOnce, InOnePlace, DeliveredOnce, AnswersUnique,
        AloneInv, LoneInv, LoneAnswerIsOwn, Sending, Sent, Ran, InSendRequest, Outstanding,
        NoHand, Ids, RequestId, agentVars, wireVars
<1>1. ASSUME NEW s \in Sessions, FindSession(r, s) PROVE Invariant'
  <2>1. SessionInv'
    BY <1>1 DEF FindSession, historyVars
  <2>2. OnceInv'
    BY <1>1 DEF FindSession, historyVars
  <2>3. AloneInv'
    BY <1>1 DEF FindSession, historyVars
  <2> QED BY <2>1, <2>2, <2>3
<1>2. ASSUME RefuseCall(r) PROVE Invariant'
  <2>1. SessionInv'
    BY <1>2 DEF RefuseCall, historyVars
  <2>2. OnceInv'
    BY <1>2 DEF RefuseCall, historyVars
  <2>3. AloneInv'
    BY <1>2 DEF RefuseCall, historyVars
  <2> QED BY <2>1, <2>2, <2>3
<1>3. ASSUME RegisterChannel(r) PROVE Invariant'
  <2>1. SessionInv'
    BY <1>3 DEF RegisterChannel
  <2>2. OnceInv'
    BY <1>3 DEF RegisterChannel
  <2>3. ASSUME NEW q \in Requests, Sending(q)', solo'[q]
        PROVE  /\ InSendRequest(via[q])' = {q}
               /\ quiet'[q] => Outstanding(via[q])' \subseteq {q} /\ chan'[q] \in {None, q}
    <3>1. CASE q = r
      <4>1. via[q] \in Sessions /\ via' = via /\ chan[q] = None /\ chan' = chan
        BY <1>3, <3>1 DEF RegisterChannel
      <4>2. InSendRequest(via[q]) = {}
        BY <1>3, <2>3, <3>1 DEF RegisterChannel
      <4>3. InSendRequest(via[q])' = {q}
        <5>1. ASSUME NEW x \in Requests, x # q PROVE Sending(x)' <=> Sending(x)
          BY <1>3, <3>1, <5>1 DEF RegisterChannel
        <5>2. ASSUME NEW x \in Requests, x # q PROVE ~(Sending(x) /\ via[x] = via[q])
          BY <4>2
        <5> QED BY <2>3, <4>1, <5>1, <5>2
      <4>4. quiet'[q] => Outstanding(via[q]) = {}
        <5> HIDE DEF Outstanding, InSendRequest
        <5>1. quiet' = [quiet EXCEPT ![q] = (Outstanding(via[q]) = {})]
          BY <1>3, <3>1 DEF RegisterChannel
        <5>2. quiet'[q] = (Outstanding(via[q]) = {})
          BY <5>1
        <5> QED BY <5>2
      <4>5. Outstanding(via[q])' = Outstanding(via[q])
        BY <1>3 DEF RegisterChannel
      <4> QED BY <4>1, <4>3, <4>4, <4>5
    <3>2. CASE q # r
      <4>1. Sending(q) /\ solo[q] /\ via[q] # via[r] /\ quiet'[q] = quiet[q]
        BY <1>3, <2>3, <3>2 DEF RegisterChannel
      <4>2. InSendRequest(via[q])' = InSendRequest(via[q])
        BY <1>3, <4>1 DEF RegisterChannel
      <4>3. Outstanding(via[q])' = Outstanding(via[q])
        BY <1>3 DEF RegisterChannel
      <4> QED BY <1>3, <4>1, <4>2, <4>3 DEF RegisterChannel
    <3> QED BY <3>1, <3>2
  <2>4. LoneAnswerIsOwn'
    BY <1>3 DEF RegisterChannel
  <2>5. LoneInv'
    BY <1>3, <2>3 DEF RegisterChannel
  <2> QED BY <2>1, <2>2, <2>4, <2>5
<1>4. ASSUME EncodeIntoVoid(r) PROVE Invariant'
  <2>1. SessionInv'
    BY <1>4 DEF EncodeIntoVoid, historyVars
  <2>2. OnceInv'
    BY <1>4 DEF EncodeIntoVoid, historyVars
  <2>3. AloneInv'
    BY <1>4 DEF EncodeIntoVoid, historyVars
  <2> QED BY <2>1, <2>2, <2>3
<1>5. ASSUME EncodeError(r) PROVE Invariant'
  <2>1. SessionInv'
    BY <1>5 DEF EncodeError, historyVars
  <2>2. OnceInv'
    BY <1>5 DEF EncodeError, historyVars
  <2>3. AloneInv'
    BY <1>5 DEF EncodeError, historyVars
  <2> QED BY <2>1, <2>2, <2>3
<1>6. ASSUME ReceiveResponse(r) PROVE Invariant'
  <2>1. SessionInv'
    BY <1>6 DEF ReceiveResponse, historyVars
  <2>2. OnceInv'
    BY <1>6 DEF ReceiveResponse, historyVars
  <2>3. AloneInv'
    BY <1>6 DEF ReceiveResponse, historyVars
  <2> QED BY <2>1, <2>2, <2>3
<1>7. ASSUME TimeOut(r) PROVE Invariant'
  <2>1. SessionInv'
    BY <1>7 DEF TimeOut, historyVars
  <2>2. OnceInv'
    BY <1>7 DEF TimeOut, historyVars
  <2>3. AloneInv'
    BY <1>7 DEF TimeOut, historyVars
  <2> QED BY <2>1, <2>2, <2>3
<1>8. ASSUME DeleteChannel(r) PROVE Invariant'
  <2>1. SessionInv'
    BY <1>8 DEF DeleteChannel, historyVars
  <2>2. OnceInv'
    BY <1>8 DEF DeleteChannel, historyVars
  <2>3. AloneInv'
    BY <1>8 DEF DeleteChannel, historyVars
  <2> QED BY <2>1, <2>2, <2>3
<1> QED BY <1>1, <1>2, <1>3, <1>4, <1>5, <1>6, <1>7, <1>8

(***************************************************************************)
(* The relay's write: the request is new on the connection.                *)
(***************************************************************************)
LEMMA EncodeStep ==
    ASSUME Invariant, TypeOK', NEW r \in Requests, EncodeRequest(r)
    PROVE  Invariant'
<1> USE RoutingAssumption
    DEF Invariant, TypeOK, SessionInv, CallInv, WireInv, HandInv, ChanInv, ResponsesOwned,
        AnsweredInSession, OnceInv, QueuedOnce, InOnePlace, DeliveredOnce, AnswersUnique,
        AloneInv, LoneInv, LoneAnswerIsOwn, Sending, Sent, Ran, InSendRequest, Outstanding,
        NoHand, Ids, RequestId, relayVars, agentVars, wireVars, historyVars
<1>1. EncodeRequest(r)
  OBVIOUS
<1>2. via[r] \in Sessions /\ r \notin Range(toAgent[via[r]])
  <2>1. via[r] \in Sessions /\ ~Sent(r)
    BY <1>1 DEF EncodeRequest
  <2>2. \A q \in Range(toAgent[via[r]]) : Sent(q)
    BY <2>1
  <2> QED BY <2>1, <2>2
<1>3. ASSUME NEW t \in Sessions
      PROVE  /\ Range(toAgent'[t]) = Range(toAgent[t]) \cup (IF t = via[r] THEN {r} ELSE {})
             /\ IsInjective(toAgent'[t])
  <2>1. CASE t = via[r]
    <3>1. toAgent'[t] = Append(toAgent[t], r)
      BY <1>1, <1>2, <2>1 DEF EncodeRequest
    <3>2. toAgent[t] \in Seq(Requests) /\ IsInjective(toAgent[t])
      OBVIOUS
    <3> QED BY <1>2, <2>1, <3>1, <3>2, AppendQueue
  <2>2. CASE t # via[r]
    BY <1>1, <2>2 DEF EncodeRequest
  <2> QED BY <2>1, <2>2
<1>4. SessionInv'
  BY <1>1, <1>2, <1>3 DEF EncodeRequest
<1>5. OnceInv'
  BY <1>1, <1>2, <1>3 DEF EncodeRequest
<1>6. AloneInv'
  BY <1>1, <1>2, <1>3 DEF EncodeRequest
<1> QED BY <1>4, <1>5, <1>6

(***************************************************************************)
(* readLoop: what it decodes leaves the connection for its hands.          *)
(***************************************************************************)
LEMMA ReadLoopStep ==
    ASSUME Invariant, TypeOK', NEW s \in Sessions, ReadLoop(s)
    PROVE  Invariant'
<1> USE RoutingAssumption
    DEF Invariant, TypeOK, SessionInv, CallInv, WireInv, HandInv, ChanInv, ResponsesOwned,
        AnsweredInSession, OnceInv, QueuedOnce, InOnePlace, DeliveredOnce, AnswersUnique,
        AloneInv, LoneInv, LoneAnswerIsOwn, Sending, Sent, Ran, InSendRequest, Outstanding,
        NoHand, Ids, RequestId, relayVars, agentVars, wireVars, historyVars
<1>1. ASSUME DecodeResponse(s) PROVE Invariant'
  <2>1. /\ Head(toRelay[s]) \in Range(toRelay[s])
        /\ Head(toRelay[s]) \notin Range(toRelay'[s])
        /\ Range(toRelay'[s]) \subseteq Range(toRelay[s])
        /\ IsInjective(toRelay'[s])
    BY <1>1, TailQueue DEF DecodeResponse
  <2>2. \A t \in Sessions \ {s} : toRelay'[t] = toRelay[t]
    BY <1>1 DEF DecodeResponse
  <2>3. \/ hand' = hand
        \/ /\ hand' = [hand EXCEPT ![s] = [ch   |-> responses[s]["1"],
                                          resp |-> Head(toRelay[s])]]
           /\ responses[s]["1"] \in InSendRequest(s)
    BY <1>1 DEF DecodeResponse
  <2>7. SessionInv'
    BY <1>1, <2>1, <2>2, <2>3 DEF DecodeResponse
  <2>8. OnceInv'
    BY <1>1, <2>1, <2>2, <2>3 DEF DecodeResponse
  <2>9. AloneInv'
    BY <1>1, <2>1, <2>2, <2>3 DEF DecodeResponse
  <2> QED BY <2>7, <2>8, <2>9
<1>2. ASSUME DispatchResponse(s) PROVE Invariant'
  <2>1. SessionInv'
    BY <1>2 DEF DispatchResponse
  <2>2. OnceInv'
    BY <1>2 DEF DispatchResponse
  <2>3. AloneInv'
    BY <1>2 DEF DispatchResponse
  <2> QED BY <2>1, <2>2, <2>3
<1>3. ASSUME ReadLoopEnds(s) PROVE Invariant'
  <2>1. SessionInv'
    BY <1>3 DEF ReadLoopEnds
  <2>2. OnceInv'
    BY <1>3 DEF ReadLoopEnds
  <2>3. AloneInv'
    BY <1>3 DEF ReadLoopEnds
  <2> QED BY <2>1, <2>2, <2>3
<1> QED BY <1>1, <1>2, <1>3 DEF ReadLoop

(***************************************************************************)
(* The agent's loop: a request leaves the connection to be run or ignored, *)
(* its response enters the other direction.                                *)
(***************************************************************************)
LEMMA HandleConnectionStep ==
    ASSUME Invariant, TypeOK', NEW s \in Sessions, HandleConnection(s)
    PROVE  Invariant'
<1> USE RoutingAssumption
    DEF Invariant, TypeOK, SessionInv, CallInv, WireInv, HandInv, ChanInv, ResponsesOwned,
        AnsweredInSession, OnceInv, QueuedOnce, InOnePlace, DeliveredOnce, AnswersUnique,
        AloneInv, LoneInv, LoneAnswerIsOwn, Sending, Sent, Ran, InSendRequest, Outstanding,
        NoHand, Ids, RequestId, relayVars, agentVars, wireVars, historyVars
<1>1. ASSUME AgentDecode(s) PROVE Invariant'
  <2> DEFINE r == Head(toAgent[s])
  <2>1. /\ r \in Range(toAgent[s])
        /\ Range(toAgent[s]) = Range(toAgent'[s]) \cup {r}
        /\ r \notin Range(toAgent'[s])
        /\ IsInjective(toAgent'[s])
    BY <1>1, TailQueue DEF AgentDecode
  <2>2. \A t \in Sessions \ {s} : toAgent'[t] = toAgent[t]
    BY <1>1 DEF AgentDecode
  <2>3. r \in Requests /\ via[r] = s /\ fate[r] = "unread" /\ running[s] = None
    BY <1>1, <2>1 DEF AgentDecode
  <2>4. \/ /\ Kind[r] = "exec"
           /\ running' = [running EXCEPT ![s] = r]
           /\ fate' = [fate EXCEPT ![r] = "run"]
        \/ /\ Kind[r] # "exec"
           /\ running' = running
           /\ fate' = [fate EXCEPT ![r] = "ignored"]
    BY <1>1 DEF AgentDecode
  <2> HIDE DEF r
  <2>7. SessionInv'
    <3>1. CallInv'
      BY <1>1, <2>1, <2>2, <2>3, <2>4 DEF AgentDecode
    <3>2. WireInv'
      <4>1. \A t \in Sessions :
              /\ \A q \in Range(toAgent[t]) : q \in Requests /\ via[q] = t /\ Sent(q) /\ fate[q] = "unread"
              /\ \A q \in Range(toRelay[t]) : q \in Requests /\ via[q] = t /\ Ran(q)
              /\ running[t] # None => running[t] \in Requests /\ via[running[t]] = t /\ Ran(running[t])
        BY QueueElements
      <4>2. /\ pc' = pc /\ via' = via /\ toRelay' = toRelay
            /\ \A q \in Requests \ {r} : fate'[q] = fate[q]
            /\ Kind[r] = "exec" => fate'[r] = "run"
        BY <1>1, <2>3, <2>4 DEF AgentDecode
      <4>3. \A t \in Sessions : running'[t] \in {running[t], r} /\ (running'[t] = r => t = s /\ Kind[r] = "exec")
        BY <2>3, <2>4, <4>1
      <4> HIDE DEF Invariant, TypeOK
      <4>4. ASSUME NEW t \in Sessions, NEW q \in Range(toAgent'[t])
            PROVE  q \in Range(toAgent[t]) /\ q # r
        BY <2>1, <2>2, <2>3, <4>1, <4>4
      <4> QED BY <2>3, <4>1, <4>2, <4>3, <4>4
    <3>3. HandInv'
      BY <1>1, <2>1, <2>2, <2>3, <2>4 DEF AgentDecode
    <3>4. ChanInv'
      BY <1>1, <2>1, <2>2, <2>3, <2>4 DEF AgentDecode
    <3>5. ResponsesOwned'
      BY <1>1, <2>1, <2>2, <2>3, <2>4 DEF AgentDecode
    <3>6. AnsweredInSession'
      BY <1>1, <2>1, <2>2, <2>3, <2>4 DEF AgentDecode
    <3> QED BY <3>1, <3>2, <3>3, <3>4, <3>5, <3>6
  <2>8. OnceInv'
    <3>1. QueuedOnce'
      BY <1>1, <2>1, <2>2, <2>3, <2>4 DEF AgentDecode
    <3>2. InOnePlace'
      <4>1. toRelay' = toRelay /\ hand' = hand
        BY <1>1 DEF AgentDecode
      <4>2. \A t \in Sessions : running'[t] = running[t] \/ running'[t] = r
        BY <2>3, <2>4
      <4>3. \A t \in Sessions : r \notin Range(toRelay[t]) \cup {hand[t].resp}
        BY <2>3
      <4>4. InOnePlace
        OBVIOUS
      <4> HIDE DEF Invariant, TypeOK
      <4> QED BY <4>1, <4>2, <4>3, <4>4
    <3>3. DeliveredOnce'
      BY <1>1, <2>1, <2>2, <2>3, <2>4 DEF AgentDecode
    <3>4. AnswersUnique'
      BY <1>1, <2>1, <2>2, <2>3, <2>4 DEF AgentDecode
    <3> QED BY <3>1, <3>2, <3>3, <3>4
  <2>9. AloneInv'
    BY <1>1, <2>1, <2>2, <2>3, <2>4 DEF AgentDecode
  <2> QED BY <2>7, <2>8, <2>9
<1>2. ASSUME AgentRespond(s) PROVE Invariant'
  <2>1. running[s] \in Requests /\ running' = [running EXCEPT ![s] = None]
    BY <1>2 DEF AgentRespond
  <2>2. /\ Range(toRelay'[s]) \subseteq Range(toRelay[s]) \cup {running[s]}
        /\ IsInjective(toRelay'[s])
    <3>1. toRelay[s] \in Seq(Requests) /\ IsInjective(toRelay[s])
      OBVIOUS
    <3>2. toRelay'[s] \in {toRelay[s], Append(toRelay[s], running[s])}
      BY <1>2 DEF AgentRespond
    <3>3. running[s] \notin Range(toRelay[s])
      BY <2>1
    <3>4. /\ Range(Append(toRelay[s], running[s])) = Range(toRelay[s]) \cup {running[s]}
          /\ IsInjective(Append(toRelay[s], running[s]))
      BY <2>1, <3>1, <3>3, AppendQueue
    <3> HIDE DEF Invariant
    <3> QED BY <3>1, <3>2, <3>4
  <2>3. \A t \in Sessions \ {s} : toRelay'[t] = toRelay[t]
    BY <1>2 DEF AgentRespond
  <2>7. SessionInv'
    BY <1>2, <2>1, <2>2, <2>3 DEF AgentRespond
  <2>8. OnceInv'
    <3>1. QueuedOnce'
      BY <1>2, <2>1, <2>2, <2>3 DEF AgentRespond
    <3>2. InOnePlace'
      BY <1>2, <2>1, <2>2, <2>3 DEF AgentRespond
    <3>3. DeliveredOnce'
      BY <1>2, <2>1, <2>2, <2>3 DEF AgentRespond
    <3>4. AnswersUnique'
      BY <1>2, <2>1, <2>2, <2>3 DEF AgentRespond
    <3> QED BY <3>1, <3>2, <3>3, <3>4
  <2>9. AloneInv'
    BY <1>2, <2>1, <2>2, <2>3 DEF AgentRespond
  <2> QED BY <2>7, <2>8, <2>9
<1>3. ASSUME AgentLeaves(s) PROVE Invariant'
  <2>1. Range(toAgent'[s]) = {} /\ IsInjective(toAgent'[s])
    <3>1. toAgent'[s] = <<>> /\ <<>> \in Seq(Requests)
      BY <1>3 DEF AgentLeaves
    <3> QED BY <3>1, QueueElements
  <2>2. \A t \in Sessions \ {s} : toAgent'[t] = toAgent[t]
    BY <1>3 DEF AgentLeaves
  <2>7. SessionInv'
    BY <1>3, <2>1, <2>2 DEF AgentLeaves
  <2>8. OnceInv'
    BY <1>3, <2>1, <2>2 DEF AgentLeaves
  <2>9. AloneInv'
    BY <1>3, <2>1, <2>2 DEF AgentLeaves
  <2> QED BY <2>7, <2>8, <2>9
<1> QED BY <1>1, <1>2, <1>3 DEF HandleConnection

(***************************************************************************)
(* A broken connection loses messages and adds none.                       *)
(***************************************************************************)
LEMMA CutLinkStep ==
    ASSUME Invariant, TypeOK', NEW s \in Sessions, CutLink(s)
    PROVE  Invariant'
<1> USE RoutingAssumption
    DEF Invariant, TypeOK, SessionInv, CallInv, WireInv, HandInv, ChanInv, ResponsesOwned,
        AnsweredInSession, OnceInv, QueuedOnce, InOnePlace, DeliveredOnce, AnswersUnique,
        AloneInv, LoneInv, LoneAnswerIsOwn, Sending, Sent, Ran, InSendRequest, Outstanding,
        NoHand, Ids, RequestId, relayVars, agentVars, wireVars, historyVars
<1>1. CutLink(s)
  OBVIOUS
<1>2. /\ Range(toAgent'[s]) \subseteq Range(toAgent[s]) /\ IsInjective(toAgent'[s])
      /\ Range(toRelay'[s]) \subseteq Range(toRelay[s]) /\ IsInjective(toRelay'[s])
  BY <1>1, PrefixQueue DEF CutLink
<1>3. \A t \in Sessions \ {s} : toAgent'[t] = toAgent[t] /\ toRelay'[t] = toRelay[t]
  BY <1>1 DEF CutLink
<1>4. SessionInv'
  BY <1>1, <1>2, <1>3 DEF CutLink
<1>5. OnceInv'
  BY <1>1, <1>2, <1>3 DEF CutLink
<1>6. AloneInv'
  BY <1>1, <1>2, <1>3 DEF CutLink
<1> QED BY <1>4, <1>5, <1>6

(***************************************************************************)
(* The end of the relay process ends every call, and keeps of the          *)
(* connections what only the agents read.                                  *)
(***************************************************************************)
LEMMA RelayEndsStep ==
    ASSUME Invariant, TypeOK', NEW S \in SUBSET Sessions, RelayEnds(S)
    PROVE  Invariant'
<1> USE RoutingAssumption
    DEF Invariant, TypeOK, SessionInv, CallInv, WireInv, HandInv, ChanInv, ResponsesOwned,
        AnsweredInSession, OnceInv, QueuedOnce, InOnePlace, DeliveredOnce, AnswersUnique,
        AloneInv, LoneInv, LoneAnswerIsOwn, Sending, Sent, Ran, InSendRequest, Outstanding,
        NoHand, Ids, RequestId, agentVars, historyVars
<1>1. RelayEnds(S)
  OBVIOUS
<1>2. ASSUME NEW t \in Sessions
      PROVE  /\ Range(toRelay'[t]) \subseteq Range(toRelay[t]) /\ IsInjective(toRelay'[t])
             /\ toAgent'[t] = toAgent[t]
  <2>1. toRelay'[t] = <<>> \/ toRelay'[t] = toRelay[t]
    BY <1>1 DEF RelayEnds
  <2>2. CASE toRelay'[t] = <<>>
    <3>1. toRelay'[t] \in Seq(Requests) /\ toRelay'[t] = <<>>
      BY <2>2
    <3> QED BY <1>1, <3>1, QueueElements DEF RelayEnds
  <2>3. CASE toRelay'[t] = toRelay[t]
    BY <1>1, <2>3 DEF RelayEnds
  <2> QED BY <2>1, <2>2, <2>3
<1>3. \A q \in Requests : pc'[q] \in {"idle", "done"} /\ (pc'[q] = "idle" <=> pc[q] = "idle")
  BY <1>1 DEF RelayEnds
<1>4. SessionInv'
  <2>1. CallInv'
    BY <1>1, <1>3 DEF RelayEnds
  <2>2. UNCHANGED <<via, fate, running, answer>> /\ chan' = [q \in Requests |-> None]
    BY <1>1 DEF RelayEnds
  <2>6. \A q \in Requests : Sent(q) => Sent(q)'
    BY <1>3
  <2>7. WireInv'
    <3>1. WireInv /\ \A q \in Requests : Ran(q) => Ran(q)'
      BY <2>2, <2>6
    <3>2. /\ \A t \in Sessions : toAgent[t] \in Seq(Requests) /\ toRelay[t] \in Seq(Requests)
          /\ running \in [Sessions -> Requests \cup {None}]
      OBVIOUS
    <3>3. \A t \in Sessions : Range(toAgent[t]) \subseteq Requests /\ Range(toRelay[t]) \subseteq Requests
      BY <3>2, QueueElements
    <3>4. \A t \in Sessions :
            /\ \A q \in Range(toAgent[t]) : via[q] = t /\ Sent(q) /\ fate[q] = "unread"
            /\ \A q \in Range(toRelay[t]) : via[q] = t /\ Ran(q)
            /\ running[t] # None => via[running[t]] = t /\ Ran(running[t])
      BY <3>1
    <3> HIDE DEF Invariant, TypeOK, SessionInv, OnceInv, Sent, Ran
    <3>5. ASSUME NEW t \in Sessions
          PROVE  /\ \A q \in Range(toAgent'[t]) : via'[q] = t /\ Sent(q)' /\ fate'[q] = "unread"
                 /\ \A q \in Range(toRelay'[t]) : via'[q] = t /\ Ran(q)'
                 /\ (running[t] # None => via[running[t]] = t /\ Ran(running[t]))'
      <4>1. \A q \in Range(toAgent'[t]) : via'[q] = t /\ Sent(q)' /\ fate'[q] = "unread"
        BY <1>2, <2>2, <2>6, <3>3, <3>4
      <4>2. \A q \in Range(toRelay'[t]) : via'[q] = t /\ Ran(q)'
        BY <1>2, <2>2, <3>1, <3>3, <3>4
      <4>3. (running[t] # None => via[running[t]] = t /\ Ran(running[t]))'
        BY <2>2, <3>4 DEF Ran
      <4> QED BY <4>1, <4>2, <4>3
    <3> QED BY <3>5
  <2>8. ChanInv' /\ AnsweredInSession'
    BY <2>2
  <2>3. \A t \in Sessions \ S : \A q \in Requests : via[q] # t
    BY <1>1 DEF RelayEnds, Untouched
  <2>4. HandInv'
    BY <1>1, <1>3, <2>3 DEF RelayEnds
  <2>5. ResponsesOwned'
    <3> SUFFICES ASSUME NEW t \in Sessions, NEW i \in Ids PROVE responses'[t][i] = None
      OBVIOUS
    <3>1. CASE t \in S
      BY <1>1, <3>1 DEF RelayEnds
    <3>2. CASE t \notin S
      <4>1. responses'[t][i] = responses[t][i]
        BY <1>1, <3>2 DEF RelayEnds
      <4>2. InSendRequest(t) = {}
        BY <2>3, <3>2
      <4>3. responses[t][i] = None
        <5> HIDE DEF InSendRequest
        <5> QED BY <4>2
      <4> QED BY <4>1, <4>3
    <3> QED BY <3>1, <3>2
  <2> QED BY <2>1, <2>4, <2>5, <2>7, <2>8
<1>5. OnceInv'
  BY <1>1, <1>2 DEF RelayEnds
<1>6. AloneInv'
  BY <1>1, <1>3 DEF RelayEnds
<1> QED BY <1>4, <1>5, <1>6

-----------------------------------------------------------------------------
(***************************************************************************)
(* A relay with fresh sessions and no calls satisfies the invariant.       *)
(***************************************************************************)
LEMMA InvariantInit == Init => Invariant
<1> SUFFICES ASSUME Init PROVE Invariant
  OBVIOUS
<1> USE RoutingAssumption DEF Init
<1>1. TypeOK
  BY DEF TypeOK, NoHand, Ids
<1>2. \A s \in Sessions :
        /\ Range(toAgent[s]) = {} /\ IsInjective(toAgent[s])
        /\ Range(toRelay[s]) = {} /\ IsInjective(toRelay[s])
  BY QueueElements, EmptySeq
<1>3. SessionInv
  BY <1>2 DEF SessionInv, CallInv, WireInv, HandInv, ChanInv, ResponsesOwned,
              AnsweredInSession, Sending, Sent, Ran, NoHand
<1>4. OnceInv
  BY <1>2 DEF OnceInv, QueuedOnce, InOnePlace, DeliveredOnce, AnswersUnique, NoHand
<1>5. AloneInv
  BY DEF AloneInv, LoneInv, LoneAnswerIsOwn, Sending
<1> QED BY <1>1, <1>3, <1>4, <1>5 DEF Invariant

(***************************************************************************)
(* The lemmas on the single steps, put together.                           *)
(***************************************************************************)
LEMMA InvariantStep == Invariant /\ [Next]_vars => Invariant'
<1> SUFFICES ASSUME Invariant, [Next]_vars PROVE Invariant'
  OBVIOUS
<1>1. TypeOK'
  BY TypeStep DEF Invariant
<1>2. ASSUME NEW r \in Requests, NEW s \in Sessions, FindSession(r, s) PROVE Invariant'
  BY <1>1, <1>2, HandlerStep
<1>3. ASSUME NEW r \in Requests, RefuseCall(r) \/ SendRequest(r) PROVE Invariant'
  BY <1>1, <1>3, HandlerStep, EncodeStep DEF SendRequest
<1>4. ASSUME NEW s \in Sessions, ReadLoop(s) \/ HandleConnection(s) \/ CutLink(s)
      PROVE  Invariant'
  BY <1>1, <1>4, ReadLoopStep, HandleConnectionStep, CutLinkStep
<1>5. ASSUME NEW S \in SUBSET Sessions, RelayEnds(S) PROVE Invariant'
  BY <1>1, <1>5, RelayEndsStep
<1>6. CASE UNCHANGED vars
  BY <1>6
     DEF Invariant, TypeOK, SessionInv, CallInv, WireInv, HandInv, ChanInv, ResponsesOwned,
         AnsweredInSession, OnceInv, QueuedOnce, InOnePlace, DeliveredOnce, AnswersUnique,
         AloneInv, LoneInv, LoneAnswerIsOwn, Sending, Sent, Ran, InSendRequest, Outstanding,
         vars, relayVars, agentVars, wireVars, historyVars
<1> QED BY <1>2, <1>3, <1>4, <1>5, <1>6 DEF Next, AllClosed

(***************************************************************************)
(* Invariant holds in every reachable state.                               *)
(***************************************************************************)
THEOREM InvariantCorrect == Spec => []Invariant
<1>1. Init => Invariant
  BY InvariantInit
<1>2. Invariant /\ [Next]_vars => Invariant'
  BY InvariantStep
<1> QED BY <1>1, <1>2, PTL DEF Spec

(***************************************************************************)
(* The relay's tables, the connections and the agent's loop stay typed.    *)
(***************************************************************************)
THEOREM TypeCorrect == Spec => []TypeOK
<1>1. Invariant => TypeOK
  BY DEF Invariant
<1> QED BY <1>1, InvariantCorrect, PTL

(***************************************************************************)
(* sendRequest never leaks an entry of its session's response map.         *)
(***************************************************************************)
THEOREM NoLeakedChannel == Spec => []ResponsesOwned
<1>1. Invariant => ResponsesOwned
  BY DEF Invariant, SessionInv
<1> QED BY <1>1, InvariantCorrect, PTL

(***************************************************************************)
(* A call is answered only by a command its own session's agent ran.       *)
(***************************************************************************)
THEOREM AnswersStayInSession == Spec => []AnsweredInSession
<1>1. Invariant => AnsweredInSession
  BY DEF Invariant, SessionInv
<1> QED BY <1>1, InvariantCorrect, PTL

(***************************************************************************)
(* No two calls return the output of the same execution.                   *)
(***************************************************************************)
THEOREM AnswersNeverShared == Spec => []AnswersUnique
<1>1. Invariant => AnswersUnique
  BY DEF Invariant, OnceInv
<1> QED BY <1>1, InvariantCorrect, PTL

(***************************************************************************)
(* Alone on a session that owes nothing, a call gets its own output.       *)
(***************************************************************************)
THEOREM LoneAnswerCorrect == Spec => []LoneAnswerIsOwn
<1>1. Invariant => LoneAnswerIsOwn
  BY DEF Invariant, AloneInv
<1> QED BY <1>1, InvariantCorrect, PTL

(***************************************************************************)
(* The agent runs a request at most once.                                  *)
(***************************************************************************)
THEOREM RunsAtMostOnce == Spec => NeverReexecuted
<1>1. ASSUME Invariant, [Next]_vars, NEW s \in Sessions, running'[s] \notin {None, running[s]}
      PROVE  fate[running'[s]] = "unread"
  <2>1. CASE \E t \in Sessions : AgentDecode(t)
    <3>1. PICK t \in Sessions : AgentDecode(t)
      BY <2>1
    <3>2. /\ Head(toAgent[t]) \in Range(toAgent[t])
          /\ running'[s] = Head(toAgent[t])
      BY <1>1, <3>1, TailQueue DEF AgentDecode, Invariant, TypeOK
    <3> QED BY <1>1, <3>2 DEF Invariant, SessionInv, WireInv
  <2>2. CASE \E t \in Sessions : AgentRespond(t) \/ AgentLeaves(t)
    BY <1>1, <2>2 DEF AgentRespond, AgentLeaves, Invariant, TypeOK
  <2>3. CASE ~ \E t \in Sessions : HandleConnection(t)
    <3>1. running' = running
      BY <1>1, <2>3 DEF Next, SendRequest, FindSession, RefuseCall, RegisterChannel,
         EncodeRequest, EncodeIntoVoid, EncodeError, ReceiveResponse, TimeOut, DeleteChannel,
         ReadLoop, DecodeResponse, DispatchResponse, ReadLoopEnds, CutLink, RelayEnds,
         AllClosed, vars, agentVars
    <3> QED BY <1>1, <3>1
  <2> QED BY <2>1, <2>2, <2>3 DEF HandleConnection
<1>2. Invariant /\ [Next]_vars =>
        [\A s \in Sessions :
           running'[s] \notin {None, running[s]} => fate[running'[s]] = "unread"]_vars
  BY <1>1
<1> QED BY <1>2, InvariantCorrect, PTL DEF Spec, NeverReexecuted

(***************************************************************************)
(* Outputs go astray in one direction only.  AheadOf says why: once q has  *)
(* its channel in the map, r's registration replaces it there before r's   *)
(* command is sent, so that readLoop never finds q's channel for r's       *)
(* response.                                                               *)
(***************************************************************************)
AheadOf(q, r) ==
    /\ q # r
    /\ pc[q] \notin {"idle", "found"} /\ via[q] # None
    /\ answer[q] # r /\ chan[q] # r
    /\ \A s \in Sessions : hand[s].ch = q => hand[s].resp # r
    /\ pc[r] \notin {"idle", "found"} /\ via[r] = via[q] =>
         responses[via[q]][RequestId(r)] # q

LEMMA AheadStart ==
    ASSUME Invariant, NEW q \in Requests, NEW r \in Requests,
           pc[q] \in {"registered", "waiting", "returning"}, pc[r] \in {"idle", "found"}
    PROVE  AheadOf(q, r)
<1>1. ~Sent(r) /\ ~Ran(r)
  BY DEF Invariant, SessionInv, CallInv, Sent, Ran
<1>2. via[q] # None
  BY DEF Invariant, SessionInv, CallInv, Sending
<1>3. r # None
  BY RoutingAssumption
<1>4. answer[q] # r /\ chan[q] # r /\ \A s \in Sessions : hand[s].ch = q => hand[s].resp # r
  BY <1>1, <1>3, RoutingAssumption
     DEF Invariant, SessionInv, ChanInv, HandInv, AnsweredInSession, Ran
<1> QED BY <1>2, <1>4 DEF AheadOf

LEMMA AheadStep ==
    ASSUME Invariant, [Next]_vars, NEW q \in Requests, NEW r \in Requests, AheadOf(q, r)
    PROVE  AheadOf(q, r)'
<1> USE RoutingAssumption
<1>t. TypeOK /\ CallInv
  BY DEF Invariant, SessionInv
<1>i. RequestId(r) \in Ids /\ \A p \in Requests : RequestId(p) = RequestId(r)
  BY DEF Ids, RequestId
<1>1. ASSUME NEW p \in Requests, NEW s \in Sessions, FindSession(p, s) PROVE AheadOf(q, r)'
  BY <1>1, <1>t DEF FindSession, AheadOf, TypeOK
<1>2. ASSUME NEW p \in Requests, RefuseCall(p) PROVE AheadOf(q, r)'
  BY <1>2, <1>t DEF RefuseCall, AheadOf, TypeOK, CallInv
<1>3. ASSUME NEW p \in Requests, RegisterChannel(p) PROVE AheadOf(q, r)'
  <2>1. p # q
    BY <1>3 DEF RegisterChannel, AheadOf
  <2>2. responses' = [responses EXCEPT ![via[p]][RequestId(r)] = p]
    BY <1>3, <1>i DEF RegisterChannel
  <2>3. via[q] \in Sessions /\ via[p] \in Sessions
    BY <1>3, <1>t DEF RegisterChannel, AheadOf, TypeOK, CallInv
  <2>4. responses'[via[q]][RequestId(r)]
          = IF via[p] = via[q] THEN p ELSE responses[via[q]][RequestId(r)]
    BY <1>i, <1>t, <2>2, <2>3 DEF TypeOK
  <2>5. /\ UNCHANGED <<via, answer, chan, hand>>
        /\ pc' = [pc EXCEPT ![p] = "registered"]
    BY <1>3 DEF RegisterChannel
  <2> QED BY <1>i, <1>t, <2>1, <2>4, <2>5 DEF AheadOf, TypeOK, RequestId
<1>4. ASSUME NEW p \in Requests,
             EncodeRequest(p) \/ EncodeIntoVoid(p) \/ EncodeError(p) \/ TimeOut(p)
      PROVE  AheadOf(q, r)'
  BY <1>4, <1>t DEF EncodeRequest, EncodeIntoVoid, EncodeError, TimeOut, AheadOf, TypeOK, RequestId
<1>5. ASSUME NEW p \in Requests, ReceiveResponse(p) PROVE AheadOf(q, r)'
  BY <1>5, <1>t DEF ReceiveResponse, AheadOf, TypeOK, RequestId
<1>6. ASSUME NEW p \in Requests, DeleteChannel(p) PROVE AheadOf(q, r)'
  <2>1. via[q] \in Sessions /\ via[p] \in Sessions
    BY <1>6, <1>t DEF DeleteChannel, AheadOf, TypeOK, CallInv, Sending
  <2>2. responses'[via[q]][RequestId(r)] \in {None, responses[via[q]][RequestId(r)]}
    BY <1>6, <1>i, <1>t, <2>1 DEF DeleteChannel, TypeOK
  <2> QED BY <1>6, <1>t, <2>2 DEF DeleteChannel, AheadOf, TypeOK, RequestId
<1>7. ASSUME NEW s \in Sessions, DecodeResponse(s) PROVE AheadOf(q, r)'
  <2> DEFINE resp == Head(toRelay[s])
             ch   == responses[s][RequestId(resp)]
  <2>1. resp \in Range(toRelay[s]) /\ resp \in Requests
    BY <1>7, <1>t, TailQueue DEF DecodeResponse, TypeOK
  <2>2. resp = r /\ ch = q => FALSE
    <3> SUFFICES ASSUME resp = r, ch = q PROVE FALSE
      OBVIOUS
    <3>1. via[r] = s /\ Sent(r)
      BY <1>t, <2>1 DEF Invariant, SessionInv, WireInv, CallInv, Ran
    <3>2. via[q] = s
      BY <1>i DEF Invariant, SessionInv, ResponsesOwned, InSendRequest
    <3> QED BY <1>i, <3>1, <3>2 DEF AheadOf, Sent
  <2>3. hand' = IF ch = None THEN hand ELSE [hand EXCEPT ![s] = [ch |-> ch, resp |-> resp]]
    BY <1>7 DEF DecodeResponse
  <2>4. \A t \in Sessions : hand'[t].ch = q => hand'[t].resp # r
    <3> HIDE DEF resp, ch
    <3> QED BY <1>t, <2>2, <2>3 DEF AheadOf, TypeOK
  <2> QED BY <1>7, <2>4 DEF DecodeResponse, AheadOf, RequestId
<1>8. ASSUME NEW s \in Sessions, DispatchResponse(s) PROVE AheadOf(q, r)'
  <2>1. chan'[q] # r
    BY <1>8, <1>t DEF DispatchResponse, AheadOf, TypeOK
  <2>2. \A t \in Sessions : hand'[t].ch = q => hand'[t].resp # r
    BY <1>8, <1>t DEF DispatchResponse, AheadOf, TypeOK, NoHand
  <2> QED BY <1>8, <2>1, <2>2 DEF DispatchResponse, AheadOf, RequestId
<1>9. ASSUME NEW s \in Sessions, ReadLoopEnds(s) \/ HandleConnection(s) \/ CutLink(s)
      PROVE  AheadOf(q, r)'
  BY <1>9 DEF ReadLoopEnds, HandleConnection, AgentDecode, AgentRespond, AgentLeaves, CutLink,
              relayVars, AheadOf, RequestId
<1>10. ASSUME NEW S \in SUBSET Sessions, RelayEnds(S) PROVE AheadOf(q, r)'
  <2>1. via[q] \in S
    BY <1>10, <1>t DEF RelayEnds, Untouched, AheadOf, TypeOK
  <2>2. responses'[via[q]][RequestId(r)] = None
    BY <1>10, <1>i, <2>1 DEF RelayEnds
  <2> QED BY <1>10, <1>t, <2>2 DEF RelayEnds, AheadOf, TypeOK, NoHand, RequestId
<1>11. CASE UNCHANGED vars
  BY <1>11 DEF vars, relayVars, AheadOf, RequestId
<1> QED
  BY <1>1, <1>2, <1>3, <1>4, <1>5, <1>6, <1>7, <1>8, <1>9, <1>10, <1>11
     DEF Next, SendRequest, ReadLoop, AllClosed

THEOREM LaterOutputsNeverReturned == Spec => NeverAnsweredByLater
<1>1. ASSUME NEW q \in Requests, NEW r \in Requests
      PROVE  Spec => [](/\ pc[q] \in {"registered", "waiting", "returning"}
                        /\ pc[r] \in {"idle", "found"}
                        => [](answer[q] # r))
  <2>1. Invariant /\ /\ pc[q] \in {"registered", "waiting", "returning"}
                    /\ pc[r] \in {"idle", "found"}
        => AheadOf(q, r)
    BY AheadStart
  <2>2. Invariant /\ AheadOf(q, r) /\ [Next]_vars => AheadOf(q, r)'
    BY AheadStep
  <2>3. AheadOf(q, r) => answer[q] # r
    BY DEF AheadOf
  <2> QED BY <2>1, <2>2, <2>3, InvariantCorrect, PTL DEF Spec
<1> QED BY <1>1 DEF NeverAnsweredByLater

-----------------------------------------------------------------------------
(***************************************************************************)
(* Refinement.  The calls' states are read off pc and answer, so only the  *)
(* actions that move pc between the three phases or change fate are steps  *)
(* of RemoteCall; the others stutter.                                      *)
(***************************************************************************)
LEMMA RefinementStep ==
    ASSUME Invariant, Invariant', [Next]_vars
    PROVE  [Remote!CallNext]_(Remote!callVars)
<1> USE RoutingAssumption DEF Remote!callVars
<1>t. TypeOK /\ TypeOK' /\ CallInv
  BY DEF Invariant, SessionInv
<1>1. ASSUME NEW r \in Requests, NEW s \in Sessions, FindSession(r, s)
      PROVE  Remote!CallNext
  <2>1. CallState(r) = "new" /\ CallState(r)' = "pending"
    BY <1>1, <1>t DEF FindSession, CallState, TypeOK
  <2>2. \A q \in Requests \ {r} : CallState(q)' = CallState(q)
    BY <1>1, <1>t DEF FindSession, CallState, TypeOK
  <2>3. via' = [via EXCEPT ![r] = s] /\ answer' = answer /\ fate' = fate
    BY <1>1 DEF FindSession, agentVars
  <2>4. [q \in Requests |-> CallState(q)]' = [[q \in Requests |-> CallState(q)] EXCEPT ![r] = "pending"]
    BY <2>1, <2>2
  <2>5. s \in [q \in Requests |-> Sessions][r]
    OBVIOUS
  <2> QED BY <2>1, <2>3, <2>4, <2>5 DEF Remote!CallNext, Remote!Submit
<1>2. ASSUME NEW r \in Requests, RefuseCall(r) \/ EncodeError(r) \/ TimeOut(r)
      PROVE  Remote!CallNext
  <2>1. CallState(r) \in {"new", "pending"} /\ CallState(r)' = "failed"
    <3>1. pc[r] \in {"idle", "registered", "waiting"} /\ pc'[r] \in {"returning", "done"}
      BY <1>2, <1>t DEF RefuseCall, EncodeError, TimeOut, TypeOK
    <3>2. answer[r] = None /\ answer' = answer
      BY <1>2, <1>t, <3>1 DEF RefuseCall, EncodeError, TimeOut, CallInv
    <3> QED BY <3>1, <3>2 DEF CallState
  <2>2. \A q \in Requests \ {r} : CallState(q)' = CallState(q)
    BY <1>2, <1>t DEF RefuseCall, EncodeError, TimeOut, CallState, TypeOK
  <2>3. via' = via /\ answer' = answer /\ fate' = fate
    BY <1>2 DEF RefuseCall, EncodeError, TimeOut, agentVars
  <2>4. [q \in Requests |-> CallState(q)]'
          = [q \in Requests |-> IF q \in {r} THEN "failed" ELSE [c \in Requests |-> CallState(c)][q]]
    BY <2>1, <2>2
  <2>5. Remote!Fail({r})
    BY <2>1, <2>3, <2>4 DEF Remote!Fail
  <2> QED BY <2>5 DEF Remote!CallNext
<1>3. ASSUME NEW r \in Requests, ReceiveResponse(r)
      PROVE  Remote!CallNext
  <2>1. /\ chan[r] \in Requests /\ via[chan[r]] = via[r] /\ fate[chan[r]] = "run"
        /\ \A d \in Requests : answer[d] # chan[r]
    BY <1>3, <1>t DEF ReceiveResponse, TypeOK, Invariant, SessionInv, ChanInv, Ran, OnceInv,
                      DeliveredOnce
  <2>2. CallState(r) = "pending" /\ CallState(r)' = "answered"
    BY <1>3, <1>t, <2>1 DEF ReceiveResponse, CallState, TypeOK
  <2>3. \A q \in Requests \ {r} : CallState(q)' = CallState(q)
    BY <1>3, <1>t DEF ReceiveResponse, CallState, TypeOK
  <2>4. via' = via /\ answer' = [answer EXCEPT ![r] = chan[r]] /\ fate' = fate
    BY <1>3 DEF ReceiveResponse, agentVars
  <2>5. [q \in Requests |-> CallState(q)]' = [[q \in Requests |-> CallState(q)] EXCEPT ![r] = "answered"]
    BY <2>2, <2>3
  <2> QED BY <2>1, <2>2, <2>4, <2>5 DEF Remote!CallNext, Remote!Answer
<1>4. ASSUME NEW s \in Sessions, AgentDecode(s)
      PROVE  Remote!CallNext \/ UNCHANGED Remote!callVars
  <2> DEFINE r == Head(toAgent[s])
  <2>1. /\ r \in Range(toAgent[s])
        /\ r \in Requests
    BY <1>4, <1>t, TailQueue DEF AgentDecode, TypeOK
  <2>2. fate[r] = "unread" /\ pc[r] \notin {"idle"}
    BY <1>t, <2>1 DEF Invariant, SessionInv, WireInv, Sent
  <2>3. pc' = pc /\ answer' = answer /\ via' = via
    BY <1>4 DEF AgentDecode, relayVars
  <2>4. CASE Kind[r] = "exec"
    <3>1. fate' = [fate EXCEPT ![r] = "run"]
      BY <1>4, <2>4 DEF AgentDecode
    <3>2. {q \in Requests : fate[q] = "run"}' = {q \in Requests : fate[q] = "run"} \cup {r}
      BY <1>t, <2>1, <3>1 DEF TypeOK
    <3>3. CallState(r) # "new" /\ \A q \in Requests : CallState(q)' = CallState(q)
      BY <2>2, <2>3 DEF CallState
    <3>4. r \notin {q \in Requests : fate[q] = "run"}
      BY <2>2
    <3> HIDE DEF r
    <3> QED BY <2>1, <2>3, <3>2, <3>3, <3>4 DEF Remote!CallNext, Remote!Execute
  <2>5. CASE Kind[r] # "exec"
    BY <1>4, <1>t, <2>1, <2>2, <2>3, <2>5 DEF AgentDecode, CallState, TypeOK
  <2> QED BY <2>4, <2>5
<1>5. ASSUME NEW r \in Requests,
             RegisterChannel(r) \/ EncodeRequest(r) \/ EncodeIntoVoid(r) \/ DeleteChannel(r)
      PROVE  UNCHANGED Remote!callVars
  BY <1>5, <1>t DEF RegisterChannel, EncodeRequest, EncodeIntoVoid, DeleteChannel, CallState,
                    CallInv, TypeOK, agentVars
<1>6. ASSUME NEW s \in Sessions,
             \/ ReadLoop(s) \/ CutLink(s)
             \/ AgentRespond(s) \/ AgentLeaves(s)
      PROVE  UNCHANGED Remote!callVars
  BY <1>6 DEF ReadLoop, DecodeResponse, DispatchResponse, ReadLoopEnds, CutLink, AgentRespond,
              AgentLeaves, CallState, relayVars, agentVars
<1>7. ASSUME NEW S \in SUBSET Sessions, RelayEnds(S)
      PROVE  Remote!CallNext \/ UNCHANGED Remote!callVars
  <2> DEFINE C == {q \in Requests : CallState(q) = "pending"}
  <2>1. via' = via /\ answer' = answer /\ fate' = fate
    BY <1>7 DEF RelayEnds, agentVars
  <2>2. \A q \in Requests : CallState(q)' = IF q \in C THEN "failed" ELSE CallState(q)
    <3>1. \A q \in Requests : CallState(q) = "pending" => answer[q] = None
      BY <1>t DEF CallState, CallInv, TypeOK
    <3> QED BY <1>7, <1>t, <2>1, <3>1 DEF RelayEnds, CallState, TypeOK
  <2>3. [q \in Requests |-> CallState(q)]'
          = [q \in Requests |-> IF q \in C THEN "failed" ELSE [c \in Requests |-> CallState(c)][q]]
    BY <2>2
  <2>4. CASE C # {}
    <3>1. \A q \in C : [c \in Requests |-> CallState(c)][q] = "pending"
      OBVIOUS
    <3>2. C \in SUBSET Requests
      OBVIOUS
    <3> HIDE DEF C
    <3>3. Remote!Fail(C)
      BY <2>1, <2>3, <2>4, <3>1, <3>2 DEF Remote!Fail
    <3> QED BY <3>2, <3>3 DEF Remote!CallNext
  <2>5. CASE C = {}
    BY <2>1, <2>2, <2>5
  <2> QED BY <2>4, <2>5
<1>8. CASE UNCHANGED vars
  BY <1>8 DEF CallState, vars, relayVars, agentVars
<1> QED
  BY <1>1, <1>2, <1>3, <1>4, <1>5, <1>6, <1>7, <1>8, <1>t
     DEF Next, SendRequest, HandleConnection, AllClosed

(***************************************************************************)
(* RequestRouting implements RemoteCall: whatever is late, lost, stolen or *)
(* dropped on the way, the relay's answers are those of calls that end     *)
(* once, with an execution of their own session or an error.               *)
(***************************************************************************)
THEOREM RefinesRemoteCall == Spec => ImplementsRemoteCall
<1>1. Init => Remote!CallInit
  BY DEF Init, Remote!CallInit, CallState
<1>2. Invariant /\ Invariant' /\ [Next]_vars => [Remote!CallNext]_(Remote!callVars)
  BY RefinementStep
<1> QED BY <1>1, <1>2, InvariantCorrect, PTL DEF Spec, ImplementsRemoteCall, Remote!CallSpec

=============================================================================
