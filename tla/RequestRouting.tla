--------------------------- MODULE RequestRouting ---------------------------
(***************************************************************************)
(* How the relay pairs a controller's HTTP call with an answer from an     *)
(* agent: agentSession.sendRequest and agentSession.readLoop of the relay, *)
(* the two directions of the TLS connection, and the read/dispatch loop of *)
(* the agent at its other end.                                             *)
(*                                                                         *)
(* An element of Requests is one HTTP call to /api/exec, /api/lock or      *)
(* /api/locate and names everything derived from it: the wire request it   *)
(* encodes, the response channel made for it, and the response the agent   *)
(* computes from it.  A session is one TLS connection with its             *)
(* agentSession; which session a call finds is left open here (any).       *)
(***************************************************************************)
EXTENDS Naturals, Sequences, Functions

CONSTANTS
    Requests,   \* HTTP calls of controllers
    Sessions,   \* TLS connections, each with one agentSession in the relay
    Kind,       \* the endpoint each call is made to
    WireCap,    \* requests a connection buffers before a write blocks
    None        \* no request, no session

Kinds == {"exec", "lock", "locate"}

ASSUME RoutingAssumption ==
    /\ Kind \in [Requests -> Kinds]
    /\ WireCap \in Nat \ {0}
    /\ None \notin Requests \cup Sessions

VARIABLES
    pc,         \* where the HTTP handler of each call is
    via,        \* the session each call found in the session table
    responses,  \* agentSession.responses: request id -> response channel
    chan,       \* the response buffered in each call's channel
    answer,     \* the response each call returned to its controller
    hand,       \* the response readLoop holds and the channel it looked up
    reader,     \* whether readLoop runs
    toAgent,    \* requests on the connection, not read by the agent
    toRelay,    \* responses on the connection, not read by the relay
    running,    \* the command the agent's loop is executing
    agentUp,    \* whether the agent's handleConnection still runs
    link,       \* whether the connection carries data
    fate,       \* (history) what the agent did with each call
    solo,       \* (history) no other call was in sendRequest on its session
    quiet       \* (history) no earlier response was outstanding on its session

relayVars   == <<pc, via, responses, chan, answer, hand, reader>>
agentVars   == <<running, agentUp, fate>>
wireVars    == <<toAgent, toRelay, link>>
historyVars == <<solo, quiet>>
vars == <<relayVars, agentVars, wireVars, historyVars>>

(***************************************************************************)
(* The id both handlers put in every wire request.                         *)
(***************************************************************************)
RequestId(r) == "1"
Ids == {RequestId(r) : r \in Requests}

NoHand == [ch |-> None, resp |-> None]

InSendRequest(s) ==
    {r \in Requests : via[r] = s /\ pc[r] \in {"registered", "waiting", "returning"}}

(***************************************************************************)
(* Responses that exist or will exist on s and that nobody has received.   *)
(***************************************************************************)
Outstanding(s) ==
    {r \in Range(toAgent[s]) : Kind[r] = "exec"}
        \cup Range(toRelay[s]) \cup ({running[s], hand[s].resp} \ {None})

TypeOK ==
    /\ pc \in [Requests -> {"idle", "found", "registered", "waiting", "returning", "done"}]
    /\ via \in [Requests -> Sessions \cup {None}]
    /\ responses \in [Sessions -> [Ids -> Requests \cup {None}]]
    /\ chan \in [Requests -> Requests \cup {None}]
    /\ answer \in [Requests -> Requests \cup {None}]
    /\ hand \in [Sessions -> [ch : Requests \cup {None}, resp : Requests \cup {None}]]
    /\ \A s \in Sessions : hand[s].ch = None <=> hand[s].resp = None
    /\ reader \in [Sessions -> {"running", "ended"}]
    /\ toAgent \in [Sessions -> Seq(Requests)]
    /\ toRelay \in [Sessions -> Seq(Requests)]
    /\ running \in [Sessions -> Requests \cup {None}]
    /\ agentUp \in [Sessions -> BOOLEAN]
    /\ link \in [Sessions -> {"up", "cut"}]
    /\ fate \in [Requests -> {"unread", "run", "ignored"}]
    /\ solo \in [Requests -> BOOLEAN]
    /\ quiet \in [Requests -> BOOLEAN]

Init ==
    /\ pc = [r \in Requests |-> "idle"]
    /\ via = [r \in Requests |-> None]
    /\ responses = [s \in Sessions |-> [i \in Ids |-> None]]
    /\ chan = [r \in Requests |-> None]
    /\ answer = [r \in Requests |-> None]
    /\ hand = [s \in Sessions |-> NoHand]
    /\ reader = [s \in Sessions |-> "running"]
    /\ toAgent = [s \in Sessions |-> <<>>]
    /\ toRelay = [s \in Sessions |-> <<>>]
    /\ running = [s \in Sessions |-> None]
    /\ agentUp = [s \in Sessions |-> TRUE]
    /\ link = [s \in Sessions |-> "up"]
    /\ fate = [r \in Requests |-> "unread"]
    /\ solo = [r \in Requests |-> TRUE]
    /\ quiet = [r \in Requests |-> TRUE]

-----------------------------------------------------------------------------
(***************************************************************************)
(* HTTP handlers in the relay: handleExec and handleSimpleAction up to the *)
(* call of sendRequest, then the steps of sendRequest.                     *)
(***************************************************************************)

\* The session is read under mu and used after mu is released.
FindSession(r, s) ==
    /\ pc[r] = "idle"
    /\ pc' = [pc EXCEPT ![r] = "found"]
    /\ via' = [via EXCEPT ![r] = s]
    /\ UNCHANGED <<responses, chan, answer, hand, reader, agentVars, wireVars, historyVars>>

\* 401, 400 or 503 "device offline": the call ends without a session.
RefuseCall(r) ==
    /\ pc[r] = "idle"
    /\ pc' = [pc EXCEPT ![r] = "done"]
    /\ UNCHANGED <<via, responses, chan, answer, hand, reader, agentVars, wireVars, historyVars>>

\* Mutant: one response map for all sessions instead of one per session.
RegisterInEverySession(r) ==
    LET s == via[r] IN
    /\ pc[r] = "found"
    /\ pc' = [pc EXCEPT ![r] = "registered"]
    /\ responses' = [t \in Sessions |-> [responses[t] EXCEPT ![RequestId(r)] = r]]
    /\ solo' = [q \in Requests |->
                  IF q = r THEN InSendRequest(s) = {} ELSE solo[q] /\ q \notin InSendRequest(s)]
    /\ quiet' = [quiet EXCEPT ![r] = Outstanding(s) = {}]
    /\ UNCHANGED <<via, chan, answer, hand, reader, agentVars, wireVars>>

\* Mutant: a channel that is in the map already stays there.
RegisterKeepsFirst(r) ==
    LET s == via[r] IN
    /\ pc[r] = "found"
    /\ pc' = [pc EXCEPT ![r] = "registered"]
    /\ responses' = [responses EXCEPT ![s][RequestId(r)] = IF @ = None THEN r ELSE @]
    /\ solo' = [q \in Requests |->
                  IF q = r THEN InSendRequest(s) = {} ELSE solo[q] /\ q \notin InSendRequest(s)]
    /\ quiet' = [quiet EXCEPT ![r] = Outstanding(s) = {}]
    /\ UNCHANGED <<via, chan, answer, hand, reader, agentVars, wireVars>>

\* s.responses[id] = ch overwrites whatever channel had that id.
RegisterChannel(r) ==
    LET s == via[r] IN
    /\ pc[r] = "found"
    /\ pc' = [pc EXCEPT ![r] = "registered"]
    /\ responses' = [responses EXCEPT ![s][RequestId(r)] = r]
    /\ solo' = [q \in Requests |->
                  IF q = r THEN InSendRequest(s) = {} ELSE solo[q] /\ q \notin InSendRequest(s)]
    /\ quiet' = [quiet EXCEPT ![r] = Outstanding(s) = {}]
    /\ UNCHANGED <<via, chan, answer, hand, reader, agentVars, wireVars>>

\* s.enc.Encode(req) puts the whole message on the connection; the write
\* has no deadline and blocks while the connection's buffers are full.
EncodeRequest(r) ==
    LET s == via[r] IN
    /\ pc[r] = "registered"
    /\ link[s] = "up"
    /\ Len(toAgent[s]) < WireCap
    /\ toAgent' = [toAgent EXCEPT ![s] = Append(@, r)]
    /\ pc' = [pc EXCEPT ![r] = "waiting"]
    /\ UNCHANGED <<via, responses, chan, answer, hand, reader, agentVars, toRelay, link, historyVars>>

\* The write on a cut connection is accepted by the kernel and goes nowhere.
EncodeIntoVoid(r) ==
    LET s == via[r] IN
    /\ pc[r] = "registered"
    /\ link[s] = "cut"
    /\ reader[s] = "running"
    /\ pc' = [pc EXCEPT ![r] = "waiting"]
    /\ UNCHANGED <<via, responses, chan, answer, hand, reader, agentVars, wireVars, historyVars>>

\* The write fails: the connection is cut, or was closed after readLoop.
EncodeError(r) ==
    /\ pc[r] = "registered"
    /\ link[via[r]] = "cut"
    /\ pc' = [pc EXCEPT ![r] = "returning"]
    /\ UNCHANGED <<via, responses, chan, answer, hand, reader, agentVars, wireVars, historyVars>>

\* case resp := <-ch
ReceiveResponse(r) ==
    /\ pc[r] = "waiting"
    /\ chan[r] # None
    /\ answer' = [answer EXCEPT ![r] = chan[r]]
    /\ chan' = [chan EXCEPT ![r] = None]
    /\ pc' = [pc EXCEPT ![r] = "returning"]
    /\ UNCHANGED <<via, responses, hand, reader, agentVars, wireVars, historyVars>>

\* Mutants of the timeout: it leaves the channel in the map, it sends the
\* request again instead of giving up, it fires only on a broken connection.
TimeOutLeaksChannel(r) ==
    /\ pc[r] = "waiting"
    /\ pc' = [pc EXCEPT ![r] = "done"]
    /\ UNCHANGED <<via, responses, chan, answer, hand, reader, agentVars, wireVars, historyVars>>

TimeOutResends(r) ==
    LET s == via[r] IN
    /\ pc[r] = "waiting"
    /\ IF link[s] = "up" /\ Len(toAgent[s]) < WireCap
       THEN toAgent' = [toAgent EXCEPT ![s] = Append(@, r)] /\ UNCHANGED pc
       ELSE pc' = [pc EXCEPT ![r] = "returning"] /\ UNCHANGED toAgent
    /\ UNCHANGED <<via, responses, chan, answer, hand, reader, agentVars, toRelay, link, historyVars>>

TimeOutOnlyWhenCut(r) ==
    /\ pc[r] = "waiting"
    /\ link[via[r]] = "cut"
    /\ pc' = [pc EXCEPT ![r] = "returning"]
    /\ UNCHANGED <<via, responses, chan, answer, hand, reader, agentVars, wireVars, historyVars>>

\* case <-time.After(15 * time.Second): select may take it even when a
\* response is ready, and nothing bounds how long the agent needs.
TimeOut(r) ==
    /\ pc[r] = "waiting"
    /\ pc' = [pc EXCEPT ![r] = "returning"]
    /\ UNCHANGED <<via, responses, chan, answer, hand, reader, agentVars, wireVars, historyVars>>

\* The deferred delete(s.responses, id): whichever channel has the id goes.
DeleteChannel(r) ==
    /\ pc[r] = "returning"
    /\ responses' = [responses EXCEPT ![via[r]][RequestId(r)] = None]
    /\ pc' = [pc EXCEPT ![r] = "done"]
    /\ UNCHANGED <<via, chan, answer, hand, reader, agentVars, wireVars, historyVars>>

-----------------------------------------------------------------------------
(***************************************************************************)
(* readLoop, one goroutine per session.                                    *)
(***************************************************************************)

\* Mutant: the id is looked up in whichever session has it.
DecodeResponseAnySession(s) ==
    /\ reader[s] = "running"
    /\ hand[s] = NoHand
    /\ toRelay[s] # <<>>
    /\ \E t \in Sessions :
         LET resp == Head(toRelay[s])
             ch   == responses[t][RequestId(resp)]
         IN hand' = IF ch = None THEN hand
                    ELSE [hand EXCEPT ![s] = [ch |-> ch, resp |-> resp]]
    /\ toRelay' = [toRelay EXCEPT ![s] = Tail(@)]
    /\ UNCHANGED <<pc, via, responses, chan, answer, reader, agentVars, toAgent, link, historyVars>>

\* Mutant: a response is dispatched although its id has no channel.
DecodeResponseUnchecked(s) ==
    /\ reader[s] = "running"
    /\ hand[s] = NoHand
    /\ toRelay[s] # <<>>
    /\ LET resp == Head(toRelay[s])
       IN hand' = [hand EXCEPT ![s] = [ch |-> responses[s][RequestId(resp)], resp |-> resp]]
    /\ toRelay' = [toRelay EXCEPT ![s] = Tail(@)]
    /\ UNCHANGED <<pc, via, responses, chan, answer, reader, agentVars, toAgent, link, historyVars>>

\* Decode one response and look its id up under respMu; a response whose id
\* has no channel is logged and dropped.
DecodeResponse(s) ==
    /\ reader[s] = "running"
    /\ hand[s] = NoHand
    /\ toRelay[s] # <<>>
    /\ LET resp == Head(toRelay[s])
           ch   == responses[s][RequestId(resp)]
       IN hand' = IF ch = None THEN hand
                  ELSE [hand EXCEPT ![s] = [ch |-> ch, resp |-> resp]]
    /\ toRelay' = [toRelay EXCEPT ![s] = Tail(@)]
    /\ UNCHANGED <<pc, via, responses, chan, answer, reader, agentVars, toAgent, link, historyVars>>

\* Mutants: a plain ch <- msg; the response goes to every call on the session.
DispatchBlocks(s) ==
    LET ch == hand[s].ch IN
    /\ hand[s] # NoHand
    /\ chan[ch] = None
    /\ chan' = [chan EXCEPT ![ch] = hand[s].resp]
    /\ hand' = [hand EXCEPT ![s] = NoHand]
    /\ UNCHANGED <<pc, via, responses, answer, reader, agentVars, wireVars, historyVars>>

DispatchToAll(s) ==
    /\ hand[s] # NoHand
    /\ chan' = [r \in Requests |->
                  IF r \in InSendRequest(s) /\ chan[r] = None THEN hand[s].resp ELSE chan[r]]
    /\ hand' = [hand EXCEPT ![s] = NoHand]
    /\ UNCHANGED <<pc, via, responses, answer, reader, agentVars, wireVars, historyVars>>

\* select { case ch <- msg: default: }, after respMu was released: a full
\* channel drops the response, the loop never waits.
DispatchResponse(s) ==
    LET ch == hand[s].ch IN
    /\ hand[s] # NoHand
    /\ chan' = IF chan[ch] = None THEN [chan EXCEPT ![ch] = hand[s].resp] ELSE chan
    /\ hand' = [hand EXCEPT ![s] = NoHand]
    /\ UNCHANGED <<pc, via, responses, answer, reader, agentVars, wireVars, historyVars>>

\* Decode fails once the connection is cut and its buffered data is read;
\* handleAgentConn then closes the connection.
ReadLoopEnds(s) ==
    /\ reader[s] = "running"
    /\ hand[s] = NoHand
    /\ link[s] = "cut"
    /\ toRelay[s] = <<>>
    /\ reader' = [reader EXCEPT ![s] = "ended"]
    /\ UNCHANGED <<pc, via, responses, chan, answer, hand, agentVars, wireVars, historyVars>>

-----------------------------------------------------------------------------
(***************************************************************************)
(* The agent's handleConnection: one command at a time, in wire order.     *)
(***************************************************************************)

\* Decode one request and switch on its type.  Only "exec" runs a command;
\* "lock" and "locate" fall into default, which logs and answers nothing.
AgentDecode(s) ==
    /\ agentUp[s]
    /\ running[s] = None
    /\ toAgent[s] # <<>>
    /\ LET r == Head(toAgent[s]) IN
         IF Kind[r] = "exec"
         THEN /\ running' = [running EXCEPT ![s] = r]
              /\ fate' = [fate EXCEPT ![r] = "run"]
         ELSE /\ fate' = [fate EXCEPT ![r] = "ignored"]
              /\ UNCHANGED running
    /\ toAgent' = [toAgent EXCEPT ![s] = Tail(@)]
    /\ UNCHANGED <<relayVars, agentUp, toRelay, link, historyVars>>

\* runCommand returned and the response, with the request's id, is encoded.
\* On a cut connection the response is lost.
AgentRespond(s) ==
    /\ agentUp[s]
    /\ running[s] # None
    /\ \/ /\ link[s] = "up"
          /\ Len(toRelay[s]) < WireCap
          /\ toRelay' = [toRelay EXCEPT ![s] = Append(@, running[s])]
       \/ /\ link[s] = "cut"
          /\ UNCHANGED toRelay
    /\ running' = [running EXCEPT ![s] = None]
    /\ UNCHANGED <<relayVars, agentUp, fate, toAgent, link, historyVars>>

\* handleConnection returns on a read or write error, or the process dies;
\* what it had not read is gone.
AgentLeaves(s) ==
    /\ agentUp[s]
    /\ link[s] = "cut"
    /\ agentUp' = [agentUp EXCEPT ![s] = FALSE]
    /\ running' = [running EXCEPT ![s] = None]
    /\ toAgent' = [toAgent EXCEPT ![s] = <<>>]
    /\ UNCHANGED <<relayVars, fate, toRelay, link, historyVars>>

-----------------------------------------------------------------------------
(***************************************************************************)
(* The network or either host breaks the connection.  Of the data under    *)
(* way each side still reads some prefix.                                  *)
(***************************************************************************)
CutLink(s) ==
    /\ link[s] = "up"
    /\ link' = [link EXCEPT ![s] = "cut"]
    /\ \E m \in 0..Len(toAgent[s]) : toAgent' = [toAgent EXCEPT ![s] = SubSeq(@, 1, m)]
    /\ \E n \in 0..Len(toRelay[s]) : toRelay' = [toRelay EXCEPT ![s] = SubSeq(@, 1, n)]
    /\ UNCHANGED <<relayVars, agentVars, historyVars>>

\* A connection that is not set up yet.
Untouched(s) == link[s] = "up" /\ agentUp[s] /\ \A r \in Requests : via[r] # s

\* The relay process ends, and is started again: the calls it was handling
\* and everything it kept for its connections, S, are gone.  Agents may still
\* read what was sent to them; that they do not is a CutLink before.
RelayEnds(S) ==
    /\ S # {} /\ \A s \in Sessions \ S : Untouched(s)
    /\ pc' = [r \in Requests |-> IF pc[r] = "idle" THEN "idle" ELSE "done"]
    /\ chan' = [r \in Requests |-> None]
    /\ responses' = [s \in Sessions |-> IF s \in S THEN [i \in Ids |-> None] ELSE responses[s]]
    /\ hand' = [s \in Sessions |-> IF s \in S THEN NoHand ELSE hand[s]]
    /\ reader' = [s \in Sessions |-> IF s \in S THEN "ended" ELSE reader[s]]
    /\ toRelay' = [s \in Sessions |-> IF s \in S THEN <<>> ELSE toRelay[s]]
    /\ link' = [s \in Sessions |-> IF s \in S THEN "cut" ELSE link[s]]
    /\ UNCHANGED <<via, answer, toAgent, agentVars, historyVars>>

\* Every call is over and every connection closed on both sides.
AllClosed ==
    /\ \A r \in Requests : pc[r] = "done"
    /\ \A s \in Sessions : reader[s] = "ended" /\ ~agentUp[s]
    /\ UNCHANGED vars

SendRequest(r) ==
    \/ RegisterChannel(r)
    \/ EncodeRequest(r) \/ EncodeIntoVoid(r) \/ EncodeError(r)
    \/ ReceiveResponse(r) \/ TimeOut(r)
    \/ DeleteChannel(r)

ReadLoop(s) == DecodeResponse(s) \/ DispatchResponse(s) \/ ReadLoopEnds(s)

HandleConnection(s) == AgentDecode(s) \/ AgentRespond(s) \/ AgentLeaves(s)

Next ==
    \/ \E r \in Requests :
         \/ \E s \in Sessions : FindSession(r, s)
         \/ RefuseCall(r)
         \/ SendRequest(r)
    \/ \E s \in Sessions : ReadLoop(s) \/ HandleConnection(s) \/ CutLink(s)
    \/ \E S \in SUBSET Sessions : RelayEnds(S)
    \/ AllClosed

Spec == Init /\ [][Next]_vars

(***************************************************************************)
(* The relay's goroutines and the agent's loop are scheduled; no fairness  *)
(* is assumed of callers, nor that a connection breaks.  The agent's part  *)
(* rests on the deadline runCommand gives every command.                   *)
(***************************************************************************)
FairSpec ==
    /\ Spec
    /\ \A r \in Requests : WF_vars(SendRequest(r))
    /\ \A s \in Sessions : WF_vars(ReadLoop(s)) /\ WF_vars(HandleConnection(s))

-----------------------------------------------------------------------------
(***************************************************************************)
(* A channel in a session's map belongs to a call that found this session  *)
(* and has not left sendRequest: neither a timeout, a write error nor a    *)
(* channel overwritten or deleted by another call leaks an entry.          *)
(* (sendRequest's deferred delete.)                                        *)
(***************************************************************************)
ResponsesOwned ==
    \A s \in Sessions, i \in Ids :
        responses[s][i] # None => responses[s][i] \in InSendRequest(s)

(***************************************************************************)
(* Whatever is mixed up, it stays within one session: a call is answered   *)
(* only by a command that its own session's agent ran.  (One response map  *)
(* per agentSession; lock and locate are never answered.)                  *)
(***************************************************************************)
AnsweredInSession ==
    \A r \in Requests :
        answer[r] # None =>
            /\ via[answer[r]] = via[r]
            /\ Kind[answer[r]] = "exec"
            /\ fate[answer[r]] = "run"

(***************************************************************************)
(* The output of one execution is returned to at most one controller, late *)
(* and misdirected responses included.  (readLoop's lookup and dispatch.)  *)
(***************************************************************************)
AnswersUnique ==
    \A p, q \in Requests : answer[p] # None /\ answer[p] = answer[q] => p = q

(***************************************************************************)
(* A call that had sendRequest to itself, on a session that owed no        *)
(* earlier response, gets the output of its own command or none.  With one *)
(* request id for all calls, both conditions are needed.                   *)
(***************************************************************************)
LoneAnswerIsOwn ==
    \A r \in Requests : solo[r] /\ quiet[r] /\ answer[r] # None => answer[r] = r

(***************************************************************************)
(* No command runs twice: a timeout, a write error or a broken connection  *)
(* never makes the relay or the agent repeat a request.                    *)
(***************************************************************************)
NeverReexecuted ==
    [][\A s \in Sessions :
         running'[s] \notin {None, running[s]} => fate[running'[s]] = "unread"]_vars

(***************************************************************************)
(* Outputs go astray in one direction only: once a call has its channel in *)
(* the map, it is never answered with the output of a command whose call   *)
(* registers later.  What it may get instead of its own is older.          *)
(***************************************************************************)
NeverAnsweredByLater ==
    \A q, r \in Requests :
        [](/\ pc[q] \in {"registered", "waiting", "returning"}
           /\ pc[r] \in {"idle", "found"}
           => [](answer[q] # r))

(***************************************************************************)
(* Every call that found a session returns to its controller, whether the  *)
(* agent answers, answers late or drops the request, and whenever the      *)
(* connection breaks; provided the agent's loop goes on, i.e. its commands *)
(* end: a blocked write waits for it.                                      *)
(***************************************************************************)
RequestsReturn ==
    \A r \in Requests : pc[r] = "found" ~> pc[r] = "done"

(***************************************************************************)
(* Once the connection is broken readLoop ends, so that handleAgentConn    *)
(* can close it and clear the session table: no full or abandoned response *)
(* channel can hold it up.                                                 *)
(***************************************************************************)
ReaderEnds ==
    \A s \in Sessions : link[s] = "cut" ~> reader[s] = "ended"

(***************************************************************************)
(* What the documentation promises ("forwards request to the matching live *)
(* agent session and returns the response") for a controller that makes    *)
(* one call at a time: the response is the one to its own request.         *)
(***************************************************************************)
SerialAnswerIsOwn ==
    \A r \in Requests : solo[r] /\ answer[r] # None => answer[r] = r
=============================================================================
