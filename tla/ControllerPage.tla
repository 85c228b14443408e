--------------------------- MODULE ControllerPage ---------------------------
(***************************************************************************)
(* The controller's browser page and the local proxy behind it: the list   *)
(* of agents, the selected one, the buttons that setBusy turns off while a *)
(* fetch is under way, and fetches that are answered in any order.  The    *)
(* page's code runs in turns of one event loop; a turn ends at an await.   *)
(*                                                                         *)
(* Usually nothing can be clicked while a fetch is under way.  But the     *)
(* refresh at the load event asks no button, so a click before it makes    *)
(* two fetches overlap, and the first to end turns the buttons on.         *)
(***************************************************************************)
EXTENDS Naturals, FiniteSets

CONSTANTS
    Agents,     \* devices a relay may list
    MaxFetches, \* bound: fetches of one page
    None        \* no agent

ASSUME PageAssumption == MaxFetches \in Nat /\ None \notin Agents

VARIABLES
    loaded,     \* whether the load event was handled
    early,      \* (history) whether something was clicked before it
    listed,     \* agents the page shows as buttons
    selected,   \* selectedAgent
    staticOff,  \* the refresh and preset buttons are disabled
    agentsOff,  \* the agents' buttons are disabled
    sendOff,    \* the send button is disabled
    fetches,    \* fetches under way
    made,       \* fetches made so far
    output      \* the fetch whose result the output field shows

buttons == <<staticOff, agentsOff, sendOff>>
vars == <<loaded, early, listed, selected, buttons, fetches, made, output>>

Results == [kind : {"pending", "failed", "text"}] \cup [kind : {"list"}, agents : SUBSET Agents]
Fetches == [id : 1..MaxFetches, path : {"list", "exec"}, result : Results]

TypeOK ==
    /\ loaded \in BOOLEAN
    /\ early \in BOOLEAN
    /\ listed \subseteq Agents
    /\ selected \in Agents \cup {None}
    /\ staticOff \in BOOLEAN /\ agentsOff \in BOOLEAN /\ sendOff \in BOOLEAN
    /\ fetches \subseteq Fetches
    /\ made \in 0..MaxFetches
    /\ output \in 0..MaxFetches

\* The page as the browser shows it before the load event.
Init ==
    /\ loaded = FALSE
    /\ early = FALSE
    /\ listed = {}
    /\ selected = None
    /\ staticOff = FALSE /\ agentsOff = FALSE /\ sendOff = TRUE
    /\ fetches = {}
    /\ made = 0
    /\ output = 0

-----------------------------------------------------------------------------
(***************************************************************************)
(* The page's functions.                                                   *)
(***************************************************************************)

\* Mutant: setBusy forgets the send button when it turns buttons off.
SetBusyNotSend(busy, agent) ==
    /\ staticOff' = busy
    /\ agentsOff' = busy
    /\ sendOff' = IF busy THEN sendOff ELSE agent = None

\* Every button that exists; the send button also needs a selected agent.
SetBusy(busy, agent) ==
    /\ staticOff' = busy
    /\ agentsOff' = busy
    /\ sendOff' = (busy \/ agent = None)

Fetch(p) ==
    /\ made < MaxFetches
    /\ made' = made + 1
    /\ fetches' = fetches \cup {[id |-> made', path |-> p, result |-> [kind |-> "pending"]]}
    /\ SetBusy(TRUE, selected)
    /\ UNCHANGED <<listed, selected, output>>

\* Mutant: the selection is kept although the agent is gone.
RenderAgentsKeeps(agents) ==
    /\ listed' = agents
    /\ selected' = IF selected # None \/ agents = {} THEN selected
                   ELSE CHOOSE a \in agents : TRUE

\* Mutant: agents[0] is taken of an empty list, too.
RenderAgentsUnchecked(agents) ==
    /\ listed' = agents
    /\ IF selected \in agents THEN UNCHANGED selected
       ELSE IF agents = {} THEN selected' = "undefined"
       ELSE selected' \in agents

\* renderAgents: a selection that is not listed any more becomes the first
\* of the list, which the relay sends in no particular order.
RenderAgents(agents) ==
    /\ listed' = agents
    /\ IF selected \in agents THEN UNCHANGED selected
       ELSE IF agents = {} THEN selected' = None
       ELSE selected' \in agents

\* The load event's refreshDevices.
Load ==
    /\ ~loaded
    /\ loaded' = TRUE
    /\ Fetch("list")
    /\ UNCHANGED early

\* A click on "Refresh agents".
Refresh ==
    /\ ~staticOff
    /\ Fetch("list")
    /\ early' = (early \/ ~loaded)
    /\ UNCHANGED loaded

\* A click on "Send command": runShell and runAction up to its fetch.
RunShell ==
    /\ ~sendOff
    /\ selected # None
    /\ Fetch("exec")
    /\ UNCHANGED <<loaded, early>>

\* A click on an agent: selectAgent draws the list anew, with enabled buttons.
SelectAgent(a) ==
    /\ a \in listed
    /\ ~agentsOff
    /\ selected' = a
    /\ agentsOff' = FALSE
    /\ sendOff' = FALSE
    /\ UNCHANGED <<loaded, early, listed, staticOff, fetches, made, output>>

-----------------------------------------------------------------------------
(***************************************************************************)
(* The proxy: validateGUIRequest, then listDevices or handleGUIAction.     *)
(***************************************************************************)
Serve(f) ==
    /\ f \in fetches
    /\ f.result.kind = "pending"
    /\ \E r \in Results :
         /\ \/ r.kind = "failed"
            \/ f.path = "exec" /\ r.kind = "text"
            \/ f.path = "list" /\ r.kind = "list"
         /\ fetches' = (fetches \ {f}) \cup {[f EXCEPT !.result = r]}
    /\ UNCHANGED <<loaded, early, listed, selected, buttons, made, output>>

\* Mutant: a failed response returns before it writes the output.
ResumeNoOutput(f) ==
    /\ f \in fetches
    /\ f.result.kind # "pending"
    /\ fetches' = fetches \ {f}
    /\ output' = IF f.result.kind = "failed" THEN output ELSE f.id
    /\ IF f.result.kind = "list" THEN RenderAgents(f.result.agents)
       ELSE UNCHANGED <<listed, selected>>
    /\ SetBusy(FALSE, selected')
    /\ UNCHANGED <<loaded, early, made>>

\* Mutant: the early return of a failed response skips setBusy(false).
ResumeNotBusy(f) ==
    /\ f \in fetches
    /\ f.result.kind # "pending"
    /\ fetches' = fetches \ {f}
    /\ output' = f.id
    /\ IF f.result.kind = "list" THEN RenderAgents(f.result.agents)
       ELSE UNCHANGED <<listed, selected>>
    /\ IF f.result.kind = "failed" THEN UNCHANGED buttons ELSE SetBusy(FALSE, selected')
    /\ UNCHANGED <<loaded, early, made>>

\* runAction or refreshDevices goes on after its awaits, to the end: the
\* output is written for errors too, and finally turns the buttons on.
Resume(f) ==
    /\ f \in fetches
    /\ f.result.kind # "pending"
    /\ fetches' = fetches \ {f}
    /\ output' = f.id
    /\ IF f.result.kind = "list" THEN RenderAgents(f.result.agents)
       ELSE UNCHANGED <<listed, selected>>
    /\ SetBusy(FALSE, selected')
    /\ UNCHANGED <<loaded, early, made>>

Proceed == \E f \in fetches : Serve(f) \/ Resume(f)

\* No fetch is left to make.
Settled == made = MaxFetches /\ fetches = {} /\ UNCHANGED vars

Next ==
    \/ Load
    \/ Refresh
    \/ RunShell
    \/ \E a \in Agents : SelectAgent(a)
    \/ Proceed
    \/ Settled

Spec == Init /\ [][Next]_vars

(***************************************************************************)
(* The relay answers or its connection breaks, and the browser runs what   *)
(* an answer resumes.  Nobody has to click.                                *)
(***************************************************************************)
FairSpec == Spec /\ WF_vars(Proceed)

-----------------------------------------------------------------------------
(***************************************************************************)
(* A page sends one request at a time, and after a click before the load   *)
(* event at most two, however the fetches overlap afterwards: the one busy *)
(* flag never lets the number grow.  (The relay mixes up the responses of  *)
(* concurrent commands.)                                                   *)
(***************************************************************************)
FewFetches == Cardinality(fetches) <= IF early THEN 2 ELSE 1

(***************************************************************************)
(* The output field shows the result of the last request once nothing is   *)
(* under way: without overlap no earlier result can come later.            *)
(***************************************************************************)
OutputIsLatest == ~early /\ fetches = {} => output = made

(***************************************************************************)
(* A command can be sent only to an agent that the page lists, also when   *)
(* lists arrive in between or overtake each other: runShell's own check of *)
(* selectedAgent never has to stop one.                                    *)
(***************************************************************************)
SendsToListed ==
    /\ selected # None => selected \in listed
    /\ ~sendOff => selected # None

(***************************************************************************)
(* No failure leaves the page with its buttons off.                        *)
(***************************************************************************)
PageUsableAgain == staticOff ~> ~staticOff
=============================================================================
