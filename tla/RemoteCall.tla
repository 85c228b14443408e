----------------------------- MODULE RemoteCall -----------------------------
(***************************************************************************)
(* What the relay promises the controllers, whichever way requests and     *)
(* responses travel: a call is made to one site that it may be made to (a  *)
(* connection of an agent, or the agent's device), the agent there may     *)
(* carry it out, also long after the caller gave up, and the call ends     *)
(* either with the outcome of a command carried out at that site, which no *)
(* other call gets, or with an error.  That the outcome is the caller's    *)
(* own is not promised: all calls share one request id.                    *)
(***************************************************************************)
CONSTANTS
    Calls,
    SitesOf,    \* the sites each call may be made to
    Null

VARIABLES
    state,      \* "new", "pending", "answered" or "failed"
    site,       \* where the call was sent
    executed,   \* calls whose command was carried out
    result      \* the call whose outcome was returned

callVars == <<state, site, executed, result>>

CallInit ==
    /\ state = [c \in Calls |-> "new"]
    /\ site = [c \in Calls |-> Null]
    /\ executed = {}
    /\ result = [c \in Calls |-> Null]

Submit(c, s) ==
    /\ state[c] = "new"
    /\ state' = [state EXCEPT ![c] = "pending"]
    /\ site' = [site EXCEPT ![c] = s]
    /\ UNCHANGED <<executed, result>>

Execute(c) ==
    /\ state[c] # "new"
    /\ c \notin executed
    /\ executed' = executed \cup {c}
    /\ UNCHANGED <<state, site, result>>

Answer(c, e) ==
    /\ state[c] = "pending"
    /\ e \in executed
    /\ site[e] = site[c]
    /\ \A d \in Calls : result[d] # e
    /\ state' = [state EXCEPT ![c] = "answered"]
    /\ result' = [result EXCEPT ![c] = e]
    /\ UNCHANGED <<site, executed>>

\* One call fails, or all that were under way when the relay ended.
Fail(C) ==
    /\ C # {}
    /\ \A c \in C : state[c] \in {"new", "pending"}
    /\ state' = [c \in Calls |-> IF c \in C THEN "failed" ELSE state[c]]
    /\ UNCHANGED <<site, executed, result>>

CallNext ==
    \/ \E c \in Calls :
        \/ \E s \in SitesOf[c] : Submit(c, s)
        \/ Execute(c)
        \/ \E e \in Calls : Answer(c, e)
    \/ \E C \in SUBSET Calls : Fail(C)

CallSpec == CallInit /\ [][CallNext]_callVars
=============================================================================
