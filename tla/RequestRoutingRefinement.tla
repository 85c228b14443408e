---------------------- MODULE RequestRoutingRefinement ----------------------
(***************************************************************************)
(* RequestRouting implements RemoteCall.  A call is pending from the       *)
(* lookup of its session to the select in sendRequest; it is over as soon  *)
(* as sendRequest has a response or an error to return.                    *)
(***************************************************************************)
EXTENDS RequestRouting

CallState(r) ==
    IF pc[r] = "idle" THEN "new"
    ELSE IF pc[r] \in {"found", "registered", "waiting"} THEN "pending"
    ELSE IF answer[r] # None THEN "answered" ELSE "failed"

Remote == INSTANCE RemoteCall WITH
    Calls    <- Requests,
    SitesOf  <- [r \in Requests |-> Sessions],
    Null     <- None,
    state    <- [r \in Requests |-> CallState(r)],
    site     <- via,
    executed <- {r \in Requests : fate[r] = "run"},
    result   <- answer

(***************************************************************************)
(* Every behaviour of sendRequest, readLoop and the agent's loop is one    *)
(* that RemoteCall allows: late, stolen and dropped responses included, a  *)
(* call ends once, with an execution of its own session that nobody else   *)
(* received, or with an error.                                             *)
(***************************************************************************)
ImplementsRemoteCall == Remote!CallSpec
=============================================================================
