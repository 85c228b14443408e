-------------------------- MODULE MCRequestRouting --------------------------
(***************************************************************************)
(* Instances of RequestRouting for TLC.                                    *)
(***************************************************************************)
EXTENDS RequestRoutingRefinement, TLC

CONSTANTS c1, c2, c3, s1, s2

\* Two commands and one lock request: a late answer, an answer in time and a
\* request that is never answered.
MCKind == [r \in Requests |-> IF r = c3 THEN "lock" ELSE "exec"]

\* Sessions are interchangeable.
MCSymmetry == Permutations({s1, s2})
=============================================================================
