--------------------------- MODULE MCRelayBroker ---------------------------
(***************************************************************************)
(* Instances of RelayBroker for TLC.                                       *)
(***************************************************************************)
EXTENDS RelayBroker, TLC

CONSTANTS c1, c2, d1, d2, n1, n2, n3

\* Two commands, each for a device of its own.
MCKind   == [r \in Requests |-> "exec"]
MCTarget == [r \in Requests |-> IF r = c1 THEN d1 ELSE d2]

\* Connections are interchangeable.
MCSymmetry == Permutations({n1, n2, n3})
=============================================================================
