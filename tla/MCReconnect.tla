---------------------------- MODULE MCReconnect -----------------------------
(***************************************************************************)
(* An instance of Reconnect for TLC: ticks of half a second, a bound on    *)
(* the backoff that doubling does not hit (1, 2, 4, 5 s), a window of 4 s  *)
(* and clocks at, just inside and just outside of what it tolerates.       *)
(***************************************************************************)
EXTENDS Reconnect

MCSkews == {-9, -6, -5, 0, 8, 9, 12}
=============================================================================
