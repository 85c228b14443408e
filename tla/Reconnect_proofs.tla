-------------------------- MODULE Reconnect_proofs --------------------------
(***************************************************************************)
(* Proofs about Reconnect, for all durations and all clocks.               *)
(***************************************************************************)
EXTENDS Reconnect, TLAPS

(***************************************************************************)
(* How much the clocks of both ends can make of a message under way.       *)
(***************************************************************************)
LagInv ==
    agent = "auth" =>
        /\ wait <= Transit
        /\ 0 <= lag + stamped /\ lag + stamped <= Second - 1 + Transit - wait

(***************************************************************************)
(* BackWithinBound says nothing of an agent on its way.  What carries it:  *)
(* the calm so far and the time the agent's present step may still take    *)
(* never exceed what the steps up to here may take together.  A dial the   *)
(* outage may fail, and a message made with a wrong clock, are only under  *)
(* way if calm began after them.                                           *)
(***************************************************************************)
CalmInv ==
    /\ relay = "down" => calm = 0
    /\ ~Tolerable(skew) => calm = 0
    /\ agent = "cut"   => calm + wait <= Transit + NoticeTime
    /\ agent = "pause" => calm + wait <= LostTime
    /\ agent = "sync"  => wait <= SyncTime /\ calm + wait <= LostTime + SyncTime
    /\ agent = "dial"  => /\ wait <= DialTime
                          /\ relay = "down" => outage
                          /\ outage => calm + wait <= DialTime
                          /\ calm + wait <= LostTime + SyncTime + DialTime
    /\ agent = "auth"  => /\ relay = "up"
                          /\ Tolerable(stamped) \/ calm + wait <= Transit
                          /\ calm + wait <= Bound

IInv == TypeOK /\ LagInv /\ CalmInv

(***************************************************************************)
(* LostTime covers the longest pause after a late failure of a dial, and   *)
(* the notice of a refusal with the pause after it.                        *)
(***************************************************************************)
LEMMA LostTimeCovers ==
    /\ LostTime \in Nat
    /\ DialTime + MaxBackoff <= LostTime
    /\ Transit + NoticeTime + 2 * Second <= LostTime
  BY TimingAssumption DEF LostTime, Larger

(***************************************************************************)
(* An agent that starts while the relay is down satisfies the invariant.   *)
(***************************************************************************)
LEMMA IInvInit == Init => IInv
<1> SUFFICES ASSUME Init PROVE IInv
  OBVIOUS
<1>1. outage \in BOOLEAN
  BY Zenon DEF Init
<1> QED BY <1>1, TimingAssumption, LostTimeCovers
     DEF Init, IInv, TypeOK, LagInv, CalmInv, Bound

(***************************************************************************)
(* A message whose clock was tolerable is fresh, one whose clock was       *)
(* hopeless is not, as long as it is under way.                            *)
(***************************************************************************)
LEMMA LagDecides == IInv => WindowDecides
  BY TimingAssumption DEF IInv, TypeOK, LagInv, WindowDecides, Tolerable, Hopeless, Fresh

(***************************************************************************)
(* No step of the agent, of the relay, of a clock or of time breaks it.    *)
(***************************************************************************)
LEMMA IInvStep == IInv /\ [Next]_vars => IInv'
<1> SUFFICES ASSUME IInv, [Next]_vars PROVE IInv'
  OBVIOUS
<1> USE TimingAssumption, LostTimeCovers DEF IInv, TypeOK, LagInv, CalmInv, Bound
<1>1. CASE SyncEnds
  <2>1. outage' \in BOOLEAN /\ (relay' = "down" => outage')
    BY <1>1, Zenon DEF SyncEnds
  <2>2. outage' => calm' = 0
    BY <1>1, Zenon DEF SyncEnds
  <2> QED BY <1>1, <2>1, <2>2 DEF SyncEnds
<1>2. CASE DialFails
  BY <1>2 DEF DialFails, Pause
<1>3. CASE DialSucceeds
  BY <1>3 DEF DialSucceeds
<1>4. CASE WakeUp
  BY <1>4 DEF WakeUp
<1>5. CASE Accept
  BY <1>5 DEF Accept
<1>6. CASE Refuse
  <2>1. ~Tolerable(stamped)
    BY <1>6, LagDecides DEF Refuse, WindowDecides
  <2> QED BY <1>6, <2>1 DEF Refuse, ConnectionEnds
<1>7. CASE Lose
  BY <1>7 DEF Lose, ConnectionEnds
<1>8. CASE RelayEnds
  <2>1. outage' \in BOOLEAN /\ (agent' = "dial" => outage')
    BY <1>8, Zenon DEF RelayEnds, ConnectionEnds
  <2> QED BY <1>8, <2>1 DEF RelayEnds, ConnectionEnds
<1>9. CASE RelayStarts
  BY <1>9 DEF RelayStarts
<1>10. CASE SetClock
  BY <1>10 DEF SetClock
<1>11. CASE Tick
  BY <1>11 DEF Tick
<1>12. CASE HandleConnectionReturns
  BY <1>12 DEF HandleConnectionReturns, Pause
<1>13. CASE UNCHANGED vars
  BY <1>13 DEF vars
<1> QED BY <1>1, <1>2, <1>3, <1>4, <1>5, <1>6, <1>7, <1>8, <1>9, <1>10, <1>11, <1>12, <1>13
     DEF Next

(***************************************************************************)
(* The inductive invariant holds in every reachable state.                 *)
(***************************************************************************)
THEOREM IInvCorrect == Spec => []IInv
  BY IInvInit, IInvStep, PTL DEF Spec

(***************************************************************************)
(* Type correctness; the backoff stays between one second and its bound.   *)
(***************************************************************************)
THEOREM TypeCorrect == Spec => []TypeOK
<1>1. IInv => TypeOK
  BY DEF IInv
<1> QED BY <1>1, IInvCorrect, PTL

(***************************************************************************)
(* The agent is served once trouble has been over for longer than Bound,   *)
(* for all durations and whatever dial, command or message the trouble     *)
(* found under way.                                                        *)
(***************************************************************************)
THEOREM BackWithinBoundCorrect == Spec => []BackWithinBound
<1>1. IInv => BackWithinBound
  BY TimingAssumption, LostTimeCovers
     DEF IInv, TypeOK, CalmInv, BackWithinBound, Bound
<1> QED BY <1>1, IInvCorrect, PTL

(***************************************************************************)
(* The timestamp window decides as intended at its edges, for all windows, *)
(* delays and clocks.                                                      *)
(***************************************************************************)
THEOREM WindowDecidesCorrect == Spec => []WindowDecides
  BY LagDecides, IInvCorrect, PTL
=============================================================================
