----------------------- MODULE SessionRegistry_proofs -----------------------
(***************************************************************************)
(* The safety properties of SessionRegistry, for any number of devices,    *)
(* connections and failures.                                               *)
(*                                                                         *)
(* That a device has one live connection follows from a stronger fact: a   *)
(* connection carries data only as long as its agent is on it.  That a     *)
(* connection stays listed needs that its cleanup is the only one there is *)
(* for its device.                                                         *)
(***************************************************************************)
EXTENDS SessionRegistry, TLAPS

\* What OneLiveLink follows from.
LiveIsOn == \A c \in Conns : link[c] = "up" => agentOn[device[c]] = c

\* Without overlap one goroutine at most will delete the device's entry.
OneCleanup ==
    \A b, c \in Conns :
        Held(b) /\ Held(c) /\ device[b] = device[c] /\ device[c] \notin overlapped => b = c

Invariant == TypeOK /\ NoFinishedSession /\ LiveIsOn /\ OneCleanup /\ ListedUnlessOverlapped

-----------------------------------------------------------------------------
(***************************************************************************)
(* An empty table and no connections satisfy the invariant.                *)
(***************************************************************************)
LEMMA InvariantInit == Init => Invariant
  BY RegistryAssumption
     DEF Init, Invariant, TypeOK, NoFinishedSession, LiveIsOn, OneCleanup,
         ListedUnlessOverlapped, Held

(***************************************************************************)
(* No step of an agent, of a goroutine of the relay or of the network      *)
(* breaks it.                                                              *)
(***************************************************************************)
LEMMA InvariantStep == Invariant /\ [Next]_vars => Invariant'
<1> SUFFICES ASSUME Invariant, [Next]_vars PROVE Invariant'
  OBVIOUS
<1> USE RegistryAssumption 
    DEF Invariant, TypeOK, NoFinishedSession, LiveIsOn, OneCleanup, ListedUnlessOverlapped, Held
<1>1. ASSUME NEW d \in Devices, NEW c \in Conns, Dial(d, c) PROVE Invariant'
  BY <1>1 DEF Dial, Unused
<1>2. ASSUME NEW d \in Devices, HangUp(d) PROVE Invariant'
  BY <1>2 DEF HangUp
<1>3. ASSUME NEW c \in Conns, Register(c) PROVE Invariant'
  BY <1>3 DEF Register
<1>4. ASSUME NEW c \in Conns, Reject(c) PROVE Invariant'
  BY <1>4 DEF Reject
<1>5. ASSUME NEW c \in Conns, ReadLoopReturns(c) PROVE Invariant'
  BY <1>5 DEF ReadLoopReturns
<1>6. ASSUME NEW c \in Conns, Unregister(c) PROVE Invariant'
  BY <1>6 DEF Unregister
<1>7. ASSUME NEW c \in Conns, CutLink(c) PROVE Invariant'
  BY <1>7 DEF CutLink
<1>8. CASE RelayRestart
  BY <1>8 DEF RelayRestart
<1>9. CASE UNCHANGED vars
  BY <1>9 DEF vars
<1> QED
  BY <1>1, <1>2, <1>3, <1>4, <1>5, <1>6, <1>7, <1>8, <1>9
     DEF Next, RuntimeLoop, HandleAgentConn, Settled

(***************************************************************************)
(* Invariant holds in every reachable state.                               *)
(***************************************************************************)
THEOREM InvariantCorrect == Spec => []Invariant
  BY InvariantInit, InvariantStep, PTL DEF Spec

(***************************************************************************)
(* The table, the connections and the agents' state stay typed.            *)
(***************************************************************************)
THEOREM TypeCorrect == Spec => []TypeOK
<1>1. Invariant => TypeOK
  BY DEF Invariant
<1> QED BY <1>1, InvariantCorrect, PTL

(***************************************************************************)
(* No finished session is ever found in the table.                         *)
(***************************************************************************)
THEOREM TableCorrect == Spec => []NoFinishedSession
<1>1. Invariant => NoFinishedSession
  BY DEF Invariant
<1> QED BY <1>1, InvariantCorrect, PTL

(***************************************************************************)
(* A device has at most one live connection.                               *)
(***************************************************************************)
THEOREM LiveLinkUnique == Spec => []OneLiveLink
<1>1. Invariant => OneLiveLink
  BY DEF Invariant, LiveIsOn, OneLiveLink
<1> QED BY <1>1, InvariantCorrect, PTL

(***************************************************************************)
(* A connection registered without overlap stays in the table as long as   *)
(* readLoop serves it: only the overlap of line 435 unlists one.           *)
(***************************************************************************)
THEOREM ListedWithoutOverlap == Spec => []ListedUnlessOverlapped
<1>1. Invariant => ListedUnlessOverlapped
  BY DEF Invariant
<1> QED BY <1>1, InvariantCorrect, PTL
=============================================================================
