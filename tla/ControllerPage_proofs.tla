----------------------- MODULE ControllerPage_proofs -----------------------
(***************************************************************************)
(* The safety properties of the controller's page, for any agents and any  *)
(* number of fetches.                                                      *)
(*                                                                         *)
(* FewFetches and OutputIsLatest are not inductive: what the buttons'      *)
(* state says of the number of fetches under way has to be added.          *)
(***************************************************************************)
EXTENDS ControllerPage, FiniteSetTheorems, TLAPS

\* Fetches there may be while a button is on, or before the load event.
Overlap == IF early THEN 1 ELSE 0

\* An enabled button means that a fetch may still be started.
ButtonInv ==
    /\ agentsOff = staticOff
    /\ ~sendOff => ~staticOff
    /\ ~staticOff => Cardinality(fetches) <= Overlap
    /\ ~loaded => Cardinality(fetches) <= Overlap
    /\ ~loaded /\ ~staticOff => fetches = {}
    /\ ~loaded /\ ~early => fetches = {} /\ listed = {}

\* What is under way without overlap is the fetch made last.
LastInv ==
    /\ \A f \in fetches : f.id <= made
    /\ ~early => \A f \in fetches : f.id = made
    /\ OutputIsLatest

Invariant ==
    /\ TypeOK
    /\ IsFiniteSet(fetches)
    /\ FewFetches
    /\ ButtonInv
    /\ LastInv
    /\ SendsToListed

-----------------------------------------------------------------------------
(***************************************************************************)
(* A page that was just shown satisfies the invariant.                     *)
(***************************************************************************)
LEMMA InvariantInit == Init => Invariant
<1> SUFFICES ASSUME Init PROVE Invariant
  OBVIOUS
<1>1. IsFiniteSet(fetches) /\ Cardinality(fetches) = 0
  BY FS_EmptySet DEF Init
<1>2. TypeOK
  <2>1. 0 \in 0..MaxFetches
    BY PageAssumption
  <2> QED BY <2>1, Zenon DEF Init, TypeOK
<1>3. FewFetches /\ ButtonInv
  <2>1. /\ Cardinality(fetches) <= Overlap
        /\ Cardinality(fetches) <= IF early THEN 2 ELSE 1
    BY <1>1 DEF Overlap
  <2>2. /\ fetches = {} /\ listed = {}
        /\ staticOff = FALSE /\ agentsOff = FALSE /\ sendOff = TRUE
    BY DEF Init
  <2> QED BY <2>1, <2>2, Zenon DEF FewFetches, ButtonInv
<1>4. LastInv /\ SendsToListed
  BY DEF Init, LastInv, OutputIsLatest, SendsToListed
<1> QED BY <1>1, <1>2, <1>3, <1>4 DEF Invariant

(***************************************************************************)
(* A fetch is started where there is room for one.                         *)
(***************************************************************************)
LEMMA FetchKeeps ==
    ASSUME Invariant, NEW p \in {"list", "exec"}, Fetch(p),
           Cardinality(fetches) <= Overlap,
           loaded' \in BOOLEAN, early' \in BOOLEAN, early => early',
           loaded => loaded',
           ~loaded' => early' /\ fetches = {}
    PROVE  Invariant'
<1> DEFINE f == [id |-> made', path |-> p, result |-> [kind |-> "pending"]]
<1>1. /\ made' = made + 1 /\ made' \in 1..MaxFetches
      /\ fetches' = fetches \cup {f}
      /\ staticOff' = TRUE /\ agentsOff' = TRUE /\ sendOff' = TRUE
      /\ listed' = listed /\ selected' = selected /\ output' = output
  BY PageAssumption DEF Fetch, SetBusy, Invariant, TypeOK
<1>2. f \in Fetches /\ f.id = made'
  BY <1>1 DEF Fetches, Results
<1> HIDE DEF f
<1>3. f \notin fetches /\ f \in fetches'
  BY <1>1, <1>2 DEF Invariant, LastInv, TypeOK
<1>4. /\ IsFiniteSet(fetches')
      /\ Cardinality(fetches') = Cardinality(fetches) + 1
      /\ Cardinality(fetches) \in Nat
  BY <1>1, <1>3, FS_AddElement, FS_CardinalityType DEF Invariant
<1>5. TypeOK'
  BY <1>1, <1>2, PageAssumption DEF Invariant, TypeOK
<1>6. FewFetches'
  BY <1>4 DEF FewFetches, Overlap
<1>7. ~early' => fetches = {}
  BY <1>4, FS_EmptySet DEF Overlap, Invariant
<1>8. LastInv'
  <2>1. \A g \in fetches' : g.id <= made'
    BY <1>1, <1>2 DEF Invariant, LastInv, TypeOK, Fetches
  <2>2. ~early' => \A g \in fetches' : g.id = made'
    BY <1>1, <1>2, <1>7
  <2>3. OutputIsLatest'
    BY <1>3 DEF OutputIsLatest
  <2> QED BY <2>1, <2>2, <2>3 DEF LastInv
<1>9. SendsToListed'
  BY <1>1 DEF Invariant, SendsToListed
<1>10. ButtonInv'
  <2>1. ~loaded' => Cardinality(fetches') <= 1 /\ early'
    BY <1>4, FS_EmptySet
  <2> QED BY <1>1, <2>1 DEF ButtonInv, Overlap
<1> QED BY <1>4, <1>5, <1>6, <1>8, <1>9, <1>10 DEF Invariant

(***************************************************************************)
(* An answer on its way to the page changes no fetch but its result.       *)
(***************************************************************************)
LEMMA ServeKeeps == ASSUME Invariant, NEW f \in fetches, Serve(f) PROVE Invariant'
<1>1. PICK r \in Results : fetches' = (fetches \ {f}) \cup {[f EXCEPT !.result = r]}
  BY DEF Serve
<1> DEFINE g == [f EXCEPT !.result = r]
<1>2. f \in Fetches /\ fetches \subseteq Fetches
  BY DEF Invariant, TypeOK
<1>3. g \in Fetches /\ g.id = f.id
  BY <1>2 DEF Fetches
<1> HIDE DEF g
<1>4. /\ IsFiniteSet(fetches')
      /\ Cardinality(fetches') <= Cardinality(fetches)
      /\ Cardinality(fetches) \in Nat
      /\ fetches # {}
  <2>1. /\ IsFiniteSet(fetches \ {f})
        /\ Cardinality(fetches \ {f}) = Cardinality(fetches) - 1
        /\ Cardinality(fetches) \in Nat
    BY FS_RemoveElement, FS_CardinalityType DEF Invariant
  <2>2. /\ IsFiniteSet(fetches')
        /\ Cardinality(fetches') \in {Cardinality(fetches \ {f}), Cardinality(fetches \ {f}) + 1}
    BY <1>1, <2>1, FS_AddElement DEF g
  <2> QED BY <2>1, <2>2
<1>5. UNCHANGED <<loaded, early, listed, selected, buttons, made, output>>
  BY DEF Serve
<1>6. TypeOK'
  BY <1>1, <1>2, <1>3, <1>5 DEF Invariant, TypeOK, buttons, g
<1>7. LastInv'
  <2>1. \A h \in fetches' : \E i \in fetches : h.id = i.id
    BY <1>1, <1>3 DEF g
  <2>2. fetches' # {}
    BY <1>1
  <2> QED BY <1>5, <2>1, <2>2 DEF Invariant, LastInv, OutputIsLatest
<1>8. Cardinality(fetches') \in Nat
  BY <1>4, FS_CardinalityType
<1>9. FewFetches' /\ ButtonInv'
  BY <1>4, <1>5, <1>8 DEF Invariant, FewFetches, ButtonInv, Overlap, buttons
<1>10. SendsToListed'
  BY <1>5 DEF Invariant, SendsToListed, buttons
<1> QED BY <1>4, <1>6, <1>7, <1>9, <1>10 DEF Invariant

(***************************************************************************)
(* The end of a fetch: one less is under way when the buttons come on.     *)
(***************************************************************************)
LEMMA ResumeKeeps == ASSUME Invariant, NEW f \in fetches, Resume(f) PROVE Invariant'
<1>1. /\ fetches' = fetches \ {f}
      /\ output' = f.id
      /\ staticOff' = FALSE /\ agentsOff' = FALSE /\ sendOff' = (selected' = None)
      /\ loaded' = loaded /\ early' = early /\ made' = made
  BY DEF Resume, SetBusy
<1>2. f \in Fetches
  BY DEF Invariant, TypeOK
<1>3. /\ listed' \subseteq Agents
      /\ selected' \in Agents \cup {None}
      /\ selected' # None => selected' \in listed'
  <2>1. CASE f.result.kind = "list"
    <3>1. RenderAgents(f.result.agents)
      BY <2>1 DEF Resume
    <3>2. f.result.agents \subseteq Agents
      BY <1>2, <2>1 DEF Fetches, Results
    <3> QED BY <3>1, <3>2, PageAssumption DEF RenderAgents, Invariant, TypeOK
  <2>2. CASE f.result.kind # "list"
    BY <2>2 DEF Resume, Invariant, TypeOK, SendsToListed
  <2> QED BY <2>1, <2>2
<1>4. /\ IsFiniteSet(fetches')
      /\ Cardinality(fetches') = Cardinality(fetches) - 1
      /\ Cardinality(fetches) \in Nat
      /\ Cardinality(fetches') = 0 => fetches' = {}
  BY <1>1, FS_RemoveElement, FS_CardinalityType, FS_EmptySet DEF Invariant
<1>5. TypeOK'
  <2>1. f.id \in 0..MaxFetches
    BY <1>2 DEF Fetches
  <2>2. sendOff' \in BOOLEAN
    BY <1>1
  <2> QED BY <1>1, <1>3, <2>1, <2>2, Zenon DEF Invariant, TypeOK
<1>6. FewFetches' /\ ButtonInv'
  <2>1. Cardinality(fetches') <= Overlap'
    BY <1>1, <1>4 DEF Invariant, FewFetches, Overlap
  <2>2. ~loaded' => fetches' = {}
    BY <1>1, <1>4, FS_EmptySet DEF Invariant, ButtonInv, Overlap
  <2>3. ~loaded' /\ ~early' => listed' = {}
    BY <1>1 DEF Invariant, ButtonInv
  <2>4. FewFetches'
    BY <1>4, <2>1 DEF FewFetches, Overlap
  <2>5. agentsOff' = staticOff' /\ ~staticOff'
    BY <1>1
  <2> QED BY <2>1, <2>2, <2>3, <2>4, <2>5, Zenon DEF ButtonInv
<1>7. LastInv'
  BY <1>1 DEF Invariant, LastInv, OutputIsLatest
<1>8. SendsToListed'
  BY <1>1, <1>3 DEF SendsToListed
<1> QED BY <1>4, <1>5, <1>6, <1>7, <1>8 DEF Invariant

(***************************************************************************)
(* Every step keeps the invariant.                                         *)
(***************************************************************************)
LEMMA InvariantStep == Invariant /\ [Next]_vars => Invariant'
<1> SUFFICES ASSUME Invariant, [Next]_vars PROVE Invariant'
  OBVIOUS
<1>1. CASE Load
  BY <1>1, FetchKeeps DEF Load, Invariant, TypeOK, ButtonInv
<1>2. CASE Refresh
  BY <1>2, FetchKeeps DEF Refresh, Invariant, TypeOK, ButtonInv
<1>3. CASE RunShell
  BY <1>3, FetchKeeps DEF RunShell, Invariant, TypeOK, ButtonInv, SendsToListed
<1>4. ASSUME NEW a \in Agents, SelectAgent(a) PROVE Invariant'
  <2>1. /\ UNCHANGED <<loaded, early, listed, staticOff, fetches, made, output>>
        /\ a \in listed /\ selected' = a
        /\ ~agentsOff /\ agentsOff' = FALSE /\ sendOff' = FALSE
    BY <1>4 DEF SelectAgent
  <2>2. agentsOff' = staticOff' /\ ~staticOff'
    BY <2>1 DEF Invariant, ButtonInv, TypeOK
  <2>3. TypeOK'
    BY <2>1, Zenon DEF Invariant, TypeOK
  <2>4. FewFetches' /\ LastInv'
    BY <2>1 DEF Invariant, FewFetches, LastInv, OutputIsLatest
  <2>5. Overlap' = Overlap
    BY <2>1 DEF Overlap
  <2>6. ButtonInv'
    BY <2>1, <2>2, <2>5, Zenon DEF Invariant, ButtonInv
  <2>7. SendsToListed'
    BY <2>1, PageAssumption DEF SendsToListed
  <2>8. IsFiniteSet(fetches')
    BY <2>1 DEF Invariant
  <2> QED BY <2>3, <2>4, <2>6, <2>7, <2>8 DEF Invariant
<1>5. CASE Proceed
  BY <1>5, ServeKeeps, ResumeKeeps DEF Proceed
<1>6. CASE UNCHANGED vars
  BY <1>6 DEF vars, buttons, Invariant, TypeOK, FewFetches, ButtonInv, Overlap, LastInv,
     OutputIsLatest, SendsToListed
<1> QED BY <1>1, <1>2, <1>3, <1>4, <1>5, <1>6 DEF Next, Settled

(***************************************************************************)
(* The invariant holds in every state of every behaviour.                  *)
(***************************************************************************)
THEOREM InvariantCorrect == Spec => []Invariant
  BY InvariantInit, InvariantStep, PTL DEF Spec

(***************************************************************************)
(* Type correctness; the selection is an agent or none, never undefined.   *)
(***************************************************************************)
THEOREM TypeCorrect == Spec => []TypeOK
<1>1. Invariant => TypeOK
  BY DEF Invariant
<1> QED BY <1>1, InvariantCorrect, PTL

(***************************************************************************)
(* setBusy bounds the requests a page has under way, for any number of     *)
(* clicks.                                                                 *)
(***************************************************************************)
THEOREM FetchesBounded == Spec => []FewFetches
<1>1. Invariant => FewFetches
  BY DEF Invariant
<1> QED BY <1>1, InvariantCorrect, PTL

(***************************************************************************)
(* Without a click before the load event the output is the last request's. *)
(***************************************************************************)
THEOREM OutputCorrect == Spec => []OutputIsLatest
<1>1. Invariant => OutputIsLatest
  BY DEF Invariant, LastInv
<1> QED BY <1>1, InvariantCorrect, PTL

(***************************************************************************)
(* renderAgents and selectAgent: commands go to listed agents only.        *)
(***************************************************************************)
THEOREM SelectionCorrect == Spec => []SendsToListed
<1>1. Invariant => SendsToListed
  BY DEF Invariant
<1> QED BY <1>1, InvariantCorrect, PTL
=============================================================================
