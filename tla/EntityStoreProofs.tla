-------------------------- MODULE EntityStoreProofs --------------------------
(***************************************************************************)
(* Proofs about EntityStore, for any table, any number of overlapping     *)
(* calls and any sessions.                                                 *)
(***************************************************************************)
EXTENDS EntityStore, TLAPS

-----------------------------------------------------------------------------
(* The page's statuses and the services' graphs                            *)

Pages == {"units", "rules", "samples", "decisions"}

\* Whatever follows a status in a page's list follows it in the graph.
LEMMA ListsFollowGraphs ==
    ASSUME NEW p \in Pages, NEW k \in 2..Len(Statuses[p])
    PROVE  <<Statuses[p][k - 1], Statuses[p][k]>> \in Graph[p]
<1>1. CASE p = "units"
  <2>1. Statuses[p] = <<"standby", "running", "limited", "stopped">>
    BY <1>1 DEF Statuses
  <2>2. k \in {2, 3, 4}
    BY <2>1
  <2>3. QED
    BY <1>1, <2>1, <2>2 DEF Graph, CaptureUnitTransitions
<1>2. CASE p = "rules"
  <2>1. Statuses[p] = <<"draft", "active", "superseded", "retired">>
    BY <1>2 DEF Statuses
  <2>2. k \in {2, 3, 4}
    BY <2>1
  <2>3. QED
    BY <1>2, <2>1, <2>2 DEF Graph, PermitRuleTransitions
<1>3. CASE p = "samples"
  <2>1. Statuses[p] = <<"collected", "testing", "verified", "invalid">>
    BY <1>3 DEF Statuses
  <2>2. k \in {2, 3, 4}
    BY <2>1
  <2>3. QED
    BY <1>3, <2>1, <2>2 DEF Graph, EmissionSampleTransitions
<1>4. CASE p = "decisions"
  <2>1. Statuses[p] = <<"draft", "review", "accepted", "escalated">>
    BY <1>4 DEF Statuses
  <2>2. k \in {2, 3, 4}
    BY <2>1
  <2>3. QED
    BY <1>4, <2>1, <2>2 DEF Graph, ComplianceDecisionTransitions
<1>5. QED
  BY <1>1, <1>2, <1>3, <1>4 DEF Pages

\* A graph leads only to statuses its page lists.
LEMMA GraphsStayListed ==
    ASSUME NEW p \in Pages, NEW from, NEW to, <<from, to>> \in Graph[p]
    PROVE  to \in ToSet(Statuses[p])
<1>1. CASE p = "units"
  BY <1>1 DEF Statuses, Graph, CaptureUnitTransitions, ToSet
<1>2. CASE p = "rules"
  BY <1>2 DEF Statuses, Graph, PermitRuleTransitions, ToSet
<1>3. CASE p = "samples"
  BY <1>3 DEF Statuses, Graph, EmissionSampleTransitions, ToSet
<1>4. CASE p = "decisions"
  BY <1>4 DEF Statuses, Graph, ComplianceDecisionTransitions, ToSet
<1>5. QED
  BY <1>1, <1>2, <1>3, <1>4 DEF Pages

LEMMA ListedStatuses ==
    ASSUME NEW p \in Pages
    PROVE  /\ ToSet(Statuses[p]) \subseteq AllStatuses
           /\ Head(Statuses[p]) \in ToSet(Statuses[p])
BY DEF Pages, Statuses, ToSet, AllStatuses, UnitStates, RuleStates,
       SampleStates, DecisionStates

-----------------------------------------------------------------------------
(* Types                                                                   *)

\* A session's page is one of the four.
LEMMA PageKnown ==
    ASSUME TypeOK
    PROVE  path \in Pages
BY ConstantsAssumption DEF TypeOK, ConstantsAssumption, Statuses, Pages

\* A button leads to a listed status along the graph.
LEMMA NextIsEdge ==
    ASSUME TypeOK, NEW status, NextStatus(status) # None
    PROVE  /\ NextStatus(status) \in ToSet(Statuses[path])
           /\ CanTransition(Graph[path], status, NextStatus(status))
<1> DEFINE later == {k \in 2..Len(Statuses[path]) : Statuses[path][k - 1] = status}
<1>1. PICK k \in later : NextStatus(status) = Statuses[path][k]
  BY DEF NextStatus
<1>2. <<status, NextStatus(status)>> \in Graph[path]
  BY <1>1, PageKnown, ListsFollowGraphs
<1>3. QED
  BY <1>2, PageKnown, GraphsStayListed DEF CanTransition

\* A new call has the type of calls, and is one.
LEMMA NewCallFacts ==
    ASSUME NEW kind \in {"load", "create", "transition"},
           NEW stage \in {"post", "get"}, NEW sent \in Offer \cup {None}
    PROVE  /\ NewCall(kind, stage, sent) \in Call
           /\ NewCall(kind, stage, sent) # None
           /\ NewCall(kind, stage, sent).kind = kind
           /\ NewCall(kind, stage, sent).stage = stage
           /\ NewCall(kind, stage, sent).sent = sent
           /\ NewCall(kind, stage, sent).data = EmptyList
<1>1. EmptyList \in [Ids -> Row \cup {None}]
  BY DEF EmptyList
<1>2. NewCall(kind, stage, sent) \in Call
  BY <1>1 DEF NewCall, Call
<1>3. QED
  BY <1>2, ConstantsAssumption DEF ConstantsAssumption, NewCall

\* What a call is while it is in flight.
LEMMA CallFacts ==
    ASSUME TypeOK, NEW s \in Slots, calls[s] # None
    PROVE  calls[s] \in Call
BY DEF TypeOK

\* A change of stage keeps calls calls.
LEMMA AdvancedFacts ==
    ASSUME TypeOK, NEW s \in Slots, calls[s] # None,
           NEW stage \in {"post", "accepted", "refused", "get", "list", "nolist"},
           calls' = Advanced(s, stage)
    PROVE  /\ calls' \in [Slots -> Call \cup {None}]
           /\ \A x \in Slots : x # s => calls'[x] = calls[x]
           /\ calls'[s] \in Call /\ calls'[s] # None
           /\ calls'[s].stage = stage
           /\ calls'[s].kind = calls[s].kind
           /\ calls'[s].sent = calls[s].sent
           /\ calls'[s].data = calls[s].data
<1> DEFINE new == [calls[s] EXCEPT !.stage = stage]
<1>1. /\ new \in Call
      /\ new.stage = stage
      /\ new.kind = calls[s].kind /\ new.sent = calls[s].sent
      /\ new.data = calls[s].data
  BY CallFacts DEF Call
<1>2. calls' = [calls EXCEPT ![s] = new]
  BY DEF Advanced
<1>3. calls \in [Slots -> Call \cup {None}]
  BY DEF TypeOK
<1> HIDE DEF new
<1>4. calls' \in [Slots -> Call \cup {None}]
  BY <1>1, <1>2, <1>3
<1>5. calls'[s] = new
  BY <1>2, <1>3
<1>6. \A x \in Slots : x # s => calls'[x] = calls[x]
  BY <1>2, <1>3
<1>7. None \notin Call
  BY ConstantsAssumption DEF ConstantsAssumption
<1>8. QED
  BY <1>1, <1>4, <1>5, <1>6, <1>7

\* The part of TypeOK about the transitions in flight.
TransitionsCarryOffers ==
    \A s \in Slots :
        calls[s] # None /\ calls[s].kind = "transition"
           /\ calls[s].stage \in {"post", "accepted"} => calls[s].sent # None

\* The actions that begin a call.
LEMMA BeginTypeOK ==
    ASSUME TypeOK, NEW s \in Slots,
           Query(s) \/ Visit(s) \/ CreateDemo(s) \/ ConfirmTransition(s)
    PROVE  TypeOK'
<1> USE DEF page
<1>1. ASSUME NEW kind \in {"load", "create", "transition"},
             NEW stage \in {"post", "get"}, NEW sent \in Offer \cup {None},
             kind = "transition" => sent # None,
             calls' = [calls EXCEPT ![s] = NewCall(kind, stage, sent)]
      PROVE  calls' \in [Slots -> Call \cup {None}] /\ TransitionsCarryOffers'
  BY <1>1, NewCallFacts DEF TypeOK, TransitionsCarryOffers
<1>2. CASE Query(s)
  <2>1. calls' \in [Slots -> Call \cup {None}] /\ TransitionsCarryOffers'
    BY <1>1, <1>2 DEF Query, Begin
  <2>2. QED
    BY <1>2, <2>1 DEF Query, Begin, TypeOK, TransitionsCarryOffers
<1>3. CASE Visit(s)
  <2>1. \A x \in InFlight : /\ [calls[x] EXCEPT !.mine = FALSE] \in Call
                            /\ [calls[x] EXCEPT !.mine = FALSE].kind = calls[x].kind
                            /\ [calls[x] EXCEPT !.mine = FALSE].stage = calls[x].stage
                            /\ [calls[x] EXCEPT !.mine = FALSE].sent = calls[x].sent
    BY CallFacts DEF InFlight, Call
  <2>2. calls' \in [Slots -> Call \cup {None}] /\ TransitionsCarryOffers'
    BY <1>3, <2>1, NewCallFacts DEF Visit, TypeOK, TransitionsCarryOffers, InFlight
  <2>3. QED
    BY <1>3, <2>2 DEF Visit, TypeOK, TransitionsCarryOffers
<1>4. CASE CreateDemo(s)
  <2>1. calls' \in [Slots -> Call \cup {None}] /\ TransitionsCarryOffers'
    BY <1>1, <1>4 DEF CreateDemo, Begin
  <2>2. QED
    BY <1>4, <2>1 DEF CreateDemo, Begin, TypeOK, TransitionsCarryOffers
<1>5. CASE ConfirmTransition(s)
  <2>1. pending \in Offer /\ pending # None
    BY <1>5 DEF ConfirmTransition, TypeOK
  <2>2. calls' \in [Slots -> Call \cup {None}] /\ TransitionsCarryOffers'
    BY <1>1, <1>5, <2>1 DEF ConfirmTransition, Begin, Sent
  <2>3. QED
    BY <1>5, <2>2 DEF ConfirmTransition, Begin, TypeOK, TransitionsCarryOffers
<1>6. QED
  BY <1>2, <1>3, <1>4, <1>5

\* The actions of the two dialogs that send nothing.
LEMMA DialogTypeOK ==
    ASSUME TypeOK,
           \/ OpenCreate \/ CloseCreate \/ CloseTransition
           \/ \E i \in Ids : OpenTransition(i)
    PROVE  TypeOK'
<1>1. CASE OpenCreate \/ CloseCreate \/ CloseTransition
  BY <1>1 DEF OpenCreate, CloseCreate, CloseTransition, TypeOK
<1>2. ASSUME NEW i \in Ids, OpenTransition(i)
      PROVE  TypeOK'
  <2>1. items[i] \in Row
    BY <1>2 DEF OpenTransition, TypeOK
  <2>2. NextStatus(items[i].status) \in AllStatuses
    BY <1>2, NextIsEdge, PageKnown, ListedStatuses DEF OpenTransition, Offers
  <2>3. pending' \in Offer
    BY <1>2, <2>1, <2>2 DEF OpenTransition, Offer, Row
  <2>4. QED
    BY <1>2, <2>3 DEF OpenTransition, TypeOK
<1>3. QED
  BY <1>1, <1>2

\* A live row is a row, with one of its page's statuses.
LEMMA LiveIsRow ==
    ASSUME TypeOK, NEW i \in Ids, Live(i)
    PROVE  table[i] \in Row /\ table[i].status \in ToSet(Statuses[path])
BY DEF TypeOK, Live

\* A table stays a table when one row becomes a row with a listed status.
LEMMA StoredTypeOK ==
    ASSUME TypeOK, NEW i \in Ids, NEW status \in ToSet(Statuses[path]),
           NEW version \in Nat \ {0},
           table' = [table EXCEPT ![i] = [status |-> status, version |-> version]],
           UNCHANGED path
    PROVE  /\ table' \in [Ids -> Row \cup {None, Gone}]
           /\ \A j \in Ids : table'[j] \in Row => table'[j].status \in ToSet(Statuses[path'])
<1>1. status \in AllStatuses
  BY PageKnown, ListedStatuses
<1>2. [status |-> status, version |-> version] \in Row
  BY <1>1 DEF Row
<1>3. QED
  BY <1>2 DEF TypeOK

\* A call that advances keeps the types of calls.
LEMMA AdvancedTypeOK ==
    ASSUME TypeOK, NEW s \in Slots, calls[s] # None,
           NEW stage \in {"accepted", "refused", "get", "list", "nolist"},
           stage = "accepted" => calls[s].stage = "post",
           calls' = Advanced(s, stage)
    PROVE  calls' \in [Slots -> Call \cup {None}] /\ TransitionsCarryOffers'
<1>1. TransitionsCarryOffers
  BY DEF TypeOK, TransitionsCarryOffers
<1>2. /\ calls' \in [Slots -> Call \cup {None}]
      /\ \A x \in Slots : x # s => calls'[x] = calls[x]
      /\ calls'[s].stage = stage
      /\ calls'[s].kind = calls[s].kind
      /\ calls'[s].sent = calls[s].sent
  BY AdvancedFacts
<1>3. QED
  BY <1>1, <1>2 DEF TransitionsCarryOffers

\* The backend's steps for this tab.
LEMMA BackendTypeOK ==
    ASSUME TypeOK, NEW s \in Slots,
           \/ Transitioned(s) \/ Created(s) \/ NotStored(s)
           \/ Listed(s) \/ NotListed(s)
    PROVE  TypeOK'
<1> USE DEF page
<1>2. CASE Transitioned(s)
  <2> DEFINE sent == calls[s].sent
             row  == table[sent.item]
             new  == [status |-> sent.to, version |-> row.version + 1]
  <2>1. /\ calls[s] # None /\ calls[s].stage = "post" /\ calls[s].kind = "transition"
        /\ Accepts(sent.item, sent.version, sent.to)
    BY <1>2 DEF Transitioned
  <2>2. calls' \in [Slots -> Call \cup {None}] /\ TransitionsCarryOffers'
    <3>1. PICK stage \in {"accepted", "refused"} : calls' = Advanced(s, stage)
      BY <1>2 DEF Transitioned
    <3>2. QED
      BY <2>1, <3>1, AdvancedTypeOK
  <2>3. sent \in Offer
    BY <2>1, CallFacts DEF TypeOK, Call
  <2>4. /\ sent.item \in Ids /\ row \in Row
        /\ sent.to \in ToSet(Statuses[path])
    BY <2>1, <2>3, LiveIsRow, PageKnown, GraphsStayListed
    DEF Accepts, CanTransition, Offer
  <2>5. /\ table' \in [Ids -> Row \cup {None, Gone}]
        /\ \A j \in Ids : table'[j] \in Row => table'[j].status \in ToSet(Statuses[path'])
    <3>1. row.version + 1 \in Nat \ {0}
      BY <2>4 DEF Row
    <3>2. table' = [table EXCEPT ![sent.item] =
                       [status |-> sent.to, version |-> row.version + 1]]
      BY <1>2 DEF Transitioned
    <3>3. UNCHANGED path
      BY <1>2 DEF Transitioned
    <3>4. QED
      BY <2>4, <3>1, <3>2, <3>3, StoredTypeOK
  <2>6. applied' \subseteq [sent : Offer, found : AllStatuses, version : Nat]
    <3>1. applied' = applied \cup
             {[sent |-> sent, found |-> row.status, version |-> row.version + 1]}
      BY <1>2 DEF Transitioned
    <3>2. row.status \in AllStatuses /\ row.version + 1 \in Nat
      BY <2>4 DEF Row
    <3>3. QED
      BY <2>3, <3>1, <3>2 DEF TypeOK
  <2>7. QED
    BY <1>2, <2>2, <2>5, <2>6 DEF Transitioned, TypeOK, TransitionsCarryOffers
<1>3. CASE Created(s)
  <2>1. calls' \in [Slots -> Call \cup {None}] /\ TransitionsCarryOffers'
    <3>1. PICK stage \in {"accepted", "refused"} : calls' = Advanced(s, stage)
      BY <1>3 DEF Created
    <3>2. QED
      BY <1>3, <3>1, AdvancedTypeOK DEF Created
  <2>2. PICK i \in Ids :
           table' = [table EXCEPT ![i] = [status |-> FirstStatus, version |-> 1]]
    BY <1>3 DEF Created
  <2>3. FirstStatus \in ToSet(Statuses[path])
    BY PageKnown, ListedStatuses DEF FirstStatus
  <2>4. /\ table' \in [Ids -> Row \cup {None, Gone}]
        /\ \A j \in Ids : table'[j] \in Row => table'[j].status \in ToSet(Statuses[path'])
    <3>1. UNCHANGED path
      BY <1>3 DEF Created
    <3>2. 1 \in Nat \ {0}
      OBVIOUS
    <3>3. QED
      BY <2>2, <2>3, <3>1, <3>2, StoredTypeOK
  <2>5. QED
    BY <1>3, <2>1, <2>4 DEF Created, TypeOK, TransitionsCarryOffers
<1>4. CASE NotStored(s) \/ NotListed(s)
  <2>1. calls' \in [Slots -> Call \cup {None}] /\ TransitionsCarryOffers'
    BY <1>4, AdvancedTypeOK DEF NotStored, NotListed
  <2>2. QED
    BY <1>4, <2>1 DEF NotStored, NotListed, TypeOK, TransitionsCarryOffers
<1>5. CASE Listed(s)
  <2>1. PICK found \in SUBSET {i \in Ids : Live(i)} :
           calls' = [calls EXCEPT ![s].stage = "list",
                        ![s].data = [i \in Ids |-> IF i \in found THEN table[i] ELSE None]]
    BY <1>5 DEF Listed
  <2>2. [i \in Ids |-> IF i \in found THEN table[i] ELSE None] \in [Ids -> Row \cup {None}]
    BY LiveIsRow
  <2>3. calls[s] \in Call
    BY <1>5, CallFacts DEF Listed
  <2>4. /\ calls'[s] \in Call /\ calls'[s].stage = "list"
        /\ \A x \in Slots : x # s => calls'[x] = calls[x]
        /\ calls' \in [Slots -> Call \cup {None}]
    BY <2>1, <2>2, <2>3 DEF Call, TypeOK
  <2>5. QED
    BY <1>5, <2>4 DEF Listed, TypeOK
<1>6. QED
  BY <1>2, <1>3, <1>4, <1>5

\* The other clients' steps.
LEMMA OthersTypeOK ==
    ASSUME TypeOK, OtherTransitions \/ OtherUpdates \/ OtherDeletes
    PROVE  TypeOK'
<1> USE DEF page
<1>1. CASE OtherTransitions
  <2>1. PICK i \in Ids, to \in ToSet(Statuses[path]) :
           /\ Live(i)
           /\ table' = [table EXCEPT ![i] =
                           [status |-> to, version |-> table[i].version + 1]]
    BY <1>1 DEF OtherTransitions
  <2>2. table[i].version + 1 \in Nat \ {0}
    BY <2>1, LiveIsRow DEF Row
  <2>3. UNCHANGED path
    BY <1>1 DEF OtherTransitions
  <2>4. /\ table' \in [Ids -> Row \cup {None, Gone}]
        /\ \A j \in Ids : table'[j] \in Row => table'[j].status \in ToSet(Statuses[path'])
    BY <2>1, <2>2, <2>3, StoredTypeOK
  <2>5. QED
    BY <1>1, <2>4 DEF OtherTransitions, TypeOK
<1>2. CASE OtherUpdates
  <2>1. PICK i \in Ids :
           /\ Live(i)
           /\ table' = [table EXCEPT ![i].version = table[i].version + 1]
    BY <1>2 DEF OtherUpdates
  <2>2. [table[i] EXCEPT !.version = table[i].version + 1]
           = [status |-> table[i].status, version |-> table[i].version + 1]
    BY <2>1, LiveIsRow DEF Row
  <2>3. table' = [table EXCEPT ![i] =
                     [status |-> table[i].status, version |-> table[i].version + 1]]
    BY <2>1, <2>2
  <2>4. table[i].version + 1 \in Nat \ {0} /\ table[i].status \in ToSet(Statuses[path])
    BY <2>1, LiveIsRow DEF Row
  <2>5. UNCHANGED path
    BY <1>2 DEF OtherUpdates
  <2>6. /\ table' \in [Ids -> Row \cup {None, Gone}]
        /\ \A j \in Ids : table'[j] \in Row => table'[j].status \in ToSet(Statuses[path'])
    BY <2>3, <2>4, <2>5, StoredTypeOK
  <2>7. QED
    BY <1>2, <2>6 DEF OtherUpdates, TypeOK
<1>3. CASE OtherDeletes
  BY <1>3, ConstantsAssumption DEF OtherDeletes, TypeOK, ConstantsAssumption
<1>4. QED
  BY <1>1, <1>2, <1>3

\* The steps of the store when an answer arrives.
LEMMA AnswerTypeOK ==
    ASSUME TypeOK, NEW s \in Slots, Reloads(s) \/ Refused(s) \/ Ends(s)
    PROVE  TypeOK'
<1> USE DEF page
<1>1. CASE Reloads(s)
  <2> DEFINE new == [calls[s] EXCEPT !.stage = "get", !.sent = None]
  <2>1. calls[s] # None /\ calls[s].stage = "accepted"
    BY <1>1 DEF Reloads
  <2>2. new \in Call /\ new.stage = "get"
    BY <2>1, CallFacts DEF Call
  <2>3. calls' = [calls EXCEPT ![s] = new]
    BY <1>1 DEF Reloads
  <2> HIDE DEF new
  <2>4. calls' \in [Slots -> Call \cup {None}] /\ TransitionsCarryOffers'
    BY <2>2, <2>3 DEF TypeOK, TransitionsCarryOffers
  <2>5. acked' \in [Ids -> Nat]
    <3>1. CASE calls[s].kind # "transition"
      BY <1>1, <3>1 DEF Reloads, TypeOK
    <3>2. CASE calls[s].kind = "transition"
      <4>1. calls[s].sent \in Offer
        BY <2>1, <3>2, CallFacts DEF TypeOK, Call
      <4>2. calls[s].sent.version + 1 \in Nat
        BY <4>1 DEF Offer
      <4>3. QED
        BY <1>1, <3>2, <4>2 DEF Reloads, TypeOK
    <3>3. QED
      BY <3>1, <3>2
  <2>6. QED
    BY <1>1, <2>4, <2>5 DEF Reloads, TypeOK, TransitionsCarryOffers
<1>2. CASE Refused(s)
  BY <1>2 DEF Refused, LoadingAfterError, TypeOK
<1>3. CASE Ends(s)
  <2>1. calls[s].data \in [Ids -> Row \cup {None}]
    BY <1>3, CallFacts DEF Ends, Call
  <2>2. QED
    BY <1>3, <2>1 DEF Ends, TypeOK
<1>4. QED
  BY <1>1, <1>2, <1>3

\* Initially.
LEMMA InitTypeOK == Init => TypeOK
<1>1. SUFFICES ASSUME Init PROVE TypeOK
  OBVIOUS
<1>2. <<path, role>> \in Sessions
  <2>1. PICK session \in Sessions : path = session[1] /\ role = session[2]
    BY <1>1 DEF Init
  <2>2. session = <<session[1], session[2]>>
    BY ConstantsAssumption DEF ConstantsAssumption
  <2>3. QED
    BY <2>1, <2>2
<1>3. path \in Pages
  BY <1>2, ConstantsAssumption DEF ConstantsAssumption, Statuses, Pages
<1>4. PICK s \in Slots :
         calls = [x \in Slots |-> IF x = s THEN NewCall("load", "get", None) ELSE None]
  BY <1>1 DEF Init
<1>5. calls \in [Slots -> Call \cup {None}] /\ TransitionsCarryOffers
  BY <1>4, NewCallFacts DEF TransitionsCarryOffers
<1>6. /\ table \in [Ids -> Row \cup {None, Gone}]
      /\ \A i \in Ids : table[i] \in Row => table[i].status \in ToSet(Statuses[path])
  <2>1. \A st \in ToSet(Statuses[path]) : [status |-> st, version |-> 1] \in Row
    BY <1>3, ListedStatuses DEF Row
  <2>2. None \notin Row
    BY ConstantsAssumption DEF ConstantsAssumption
  <2>3. \A i \in Ids : \/ table[i] = None
                       \/ \E st \in ToSet(Statuses[path]) :
                             table[i] = [status |-> st, version |-> 1]
    BY <1>1 DEF Init
  <2>4. table = [i \in Ids |-> table[i]]
    BY <1>1 DEF Init
  <2>5. QED
    BY <2>1, <2>2, <2>3, <2>4
<1>7. EmptyList \in [Ids -> Row \cup {None}]
  BY DEF EmptyList
<1>8. QED
  BY <1>1, <1>2, <1>5, <1>6, <1>7 DEF Init, TypeOK, TransitionsCarryOffers

\* Any step.
LEMMA NextTypeOK == TypeOK /\ [Next]_vars => TypeOK'
<1>1. SUFFICES ASSUME TypeOK, Next \/ UNCHANGED vars PROVE TypeOK'
  OBVIOUS
<1>2. CASE UNCHANGED vars
  BY <1>1, <1>2 DEF vars, page, TypeOK
<1>3. QED
  BY <1>1, <1>2, BeginTypeOK, DialogTypeOK, BackendTypeOK, OthersTypeOK,
     AnswerTypeOK DEF Next

\* TypeOK holds in every state, whatever the answers, errors and other clients.
THEOREM TypeCorrect == Spec => []TypeOK
BY InitTypeOK, NextTypeOK, PTL DEF Spec

-----------------------------------------------------------------------------
(* What the tab has seen of a row                                          *)

\* The row was once stored like this: it is not newer than the stored one, and
\* is the stored one while their versions agree.
Seen(i, version, status) ==
    /\ table[i] # None
    /\ Live(i) => /\ version <= table[i].version
                  /\ version = table[i].version => status = table[i].status

SeenList(list) ==
    \A i \in Ids : list[i] # None => Seen(i, list[i].version, list[i].status)

\* A dialog shows a row that was once stored, and the step its button offered.
SeenOffer(offer) ==
    /\ Seen(offer.item, offer.version, offer.from)
    /\ Offers(offer.from)
    /\ offer.to = NextStatus(offer.from)

ListsSeen ==
    /\ SeenList(items)
    /\ \A s \in InFlight : SeenList(calls[s].data)

OffersSeen ==
    /\ pending # None => SeenOffer(pending)
    /\ \A s \in InFlight :
          calls[s].kind = "transition" /\ calls[s].stage = "post"
             => SeenOffer(calls[s].sent)

\* A row is past the versions this tab's transitions replaced.
AppliedPast ==
    \A a \in applied :
        /\ table[a.sent.item] # None
        /\ Live(a.sent.item) => a.sent.version < table[a.sent.item].version

\* How a row may change in one step.
Grows(i) ==
    \/ table'[i] = table[i]
    \/ table[i] = None /\ table'[i] \in Row
    \/ Live(i) /\ table'[i] = Gone
    \/ /\ Live(i) /\ table'[i] \in Row
       /\ table'[i].version = table[i].version + 1

\* Every step of the table, this tab's or another client's, is of that kind.
LEMMA TableGrows ==
    ASSUME TypeOK, [Next]_vars
    PROVE  \A i \in Ids : Grows(i)
<1> USE DEF page, Grows
<1>1. ASSUME NEW i \in Ids, NEW status \in ToSet(Statuses[path]), Live(i),
             table' = [table EXCEPT ![i] =
                         [status |-> status, version |-> table[i].version + 1]]
      PROVE  \A j \in Ids : Grows(j)
  <2>1. [status |-> status, version |-> table[i].version + 1] \in Row
    BY <1>1, LiveIsRow, PageKnown, ListedStatuses DEF Row
  <2>2. QED
    BY <1>1, <2>1 DEF TypeOK
<1>2. ASSUME NEW s \in Slots, Transitioned(s)
      PROVE  \A j \in Ids : Grows(j)
  <2> DEFINE sent == calls[s].sent
  <2>1. /\ calls[s] # None /\ calls[s].stage = "post" /\ calls[s].kind = "transition"
        /\ Accepts(sent.item, sent.version, sent.to)
        /\ table' = [table EXCEPT ![sent.item] =
                       [status |-> sent.to, version |-> table[sent.item].version + 1]]
    BY <1>2 DEF Transitioned
  <2>2. sent \in Offer
    BY <2>1, CallFacts DEF TypeOK, Call
  <2>3. /\ sent.item \in Ids /\ Live(sent.item)
        /\ sent.to \in ToSet(Statuses[path])
    BY <2>1, <2>2, PageKnown, GraphsStayListed DEF Accepts, CanTransition, Offer
  <2>4. QED
    BY <1>1, <2>1, <2>3
<1>3. ASSUME NEW s \in Slots, Created(s)
      PROVE  \A j \in Ids : Grows(j)
  <2>1. PICK i \in Ids :
           /\ table[i] = None
           /\ table' = [table EXCEPT ![i] = [status |-> FirstStatus, version |-> 1]]
    BY <1>3 DEF Created
  <2>2. [status |-> FirstStatus, version |-> 1] \in Row
    BY PageKnown, ListedStatuses DEF FirstStatus, Row
  <2>3. QED
    BY <2>1, <2>2 DEF TypeOK
<1>4. CASE OtherTransitions
  BY <1>1, <1>4 DEF OtherTransitions
<1>5. CASE OtherUpdates
  <2>1. PICK i \in Ids :
           /\ Live(i)
           /\ table' = [table EXCEPT ![i].version = table[i].version + 1]
    BY <1>5 DEF OtherUpdates
  <2>2. [table[i] EXCEPT !.version = table[i].version + 1]
           = [status |-> table[i].status, version |-> table[i].version + 1]
    BY <2>1, LiveIsRow DEF Row
  <2>3. table' = [table EXCEPT ![i] =
                     [status |-> table[i].status, version |-> table[i].version + 1]]
    BY <2>1, <2>2
  <2>4. QED
    BY <1>1, <2>1, <2>3, LiveIsRow
<1>6. CASE OtherDeletes
  BY <1>6 DEF OtherDeletes, TypeOK
<1>7. CASE UNCHANGED table
  BY <1>7
<1>8. QED
  BY <1>2, <1>3, <1>4, <1>5, <1>6, <1>7
  DEF Next, vars, Query, Visit, CreateDemo, ConfirmTransition, NotStored, Listed,
      NotListed, Reloads, Refused, Ends, OpenCreate, CloseCreate,
      CloseTransition, OpenTransition

\* What was seen stays seen.
LEMMA SeenStays ==
    ASSUME TypeOK, TypeOK', NEW i \in Ids, Grows(i),
           NEW version \in Nat, NEW status, Seen(i, version, status)
    PROVE  Seen(i, version, status)'
<1>1. table[i] # None
  BY DEF Seen
<1>2. CASE table'[i] = table[i]
  BY <1>2 DEF Seen, Live
<1>3. CASE table'[i] = Gone
  BY <1>3, ConstantsAssumption DEF ConstantsAssumption, Seen, Live
<1>4. CASE /\ Live(i) /\ table'[i] \in Row
           /\ table'[i].version = table[i].version + 1
  <2>1. version <= table[i].version /\ table[i].version \in Nat
    BY <1>4, LiveIsRow DEF Seen, Row
  <2>2. table'[i] # None
    BY <1>4, ConstantsAssumption DEF ConstantsAssumption
  <2>3. version < table'[i].version
    BY <1>4, <2>1
  <2>4. QED
    BY <2>2, <2>3, <2>1, <1>4 DEF Seen
<1>5. QED
  BY <1>1, <1>2, <1>3, <1>4 DEF Grows

\* So do the rows of a list.
LEMMA SeenListStays ==
    ASSUME TypeOK, TypeOK', \A i \in Ids : Grows(i),
           NEW list \in [Ids -> Row \cup {None}], SeenList(list)
    PROVE  /\ \A i \in Ids : list[i] # None => Seen(i, list[i].version, list[i].status)'
<1>1. ASSUME NEW i \in Ids, list[i] # None
      PROVE  Seen(i, list[i].version, list[i].status)'
  <2>1. list[i].version \in Nat /\ Seen(i, list[i].version, list[i].status)
    BY <1>1 DEF SeenList, Row
  <2>2. QED
    BY <2>1, SeenStays
<1>2. QED
  BY <1>1

-----------------------------------------------------------------------------
(* The invariant and its steps                                             *)

StoreInv ==
    /\ TypeOK
    /\ ListsSeen
    /\ OffersSeen
    /\ AppliedPast
    /\ IntentHonored
    /\ AppliedOnce
    /\ SpinnerSettles

\* The call in a slot goes on, with what it carries ...
GoesOn(x) ==
    /\ calls[x] # None
    /\ calls'[x].data = calls[x].data /\ calls'[x].kind = calls[x].kind
    /\ calls'[x].stage = "post" =>
          calls[x].stage = "post" /\ calls'[x].sent = calls[x].sent

\* ... or began in this step, a transition with the dialog that is open.
Began(x) ==
    /\ calls[x] = None
    /\ calls'[x].data = EmptyList
    /\ calls'[x].kind = "transition" =>
          pending # None /\ Offers(pending.from) /\ calls'[x].sent = pending

\* Whatever is in flight after a step went on or began in it, or was listed.
LEMMA CallsStep ==
    ASSUME TypeOK, [Next]_vars, NEW x \in Slots, calls'[x] # None
    PROVE  GoesOn(x) \/ Began(x) \/ Listed(x)
<1> USE DEF page
<1>1. ASSUME NEW s \in Slots, NEW kind \in {"load", "create", "transition"},
             NEW stage \in {"post", "get"}, NEW sent \in Offer \cup {None},
             calls[s] = None,
             kind = "transition" => pending # None /\ Offers(pending.from) /\ sent = pending,
             calls' = [calls EXCEPT ![s] = NewCall(kind, stage, sent)]
      PROVE  GoesOn(x) \/ Began(x)
  <2>1. CASE x = s
    BY <1>1, <2>1, NewCallFacts DEF Began, TypeOK
  <2>2. CASE x # s
    BY <1>1, <2>2 DEF GoesOn, TypeOK
  <2>3. QED
    BY <2>1, <2>2
<1>2. ASSUME NEW s \in Slots, calls[s] # None,
             NEW stage \in {"accepted", "refused", "get", "list", "nolist"},
             calls' = Advanced(s, stage)
      PROVE  GoesOn(x)
  <2>1. CASE x = s
    BY <1>2, <2>1, AdvancedFacts DEF GoesOn
  <2>2. CASE x # s
    BY <1>2, <2>2, AdvancedFacts DEF GoesOn
  <2>3. QED
    BY <2>1, <2>2
<1>3. ASSUME NEW s \in Slots, Query(s) PROVE GoesOn(x) \/ Began(x)
  BY <1>1, <1>3 DEF Query, Begin
<1>4. ASSUME NEW s \in Slots, Visit(s) PROVE GoesOn(x) \/ Began(x)
  <2>1. CASE x = s
    BY <1>4, <2>1, NewCallFacts DEF Visit, Began
  <2>2. CASE x # s /\ x \in InFlight /\ calls[x].kind # "load"
    <3>1. calls'[x] = [calls[x] EXCEPT !.mine = FALSE]
      BY <1>4, <2>2 DEF Visit
    <3>2. calls[x] \in Call
      BY <2>2, CallFacts DEF InFlight
    <3>3. QED
      BY <2>2, <3>1, <3>2 DEF GoesOn, InFlight, Call
  <2>3. CASE x # s /\ ~(x \in InFlight /\ calls[x].kind # "load")
    <3>1. calls'[x] = calls[x]
      BY <1>4, <2>3 DEF Visit
    <3>2. QED
      BY <3>1 DEF GoesOn
  <2>4. QED
    BY <2>1, <2>2, <2>3
<1>5. ASSUME NEW s \in Slots, CreateDemo(s) PROVE GoesOn(x) \/ Began(x)
  BY <1>1, <1>5 DEF CreateDemo, Begin
<1>6. ASSUME NEW s \in Slots, ConfirmTransition(s) PROVE GoesOn(x) \/ Began(x)
  <2>1. pending \in Offer
    BY <1>6 DEF ConfirmTransition, TypeOK
  <2>2. QED
    BY <1>1, <1>6, <2>1 DEF ConfirmTransition, Begin, Sent
<1>7. ASSUME NEW s \in Slots,
             Transitioned(s) \/ Created(s) \/ NotStored(s) \/ NotListed(s)
      PROVE  GoesOn(x)
  BY <1>2, <1>7 DEF Transitioned, Created, NotStored, NotListed
<1>8. ASSUME NEW s \in Slots, Listed(s) PROVE GoesOn(x) \/ Listed(x)
  BY <1>8 DEF Listed, GoesOn, TypeOK
<1>9. ASSUME NEW s \in Slots, Reloads(s) PROVE GoesOn(x)
  <2>1. CASE x = s
    <3>1. calls[s] \in Call
      BY <1>9, CallFacts DEF Reloads
    <3>2. calls'[s] = [calls[s] EXCEPT !.stage = "get", !.sent = None]
      BY <1>9 DEF Reloads, TypeOK
    <3>3. /\ calls'[s].stage = "get"
          /\ calls'[s].data = calls[s].data /\ calls'[s].kind = calls[s].kind
      BY <3>1, <3>2 DEF Call
    <3>4. QED
      BY <1>9, <2>1, <3>3 DEF GoesOn, Reloads
  <2>2. CASE x # s
    BY <1>9, <2>2 DEF GoesOn, Reloads, TypeOK
  <2>3. QED
    BY <2>1, <2>2
<1>10. ASSUME NEW s \in Slots, Refused(s) \/ Ends(s) PROVE GoesOn(x)
  BY <1>10 DEF Refused, Ends, GoesOn, TypeOK
<1>11. CASE UNCHANGED calls
  BY <1>11 DEF GoesOn
<1>12. QED
  BY <1>3, <1>4, <1>5, <1>6, <1>7, <1>8, <1>9, <1>10, <1>11
  DEF Next, vars, OpenCreate, CloseCreate, CloseTransition, OpenTransition,
      OtherTransitions, OtherUpdates, OtherDeletes

\* Lists, shown or on their way, hold rows that were once stored.
LEMMA ListsStep ==
    ASSUME StoreInv, TypeOK', [Next]_vars
    PROVE  ListsSeen'
<1> USE DEF page
<1>1. TypeOK /\ ListsSeen /\ \A i \in Ids : Grows(i)
  BY TableGrows DEF StoreInv
<1>2. SeenList(EmptyList)'
  BY DEF SeenList, EmptyList
<1>3. SeenList(items)'
  <2>1. CASE UNCHANGED items
    <3>1. items \in [Ids -> Row \cup {None}] /\ SeenList(items)
      BY <1>1 DEF TypeOK, ListsSeen
    <3>2. QED
      BY <1>1, <2>1, <3>1, SeenListStays DEF SeenList
  <2>2. ASSUME NEW s \in Slots, Ends(s) PROVE SeenList(items)'
    <3>1. s \in InFlight /\ items' \in {items, calls[s].data} /\ UNCHANGED table
      BY <2>2 DEF Ends, InFlight
    <3>2. SeenList(items) /\ SeenList(calls[s].data)
      BY <1>1, <3>1 DEF ListsSeen
    <3>3. QED
      BY <3>1, <3>2 DEF SeenList, Seen, Live
  <2>3. QED
    BY <2>1, <2>2
    DEF Next, vars, Query, Visit, CreateDemo, ConfirmTransition, Transitioned,
        Created, NotStored, Listed, NotListed, Reloads, Refused, OpenCreate,
        CloseCreate, CloseTransition, OpenTransition, OtherTransitions,
        OtherUpdates, OtherDeletes
<1>4. ASSUME NEW x \in Slots, x \in InFlight'
      PROVE  SeenList(calls[x].data)'
  <2>1. calls'[x] # None
    BY <1>4 DEF InFlight
  <2>2. CASE GoesOn(x)
    <3>1. calls[x].data \in [Ids -> Row \cup {None}] /\ SeenList(calls[x].data)
      BY <1>1, <2>2, CallFacts DEF GoesOn, ListsSeen, InFlight, Call
    <3>2. QED
      BY <1>1, <2>2, <3>1, SeenListStays DEF GoesOn, SeenList
  <2>3. CASE Began(x)
    BY <1>2, <2>3 DEF Began
  <2>4. CASE Listed(x)
    <3>1. PICK found \in SUBSET {i \in Ids : Live(i)} :
             calls' = [calls EXCEPT ![x].stage = "list",
                          ![x].data = [i \in Ids |-> IF i \in found THEN table[i] ELSE None]]
      BY <2>4 DEF Listed
    <3>2. calls[x] \in Call
      BY <1>1, <2>4, CallFacts DEF Listed
    <3>3. calls'[x].data = [i \in Ids |-> IF i \in found THEN table[i] ELSE None]
      BY <1>1, <3>1, <3>2 DEF TypeOK, Call
    <3>4. \A i \in found : /\ table[i].version \in Nat /\ table[i] # None
      BY <1>1, LiveIsRow DEF Live, Row
    <3>5. UNCHANGED table
      BY <2>4 DEF Listed
    <3>6. QED
      BY <3>3, <3>4, <3>5 DEF SeenList, Seen, Live
  <2>5. QED
    BY <1>1, <2>1, <2>2, <2>3, <2>4, CallsStep
<1>5. \A x \in InFlight' : x \in Slots
  BY DEF InFlight
<1>6. QED
  BY <1>3, <1>4, <1>5 DEF ListsSeen

\* The dialog, and the transitions sent, show rows that were once stored.
LEMMA OffersStep ==
    ASSUME StoreInv, TypeOK', [Next]_vars
    PROVE  OffersSeen'
<1> USE DEF page
<1>1. TypeOK /\ ListsSeen /\ OffersSeen /\ \A i \in Ids : Grows(i)
  BY TableGrows DEF StoreInv
<1>2. path' = path /\ role' = role
  <2>1. ASSUME NEW s \in Slots,
               \/ Query(s) \/ Visit(s) \/ CreateDemo(s) \/ ConfirmTransition(s)
               \/ Transitioned(s) \/ Created(s) \/ NotStored(s) \/ Listed(s)
               \/ NotListed(s) \/ Reloads(s) \/ Refused(s) \/ Ends(s)
        PROVE  path' = path /\ role' = role
    BY <2>1 DEF Query, Visit, CreateDemo, ConfirmTransition, Transitioned, Created,
        NotStored, Listed, NotListed, Reloads, Refused, Ends
  <2>2. ASSUME NEW i \in Ids, OpenTransition(i)
        PROVE  path' = path /\ role' = role
    BY <2>2 DEF OpenTransition
  <2>3. CASE OpenCreate \/ CloseCreate \/ CloseTransition
    BY <2>3 DEF OpenCreate, CloseCreate, CloseTransition
  <2>4. CASE OtherTransitions \/ OtherUpdates \/ OtherDeletes
    BY <2>4 DEF OtherTransitions, OtherUpdates, OtherDeletes
  <2>5. QED
    BY <2>1, <2>2, <2>3, <2>4 DEF Next, vars
<1>3. ASSUME NEW offer \in Offer, SeenOffer(offer)
      PROVE  /\ Seen(offer.item, offer.version, offer.from)'
             /\ Offers(offer.from)'
             /\ offer.to = NextStatus(offer.from)'
  <2>1. Seen(offer.item, offer.version, offer.from)'
    <3>1. offer.item \in Ids /\ offer.version \in Nat
      BY DEF Offer
    <3>2. QED
      BY <1>1, <1>3, <3>1, SeenStays DEF SeenOffer
  <2>2. NextStatus(offer.from)' = NextStatus(offer.from)
    BY <1>2 DEF NextStatus
  <2>3. Offers(offer.from)' <=> Offers(offer.from)
    BY <1>2, <2>2 DEF Offers, CanWrite, CanReview
  <2>4. QED
    BY <1>3, <2>1, <2>2, <2>3 DEF SeenOffer
<1>4. (pending # None => SeenOffer(pending))'
  <2>1. CASE pending' = pending
    <3>1. pending # None => pending \in Offer /\ SeenOffer(pending)
      BY <1>1 DEF TypeOK, OffersSeen
    <3>2. QED
      BY <1>3, <2>1, <3>1 DEF SeenOffer
  <2>2. CASE pending' = None
    BY <2>2
  <2>3. ASSUME NEW i \in Ids, OpenTransition(i) PROVE SeenOffer(pending)'
    <3>1. SeenOffer([item |-> i, version |-> items[i].version,
                     from |-> items[i].status, to |-> NextStatus(items[i].status)])
      BY <1>1, <2>3 DEF OpenTransition, ListsSeen, SeenList, SeenOffer
    <3>2. pending' = [item |-> i, version |-> items[i].version,
                      from |-> items[i].status, to |-> NextStatus(items[i].status)]
      BY <2>3 DEF OpenTransition
    <3>3. pending' \in Offer
      <4>1. items[i] \in Row
        BY <1>1, <2>3 DEF OpenTransition, TypeOK
      <4>2. NextStatus(items[i].status) \in AllStatuses
        BY <1>1, <2>3, NextIsEdge, PageKnown, ListedStatuses DEF OpenTransition, Offers
      <4>3. QED
        BY <3>2, <4>1, <4>2 DEF Offer, Row
    <3>4. QED
      BY <1>3, <3>1, <3>2, <3>3 DEF SeenOffer
  <2>4. QED
    BY <2>1, <2>2, <2>3
    DEF Next, vars, Query, Visit, CreateDemo, ConfirmTransition, Transitioned,
        Created, NotStored, Listed, NotListed, Reloads, Refused, Ends, OpenCreate,
        CloseCreate, CloseTransition, OtherTransitions, OtherUpdates, OtherDeletes
<1>5. ASSUME NEW x \in Slots, calls'[x] # None, calls'[x].kind = "transition",
             calls'[x].stage = "post"
      PROVE  SeenOffer(calls[x].sent)'
  <2>1. CASE GoesOn(x)
    <3>1. /\ calls[x] # None /\ calls[x].kind = "transition" /\ calls[x].stage = "post"
          /\ calls'[x].sent = calls[x].sent
      BY <1>5, <2>1 DEF GoesOn
    <3>2. calls[x].sent \in Offer /\ SeenOffer(calls[x].sent)
      BY <1>1, <3>1, CallFacts DEF OffersSeen, InFlight, TypeOK, Call
    <3>3. QED
      BY <1>3, <3>1, <3>2 DEF SeenOffer
  <2>2. CASE Began(x)
    <3>1. calls'[x].sent = pending /\ pending \in Offer /\ SeenOffer(pending)
      BY <1>1, <1>5, <2>2 DEF Began, OffersSeen, TypeOK
    <3>2. QED
      BY <1>3, <3>1 DEF SeenOffer
  <2>3. CASE Listed(x)
    <3>1. calls'[x].stage = "list"
      <4>1. calls[x] \in Call
        BY <1>1, <2>3, CallFacts DEF Listed
      <4>2. QED
        BY <1>1, <2>3, <4>1 DEF Listed, TypeOK, Call
    <3>2. QED
      BY <1>5, <3>1
  <2>4. QED
    BY <1>1, <1>5, <2>1, <2>2, <2>3, CallsStep
<1>6. QED
  BY <1>4, <1>5 DEF OffersSeen, InFlight

\* The transitions made: from the status shown, each dialog once.
LEMMA AppliedStep ==
    ASSUME StoreInv, TypeOK', [Next]_vars
    PROVE  (AppliedPast /\ IntentHonored /\ AppliedOnce)'
<1> USE DEF page
<1>1. /\ TypeOK /\ OffersSeen /\ AppliedPast /\ IntentHonored /\ AppliedOnce
      /\ \A i \in Ids : Grows(i)
  BY TableGrows DEF StoreInv
<1>2. ASSUME NEW a \in applied
      PROVE  /\ table'[a.sent.item] # None
             /\ Live(a.sent.item)' => a.sent.version < table'[a.sent.item].version
  <2> DEFINE i == a.sent.item
  <2>1. i \in Ids /\ a.sent.version \in Nat
    BY <1>1 DEF TypeOK, Offer
  <2>2. table[i] # None /\ (Live(i) => a.sent.version < table[i].version)
    BY <1>1 DEF AppliedPast
  <2>3. Grows(i)
    BY <1>1, <2>1
  <2> HIDE DEF i
  <2>4. CASE table'[i] = table[i]
    BY <2>2, <2>4 DEF Live, i
  <2>5. CASE table'[i] = Gone
    BY <2>5, ConstantsAssumption DEF ConstantsAssumption, Live, i
  <2>6. CASE Live(i) /\ table'[i] \in Row /\ table'[i].version = table[i].version + 1
    <3>1. table[i].version \in Nat /\ table'[i] # None
      BY <1>1, <2>1, <2>6, LiveIsRow, ConstantsAssumption DEF ConstantsAssumption, Row
    <3>2. a.sent.version < table'[i].version
      BY <2>1, <2>2, <2>6, <3>1
    <3>3. QED
      BY <3>1, <3>2 DEF i
  <2>7. QED
    BY <2>2, <2>3, <2>4, <2>5, <2>6 DEF Grows
<1>3. CASE UNCHANGED applied
  BY <1>1, <1>2, <1>3 DEF AppliedPast, IntentHonored, AppliedOnce
<1>4. ASSUME NEW s \in Slots, Transitioned(s)
      PROVE  (AppliedPast /\ IntentHonored /\ AppliedOnce)'
  <2> DEFINE sent == calls[s].sent
             row  == table[sent.item]
             made == [sent |-> sent, found |-> row.status, version |-> row.version + 1]
  <2>1. /\ calls[s] # None /\ calls[s].stage = "post" /\ calls[s].kind = "transition"
        /\ Accepts(sent.item, sent.version, sent.to)
        /\ table' = [table EXCEPT ![sent.item] =
                       [status |-> sent.to, version |-> row.version + 1]]
        /\ applied' = applied \cup {made}
    BY <1>4 DEF Transitioned
  <2>2. sent \in Offer /\ SeenOffer(sent)
    BY <1>1, <2>1, CallFacts DEF TypeOK, Call, OffersSeen, InFlight
  <2>3. /\ sent.item \in Ids /\ sent.version \in Nat
        /\ Live(sent.item) /\ row.version = sent.version
    BY <2>1, <2>2 DEF Accepts, Offer
  <2>4. row.status = sent.from
    BY <2>2, <2>3 DEF SeenOffer, Seen
  <2>5. table'[sent.item].version = sent.version + 1 /\ table'[sent.item] # None
    <3>1. [status |-> sent.to, version |-> row.version + 1] # None
      <4>1. sent.to \in AllStatuses /\ row.version + 1 \in Nat \ {0}
        BY <2>2, <2>3 DEF Offer
      <4>2. QED
        BY <4>1, ConstantsAssumption DEF ConstantsAssumption, Row
    <3>2. QED
      BY <1>1, <2>1, <2>3, <3>1 DEF TypeOK
  <2>6. \A a \in applied :
           ~(a.sent.item = sent.item /\ a.sent.version = sent.version)
    <3>1. \A a \in applied : a.sent.item = sent.item => a.sent.version < row.version
      BY <1>1, <2>3 DEF AppliedPast
    <3>2. \A a \in applied : a.sent.version \in Nat
      BY <1>1 DEF TypeOK, Offer
    <3>3. QED
      BY <2>3, <3>1, <3>2
  <2>7. made.sent = sent /\ made.found = row.status
    OBVIOUS
  <2> HIDE DEF made
  <2>8. AppliedPast'
    BY <1>2, <2>1, <2>3, <2>5, <2>7 DEF AppliedPast
  <2>9. IntentHonored'
    BY <1>1, <2>1, <2>4, <2>7 DEF IntentHonored
  <2>10. AppliedOnce'
    BY <1>1, <2>1, <2>6, <2>7 DEF AppliedOnce
  <2>11. QED
    BY <2>8, <2>9, <2>10
<1>5. QED
  BY <1>3, <1>4
  DEF Next, vars, Query, Visit, CreateDemo, ConfirmTransition, Created, NotStored,
      Listed, NotListed, Reloads, Refused, Ends, OpenCreate, CloseCreate,
      CloseTransition, OpenTransition, OtherTransitions, OtherUpdates, OtherDeletes

\* The spinner stops with the last call.
LEMMA SpinnerStep ==
    ASSUME StoreInv, TypeOK', [Next]_vars
    PROVE  SpinnerSettles'
<1> USE DEF page
<1>1. TypeOK /\ SpinnerSettles
  BY DEF StoreInv
<1>2. ASSUME NEW s \in Slots, Refused(s) \/ Ends(s) PROVE SpinnerSettles'
  BY <1>2 DEF Refused, LoadingAfterError, Ends, SpinnerSettles
<1>3. ASSUME NEW s \in Slots, NEW call, call # None,
             calls' = [calls EXCEPT ![s] = call]
      PROVE  SpinnerSettles'
  <2>1. calls'[s] # None
    BY <1>1, <1>3 DEF TypeOK
  <2>2. QED
    BY <2>1 DEF SpinnerSettles, InFlight
<1>4. ASSUME NEW s \in Slots,
             Query(s) \/ CreateDemo(s) \/ ConfirmTransition(s)
      PROVE  SpinnerSettles'
  <2>1. pending # None => pending \in Offer
    BY <1>1 DEF TypeOK
  <2>2. QED
    BY <1>3, <1>4, <2>1, NewCallFacts DEF Query, CreateDemo, ConfirmTransition, Begin, Sent
<1>5. ASSUME NEW s \in Slots, Visit(s) PROVE SpinnerSettles'
  <2>1. calls'[s] # None
    BY <1>5, NewCallFacts DEF Visit
  <2>2. QED
    BY <2>1 DEF SpinnerSettles, InFlight
<1>6. ASSUME NEW s \in Slots, calls[s] # None, calls'[s] # None
      PROVE  SpinnerSettles'
  BY <1>6 DEF SpinnerSettles, InFlight
<1>7. ASSUME NEW s \in Slots,
             \/ Transitioned(s) \/ Created(s) \/ NotStored(s) \/ NotListed(s)
      PROVE  SpinnerSettles'
  <2>1. calls[s] # None
    BY <1>7 DEF Transitioned, Created, NotStored, NotListed
  <2>2. \E stage \in {"accepted", "refused", "nolist"} : calls' = Advanced(s, stage)
    BY <1>7 DEF Transitioned, Created, NotStored, NotListed
  <2>3. calls'[s] # None
    BY <1>1, <2>1, <2>2, AdvancedFacts
  <2>4. QED
    BY <1>6, <2>1, <2>3
<1>8. ASSUME NEW s \in Slots, Listed(s) \/ Reloads(s) PROVE SpinnerSettles'
  <2>1. calls[s] \in Call
    BY <1>1, <1>8, CallFacts DEF Listed, Reloads
  <2>2. calls'[s].stage \in {"get", "list"} /\ calls[s] # None
    BY <1>1, <1>8, <2>1 DEF Listed, Reloads, TypeOK, Call
  <2>3. calls'[s] \in Call
    <3>1. CASE Listed(s)
      <4>1. PICK found \in SUBSET {i \in Ids : Live(i)} :
               calls' = [calls EXCEPT ![s].stage = "list",
                  ![s].data = [i \in Ids |-> IF i \in found THEN table[i] ELSE None]]
        BY <3>1 DEF Listed
      <4>2. [i \in Ids |-> IF i \in found THEN table[i] ELSE None] \in [Ids -> Row \cup {None}]
        BY <1>1, LiveIsRow
      <4>3. QED
        BY <1>1, <2>1, <4>1, <4>2 DEF TypeOK, Call
    <3>2. CASE Reloads(s)
      BY <1>1, <2>1, <3>2 DEF Reloads, TypeOK, Call
    <3>3. QED
      BY <1>8, <3>1, <3>2
  <2>4. QED
    BY <1>6, <2>2, <2>3, ConstantsAssumption DEF ConstantsAssumption
<1>9. CASE UNCHANGED <<calls, loading>>
  BY <1>1, <1>9 DEF SpinnerSettles, InFlight
<1>10. QED
  BY <1>2, <1>4, <1>5, <1>7, <1>8, <1>9
  DEF Next, vars, OpenCreate, CloseCreate, CloseTransition, OpenTransition,
      OtherTransitions, OtherUpdates, OtherDeletes

\* Initially nothing was seen, and the page is loading.
LEMMA InitStoreInv == Init => StoreInv
<1>1. SUFFICES ASSUME Init PROVE StoreInv
  OBVIOUS
<1>2. PICK s \in Slots :
         calls = [x \in Slots |-> IF x = s THEN NewCall("load", "get", None) ELSE None]
  BY <1>1 DEF Init
<1>3. s \in InFlight /\ \A x \in InFlight :
         calls[x].data = EmptyList /\ calls[x].kind = "load"
  BY <1>2, NewCallFacts DEF InFlight
<1>4. ListsSeen
  BY <1>1, <1>3 DEF Init, ListsSeen, SeenList, EmptyList
<1>5. OffersSeen
  BY <1>1, <1>3 DEF Init, OffersSeen
<1>6. AppliedPast /\ IntentHonored /\ AppliedOnce /\ SpinnerSettles
  BY <1>1, <1>3 DEF Init, AppliedPast, IntentHonored, AppliedOnce, SpinnerSettles
<1>7. QED
  BY <1>1, <1>4, <1>5, <1>6, InitTypeOK DEF StoreInv

\* What ties lists, dialogs and sent transitions to the rows they were read from.
THEOREM StoreInvariant == Spec => []StoreInv
<1>1. StoreInv /\ [Next]_vars => StoreInv'
  BY NextTypeOK, ListsStep, OffersStep, AppliedStep, SpinnerStep DEF StoreInv
<1>2. QED
  BY <1>1, InitStoreInv, PTL DEF Spec

-----------------------------------------------------------------------------
(* What follows                                                            *)

\* A transition is made from the status its dialog showed, whoever else changed
\* the row and whichever lists arrived in between.
THEOREM IntentIsHonored == Spec => []IntentHonored
BY StoreInvariant, PTL DEF StoreInv

\* No dialog moves its item twice.
THEOREM AppliedAtMostOnce == Spec => []AppliedOnce
BY StoreInvariant, PTL DEF StoreInv

\* The spinner never outlives the calls.
THEOREM SpinnerStops == Spec => []SpinnerSettles
BY StoreInvariant, PTL DEF StoreInv

\* On all four pages and in every role, the backend's rules refuse a confirmation
\* only because the row has changed.
THEOREM ButtonsMatchRules == Spec => []OffersAccepted
<1>1. StoreInv => OffersAccepted
  <2>1. SUFFICES ASSUME StoreInv, NEW s \in InFlight,
                        calls[s].stage = "post", calls[s].kind = "transition",
                        Live(calls[s].sent.item),
                        table[calls[s].sent.item].version = calls[s].sent.version
                 PROVE  Accepts(calls[s].sent.item, calls[s].sent.version, calls[s].sent.to)
    BY DEF OffersAccepted
  <2> DEFINE sent == calls[s].sent
  <2>2. TypeOK /\ SeenOffer(sent)
    BY <2>1 DEF StoreInv, OffersSeen
  <2>3. table[sent.item].status = sent.from
    BY <2>1, <2>2 DEF SeenOffer, Seen
  <2>4. CanTransition(Graph[path], sent.from, sent.to)
    BY <2>2, NextIsEdge DEF SeenOffer, Offers
  <2>5. QED
    BY <2>1, <2>2, <2>3, <2>4 DEF Accepts, SeenOffer, Offers
<1>2. QED
  BY <1>1, StoreInvariant, PTL
=============================================================================
