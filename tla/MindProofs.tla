------------------------------- MODULE MindProofs -------------------------------
(***************************************************************************)
(* Proofs about what MCMind checks side by side, for every value of the    *)
(* constants.  What a chat turn leaves behind: the relationship, whatever  *)
(* the caps and the appraisals, the traces, the memories and the beliefs.  *)
(* The inner loop: its mode, the world it watches, what it feels at rest.  *)
(* The schema its processes find is in DatabaseProofs.  Each component has *)
(* an invariant of its own; the last section puts them together.           *)
(***************************************************************************)
EXTENDS MCMind, DatabaseProofs, FiniteSetTheorems, SequenceTheorems,
        WellFoundedInduction, TLAPS

-----------------------------------------------------------------------------
(***************************************************************************)
(* RelationshipTurn: what a turn changes of the relationship.              *)
(***************************************************************************)
\* The preview of a turn, and what it keeps of the relationship it began with.
Drafts ==
    [kind : EventKinds, major : BOOLEAN, origin : Values, value : Values, lists : [Lists -> SUBSET Named],
     settles : SUBSET Named]

DraftIsOfBond ==
    draft # NoDraft =>
        /\ moves < MaxMoves
        /\ draft.origin = bond.value
        /\ draft.kind \notin {"ignored", "conflict"} => bond.value["trust"] <= draft.value["trust"]
        /\ bond.lists["unresolved"] \ draft.settles \subseteq draft.lists["unresolved"]

TurnInv ==
    /\ bond \in [value : Values, lists : [Lists -> SUBSET Named]]
    /\ draft \in Drafts \cup {NoDraft}
    /\ last \in [cap : 0 .. MajorCap, named : SUBSET Named]
    /\ moves \in 0 .. MaxMoves
    /\ DraftIsOfBond

\* An effect as a whole: a percentage for every dimension.
Effects == [Dimensions -> Int]

\* A draft is told from none by its kind.
LEMMA DraftHasKind == \A d \in Drafts : d # NoDraft /\ d.kind \in EventKinds
  BY DEF Drafts, NoDraft, EventKinds

LEMMA CapType == \A major \in BOOLEAN : Cap(major) \in 0 .. MajorCap /\ Cap(major) \in Nat
  BY RelationshipAssumption DEF Cap

\* The cap holds against the value the turn began with, and the value stays
\* between 0 and 1.
LEMMA CappedIsClose ==
    ASSUME NEW current \in 0 .. Full, NEW delta \in Int, NEW origin \in 0 .. Full, NEW cap \in Nat
    PROVE  /\ Capped(current, delta, origin, cap) \in 0 .. Full
           /\ Distance(origin, Capped(current, delta, origin, cap)) <= cap
  BY RelationshipAssumption DEF Capped, Bounded, Distance

\* What only adds to a value that has not fallen does not let it fall.
LEMMA CappedGrows ==
    ASSUME NEW current \in 0 .. Full, NEW delta \in Nat, NEW origin \in 0 .. Full, NEW cap \in Nat,
           origin <= current
    PROVE  origin <= Capped(current, delta, origin, cap)
  BY RelationshipAssumption DEF Capped, Bounded

LEMMA ShareOfCap ==
    ASSUME NEW e \in Int, NEW cap \in Nat
    PROVE  /\ (e * cap) \div 100 \in Int
           /\ e >= 0 => (e * cap) \div 100 \in Nat
  <1>1. e * cap \in Int
    OBVIOUS
  <1>2. e >= 0 => e * cap >= 0
    OBVIOUS
  <1>3. \A x \in Int : x \div 100 \in Int /\ (x >= 0 => x \div 100 >= 0)
    OBVIOUS
  <1> QED BY <1>1, <1>2, <1>3

LEMMA MovedIsCapped ==
    ASSUME NEW value \in Values, NEW effect \in Effects, NEW origin \in Values, NEW cap \in Nat
    PROVE  /\ Moved(value, effect, origin, cap) \in Values
           /\ \A d \in Dimensions : Distance(origin[d], Moved(value, effect, origin, cap)[d]) <= cap
           /\ effect["trust"] >= 0 /\ origin["trust"] <= value["trust"]
                 => origin["trust"] <= Moved(value, effect, origin, cap)["trust"]
  <1>1. ASSUME NEW d \in Dimensions
        PROVE  /\ value[d] \in 0 .. Full /\ origin[d] \in 0 .. Full
               /\ effect[d] \in Int /\ (effect[d] * cap) \div 100 \in Int
               /\ Moved(value, effect, origin, cap)[d]
                    = Capped(value[d], (effect[d] * cap) \div 100, origin[d], cap)
    <2>1. value[d] \in 0 .. Full /\ origin[d] \in 0 .. Full /\ effect[d] \in Int
      BY DEF Values, Effects
    <2>2. (effect[d] * cap) \div 100 \in Int
      BY <2>1, ShareOfCap
    <2> QED BY <2>1, <2>2 DEF Moved
  <1>2. ASSUME NEW d \in Dimensions
        PROVE  /\ Moved(value, effect, origin, cap)[d] \in 0 .. Full
               /\ Distance(origin[d], Moved(value, effect, origin, cap)[d]) <= cap
    <2> DEFINE delta == (effect[d] * cap) \div 100
    <2>1. /\ value[d] \in 0 .. Full /\ origin[d] \in 0 .. Full /\ delta \in Int
          /\ Moved(value, effect, origin, cap)[d] = Capped(value[d], delta, origin[d], cap)
      BY <1>1
    <2> HIDE DEF delta
    <2>2. /\ Capped(value[d], delta, origin[d], cap) \in 0 .. Full
          /\ Distance(origin[d], Capped(value[d], delta, origin[d], cap)) <= cap
      BY <2>1, CappedIsClose
    <2> QED BY <2>1, <2>2
  <1>3. Moved(value, effect, origin, cap) \in Values
    BY <1>2 DEF Moved, Values
  <1>4. ASSUME effect["trust"] >= 0, origin["trust"] <= value["trust"]
        PROVE  origin["trust"] <= Moved(value, effect, origin, cap)["trust"]
    <2>1. "trust" \in Dimensions
      BY DEF Dimensions
    <2>2. (effect["trust"] * cap) \div 100 \in Nat
      BY <1>1, <1>4, <2>1, ShareOfCap
    <2> QED BY <1>1, <1>4, <2>1, <2>2, CappedGrows
  <1> QED BY <1>2, <1>3, <1>4

LEMMA EffectType ==
    ASSUME NEW a \in Int, NEW b \in Int, NEW c \in Int, NEW d \in Int, NEW e \in Int
    PROVE  Effect(a, b, c, d, e) \in Effects /\ Effect(a, b, c, d, e)["trust"] = a
  BY DEF Effect, Effects, Dimensions

LEMMA PlusType ==
    ASSUME NEW e \in Effects, NEW f \in Effects
    PROVE  Plus(e, f) \in Effects /\ Plus(e, f)["trust"] = e["trust"] + f["trust"]
  BY DEF Plus, Effects, Dimensions

\* An event takes trust away only if something was ignored or fought over.
LEMMA EventEffect ==
    ASSUME NEW kind \in EventKinds, NEW evidence \in Int
    PROVE  /\ OfEvent(kind, evidence) \in Effects
           /\ kind \notin {"ignored", "conflict"} => OfEvent(kind, evidence)["trust"] >= 0
  <1>1. \A x \in Int : (8 * x) \div 100 \in Int /\ (17 * x) \div 100 \in Int
                          /\ (x > 0 => (8 * x) \div 100 >= 0)
    OBVIOUS
  <1>2. CASE kind = "neutral" /\ evidence > 0
    <2>1. OfEvent(kind, evidence) = Effect((8 * evidence) \div 100, (17 * evidence) \div 100, 0, 0, 0)
      BY <1>2 DEF OfEvent
    <2>2. (8 * evidence) \div 100 \in Int /\ (17 * evidence) \div 100 \in Int
      BY <1>1
    <2> DEFINE a == (8 * evidence) \div 100
               b == (17 * evidence) \div 100
    <2>3. a \in Int /\ b \in Int /\ OfEvent(kind, evidence) = Effect(a, b, 0, 0, 0)
      BY <2>1, <2>2
    <2>4. a >= 0
      BY <1>1, <1>2
    <2> HIDE DEF a, b
    <2>5. OfEvent(kind, evidence) \in Effects /\ OfEvent(kind, evidence)["trust"] = a
      BY <2>3 DEF Effect, Effects, Dimensions
    <2> QED BY <2>4, <2>5
  <1>3. CASE kind = "neutral" /\ evidence < 0
    <2>1. OfEvent(kind, evidence)
            = Effect(0, 0, (17 * (-evidence)) \div 100, 0, (8 * (-evidence)) \div 100)
      BY <1>3 DEF OfEvent
    <2>2. -evidence \in Int
      OBVIOUS
    <2>3. (17 * (-evidence)) \div 100 \in Int /\ (8 * (-evidence)) \div 100 \in Int
      BY <1>1, <2>2
    <2> DEFINE a == (17 * (-evidence)) \div 100
               b == (8 * (-evidence)) \div 100
    <2>4. a \in Int /\ b \in Int /\ OfEvent(kind, evidence) = Effect(0, 0, a, 0, b)
      BY <2>1, <2>3
    <2> HIDE DEF a, b
    <2>5. OfEvent(kind, evidence) \in Effects /\ OfEvent(kind, evidence)["trust"] = 0
      BY <2>4 DEF Effect, Effects, Dimensions
    <2> QED BY <2>5
  <1>4. CASE kind = "promise" \/ (kind = "neutral" /\ evidence = 0)
    <2>1. OfEvent(kind, evidence) = Effect(0, 0, 0, 0, 0)
      BY <1>4 DEF OfEvent, Nothing
    <2> QED BY <2>1, EffectType
  <1>5. CASE kind = "user_kept"
    <2>1. OfEvent(kind, evidence) = Effect(67, 0, 0, 33, -33)
      BY <1>5 DEF OfEvent
    <2> QED BY <2>1 DEF Effect, Effects, Dimensions
  <1>6. CASE kind = "agent_kept"
    <2>1. OfEvent(kind, evidence) = Effect(0, 0, 0, 67, 0)
      BY <1>6 DEF OfEvent
    <2> QED BY <2>1, EffectType
  <1>7. CASE kind = "ignored"
    <2>1. OfEvent(kind, evidence) = Effect(-50, -33, 67, 0, 67)
      BY <1>7 DEF OfEvent
    <2> QED BY <1>7, <2>1, EffectType
  <1>8. CASE kind = "conflict"
    <2>1. OfEvent(kind, evidence) = Effect(-33, -17, 67, 0, 67)
      BY <1>8 DEF OfEvent
    <2> QED BY <1>8, <2>1, EffectType
  <1>9. CASE kind = "repair"
    <2>1. OfEvent(kind, evidence) = Effect(17, 17, -67, 0, -67)
      BY <1>9 DEF OfEvent
    <2> QED BY <2>1 DEF Effect, Effects, Dimensions
  <1>10. CASE kind = "progress"
    <2>1. OfEvent(kind, evidence) = Effect(0, 67, 0, 50, 0)
      BY <1>10 DEF OfEvent
    <2> QED BY <2>1 DEF Effect, Effects, Dimensions
  <1>11. CASE kind = "ritual"
    <2>1. OfEvent(kind, evidence) = Effect(0, 50, 0, 17, 0)
      BY <1>11 DEF OfEvent
    <2> QED BY <2>1 DEF Effect, Effects, Dimensions
  <1>12. evidence > 0 \/ evidence < 0 \/ evidence = 0
    OBVIOUS
  <1> QED BY <1>2, <1>3, <1>4, <1>5, <1>6, <1>7, <1>8, <1>9, <1>10, <1>11, <1>12 DEF EventKinds

\* What an action does never takes trust away.
LEMMA IntentEffect ==
    ASSUME NEW intent \in Intents, NEW value, NEW closed
    PROVE  OfIntent(intent, value, closed) \in Effects /\ OfIntent(intent, value, closed)["trust"] >= 0
  <1>1. OfIntent(intent, value, closed) \in
            {Effect(17, 10, -33, 0, -33), Effect(0, 33, 0, 33, 0), Effect(0, 17, 0, 17, 0),
             Effect(0, 10, 0, 10, 0), Effect(0, 0, 0, 10, 0), Effect(0, 0, 0, 0, 0)}
    BY DEF OfIntent, Nothing
  <1>2. /\ Effect(17, 10, -33, 0, -33) \in Effects /\ Effect(17, 10, -33, 0, -33)["trust"] = 17
        /\ Effect(0, 33, 0, 33, 0) \in Effects /\ Effect(0, 33, 0, 33, 0)["trust"] = 0
        /\ Effect(0, 17, 0, 17, 0) \in Effects /\ Effect(0, 17, 0, 17, 0)["trust"] = 0
        /\ Effect(0, 10, 0, 10, 0) \in Effects /\ Effect(0, 10, 0, 10, 0)["trust"] = 0
        /\ Effect(0, 0, 0, 10, 0) \in Effects /\ Effect(0, 0, 0, 10, 0)["trust"] = 0
        /\ Effect(0, 0, 0, 0, 0) \in Effects /\ Effect(0, 0, 0, 0, 0)["trust"] = 0
    BY EffectType
  <1> QED BY <1>1, <1>2

LEMMA DeedEffect ==
    ASSUME NEW fulfilled, NEW resolved
    PROVE  OfDeed(fulfilled, resolved) \in Effects /\ OfDeed(fulfilled, resolved)["trust"] >= 0
  <1>1. /\ Effect(0, 0, 0, 67, 0) \in Effects /\ Effect(0, 0, 0, 67, 0)["trust"] = 0
        /\ Effect(17, 0, -67, 0, -67) \in Effects /\ Effect(17, 0, -67, 0, -67)["trust"] = 17
        /\ Nothing \in Effects /\ Nothing["trust"] = 0
    BY EffectType DEF Nothing
  <1> QED BY <1>1, PlusType DEF OfDeed

LEMMA ListedType ==
    ASSUME NEW lists \in [Lists -> SUBSET Named], NEW kind \in EventKinds, NEW names \in SUBSET Named
    PROVE  /\ Listed(lists, kind, names) \in [Lists -> SUBSET Named]
           /\ lists["unresolved"] \ (IF kind = "repair" THEN names ELSE {})
                 \subseteq Listed(lists, kind, names)["unresolved"]
  BY DEF Listed, EventKinds, Lists

\* The preview keeps the relationship and begins a draft of it.
LEMMA PreviewStep ==
    ASSUME TurnInv, NEW kind \in EventKinds, NEW major \in BOOLEAN, NEW evidence \in Evidence,
           NEW names \in SUBSET Named, Preview(kind, major, evidence, names)
    PROVE  TurnInv' /\ bond' = bond
  <1> DEFINE effect == OfEvent(kind, evidence)
             value == Moved(bond.value, effect, bond.value, Cap(major))
             lists == Listed(bond.lists, kind, names)
             settles == IF kind = "repair" THEN names ELSE {}
  <1>1. evidence \in Int
    BY RelationshipAssumption
  <1>2. effect \in Effects /\ (kind \notin {"ignored", "conflict"} => effect["trust"] >= 0)
    BY <1>1, EventEffect
  <1>3. bond.value \in Values /\ bond.lists \in [Lists -> SUBSET Named] /\ bond.value["trust"] \in 0 .. Full
    BY DEF TurnInv, Values, Dimensions
  <1>4. Cap(major) \in Nat
    BY CapType
  <1> HIDE DEF effect
  <1>5. value \in Values /\ (kind \notin {"ignored", "conflict"} => bond.value["trust"] <= value["trust"])
    <2>1. bond.value["trust"] <= bond.value["trust"]
      BY <1>3
    <2> QED BY <1>2, <1>3, <1>4, <2>1, MovedIsCapped
  <1>6. /\ lists \in [Lists -> SUBSET Named]
        /\ bond.lists["unresolved"] \ settles \subseteq lists["unresolved"] /\ settles \in SUBSET Named
    BY <1>3, ListedType
  <1>7. draft' = [kind |-> kind, major |-> major, origin |-> bond.value, value |-> value, lists |-> lists,
                    settles |-> settles]
    BY DEF Preview, effect
  <1>8. UNCHANGED <<bond, last, moves>> /\ moves < MaxMoves
    BY DEF Preview
  <1> HIDE DEF value, lists, settles
  <1>9. draft' \in Drafts
    BY <1>3, <1>5, <1>6, <1>7 DEF Drafts
  <1>10. DraftIsOfBond'
    BY <1>5, <1>6, <1>7, <1>8 DEF DraftIsOfBond
  <1> QED BY <1>8, <1>9, <1>10 DEF TurnInv

\* The action completes the draft: the new relationship is near the one the turn
\* began with.
LEMMA FinalizeStep ==
    ASSUME TurnInv, NEW intent \in Intents, NEW major \in BOOLEAN, NEW fulfilled \in SUBSET Named,
           NEW resolved \in SUBSET Named, NEW shared \in SUBSET Named,
           Finalize(intent, major, fulfilled, resolved, shared)
    PROVE  /\ TurnInv'
           /\ \A d \in Dimensions : Distance(bond.value[d], bond'.value[d]) <= last'.cap
           /\ bond'.value["trust"] < bond.value["trust"] => draft.kind \in {"ignored", "conflict"}
           /\ bond.lists["unresolved"] \ (draft.settles \cup last'.named) \subseteq bond'.lists["unresolved"]
  <1> DEFINE done == fulfilled \cap draft.lists["commitments"]
             closed == resolved \cap draft.lists["unresolved"]
             effect == Plus(OfIntent(intent, draft.value, closed), OfDeed(done, closed))
             cap == Cap(major \/ draft.major)
             value == Moved(draft.value, effect, draft.origin, cap)
             lists == [draft.lists EXCEPT !["commitments"] = @ \ done,
                                          !["unresolved"] = @ \ closed,
                                          !["rituals"] = @ \cup shared]
  <1>1. draft \in Drafts /\ draft # NoDraft
    BY DEF TurnInv, Finalize
  <1>2. /\ draft.kind \in EventKinds /\ draft.major \in BOOLEAN /\ draft.origin \in Values
        /\ draft.value \in Values /\ draft.lists \in [Lists -> SUBSET Named]
        /\ draft.value["trust"] \in Int /\ bond.value["trust"] \in Int
    BY <1>1 DEF Drafts, TurnInv, Values, Dimensions
  <1>3. /\ draft.origin = bond.value
        /\ draft.kind \notin {"ignored", "conflict"} => bond.value["trust"] <= draft.value["trust"]
        /\ bond.lists["unresolved"] \ draft.settles \subseteq draft.lists["unresolved"]
        /\ moves < MaxMoves /\ moves \in Nat
    BY <1>1 DEF TurnInv, DraftIsOfBond
  <1>4. effect \in Effects /\ effect["trust"] >= 0
    <2>1. OfIntent(intent, draft.value, closed) \in Effects /\ OfIntent(intent, draft.value, closed)["trust"] >= 0
      BY IntentEffect
    <2>2. OfDeed(done, closed) \in Effects /\ OfDeed(done, closed)["trust"] >= 0
      BY DeedEffect
    <2>3. \A e \in Effects : e["trust"] \in Int
      BY DEF Effects, Dimensions
    <2> HIDE DEF done, closed
    <2> QED BY <2>1, <2>2, <2>3, PlusType
  <1>5. cap \in Nat /\ cap \in 0 .. MajorCap
    BY <1>2, CapType
  <1>6. bond' = [value |-> value, lists |-> lists]
    BY DEF Finalize
  <1>7. /\ last' = [cap |-> cap, named |-> resolved]
        /\ draft' = NoDraft /\ moves' = moves + 1
    BY DEF Finalize
  <1> HIDE DEF effect, cap
  <1>8. /\ value \in Values
        /\ \A d \in Dimensions : Distance(draft.origin[d], value[d]) <= cap
        /\ draft.origin["trust"] <= draft.value["trust"] => draft.origin["trust"] <= value["trust"]
    BY <1>2, <1>4, <1>5, MovedIsCapped
  <1> HIDE DEF value
  <1>9. /\ lists \in [Lists -> SUBSET Named]
        /\ draft.lists["unresolved"] \ resolved \subseteq lists["unresolved"]
    BY <1>2 DEF Lists
  <1> HIDE DEF lists
  <1>10. TurnInv'
    <2>1. bond' \in [value : Values, lists : [Lists -> SUBSET Named]]
      BY <1>6, <1>8, <1>9
    <2>2. last' \in [cap : 0 .. MajorCap, named : SUBSET Named]
      BY <1>5, <1>7
    <2>3. moves' \in 0 .. MaxMoves
      BY <1>3, <1>7, RelationshipAssumption
    <2> QED BY <1>7, <2>1, <2>2, <2>3 DEF TurnInv, DraftIsOfBond
  <1>11. value["trust"] \in Int
    BY <1>8 DEF Values, Dimensions
  <1>12. value["trust"] < bond.value["trust"] => draft.kind \in {"ignored", "conflict"}
    BY <1>2, <1>3, <1>8, <1>11
  <1> QED BY <1>3, <1>6, <1>7, <1>8, <1>9, <1>10, <1>12

LEMMA DiscardStep ==
    ASSUME TurnInv, Discard
    PROVE  TurnInv' /\ bond' = bond
  <1>1. moves \in 0 .. MaxMoves /\ moves < MaxMoves
    BY DEF TurnInv, Discard, DraftIsOfBond
  <1>2. moves' \in 0 .. MaxMoves
    BY <1>1, RelationshipAssumption DEF Discard
  <1> QED BY <1>2 DEF TurnInv, Discard, DraftIsOfBond

LEMMA InvInit ==
    ASSUME RelationshipInit
    PROVE  TurnInv
  <1>1. bond \in [value : Values, lists : [Lists -> SUBSET Named]]
    BY RelationshipAssumption DEF RelationshipInit, Values
  <1>2. last \in [cap : 0 .. MajorCap, named : SUBSET Named] /\ moves \in 0 .. MaxMoves
    BY RelationshipAssumption DEF RelationshipInit
  <1> QED BY <1>1, <1>2 DEF TurnInv, DraftIsOfBond, RelationshipInit

\* What TurnIsCapped says of one step.
CappedStep ==
    bond' # bond =>
        /\ \A d \in Dimensions : Distance(bond.value[d], bond'.value[d]) <= last'.cap
        /\ bond'.value["trust"] < bond.value["trust"] => draft.kind \in {"ignored", "conflict"}
        /\ bond.lists["unresolved"] \ (draft.settles \cup last'.named) \subseteq bond'.lists["unresolved"]

LEMMA InvNext ==
    ASSUME TurnInv, [RelationshipNext]_relationshipVars
    PROVE  TurnInv' /\ CappedStep
  <1>1. CASE \E kind \in EventKinds, major \in BOOLEAN, evidence \in Evidence, names \in SUBSET Named :
                Preview(kind, major, evidence, names)
    BY <1>1, PreviewStep DEF CappedStep
  <1>2. CASE \E intent \in Intents, major \in BOOLEAN, fulfilled, resolved, shared \in SUBSET Named :
                Finalize(intent, major, fulfilled, resolved, shared)
    <2>1. PICK intent \in Intents, major \in BOOLEAN, fulfilled \in SUBSET Named, resolved \in SUBSET Named,
               shared \in SUBSET Named : Finalize(intent, major, fulfilled, resolved, shared)
      BY <1>2
    <2> QED BY <2>1, FinalizeStep DEF CappedStep
  <1>3. CASE Discard
    BY <1>3, DiscardStep DEF CappedStep
  <1>4. CASE UNCHANGED relationshipVars
    BY <1>4 DEF relationshipVars, TurnInv, DraftIsOfBond, CappedStep
  <1> QED BY <1>1, <1>2, <1>3, <1>4 DEF RelationshipNext

LEMMA InvTypeOK == TurnInv => RelationshipTypeOK
  BY DEF TurnInv, RelationshipTypeOK, ListsOK, Drafts

\* Every variable keeps its type: a value never leaves 0 .. Full, whatever the
\* events and actions of a life add up to.
THEOREM RelationshipTypeCorrect == RelationshipSpec => []RelationshipTypeOK
  <1>1. RelationshipInit => TurnInv
    BY InvInit
  <1>2. TurnInv /\ [RelationshipNext]_relationshipVars => TurnInv'
    BY InvNext
  <1> QED BY <1>1, <1>2, InvTypeOK, PTL DEF RelationshipSpec

\* However the caps are configured and whatever an appraisal is worth, a turn
\* moves no value further than its cap, takes trust only for what was ignored or
\* fought over, and settles only what it names.
THEOREM TurnsAreCapped == RelationshipSpec => TurnIsCapped
  <1>1. RelationshipInit => TurnInv
    BY InvInit
  <1>2. TurnInv /\ [RelationshipNext]_relationshipVars => TurnInv' /\ [CappedStep]_relationshipVars
    BY InvNext
  <1>3. TurnInv /\ [RelationshipNext]_relationshipVars => TurnInv'
    BY <1>2
  <1> QED BY <1>1, <1>2, <1>3, PTL DEF RelationshipSpec, TurnIsCapped, CappedStep
-----------------------------------------------------------------------------
(***************************************************************************)
(* TraceSpace: the rows of the traces, and what is about to become one.    *)
(***************************************************************************)
TraceRows == [turn : Nat, by : TraceProcesses, stamp : Nat, vector : BOOLEAN]
TraceWrites == [at : TracePlaces, turn : Nat, stamp : Nat, id : Nat, live : BOOLEAN]

TracesAreOfTurns == \A i \in Traces : archive[i].turn \in DOMAIN ledgerTurns

\* A process inserts a trace only of a turn it has archived none of.
WritesAreNew ==
    \A p \in TraceProcesses :
        writing[p].at = "insert" =>
            /\ writing[p].turn \in DOMAIN ledgerTurns
            /\ \A i \in Traces : archive[i].by = p => archive[i].turn # writing[p].turn

VectorsHaveRows == \A p \in TraceProcesses : writing[p].at = "vector" => writing[p].id \in Traces

TraceInv ==
    /\ ledgerTurns \in Seq(Clusters) /\ now \in Nat
    /\ archive \in Seq(TraceRows)
    /\ writing \in [TraceProcesses -> TraceWrites]
    /\ backlog \in [TraceProcesses -> SUBSET DOMAIN ledgerTurns]
    /\ TracesAreOfTurns
    /\ WritesAreNew
    /\ VectorsHaveRows
    /\ TwinTracesAreForeign

LEMMA TraceStarts == TraceInit => TraceInv
  <1> SUFFICES ASSUME TraceInit PROVE TraceInv
    OBVIOUS
  <1>1. FALSE \in BOOLEAN /\ "down" \in TracePlaces
    BY DEF TracePlaces
  <1>2. NoWrite("down") \in TraceWrites /\ NoWrite("down").at = "down"
    BY <1>1 DEF NoWrite, TraceWrites
  <1>3. writing \in [TraceProcesses -> TraceWrites]
        /\ \A p \in TraceProcesses : writing[p].at = "down"
    BY <1>2 DEF TraceInit
  <1>4. archive = <<>> /\ Traces = {} /\ ledgerTurns = <<>> /\ now = 0
    BY DEF TraceInit, Traces
  <1>5. backlog \in [TraceProcesses -> SUBSET DOMAIN ledgerTurns]
    BY DEF TraceInit
  <1> QED
    BY <1>3, <1>4, <1>5
       DEF TraceInv, TracesAreOfTurns, WritesAreNew, VectorsHaveRows, TwinTracesAreForeign

\* A process that moves to another place than "insert" and "vector", while no
\* trace comes in.
LEMMA TraceMovesOn ==
    ASSUME TraceInv, NEW p \in TraceProcesses, NEW w \in TraceWrites,
           w.at \notin {"insert", "vector"}, writing' = [writing EXCEPT ![p] = w],
           DOMAIN archive' = DOMAIN archive, archive' \in Seq(TraceRows),
           \A i \in Traces : archive'[i].turn = archive[i].turn /\ archive'[i].by = archive[i].by,
           UNCHANGED ledgerTurns, now' \in Nat,
           backlog' \in [TraceProcesses -> SUBSET DOMAIN ledgerTurns]
    PROVE  TraceInv'
  <1>1. writing' \in [TraceProcesses -> TraceWrites] /\ writing'[p] = w
        /\ \A q \in TraceProcesses \ {p} : writing'[q] = writing[q]
    BY DEF TraceInv
  <1>2. Traces' = Traces
    BY DEF Traces
  <1>3. TracesAreOfTurns'
    BY <1>2 DEF TraceInv, TracesAreOfTurns
  <1>4. WritesAreNew'
    <2>1. ASSUME NEW q \in TraceProcesses, writing'[q].at = "insert"
          PROVE  /\ writing'[q].turn \in DOMAIN ledgerTurns'
                 /\ \A i \in Traces' : archive'[i].by = q => archive'[i].turn # writing'[q].turn
      <3>1. q # p /\ writing'[q] = writing[q]
        BY <1>1, <2>1
      <3>2. writing[q].turn \in DOMAIN ledgerTurns
            /\ \A i \in Traces : archive[i].by = q => archive[i].turn # writing[q].turn
        BY <2>1, <3>1 DEF TraceInv, WritesAreNew
      <3> QED BY <3>1, <3>2, <1>2
    <2> QED BY <2>1 DEF WritesAreNew
  <1>5. VectorsHaveRows'
    BY <1>1, <1>2 DEF TraceInv, VectorsHaveRows
  <1>6. TwinTracesAreForeign'
    <2>1. TwinTracesAreForeign
      BY DEF TraceInv
    <2> QED BY <2>1, <1>2 DEF TwinTracesAreForeign
  <1> QED BY <1>1, <1>3, <1>4, <1>5, <1>6 DEF TraceInv

\* What a process writes next, of a turn it has archived none of.
LEMMA TraceBegins ==
    ASSUME TraceInv, NEW p \in TraceProcesses, NEW n, NEW live \in BOOLEAN, StartWrite(p, n, live),
           n \in Nat, n \in DOMAIN ledgerTurns',
           \A i \in Traces : archive[i].by = p => archive[i].turn # n,
           UNCHANGED archive, ledgerTurns' \in Seq(Clusters),
           DOMAIN ledgerTurns \subseteq DOMAIN ledgerTurns',
           backlog' \in [TraceProcesses -> SUBSET DOMAIN ledgerTurns']
    PROVE  TraceInv'
  <1> DEFINE w == [at |-> "insert", turn |-> n, stamp |-> now', id |-> 0, live |-> live]
  <1>1. now' \in Nat /\ "insert" \in TracePlaces
    BY DEF TraceInv, StartWrite, TracePlaces
  <1>2. w \in TraceWrites /\ w.at = "insert" /\ w.turn = n
    BY <1>1 DEF TraceWrites
  <1>3. writing' = [writing EXCEPT ![p] = w]
    BY DEF StartWrite
  <1> HIDE DEF w
  <1>4. writing' \in [TraceProcesses -> TraceWrites] /\ writing'[p] = w
        /\ \A q \in TraceProcesses \ {p} : writing'[q] = writing[q]
    BY <1>2, <1>3 DEF TraceInv
  <1>5. Traces' = Traces /\ archive' = archive
    BY DEF Traces
  <1>6. TracesAreOfTurns'
    BY <1>5 DEF TraceInv, TracesAreOfTurns
  <1>7. WritesAreNew'
    <2>1. ASSUME NEW q \in TraceProcesses, writing'[q].at = "insert"
          PROVE  /\ writing'[q].turn \in DOMAIN ledgerTurns'
                 /\ \A i \in Traces' : archive'[i].by = q => archive'[i].turn # writing'[q].turn
      <3>1. CASE q = p
        BY <3>1, <1>2, <1>4, <1>5
      <3>2. CASE q # p
        <4>1. writing'[q] = writing[q]
          BY <3>2, <1>4
        <4>2. writing[q].turn \in DOMAIN ledgerTurns
              /\ \A i \in Traces : archive[i].by = q => archive[i].turn # writing[q].turn
          BY <2>1, <4>1 DEF TraceInv, WritesAreNew
        <4> QED BY <4>1, <4>2, <1>5
      <3> QED BY <3>1, <3>2
    <2> QED BY <2>1 DEF WritesAreNew
  <1>8. VectorsHaveRows'
    BY <1>2, <1>4, <1>5 DEF TraceInv, VectorsHaveRows
  <1>9. TwinTracesAreForeign'
    <2>1. TwinTracesAreForeign
      BY DEF TraceInv
    <2> QED BY <2>1, <1>5 DEF TwinTracesAreForeign
  <1> QED BY <1>1, <1>4, <1>5, <1>6, <1>7, <1>8, <1>9 DEF TraceInv

LEMMA TraceStep == TraceInv /\ [TraceNext]_traceVars => TraceInv'
  <1> SUFFICES ASSUME TraceInv, [TraceNext]_traceVars PROVE TraceInv'
    OBVIOUS
  <1>1. ledgerTurns \in Seq(Clusters) /\ now \in Nat /\ archive \in Seq(TraceRows)
        /\ writing \in [TraceProcesses -> TraceWrites]
        /\ backlog \in [TraceProcesses -> SUBSET DOMAIN ledgerTurns]
    BY DEF TraceInv
  <1>2. \A i \in Traces : archive[i] \in TraceRows /\ archive[i].turn \in DOMAIN ledgerTurns
    BY <1>1 DEF TraceInv, TracesAreOfTurns, Traces
  <1>3. \A place \in TracePlaces : NoWrite(place) \in TraceWrites /\ NoWrite(place).at = place
    <2>1. FALSE \in BOOLEAN
      OBVIOUS
    <2> QED BY <2>1 DEF NoWrite, TraceWrites
  <1>4. {"down", "idle", "backfill", "insert", "vector", "count", "embed", "recount", "replay"}
           = TracePlaces
    BY DEF TracePlaces
  <1>5. \A p \in TraceProcesses : writing[p] \in TraceWrites
    BY <1>1
  <1>6. ASSUME NEW w \in TraceWrites, NEW place \in TracePlaces
        PROVE [w EXCEPT !.at = place] \in TraceWrites /\ [w EXCEPT !.at = place].at = place
    BY DEF TraceWrites
  <1>7. ASSUME NEW p \in TraceProcesses, NEW place \in TracePlaces \ {"insert", "vector"},
               TraceGoto(p, place) \/ writing' = [writing EXCEPT ![p] = NoWrite(place)],
               UNCHANGED <<ledgerTurns, archive, now>>,
               backlog' \in [TraceProcesses -> SUBSET DOMAIN ledgerTurns]
        PROVE TraceInv'
    <2>1. PICK w \in TraceWrites : w.at = place /\ writing' = [writing EXCEPT ![p] = w]
      <3>1. TraceGoto(p, place) => writing' = [writing EXCEPT ![p] = [writing[p] EXCEPT !.at = place]]
        BY DEF TraceGoto
      <3> QED BY <1>3, <1>5, <1>6, <1>7, <3>1
    <2> QED BY <2>1, <1>1, <1>7, TraceMovesOn
  <1>8. ASSUME NEW p \in TraceProcesses, NEW c \in Clusters, CompleteTurn(p, c) PROVE TraceInv'
    <2>1. /\ ledgerTurns' = Append(ledgerTurns, c) /\ ledgerTurns' \in Seq(Clusters)
          /\ DOMAIN ledgerTurns' = DOMAIN ledgerTurns \cup {Len(ledgerTurns) + 1}
          /\ Len(ledgerTurns) + 1 \in Nat /\ Len(ledgerTurns) + 1 \notin DOMAIN ledgerTurns
      BY <1>1, <1>8 DEF CompleteTurn
    <2>2. \A i \in Traces : archive[i].turn # Len(ledgerTurns) + 1
      BY <1>2, <2>1
    <2>3. StartWrite(p, Len(ledgerTurns) + 1, TRUE) /\ UNCHANGED <<archive, backlog>>
          /\ TRUE \in BOOLEAN
      BY <1>8 DEF CompleteTurn
    <2>4. backlog' \in [TraceProcesses -> SUBSET DOMAIN ledgerTurns']
      BY <1>1, <2>1, <2>3
    <2> QED BY <2>1, <2>2, <2>3, <2>4, TraceBegins
  <1>9. ASSUME NEW p \in TraceProcesses, StartBackfill(p) PROVE TraceInv'
    <2>1. backlog' \in [TraceProcesses -> SUBSET DOMAIN ledgerTurns]
      BY <1>1, <1>9 DEF StartBackfill
    <2> QED BY <2>1, <1>4, <1>7, <1>9 DEF StartBackfill
  <1>10. ASSUME NEW p \in TraceProcesses, Backfill(p) PROVE TraceInv'
    <2>1. PICK t \in backlog[p] :
             /\ backlog' = [backlog EXCEPT ![p] = @ \ {t}]
             /\ IF Archived(t) THEN UNCHANGED <<writing, now>> ELSE StartWrite(p, t, FALSE)
      BY <1>10 DEF Backfill
    <2>2. UNCHANGED <<ledgerTurns, archive>>
      BY <1>10 DEF Backfill
    <2>3. backlog' \in [TraceProcesses -> SUBSET DOMAIN ledgerTurns]
      BY <1>1, <2>1
    <2>4. t \in DOMAIN ledgerTurns /\ t \in Nat
      BY <1>1
    <2>5. CASE Archived(t)
      BY <2>1, <2>2, <2>3, <2>5
         DEF TraceInv, TracesAreOfTurns, WritesAreNew, VectorsHaveRows, TwinTracesAreForeign, Traces
    <2>6. CASE ~Archived(t)
      <3>1. StartWrite(p, t, FALSE) /\ FALSE \in BOOLEAN
        BY <2>1, <2>6
      <3>2. \A i \in Traces : archive[i].turn # t
        BY <2>6 DEF Archived
      <3> QED BY <3>1, <3>2, <2>2, <2>3, <2>4, <1>1, TraceBegins
    <2> QED BY <2>5, <2>6
  <1>11. ASSUME NEW p \in TraceProcesses, BackfillDone(p) PROVE TraceInv'
    BY <1>1, <1>4, <1>7, <1>11 DEF BackfillDone
  <1>12. ASSUME NEW p \in TraceProcesses, InsertTrace(p) PROVE TraceInv'
    <2> DEFINE row == [turn |-> writing[p].turn, by |-> p, stamp |-> writing[p].stamp,
                       vector |-> FALSE]
    <2> DEFINE new == Len(archive) + 1
    <2>1. writing[p].turn \in DOMAIN ledgerTurns
          /\ \A i \in Traces : archive[i].by = p => archive[i].turn # writing[p].turn
      BY <1>12 DEF InsertTrace, TraceInv, WritesAreNew
    <2>2. writing[p].turn \in Nat /\ writing[p].stamp \in Nat /\ FALSE \in BOOLEAN
      BY <1>5 DEF TraceWrites
    <2>3. row \in TraceRows /\ row.turn = writing[p].turn /\ row.by = p
      BY <2>2 DEF TraceRows
    <2>4. archive' = Append(archive, row)
          /\ writing' = [writing EXCEPT ![p] = [writing[p] EXCEPT !.at = "vector", !.id = new]]
          /\ UNCHANGED <<ledgerTurns, now, backlog>>
      BY <1>12 DEF InsertTrace
    <2> HIDE DEF row
    <2>5. archive' \in Seq(TraceRows) /\ Traces' = Traces \cup {new} /\ new \notin Traces
          /\ new \in Nat /\ archive'[new] = row /\ \A i \in Traces : archive'[i] = archive[i]
      BY <1>1, <2>3, <2>4 DEF Traces
    <2> HIDE DEF new
    <2> DEFINE w == [writing[p] EXCEPT !.at = "vector", !.id = new]
    <2>6. w \in TraceWrites /\ w.at = "vector" /\ w.id = new
      BY <1>4, <1>5, <2>5 DEF TraceWrites
    <2>7. writing' = [writing EXCEPT ![p] = w]
      BY <2>4
    <2> HIDE DEF w
    <2>8. writing' \in [TraceProcesses -> TraceWrites] /\ writing'[p] = w
          /\ \A q \in TraceProcesses \ {p} : writing'[q] = writing[q]
      BY <1>1, <2>6, <2>7
    <2>9. TracesAreOfTurns'
      BY <1>2, <2>1, <2>3, <2>4, <2>5 DEF TracesAreOfTurns
    <2>10. WritesAreNew'
      <3>1. ASSUME NEW q \in TraceProcesses, writing'[q].at = "insert"
            PROVE  /\ writing'[q].turn \in DOMAIN ledgerTurns'
                   /\ \A i \in Traces' : archive'[i].by = q => archive'[i].turn # writing'[q].turn
        <4>1. q # p /\ writing'[q] = writing[q]
          BY <3>1, <2>6, <2>8
        <4>2. writing[q].turn \in DOMAIN ledgerTurns
              /\ \A i \in Traces : archive[i].by = q => archive[i].turn # writing[q].turn
          BY <3>1, <4>1 DEF TraceInv, WritesAreNew
        <4> QED BY <4>1, <4>2, <2>3, <2>4, <2>5
      <3> QED BY <3>1 DEF WritesAreNew
    <2>11. VectorsHaveRows'
      BY <2>5, <2>6, <2>8 DEF TraceInv, VectorsHaveRows
    <2>12. TwinTracesAreForeign'
      <3>1. \A i, j \in Traces :
              i # j /\ archive[i].turn = archive[j].turn => archive[i].by # archive[j].by
        BY DEF TraceInv, TwinTracesAreForeign
      <3>2. ASSUME NEW i \in Traces', NEW j \in Traces', i # j,
                   archive'[i].turn = archive'[j].turn
            PROVE archive'[i].by # archive'[j].by
        <4>1. CASE i = new
          <5>1. j \in Traces /\ archive'[j] = archive[j]
            BY <4>1, <3>2, <2>5
          <5> QED BY <4>1, <5>1, <3>2, <2>1, <2>3, <2>5
        <4>2. CASE j = new
          <5>1. i \in Traces /\ archive'[i] = archive[i]
            BY <4>2, <3>2, <2>5
          <5> QED BY <4>2, <5>1, <3>2, <2>1, <2>3, <2>5
        <4>3. CASE i # new /\ j # new
          BY <4>3, <3>1, <3>2, <2>5
        <4> QED BY <4>1, <4>2, <4>3
      <3> QED BY <3>2 DEF TwinTracesAreForeign
    <2> QED BY <1>1, <2>4, <2>5, <2>8, <2>9, <2>10, <2>11, <2>12 DEF TraceInv
  <1>13. ASSUME NEW p \in TraceProcesses, Written(p)
         PROVE \E w \in TraceWrites : w.at \notin {"insert", "vector"}
                                      /\ writing' = [writing EXCEPT ![p] = w]
    <2>1. [writing[p] EXCEPT !.at = "count"] \in TraceWrites
          /\ [writing[p] EXCEPT !.at = "count"].at = "count"
      BY <1>4, <1>5, <1>6
    <2>2. NoWrite("backfill") \in TraceWrites /\ NoWrite("backfill").at = "backfill"
      BY <1>3, <1>4
    <2> QED BY <1>13, <2>1, <2>2 DEF Written
  <1>14. ASSUME NEW p \in TraceProcesses, InsertVector(p) PROVE TraceInv'
    <2>1. writing[p].id \in Traces
      BY <1>14 DEF InsertVector, TraceInv, VectorsHaveRows
    <2>2. archive' = [archive EXCEPT ![writing[p].id] = [archive[writing[p].id] EXCEPT !.vector = TRUE]]
      BY <1>14 DEF InsertVector
    <2>3. [archive[writing[p].id] EXCEPT !.vector = TRUE] \in TraceRows
          /\ [archive[writing[p].id] EXCEPT !.vector = TRUE].turn = archive[writing[p].id].turn
          /\ [archive[writing[p].id] EXCEPT !.vector = TRUE].by = archive[writing[p].id].by
      BY <1>2, <2>1 DEF TraceRows
    <2>4. DOMAIN archive = 1 .. Len(archive) /\ DOMAIN archive' = DOMAIN archive
      BY <1>1, <2>2
    <2>5. archive' \in Seq(TraceRows)
      BY <1>1, <2>1, <2>2, <2>3, <2>4, ExceptSeq DEF Traces
    <2>6. \A i \in Traces : archive'[i].turn = archive[i].turn /\ archive'[i].by = archive[i].by
      BY <2>2, <2>3 DEF Traces
    <2> QED BY <1>1, <1>13, <1>14, <2>4, <2>5, <2>6, TraceMovesOn DEF InsertVector
  <1>15. ASSUME NEW p \in TraceProcesses, VectorRefused(p) PROVE TraceInv'
    BY <1>1, <1>13, <1>15, TraceMovesOn DEF VectorRefused
  <1>16. ASSUME NEW p \in TraceProcesses, CountTraces(p) PROVE TraceInv'
    BY <1>1, <1>4, <1>7, <1>16 DEF CountTraces
  <1>17. ASSUME NEW p \in TraceProcesses, StartReplay(p) PROVE TraceInv'
    BY <1>1, <1>4, <1>7, <1>17 DEF StartReplay
  <1>18. ASSUME NEW p \in TraceProcesses, AdvanceShadow(p) \/ Replay(p) PROVE TraceInv'
    BY <1>1, <1>4, <1>7, <1>18 DEF AdvanceShadow, Replay, TraceDone
  <1>19. ASSUME NEW p \in TraceProcesses, TraceCrash(p) PROVE TraceInv'
    <2>1. backlog' \in [TraceProcesses -> SUBSET DOMAIN ledgerTurns]
      BY <1>1, <1>19 DEF TraceCrash
    <2> QED BY <2>1, <1>4, <1>7, <1>19 DEF TraceCrash
  <1>20. CASE UNCHANGED traceVars
    BY <1>20
       DEF traceVars, TraceInv, TracesAreOfTurns, WritesAreNew, VectorsHaveRows,
           TwinTracesAreForeign, Traces
  <1> QED
    BY <1>8, <1>9, <1>10, <1>11, <1>12, <1>14, <1>15, <1>16, <1>17, <1>18, <1>19, <1>20
       DEF TraceNext

\* A process archives no turn twice: a backfill looks a turn up before it
\* writes its trace, in this life of the process or a later one (write_turn,
\* _backfill_trace_space).
THEOREM TracesAreNotRepeated == TraceSpec => []TwinTracesAreForeign
  <1>1. TraceInv => TwinTracesAreForeign
    BY DEF TraceInv
  <1> QED BY <1>1, TraceStarts, TraceStep, PTL DEF TraceSpec

-----------------------------------------------------------------------------
(***************************************************************************)
(* TraceSpace: one step of the shadow state, and many.                     *)
(***************************************************************************)
Masses == UNION {[K -> Int] : K \in SUBSET Clusters}
States == [step : Nat, one : Nat, mass : Masses, null : Int]

LEMMA StateParts ==
    ASSUME NEW s \in States
    PROVE  /\ s.step \in Nat /\ s.one \in Nat /\ s.null \in Int
           /\ DOMAIN s.mass \subseteq Clusters /\ s.mass \in [DOMAIN s.mass -> Int]
  <1>1. s.mass \in Masses /\ s.step \in Nat /\ s.one \in Nat /\ s.null \in Int
    BY DEF States
  <1>2. PICK K \in SUBSET Clusters : s.mass \in [K -> Int]
    BY <1>1 DEF Masses
  <1>3. DOMAIN s.mass = K
    BY <1>2
  <1> QED BY <1>1, <1>2, <1>3

LEMMA BlankState == Blank \in States /\ Blank.step = 0 /\ Blank.one = 1 /\ Blank.null = 1 /\ Blank.mass = <<>>
  <1>1. <<>> \in [{} -> Int]
    OBVIOUS
  <1>2. <<>> \in Masses
    BY <1>1 DEF Masses
  <1> QED BY <1>2 DEF Blank, States

LEMMA MixedIsMass ==
    ASSUME NEW s \in States, NEW c \in Clusters
    PROVE  /\ Mixed(s, c) \in [DOMAIN s.mass \cup {c} -> Int]
           /\ Kept(s, c) \subseteq DOMAIN s.mass \cup {c}
           /\ Dropped(s, c) \in Int
           /\ NullMass(s, c) \in Int
  <1>1. s.one \in Nat /\ s.null \in Int /\ s.mass \in [DOMAIN s.mass -> Int]
    BY StateParts
  <1>2. ASSUME NEW k \in DOMAIN s.mass \cup {c}
        PROVE (IF k \in DOMAIN s.mass THEN Retained(s.mass[k]) ELSE 0)
                + (IF k = c /\ Novel(s, c) THEN Injected(s) ELSE 0) \in Int
    <2>1. k \in DOMAIN s.mass => Retained(s.mass[k]) \in Int
      BY <1>1 DEF Retained
    <2>2. Injected(s) \in Int
      BY <1>1 DEF Injected
    <2> QED BY <2>1, <2>2
  <1>3. Mixed(s, c) \in [DOMAIN s.mass \cup {c} -> Int]
    BY <1>2 DEF Mixed
  <1>4. DOMAIN Mixed(s, c) = DOMAIN s.mass \cup {c}
    BY <1>3
  <1>5. Kept(s, c) \subseteq DOMAIN s.mass \cup {c}
    BY <1>4 DEF Kept
  <1>6. Dropped(s, c) \in Int
    <2> DEFINE out == DOMAIN Mixed(s, c) \ Kept(s, c)
    <2>1. CASE out = {}
      BY <2>1 DEF Dropped
    <2>2. CASE out # {}
      <3>1. (CHOOSE k \in out : TRUE) \in out
        BY <2>2
      <3>2. Dropped(s, c) = Mixed(s, c)[CHOOSE k \in out : TRUE]
        BY <2>2 DEF Dropped
      <3> QED BY <3>1, <3>2, <1>3, <1>4
    <2> QED BY <2>1, <2>2
  <1>7. NullMass(s, c) \in Int
    BY <1>1, <1>6 DEF NullMass, Retained, Finer, Injected
  <1> QED BY <1>3, <1>5, <1>6, <1>7

LEMMA StepKeepsStates ==
    ASSUME NEW s \in States, NEW c \in Clusters
    PROVE  ShadowStep(s, c) \in States /\ ShadowStep(s, c).step = s.step + 1
  <1>1. /\ Mixed(s, c) \in [DOMAIN s.mass \cup {c} -> Int] /\ NullMass(s, c) \in Int
        /\ Kept(s, c) \subseteq DOMAIN s.mass \cup {c}
    BY MixedIsMass
  <1>2. DOMAIN s.mass \subseteq Clusters /\ s.step \in Nat /\ s.one \in Nat
    BY StateParts
  <1>3. [k \in Kept(s, c) |-> Mixed(s, c)[k]] \in [Kept(s, c) -> Int]
    BY <1>1
  <1>4. Kept(s, c) \in SUBSET Clusters
    BY <1>1, <1>2
  <1>5. [k \in Kept(s, c) |-> Mixed(s, c)[k]] \in Masses
    BY <1>3, <1>4 DEF Masses
  <1>6. s.step + 1 \in Nat /\ Finer * s.one \in Nat
    BY <1>2 DEF Finer
  <1> QED BY <1>1, <1>5, <1>6 DEF ShadowStep, States

\* The states that follow each other from s, over the first N clusters of cs.
StateRuns(s, cs, N) ==
    {f \in [0 .. N -> States] : f[0] = s /\ \A n \in 1 .. N : f[n] = ShadowStep(f[n - 1], cs[n])}

LEMMA StatesFollow ==
    ASSUME NEW s \in States, NEW N \in Nat, NEW cs, \A n \in 1 .. N : cs[n] \in Clusters
    PROVE  StateRuns(s, cs, N) # {}
  <1> DEFINE G == [n \in 1 .. N |-> [x \in States |-> ShadowStep(x, cs[n])]]
  <1>1. G \in [1 .. N -> [States -> States]]
    BY StepKeepsStates
  <1>2. \A n \in 1 .. N : \A x \in States : G[n][x] = ShadowStep(x, cs[n])
    OBVIOUS
  <1> HIDE DEF G
  <1>3. Chains(States, s, N, G) # {}
    BY <1>1, ChainExists
  <1>4. PICK f \in [0 .. N -> States] : f[0] = s /\ \A n \in 1 .. N : f[n] = G[n][f[n - 1]]
    BY <1>3 DEF Chains
  <1>5. \A n \in 1 .. N : n - 1 \in 0 .. N
    OBVIOUS
  <1>6. \A n \in 1 .. N : f[n] = ShadowStep(f[n - 1], cs[n])
    BY <1>2, <1>4, <1>5
  <1> QED BY <1>4, <1>6 DEF StateRuns

LEMMA SteppedGives ==
    ASSUME NEW s \in States, NEW cs \in Seq(Clusters)
    PROVE  \E f \in StateRuns(s, cs, Len(cs)) : Stepped(s, cs) = f[Len(cs)]
  <1> DEFINE Made(h) == [n \in 0 .. Len(cs) |-> IF n = 0 THEN s ELSE ShadowStep(h[n - 1], cs[n])]
             after == CHOOSE h : h = Made(h)
  <1>1. Stepped(s, cs) = after[Len(cs)]
    BY DEF Stepped
  <1>2. Len(cs) \in Nat /\ \A n \in 1 .. Len(cs) : cs[n] \in Clusters
    OBVIOUS
  <1>3. \E h : h = Made(h)
    <2>1. StateRuns(s, cs, Len(cs)) # {}
      BY <1>2, StatesFollow
    <2>2. PICK f \in [0 .. Len(cs) -> States] :
             f[0] = s /\ \A n \in 1 .. Len(cs) : f[n] = ShadowStep(f[n - 1], cs[n])
      BY <2>1 DEF StateRuns
    <2>3. ASSUME NEW n \in 0 .. Len(cs)
          PROVE f[n] = IF n = 0 THEN s ELSE ShadowStep(f[n - 1], cs[n])
      <3>1. CASE n = 0
        BY <2>2, <3>1
      <3>2. CASE n # 0
        <4>1. n \in 1 .. Len(cs) /\ n - 1 \in 0 .. Len(cs)
          BY <3>2, <1>2
        <4>2. f[n - 1] \in States
          BY <4>1
        <4> QED BY <3>2, <4>1, <4>2, <2>2
      <3> QED BY <3>1, <3>2
    <2>4. f = Made(f)
      BY <2>3
    <2> QED BY <2>4
  <1>4. after = Made(after)
    BY <1>3
  <1> HIDE DEF after
  <1>5. after[0] = s /\ DOMAIN after = 0 .. Len(cs)
        /\ \A n \in 1 .. Len(cs) : after[n] = ShadowStep(after[n - 1], cs[n])
    BY <1>2, <1>4
  <1>6. \A n \in Nat : n <= Len(cs) => after[n] \in States
    <2> DEFINE S == {n \in Nat : n <= Len(cs) => after[n] \in States}
    <2>1. 0 \in S
      BY <1>5
    <2>2. ASSUME NEW n \in Nat, n \in S PROVE n + 1 \in S
      <3> SUFFICES ASSUME n + 1 <= Len(cs) PROVE after[n + 1] \in States
        OBVIOUS
      <3>1. n <= Len(cs) /\ n + 1 \in 1 .. Len(cs) /\ (n + 1) - 1 = n
        BY <1>2
      <3>2. after[n] \in States /\ cs[n + 1] \in Clusters
        BY <2>2, <3>1, <1>2
      <3> QED BY <3>1, <3>2, <1>5, StepKeepsStates
    <2> HIDE DEF S
    <2>3. \A n \in Nat : n \in S
      BY <2>1, <2>2, Climbing
    <2> QED BY <2>3 DEF S
  <1>7. after \in [0 .. Len(cs) -> States]
    <2>1. after = [n \in 0 .. Len(cs) |-> after[n]]
      BY <1>4
    <2> QED BY <2>1, <1>2, <1>6
  <1>8. after \in StateRuns(s, cs, Len(cs))
    BY <1>5, <1>7 DEF StateRuns
  <1> QED BY <1>1, <1>8

\* Two ways to step through the same clusters give the same states.
LEMMA SteppedIs ==
    ASSUME NEW s \in States, NEW cs \in Seq(Clusters), NEW f \in StateRuns(s, cs, Len(cs))
    PROVE  Stepped(s, cs) = f[Len(cs)]
  <1>1. PICK g \in [0 .. Len(cs) -> States] :
              /\ g[0] = s /\ \A n \in 1 .. Len(cs) : g[n] = ShadowStep(g[n - 1], cs[n])
              /\ Stepped(s, cs) = g[Len(cs)]
    BY SteppedGives DEF StateRuns
  <1>a. /\ f \in [0 .. Len(cs) -> States] /\ f[0] = s
        /\ \A n \in 1 .. Len(cs) : f[n] = ShadowStep(f[n - 1], cs[n])
    BY DEF StateRuns
  <1> DEFINE S == {n \in Nat : n <= Len(cs) => f[n] = g[n]}
  <1>2. Len(cs) \in Nat
    OBVIOUS
  <1>3. 0 \in S
    BY <1>1, <1>a
  <1>4. ASSUME NEW n \in Nat, n \in S PROVE n + 1 \in S
    <2> SUFFICES ASSUME n + 1 <= Len(cs) PROVE f[n + 1] = g[n + 1]
      OBVIOUS
    <2>1. n <= Len(cs) /\ n + 1 \in 1 .. Len(cs) /\ (n + 1) - 1 = n
      BY <1>2
    <2> QED BY <2>1, <1>1, <1>a, <1>4
  <1>5. \A n \in Nat : n \in S
    <2> HIDE DEF S
    <2> QED BY <1>3, <1>4, Climbing
  <1> QED BY <1>1, <1>2, <1>5

LEMMA SteppedOn ==
    ASSUME NEW s \in States, NEW cs \in Seq(Clusters), NEW c \in Clusters
    PROVE  Stepped(s, Append(cs, c)) = ShadowStep(Stepped(s, cs), c)
  <1>1. PICK f \in [0 .. Len(cs) -> States] :
              /\ f[0] = s /\ \A n \in 1 .. Len(cs) : f[n] = ShadowStep(f[n - 1], cs[n])
              /\ Stepped(s, cs) = f[Len(cs)]
    BY SteppedGives DEF StateRuns
  <1> DEFINE ds == Append(cs, c)
             g == [n \in 0 .. Len(cs) + 1 |-> IF n = Len(cs) + 1 THEN ShadowStep(f[Len(cs)], c) ELSE f[n]]
  <1>2. ds \in Seq(Clusters) /\ Len(ds) = Len(cs) + 1 /\ ds[Len(cs) + 1] = c
        /\ \A n \in 1 .. Len(cs) : ds[n] = cs[n]
    OBVIOUS
  <1>3. Len(cs) \in Nat /\ f[Len(cs)] \in States
    OBVIOUS
  <1>4. g \in [0 .. Len(ds) -> States]
    BY <1>2, <1>3, StepKeepsStates
  <1>5. g[0] = s
    BY <1>1, <1>3
  <1>6. ASSUME NEW n \in 1 .. Len(ds) PROVE g[n] = ShadowStep(g[n - 1], ds[n])
    <2>1. CASE n = Len(cs) + 1
      <3>1. n - 1 = Len(cs) /\ n - 1 \in 0 .. Len(cs) + 1 /\ n - 1 # Len(cs) + 1 /\ n \in 0 .. Len(cs) + 1
        BY <2>1, <1>3
      <3>2. g[n - 1] = f[Len(cs)] /\ g[n] = ShadowStep(f[Len(cs)], c)
        BY <3>1, <2>1
      <3> QED BY <2>1, <3>2, <1>2
    <2>2. CASE n # Len(cs) + 1
      <3>1. n \in 1 .. Len(cs) /\ n - 1 \in 0 .. Len(cs) + 1 /\ n - 1 # Len(cs) + 1 /\ n \in 0 .. Len(cs) + 1
        BY <2>2, <1>2, <1>3
      <3>2. g[n - 1] = f[n - 1] /\ g[n] = f[n]
        BY <3>1, <2>2
      <3> QED BY <3>1, <3>2, <1>1, <1>2
    <2> QED BY <2>1, <2>2
  <1>7. g[Len(ds)] = ShadowStep(f[Len(cs)], c)
    BY <1>2, <1>3
  <1> HIDE DEF g, ds
  <1>a. g \in StateRuns(s, ds, Len(ds))
    BY <1>4, <1>5, <1>6 DEF StateRuns
  <1>8. Stepped(s, ds) = g[Len(ds)]
    BY <1>2, <1>a, SteppedIs
  <1> QED BY <1>1, <1>7, <1>8 DEF ds

LEMMA SteppedCounts ==
    ASSUME NEW s \in States, NEW cs \in Seq(Clusters)
    PROVE  Stepped(s, cs) \in States /\ Stepped(s, cs).step = s.step + Len(cs)
  <1>1. PICK f \in [0 .. Len(cs) -> States] :
              /\ f[0] = s /\ \A n \in 1 .. Len(cs) : f[n] = ShadowStep(f[n - 1], cs[n])
              /\ Stepped(s, cs) = f[Len(cs)]
    BY SteppedGives DEF StateRuns
  <1> DEFINE S == {n \in Nat : n <= Len(cs) => f[n].step = s.step + n}
  <1>2. Len(cs) \in Nat /\ s.step \in Nat
    BY StateParts
  <1>3. 0 \in S
    BY <1>1, <1>2
  <1>4. ASSUME NEW n \in Nat, n \in S PROVE n + 1 \in S
    <2> SUFFICES ASSUME n + 1 <= Len(cs) PROVE f[n + 1].step = s.step + (n + 1)
      OBVIOUS
    <2>1. n <= Len(cs) /\ n + 1 \in 1 .. Len(cs) /\ (n + 1) - 1 = n /\ n \in 0 .. Len(cs)
      BY <1>2
    <2>2. f[n].step = s.step + n /\ f[n] \in States /\ cs[n + 1] \in Clusters
      BY <1>4, <2>1
    <2>3. f[n + 1].step = f[n].step + 1
      BY <2>1, <2>2, <1>1, StepKeepsStates
    <2> QED BY <2>2, <2>3, <1>2
  <1>5. \A n \in Nat : n \in S
    <2> HIDE DEF S
    <2> QED BY <1>3, <1>4, Climbing
  <1> QED BY <1>1, <1>2, <1>5

-----------------------------------------------------------------------------
(***************************************************************************)
(* Finite sums: what a recursion over subsets computes, step by step.      *)
(***************************************************************************)
\* A property of the empty set that survives one more element holds for every
\* subset of a finite set.
LEMMA FiniteClimbing ==
    ASSUME NEW D, IsFiniteSet(D), NEW S, {} \in S,
           \A K \in SUBSET D : \A x \in D \ K : K \in S => K \cup {x} \in S
    PROVE  \A K \in SUBSET D : K \in S
  <1> DEFINE N == {n \in Nat : \A K \in SUBSET D : Cardinality(K) = n => K \in S}
  <1>1. \A K \in SUBSET D : IsFiniteSet(K) /\ Cardinality(K) \in Nat
    BY FS_Subset, FS_CardinalityType
  <1>2. 0 \in N
    <2>1. \A K \in SUBSET D : Cardinality(K) = 0 => K = {}
      BY <1>1, FS_EmptySet
    <2> QED BY <2>1
  <1>3. ASSUME NEW n \in Nat, n \in N PROVE n + 1 \in N
    <2> SUFFICES ASSUME NEW K \in SUBSET D, Cardinality(K) = n + 1 PROVE K \in S
      OBVIOUS
    <2>1. K # {}
      <3>1. Cardinality({}) = 0 /\ n + 1 # 0
        BY FS_EmptySet
      <3> QED BY <3>1
    <2>2. PICK x \in K : TRUE
      BY <2>1
    <2>3. Cardinality(K \ {x}) = Cardinality(K) - 1
      BY <1>1, <2>2, FS_RemoveElement
    <2>4. Cardinality(K \ {x}) = n
      BY <2>3
    <2>5. K \ {x} \in SUBSET D /\ x \in D \ (K \ {x}) /\ (K \ {x}) \cup {x} = K
      BY <2>2
    <2>6. K \ {x} \in S
      BY <2>4, <2>5, <1>3
    <2> QED BY <2>5, <2>6
  <1>4. \A n \in Nat : n \in N
    <2> HIDE DEF N
    <2> QED BY <1>2, <1>3, Climbing
  <1> QED BY <1>1, <1>4

\* What the values of m over the subsets of D add up to.
SumsOf(D, m) ==
    {f \in [SUBSET D -> Int] :
        f[{}] = 0 /\ \A K \in SUBSET D : \A x \in D \ K : f[K \cup {x}] = f[K] + m[x]}

LEMMA SumExists ==
    ASSUME NEW D, IsFiniteSet(D), NEW m, \A x \in D : m[x] \in Int
    PROVE  SumsOf(D, m) # {}
  <1> DEFINE S == {K \in SUBSET D : SumsOf(K, m) # {}}
  <1>1. {} \in S
    <2> DEFINE f == [K \in SUBSET {} |-> 0]
    <2>1. f \in [SUBSET {} -> Int] /\ f[{}] = 0
      OBVIOUS
    <2>2. f \in SumsOf({}, m)
      BY <2>1 DEF SumsOf
    <2> QED BY <2>2
  <1>2. ASSUME NEW E \in SUBSET D, NEW y \in D \ E, E \in S PROVE E \cup {y} \in S
    <2>1. PICK f : f \in SumsOf(E, m)
      BY <1>2
    <2>2. f \in [SUBSET E -> Int] /\ f[{}] = 0
          /\ \A K \in SUBSET E : \A x \in E \ K : f[K \cup {x}] = f[K] + m[x]
      BY <2>1 DEF SumsOf
    <2> DEFINE g == [K \in SUBSET (E \cup {y}) |-> IF y \in K THEN f[K \ {y}] + m[y] ELSE f[K]]
    <2>3. ASSUME NEW K \in SUBSET (E \cup {y})
          PROVE (IF y \in K THEN f[K \ {y}] + m[y] ELSE f[K]) \in Int
      <3>1. K \ {y} \in SUBSET E /\ (y \notin K => K \in SUBSET E) /\ m[y] \in Int
        OBVIOUS
      <3> QED BY <3>1, <2>2
    <2>4. g \in [SUBSET (E \cup {y}) -> Int]
      BY <2>3
    <2>5. g[{}] = 0
      BY <2>2
    <2>6. ASSUME NEW K \in SUBSET (E \cup {y}), NEW x \in (E \cup {y}) \ K
          PROVE g[K \cup {x}] = g[K] + m[x]
      <3>1. K \cup {x} \in SUBSET (E \cup {y})
        OBVIOUS
      <3>2. CASE x = y
        <4>1. y \notin K /\ (K \cup {x}) \ {y} = K /\ y \in K \cup {x}
          BY <3>2
        <4> QED BY <3>1, <3>2, <4>1
      <3>3. CASE x # y /\ y \in K
        <4>1. (K \cup {x}) \ {y} = (K \ {y}) \cup {x} /\ K \ {y} \in SUBSET E /\ x \in E \ (K \ {y})
              /\ y \in K \cup {x}
          BY <3>3
        <4>2. f[(K \cup {x}) \ {y}] = f[K \ {y}] + m[x]
          BY <4>1, <2>2
        <4>3. f[K \ {y}] \in Int /\ m[x] \in Int /\ m[y] \in Int
          BY <4>1, <2>2
        <4>4. g[K] = f[K \ {y}] + m[y] /\ g[K \cup {x}] = f[(K \cup {x}) \ {y}] + m[y]
          BY <3>1, <3>3, <4>1
        <4> HIDE DEF g
        <4> QED BY <4>2, <4>3, <4>4
      <3>4. CASE x # y /\ y \notin K
        <4>1. K \in SUBSET E /\ x \in E \ K /\ y \notin K \cup {x}
          BY <3>4
        <4> QED BY <3>1, <3>4, <4>1, <2>2
      <3> QED BY <3>2, <3>3, <3>4
    <2> HIDE DEF g
    <2>7. g \in SumsOf(E \cup {y}, m)
      BY <2>4, <2>5, <2>6 DEF SumsOf
    <2> QED BY <2>7
  <1> HIDE DEF S
  <1>3. \A K \in SUBSET D : K \in S
    BY <1>1, <1>2, FiniteClimbing
  <1> QED BY <1>3 DEF S

Scales(D, m, w, r) == \A x \in D : m[x] \in Int /\ w[x] = r * m[x]
Scaled(D, f, g, r) == \A K \in SUBSET D : g[K] = r * f[K]

\* Where the values of one are r times those of the other, so are their sums.
LEMMA SumsScale ==
    ASSUME NEW D, IsFiniteSet(D), NEW E, D \subseteq E, NEW m, NEW w, NEW r \in Int,
           Scales(D, m, w, r),
           NEW f \in SumsOf(D, m), NEW g \in SumsOf(E, w)
    PROVE  Scaled(D, f, g, r)
  <1> DEFINE S == {K \in SUBSET D : g[K] = r * f[K]}
  <1>1. f \in [SUBSET D -> Int] /\ f[{}] = 0
        /\ \A K \in SUBSET D : \A x \in D \ K : f[K \cup {x}] = f[K] + m[x]
    BY DEF SumsOf
  <1>2. g[{}] = 0 /\ \A K \in SUBSET E : \A x \in E \ K : g[K \cup {x}] = g[K] + w[x]
    BY DEF SumsOf
  <1>3. {} \in S
    BY <1>1, <1>2
  <1>0. \A x \in D : m[x] \in Int /\ w[x] = r * m[x]
    BY DEF Scales
  <1>4. ASSUME NEW K \in SUBSET D, NEW x \in D \ K, K \in S PROVE K \cup {x} \in S
    <2>1. K \cup {x} \in SUBSET D /\ K \in SUBSET E /\ x \in E \ K
      OBVIOUS
    <2>2. g[K \cup {x}] = r * f[K] + r * m[x]
      BY <1>0, <1>2, <1>4, <2>1
    <2>3. f[K \cup {x}] = f[K] + m[x] /\ f[K] \in Int /\ m[x] \in Int
      BY <1>0, <1>1
    <2>4. \A a, b \in Int : r * (a + b) = r * a + r * b
      OBVIOUS
    <2> QED BY <2>1, <2>2, <2>3, <2>4
  <1> HIDE DEF S
  <1>5. \A K \in SUBSET D : K \in S
    BY <1>3, <1>4, FiniteClimbing
  <1> QED BY <1>5 DEF S, Scaled

LEMMA SumsAgree ==
    ASSUME NEW D, IsFiniteSet(D), NEW E, D \subseteq E, NEW m, NEW w,
           \A x \in D : m[x] \in Int /\ w[x] = m[x],
           NEW f \in SumsOf(D, m), NEW g \in SumsOf(E, w)
    PROVE  g[D] = f[D]
  <1>1. PICK r \in Int : r = 1
    OBVIOUS
  <1>2. Scales(D, m, w, r)
    BY <1>1 DEF Scales
  <1>3. Scaled(D, f, g, r)
    BY <1>2, SumsScale
  <1>4. f[D] \in Int
    BY DEF SumsOf
  <1>5. g[D] = r * f[D]
    BY <1>3 DEF Scaled
  <1> QED BY <1>1, <1>4, <1>5

-----------------------------------------------------------------------------
(***************************************************************************)
(* Places in an order: every place from 1 on is taken once.                *)
(***************************************************************************)
\* A strict order of E, and the number of those before k.
Orders(E) ==
    {R \in SUBSET (E \X E) :
        /\ \A k \in E : <<k, k>> \notin R
        /\ \A i, j, k \in E : <<i, j>> \in R /\ <<j, k>> \in R => <<i, k>> \in R
        /\ \A j, k \in E : j = k \/ <<j, k>> \in R \/ <<k, j>> \in R}

Rank(E, R, k) == Cardinality({j \in E : <<j, k>> \in R})

LEMMA RanksCount ==
    ASSUME NEW E, IsFiniteSet(E), NEW R \in Orders(E)
    PROVE  /\ Cardinality(E) \in Nat
           /\ \A k \in E : Rank(E, R, k) \in 0 .. Cardinality(E) - 1
           /\ \A j, k \in E : Rank(E, R, j) = Rank(E, R, k) => j = k
           /\ \A n \in 0 .. Cardinality(E) - 1 : \E k \in E : Rank(E, R, k) = n
  <1> DEFINE ahead(k) == {j \in E : <<j, k>> \in R}
             rank == [k \in E |-> Cardinality(ahead(k))]
             c == Cardinality(E)
  <1>1. /\ \A k \in E : <<k, k>> \notin R
        /\ \A i, j, k \in E : <<i, j>> \in R /\ <<j, k>> \in R => <<i, k>> \in R
        /\ \A j, k \in E : j = k \/ <<j, k>> \in R \/ <<k, j>> \in R
    BY DEF Orders
  <1>2. c \in Nat
    BY FS_CardinalityType
  <1>3. ASSUME NEW k \in E PROVE IsFiniteSet(ahead(k)) /\ Cardinality(ahead(k)) \in 0 .. c - 1
    <2>1. ahead(k) \in SUBSET E /\ k \notin ahead(k)
      BY <1>1
    <2> HIDE DEF ahead
    <2>2. IsFiniteSet(ahead(k)) /\ Cardinality(ahead(k)) <= c /\ ahead(k) # E
      BY <2>1, FS_Subset
    <2>3. Cardinality(ahead(k)) # c
      BY <2>1, <2>2, FS_Subset
    <2>4. Cardinality(ahead(k)) \in Nat
      BY <2>2, FS_CardinalityType
    <2> HIDE DEF c
    <2> QED BY <1>2, <2>2, <2>3, <2>4
  <1>4. ASSUME NEW j \in E, NEW k \in E, <<j, k>> \in R
        PROVE  Cardinality(ahead(j)) # Cardinality(ahead(k))
    <2>1. ahead(j) \in SUBSET ahead(k) /\ j \in ahead(k) /\ j \notin ahead(j)
      BY <1>1, <1>4
    <2>2. IsFiniteSet(ahead(k))
      BY <1>3
    <2> HIDE DEF ahead
    <2> QED BY <2>1, <2>2, FS_Subset
  <1>5. \A j, k \in E : Cardinality(ahead(j)) = Cardinality(ahead(k)) => j = k
    <2> HIDE DEF ahead
    <2> QED BY <1>1, <1>4
  <1>6. IsFiniteSet(0 .. c - 1) /\ Cardinality(0 .. c - 1) = c
    <2> HIDE DEF c
    <2>1. 0 \in Int /\ c - 1 \in Int
      BY <1>2
    <2>2. IsFiniteSet(0 .. c - 1) /\ Cardinality(0 .. c - 1) = IF 0 > c - 1 THEN 0 ELSE (c - 1) - 0 + 1
      BY <2>1, FS_Interval
    <2> QED BY <1>2, <2>2
  <1>7. rank \in Injection(E, 0 .. c - 1)
    <2> HIDE DEF ahead, c
    <2> QED BY <1>3, <1>5 DEF Injection, IsInjective
  <1>8. rank \in Surjection(E, 0 .. c - 1)
    <2> HIDE DEF rank
    <2> QED BY <1>6, <1>7, FS_Injection
  <1>9. \A n \in 0 .. c - 1 : \E k \in E : Cardinality(ahead(k)) = n
    <2> HIDE DEF ahead, c
    <2> QED BY <1>8 DEF Surjection
  <1>10. \A k \in E : Rank(E, R, k) = Cardinality(ahead(k))
    BY DEF Rank
  <1> HIDE DEF ahead
  <1> QED BY <1>2, <1>3, <1>5, <1>9, <1>10

-----------------------------------------------------------------------------
(***************************************************************************)
(* TraceSpace: the mass of a shadow state is 1 after every step.           *)
(***************************************************************************)
\* The mass of a state, its clusters finite in number.
LEMMA MassIsSum ==
    ASSUME NEW s \in States, IsFiniteSet(DOMAIN s.mass), NEW f \in SumsOf(DOMAIN s.mass, s.mass)
    PROVE  MassOf(s) = s.null + f[DOMAIN s.mass]
  <1> DEFINE D == DOMAIN s.mass
             Made(h) == [K \in SUBSET D |->
                           IF K = {} THEN 0
                           ELSE LET k == CHOOSE k \in K : TRUE IN s.mass[k] + h[K \ {k}]]
             sum == CHOOSE h : h = Made(h)
  <1>1. MassOf(s) = s.null + sum[D]
    BY DEF MassOf
  <1>2. f \in [SUBSET D -> Int] /\ f[{}] = 0
        /\ \A K \in SUBSET D : \A x \in D \ K : f[K \cup {x}] = f[K] + s.mass[x]
    BY DEF SumsOf
  <1>3. \A k \in D : s.mass[k] \in Int
    BY StateParts
  <1>4. \E h : h = Made(h)
    <2>1. ASSUME NEW K \in SUBSET D
          PROVE f[K] = IF K = {} THEN 0
                       ELSE LET k == CHOOSE k \in K : TRUE IN s.mass[k] + f[K \ {k}]
      <3> DEFINE k == CHOOSE k \in K : TRUE
      <3>1. CASE K = {}
        BY <3>1, <1>2
      <3>2. CASE K # {}
        <4>1. k \in K
          BY <3>2
        <4> HIDE DEF k
        <4>2. K \ {k} \in SUBSET D /\ k \in D \ (K \ {k}) /\ (K \ {k}) \cup {k} = K
          BY <4>1
        <4>3. f[K] = f[K \ {k}] + s.mass[k]
          BY <4>2, <1>2
        <4>4. f[K \ {k}] \in Int /\ s.mass[k] \in Int
          BY <4>2, <1>2, <1>3
        <4>5. f[K] = s.mass[k] + f[K \ {k}]
          BY <4>3, <4>4
        <4> USE DEF k
        <4> QED BY <3>2, <4>5
      <3> QED BY <3>1, <3>2
    <2>2. f = Made(f)
      BY <2>1, <1>2
    <2> QED BY <2>2
  <1>5. sum = Made(sum)
    BY <1>4
  <1> HIDE DEF sum
  <1>6. sum[{}] = 0
    BY <1>5
  <1> DEFINE N == {n \in Nat : \A K \in SUBSET D : Cardinality(K) = n => sum[K] = f[K]}
  <1>7. \A K \in SUBSET D : IsFiniteSet(K) /\ Cardinality(K) \in Nat
    BY FS_Subset, FS_CardinalityType
  <1>8. 0 \in N
    <2>1. \A K \in SUBSET D : Cardinality(K) = 0 => K = {}
      BY <1>7, FS_EmptySet
    <2> QED BY <2>1, <1>2, <1>6
  <1>9. ASSUME NEW n \in Nat, n \in N PROVE n + 1 \in N
    <2> SUFFICES ASSUME NEW K \in SUBSET D, Cardinality(K) = n + 1 PROVE sum[K] = f[K]
      OBVIOUS
    <2> DEFINE k == CHOOSE k \in K : TRUE
    <2>1. K # {}
      <3>1. Cardinality({}) = 0 /\ n + 1 # 0
        BY FS_EmptySet
      <3> QED BY <3>1
    <2>2. k \in K
      BY <2>1
    <2>3. sum[K] = s.mass[k] + sum[K \ {k}]
      BY <1>5, <2>1
    <2> HIDE DEF k
    <2>4. Cardinality(K \ {k}) = Cardinality(K) - 1
      BY <1>7, <2>2, FS_RemoveElement
    <2>5. K \ {k} \in SUBSET D /\ k \in D \ (K \ {k}) /\ (K \ {k}) \cup {k} = K
      BY <2>2
    <2>6. Cardinality(K \ {k}) = n
      BY <2>4
    <2>7. sum[K \ {k}] = f[K \ {k}]
      BY <1>9, <2>5, <2>6
    <2>8. f[K] = f[K \ {k}] + s.mass[k]
      BY <2>5, <1>2
    <2>9. f[K \ {k}] \in Int /\ s.mass[k] \in Int
      BY <2>5, <1>2, <1>3
    <2> QED BY <2>3, <2>7, <2>8, <2>9
  <1>10. \A n \in Nat : n \in N
    <2> HIDE DEF N
    <2> QED BY <1>8, <1>9, Climbing
  <1>11. sum[D] = f[D]
    BY <1>7, <1>10
  <1> HIDE DEF D
  <1> QED BY <1>1, <1>11 DEF D

\* Who is ahead of whom when the capacity is applied.
LEMMA AheadOrders ==
    ASSUME NEW s \in States, NEW c \in Clusters
    PROVE  {d \in (DOMAIN s.mass \cup {c}) \X (DOMAIN s.mass \cup {c}) : Ahead(s, c, d[1], d[2])}
             \in Orders(DOMAIN s.mass \cup {c})
  <1> DEFINE E == DOMAIN s.mass \cup {c}
             R == {d \in E \X E : Ahead(s, c, d[1], d[2])}
  <1>1. E \subseteq Nat
    BY StateParts, TraceAssumption
  <1>2. \A k \in E : Priority(s, c, k) \in Int
    <2>0. Mixed(s, c) \in [E -> Int]
      BY MixedIsMass
    <2> HIDE DEF E
    <2>1. ASSUME NEW k \in E PROVE Priority(s, c, k) \in Int
      <3>1. Mixed(s, c)[k] \in Int
        BY <2>0
      <3>2. Hysteresis * Finer * s.one \in Int
        BY StateParts, TraceAssumption DEF Finer
      <3> QED BY <3>1, <3>2 DEF Priority
    <2> QED BY <2>1
  <1> HIDE DEF E
  <1>3. \A j, k \in E : <<j, k>> \in R
                          <=> \/ Priority(s, c, j) > Priority(s, c, k)
                              \/ Priority(s, c, j) = Priority(s, c, k) /\ j < k
    BY DEF Ahead
  <1>4. R \in SUBSET (E \X E)
    OBVIOUS
  <1> HIDE DEF R
  <1>5. \A k \in E : k \in Nat
    BY <1>1
  <1>6. \A k \in E : <<k, k>> \notin R
    BY <1>2, <1>3, <1>5
  <1>7. \A i, j, k \in E : <<i, j>> \in R /\ <<j, k>> \in R => <<i, k>> \in R
    BY <1>2, <1>3, <1>5
  <1>8. ASSUME NEW j \in E, NEW k \in E PROVE j = k \/ <<j, k>> \in R \/ <<k, j>> \in R
    <2>1. j \in Nat /\ k \in Nat /\ Priority(s, c, j) \in Int /\ Priority(s, c, k) \in Int
      BY <1>2, <1>5
    <2>2. CASE Priority(s, c, j) = Priority(s, c, k)
      BY <2>1, <2>2, <1>3
    <2>3. CASE Priority(s, c, j) # Priority(s, c, k)
      <3>1. Priority(s, c, j) > Priority(s, c, k) \/ Priority(s, c, k) > Priority(s, c, j)
        BY <2>1, <2>3
      <3> QED BY <3>1, <1>3
    <2> QED BY <2>2, <2>3
  <1>9. R \in Orders(E)
    BY <1>4, <1>6, <1>7, <1>8 DEF Orders
  <1> QED BY <1>9 DEF R, E

\* A full shadow state gives up one cluster at most.
LEMMA KeptKeepsCapacity ==
    ASSUME NEW s \in States, IsFiniteSet(DOMAIN s.mass), Cardinality(DOMAIN s.mass) <= Capacity,
           NEW c \in Clusters
    PROVE  /\ IsFiniteSet(DOMAIN s.mass \cup {c})
           /\ IsFiniteSet(Kept(s, c)) /\ Cardinality(Kept(s, c)) <= Capacity
           /\ \A j, k \in (DOMAIN s.mass \cup {c}) \ Kept(s, c) : j = k
  <1> DEFINE E == DOMAIN s.mass \cup {c}
             R == {d \in E \X E : Ahead(s, c, d[1], d[2])}
  <1>1. IsFiniteSet(E) /\ Cardinality(E) <= Capacity + 1 /\ Cardinality(E) \in Nat /\ Capacity \in Nat
    <2>1. Capacity \in Nat /\ Cardinality(DOMAIN s.mass) \in Nat
      BY TraceAssumption, FS_CardinalityType
    <2>2. IsFiniteSet(E) /\ Cardinality(E) = IF c \in DOMAIN s.mass THEN Cardinality(DOMAIN s.mass)
                                             ELSE Cardinality(DOMAIN s.mass) + 1
      BY FS_AddElement
    <2> QED BY <2>1, <2>2
  <1>2. R \in Orders(E)
    BY AheadOrders
  <1>3. DOMAIN Mixed(s, c) = E
    BY MixedIsMass
  <1>4. Kept(s, c) = {k \in E : Rank(E, R, k) < Capacity}
    <2>1. \A k \in E : {j \in E : <<j, k>> \in R} = {j \in E : Ahead(s, c, j, k)}
      <3> HIDE DEF E
      <3> QED OBVIOUS
    <2> HIDE DEF R, E
    <2>2. \A k \in E : Rank(E, R, k) = Cardinality({j \in E : Ahead(s, c, j, k)})
      BY <2>1 DEF Rank
    <2> QED BY <1>3, <2>2 DEF Kept
  <1> HIDE DEF R, E
  <1>5. /\ \A k \in E : Rank(E, R, k) \in 0 .. Cardinality(E) - 1
        /\ \A j, k \in E : Rank(E, R, j) = Rank(E, R, k) => j = k
    BY <1>1, <1>2, RanksCount
  <1>6. Kept(s, c) \in SUBSET E
    BY <1>4
  <1>7. IsFiniteSet(Kept(s, c))
    BY <1>1, <1>6, FS_Subset
  <1>8. Cardinality(Kept(s, c)) <= Capacity
    <2> DEFINE rank == [k \in Kept(s, c) |-> Rank(E, R, k)]
    <2>1. \A k \in Kept(s, c) : Rank(E, R, k) \in 0 .. Capacity - 1
      BY <1>1, <1>4, <1>5
    <2>2. rank \in Injection(Kept(s, c), 0 .. Capacity - 1)
      BY <1>5, <1>6, <2>1 DEF Injection, IsInjective
    <2>3. IsFiniteSet(0 .. Capacity - 1) /\ Cardinality(0 .. Capacity - 1) = Capacity
      <3>1. 0 \in Int /\ Capacity - 1 \in Int
        BY <1>1
      <3>2. IsFiniteSet(0 .. Capacity - 1)
            /\ Cardinality(0 .. Capacity - 1) = IF 0 > Capacity - 1 THEN 0 ELSE (Capacity - 1) - 0 + 1
        BY <3>1, FS_Interval
      <3> QED BY <1>1, <3>2
    <2> HIDE DEF rank
    <2>4. Cardinality(Kept(s, c)) <= Cardinality(0 .. Capacity - 1)
      BY <2>2, <2>3, FS_Injection
    <2> QED BY <2>3, <2>4
  <1>9. \A j, k \in E \ Kept(s, c) : j = k
    <2>1. \A k \in E \ Kept(s, c) : Rank(E, R, k) = Capacity
      BY <1>1, <1>4, <1>5
    <2> QED BY <2>1, <1>5
  <1> QED BY <1>1, <1>7, <1>8, <1>9 DEF E

Balanced ==
    {s \in States : /\ IsFiniteSet(DOMAIN s.mass) /\ Cardinality(DOMAIN s.mass) <= Capacity
                    /\ MassOf(s) = s.one}

\* The mass that is kept and the mass that is dropped add up.
LEMMA MassesAddUp ==
    ASSUME NEW s \in Balanced, NEW c \in Clusters, NEW g \in SumsOf(DOMAIN s.mass \cup {c}, Mixed(s, c))
    PROVE  /\ NullMass(s, c) + g[Kept(s, c)] = Finer * s.one
           /\ g[Kept(s, c)] \in Int
  <1> DEFINE D == DOMAIN s.mass
             E == DOMAIN s.mass \cup {c}
  <1>1. s \in States /\ IsFiniteSet(D) /\ Cardinality(D) <= Capacity /\ MassOf(s) = s.one
    BY DEF Balanced
  <1>2. s.one \in Nat /\ s.null \in Int /\ \A k \in D : s.mass[k] \in Int
    BY <1>1, StateParts
  <1>3. Mixed(s, c) \in [E -> Int] /\ Kept(s, c) \subseteq E /\ Dropped(s, c) \in Int
    BY <1>1, MixedIsMass
  <1>4. IsFiniteSet(E) /\ \A j, k \in E \ Kept(s, c) : j = k
    BY <1>1, KeptKeepsCapacity
  <1>5. /\ g \in [SUBSET E -> Int] /\ g[{}] = 0
        /\ \A K \in SUBSET E : \A x \in E \ K : g[K \cup {x}] = g[K] + Mixed(s, c)[x]
    BY DEF SumsOf
  <1>6. PICK f : f \in SumsOf(D, s.mass)
    <2>1. SumsOf(D, s.mass) # {}
      BY <1>1, <1>2, SumExists
    <2> QED BY <2>1
  <1>7. s.one = s.null + f[D] /\ f[D] \in Int
    <2>1. MassOf(s) = s.null + f[D]
      BY <1>1, <1>6, MassIsSum
    <2>2. f \in [SUBSET D -> Int]
      BY <1>6 DEF SumsOf
    <2> QED BY <1>1, <2>1, <2>2
  <1>8. \A k \in D : Mixed(s, c)[k] = 16 * s.mass[k]
    <2>1. ASSUME NEW k \in D PROVE Mixed(s, c)[k] = 16 * s.mass[k]
      <3>1. ~(k = c /\ Novel(s, c))
        BY DEF Novel
      <3>2. Mixed(s, c)[k] = Retained(s.mass[k]) + 0
        BY <3>1 DEF Mixed
      <3>3. Retained(s.mass[k]) \in Int /\ Retained(s.mass[k]) = 16 * s.mass[k]
        BY <1>2 DEF Retained
      <3> QED BY <3>2, <3>3
    <2> QED BY <2>1
  <1>9. g[D] = 16 * f[D]
    <2>1. D \subseteq E /\ 16 \in Int
      OBVIOUS
    <2>2. Scales(D, s.mass, Mixed(s, c), 16)
      BY <1>2, <1>8 DEF Scales
    <2>3. Scaled(D, f, g, 16)
      BY <1>1, <1>6, <2>1, <2>2, SumsScale
    <2> QED BY <2>3 DEF Scaled
  <1>10. g[E] + (IF Novel(s, c) THEN 0 ELSE Injected(s)) = 16 * f[D] + 3 * s.one
    <2>1. CASE c \in D
      <3>1. E = D /\ ~Novel(s, c)
        BY <2>1 DEF Novel
      <3> QED BY <3>1, <1>9 DEF Injected
    <2>2. CASE c \notin D
      <3>1. Novel(s, c)
        BY <2>2 DEF Novel
      <3>2. Mixed(s, c)[c] = 0 + 3 * s.one
        BY <2>2, <3>1 DEF Mixed, Injected
      <3>3. D \in SUBSET E /\ c \in E \ D /\ E = D \cup {c}
        BY <2>2
      <3> HIDE DEF D, E
      <3>4. g[E] = g[D] + Mixed(s, c)[c]
        BY <1>5, <3>3
      <3> QED BY <1>2, <1>7, <1>9, <3>1, <3>2, <3>4
    <2> QED BY <2>1, <2>2
  <1>11. g[E] = g[Kept(s, c)] + Dropped(s, c)
    <2> DEFINE out == E \ Kept(s, c)
               k == CHOOSE k \in out : TRUE
    <2>1. DOMAIN Mixed(s, c) = E
      BY <1>3
    <2>2. CASE out = {}
      <3>1. Kept(s, c) = E
        BY <1>3, <2>2
      <3>2. Dropped(s, c) = 0
        BY <2>1, <2>2 DEF Dropped
      <3>3. g[E] \in Int
        BY <1>5
      <3> QED BY <3>1, <3>2, <3>3
    <2>3. CASE out # {}
      <3>1. k \in out
        BY <2>3
      <3>2. Dropped(s, c) = Mixed(s, c)[k]
        BY <2>1, <2>3 DEF Dropped
      <3> HIDE DEF k
      <3>3. E = Kept(s, c) \cup {k} /\ Kept(s, c) \in SUBSET E /\ k \in E \ Kept(s, c)
        BY <1>3, <1>4, <3>1
      <3> HIDE DEF E
      <3> QED BY <3>2, <3>3, <1>5
    <2> QED BY <2>2, <2>3
  <1>12. g[Kept(s, c)] \in Int
    BY <1>3, <1>5
  <1>13. NullMass(s, c) = 16 * s.null + (20 * s.one - 16 * s.one - 3 * s.one)
                            + (IF Novel(s, c) THEN 0 ELSE Injected(s)) + Dropped(s, c)
    BY DEF NullMass, Retained, Finer, Injected
  <1> DEFINE extra == IF Novel(s, c) THEN 0 ELSE Injected(s)
  <1>14. extra \in Int
    BY <1>2 DEF Injected
  <1> HIDE DEF D, E, extra
  <1>15. g[E] \in Int
    BY <1>5
  <1>16. /\ g[E] + extra = 16 * f[D] + 3 * s.one
         /\ NullMass(s, c) = 16 * s.null + (20 * s.one - 16 * s.one - 3 * s.one) + extra + Dropped(s, c)
    BY <1>10, <1>13 DEF extra
  <1>17. PICK e \in Int, x \in Int, o \in Int, n \in Int, b \in Int, d \in Int, k \in Int :
            /\ e = g[E] /\ x = extra /\ o = s.one /\ n = s.null /\ b = f[D] /\ d = Dropped(s, c)
            /\ k = g[Kept(s, c)]
    BY <1>2, <1>3, <1>7, <1>12, <1>14, <1>15
  <1>18. NullMass(s, c) + g[Kept(s, c)] = 20 * s.one
    <2>1. e + x = 16 * b + 3 * o /\ o = n + b /\ e = k + d
      BY <1>7, <1>11, <1>16, <1>17
    <2>2. NullMass(s, c) = 16 * n + (20 * o - 16 * o - 3 * o) + x + d
      BY <1>16, <1>17
    <2>3. NullMass(s, c) + k = 20 * o
      BY <2>1, <2>2
    <2> QED BY <2>3, <1>17
  <1> QED BY <1>12, <1>18 DEF Finer

LEMMA StepKeepsBalance ==
    ASSUME NEW s \in Balanced, NEW c \in Clusters
    PROVE  ShadowStep(s, c) \in Balanced
  <1> DEFINE t == ShadowStep(s, c)
             E == DOMAIN s.mass \cup {c}
             M == Mixed(s, c)
             K == Kept(s, c)
  <1>1. s \in States /\ IsFiniteSet(DOMAIN s.mass) /\ Cardinality(DOMAIN s.mass) <= Capacity
    BY DEF Balanced
  <1>2. t \in States
    BY <1>1, StepKeepsStates
  <1>3. IsFiniteSet(E) /\ IsFiniteSet(K) /\ Cardinality(K) <= Capacity
    BY <1>1, KeptKeepsCapacity
  <1>4. M \in [E -> Int] /\ K \in SUBSET E
    BY <1>1, MixedIsMass
  <1>5. t.mass = [k \in K |-> M[k]] /\ t.null = NullMass(s, c) /\ t.one = Finer * s.one
    BY DEF ShadowStep
  <1> HIDE DEF M, K, t
  <1>6. DOMAIN t.mass = K /\ \A k \in K : t.mass[k] = M[k] /\ M[k] \in Int
    BY <1>4, <1>5
  <1>7. PICK g : g \in SumsOf(E, M)
    <2>1. \A k \in E : M[k] \in Int
      BY <1>4
    <2>2. SumsOf(E, M) # {}
      <3> HIDE DEF E
      <3> QED BY <1>3, <2>1, SumExists
    <2> QED BY <2>2
  <1>8. PICK f : f \in SumsOf(K, t.mass)
    <2>1. SumsOf(K, t.mass) # {}
      BY <1>3, <1>6, SumExists
    <2> QED BY <2>1
  <1>9. MassOf(t) = t.null + f[K]
    BY <1>2, <1>3, <1>6, <1>8, MassIsSum
  <1>10. NullMass(s, c) + g[K] = Finer * s.one /\ g[K] \in Int
    BY <1>7, MassesAddUp DEF M, K
  <1>11. f[K] = g[K]
    <2>1. \A x \in K : t.mass[x] \in Int /\ M[x] = t.mass[x]
      BY <1>6
    <2>2. K \subseteq E
      BY <1>4
    <2> HIDE DEF E
    <2> QED BY <1>3, <1>7, <1>8, <2>1, <2>2, SumsAgree
  <1>12. MassOf(t) = t.one
    BY <1>5, <1>9, <1>10, <1>11
  <1>13. t \in Balanced
    BY <1>2, <1>3, <1>6, <1>12 DEF Balanced
  <1> QED BY <1>13 DEF t

LEMMA BlankIsBalanced == Blank \in Balanced
  <1>1. Blank \in States /\ Blank.one = 1 /\ Blank.null = 1 /\ Blank.mass = <<>>
    BY BlankState
  <1>2. DOMAIN Blank.mass = {}
    BY <1>1
  <1>3. IsFiniteSet(DOMAIN Blank.mass) /\ Cardinality(DOMAIN Blank.mass) <= Capacity
    BY <1>2, FS_EmptySet, TraceAssumption
  <1>4. PICK f : f \in SumsOf(DOMAIN Blank.mass, Blank.mass)
    <2>1. \A k \in DOMAIN Blank.mass : Blank.mass[k] \in Int
      BY <1>2
    <2>2. SumsOf(DOMAIN Blank.mass, Blank.mass) # {}
      BY <1>3, <2>1, SumExists
    <2> QED BY <2>2
  <1>5. MassOf(Blank) = Blank.null + f[DOMAIN Blank.mass]
    BY <1>1, <1>3, <1>4, MassIsSum
  <1>6. f[{}] = 0
    BY <1>4 DEF SumsOf
  <1> QED BY <1>1, <1>2, <1>3, <1>5, <1>6 DEF Balanced

LEMMA SteppedKeepsBalance ==
    ASSUME NEW s \in Balanced, NEW cs \in Seq(Clusters)
    PROVE  Stepped(s, cs) \in Balanced
  <1>1. s \in States
    BY DEF Balanced
  <1>2. PICK f \in [0 .. Len(cs) -> States] :
              /\ f[0] = s /\ \A n \in 1 .. Len(cs) : f[n] = ShadowStep(f[n - 1], cs[n])
              /\ Stepped(s, cs) = f[Len(cs)]
    BY <1>1, SteppedGives DEF StateRuns
  <1> DEFINE S == {n \in Nat : n <= Len(cs) => f[n] \in Balanced}
  <1>3. Len(cs) \in Nat
    OBVIOUS
  <1>4. 0 \in S
    BY <1>2
  <1>5. ASSUME NEW n \in Nat, n \in S PROVE n + 1 \in S
    <2> SUFFICES ASSUME n + 1 <= Len(cs) PROVE f[n + 1] \in Balanced
      OBVIOUS
    <2>1. n <= Len(cs) /\ n + 1 \in 1 .. Len(cs) /\ (n + 1) - 1 = n /\ cs[n + 1] \in Clusters
      BY <1>3
    <2> QED BY <2>1, <1>2, <1>5, StepKeepsBalance
  <1>6. \A n \in Nat : n \in S
    <2> HIDE DEF S
    <2> QED BY <1>4, <1>5, Climbing
  <1> QED BY <1>2, <1>3, <1>6

-----------------------------------------------------------------------------
(***************************************************************************)
(* TraceSpace: the traces in the order of time, and what they tell.        *)
(***************************************************************************)
\* The traces of S in the order of their stamps; the clusters of the first n
\* traces in that order.
Earlier(S) == {d \in S \X S : archive[d[1]].stamp < archive[d[2]].stamp}

Tells(q, n) ==
    /\ q \in Seq(Clusters) /\ Len(q) = n
    /\ \A i \in 1 .. n : q[Rank(1 .. n, Earlier(1 .. n), i) + 1] = ClusterOf(i)

\* A shadow state that knows the first n traces.
Current(s, n) == \E q \in Seq(Clusters) : Tells(q, n) /\ s = Stepped(Blank, q)

StampsDiffer == \A i, j \in Traces : archive[i].stamp = archive[j].stamp => i = j

LEMMA SteppedNowhere == Stepped(Blank, <<>>) = Blank
  <1>1. Blank \in States /\ <<>> \in Seq(Clusters) /\ Len(<<>>) = 0
    BY BlankState
  <1>2. PICK f \in StateRuns(Blank, <<>>, Len(<<>>)) : Stepped(Blank, <<>>) = f[Len(<<>>)]
    BY <1>1, SteppedGives
  <1>3. f[0] = Blank
    BY <1>2 DEF StateRuns
  <1> QED BY <1>1, <1>2, <1>3

LEMMA CurrentFromNothing == Current(Blank, 0)
  <1>1. <<>> \in Seq(Clusters) /\ Len(<<>>) = 0 /\ \A i \in 1 .. 0 : FALSE
    OBVIOUS
  <1>2. Tells(<<>>, 0)
    BY <1>1 DEF Tells
  <1> QED BY <1>1, <1>2, SteppedNowhere DEF Current

LEMMA CurrentStays ==
    ASSUME NEW n \in Nat, NEW s, Current(s, n),
           \A i \in 1 .. n : archive'[i].stamp = archive[i].stamp /\ ClusterOf(i)' = ClusterOf(i)
    PROVE  Current(s, n)'
  <1>1. Earlier(1 .. n)' = Earlier(1 .. n)
    BY DEF Earlier
  <1>2. PICK q \in Seq(Clusters) : Tells(q, n) /\ s = Stepped(Blank, q)
    BY DEF Current
  <1>3. Len(q) = n /\ \A i \in 1 .. n : q[Rank(1 .. n, Earlier(1 .. n), i) + 1] = ClusterOf(i)
    BY <1>2 DEF Tells
  <1>4. \A i \in 1 .. n : Rank(1 .. n, Earlier(1 .. n), i)' = Rank(1 .. n, Earlier(1 .. n), i)
    BY <1>1 DEF Rank
  <1>5. \A i \in 1 .. n : q[Rank(1 .. n, Earlier(1 .. n)', i) + 1] = ClusterOf(i)'
    BY <1>1, <1>3
  <1>6. Tells(q, n)'
    BY <1>1, <1>3, <1>5 DEF Tells
  <1> QED BY <1>2, <1>6 DEF Current

LEMMA StampIsNumber ==
    ASSUME TraceInv, NEW n \in Nat, n <= Len(archive)
    PROVE  \A i \in 1 .. n : i \in Traces /\ archive[i].stamp \in Nat
  <1>1. archive \in Seq(TraceRows) /\ Len(archive) \in Nat
    BY DEF TraceInv
  <1>2. \A i \in 1 .. n : i \in Traces
    BY <1>1 DEF Traces
  <1>3. \A i \in Traces : archive[i] \in TraceRows
    BY <1>1 DEF Traces
  <1>4. \A x \in TraceRows : x.stamp \in Nat
    BY DEF TraceRows
  <1> QED BY <1>2, <1>3, <1>4

LEMMA StampsOrder ==
    ASSUME TraceInv, StampsDiffer, NEW S \in SUBSET Traces
    PROVE  /\ Earlier(S) \in Orders(S)
           /\ IsFiniteSet(S) /\ Cardinality(S) \in Nat /\ Cardinality(S) <= Len(archive)
           /\ Cardinality(S) = Len(archive) => S = Traces
  <1>1. Len(archive) \in Nat /\ Traces = 1 .. Len(archive)
    BY DEF TraceInv, Traces
  <1>2. \A i \in S : i \in Traces /\ archive[i].stamp \in Nat
    BY <1>1, StampIsNumber
  <1>3. \A i, j \in S : <<i, j>> \in Earlier(S) <=> archive[i].stamp < archive[j].stamp
    BY DEF Earlier
  <1>4. Earlier(S) \in SUBSET (S \X S)
    BY DEF Earlier
  <1>5. \A k \in S : <<k, k>> \notin Earlier(S)
    BY <1>2, <1>3
  <1>6. \A i, j, k \in S : <<i, j>> \in Earlier(S) /\ <<j, k>> \in Earlier(S) => <<i, k>> \in Earlier(S)
    BY <1>2, <1>3
  <1>7. ASSUME NEW j \in S, NEW k \in S
        PROVE  j = k \/ <<j, k>> \in Earlier(S) \/ <<k, j>> \in Earlier(S)
    <2>1. archive[j].stamp = archive[k].stamp => j = k
      BY <1>2 DEF StampsDiffer
    <2>2. archive[j].stamp \in Nat /\ archive[k].stamp \in Nat
      BY <1>2
    <2> QED BY <1>3, <2>1, <2>2
  <1>8. Earlier(S) \in Orders(S)
    BY <1>4, <1>5, <1>6, <1>7 DEF Orders
  <1>9. IsFiniteSet(Traces) /\ Cardinality(Traces) = Len(archive)
    <2>1. 1 \in Int /\ Len(archive) \in Int
      BY <1>1
    <2>2. IsFiniteSet(1 .. Len(archive))
          /\ Cardinality(1 .. Len(archive)) = IF 1 > Len(archive) THEN 0 ELSE Len(archive) - 1 + 1
      BY <2>1, FS_Interval
    <2> QED BY <1>1, <2>2
  <1>10. IsFiniteSet(S) /\ Cardinality(S) <= Cardinality(Traces)
         /\ (Cardinality(Traces) = Cardinality(S) => Traces = S)
    BY <1>9, FS_Subset
  <1>11. Cardinality(S) \in Nat
    BY <1>10, FS_CardinalityType
  <1> QED BY <1>8, <1>9, <1>10, <1>11

LEMMA FirstStamps ==
    ASSUME TraceInv, StampsDiffer, NEW n \in Nat, n <= Len(archive)
    PROVE  /\ Earlier(1 .. n) \in Orders(1 .. n)
           /\ IsFiniteSet(1 .. n) /\ Cardinality(1 .. n) = n
  <1>1. 1 .. n \in SUBSET Traces
    BY StampIsNumber
  <1>2. Earlier(1 .. n) \in Orders(1 .. n) /\ IsFiniteSet(1 .. n)
    BY <1>1, StampsOrder
  <1>3. 1 \in Int /\ n \in Int
    OBVIOUS
  <1>4. Cardinality(1 .. n) = IF 1 > n THEN 0 ELSE n - 1 + 1
    BY <1>3, FS_Interval
  <1> QED BY <1>2, <1>4

LEMMA StampsRank ==
    ASSUME TraceInv, StampsDiffer, NEW n \in Nat, n <= Len(archive)
    PROVE  /\ \A i \in 1 .. n : Rank(1 .. n, Earlier(1 .. n), i) \in 0 .. n - 1
           /\ \A i, j \in 1 .. n : Rank(1 .. n, Earlier(1 .. n), i) = Rank(1 .. n, Earlier(1 .. n), j) => i = j
           /\ \A m \in 0 .. n - 1 : \E i \in 1 .. n : Rank(1 .. n, Earlier(1 .. n), i) = m
  <1> DEFINE E == 1 .. n
             R == Earlier(1 .. n)
  <1>1. R \in Orders(E) /\ IsFiniteSet(E) /\ Cardinality(E) = n
    BY FirstStamps
  <1> HIDE DEF E, R
  <1>2. /\ \A i \in E : Rank(E, R, i) \in 0 .. Cardinality(E) - 1
        /\ \A i, j \in E : Rank(E, R, i) = Rank(E, R, j) => i = j
        /\ \A m \in 0 .. Cardinality(E) - 1 : \E i \in E : Rank(E, R, i) = m
    BY <1>1, RanksCount
  <1>3. /\ \A i \in E : Rank(E, R, i) \in 0 .. n - 1
        /\ \A m \in 0 .. n - 1 : \E i \in E : Rank(E, R, i) = m
    BY <1>1, <1>2
  <1> QED BY <1>2, <1>3 DEF E, R

\* The clusters of the archive in the order of time are told in one way only.
LEMMA OneChronicle ==
    ASSUME TraceInv, StampsDiffer, NEW n \in Nat, n <= Len(archive), NEW q, NEW r, Tells(q, n), Tells(r, n)
    PROVE  q = r
  <1>1. /\ q \in Seq(Clusters) /\ Len(q) = n /\ \A i \in 1 .. n : q[Rank(1 .. n, Earlier(1 .. n), i) + 1] = ClusterOf(i)
        /\ r \in Seq(Clusters) /\ Len(r) = n /\ \A i \in 1 .. n : r[Rank(1 .. n, Earlier(1 .. n), i) + 1] = ClusterOf(i)
    BY DEF Tells
  <1>2. ASSUME NEW m \in 1 .. n PROVE q[m] = r[m]
    <2>1. m - 1 \in 0 .. n - 1 /\ (m - 1) + 1 = m
      OBVIOUS
    <2>2. PICK i \in 1 .. n : Rank(1 .. n, Earlier(1 .. n), i) = m - 1
      BY <2>1, StampsRank
    <2> QED BY <1>1, <2>1, <2>2
  <1> QED BY <1>1, <1>2

LEMMA CurrentGrows ==
    ASSUME TraceInv, StampsDiffer, NEW n \in Traces, NEW s, Current(s, n - 1),
           \A i \in 1 .. n - 1 : archive[i].stamp < archive[n].stamp
    PROVE  Current(ShadowStep(s, ClusterOf(n)), n)
  <1>1. n \in Nat /\ n - 1 \in Nat /\ n <= Len(archive) /\ n - 1 <= Len(archive) /\ n \in 1 .. n
        /\ \A i \in 1 .. n - 1 : i \in 1 .. n
    BY DEF TraceInv, Traces
  <1>2. \A i \in 1 .. n : archive[i].stamp \in Nat
    BY <1>1, StampIsNumber
  <1>3. ClusterOf(n) \in Clusters
    BY DEF TraceInv, TracesAreOfTurns, ClusterOf
  <1>4. PICK q \in Seq(Clusters) : Tells(q, n - 1) /\ s = Stepped(Blank, q)
    BY DEF Current
  <1>5. Len(q) = n - 1 /\ \A i \in 1 .. n - 1 : q[Rank(1 .. n - 1, Earlier(1 .. n - 1), i) + 1] = ClusterOf(i)
    BY <1>4 DEF Tells
  <1> DEFINE c == ClusterOf(n)
             r == Append(q, c)
  <1>6. r \in Seq(Clusters) /\ Len(r) = n /\ r[n] = c /\ \A m \in 1 .. n - 1 : r[m] = q[m]
    BY <1>1, <1>3, <1>5
  <1>7. ASSUME NEW i \in 1 .. n PROVE r[Rank(1 .. n, Earlier(1 .. n), i) + 1] = ClusterOf(i)
    <2>1. \A j, k \in 1 .. n : <<j, k>> \in Earlier(1 .. n) <=> archive[j].stamp < archive[k].stamp
      BY DEF Earlier
    <2>2. \A j, k \in 1 .. n - 1 : <<j, k>> \in Earlier(1 .. n - 1) <=> archive[j].stamp < archive[k].stamp
      BY DEF Earlier
    <2>3. CASE i = n
      <3>1. ASSUME NEW j \in 1 .. n PROVE <<j, n>> \in Earlier(1 .. n) <=> j \in 1 .. n - 1
        <4>1. CASE j = n
          <5>1. ~(archive[n].stamp < archive[n].stamp)
            BY <1>1, <1>2
          <5> QED BY <4>1, <5>1, <2>1, <1>1
        <4>2. CASE j # n
          <5>1. j \in 1 .. n - 1
            BY <4>2, <1>1
          <5> QED BY <5>1, <2>1, <1>1
        <4> QED BY <4>1, <4>2
      <3>2. {j \in 1 .. n : <<j, n>> \in Earlier(1 .. n)} = 1 .. n - 1
        BY <3>1, <1>1
      <3>3. Cardinality(1 .. n - 1) = n - 1
        BY <1>1, FirstStamps
      <3>4. Rank(1 .. n, Earlier(1 .. n), n) = n - 1
        BY <3>2, <3>3 DEF Rank
      <3> QED BY <2>3, <3>4, <1>1, <1>6
    <2>4. CASE i # n
      <3>1. i \in 1 .. n - 1
        BY <2>4, <1>1
      <3>2. ASSUME NEW j \in 1 .. n
            PROVE  <<j, i>> \in Earlier(1 .. n) <=> j \in 1 .. n - 1 /\ <<j, i>> \in Earlier(1 .. n - 1)
        <4>1. CASE j = n
          <5>1. ~(archive[n].stamp < archive[i].stamp)
            BY <1>1, <1>2, <3>1
          <5>2. n \notin 1 .. n - 1
            BY <1>1
          <5> QED BY <4>1, <5>1, <5>2, <2>1
        <4>2. CASE j # n
          <5>1. j \in 1 .. n - 1
            BY <4>2, <1>1
          <5> QED BY <5>1, <3>1, <2>1, <2>2
        <4> QED BY <4>1, <4>2
      <3>3. {j \in 1 .. n : <<j, i>> \in Earlier(1 .. n)} = {j \in 1 .. n - 1 : <<j, i>> \in Earlier(1 .. n - 1)}
        BY <3>2, <1>1
      <3>4. Rank(1 .. n, Earlier(1 .. n), i) = Rank(1 .. n - 1, Earlier(1 .. n - 1), i)
        BY <3>3 DEF Rank
      <3>5. Rank(1 .. n - 1, Earlier(1 .. n - 1), i) \in 0 .. (n - 1) - 1
        BY <1>1, <3>1, StampsRank
      <3>6. Rank(1 .. n - 1, Earlier(1 .. n - 1), i) + 1 \in 1 .. n - 1
        BY <1>1, <3>5
      <3> QED BY <1>5, <1>6, <3>1, <3>4, <3>6
    <2> QED BY <2>3, <2>4
  <1>8. Tells(r, n)
    BY <1>6, <1>7 DEF Tells
  <1>9. Stepped(Blank, r) = ShadowStep(Stepped(Blank, q), c)
    BY <1>3, BlankState, SteppedOn
  <1> HIDE DEF r
  <1> QED BY <1>4, <1>6, <1>8, <1>9 DEF Current

\* The place of a trace among those of S, by its stamp.
LEMMA PlaceIsRank ==
    ASSUME TraceInv, StampsDiffer, NEW S \in SUBSET Traces, NEW i \in S, NEW P,
           \A j : j \in P <=> j = i \/ (j \in S /\ archive[j].stamp < archive[i].stamp)
    PROVE  Cardinality(P) = Rank(S, Earlier(S), i) + 1
  <1> DEFINE Q == {j \in S : <<j, i>> \in Earlier(S)}
  <1>1. Q \in SUBSET S /\ Rank(S, Earlier(S), i) = Cardinality(Q)
    BY DEF Rank
  <1>2. i \notin Q /\ P = Q \cup {i}
    <2>1. ~(archive[i].stamp < archive[i].stamp)
      BY StampIsNumber DEF TraceInv, Traces
    <2> QED BY <2>1 DEF Earlier
  <1> HIDE DEF Q
  <1>3. IsFiniteSet(Q)
    BY <1>1, StampsOrder, FS_Subset
  <1>4. Cardinality(Q \cup {i}) = Cardinality(Q) + 1
    BY <1>2, <1>3, FS_AddElement
  <1> QED BY <1>1, <1>2, <1>4

\* Numbering the traces of S by their places gives each of them once.
LEMMA PlacesGive ==
    ASSUME TraceInv, StampsDiffer, NEW S \in SUBSET Traces
    PROVE  /\ \A i \in S : Rank(S, Earlier(S), i) + 1 \in 1 .. Cardinality(S)
           /\ \A n \in 1 .. Cardinality(S) : \E i \in S : Rank(S, Earlier(S), i) + 1 = n
           /\ \A i, j \in S : Rank(S, Earlier(S), i) + 1 = Rank(S, Earlier(S), j) + 1 => i = j
  <1>1. Earlier(S) \in Orders(S) /\ IsFiniteSet(S) /\ Cardinality(S) \in Nat
    BY StampsOrder
  <1>2. /\ \A k \in S : Rank(S, Earlier(S), k) \in 0 .. Cardinality(S) - 1
        /\ \A j, k \in S : Rank(S, Earlier(S), j) = Rank(S, Earlier(S), k) => j = k
        /\ \A n \in 0 .. Cardinality(S) - 1 : \E k \in S : Rank(S, Earlier(S), k) = n
    BY <1>1, RanksCount
  <1>3. ASSUME NEW n \in 1 .. Cardinality(S) PROVE \E i \in S : Rank(S, Earlier(S), i) + 1 = n
    <2>1. n - 1 \in 0 .. Cardinality(S) - 1
      BY <1>1
    <2> QED BY <2>1, <1>2
  <1>4. \A i \in S : Rank(S, Earlier(S), i) + 1 \in 1 .. Cardinality(S) /\ Rank(S, Earlier(S), i) \in Nat
    BY <1>1, <1>2
  <1> QED BY <1>2, <1>3, <1>4

LEMMA ClusterOfTrace == TraceInv => \A i \in Traces : ClusterOf(i) \in Clusters
  BY DEF TraceInv, TracesAreOfTurns, ClusterOf

LEMMA ChronicleTells ==
    ASSUME TraceInv, StampsDiffer
    PROVE  Tells(Chronicle, Len(archive))
  <1> DEFINE place(i) == Cardinality({j \in Traces : j = i \/ archive[j].stamp < archive[i].stamp})
             at(n) == CHOOSE i \in Traces : place(i) = n
             rank(i) == Rank(Traces, Earlier(Traces), i) + 1
             N == Len(archive)
  <1>1. N \in Nat /\ Traces = 1 .. N
    BY DEF TraceInv, Traces
  <1>2. Cardinality(Traces) = N
    BY <1>1, FirstStamps
  <1>3. \A i \in Traces : place(i) = rank(i)
    <2>1. ASSUME NEW i \in Traces PROVE place(i) = rank(i)
      <3> DEFINE P == {j \in Traces : j = i \/ archive[j].stamp < archive[i].stamp}
      <3>1. \A j : j \in P <=> j = i \/ (j \in Traces /\ archive[j].stamp < archive[i].stamp)
        OBVIOUS
      <3> HIDE DEF P
      <3>2. Cardinality(P) = rank(i)
        BY <3>1, PlaceIsRank
      <3> QED BY <3>2 DEF P
    <2> QED BY <2>1
  <1>4. Chronicle = [n \in Traces |-> ClusterOf(at(n))]
    BY DEF Chronicle
  <1>5. /\ \A i \in Traces : rank(i) \in 1 .. N
        /\ \A n \in 1 .. N : \E i \in Traces : rank(i) = n
        /\ \A i, j \in Traces : rank(i) = rank(j) => i = j
    BY <1>2, PlacesGive
  <1> HIDE DEF place, rank, N
  <1>6. \A n \in 1 .. N : at(n) \in Traces /\ rank(at(n)) = n
    BY <1>3, <1>5
  <1>7. \A i \in Traces : at(rank(i)) = i
    <2> HIDE DEF at
    <2> QED BY <1>5, <1>6
  <1> HIDE DEF at
  <1>8. Chronicle \in Seq(Clusters) /\ Len(Chronicle) = N
    <2>1. \A n \in 1 .. N : ClusterOf(at(n)) \in Clusters
      BY <1>6, ClusterOfTrace
    <2> QED BY <1>1, <1>4, <2>1
  <1>9. \A i \in 1 .. N : Chronicle[rank(i)] = ClusterOf(i)
    BY <1>1, <1>4, <1>5, <1>7
  <1>10. \A i \in 1 .. N : Chronicle[Rank(1 .. N, Earlier(1 .. N), i) + 1] = ClusterOf(i)
    BY <1>1, <1>9 DEF rank
  <1> QED BY <1>8, <1>10 DEF N, Tells

LEMMA ReplayableTells ==
    ASSUME TraceInv, StampsDiffer
    PROVE  /\ Replayable \in Seq(Clusters) /\ Len(Replayable) <= Len(archive)
           /\ Len(Replayable) = Len(archive) => Tells(Replayable, Len(archive))
           /\ (\A i \in Traces : archive[i].vector) => Len(Replayable) = Len(archive)
  <1> DEFINE S == {i \in Traces : archive[i].vector}
             at(n) == CHOOSE i \in S : Place(S, i) = n
             rank(i) == Rank(S, Earlier(S), i) + 1
             N == Len(archive)
             c == Cardinality(S)
  <1>1. N \in Nat /\ Traces = 1 .. N
    BY DEF TraceInv, Traces
  <1>2. S \in SUBSET Traces
    OBVIOUS
  <1>3. Replayable = [n \in 1 .. c |-> ClusterOf(at(n))]
    BY DEF Replayable
  <1>a. (\A i \in Traces : archive[i].vector) => S = Traces
    OBVIOUS
  <1> HIDE DEF S
  <1>4. c \in Nat /\ c <= N /\ (c = N => S = Traces)
    BY <1>2, StampsOrder
  <1>5. \A i \in S : Place(S, i) = rank(i)
    <2>1. ASSUME NEW i \in S PROVE Place(S, i) = rank(i)
      <3> DEFINE P == {j \in S : j = i \/ Before(j, i)}
      <3>1. ASSUME NEW j \in S PROVE j = i \/ Before(j, i) <=> j = i \/ archive[j].stamp < archive[i].stamp
        <4>1. archive[j].stamp = archive[i].stamp => j = i
          BY <1>2 DEF StampsDiffer
        <4> QED BY <4>1 DEF Before
      <3>2. \A j : j \in P <=> j = i \/ (j \in S /\ archive[j].stamp < archive[i].stamp)
        BY <3>1
      <3> HIDE DEF P
      <3>3. Cardinality(P) = rank(i)
        BY <1>2, <3>2, PlaceIsRank
      <3> QED BY <3>3 DEF P, Place
    <2> QED BY <2>1
  <1>6. /\ \A i \in S : rank(i) \in 1 .. c
        /\ \A n \in 1 .. c : \E i \in S : rank(i) = n
        /\ \A i, j \in S : rank(i) = rank(j) => i = j
    BY <1>2, PlacesGive
  <1> HIDE DEF rank, N, c
  <1>7. \A n \in 1 .. c : at(n) \in S /\ rank(at(n)) = n
    BY <1>5, <1>6
  <1> HIDE DEF at
  <1>8. \A i \in S : at(rank(i)) = i
    BY <1>6, <1>7
  <1>9. Replayable \in Seq(Clusters) /\ Len(Replayable) = c
    <2>1. \A n \in 1 .. c : ClusterOf(at(n)) \in Clusters
      BY <1>2, <1>7, ClusterOfTrace
    <2> QED BY <1>3, <1>4, <2>1
  <1>10. ASSUME c = N PROVE Tells(Replayable, N)
    <2>1. S = 1 .. N
      BY <1>1, <1>4, <1>10
    <2>2. \A i \in 1 .. N : Replayable[rank(i)] = ClusterOf(i)
      BY <1>3, <1>6, <1>8, <2>1
    <2>3. \A i \in 1 .. N : Replayable[Rank(1 .. N, Earlier(1 .. N), i) + 1] = ClusterOf(i)
      BY <2>1, <2>2 DEF rank
    <2> QED BY <1>9, <1>10, <2>3 DEF Tells
  <1>11. S = Traces => c = N
    <2>1. Cardinality(1 .. N) = N
      BY <1>1, FirstStamps DEF N
    <2> QED BY <1>1, <2>1 DEF c
  <1> QED BY <1>a, <1>4, <1>9, <1>10, <1>11 DEF N

\* A shadow state that knows the whole archive is what the archive gives in the
\* order of time.
LEMMA CurrentIsReplayed ==
    ASSUME TraceInv, StampsDiffer, NEW s, Current(s, Len(archive))
    PROVE  s = Stepped(Blank, Chronicle)
  <1>1. PICK q \in Seq(Clusters) : Tells(q, Len(archive)) /\ s = Stepped(Blank, q)
    BY DEF Current
  <1>2. Len(archive) \in Nat
    BY DEF TraceInv
  <1>3. q = Chronicle
    BY <1>1, <1>2, ChronicleTells, OneChronicle
  <1> QED BY <1>1, <1>3

-----------------------------------------------------------------------------
(***************************************************************************)
(* TraceSpace: what a process knows of the archive, wherever it is.        *)
(***************************************************************************)
\* All that was before the trace n is known, and is older.
KnownBefore(s, n) ==
    s.step = n - 1 => Current(s, n - 1) /\ \A i \in 1 .. n - 1 : archive[i].stamp < archive[n].stamp

\* What holds of a process with the write w, the shadow state s, the count e and
\* the error b.
Stands(w, s, e, b) ==
    /\ s \in Balanced /\ e \in Nat /\ e <= Len(archive) /\ b \in BOOLEAN
    /\ w.id <= Len(archive) /\ w.turn <= Len(ledgerTurns)
    /\ s.step <= Len(archive)
    /\ s.step = Len(archive) => Current(s, Len(archive))
    /\ w.at = "insert" =>
         /\ w.stamp <= now /\ \A i \in Traces : archive[i].stamp # w.stamp
         /\ s.step = Len(archive) => \A i \in Traces : archive[i].stamp < w.stamp
    /\ w.at \in {"vector", "count", "embed"} =>
         w.id \in Traces /\ s.step <= w.id - 1 /\ KnownBefore(s, w.id)
    /\ w.at = "embed" => s.step = w.id - 1 /\ e = w.id
    /\ w.at = "replay" => s = Blank /\ b = FALSE

PendingDiffer ==
    \A p, q \in TraceProcesses :
        p # q /\ writing[p].at = "insert" /\ writing[q].at = "insert" => writing[p].stamp # writing[q].stamp

ArchiveInv ==
    /\ Len(archive) <= MaxTraces /\ Len(ledgerTurns) <= MaxTurnTraces
    /\ traceFaults \in 0 .. MaxTraceFaults
    /\ StampsDiffer /\ \A i \in Traces : archive[i].stamp <= now
    /\ PendingDiffer

ShadowInv ==
    /\ TraceInv /\ ArchiveInv
    /\ expected \in [TraceProcesses -> Nat] /\ shadow \in [TraceProcesses -> Balanced]
    /\ failed \in [TraceProcesses -> BOOLEAN]
    /\ \A p \in TraceProcesses : Stands(writing[p], shadow[p], expected[p], failed[p])

LEMMA BlankStands ==
    ASSUME TraceInv, NEW w, NEW e \in Nat, e <= Len(archive), NEW b \in BOOLEAN,
           w.id <= Len(archive), w.turn <= Len(ledgerTurns),
           w.at \notin {"insert", "vector", "count", "embed"}, w.at = "replay" => b = FALSE
    PROVE  Stands(w, Blank, e, b)
  <1>1. Blank \in Balanced /\ Blank.step = 0
    BY BlankIsBalanced, BlankState
  <1>2. Len(archive) \in Nat
    BY DEF TraceInv
  <1>3. Blank.step = Len(archive) => Current(Blank, Len(archive))
    BY <1>1, CurrentFromNothing
  <1>4. 0 <= Len(archive)
    BY <1>2
  <1> QED BY <1>1, <1>3, <1>4 DEF Stands

LEMMA ShadowStarts == TraceInit => ShadowInv
  <1> SUFFICES ASSUME TraceInit PROVE ShadowInv
    OBVIOUS
  <1>1. TraceInv
    BY TraceStarts
  <1>2. archive = <<>> /\ Traces = {} /\ ledgerTurns = <<>> /\ Len(archive) = 0 /\ Len(ledgerTurns) = 0
    BY DEF TraceInit, Traces
  <1>3. NoWrite("down").at = "down" /\ NoWrite("down").id = 0 /\ NoWrite("down").turn = 0
    BY DEF NoWrite
  <1>4. ASSUME NEW p \in TraceProcesses
        PROVE writing[p] = NoWrite("down") /\ shadow[p] = Blank /\ expected[p] = 0 /\ failed[p] = FALSE
    BY DEF TraceInit
  <1>5. 0 \in Nat /\ 0 <= 0 /\ FALSE \in BOOLEAN
    OBVIOUS
  <1>6. Stands(NoWrite("down"), Blank, 0, FALSE)
    BY <1>1, <1>2, <1>3, <1>5, BlankStands
  <1>7. PendingDiffer
    BY <1>3, <1>4 DEF PendingDiffer
  <1>8. ArchiveInv
    <2>1. MaxTraces \in Nat /\ MaxTurnTraces \in Nat /\ MaxTraceFaults \in Nat
      BY TraceAssumption
    <2>2. traceFaults = 0
      BY DEF TraceInit
    <2>3. 0 <= MaxTraces /\ 0 <= MaxTurnTraces /\ 0 \in 0 .. MaxTraceFaults
      BY <2>1
    <2> QED BY <1>2, <1>7, <2>2, <2>3 DEF ArchiveInv, StampsDiffer
  <1>9. /\ expected \in [TraceProcesses -> Nat] /\ shadow \in [TraceProcesses -> Balanced]
        /\ failed \in [TraceProcesses -> BOOLEAN]
    BY BlankIsBalanced DEF TraceInit
  <1> QED BY <1>1, <1>4, <1>6, <1>8, <1>9 DEF ShadowInv

\* Nothing is taken from what a process knows while no trace comes in.
LEMMA StandsOn ==
    ASSUME TraceInv, Traces' = Traces, Len(archive)' = Len(archive),
           \A i \in Traces : archive'[i].stamp = archive[i].stamp /\ ClusterOf(i)' = ClusterOf(i),
           Len(ledgerTurns) <= Len(ledgerTurns)', Len(ledgerTurns)' \in Nat, now \in Nat, now' \in Nat, now <= now',
           NEW w \in TraceWrites, NEW s, NEW e, NEW b, Stands(w, s, e, b)
    PROVE  Stands(w, s, e, b)'
  <1>1. Len(archive) \in Nat /\ Traces = 1 .. Len(archive) /\ Len(ledgerTurns) \in Nat
    BY DEF TraceInv, Traces
  <1>2. w.id \in Nat /\ w.turn \in Nat /\ w.stamp \in Nat
    BY DEF TraceWrites
  <1>3. ASSUME NEW n \in Nat, n <= Len(archive), Current(s, n) PROVE Current(s, n)'
    BY <1>1, <1>3, CurrentStays
  <1>4. s.step = Len(archive)' => Current(s, Len(archive))'
    <2>1. PICK n \in Nat : n = Len(archive)
      BY <1>1
    <2>2. s.step = n => Current(s, n)'
      BY <1>3, <2>1 DEF Stands
    <2>3. n = Len(archive)'
      BY <2>1
    <2> QED BY <2>2, <2>3
  <1>5. w.turn <= Len(ledgerTurns)'
    BY <1>1, <1>2 DEF Stands
  <1>6. ASSUME w.at = "insert"
        PROVE  /\ w.stamp <= now' /\ \A i \in Traces' : archive'[i].stamp # w.stamp
               /\ s.step = Len(archive)' => \A i \in Traces' : archive'[i].stamp < w.stamp
    <2>1. w.stamp <= now /\ \A i \in Traces : archive[i].stamp # w.stamp
      BY <1>6 DEF Stands
    <2>2. s.step = Len(archive) => \A i \in Traces : archive[i].stamp < w.stamp
      BY <1>6 DEF Stands
    <2>3. w.stamp <= now'
      BY <1>2, <2>1
    <2> QED BY <2>1, <2>2, <2>3
  <1>7. ASSUME w.at \in {"vector", "count", "embed"}
        PROVE  w.id \in Traces' /\ s.step <= w.id - 1 /\ KnownBefore(s, w.id)'
    <2>1. w.id \in Traces /\ s.step <= w.id - 1 /\ KnownBefore(s, w.id)
      BY <1>7 DEF Stands
    <2>2. w.id - 1 \in Nat /\ w.id - 1 <= Len(archive) /\ \A i \in 1 .. w.id - 1 : i \in Traces
      BY <1>1, <2>1
    <2>3. KnownBefore(s, w.id)'
      BY <1>3, <2>1, <2>2 DEF KnownBefore
    <2> QED BY <2>1, <2>3
  <1> QED BY <1>4, <1>5, <1>6, <1>7 DEF Stands

\* One process moves while no trace comes in.
LEMMA ShadowMoves ==
    ASSUME ShadowInv, TraceInv', Traces' = Traces, Len(archive)' = Len(archive),
           \A i \in Traces : archive'[i].stamp = archive[i].stamp /\ ClusterOf(i)' = ClusterOf(i),
           Len(ledgerTurns) <= Len(ledgerTurns)', Len(ledgerTurns)' <= MaxTurnTraces,
           now \in Nat, now' \in Nat, now <= now',
           traceFaults' \in 0 .. MaxTraceFaults,
           NEW p \in TraceProcesses, NEW w \in TraceWrites, NEW s, NEW e, NEW b,
           writing' = [writing EXCEPT ![p] = w], shadow' = [shadow EXCEPT ![p] = s],
           expected' = [expected EXCEPT ![p] = e], failed' = [failed EXCEPT ![p] = b],
           Stands(w, s, e, b)', w.at = "insert" => w.stamp = now + 1
    PROVE  ShadowInv'
  <1>1. TraceInv /\ writing \in [TraceProcesses -> TraceWrites] /\ Len(ledgerTurns)' \in Nat
    BY DEF ShadowInv, TraceInv
  <1>2. /\ writing'[p] = w /\ \A q \in TraceProcesses \ {p} : writing'[q] = writing[q]
        /\ shadow'[p] = s /\ \A q \in TraceProcesses \ {p} : shadow'[q] = shadow[q]
        /\ expected'[p] = e /\ \A q \in TraceProcesses \ {p} : expected'[q] = expected[q]
        /\ failed'[p] = b /\ \A q \in TraceProcesses \ {p} : failed'[q] = failed[q]
        /\ expected' \in [TraceProcesses -> Nat] /\ shadow' \in [TraceProcesses -> Balanced]
        /\ failed' \in [TraceProcesses -> BOOLEAN]
    <2>1. s \in Balanced /\ e \in Nat /\ b \in BOOLEAN
      BY DEF Stands
    <2> QED BY <1>1, <2>1 DEF ShadowInv
  <1>3. ASSUME NEW q \in TraceProcesses PROVE Stands(writing[q], shadow[q], expected[q], failed[q])'
    <2>1. CASE q = p
      BY <2>1, <1>2
    <2>2. CASE q # p
      <3>1. Stands(writing[q], shadow[q], expected[q], failed[q]) /\ writing[q] \in TraceWrites
        BY <1>1 DEF ShadowInv
      <3>2. PICK wq, sq, eq, bq :
               /\ wq = writing[q] /\ sq = shadow[q] /\ eq = expected[q] /\ bq = failed[q]
               /\ wq \in TraceWrites
        BY <3>1
      <3>3. Stands(wq, sq, eq, bq)
        BY <3>1, <3>2
      <3>4. Stands(wq, sq, eq, bq)'
        BY <1>1, <3>2, <3>3, StandsOn
      <3>5. wq = writing'[q] /\ sq = shadow'[q] /\ eq = expected'[q] /\ bq = failed'[q]
        BY <1>2, <2>2, <3>2
      <3> QED BY <3>4, <3>5
    <2> QED BY <2>1, <2>2
  <1>4. StampsDiffer' /\ \A i \in Traces' : archive'[i].stamp <= now'
    <2>1. \A i \in Traces : archive[i].stamp \in Nat
      BY <1>1, StampIsNumber DEF TraceInv, Traces
    <2>2. StampsDiffer /\ \A i \in Traces : archive[i].stamp <= now
      BY DEF ShadowInv, ArchiveInv
    <2>3. StampsDiffer'
      BY <2>2 DEF StampsDiffer
    <2>4. ASSUME NEW i \in Traces' PROVE archive'[i].stamp <= now'
      <3>1. archive'[i].stamp = archive[i].stamp /\ archive[i].stamp <= now /\ archive[i].stamp \in Nat
        BY <2>1, <2>2
      <3> QED BY <3>1
    <2> QED BY <2>3, <2>4
  <1>5. PendingDiffer'
    <2>1. \A q \in TraceProcesses : writing[q].at = "insert" => writing[q].stamp <= now /\ writing[q].stamp \in Nat
      BY <1>1 DEF ShadowInv, Stands, TraceWrites
    <2>2. \A q \in TraceProcesses : writing[q].at = "insert" => writing[q].stamp # now + 1
      BY <2>1
    <2>3. PendingDiffer
      BY DEF ShadowInv, ArchiveInv
    <2>4. ASSUME NEW q \in TraceProcesses, NEW r \in TraceProcesses, q # r,
                 writing'[q].at = "insert", writing'[r].at = "insert"
          PROVE  writing'[q].stamp # writing'[r].stamp
      <3>1. CASE q = p
        <4>1. r # p /\ writing'[r] = writing[r] /\ writing'[q] = w
          BY <3>1, <2>4, <1>2
        <4> QED BY <4>1, <2>2, <2>4
      <3>2. CASE r = p
        <4>1. q # p /\ writing'[q] = writing[q] /\ writing'[r] = w
          BY <3>2, <2>4, <1>2
        <4> QED BY <4>1, <2>2, <2>4
      <3>3. CASE q # p /\ r # p
        BY <3>3, <2>3, <2>4, <1>2 DEF PendingDiffer
      <3> QED BY <3>1, <3>2, <3>3
    <2> QED BY <2>4 DEF PendingDiffer
  <1>6. Len(archive)' <= MaxTraces
    BY DEF ShadowInv, ArchiveInv
  <1>7. ArchiveInv'
    BY <1>4, <1>5, <1>6 DEF ArchiveInv
  <1> QED BY <1>2, <1>3, <1>7 DEF ShadowInv

\* A process moves and writes no trace: what the others know stands.
LEMMA ShadowMovesOn ==
    ASSUME ShadowInv, TraceInv', Traces' = Traces, Len(archive)' = Len(archive),
           \A i \in Traces : archive'[i].stamp = archive[i].stamp /\ archive'[i].turn = archive[i].turn,
           UNCHANGED <<ledgerTurns, now>>, traceFaults' \in 0 .. MaxTraceFaults,
           NEW p \in TraceProcesses, NEW w \in TraceWrites, w.at # "insert", NEW s, NEW e, NEW b,
           writing' = [writing EXCEPT ![p] = w], shadow' = [shadow EXCEPT ![p] = s],
           expected' = [expected EXCEPT ![p] = e], failed' = [failed EXCEPT ![p] = b],
           Stands(w, s, e, b)
    PROVE  ShadowInv'
  <1>1. TraceInv /\ now \in Nat /\ Len(ledgerTurns) \in Nat
    BY DEF ShadowInv, TraceInv
  <1>2. now <= now' /\ now' \in Nat /\ Len(ledgerTurns) <= Len(ledgerTurns)' /\ Len(ledgerTurns)' \in Nat
        /\ Len(ledgerTurns)' <= MaxTurnTraces
    BY <1>1 DEF ShadowInv, ArchiveInv
  <1>3. \A i \in Traces : archive'[i].stamp = archive[i].stamp /\ ClusterOf(i)' = ClusterOf(i)
    BY DEF ClusterOf
  <1>4. Stands(w, s, e, b)'
    BY <1>1, <1>2, <1>3, StandsOn
  <1> QED BY <1>1, <1>2, <1>3, <1>4, ShadowMoves

\* A process at rest between its steps.
LEMMA QuietStands ==
    ASSUME NEW x, NEW s, NEW f, NEW d, Stands(x, s, f, d),
           NEW w, NEW e \in Nat, e <= Len(archive), NEW b \in BOOLEAN,
           w.id <= Len(archive), w.turn <= Len(ledgerTurns),
           w.at \notin {"insert", "vector", "count", "embed", "replay"}
    PROVE  Stands(w, s, e, b)
  BY DEF Stands

LEMMA StandsOfAll ==
    ASSUME ShadowInv, NEW p \in TraceProcesses
    PROVE  /\ TraceInv /\ Stands(writing[p], shadow[p], expected[p], failed[p])
           /\ writing[p] \in TraceWrites /\ writing[p].id \in Nat /\ writing[p].turn \in Nat
           /\ expected[p] \in Nat /\ expected[p] <= Len(archive) /\ failed[p] \in BOOLEAN
           /\ writing[p].id <= Len(archive) /\ writing[p].turn <= Len(ledgerTurns)
           /\ shadow = [shadow EXCEPT ![p] = shadow[p]]
           /\ expected = [expected EXCEPT ![p] = expected[p]]
           /\ failed = [failed EXCEPT ![p] = failed[p]]
           /\ Len(archive) \in Nat /\ Len(ledgerTurns) \in Nat /\ Traces = 1 .. Len(archive)
           /\ traceFaults \in 0 .. MaxTraceFaults
  <1>1. TraceInv /\ Stands(writing[p], shadow[p], expected[p], failed[p])
    BY DEF ShadowInv
  <1>2. writing \in [TraceProcesses -> TraceWrites] /\ Len(archive) \in Nat /\ Len(ledgerTurns) \in Nat
        /\ Traces = 1 .. Len(archive)
    BY <1>1 DEF TraceInv, Traces
  <1>3. writing[p] \in TraceWrites /\ writing[p].id \in Nat /\ writing[p].turn \in Nat
    BY <1>2 DEF TraceWrites
  <1>4. /\ expected[p] \in Nat /\ expected[p] <= Len(archive) /\ failed[p] \in BOOLEAN
        /\ writing[p].id <= Len(archive) /\ writing[p].turn <= Len(ledgerTurns)
    BY <1>1 DEF Stands
  <1>5. /\ shadow = [shadow EXCEPT ![p] = shadow[p]]
        /\ expected = [expected EXCEPT ![p] = expected[p]]
        /\ failed = [failed EXCEPT ![p] = failed[p]]
    BY DEF ShadowInv
  <1>6. traceFaults \in 0 .. MaxTraceFaults
    BY DEF ShadowInv, ArchiveInv
  <1> QED BY <1>1, <1>2, <1>3, <1>4, <1>5, <1>6

\* A process goes to a place of rest and keeps its shadow state.
LEMMA QuietMove ==
    ASSUME ShadowInv, TraceInv', NEW p \in TraceProcesses, NEW place \in {"down", "idle", "backfill", "recount"},
           \/ writing' = [writing EXCEPT ![p] = [writing[p] EXCEPT !.at = place]]
           \/ writing' = [writing EXCEPT ![p] = NoWrite(place)],
           UNCHANGED <<ledgerTurns, archive, now, traceFaults, shadow, failed>>,
           NEW e \in Nat, e <= Len(archive), expected' = [expected EXCEPT ![p] = e]
    PROVE  ShadowInv'
  <1>1. /\ TraceInv /\ Stands(writing[p], shadow[p], expected[p], failed[p])
        /\ writing[p] \in TraceWrites /\ failed[p] \in BOOLEAN
        /\ writing[p].id <= Len(archive) /\ writing[p].turn <= Len(ledgerTurns)
        /\ shadow = [shadow EXCEPT ![p] = shadow[p]] /\ failed = [failed EXCEPT ![p] = failed[p]]
        /\ Len(archive) \in Nat /\ Len(ledgerTurns) \in Nat
        /\ traceFaults \in 0 .. MaxTraceFaults
    BY StandsOfAll
  <1>2. PICK w \in TraceWrites : /\ writing' = [writing EXCEPT ![p] = w] /\ w.at = place
                                 /\ w.id <= Len(archive) /\ w.turn <= Len(ledgerTurns)
    <2>1. place \in TracePlaces
      BY DEF TracePlaces
    <2>2. [writing[p] EXCEPT !.at = place] \in TraceWrites
          /\ [writing[p] EXCEPT !.at = place].at = place
          /\ [writing[p] EXCEPT !.at = place].id = writing[p].id
          /\ [writing[p] EXCEPT !.at = place].turn = writing[p].turn
      BY <1>1, <2>1 DEF TraceWrites
    <2>3. NoWrite(place) \in TraceWrites /\ NoWrite(place).at = place /\ NoWrite(place).id = 0
          /\ NoWrite(place).turn = 0
      <3>1. FALSE \in BOOLEAN
        OBVIOUS
      <3> QED BY <2>1, <3>1 DEF NoWrite, TraceWrites
    <2>4. 0 <= Len(archive) /\ 0 <= Len(ledgerTurns)
      BY <1>1
    <2>5. CASE writing' = [writing EXCEPT ![p] = [writing[p] EXCEPT !.at = place]]
      BY <1>1, <2>2, <2>5
    <2>6. CASE writing' = [writing EXCEPT ![p] = NoWrite(place)]
      BY <2>3, <2>4, <2>6
    <2> QED BY <2>5, <2>6
  <1>3. w.at \notin {"insert", "vector", "count", "embed", "replay"}
    BY <1>2
  <1>4. PICK s, f, d : s = shadow[p] /\ f = expected[p] /\ d = failed[p]
    OBVIOUS
  <1>5. Stands(w, s, e, d)
    BY <1>1, <1>2, <1>3, <1>4, QuietStands
  <1>6. shadow' = [shadow EXCEPT ![p] = s] /\ failed' = [failed EXCEPT ![p] = d]
    BY <1>1, <1>4
  <1>7. Traces' = Traces /\ Len(archive)' = Len(archive)
        /\ \A i \in Traces : archive'[i].stamp = archive[i].stamp /\ archive'[i].turn = archive[i].turn
    BY DEF Traces
  <1>8. w.at # "insert"
    BY <1>3
  <1> QED BY <1>1, <1>2, <1>5, <1>6, <1>7, <1>8, ShadowMovesOn

\* The clock is read before the trace goes in: it is later than all there is.
LEMMA ShadowBegins ==
    ASSUME ShadowInv, TraceInv', NEW p \in TraceProcesses, NEW n \in Nat, NEW live \in BOOLEAN, StartWrite(p, n, live),
           UNCHANGED <<archive, expected, shadow, failed, traceFaults>>,
           Len(ledgerTurns) <= Len(ledgerTurns)', Len(ledgerTurns)' <= MaxTurnTraces, n <= Len(ledgerTurns)',
           \A i \in Traces : ClusterOf(i)' = ClusterOf(i)
    PROVE  ShadowInv'
  <1>1. /\ TraceInv /\ Stands(writing[p], shadow[p], expected[p], failed[p])
        /\ shadow = [shadow EXCEPT ![p] = shadow[p]]
        /\ expected = [expected EXCEPT ![p] = expected[p]]
        /\ failed = [failed EXCEPT ![p] = failed[p]]
        /\ Len(archive) \in Nat
    BY StandsOfAll
  <1>2. now \in Nat /\ now' = now + 1 /\ now' \in Nat /\ now <= now' /\ Len(ledgerTurns)' \in Nat
    BY <1>1 DEF TraceInv, StartWrite
  <1>3. PICK w \in TraceWrites :
           /\ w.at = "insert" /\ w.turn = n /\ w.stamp = now + 1 /\ w.id = 0
           /\ writing' = [writing EXCEPT ![p] = w]
    <2> DEFINE x == [at |-> "insert", turn |-> n, stamp |-> now + 1, id |-> 0, live |-> live]
    <2>1. "insert" \in TracePlaces
      BY DEF TracePlaces
    <2>2. x \in TraceWrites /\ x.at = "insert" /\ x.turn = n /\ x.stamp = now + 1 /\ x.id = 0
      BY <1>2, <2>1 DEF TraceWrites
    <2>3. writing' = [writing EXCEPT ![p] = x]
      BY <1>2 DEF StartWrite
    <2> QED BY <2>2, <2>3
  <1>4. writing' = [writing EXCEPT ![p] = w]
    BY <1>3
  <1>5. PICK s, e, b : s = shadow[p] /\ e = expected[p] /\ b = failed[p]
    OBVIOUS
  <1>6. shadow' = [shadow EXCEPT ![p] = s] /\ expected' = [expected EXCEPT ![p] = e]
        /\ failed' = [failed EXCEPT ![p] = b]
    BY <1>1, <1>5
  <1>7. Traces' = Traces /\ Len(archive)' = Len(archive)
        /\ \A i \in Traces : archive'[i].stamp = archive[i].stamp
    BY DEF Traces
  <1>8. \A i \in Traces : archive[i].stamp \in Nat /\ archive[i].stamp < now + 1
    <2>1. \A i \in Traces : archive[i].stamp \in Nat
      BY <1>1, StampIsNumber DEF TraceInv, Traces
    <2>2. \A i \in Traces : archive[i].stamp <= now
      BY DEF ShadowInv, ArchiveInv
    <2> QED BY <1>2, <2>1, <2>2
  <1>11. PICK y \in TraceWrites : y.at = "idle" /\ y.id = 0 /\ y.turn = 0
    <2>1. "idle" \in TracePlaces /\ FALSE \in BOOLEAN
      BY DEF TracePlaces
    <2>2. NoWrite("idle") \in TraceWrites /\ NoWrite("idle").at = "idle" /\ NoWrite("idle").id = 0
          /\ NoWrite("idle").turn = 0
      BY <2>1 DEF NoWrite, TraceWrites
    <2> QED BY <2>2
  <1>12. Stands(y, s, e, b)
    <2>1. 0 <= Len(archive) /\ 0 <= Len(ledgerTurns)
      BY <1>1 DEF TraceInv
    <2>2. e \in Nat /\ e <= Len(archive) /\ b \in BOOLEAN
      BY <1>5, StandsOfAll
    <2> QED BY <1>1, <1>5, <1>11, <2>1, <2>2, QuietStands
  <1>13. Stands(y, s, e, b)'
    BY <1>1, <1>2, <1>7, <1>12, StandsOn
  <1>14. Stands(w, s, e, b)'
    <2>1. w.id <= Len(archive)' /\ w.turn <= Len(ledgerTurns)'
      BY <1>1, <1>3
    <2>2. w.at \notin {"vector", "count", "embed", "replay"} /\ w.at = "insert"
      BY <1>3
    <2>3. w.stamp <= now' /\ \A i \in Traces' : archive'[i].stamp # w.stamp /\ archive'[i].stamp < w.stamp
      BY <1>2, <1>3, <1>7, <1>8
    <2>4. /\ s \in Balanced /\ e \in Nat /\ e <= Len(archive)' /\ b \in BOOLEAN
          /\ s.step <= Len(archive)'
          /\ s.step = Len(archive)' => Current(s, Len(archive))'
      BY <1>13 DEF Stands
    <2> QED BY <2>1, <2>2, <2>3, <2>4 DEF Stands
  <1>15. traceFaults' \in 0 .. MaxTraceFaults
    BY StandsOfAll
  <1>16. \A i \in Traces : archive'[i].stamp = archive[i].stamp /\ ClusterOf(i)' = ClusterOf(i)
    BY <1>7
  <1>17. w.at = "insert" => w.stamp = now + 1
    BY <1>3
  <1> QED BY <1>2, <1>3, <1>4, <1>6, <1>7, <1>14, <1>15, <1>16, <1>17, ShadowMoves

\* A new trace is later than all the others know, or it is told that it is not.
LEMMA ShadowInserts ==
    ASSUME ShadowInv, TraceInv', NEW p \in TraceProcesses, InsertTrace(p)
    PROVE  ShadowInv'
  <1>1. /\ TraceInv /\ Stands(writing[p], shadow[p], expected[p], failed[p])
        /\ writing[p] \in TraceWrites /\ writing[p].turn <= Len(ledgerTurns)
        /\ Len(archive) \in Nat /\ Traces = 1 .. Len(archive)
    BY StandsOfAll
  <1>2. /\ writing[p].at = "insert" /\ Len(archive) < MaxTraces
        /\ UNCHANGED <<ledgerTurns, now, expected, shadow, failed, traceFaults>>
    BY DEF InsertTrace
  <1>6. PICK new \in Nat, old \in Nat : old = Len(archive) /\ new = old + 1
    <2>1. Len(archive) \in Nat
      BY <1>1
    <2>2. PICK m \in Nat : m = Len(archive)
      BY <2>1
    <2>3. m + 1 \in Nat
      OBVIOUS
    <2> QED BY <2>2, <2>3
  <1>3. PICK row : /\ archive' = Append(archive, row) /\ row \in TraceRows
                   /\ row.stamp = writing[p].stamp /\ row.turn = writing[p].turn
    <2> DEFINE x == [turn |-> writing[p].turn, by |-> p, stamp |-> writing[p].stamp, vector |-> FALSE]
    <2>1. FALSE \in BOOLEAN
      OBVIOUS
    <2>2. x \in TraceRows /\ x.stamp = writing[p].stamp /\ x.turn = writing[p].turn
      BY <1>1, <2>1 DEF TraceRows, TraceWrites
    <2>3. archive' = Append(archive, x)
      BY DEF InsertTrace
    <2> QED BY <2>2, <2>3
  <1>4. PICK w \in TraceWrites : /\ writing' = [writing EXCEPT ![p] = w] /\ w.at = "vector" /\ w.id = new
                                 /\ w.turn = writing[p].turn
    <2> DEFINE x == [writing[p] EXCEPT !.at = "vector", !.id = Len(archive) + 1]
    <2>1. "vector" \in TracePlaces /\ Len(archive) + 1 \in Nat
      BY <1>1 DEF TracePlaces
    <2>2. x \in TraceWrites /\ x.at = "vector" /\ x.id = Len(archive) + 1 /\ x.turn = writing[p].turn
      BY <1>1, <2>1 DEF TraceWrites
    <2>3. writing' = [writing EXCEPT ![p] = x]
      BY DEF InsertTrace
    <2> HIDE DEF x
    <2> QED BY <1>6, <2>2, <2>3
  <1>5. /\ Traces = 1 .. old /\ Traces' = Traces \cup {new} /\ Len(archive)' = new /\ new \notin Traces
        /\ archive'[new] = row /\ \A i \in Traces : archive'[i] = archive[i]
    <2>1. archive \in Seq(TraceRows)
      BY <1>1 DEF TraceInv
    <2>2. /\ Traces' = 1 .. Len(archive) + 1 /\ Len(archive)' = Len(archive) + 1
          /\ archive'[Len(archive) + 1] = row /\ \A i \in Traces : archive'[i] = archive[i]
      BY <1>1, <1>3, <2>1 DEF Traces
    <2> QED BY <1>1, <1>6, <2>2
  <1>7. /\ writing'[p] = w /\ \A q \in TraceProcesses \ {p} : writing'[q] = writing[q]
        /\ \A q \in TraceProcesses : shadow'[q] = shadow[q] /\ expected'[q] = expected[q] /\ failed'[q] = failed[q]
    BY <1>1, <1>2, <1>4 DEF TraceInv
  <1>8. \A i \in Traces : archive'[i].stamp = archive[i].stamp /\ ClusterOf(i)' = ClusterOf(i)
    BY <1>2, <1>5 DEF ClusterOf
  <1>9. ASSUME NEW n \in Nat, n <= Len(archive), NEW s, Current(s, n) PROVE Current(s, n)'
    <2>1. \A i \in 1 .. n : i \in Traces
      BY <1>1, <1>9
    <2>2. \A i \in 1 .. n : archive'[i].stamp = archive[i].stamp /\ ClusterOf(i)' = ClusterOf(i)
      BY <1>8, <2>1
    <2> QED BY <1>9, <2>2, CurrentStays
  <1>10. ASSUME NEW s, NEW i \in Traces, KnownBefore(s, i) PROVE KnownBefore(s, i)'
    <2>1. i - 1 \in Nat /\ i - 1 <= Len(archive) /\ \A j \in 1 .. i - 1 : j \in Traces
      BY <1>1
    <2> QED BY <1>8, <1>9, <1>10, <2>1 DEF KnownBefore
  <1>11. ASSUME NEW q \in TraceProcesses PROVE Stands(writing[q], shadow[q], expected[q], failed[q])'
    <2>1. Stands(writing[q], shadow[q], expected[q], failed[q]) /\ writing[q] \in TraceWrites
      BY StandsOfAll
    <2>2. PICK x, s, e, b : /\ x = writing[q] /\ s = shadow[q] /\ e = expected[q] /\ b = failed[q]
                            /\ x \in TraceWrites
      BY <2>1
    <2>3. Stands(x, s, e, b)
      BY <2>1, <2>2
    <2>4. /\ s \in Balanced /\ s.step \in Nat /\ e \in Nat /\ e <= Len(archive) /\ b \in BOOLEAN
          /\ x.id <= Len(archive) /\ x.turn <= Len(ledgerTurns) /\ s.step <= Len(archive)
          /\ x.id \in Nat
      <3>1. s \in States
        BY <2>3 DEF Stands, Balanced
      <3>2. s.step \in Nat
        BY <3>1, StateParts
      <3>3. x.id \in Nat
        BY <2>2 DEF TraceWrites
      <3> QED BY <2>3, <3>2, <3>3 DEF Stands
    <2>5. /\ e <= Len(archive)' /\ x.id <= Len(archive)' /\ x.turn <= Len(ledgerTurns)'
          /\ s.step <= Len(archive)' /\ s.step # Len(archive)'
      BY <1>1, <1>2, <1>5, <1>6, <2>4
    <2>6. CASE q = p
      <3>1. x = writing[p] /\ x.at = "insert"
        BY <1>2, <2>2, <2>6
      <3>2. KnownBefore(s, new)'
        <4>1. ASSUME s.step = new - 1
              PROVE  Current(s, new - 1)' /\ \A i \in 1 .. new - 1 : archive'[i].stamp < archive'[new].stamp
          <5>1. new - 1 = old /\ old <= Len(archive)
            BY <1>6
          <5>2. Current(s, old) /\ \A i \in Traces : archive[i].stamp < x.stamp
            BY <1>6, <2>3, <3>1, <4>1, <5>1 DEF Stands
          <5>3. Current(s, old)'
            BY <1>9, <5>1, <5>2
          <5>4. \A i \in 1 .. old : archive'[i].stamp < archive'[new].stamp
            BY <1>3, <1>5, <1>8, <3>1, <5>2
          <5> QED BY <5>1, <5>3, <5>4
        <4> QED BY <4>1 DEF KnownBefore
      <3>3. Stands(w, s, e, b)'
        <4>1. w.id \in Traces' /\ s.step <= w.id - 1 /\ KnownBefore(s, w.id)'
          <5>1. w.id = new /\ new \in Traces'
            BY <1>4, <1>5
          <5>2. s.step <= new - 1
            BY <1>1, <1>6, <2>4
          <5> QED BY <3>2, <5>1, <5>2 DEF KnownBefore
        <4>2. w.at = "vector" /\ w.id <= Len(archive)' /\ w.turn <= Len(ledgerTurns)'
          BY <1>1, <1>2, <1>4, <1>5
        <4> QED BY <2>4, <2>5, <4>1, <4>2 DEF Stands
      <3> QED BY <1>7, <2>2, <2>6, <3>3
    <2>7. CASE q # p
      <3>1. x.at = "insert" => x.stamp <= now' /\ \A i \in Traces' : archive'[i].stamp # x.stamp
        <4>1. ASSUME x.at = "insert" PROVE x.stamp <= now /\ x.stamp # row.stamp
          <5>1. x.stamp <= now
            BY <2>3, <4>1 DEF Stands
          <5>2. PendingDiffer
            BY DEF ShadowInv, ArchiveInv
          <5>3. writing[q].stamp # writing[p].stamp
            BY <1>2, <2>2, <2>7, <4>1, <5>2 DEF PendingDiffer
          <5> QED BY <1>3, <2>2, <5>1, <5>3
        <4>2. x.at = "insert" => \A i \in Traces : archive[i].stamp # x.stamp
          BY <2>3 DEF Stands
        <4> QED BY <1>2, <1>5, <4>1, <4>2
      <3>2. x.at \in {"vector", "count", "embed"} =>
              x.id \in Traces' /\ s.step <= x.id - 1 /\ KnownBefore(s, x.id)'
        <4>1. x.at \in {"vector", "count", "embed"} =>
              x.id \in Traces /\ s.step <= x.id - 1 /\ KnownBefore(s, x.id)
          BY <2>3 DEF Stands
        <4> QED BY <1>5, <1>10, <4>1
      <3>3. /\ x.at = "embed" => s.step = x.id - 1 /\ e = x.id
            /\ x.at = "replay" => s = Blank /\ b = FALSE
        BY <2>3 DEF Stands
      <3>4. Stands(x, s, e, b)'
        BY <2>4, <2>5, <3>1, <3>2, <3>3 DEF Stands
      <3> QED BY <1>7, <2>2, <2>7, <3>4
    <2> QED BY <2>6, <2>7
  <1>12. StampsDiffer' /\ \A i \in Traces' : archive'[i].stamp <= now'
    <2>1. StampsDiffer /\ \A i \in Traces : archive[i].stamp <= now
      BY DEF ShadowInv, ArchiveInv
    <2>2. row.stamp <= now /\ \A i \in Traces : archive[i].stamp # row.stamp
      BY <1>1, <1>2, <1>3 DEF Stands
    <2>3. \A i \in Traces : archive'[i].stamp = archive[i].stamp
      BY <1>8
    <2>4. archive'[new].stamp = row.stamp
      BY <1>5
    <2>5. \A i \in Traces' : archive'[i].stamp <= now'
      BY <1>2, <1>5, <2>1, <2>2, <2>3, <2>4
    <2>6. ASSUME NEW i \in Traces', NEW j \in Traces', archive'[i].stamp = archive'[j].stamp PROVE i = j
      <3>1. CASE i = new
        BY <1>5, <2>2, <2>3, <2>4, <2>6, <3>1
      <3>2. CASE j = new
        BY <1>5, <2>2, <2>3, <2>4, <2>6, <3>2
      <3>3. CASE i \in Traces /\ j \in Traces
        BY <2>1, <2>3, <2>6, <3>3 DEF StampsDiffer
      <3> QED BY <1>5, <3>1, <3>2, <3>3
    <2> QED BY <2>5, <2>6 DEF StampsDiffer
  <1>13. PendingDiffer'
    <2>1. PendingDiffer
      BY DEF ShadowInv, ArchiveInv
    <2> QED BY <1>4, <1>7, <2>1 DEF PendingDiffer
  <1>14. ArchiveInv'
    <2>1. Len(archive)' <= MaxTraces
      BY <1>1, <1>2, <1>5, <1>6, TraceAssumption
    <2>2. Len(ledgerTurns)' <= MaxTurnTraces /\ traceFaults' \in 0 .. MaxTraceFaults
      BY <1>2 DEF ShadowInv, ArchiveInv
    <2> QED BY <1>12, <1>13, <2>1, <2>2 DEF ArchiveInv
  <1> QED BY <1>2, <1>11, <1>14 DEF ShadowInv

\* The vector is there, or it was refused: the count of the traces is next, or
\* the next turn of the backfill.
LEMMA ShadowWrites ==
    ASSUME ShadowInv, TraceInv', NEW p \in TraceProcesses, writing[p].at = "vector", Written(p),
           DOMAIN archive' = DOMAIN archive, Len(archive)' = Len(archive),
           \A i \in Traces : archive'[i].stamp = archive[i].stamp /\ archive'[i].turn = archive[i].turn,
           UNCHANGED <<ledgerTurns, now, expected, shadow, failed>>, traceFaults' \in 0 .. MaxTraceFaults
    PROVE  ShadowInv'
  <1>1. /\ TraceInv /\ Stands(writing[p], shadow[p], expected[p], failed[p])
        /\ writing[p] \in TraceWrites /\ expected[p] \in Nat /\ expected[p] <= Len(archive) /\ failed[p] \in BOOLEAN
        /\ writing[p].id <= Len(archive) /\ writing[p].turn <= Len(ledgerTurns)
        /\ shadow = [shadow EXCEPT ![p] = shadow[p]]
        /\ expected = [expected EXCEPT ![p] = expected[p]]
        /\ failed = [failed EXCEPT ![p] = failed[p]]
        /\ Len(archive) \in Nat /\ Len(ledgerTurns) \in Nat
    BY StandsOfAll
  <1>2. PICK s, e, b : s = shadow[p] /\ e = expected[p] /\ b = failed[p]
    OBVIOUS
  <1>3. shadow' = [shadow EXCEPT ![p] = s] /\ expected' = [expected EXCEPT ![p] = e]
        /\ failed' = [failed EXCEPT ![p] = b]
    BY <1>1, <1>2
  <1>4. Traces' = Traces
    BY DEF Traces
  <1>5. PICK w \in TraceWrites : /\ writing' = [writing EXCEPT ![p] = w] /\ w.at # "insert"
                                 /\ Stands(w, s, e, b)
    <2>1. CASE writing[p].live
      <3> DEFINE w == [writing[p] EXCEPT !.at = "count"]
      <3>1. "count" \in TracePlaces
        BY DEF TracePlaces
      <3>2. w \in TraceWrites /\ w.at = "count" /\ w.id = writing[p].id /\ w.turn = writing[p].turn
        BY <1>1, <3>1 DEF TraceWrites
      <3>3. writing' = [writing EXCEPT ![p] = w]
        BY <2>1 DEF Written
      <3> HIDE DEF w
      <3>4. Stands(w, s, e, b)
        BY <1>1, <1>2, <3>2 DEF Stands
      <3> QED BY <3>2, <3>3, <3>4
    <2>2. CASE ~writing[p].live
      <3>1. "backfill" \in TracePlaces /\ FALSE \in BOOLEAN
        BY DEF TracePlaces
      <3>2. NoWrite("backfill") \in TraceWrites /\ NoWrite("backfill").at = "backfill"
            /\ NoWrite("backfill").id = 0 /\ NoWrite("backfill").turn = 0
        BY <3>1 DEF NoWrite, TraceWrites
      <3>3. writing' = [writing EXCEPT ![p] = NoWrite("backfill")]
        BY <2>2 DEF Written
      <3>4. 0 <= Len(archive) /\ 0 <= Len(ledgerTurns)
        BY <1>1
      <3>5. Stands(NoWrite("backfill"), s, e, b)
        BY <1>1, <1>2, <3>2, <3>4, QuietStands
      <3> QED BY <3>2, <3>3, <3>5
    <2> QED BY <2>1, <2>2
  <1> QED BY <1>3, <1>4, <1>5, ShadowMovesOn

LEMMA ShadowCounts ==
    ASSUME ShadowInv, TraceInv', NEW p \in TraceProcesses, CountTraces(p)
    PROVE  ShadowInv'
  <1>1. /\ TraceInv /\ Stands(writing[p], shadow[p], expected[p], failed[p])
        /\ writing[p] \in TraceWrites /\ failed[p] \in BOOLEAN
        /\ writing[p].id <= Len(archive) /\ writing[p].turn <= Len(ledgerTurns) /\ writing[p].id \in Nat
        /\ shadow = [shadow EXCEPT ![p] = shadow[p]]
        /\ failed = [failed EXCEPT ![p] = failed[p]]
        /\ Len(archive) \in Nat /\ Traces = 1 .. Len(archive)
        /\ traceFaults \in 0 .. MaxTraceFaults
    BY StandsOfAll
  <1>2. /\ writing[p].at = "count" /\ expected' = [expected EXCEPT ![p] = Len(archive)]
        /\ TraceGoto(p, IF Continues(p) THEN "embed" ELSE "recount")
        /\ UNCHANGED <<ledgerTurns, archive, now, backlog, shadow, failed, traceFaults>>
    BY DEF CountTraces
  <1>3. CASE ~Continues(p)
    <2>1. writing' = [writing EXCEPT ![p] = [writing[p] EXCEPT !.at = "recount"]]
      BY <1>2, <1>3 DEF TraceGoto
    <2>2. Len(archive) \in Nat /\ Len(archive) <= Len(archive)
      BY <1>1
    <2>3. PICK e \in Nat : e = Len(archive)
      BY <2>2
    <2>4. e <= Len(archive) /\ expected' = [expected EXCEPT ![p] = e]
      BY <1>2, <2>3
    <2> QED BY <1>2, <2>1, <2>4, QuietMove
  <1>4. CASE Continues(p)
    <2>1. PICK s, e, f, b : s = shadow[p] /\ e = Len(archive) /\ f = expected[p] /\ b = failed[p]
      OBVIOUS
    <2>2. /\ shadow' = [shadow EXCEPT ![p] = s] /\ expected' = [expected EXCEPT ![p] = e]
          /\ failed' = [failed EXCEPT ![p] = b]
      BY <1>1, <1>2, <2>1
    <2>3. PICK w \in TraceWrites : /\ writing' = [writing EXCEPT ![p] = w] /\ w.at = "embed"
                                   /\ w.id = writing[p].id /\ w.turn = writing[p].turn
      <3>1. "embed" \in TracePlaces
        BY DEF TracePlaces
      <3>2. [writing[p] EXCEPT !.at = "embed"] \in TraceWrites
            /\ [writing[p] EXCEPT !.at = "embed"].at = "embed"
            /\ [writing[p] EXCEPT !.at = "embed"].id = writing[p].id
            /\ [writing[p] EXCEPT !.at = "embed"].turn = writing[p].turn
        BY <1>1, <3>1 DEF TraceWrites
      <3>3. writing' = [writing EXCEPT ![p] = [writing[p] EXCEPT !.at = "embed"]]
        BY <1>2, <1>4 DEF TraceGoto
      <3> QED BY <3>2, <3>3
    <2>4. Stands(writing[p], s, f, b)
      BY <1>1, <2>1
    <2>5. s.step = Len(archive) - 1
      BY <1>4, <2>1 DEF Continues
    <2>6. w.id \in Traces /\ s.step <= w.id - 1 /\ KnownBefore(s, w.id)
      BY <1>2, <2>3, <2>4 DEF Stands
    <2>7. w.id = Len(archive) /\ s.step = w.id - 1 /\ e = w.id
      BY <1>1, <2>1, <2>5, <2>6
    <2>8. e \in Nat /\ e <= Len(archive)
      BY <1>1, <2>1
    <2>9. Stands(w, s, e, b)
      BY <1>1, <2>3, <2>4, <2>6, <2>7, <2>8 DEF Stands
    <2>10. Traces' = Traces /\ Len(archive)' = Len(archive) /\ UNCHANGED <<ledgerTurns, now>>
           /\ traceFaults' \in 0 .. MaxTraceFaults
           /\ \A i \in Traces : archive'[i].stamp = archive[i].stamp /\ archive'[i].turn = archive[i].turn
      BY <1>1, <1>2 DEF Traces
    <2>11. w.at # "insert"
      BY <2>3
    <2> QED BY <2>2, <2>3, <2>9, <2>10, <2>11, ShadowMovesOn
  <1> QED BY <1>3, <1>4

\* After a turn or a start a process waits for the next.
LEMMA ShadowIsOver ==
    ASSUME ShadowInv, TraceInv', NEW p \in TraceProcesses, TraceDone(p),
           UNCHANGED <<ledgerTurns, archive, now, traceFaults>>,
           NEW s \in Balanced, NEW b \in BOOLEAN, s.step <= Len(archive),
           s.step = Len(archive) => Current(s, Len(archive)),
           shadow' = [shadow EXCEPT ![p] = s], failed' = [failed EXCEPT ![p] = b]
    PROVE  ShadowInv'
  <1>1. /\ TraceInv /\ Len(archive) \in Nat /\ Len(ledgerTurns) \in Nat /\ traceFaults \in 0 .. MaxTraceFaults
    BY StandsOfAll
  <1>2. PICK w \in TraceWrites : /\ writing' = [writing EXCEPT ![p] = w] /\ w.at = "idle"
                                 /\ w.id = 0 /\ w.turn = 0
    <2>1. "idle" \in TracePlaces /\ FALSE \in BOOLEAN
      BY DEF TracePlaces
    <2>2. NoWrite("idle") \in TraceWrites /\ NoWrite("idle").at = "idle"
          /\ NoWrite("idle").id = 0 /\ NoWrite("idle").turn = 0
      BY <2>1 DEF NoWrite, TraceWrites
    <2> QED BY <2>2 DEF TraceDone
  <1>3. PICK e \in Nat : e = 0 /\ expected' = [expected EXCEPT ![p] = e]
    BY DEF TraceDone
  <1>4. Stands(w, s, e, b)
    <2>1. 0 <= Len(archive) /\ 0 <= Len(ledgerTurns)
      BY <1>1
    <2> QED BY <1>2, <1>3, <2>1 DEF Stands
  <1>5. Traces' = Traces /\ Len(archive)' = Len(archive) /\ traceFaults' \in 0 .. MaxTraceFaults
        /\ \A i \in Traces : archive'[i].stamp = archive[i].stamp /\ archive'[i].turn = archive[i].turn
    BY <1>1 DEF Traces
  <1>6. w.at # "insert" /\ UNCHANGED <<ledgerTurns, now>>
    BY <1>2
  <1> QED BY <1>2, <1>3, <1>4, <1>5, <1>6, ShadowMovesOn

LEMMA ShadowAdvances ==
    ASSUME ShadowInv, TraceInv', NEW p \in TraceProcesses, AdvanceShadow(p)
    PROVE  /\ ShadowInv'
           /\ archive[writing[p].id].vector =>
                shadow'[p].step = expected[p] /\ failed'[p] = FALSE
  <1>1. /\ TraceInv /\ Stands(writing[p], shadow[p], expected[p], failed[p])
        /\ writing[p] \in TraceWrites /\ failed[p] \in BOOLEAN /\ writing[p].id \in Nat
        /\ writing[p].id <= Len(archive)
        /\ shadow = [shadow EXCEPT ![p] = shadow[p]]
        /\ Len(archive) \in Nat /\ Traces = 1 .. Len(archive)
    BY StandsOfAll
  <1>2. /\ writing[p].at = "embed" /\ TraceDone(p) /\ UNCHANGED <<ledgerTurns, archive, now, traceFaults>>
    BY DEF AdvanceShadow
  <1>3. /\ writing[p].id \in Traces /\ KnownBefore(shadow[p], writing[p].id)
        /\ shadow[p].step = writing[p].id - 1 /\ expected[p] = writing[p].id
        /\ shadow[p] \in Balanced /\ shadow[p].step <= Len(archive)
        /\ shadow[p].step = Len(archive) => Current(shadow[p], Len(archive))
    BY <1>1, <1>2 DEF Stands
  <1>4. CASE ~archive[writing[p].id].vector
    <2>1. failed' = [failed EXCEPT ![p] = TRUE] /\ shadow' = shadow /\ TRUE \in BOOLEAN
      BY <1>4 DEF AdvanceShadow
    <2>2. PICK s \in Balanced, b \in BOOLEAN : s = shadow[p] /\ b = TRUE
      BY <1>3
    <2>3. /\ s.step <= Len(archive) /\ (s.step = Len(archive) => Current(s, Len(archive)))
          /\ shadow' = [shadow EXCEPT ![p] = s] /\ failed' = [failed EXCEPT ![p] = b]
      BY <1>1, <1>3, <2>1, <2>2
    <2>4. ShadowInv'
      BY <1>2, <2>3, ShadowIsOver
    <2> QED BY <1>4, <2>4
  <1>5. CASE archive[writing[p].id].vector
    <2>1. PICK i \in Traces, x \in Balanced : i = writing[p].id /\ x = shadow[p]
      BY <1>3
    <2>2. PICK s : s = ShadowStep(x, ClusterOf(i))
      OBVIOUS
    <2>3. ClusterOf(i) \in Clusters
      BY <1>1, ClusterOfTrace
    <2>4. s \in Balanced /\ s.step = x.step + 1
      BY <2>2, <2>3, StepKeepsBalance, StepKeepsStates DEF Balanced
    <2>5. i \in Nat /\ i <= Len(archive) /\ x.step = i - 1 /\ KnownBefore(x, i)
      BY <1>1, <1>3, <2>1
    <2>6. s.step = i
      BY <2>4, <2>5
    <2>7. StampsDiffer
      BY DEF ShadowInv, ArchiveInv
    <2>8. Current(s, i)
      <3>1. Current(x, i - 1) /\ \A j \in 1 .. i - 1 : archive[j].stamp < archive[i].stamp
        BY <2>5 DEF KnownBefore
      <3> QED BY <1>1, <2>2, <2>7, <3>1, CurrentGrows
    <2>9. shadow' = [shadow EXCEPT ![p] = s]
      BY <1>5, <2>1, <2>2 DEF AdvanceShadow
    <2>10. PICK b \in BOOLEAN : b = FALSE /\ failed' = [failed EXCEPT ![p] = b]
      BY <1>5 DEF AdvanceShadow
    <2>11. s.step <= Len(archive) /\ (s.step = Len(archive) => Current(s, Len(archive)))
      BY <2>5, <2>6, <2>8
    <2>12. ShadowInv'
      BY <1>2, <2>4, <2>9, <2>10, <2>11, ShadowIsOver
    <2>13. shadow'[p] = s /\ failed'[p] = FALSE
      BY <2>9, <2>10 DEF ShadowInv
    <2> QED BY <1>3, <2>1, <2>6, <2>12, <2>13
  <1> QED BY <1>4, <1>5

LEMMA ShadowReplays ==
    ASSUME ShadowInv, TraceInv', NEW p \in TraceProcesses, Replay(p)
    PROVE  /\ ShadowInv'
           /\ Len(Replayable) = expected[p] =>
                shadow'[p].step = expected[p] /\ failed'[p] = FALSE
  <1>1. /\ TraceInv /\ Stands(writing[p], shadow[p], expected[p], failed[p])
        /\ failed[p] \in BOOLEAN /\ expected[p] \in Nat
        /\ shadow = [shadow EXCEPT ![p] = shadow[p]] /\ failed = [failed EXCEPT ![p] = failed[p]]
        /\ Len(archive) \in Nat
    BY StandsOfAll
  <1>2. writing[p].at = "replay" /\ TraceDone(p) /\ UNCHANGED <<ledgerTurns, archive, now, traceFaults>>
    BY DEF Replay
  <1>3. /\ shadow[p] = Blank /\ failed[p] = FALSE
        /\ shadow[p] \in Balanced /\ shadow[p].step <= Len(archive)
        /\ shadow[p].step = Len(archive) => Current(shadow[p], Len(archive))
    BY <1>1, <1>2 DEF Stands
  <1>4. CASE Len(Replayable) # expected[p]
    <2>1. failed' = [failed EXCEPT ![p] = TRUE] /\ shadow' = shadow /\ TRUE \in BOOLEAN
      BY <1>4 DEF Replay
    <2>2. PICK s \in Balanced, b \in BOOLEAN : s = shadow[p] /\ b = TRUE
      BY <1>3
    <2>3. /\ s.step <= Len(archive) /\ (s.step = Len(archive) => Current(s, Len(archive)))
          /\ shadow' = [shadow EXCEPT ![p] = s] /\ failed' = [failed EXCEPT ![p] = b]
      BY <1>1, <1>3, <2>1, <2>2
    <2>4. ShadowInv'
      BY <1>2, <2>3, ShadowIsOver
    <2> QED BY <1>4, <2>4
  <1>5. CASE Len(Replayable) = expected[p]
    <2>1. StampsDiffer
      BY DEF ShadowInv, ArchiveInv
    <2>2. /\ Replayable \in Seq(Clusters) /\ Len(Replayable) <= Len(archive) /\ Len(Replayable) \in Nat
          /\ Len(Replayable) = Len(archive) => Tells(Replayable, Len(archive))
      BY <1>1, <2>1, ReplayableTells
    <2>3. PICK q \in Seq(Clusters) : q = Replayable
      BY <2>2
    <2>4. PICK s : s = Stepped(Blank, q)
      OBVIOUS
    <2>5. s \in Balanced /\ s.step = Len(q)
      <3>1. s \in Balanced
        BY <2>4, BlankIsBalanced, SteppedKeepsBalance
      <3>2. s.step = Blank.step + Len(q) /\ Blank.step = 0
        BY <2>4, BlankState, SteppedCounts
      <3> QED BY <2>2, <2>3, <3>1, <3>2
    <2>6. s.step <= Len(archive) /\ (s.step = Len(archive) => Current(s, Len(archive)))
      BY <2>2, <2>3, <2>4, <2>5 DEF Current
    <2>7. shadow' = [shadow EXCEPT ![p] = s]
      BY <1>3, <1>5, <2>3, <2>4 DEF Replay
    <2>8. PICK b \in BOOLEAN : b = FALSE /\ failed' = [failed EXCEPT ![p] = b]
      BY <1>1, <1>3, <1>5 DEF Replay
    <2>9. ShadowInv'
      BY <1>2, <2>5, <2>6, <2>7, <2>8, ShadowIsOver
    <2>10. shadow'[p] = s /\ failed'[p] = FALSE
      BY <2>7, <2>8 DEF ShadowInv
    <2> QED BY <1>5, <2>3, <2>5, <2>9, <2>10
  <1> QED BY <1>4, <1>5

\* The process forgets its shadow state, to replay it or with its life.
LEMMA ShadowBlanks ==
    ASSUME ShadowInv, TraceInv', NEW p \in TraceProcesses, StartReplay(p) \/ TraceCrash(p)
    PROVE  ShadowInv'
  <1>1. /\ TraceInv /\ writing[p] \in TraceWrites
        /\ writing[p].id <= Len(archive) /\ writing[p].turn <= Len(ledgerTurns)
        /\ Len(archive) \in Nat /\ Len(ledgerTurns) \in Nat
        /\ traceFaults \in 0 .. MaxTraceFaults
    BY StandsOfAll
  <1>2. UNCHANGED <<ledgerTurns, archive, now>> /\ traceFaults' \in 0 .. MaxTraceFaults
    <2>1. MaxTraceFaults \in Nat
      BY TraceAssumption
    <2> QED BY <1>1, <2>1 DEF StartReplay, TraceCrash
  <1>3. PICK s \in Balanced, b \in BOOLEAN : s = Blank /\ b = FALSE
    BY BlankIsBalanced
  <1>4. shadow' = [shadow EXCEPT ![p] = s] /\ failed' = [failed EXCEPT ![p] = b]
    BY <1>3 DEF StartReplay, TraceCrash
  <1>5. PICK e \in Nat : e <= Len(archive) /\ expected' = [expected EXCEPT ![p] = e]
    <2>1. 0 <= Len(archive) /\ Len(archive) <= Len(archive)
      BY <1>1
    <2> QED BY <1>1, <2>1 DEF StartReplay, TraceCrash
  <1>6. PICK w \in TraceWrites : /\ writing' = [writing EXCEPT ![p] = w] /\ w.at \in {"replay", "down"}
                                 /\ w.id <= Len(archive) /\ w.turn <= Len(ledgerTurns)
    <2>1. "replay" \in TracePlaces /\ "down" \in TracePlaces /\ FALSE \in BOOLEAN
      BY DEF TracePlaces
    <2>2. CASE StartReplay(p)
      <3>1. [writing[p] EXCEPT !.at = "replay"] \in TraceWrites
            /\ [writing[p] EXCEPT !.at = "replay"].at = "replay"
            /\ [writing[p] EXCEPT !.at = "replay"].id = writing[p].id
            /\ [writing[p] EXCEPT !.at = "replay"].turn = writing[p].turn
        BY <1>1, <2>1 DEF TraceWrites
      <3>2. writing' = [writing EXCEPT ![p] = [writing[p] EXCEPT !.at = "replay"]]
        BY <2>2 DEF StartReplay, TraceGoto
      <3> QED BY <1>1, <3>1, <3>2
    <2>3. CASE TraceCrash(p)
      <3>1. NoWrite("down") \in TraceWrites /\ NoWrite("down").at = "down"
            /\ NoWrite("down").id = 0 /\ NoWrite("down").turn = 0
        BY <2>1 DEF NoWrite, TraceWrites
      <3>2. writing' = [writing EXCEPT ![p] = NoWrite("down")]
        BY <2>3 DEF TraceCrash
      <3>3. 0 <= Len(archive) /\ 0 <= Len(ledgerTurns)
        BY <1>1
      <3> QED BY <3>1, <3>2, <3>3
    <2> QED BY <2>2, <2>3
  <1>7. Stands(w, s, e, b)
    <2>1. w.at \notin {"insert", "vector", "count", "embed"} /\ (w.at = "replay" => b = FALSE)
      BY <1>3, <1>6
    <2> QED BY <1>1, <1>3, <1>5, <1>6, <2>1, BlankStands
  <1>8. Traces' = Traces /\ Len(archive)' = Len(archive)
        /\ \A i \in Traces : archive'[i].stamp = archive[i].stamp /\ archive'[i].turn = archive[i].turn
    BY <1>2 DEF Traces
  <1>9. w.at # "insert"
    BY <1>6
  <1> QED BY <1>2, <1>4, <1>5, <1>6, <1>7, <1>8, <1>9, ShadowMovesOn

\* A turn that is complete, and the start of a process.
LEMMA ShadowStarting ==
    ASSUME ShadowInv, TraceInv', NEW p \in TraceProcesses,
           \/ \E c \in Clusters : CompleteTurn(p, c)
           \/ StartBackfill(p) \/ Backfill(p) \/ BackfillDone(p)
    PROVE  ShadowInv'
  <1>1. /\ TraceInv /\ Stands(writing[p], shadow[p], expected[p], failed[p])
        /\ expected[p] \in Nat /\ expected[p] <= Len(archive) /\ failed[p] \in BOOLEAN
        /\ writing[p] \in TraceWrites
        /\ shadow = [shadow EXCEPT ![p] = shadow[p]]
        /\ expected = [expected EXCEPT ![p] = expected[p]]
        /\ failed = [failed EXCEPT ![p] = failed[p]]
        /\ Len(archive) \in Nat /\ Len(ledgerTurns) \in Nat
        /\ traceFaults \in 0 .. MaxTraceFaults
    BY StandsOfAll
  <1>2. ledgerTurns \in Seq(Clusters) /\ \A i \in Traces : archive[i].turn \in DOMAIN ledgerTurns
    BY <1>1 DEF TraceInv, TracesAreOfTurns
  <1>3. PICK e \in Nat : e = expected[p] /\ e <= Len(archive) /\ expected = [expected EXCEPT ![p] = e]
    BY <1>1
  <1>4. ASSUME NEW c \in Clusters, CompleteTurn(p, c) PROVE ShadowInv'
    <2>1. PICK n \in Nat : n = Len(ledgerTurns) + 1
      BY <1>1
    <2>2. StartWrite(p, n, TRUE) /\ TRUE \in BOOLEAN /\ UNCHANGED <<archive, expected, shadow, failed, traceFaults>>
          /\ ledgerTurns' = Append(ledgerTurns, c) /\ Len(ledgerTurns) < MaxTurnTraces
      BY <1>4, <2>1 DEF CompleteTurn
    <2>3. /\ Len(ledgerTurns)' = n /\ n <= MaxTurnTraces /\ n <= n
          /\ \A t \in DOMAIN ledgerTurns : ledgerTurns'[t] = ledgerTurns[t]
      <3>1. MaxTurnTraces \in Nat
        BY TraceAssumption
      <3> QED BY <1>1, <1>2, <2>1, <2>2, <3>1
    <2>4. \A i \in Traces : ClusterOf(i)' = ClusterOf(i)
      BY <1>2, <2>2, <2>3 DEF ClusterOf
    <2>5. Len(ledgerTurns) <= Len(ledgerTurns)' /\ Len(ledgerTurns)' <= MaxTurnTraces /\ n <= Len(ledgerTurns)'
      BY <1>1, <2>1, <2>3
    <2> QED BY <2>2, <2>4, <2>5, ShadowBegins
  <1>5. CASE StartBackfill(p)
    <2>1. writing' = [writing EXCEPT ![p] = [writing[p] EXCEPT !.at = "backfill"]]
          /\ UNCHANGED <<ledgerTurns, archive, now, traceFaults, shadow, failed, expected>>
      BY <1>5 DEF StartBackfill, TraceGoto
    <2>2. expected' = [expected EXCEPT ![p] = e]
      BY <1>3, <2>1
    <2> QED BY <1>3, <2>1, <2>2, QuietMove
  <1>6. CASE BackfillDone(p)
    <2>1. writing' = [writing EXCEPT ![p] = [writing[p] EXCEPT !.at = "recount"]]
          /\ UNCHANGED <<ledgerTurns, archive, now, traceFaults, shadow, failed, expected>>
      BY <1>6 DEF BackfillDone, TraceGoto
    <2>2. expected' = [expected EXCEPT ![p] = e]
      BY <1>3, <2>1
    <2> QED BY <1>3, <2>1, <2>2, QuietMove
  <1>7. CASE Backfill(p)
    <2>1. PICK t \in backlog[p] : IF Archived(t) THEN UNCHANGED <<writing, now>> ELSE StartWrite(p, t, FALSE)
      BY <1>7 DEF Backfill
    <2>2. writing[p].at = "backfill" /\ UNCHANGED <<ledgerTurns, archive, expected, shadow, failed, traceFaults>>
      BY <1>7 DEF Backfill
    <2>3. CASE Archived(t)
      <3>1. writing' = [writing EXCEPT ![p] = [writing[p] EXCEPT !.at = "backfill"]]
        <4>1. [writing[p] EXCEPT !.at = "backfill"] = writing[p]
          BY <1>1, <2>2 DEF TraceWrites
        <4>2. writing = [writing EXCEPT ![p] = writing[p]]
          BY <1>1 DEF TraceInv
        <4> QED BY <2>1, <2>3, <4>1, <4>2
      <3>2. expected' = [expected EXCEPT ![p] = e] /\ now' = now
        BY <1>3, <2>1, <2>2, <2>3
      <3> QED BY <1>3, <2>2, <3>1, <3>2, QuietMove
    <2>4. CASE ~Archived(t)
      <3>1. t \in DOMAIN ledgerTurns
        BY <1>1 DEF TraceInv
      <3>2. t \in Nat /\ t <= Len(ledgerTurns)
        BY <1>2, <3>1
      <3>3. StartWrite(p, t, FALSE) /\ FALSE \in BOOLEAN
        BY <2>1, <2>4
      <3>4. \A i \in Traces : ClusterOf(i)' = ClusterOf(i)
        BY <2>2 DEF ClusterOf
      <3>5. Len(ledgerTurns) <= Len(ledgerTurns)' /\ Len(ledgerTurns)' <= MaxTurnTraces /\ t <= Len(ledgerTurns)'
        BY <1>1, <2>2, <3>2 DEF ShadowInv, ArchiveInv
      <3> QED BY <2>2, <3>2, <3>3, <3>4, <3>5, ShadowBegins
    <2> QED BY <2>3, <2>4
  <1> QED BY <1>4, <1>5, <1>6, <1>7

LEMMA ShadowNext == ShadowInv /\ [TraceNext]_traceVars => ShadowInv'
  <1> SUFFICES ASSUME ShadowInv, [TraceNext]_traceVars PROVE ShadowInv'
    OBVIOUS
  <1>1. TraceInv /\ TraceInv'
    BY TraceStep DEF ShadowInv
  <1>2. ASSUME NEW p \in TraceProcesses, InsertVector(p) \/ VectorRefused(p) PROVE ShadowInv'
    <2>1. writing[p].at = "vector" /\ Written(p) /\ UNCHANGED <<ledgerTurns, now, expected, shadow, failed>>
      BY <1>2 DEF InsertVector, VectorRefused
    <2>2. traceFaults' \in 0 .. MaxTraceFaults
      <3>1. traceFaults \in 0 .. MaxTraceFaults /\ MaxTraceFaults \in Nat
        BY TraceAssumption DEF ShadowInv, ArchiveInv
      <3> QED BY <1>2, <3>1 DEF InsertVector, VectorRefused
    <2>3. /\ archive \in Seq(TraceRows) /\ archive' \in Seq(TraceRows) /\ writing[p].id \in Traces
      BY <1>1, <2>1 DEF TraceInv, VectorsHaveRows
    <2>4. /\ DOMAIN archive' = DOMAIN archive
          /\ \A i \in Traces : archive'[i].stamp = archive[i].stamp /\ archive'[i].turn = archive[i].turn
      <3>1. CASE VectorRefused(p)
        BY <3>1 DEF VectorRefused
      <3>2. CASE InsertVector(p)
        <4>1. archive' = [archive EXCEPT ![writing[p].id] = [archive[writing[p].id] EXCEPT !.vector = TRUE]]
          BY <3>2 DEF InsertVector
        <4>2. archive[writing[p].id] \in TraceRows
          BY <2>3 DEF Traces
        <4>3. [archive[writing[p].id] EXCEPT !.vector = TRUE].stamp = archive[writing[p].id].stamp
              /\ [archive[writing[p].id] EXCEPT !.vector = TRUE].turn = archive[writing[p].id].turn
          BY <4>2 DEF TraceRows
        <4> QED BY <4>1, <4>3 DEF Traces
      <3> QED BY <1>2, <3>1, <3>2
    <2>5. Len(archive)' = Len(archive)
      BY <2>3, <2>4
    <2> QED BY <1>1, <2>1, <2>2, <2>4, <2>5, ShadowWrites
  <1>3. CASE UNCHANGED traceVars
    <2>1. /\ UNCHANGED <<ledgerTurns, archive, now, writing, backlog, expected, shadow, failed, traceFaults>>
      BY <1>3 DEF traceVars
    <2>2. ASSUME NEW p \in TraceProcesses PROVE Stands(writing[p], shadow[p], expected[p], failed[p])'
      <3>1. Stands(writing[p], shadow[p], expected[p], failed[p])
        BY DEF ShadowInv
      <3> QED BY <2>1, <3>1
           DEF Stands, KnownBefore, Current, Tells, Earlier, Rank, ClusterOf, Traces
    <2>3. ArchiveInv'
      BY <2>1 DEF ShadowInv, ArchiveInv, StampsDiffer, PendingDiffer, Traces
    <2> QED BY <1>1, <2>1, <2>2, <2>3 DEF ShadowInv
  <1>4. CASE TraceNext
    <2>1. PICK p \in TraceProcesses :
             \/ \E c \in Clusters : CompleteTurn(p, c)
             \/ StartBackfill(p) \/ Backfill(p) \/ BackfillDone(p)
             \/ InsertTrace(p) \/ InsertVector(p) \/ VectorRefused(p)
             \/ CountTraces(p) \/ AdvanceShadow(p) \/ StartReplay(p) \/ Replay(p)
             \/ TraceCrash(p)
      BY <1>4 DEF TraceNext
    <2>2. CASE \/ \E c \in Clusters : CompleteTurn(p, c)
               \/ StartBackfill(p) \/ Backfill(p) \/ BackfillDone(p)
      BY <1>1, <2>2, ShadowStarting
    <2>3. CASE InsertTrace(p)
      BY <1>1, <2>3, ShadowInserts
    <2>4. CASE InsertVector(p) \/ VectorRefused(p)
      BY <1>2, <2>4
    <2>5. CASE CountTraces(p)
      BY <1>1, <2>5, ShadowCounts
    <2>6. CASE AdvanceShadow(p)
      BY <1>1, <2>6, ShadowAdvances
    <2>7. CASE Replay(p)
      BY <1>1, <2>7, ShadowReplays
    <2>8. CASE StartReplay(p) \/ TraceCrash(p)
      BY <1>1, <2>8, ShadowBlanks
    <2> QED BY <2>1, <2>2, <2>3, <2>4, <2>5, <2>6, <2>7, <2>8
  <1> QED BY <1>3, <1>4

LEMMA ShadowInvGives == ShadowInv => TraceTypeOK /\ ShadowIsReplay /\ MassIsKept
  <1> SUFFICES ASSUME ShadowInv PROVE TraceTypeOK /\ ShadowIsReplay /\ MassIsKept
    OBVIOUS
  <1>1. TraceInv /\ ArchiveInv /\ Len(archive) \in Nat /\ Len(ledgerTurns) \in Nat
    BY DEF ShadowInv, TraceInv
  <1>2. MassIsKept
    BY DEF ShadowInv, Stands, Balanced, MassIsKept
  <1>3. ShadowIsReplay
    <2>1. ASSUME NEW p \in TraceProcesses, ShadowStatus(p) = "passed"
          PROVE  shadow[p] = Stepped(Blank, Chronicle)
      <3>1. shadow[p].step = Len(archive)
        BY <2>1 DEF ShadowStatus
      <3>2. Current(shadow[p], Len(archive))
        BY <3>1 DEF ShadowInv, Stands
      <3>3. PICK s : s = shadow[p]
        OBVIOUS
      <3> QED BY <1>1, <3>2, <3>3, CurrentIsReplayed DEF ArchiveInv
    <2> QED BY <2>1 DEF ShadowIsReplay
  <1>4. TraceTypeOK
    <2>1. MaxTraces \in Nat /\ MaxTurnTraces \in Nat
      BY TraceAssumption
    <2>2. Len(archive) <= MaxTraces /\ Len(ledgerTurns) <= MaxTurnTraces
      BY <1>1 DEF ArchiveInv
    <2>3. /\ ledgerTurns \in Seq(Clusters) /\ now \in Nat /\ archive \in Seq(TraceRows)
          /\ writing \in [TraceProcesses -> TraceWrites]
          /\ backlog \in [TraceProcesses -> SUBSET DOMAIN ledgerTurns]
          /\ \A i \in Traces : archive[i].turn \in DOMAIN ledgerTurns
      BY <1>1 DEF TraceInv, TracesAreOfTurns
    <2>4. DOMAIN ledgerTurns = 1 .. Len(ledgerTurns) /\ DOMAIN ledgerTurns \subseteq TurnIds
      BY <1>1, <2>1, <2>2, <2>3 DEF TurnIds
    <2>5. archive \in Seq([turn : TurnIds, by : TraceProcesses, stamp : Nat, vector : BOOLEAN])
      <3>1. ASSUME NEW i \in Traces
            PROVE  archive[i] \in [turn : TurnIds, by : TraceProcesses, stamp : Nat, vector : BOOLEAN]
        <4>1. archive[i] \in TraceRows
          BY <2>3 DEF Traces
        <4>2. archive[i].turn \in TurnIds
          BY <2>3, <2>4
        <4> QED BY <4>1, <4>2 DEF TraceRows
      <3>2. Traces = 1 .. Len(archive) /\ archive = [i \in 1 .. Len(archive) |-> archive[i]]
            /\ Len(archive) \in Nat
        BY <2>3 DEF Traces
      <3> DEFINE Columns == [turn : TurnIds, by : TraceProcesses, stamp : Nat, vector : BOOLEAN]
      <3>3. \A i \in 1 .. Len(archive) : archive[i] \in Columns
        BY <3>1, <3>2
      <3> HIDE DEF Columns
      <3>4. archive \in [1 .. Len(archive) -> Columns]
        BY <3>2, <3>3
      <3>5. archive \in Seq(Columns)
        BY <3>2, <3>4, SeqDef
      <3> QED BY <3>5 DEF Columns
    <2>6. ASSUME NEW p \in TraceProcesses
          PROVE  /\ writing[p].at \in TracePlaces
                 /\ writing[p].turn \in TurnIds \cup {0}
                 /\ writing[p].id \in TraceIds \cup {0}
                 /\ writing[p].live \in BOOLEAN
                 /\ backlog[p] \subseteq TurnIds
                 /\ expected[p] \in 0 .. MaxTraces
                 /\ shadow[p].step \in Nat
                 /\ DOMAIN shadow[p].mass \subseteq Clusters
                 /\ failed[p] \in BOOLEAN
      <3>1. /\ writing[p] \in TraceWrites /\ writing[p].id \in Nat /\ writing[p].turn \in Nat
            /\ expected[p] \in Nat /\ expected[p] <= Len(archive) /\ failed[p] \in BOOLEAN
            /\ writing[p].id <= Len(archive) /\ writing[p].turn <= Len(ledgerTurns)
        BY StandsOfAll
      <3>2. writing[p].at \in TracePlaces /\ writing[p].live \in BOOLEAN
        BY <3>1 DEF TraceWrites
      <3>3. shadow[p] \in States
        BY DEF ShadowInv, Balanced
      <3>4. shadow[p].step \in Nat /\ DOMAIN shadow[p].mass \subseteq Clusters
        BY <3>3, StateParts
      <3>5. backlog[p] \subseteq TurnIds
        BY <2>3, <2>4
      <3>6. /\ writing[p].turn \in TurnIds \cup {0} /\ writing[p].id \in TraceIds \cup {0}
            /\ expected[p] \in 0 .. MaxTraces
        BY <1>1, <2>1, <2>2, <3>1 DEF TurnIds, TraceIds
      <3> QED BY <3>1, <3>2, <3>4, <3>5, <3>6
    <2>7. traceFaults \in 0 .. MaxTraceFaults
      BY <1>1 DEF ArchiveInv
    <2> QED BY <2>2, <2>3, <2>5, <2>6, <2>7 DEF TraceTypeOK
  <1> QED BY <1>2, <1>3, <1>4

CurrentStep ==
    \A p \in TraceProcesses :
        (/\ writing[p].at \in {"embed", "replay"} /\ writing'[p].at = "idle"
         /\ Len(archive) = expected[p]
         /\ \A i \in Traces : archive[i].vector)
            => ShadowStatus(p)' \in {"passed", "awaiting-input"}

LEMMA StepsAreCurrent == ShadowInv /\ [TraceNext]_traceVars => [CurrentStep]_traceVars
  <1> SUFFICES ASSUME ShadowInv, TraceNext, NEW p \in TraceProcesses,
                      writing[p].at \in {"embed", "replay"}, writing'[p].at = "idle",
                      Len(archive) = expected[p], \A i \in Traces : archive[i].vector
               PROVE  ShadowStatus(p)' \in {"passed", "awaiting-input"}
    BY DEF CurrentStep
  <1>1. TraceInv /\ TraceInv' /\ StampsDiffer
    BY TraceStep DEF ShadowInv, ArchiveInv
  <1>2. /\ Stands(writing[p], shadow[p], expected[p], failed[p])
        /\ Len(archive) \in Nat /\ Traces = 1 .. Len(archive) /\ expected[p] \in Nat
        /\ writing \in [TraceProcesses -> TraceWrites]
    BY <1>1, StandsOfAll DEF TraceInv
  <1>3. AdvanceShadow(p) \/ Replay(p)
    <2>1. PICK q \in TraceProcesses :
             \/ \E c \in Clusters : CompleteTurn(q, c)
             \/ StartBackfill(q) \/ Backfill(q) \/ BackfillDone(q)
             \/ InsertTrace(q) \/ InsertVector(q) \/ VectorRefused(q)
             \/ CountTraces(q) \/ AdvanceShadow(q) \/ StartReplay(q) \/ Replay(q)
             \/ TraceCrash(q)
      BY DEF TraceNext
    <2>2. \E w : writing' = [writing EXCEPT ![q] = w] \/ writing' = writing
      BY <2>1 DEF CompleteTurn, StartBackfill, Backfill, BackfillDone, InsertTrace, InsertVector, VectorRefused,
                  CountTraces, AdvanceShadow, StartReplay, Replay, TraceCrash, Written, StartWrite, TraceGoto,
                  TraceDone
    <2>3. q = p
      BY <1>2, <2>2
    <2>4. writing[p].at \notin {"down", "idle", "backfill", "insert", "vector", "count", "recount"}
      OBVIOUS
    <2>5. ~TraceCrash(p)
      BY <1>2 DEF TraceCrash, NoWrite
    <2> QED BY <2>1, <2>3, <2>4, <2>5
         DEF CompleteTurn, StartBackfill, Backfill, BackfillDone, InsertTrace, InsertVector, VectorRefused,
             CountTraces, StartReplay
  <1>4. shadow'[p].step = Len(archive) /\ failed'[p] = FALSE
    <2>1. CASE AdvanceShadow(p)
      <3>1. writing[p].at = "embed"
        BY <2>1 DEF AdvanceShadow
      <3>2. writing[p].id \in Traces
        BY <1>2, <3>1 DEF Stands
      <3> QED BY <1>1, <2>1, <3>2, ShadowAdvances
    <2>2. CASE Replay(p)
      <3>1. Len(Replayable) = Len(archive)
        BY <1>1, ReplayableTells
      <3> QED BY <1>1, <2>2, <3>1, ShadowReplays
    <2> QED BY <1>3, <2>1, <2>2
  <1>5. archive' = archive
    BY <1>3 DEF AdvanceShadow, Replay
  <1>6. Len(archive) = 0 => archive = <<>>
    BY <1>1, EmptySeq DEF TraceInv
  <1> QED BY <1>4, <1>5, <1>6 DEF ShadowStatus

\* The shadow state of a process and the archive stay what the type says.
THEOREM TraceTypeCorrect == TraceSpec => []TraceTypeOK
  <1> QED BY ShadowStarts, ShadowNext, ShadowInvGives, PTL DEF TraceSpec

\* However the processes' statements interleave, a shadow state that is shown as
\* passed is the one the whole archive gives in the order of time, its mass is 1
\* and its clusters keep to the capacity (_advance_h2_shadow,
\* replay_h2_shadow, bounded_active_shadow_step).
THEOREM ShadowCorrect == TraceSpec => []ShadowIsSound
  <1>1. ShadowInv => ShadowIsSound
    BY ShadowInvGives DEF ShadowIsSound
  <1> QED BY <1>1, ShadowStarts, ShadowNext, PTL DEF TraceSpec

\* A turn or a start ends with a shadow state up to date when no trace came in
\* between and every trace has its vector.
THEOREM ShadowKeepsUp == TraceSpec => ShadowIsCurrent
  <1>1. ShadowInv /\ [TraceNext]_traceVars => ShadowInv' /\ [CurrentStep]_traceVars
    BY ShadowNext, StepsAreCurrent
  <1>2. ShadowInv /\ [TraceNext]_traceVars => ShadowInv'
    BY <1>1
  <1> QED BY <1>1, <1>2, ShadowStarts, PTL DEF TraceSpec, ShadowIsCurrent, CurrentStep

-----------------------------------------------------------------------------
(***************************************************************************)
(* TurnLearning: which task of a process runs.                             *)
(***************************************************************************)
TaskPlaces == {"none", "memory", "extract", "write", "identity", "review", "integrate", "over"}

Busy(w) == Live(w) /\ ~Waits(w)

\* The numbers the tasks hold, and the turn of a task that has begun.
NumbersFit ==
    /\ up \subseteq Processes /\ crashes <= MaxCrashes
    /\ stale \in [Processes -> 0 .. MaxTurns] /\ marker \in [Processes -> 0 .. MaxTurns]
    /\ \A w \in Tasks : subject[w] <= MaxTurns /\ window[w] <= MaxTurns
    /\ \A w \in Tasks : task[w] # "none" => subject[w] >= 1

\* Of the tasks of one process one runs at most, and before it is initialized
\* only the first one is there; who writes or reviews is at that place.
TasksInv ==
    /\ task \in [Tasks -> TaskPlaces]
    /\ turns \in [Processes -> 0 .. MaxTurns] /\ stale \in [Processes -> Nat]
    /\ subject \in [Tasks -> Nat] /\ window \in [Tasks -> Nat]
    /\ setting \in Settings /\ crashes \in Nat
    /\ \A w, x \in Tasks : w # x /\ w[1] = x[1] /\ Busy(w) => ~Busy(x)
    /\ \A p \in Processes \ up : \A w \in Own(p) \ {Boot(p)} : ~Live(w)
    /\ \A w \in Tasks : Writing(w) => task[w] = "write"
    /\ \A w \in Tasks : Reviewing(w) => task[w] = "integrate"
    /\ NumbersFit

-----------------------------------------------------------------------------
(***************************************************************************)
(* Its memories.                                                           *)
(***************************************************************************)
Memories ==
    [content : Contents, kind : Kinds, by : Processes, status : {"active", "conflicted"},
     supports : SUBSET Events, opposes : SUBSET Events]
Candidates == [content : Contents \cup {NoContent}, evidence : SUBSET Events]

\* What a task has found out about its candidate still holds: no other task of
\* its process has written meanwhile, and memories only gather evidence.
FindingsHold(w) ==
    /\ memoryStep[w] \notin {"idle", "pick"} =>
         memoryHand[w].evidence # {} /\ memoryHand[w].content \in Contents
    /\ memoryStep[w] \in {"support", "oppose", "mark"} => memoryRow[w] \in Rows
    /\ memoryStep[w] = "mark" => memoryHand[w].evidence \cap memories[memoryRow[w]].opposes # {}
    /\ memoryStep[w] \in {"similar", "contradict", "oppose", "mark", "insert"} =>
         \A m \in Active : memories[m].content = memoryHand[w].content => memories[m].by # w[1]

\* A memory in conflict has its successor, or somebody is about to insert it.
Succeeded(m) ==
    \/ \E e \in memories[m].opposes : \E n \in Rows \ {m} : e \in memories[n].supports
    \/ \E w \in Tasks : /\ memoryStep[w] = "insert" /\ memoryRow[w] = m
                        /\ memoryHand[w].evidence \cap memories[m].opposes # {}

MemoryTwins ==
    \A m, n \in Active :
        m # n /\ memories[m].content = memories[n].content => memories[m].by # memories[n].by

MemoriesInv ==
    /\ memories \in Seq(Memories)
    /\ memoryStep \in [Tasks -> MemorySteps]
    /\ memoryHand \in [Tasks -> Candidates]
    /\ memoryRow \in [Tasks -> Nat]
    /\ \A w \in Tasks : FindingsHold(w)
    /\ MemoryIsGrounded
    /\ crashes = 0 => \A m \in Rows : memories[m].status = "conflicted" => Succeeded(m)
    /\ MemoryTwins

-----------------------------------------------------------------------------
(***************************************************************************)
(* Its beliefs.                                                            *)
(***************************************************************************)
Confidences == 0 .. FullConfidence
Heads ==
    [version : Nat, support : SUBSET Events, confidence : Confidences,
     status : {"candidate", "active"}, cause : Events \cup {NoEvent}]
Beliefs ==
    [claim : Claims, by : Processes, first : 0 .. ConfidenceCap, basis : SUBSET Events, head : Heads]

\* What a review has found out about its claim: what it has read is the latest
\* version or an earlier one, and a claim no belief of its process has.
ReadingHolds(w) ==
    /\ beliefStep[w] \in {"create", "read", "append"} =>
         IsFiniteSet(beliefRest[w]) /\ beliefRest[w] # {}
    /\ beliefStep[w] \in {"read", "append"} => beliefLineage[w] \in Lineages
    /\ beliefStep[w] = "append" =>
         LET h == beliefs[beliefLineage[w]].head IN
         beliefCopy[w].version <= h.version /\ (beliefCopy[w].version = h.version => beliefCopy[w] = h)
    /\ beliefStep[w] = "create" =>
         /\ beliefClaim[w] \in Claims
         /\ \A l \in Lineages : beliefs[l].claim = beliefClaim[w] => beliefs[l].by # w[1]

BeliefTwins ==
    \A k, l \in Lineages : k # l /\ beliefs[k].claim = beliefs[l].claim => beliefs[k].by # beliefs[l].by

BeliefsInv ==
    /\ beliefs \in Seq(Beliefs)
    /\ aged \subseteq Lineages
    /\ beliefStep \in [Tasks -> BeliefSteps]
    /\ beliefRest \in [Tasks -> SUBSET Events]
    /\ beliefCopy \in [Tasks -> Heads]
    /\ beliefClaim \in [Tasks -> Claims \cup {NoClaim}]
    /\ beliefLineage \in [Tasks -> Nat]
    /\ \A w \in Tasks : ReadingHolds(w)
    /\ \A l \in Lineages : IsFiniteSet(beliefs[l].head.support)
    /\ ConfidenceIsEarned
    /\ BeliefTwins

LearnInv == TasksInv /\ MemoriesInv /\ BeliefsInv

-----------------------------------------------------------------------------
LEMMA TaskIsOwned ==
    /\ \A w \in Tasks : w[1] \in Processes /\ w \in Own(w[1])
    /\ \A p \in Processes : Boot(p) \in Tasks /\ Boot(p)[1] = p /\ Own(p) \subseteq Tasks
                            /\ \A w \in Own(p) : w[1] = p
  BY LearningAssumption DEF Tasks, Own, Boot

LEMMA BusyPlaces ==
    ASSUME TasksInv, NEW w \in Tasks
    PROVE  /\ task[w] \in TaskPlaces
           /\ Busy(w) <=> task[w] \in {"memory", "write", "identity", "integrate"}
           /\ Live(w) /\ Waits(w) <=> task[w] \in {"extract", "review"}
           /\ Live(w) <=> task[w] \notin {"none", "over"}
  BY DEF TasksInv, TaskPlaces, Busy, Live, Waits

\* Of all tasks of a process one runs at most; without it being up there is
\* only the first.
TasksTakeTurns ==
    /\ task \in [Tasks -> TaskPlaces]
    /\ \A w, x \in Tasks : w # x /\ w[1] = x[1] /\ Busy(w) => ~Busy(x)
    /\ \A p \in Processes \ up : \A w \in Own(p) \ {Boot(p)} : ~Live(w)

\* A task goes on: it ran, or nobody else of its process does.
LEMMA TaskGoesOn ==
    ASSUME TasksInv, NEW w \in Tasks, NEW place \in TaskPlaces, Goto(w, place),
           Busy(w) \/ MayRun(w), up \subseteq up',
           Live(w) \/ w = Boot(w[1]) \/ w[1] \in up
    PROVE  TasksTakeTurns' /\ task'[w] = place /\ \A x \in Tasks \ {w} : task'[x] = task[x]
  <1>1. task' = [task EXCEPT ![w] = place] /\ task \in [Tasks -> TaskPlaces]
    BY DEF Goto, TasksInv
  <1>2. task' \in [Tasks -> TaskPlaces] /\ task'[w] = place
        /\ \A x \in Tasks \ {w} : task'[x] = task[x]
    BY <1>1
  <1>3. \A x \in Tasks \ {w} : (Busy(x)' <=> Busy(x)) /\ (Live(x)' <=> Live(x))
    BY <1>2 DEF Busy, Live, Waits
  <1>4. \A x \in Tasks \ {w} : x[1] = w[1] => ~Busy(x)
    BY DEF TasksInv, MayRun, Own, Busy
  <1>5. ASSUME NEW x \in Tasks, NEW y \in Tasks, x # y, x[1] = y[1], Busy(x)' PROVE ~Busy(y)'
    <2>1. CASE x = w
      BY <2>1, <1>3, <1>4, <1>5
    <2>2. CASE y = w
      BY <2>2, <1>3, <1>4, <1>5
    <2>3. CASE x # w /\ y # w
      BY <2>3, <1>3, <1>5 DEF TasksInv
    <2> QED BY <2>1, <2>2, <2>3
  <1>6. ASSUME NEW p \in Processes \ up', NEW x \in Own(p) \ {Boot(p)} PROVE ~Live(x)'
    <2>1. p \in Processes \ up /\ x \in Tasks /\ x[1] = p /\ ~Live(x)
      BY <1>6, TaskIsOwned DEF TasksInv
    <2>2. x # w
      BY <2>1, <1>6
    <2> QED BY <2>1, <2>2, <1>3
  <1> QED BY <1>2, <1>5, <1>6 DEF TasksTakeTurns

WritersAreThere ==
    /\ \A w \in Tasks : Writing(w) => task[w] = "write"
    /\ \A w \in Tasks : Reviewing(w) => task[w] = "integrate"

LEMMA TasksTurn == LearnInv /\ [Next]_vars => TasksTakeTurns' /\ WritersAreThere'
  <1> SUFFICES ASSUME LearnInv, [Next]_vars PROVE TasksTakeTurns' /\ WritersAreThere'
    OBVIOUS
  <1> TasksInv
    BY DEF LearnInv
  <1>1. TasksTakeTurns /\ WritersAreThere
    BY DEF TasksInv, TasksTakeTurns, WritersAreThere
  <1>2. memoryStep \in [Tasks -> MemorySteps] /\ beliefStep \in [Tasks -> BeliefSteps]
        /\ turns \in [Processes -> 0 .. MaxTurns] /\ MaxTurns \in Nat /\ setting \in Settings
    BY LearningAssumption DEF LearnInv, MemoriesInv, BeliefsInv, TasksInv
  <1>3. \A w \in Tasks : /\ Writing(w)' <=> memoryStep'[w] # "idle"
                         /\ Reviewing(w)' <=> beliefStep'[w] # "idle"
    BY DEF Writing, Reviewing
  \* A task that neither writes nor reviews goes on, and nobody begins to.
  <1>4. ASSUME NEW w \in Tasks, NEW place \in TaskPlaces, Goto(w, place),
               Busy(w) \/ MayRun(w), up \subseteq up', Live(w) \/ w = Boot(w[1]) \/ w[1] \in up,
               task[w] \notin {"write", "integrate"},
               UNCHANGED <<memoryStep, beliefStep>>
        PROVE TasksTakeTurns' /\ WritersAreThere'
    <2>1. TasksTakeTurns' /\ \A x \in Tasks \ {w} : task'[x] = task[x]
      BY <1>4, TaskGoesOn
    <2>2. ~Writing(w) /\ ~Reviewing(w)
      BY <1>1, <1>4 DEF WritersAreThere
    <2> QED BY <2>1, <2>2, <1>1, <1>4 DEF WritersAreThere, Writing, Reviewing
  <1>5. ASSUME NEW p \in Processes, Initialize(p) PROVE TasksTakeTurns' /\ WritersAreThere'
    <2>1. Boot(p) \in Tasks /\ Boot(p)[1] = p
      BY TaskIsOwned
    <2>2. PICK place \in {"memory", "identity"} : Goto(Boot(p), place)
      BY <1>5 DEF Initialize
    <2>3. MayRun(Boot(p))
      <3>1. \A x \in Own(p) \ {Boot(p)} : ~Live(x)
        BY <1>1, <1>5 DEF Initialize, TasksTakeTurns
      <3> QED BY <2>1, <3>1 DEF MayRun
    <2>4. task[Boot(p)] \in {"none", "over"}
      BY <2>1, <1>5, BusyPlaces DEF Initialize
    <2>5. up' = up /\ UNCHANGED <<memoryStep, beliefStep>>
      BY <1>5 DEF Initialize, memoryVars, beliefVars, beliefLocals
    <2>6. place \in TaskPlaces
      BY DEF TaskPlaces
    <2> QED BY <2>1, <2>2, <2>3, <2>4, <2>5, <2>6, <1>4
  <1>6. ASSUME NEW p \in Processes, Turn(p) PROVE TasksTakeTurns' /\ WritersAreThere'
    <2> DEFINE w == <<p, turns[p] + 1>>
    <2>1. setting.limit[p] \in 0 .. MaxTurns /\ turns[p] \in Nat /\ turns[p] < setting.limit[p]
      BY <1>2, <1>6, LearningAssumption DEF Turn
    <2>2. w \in Tasks /\ w[1] = p
      BY <2>1, <1>2 DEF Tasks
    <2>3. Goto(w, "memory") /\ up' = up /\ p \in up /\ UNCHANGED <<memoryStep, beliefStep>>
          /\ \A x \in Own(p) : Live(x) => Waits(x)
      BY <1>6 DEF Turn, memoryVars, beliefVars, beliefLocals
    <2> HIDE DEF w
    <2>4. MayRun(w)
      BY <2>2, <2>3 DEF MayRun
    <2>5. task[w] \notin {"write", "integrate"}
      <3>1. Live(w) => Waits(w)
        BY <2>2, <2>3, TaskIsOwned
      <3> QED BY <2>2, <3>1, BusyPlaces
    <2>6. "memory" \in TaskPlaces
      BY DEF TaskPlaces
    <2> QED BY <2>2, <2>3, <2>4, <2>5, <2>6, <1>4
  <1>7. ASSUME NEW p \in Processes, Crash(p) PROVE TasksTakeTurns' /\ WritersAreThere'
    <2>1. task' = [w \in Tasks |-> IF w \in Own(p) /\ Live(w) THEN "over" ELSE task[w]]
          /\ up' = up \ {p}
      BY <1>7 DEF Crash
    <2>2. \A w \in Tasks : task'[w] = IF w \in Own(p) /\ Live(w) THEN "over" ELSE task[w]
      BY <2>1
    <2>3. task' \in [Tasks -> TaskPlaces]
      BY <2>1, <1>1 DEF TasksTakeTurns, TaskPlaces
    <2>4. \A w \in Tasks : (Live(w)' => Live(w) /\ w \notin Own(p)) /\ (Busy(w)' => Busy(w))
      BY <2>2 DEF Live, Busy, Waits
    <2>5. \A w, x \in Tasks : w # x /\ w[1] = x[1] /\ Busy(w)' => ~Busy(x)'
      BY <2>4, <1>1 DEF TasksTakeTurns
    <2>6. \A q \in Processes \ up' : \A w \in Own(q) \ {Boot(q)} : ~Live(w)'
      <3>1. ASSUME NEW q \in Processes \ up', NEW w \in Own(q) \ {Boot(q)} PROVE ~Live(w)'
        <4>1. CASE q = p
          BY <4>1, <2>4, TaskIsOwned
        <4>2. CASE q # p
          BY <4>2, <2>1, <2>4, <1>1, TaskIsOwned DEF TasksTakeTurns
        <4> QED BY <4>1, <4>2
      <3> QED BY <3>1
    <2>7. \A w \in Tasks : /\ w \in Own(p) => memoryStep'[w] = "idle" /\ beliefStep'[w] = "idle"
                           /\ w \notin Own(p) => memoryStep'[w] = memoryStep[w]
                                                 /\ beliefStep'[w] = beliefStep[w]
      BY <1>7, TasksAssumption DEF Crash, LoseWrites, LoseReviews
    <2>8. WritersAreThere'
      BY <2>2, <2>7, <1>1 DEF WritersAreThere, Writing, Reviewing
    <2> QED BY <2>3, <2>5, <2>6, <2>8 DEF TasksTakeTurns
  <1>8. ASSUME NEW w \in Tasks, AskForMemories(w)
        PROVE TasksTakeTurns' /\ WritersAreThere'
    <2>1. PICK place \in {"extract", "identity"} : Goto(w, place)
      BY <1>8 DEF AskForMemories
    <2>2. task[w] = "memory" /\ up' = up /\ MayRun(w) /\ UNCHANGED <<memoryStep, beliefStep>>
      BY <1>8 DEF AskForMemories, memoryVars, beliefVars, beliefLocals
    <2>3. place \in TaskPlaces /\ Live(w)
      BY <2>2 DEF TaskPlaces, Live
    <2> QED BY <2>1, <2>2, <2>3, <1>4
  \* A task goes on, and it alone begins or ends to write or to review.
  <1>9. ASSUME NEW w \in Tasks, NEW place \in TaskPlaces, Goto(w, place),
               Busy(w) \/ MayRun(w), up \subseteq up', Live(w),
               \A x \in Tasks \ {w} : memoryStep'[x] = memoryStep[x] /\ beliefStep'[x] = beliefStep[x],
               memoryStep'[w] # "idle" => place = "write",
               beliefStep'[w] # "idle" => place = "integrate"
        PROVE TasksTakeTurns' /\ WritersAreThere'
    <2>1. TasksTakeTurns' /\ task'[w] = place /\ \A x \in Tasks \ {w} : task'[x] = task[x]
      BY <1>9, TaskGoesOn
    <2>2. WritersAreThere'
      <3>1. ASSUME NEW x \in Tasks
            PROVE (Writing(x)' => task'[x] = "write") /\ (Reviewing(x)' => task'[x] = "integrate")
        <4>1. CASE x = w
          BY <4>1, <2>1, <1>3, <1>9
        <4>2. CASE x # w
          BY <4>2, <2>1, <1>1, <1>9 DEF WritersAreThere, Writing, Reviewing
        <4> QED BY <4>1, <4>2
      <3> QED BY <3>1 DEF WritersAreThere
    <2> QED BY <2>1, <2>2
  <1>10. \A w \in Tasks :
           /\ task[w] \in {"memory", "extract", "write", "identity", "review", "integrate"} => Live(w)
           /\ task[w] \in {"memory", "write", "identity", "integrate"} => Busy(w)
           /\ task[w] # "write" => memoryStep[w] = "idle"
           /\ task[w] # "integrate" => beliefStep[w] = "idle"
    BY <1>1 DEF Live, Busy, Waits, WritersAreThere, Writing, Reviewing
  <1>11. \A w \in Tasks, step \in MemorySteps :
           MemoryGoto(w, step) => memoryStep'[w] = step
                                  /\ \A x \in Tasks \ {w} : memoryStep'[x] = memoryStep[x]
    BY <1>2 DEF MemoryGoto
  <1>12. \A w \in Tasks, step \in BeliefSteps :
           BeliefGoto(w, step) => beliefStep'[w] = step
                                  /\ \A x \in Tasks \ {w} : beliefStep'[x] = beliefStep[x]
    BY <1>2 DEF BeliefGoto
  <1>13. "idle" \in MemorySteps /\ "pick" \in MemorySteps
         /\ "idle" \in BeliefSteps /\ "pick" \in BeliefSteps
         /\ {"write", "memory", "identity", "over", "integrate", "review"} \subseteq TaskPlaces
    BY DEF MemorySteps, BeliefSteps, TaskPlaces
  <1>14. ASSUME NEW w \in Tasks, MemoriesExtracted(w) PROVE TasksTakeTurns' /\ WritersAreThere'
    <2>1. task[w] = "extract" /\ MayRun(w) /\ Goto(w, "write") /\ MemoryGoto(w, "pick") /\ up' = up
          /\ beliefStep' = beliefStep
      BY <1>14 DEF MemoriesExtracted, BeginWrite, beliefVars, beliefLocals
    <2>2. memoryStep'[w] = "pick" /\ \A x \in Tasks \ {w} : memoryStep'[x] = memoryStep[x]
      BY <2>1, <1>11, <1>13
    <2> QED BY <2>1, <2>2, <1>9, <1>10, <1>13
  <1>15. ASSUME NEW w \in Tasks, MemoriesLearned(w) PROVE TasksTakeTurns' /\ WritersAreThere'
    <2>1. PICK place \in {"memory", "identity"} : Goto(w, place)
      BY <1>15 DEF MemoriesLearned
    <2>2. task[w] = "write" /\ MemoryGoto(w, "idle") /\ up' = up /\ beliefStep' = beliefStep
      BY <1>15 DEF MemoriesLearned, EndWrite, beliefVars, beliefLocals
    <2>3. memoryStep'[w] = "idle" /\ \A x \in Tasks \ {w} : memoryStep'[x] = memoryStep[x]
      BY <2>2, <1>11, <1>13
    <2> QED BY <2>1, <2>2, <2>3, <1>9, <1>10, <1>13
  <1>16. ASSUME NEW w \in Tasks, SkipReview(w) PROVE TasksTakeTurns' /\ WritersAreThere'
    <2>1. task[w] = "identity" /\ Goto(w, "over") /\ up \subseteq up'
          /\ UNCHANGED <<memoryStep, beliefStep>>
      BY <1>16 DEF SkipReview, Finish, memoryVars, beliefVars, beliefLocals
    <2> QED BY <2>1, <1>9, <1>10, <1>13
  <1>17. ASSUME NEW w \in Tasks, AskForClaims(w) PROVE TasksTakeTurns' /\ WritersAreThere'
    <2>1. task[w] = "identity" /\ up' = up /\ memoryStep' = memoryStep
      BY <1>17 DEF AskForClaims, memoryVars
    <2>2. CASE Goto(w, "integrate") /\ BeginReview(w)
      <3>1. beliefStep'[w] = "pick" /\ \A x \in Tasks \ {w} : beliefStep'[x] = beliefStep[x]
        BY <2>2, <1>12, <1>13 DEF BeginReview
      <3> QED BY <2>1, <2>2, <3>1, <1>9, <1>10, <1>13
    <2>3. CASE Goto(w, "review") /\ UNCHANGED beliefVars
      <3>1. beliefStep' = beliefStep
        BY <2>3 DEF beliefVars, beliefLocals
      <3> QED BY <2>1, <2>3, <3>1, <1>9, <1>10, <1>13
    <2> QED BY <1>17, <2>2, <2>3 DEF AskForClaims
  <1>18. ASSUME NEW w \in Tasks, ClaimsExtracted(w) PROVE TasksTakeTurns' /\ WritersAreThere'
    <2>1. task[w] = "review" /\ MayRun(w) /\ Goto(w, "integrate") /\ BeliefGoto(w, "pick")
          /\ up' = up /\ memoryStep' = memoryStep
      BY <1>18 DEF ClaimsExtracted, BeginReview, memoryVars
    <2>2. beliefStep'[w] = "pick" /\ \A x \in Tasks \ {w} : beliefStep'[x] = beliefStep[x]
      BY <2>1, <1>12, <1>13
    <2> QED BY <2>1, <2>2, <1>9, <1>10, <1>13
  <1>19. ASSUME NEW w \in Tasks, Reviewed(w) \/ ReviewFails(w)
         PROVE TasksTakeTurns' /\ WritersAreThere'
    <2>1. task[w] = "integrate" /\ Goto(w, "over") /\ BeliefGoto(w, "idle") /\ up \subseteq up'
          /\ memoryStep' = memoryStep
      BY <1>19 DEF Reviewed, ReviewFails, EndReview, VersionConflict, BeliefLeave, Finish, memoryVars
    <2>2. beliefStep'[w] = "idle" /\ \A x \in Tasks \ {w} : beliefStep'[x] = beliefStep[x]
      BY <2>1, <1>12, <1>13
    <2> QED BY <2>1, <2>2, <1>9, <1>10, <1>13
  \* A statement of the task that writes, or of the one that reviews.
  <1>20. ASSUME NEW w \in Tasks, UNCHANGED <<task, up>>,
                \A x \in Tasks \ {w} : memoryStep'[x] = memoryStep[x] /\ beliefStep'[x] = beliefStep[x],
                memoryStep'[w] # "idle" => task[w] = "write",
                beliefStep'[w] # "idle" => task[w] = "integrate"
         PROVE TasksTakeTurns' /\ WritersAreThere'
    <2>1. TasksTakeTurns'
      BY <1>1, <1>20 DEF TasksTakeTurns, Live, Busy, Waits
    <2>2. WritersAreThere'
      BY <1>1, <1>20 DEF WritersAreThere, Writing, Reviewing
    <2> QED BY <2>1, <2>2
  <1>21. ASSUME NEW w \in Tasks, WriteMemories(w) PROVE TasksTakeTurns' /\ WritersAreThere'
    <2>1. task[w] = "write" /\ UNCHANGED <<task, up, beliefStep>>
      BY <1>21 DEF WriteMemories, learningVars, beliefVars, beliefLocals
    <2>2. \A x \in Tasks \ {w} : memoryStep'[x] = memoryStep[x]
      <3>1. ASSUME NEW step, MemoryGoto(w, step)
            PROVE \A x \in Tasks \ {w} : memoryStep'[x] = memoryStep[x]
        BY <3>1, <1>2 DEF MemoryGoto
      <3>2. memoryStep' = memoryStep \/ \E step : MemoryGoto(w, step)
        BY <1>21
           DEF WriteMemories, WriteStep, NextCandidate, FindSimilar, AddSupport, FindContradicted,
               AddContradiction, MarkConflicted, InsertMemory, DropCandidate
      <3> QED BY <3>1, <3>2
    <2>3. beliefStep[w] = "idle"
      BY <2>1, <1>10
    <2> QED BY <2>1, <2>2, <2>3, <1>20
  <1>22. ASSUME NEW w \in Tasks, IntegrateClaims(w) PROVE TasksTakeTurns' /\ WritersAreThere'
    <2>1. task[w] = "integrate" /\ UNCHANGED <<task, up, memoryStep>>
      BY <1>22 DEF IntegrateClaims, learningVars, memoryVars
    <2>2. \A x \in Tasks \ {w} : beliefStep'[x] = beliefStep[x]
      <3>1. ASSUME NEW step, BeliefGoto(w, step)
            PROVE \A x \in Tasks \ {w} : beliefStep'[x] = beliefStep[x]
        BY <3>1, <1>2 DEF BeliefGoto
      <3>2. beliefStep' = beliefStep \/ \E step : BeliefGoto(w, step)
        BY <1>22
           DEF IntegrateClaims, ReviewStep, NextClaim, CreateCandidate, ReadLatest, KnownByNow,
               AppendVersion, EventDone, ClaimDone
      <3> QED BY <3>1, <3>2
    <2>3. memoryStep[w] = "idle"
      BY <2>1, <1>10
    <2> QED BY <2>1, <2>2, <2>3, <1>20
  <1>23. ASSUME WeekPasses \/ UNCHANGED vars PROVE TasksTakeTurns' /\ WritersAreThere'
    <2>1. UNCHANGED <<task, up, memoryStep, beliefStep>>
      BY <1>23 DEF WeekPasses, BeliefsAge, vars, learningVars, memoryVars, beliefVars, beliefLocals
    <2> QED
      BY <2>1, <1>1 DEF TasksTakeTurns, WritersAreThere, Live, Busy, Waits, Writing, Reviewing
  <1> QED
    BY <1>5, <1>6, <1>7, <1>8, <1>14, <1>15, <1>16, <1>17, <1>18, <1>19, <1>21, <1>22, <1>23
       DEF Next, LearningStep

LEMMA NumbersStep == LearnInv /\ [Next]_vars => NumbersFit'
  <1> SUFFICES ASSUME LearnInv, [Next]_vars PROVE NumbersFit'
    OBVIOUS
  <1>1. /\ turns \in [Processes -> 0 .. MaxTurns] /\ setting \in Settings /\ crashes \in Nat
        /\ subject \in [Tasks -> Nat] /\ window \in [Tasks -> Nat] /\ task \in [Tasks -> TaskPlaces]
        /\ NumbersFit
    BY DEF LearnInv, TasksInv
  <1>2. MaxTurns \in Nat \ {0} /\ MaxCrashes \in Nat /\ BootstrapTurns \in Nat \ {0}
    BY LearningAssumption
  <1>3. crashes' <= MaxCrashes
    <2>1. ASSUME NEW p \in Processes, Crash(p) PROVE crashes' <= MaxCrashes
      BY <1>1, <1>2, <2>1 DEF Crash
    <2>2. crashes' = crashes \/ \E p \in Processes : Crash(p)
      BY DEF Next, Initialize, Turn, LearningStep, AskForMemories, MemoriesExtracted,
             WriteMemories, MemoriesLearned, SkipReview, AskForClaims, ClaimsExtracted,
             IntegrateClaims, Reviewed, ReviewFails, WeekPasses, vars, learningVars
    <2> QED BY <1>1, <2>1, <2>2 DEF NumbersFit
  <1>4. stale' \in [Processes -> 0 .. MaxTurns]
    <2>1. stale' = stale \/ stale' = turns
      BY DEF Next, Initialize, Turn, Crash, LearningStep, AskForMemories, MemoriesExtracted,
             WriteMemories, MemoriesLearned, SkipReview, AskForClaims, ClaimsExtracted,
             IntegrateClaims, Reviewed, ReviewFails, WeekPasses, vars, learningVars
    <2> QED BY <2>1, <1>1 DEF NumbersFit
  <1>5. marker' \in [Processes -> 0 .. MaxTurns]
    <2>1. ASSUME NEW p \in Processes, Crash(p) PROVE marker' \in [Processes -> 0 .. MaxTurns]
      BY <1>1, <1>2, <2>1 DEF Crash, NumbersFit
    <2>2. ASSUME NEW w \in Tasks, Reviewed(w) PROVE marker' \in [Processes -> 0 .. MaxTurns]
      <3>1. window[w] \in 0 .. MaxTurns
        BY <1>1, <1>2 DEF NumbersFit
      <3>2. marker' = [marker EXCEPT ![w[1]] = window[w]]
        BY <2>2 DEF Reviewed
      <3> QED BY <1>1, <3>1, <3>2 DEF NumbersFit
    <2>3. \/ marker' = marker \/ \E p \in Processes : Crash(p)
          \/ \E w \in Tasks : Reviewed(w)
      BY DEF Next, Initialize, Turn, LearningStep, AskForMemories, MemoriesExtracted,
             WriteMemories, MemoriesLearned, SkipReview, AskForClaims, ClaimsExtracted,
             IntegrateClaims, ReviewFails, WeekPasses, vars, learningVars
    <2> QED BY <1>1, <2>1, <2>2, <2>3 DEF NumbersFit
  <1>6. \A w \in Tasks : window'[w] <= MaxTurns
    <2>1. ASSUME NEW w \in Tasks, AskForClaims(w) PROVE \A x \in Tasks : window'[x] <= MaxTurns
      <3>1. turns[w[1]] <= MaxTurns
        BY <1>1, <1>2, TaskIsOwned
      <3>2. window' = [window EXCEPT ![w] = turns[w[1]]]
        BY <2>1 DEF AskForClaims
      <3> QED BY <1>1, <3>1, <3>2 DEF NumbersFit
    <2>2. window' = window \/ \E w \in Tasks : AskForClaims(w)
      BY DEF Next, Initialize, Turn, Crash, LearningStep, AskForMemories, MemoriesExtracted,
             WriteMemories, MemoriesLearned, SkipReview, ClaimsExtracted,
             IntegrateClaims, Reviewed, ReviewFails, WeekPasses, vars, learningVars
    <2> QED BY <1>1, <2>1, <2>2 DEF NumbersFit
  \* A task that has a turn keeps one, and only one that has a turn goes on.
  <1>7. ASSUME NEW w \in Tasks, NEW n \in 1 .. MaxTurns, subject' = [subject EXCEPT ![w] = n],
               \A x \in Tasks \ {w} : task'[x] = task[x]
        PROVE \A x \in Tasks : subject'[x] <= MaxTurns /\ (task'[x] # "none" => subject'[x] >= 1)
    <2>1. ASSUME NEW x \in Tasks
          PROVE subject'[x] <= MaxTurns /\ (task'[x] # "none" => subject'[x] >= 1)
      <3>1. CASE x = w
        BY <1>1, <1>2, <1>7, <3>1
      <3>2. CASE x # w
        BY <1>1, <1>7, <3>2 DEF NumbersFit
      <3> QED BY <3>1, <3>2
    <2> QED BY <2>1
  <1>8. ASSUME subject' = subject, \A x \in Tasks : task[x] = "none" => task'[x] = "none"
        PROVE \A x \in Tasks : subject'[x] <= MaxTurns /\ (task'[x] # "none" => subject'[x] >= 1)
    BY <1>1, <1>8 DEF NumbersFit
  <1>9. \A w \in Tasks : \A place : Goto(w, place) => \A x \in Tasks \ {w} : task'[x] = task[x]
    BY <1>1 DEF Goto
  <1>10. ASSUME NEW p \in Processes, Initialize(p)
         PROVE \A x \in Tasks : subject'[x] <= MaxTurns /\ (task'[x] # "none" => subject'[x] >= 1)
    <2>1. turns[p] \in 0 .. MaxTurns /\ Boot(p) \in Tasks
      BY <1>1, TaskIsOwned
    <2>2. LatestFrom(turns[p]) \in 1 .. MaxTurns
      BY <1>2, <2>1 DEF LatestFrom
    <2>3. subject' = [subject EXCEPT ![Boot(p)] = LatestFrom(turns[p])]
          /\ \E place : Goto(Boot(p), place)
      BY <1>10 DEF Initialize
    <2> QED BY <1>7, <1>9, <2>1, <2>2, <2>3
  <1>11. ASSUME NEW p \in Processes, Turn(p)
         PROVE \A x \in Tasks : subject'[x] <= MaxTurns /\ (task'[x] # "none" => subject'[x] >= 1)
    <2> DEFINE n == turns[p] + 1
               w == <<p, n>>
    <2>1. setting.limit[p] \in 0 .. MaxTurns
      BY <1>1, LearningAssumption
    <2>2. n \in 1 .. MaxTurns
      BY <2>1, <1>1, <1>2, <1>11 DEF Turn
    <2>3. w \in Tasks /\ w[2] = n
      BY <2>2, <1>2 DEF Tasks
    <2>4. subject' = [subject EXCEPT ![w] = n] /\ Goto(w, "memory")
      BY <1>11 DEF Turn
    <2> HIDE DEF w, n
    <2> QED BY <1>7, <1>9, <2>2, <2>3, <2>4
  <1>12. ASSUME NEW w \in Tasks, MemoriesLearned(w)
         PROVE \A x \in Tasks : subject'[x] <= MaxTurns /\ (task'[x] # "none" => subject'[x] >= 1)
    <2>1. task[w] = "write" /\ w[1] \in Processes
      BY <1>12, TaskIsOwned DEF MemoriesLearned
    <2>2. CASE subject[w] < turns[w[1]] /\ Goto(w, "memory") /\ subject' = [subject EXCEPT ![w] = @ + 1]
      <3>1. subject[w] \in Nat /\ subject[w] < turns[w[1]] /\ turns[w[1]] \in 0 .. MaxTurns
        BY <1>1, <2>1, <2>2
      <3>2. subject[w] + 1 \in 1 .. MaxTurns
        BY <1>2, <3>1
      <3> QED BY <1>7, <1>9, <2>2, <3>2
    <2>3. CASE Goto(w, "identity") /\ subject' = subject
      BY <1>8, <1>9, <2>1, <2>3
    <2> QED BY <1>12, <2>2, <2>3 DEF MemoriesLearned
  <1>13. ASSUME NEW p \in Processes, Crash(p)
         PROVE \A x \in Tasks : subject'[x] <= MaxTurns /\ (task'[x] # "none" => subject'[x] >= 1)
    <2>1. subject' = subject
          /\ \A x \in Tasks : task'[x] = IF x \in Own(p) /\ Live(x) THEN "over" ELSE task[x]
      BY <1>13 DEF Crash
    <2> QED BY <1>8, <2>1 DEF Live
  <1>14. ASSUME NEW w \in Tasks, LearningStep(w), ~MemoriesLearned(w)
         PROVE \A x \in Tasks : subject'[x] <= MaxTurns /\ (task'[x] # "none" => subject'[x] >= 1)
    <2>1. task[w] # "none" /\ subject' = subject /\ (task' = task \/ \E place : Goto(w, place))
      BY <1>14
         DEF LearningStep, AskForMemories, MemoriesExtracted, WriteMemories, SkipReview,
             AskForClaims, ClaimsExtracted, IntegrateClaims, Reviewed, ReviewFails, Finish, learningVars
    <2> QED BY <1>8, <1>9, <2>1
  <1>15. ASSUME WeekPasses \/ UNCHANGED vars
         PROVE \A x \in Tasks : subject'[x] <= MaxTurns /\ (task'[x] # "none" => subject'[x] >= 1)
    <2>1. subject' = subject /\ task' = task
      BY <1>15 DEF WeekPasses, vars, learningVars
    <2> QED BY <1>8, <2>1
  <1>16. \A x \in Tasks : subject'[x] <= MaxTurns /\ (task'[x] # "none" => subject'[x] >= 1)
    BY <1>10, <1>11, <1>12, <1>13, <1>14, <1>15 DEF Next
  <1>17. up' \subseteq Processes
    <2>1. up' = up \/ (\E w \in Tasks : up' = up \cup {w[1]}) \/ \E p \in Processes : up' = up \ {p}
      BY DEF Next, Initialize, Turn, Crash, LearningStep, AskForMemories, MemoriesExtracted,
             WriteMemories, MemoriesLearned, SkipReview, AskForClaims, ClaimsExtracted,
             IntegrateClaims, Reviewed, ReviewFails, Finish, WeekPasses, vars, learningVars
    <2> QED BY <1>1, <2>1, TaskIsOwned DEF NumbersFit
  <1> QED BY <1>3, <1>4, <1>5, <1>6, <1>16, <1>17 DEF NumbersFit

LEMMA TasksStep == LearnInv /\ [Next]_vars => TasksInv'
  <1> SUFFICES ASSUME LearnInv, [Next]_vars PROVE TasksInv'
    OBVIOUS
  <1>1. TasksTakeTurns' /\ WritersAreThere'
    BY TasksTurn
  <1>2. /\ turns \in [Processes -> 0 .. MaxTurns] /\ stale \in [Processes -> Nat]
        /\ subject \in [Tasks -> Nat] /\ window \in [Tasks -> Nat]
        /\ setting \in Settings /\ crashes \in Nat
    BY DEF LearnInv, TasksInv
  <1>3. setting' = setting
    BY DEF Next, Initialize, Turn, Crash, LearningStep, AskForMemories, MemoriesExtracted,
           WriteMemories, MemoriesLearned, SkipReview, AskForClaims, ClaimsExtracted,
           IntegrateClaims, Reviewed, ReviewFails, WeekPasses, vars
  <1>4. crashes' \in Nat
    <2>1. crashes' = crashes \/ crashes' = crashes + 1
      BY DEF Next, Initialize, Turn, Crash, LearningStep, AskForMemories, MemoriesExtracted,
             WriteMemories, MemoriesLearned, SkipReview, AskForClaims, ClaimsExtracted,
             IntegrateClaims, Reviewed, ReviewFails, WeekPasses, vars, learningVars
    <2> QED BY <2>1, <1>2
  <1>5. turns' \in [Processes -> 0 .. MaxTurns]
    <2>1. ASSUME NEW p \in Processes, Turn(p) PROVE turns' \in [Processes -> 0 .. MaxTurns]
      <3>1. setting.limit[p] \in 0 .. MaxTurns
        BY <1>2, LearningAssumption
      <3>2. turns[p] + 1 \in 0 .. MaxTurns
        BY <2>1, <3>1, <1>2, LearningAssumption DEF Turn
      <3> QED BY <2>1, <3>2, <1>2 DEF Turn
    <2>2. turns' = turns \/ \E p \in Processes : Turn(p)
      BY DEF Next, Initialize, Crash, LearningStep, AskForMemories, MemoriesExtracted,
             WriteMemories, MemoriesLearned, SkipReview, AskForClaims, ClaimsExtracted,
             IntegrateClaims, Reviewed, ReviewFails, WeekPasses, vars, learningVars
    <2> QED BY <2>1, <2>2, <1>2
  <1>6. stale' \in [Processes -> Nat]
    <2>1. stale' = stale \/ stale' = turns
      BY DEF Next, Initialize, Turn, Crash, LearningStep, AskForMemories, MemoriesExtracted,
             WriteMemories, MemoriesLearned, SkipReview, AskForClaims, ClaimsExtracted,
             IntegrateClaims, Reviewed, ReviewFails, WeekPasses, vars, learningVars
    <2> QED BY <2>1, <1>2, LearningAssumption
  <1>7. subject' \in [Tasks -> Nat]
    <2>1. ASSUME NEW w \in Tasks, NEW n \in Nat, subject' = [subject EXCEPT ![w] = n]
          PROVE subject' \in [Tasks -> Nat]
      BY <2>1, <1>2
    <2>2. ASSUME NEW p \in Processes, Initialize(p) PROVE subject' \in [Tasks -> Nat]
      <3>1. LatestFrom(turns[p]) \in Nat
        BY <1>2, LearningAssumption DEF LatestFrom
      <3> QED BY <2>1, <2>2, <3>1, TaskIsOwned DEF Initialize
    <2>3. ASSUME NEW p \in Processes, Turn(p) PROVE subject' \in [Tasks -> Nat]
      <3>1. setting.limit[p] \in 0 .. MaxTurns
        BY <1>2, LearningAssumption
      <3>2. turns[p] + 1 \in 0 .. MaxTurns /\ turns[p] + 1 \in Nat
        BY <2>3, <3>1, <1>2, LearningAssumption DEF Turn
      <3>3. <<p, turns[p] + 1>> \in Tasks /\ <<p, turns[p] + 1>>[2] = turns[p] + 1
        BY <3>2 DEF Tasks
      <3>4. subject' = [subject EXCEPT ![<<p, turns[p] + 1>>] = turns[p] + 1]
        BY <2>3 DEF Turn
      <3> QED BY <2>1, <3>2, <3>3, <3>4
    <2>4. ASSUME NEW w \in Tasks, MemoriesLearned(w) PROVE subject' \in [Tasks -> Nat]
      <3>1. subject' = subject \/ subject' = [subject EXCEPT ![w] = subject[w] + 1]
        BY <2>4 DEF MemoriesLearned
      <3>2. subject[w] + 1 \in Nat
        BY <1>2
      <3> QED BY <2>1, <3>1, <3>2, <1>2
    <2>5. \/ subject' = subject
          \/ \E p \in Processes : Initialize(p) \/ Turn(p)
          \/ \E w \in Tasks : MemoriesLearned(w)
      BY DEF Next, Crash, LearningStep, AskForMemories, MemoriesExtracted,
             WriteMemories, SkipReview, AskForClaims, ClaimsExtracted,
             IntegrateClaims, Reviewed, ReviewFails, WeekPasses, vars, learningVars
    <2> QED BY <2>2, <2>3, <2>4, <2>5, <1>2
  <1>8. window' \in [Tasks -> Nat]
    <2>1. window' = window \/ \E w \in Tasks : AskForClaims(w)
      BY DEF Next, Initialize, Turn, Crash, LearningStep, AskForMemories, MemoriesExtracted,
             WriteMemories, MemoriesLearned, SkipReview, ClaimsExtracted,
             IntegrateClaims, Reviewed, ReviewFails, WeekPasses, vars, learningVars
    <2>2. ASSUME NEW w \in Tasks, AskForClaims(w) PROVE window' \in [Tasks -> Nat]
      <3>1. turns[w[1]] \in Nat
        BY <1>2, TaskIsOwned, LearningAssumption
      <3> QED BY <2>2, <3>1, <1>2 DEF AskForClaims
    <2> QED BY <2>1, <2>2, <1>2
  <1> QED
    BY <1>1, <1>2, <1>3, <1>4, <1>5, <1>6, <1>7, <1>8, NumbersStep
       DEF TasksInv, TasksTakeTurns, WritersAreThere

-----------------------------------------------------------------------------
\* Who writes, writes alone of the tasks of its process.
LEMMA OneWriter ==
    ASSUME TasksInv, NEW w \in Tasks, NEW x \in Tasks, w # x, w[1] = x[1], Writing(w)
    PROVE  ~Writing(x)
  <1>1. \A y \in Tasks : Writing(y) => Busy(y)
    BY DEF TasksInv, Busy, Live, Waits
  <1> QED BY <1>1 DEF TasksInv

\* Memories gather evidence, and at most fall into conflict.
MemoriesAge ==
    /\ Rows' = Rows
    /\ \A m \in Rows :
         /\ memories'[m].content = memories[m].content /\ memories'[m].by = memories[m].by
         /\ memories[m].supports \subseteq memories'[m].supports
         /\ memories[m].opposes \subseteq memories'[m].opposes
         /\ memories'[m].status = "active" => memories[m].status = "active"

\* The findings of the others hold, when what is known only ages.
LEMMA FindingsKeep ==
    ASSUME MemoriesInv, MemoriesAge, NEW x \in Tasks,
           memoryStep'[x] = memoryStep[x], memoryHand'[x] = memoryHand[x],
           memoryRow'[x] = memoryRow[x]
    PROVE  FindingsHold(x)'
  <1>1. FindingsHold(x)
    BY DEF MemoriesInv
  <1>2. Active' \subseteq Active /\ \A m \in Active : m \in Rows
    BY DEF MemoriesAge, Active
  <1>3. memoryStep[x] = "mark" =>
          memoryHand'[x].evidence \cap memories'[memoryRow'[x]].opposes # {}
    BY <1>1 DEF FindingsHold, MemoriesAge
  <1>4. memoryStep[x] \in {"similar", "contradict", "oppose", "mark", "insert"} =>
          \A m \in Active' : memories'[m].content = memoryHand'[x].content => memories'[m].by # x[1]
    BY <1>1, <1>2 DEF FindingsHold, MemoriesAge
  <1> QED BY <1>1, <1>3, <1>4 DEF FindingsHold, MemoriesAge

MemoriesTyped ==
    /\ memories \in Seq(Memories)
    /\ memoryStep \in [Tasks -> MemorySteps]
    /\ memoryHand \in [Tasks -> Candidates]
    /\ memoryRow \in [Tasks -> Nat]

\* A statement of the task w that inserts nothing.
LEMMA MemoriesKeep ==
    ASSUME MemoriesInv, MemoriesAge, MemoriesTyped', NEW w \in Tasks, memoryStep[w] # "insert",
           \A x \in Tasks \ {w} : memoryStep'[x] = memoryStep[x] /\ memoryHand'[x] = memoryHand[x]
                                  /\ memoryRow'[x] = memoryRow[x],
           FindingsHold(w)', crashes' = crashes,
           \A m \in Rows :
             memories'[m].status = "conflicted" /\ memories[m].status # "conflicted" =>
               /\ memoryStep'[w] = "insert" /\ memoryRow'[w] = m
               /\ memoryHand'[w].evidence \cap memories'[m].opposes # {}
    PROVE  MemoriesInv'
  <1>1. \A x \in Tasks : FindingsHold(x)'
    BY FindingsKeep
  <1>2. MemoryIsGrounded'
    <2>1. ASSUME NEW m \in Rows
          PROVE  /\ memories'[m].supports # {}
                 /\ memories'[m].status = "conflicted" => memories'[m].opposes # {}
      <3>1. /\ memories[m].supports # {}
            /\ memories[m].status = "conflicted" => memories[m].opposes # {}
        BY DEF MemoriesInv, MemoryIsGrounded
      <3> QED BY <3>1 DEF MemoriesAge
    <2> QED BY <2>1 DEF MemoryIsGrounded, MemoriesAge
  <1>3. ASSUME crashes' = 0, NEW m \in Rows', memories'[m].status = "conflicted"
        PROVE Succeeded(m)'
    <2>0. m \in Rows
      BY <1>3 DEF MemoriesAge
    <2>1. CASE memories[m].status # "conflicted"
      BY <1>3, <2>0, <2>1 DEF Succeeded
    <2>2. CASE memories[m].status = "conflicted"
      <3>1. Succeeded(m)
        BY <1>3, <2>0, <2>2 DEF MemoriesInv
      <3>2. CASE \E e \in memories[m].opposes : \E n \in Rows \ {m} : e \in memories[n].supports
        BY <2>0, <3>2 DEF Succeeded, MemoriesAge
      <3>3. CASE \E x \in Tasks : /\ memoryStep[x] = "insert" /\ memoryRow[x] = m
                                  /\ memoryHand[x].evidence \cap memories[m].opposes # {}
        <4>1. PICK x \in Tasks : /\ memoryStep[x] = "insert" /\ memoryRow[x] = m
                                 /\ memoryHand[x].evidence \cap memories[m].opposes # {}
          BY <3>3
        <4>2. x # w
          BY <4>1
        <4>3. /\ memoryStep'[x] = "insert" /\ memoryRow'[x] = m
              /\ memoryHand'[x].evidence \cap memories'[m].opposes # {}
          BY <2>0, <4>1, <4>2 DEF MemoriesAge
        <4> QED BY <4>3 DEF Succeeded
      <3> QED BY <3>1, <3>2, <3>3 DEF Succeeded
    <2> QED BY <2>1, <2>2
  <1>4. MemoryTwins'
    <2>1. Active' \subseteq Active /\ \A m \in Active : m \in Rows
      BY DEF MemoriesAge, Active
    <2> QED BY <2>1 DEF MemoriesInv, MemoryTwins, MemoriesAge
  <1> QED BY <1>1, <1>2, <1>3, <1>4 DEF MemoriesInv, MemoriesTyped

\* The locals of the task w, after a statement that assigns them.
LEMMA WriterMoves ==
    ASSUME MemoriesInv, NEW w \in Tasks,
           memoryStep' = memoryStep \/ \E step \in MemorySteps : MemoryGoto(w, step),
           memoryHand' = memoryHand \/ \E hand \in Candidates : memoryHand' = [memoryHand EXCEPT ![w] = hand],
           memoryRow' = memoryRow \/ \E row \in Nat : memoryRow' = [memoryRow EXCEPT ![w] = row]
    PROVE  /\ memoryStep' \in [Tasks -> MemorySteps] /\ memoryHand' \in [Tasks -> Candidates]
           /\ memoryRow' \in [Tasks -> Nat]
           /\ \A x \in Tasks \ {w} : memoryStep'[x] = memoryStep[x] /\ memoryHand'[x] = memoryHand[x]
                                     /\ memoryRow'[x] = memoryRow[x]
           /\ \A step : MemoryGoto(w, step) => memoryStep'[w] = step
           /\ \A hand : memoryHand' = [memoryHand EXCEPT ![w] = hand] => memoryHand'[w] = hand
           /\ \A row : memoryRow' = [memoryRow EXCEPT ![w] = row] => memoryRow'[w] = row
  <1>1. memoryStep' \in [Tasks -> MemorySteps] /\ \A x \in Tasks \ {w} : memoryStep'[x] = memoryStep[x]
    BY DEF MemoriesInv, MemoryGoto
  <1>2. memoryHand' \in [Tasks -> Candidates] /\ \A x \in Tasks \ {w} : memoryHand'[x] = memoryHand[x]
    BY DEF MemoriesInv
  <1>3. memoryRow' \in [Tasks -> Nat] /\ \A x \in Tasks \ {w} : memoryRow'[x] = memoryRow[x]
    BY DEF MemoriesInv
  <1>4. \A step : MemoryGoto(w, step) => memoryStep'[w] = step
    BY DEF MemoriesInv, MemoryGoto
  <1>5. \A hand : memoryHand' = [memoryHand EXCEPT ![w] = hand] => memoryHand'[w] = hand
    BY DEF MemoriesInv
  <1>6. \A row : memoryRow' = [memoryRow EXCEPT ![w] = row] => memoryRow'[w] = row
    BY DEF MemoriesInv
  <1> QED BY <1>1, <1>2, <1>3, <1>4, <1>5, <1>6

\* One memory is changed, and gathers what it is given.
LEMMA MemoryGathers ==
    ASSUME MemoriesInv, NEW r \in Rows, NEW row \in Memories, memories' = [memories EXCEPT ![r] = row],
           row.content = memories[r].content, row.by = memories[r].by,
           memories[r].supports \subseteq row.supports, memories[r].opposes \subseteq row.opposes,
           row.status = "active" => memories[r].status = "active"
    PROVE  MemoriesAge /\ memories' \in Seq(Memories) /\ memories'[r] = row
           /\ \A m \in Rows \ {r} : memories'[m] = memories[m]
  <1>1. memories \in Seq(Memories) /\ Rows = 1 .. Len(memories)
    BY DEF MemoriesInv, Rows
  <1>2. memories' \in Seq(Memories) /\ Len(memories') = Len(memories)
    BY <1>1, ExceptSeq
  <1>3. Rows' = Rows
    BY DEF Rows
  <1>4. memories'[r] = row /\ \A m \in Rows \ {r} : memories'[m] = memories[m]
    BY DEF Rows
  <1> QED BY <1>2, <1>3, <1>4 DEF MemoriesAge

LEMMA HandsAndRows ==
    ASSUME MemoriesInv
    PROVE  /\ \A m \in Rows : memories[m] \in Memories
           /\ \A w \in Tasks : /\ memoryHand[w] \in Candidates /\ memoryHand[w].evidence \subseteq Events
                               /\ memoryStep[w] \in MemorySteps
           /\ Rows \subseteq Nat /\ Active \subseteq Rows
  <1>1. memories \in Seq(Memories) /\ memoryHand \in [Tasks -> Candidates]
        /\ memoryStep \in [Tasks -> MemorySteps]
    BY DEF MemoriesInv
  <1>2. \A m \in Rows : memories[m] \in Memories
    BY <1>1 DEF Rows
  <1>3. \A w \in Tasks : memoryHand[w] \in Candidates /\ memoryHand[w].evidence \subseteq Events
    BY <1>1 DEF Candidates
  <1> QED BY <1>1, <1>2, <1>3 DEF Rows, Active

LEMMA NothingIsACandidate == NoCandidate \in Candidates
  BY DEF NoCandidate, Candidates

LEMMA AllMemorySteps ==
    {"idle", "pick", "similar", "support", "contradict", "oppose", "mark", "insert"} = MemorySteps
  BY DEF MemorySteps

\* A statement that only reads the memories.
LEMMA MemoriesAreRead ==
    ASSUME MemoriesInv, NEW w \in Tasks, memoryStep[w] # "insert", UNCHANGED <<memories, crashes>>,
           memoryStep' = memoryStep \/ \E step \in MemorySteps : MemoryGoto(w, step),
           memoryHand' = memoryHand \/ \E hand \in Candidates : memoryHand' = [memoryHand EXCEPT ![w] = hand],
           memoryRow' = memoryRow \/ \E row \in Nat : memoryRow' = [memoryRow EXCEPT ![w] = row],
           FindingsHold(w)'
    PROVE  MemoriesInv'
  <1>1. MemoriesAge /\ memories' \in Seq(Memories)
    BY DEF MemoriesAge, Rows, MemoriesInv
  <1>2. MemoriesTyped'
        /\ \A x \in Tasks \ {w} : memoryStep'[x] = memoryStep[x] /\ memoryHand'[x] = memoryHand[x]
                                  /\ memoryRow'[x] = memoryRow[x]
    BY <1>1, WriterMoves DEF MemoriesTyped
  <1> QED BY <1>1, <1>2, MemoriesKeep

LEMMA CandidateStep ==
    ASSUME LearnInv, NEW w \in Tasks, NextCandidate(w, TurnEvents(w)), UNCHANGED crashes
    PROVE  MemoriesInv'
  <1>1. TasksInv /\ MemoriesInv
    BY DEF LearnInv
  <1>2. PICK c \in Contents, evidence \in (SUBSET TurnEvents(w)) \ {{}} :
          /\ memoryHand' = [memoryHand EXCEPT ![w] = [content |-> c, evidence |-> evidence]]
          /\ IF SameContent(c) # {}
               THEN /\ \E m \in SameContent(c) : memoryRow' = [memoryRow EXCEPT ![w] = m]
                    /\ MemoryGoto(w, "support")
               ELSE MemoryGoto(w, "similar") /\ UNCHANGED memoryRow
    BY DEF NextCandidate
  <1> DEFINE hand == [content |-> c, evidence |-> evidence]
  <1>3. hand \in Candidates /\ hand.content = c /\ hand.evidence = evidence /\ evidence # {}
    <2>1. w[1] \in Processes /\ subject[w] \in Nat /\ subject[w] <= MaxTurns
      BY <1>1, TaskIsOwned DEF TasksInv, NumbersFit
    <2>2. subject[w] >= 1
      <3>1. Writing(w)
        BY DEF NextCandidate, Writing
      <3>2. task[w] # "none"
        BY <1>1, <3>1 DEF TasksInv
      <3> QED BY <1>1, <3>2 DEF TasksInv, NumbersFit
    <2>3. subject[w] \in 1 .. MaxTurns
      BY <2>1, <2>2, LearningAssumption
    <2>4. TurnEvents(w) \subseteq Events
      BY <2>1, <2>3 DEF TurnEvents, Events
    <2> QED BY <1>2, <2>4 DEF Candidates
  <1> HIDE DEF hand
  <1>4. memoryHand' = [memoryHand EXCEPT ![w] = hand] /\ UNCHANGED memories
        /\ memoryStep[w] = "pick"
    BY <1>2 DEF NextCandidate, hand
  <1>5. CASE SameContent(c) # {}
    <2>1. PICK m \in SameContent(c) : memoryRow' = [memoryRow EXCEPT ![w] = m]
      BY <1>2, <1>5
    <2>2. MemoryGoto(w, "support") /\ m \in Rows /\ m \in Nat /\ "support" \in MemorySteps
      BY <1>1, <1>2, <1>5, HandsAndRows, AllMemorySteps DEF SameContent
    <2>3. memoryStep'[w] = "support" /\ memoryHand'[w] = hand /\ memoryRow'[w] = m
      BY <1>1, <1>3, <1>4, <2>1, <2>2, WriterMoves
    <2>4. FindingsHold(w)'
      BY <1>3, <1>4, <2>2, <2>3 DEF FindingsHold, Rows
    <2> QED BY <1>1, <1>3, <1>4, <2>1, <2>2, <2>4, MemoriesAreRead
  <1>6. CASE SameContent(c) = {}
    <2>1. MemoryGoto(w, "similar") /\ memoryRow' = memoryRow /\ "similar" \in MemorySteps
      BY <1>2, <1>6, AllMemorySteps
    <2>2. memoryStep'[w] = "similar" /\ memoryHand'[w] = hand
      BY <1>1, <1>3, <1>4, <2>1, WriterMoves
    <2>3. \A m \in Active : memories[m].content # c
      BY <1>6 DEF SameContent
    <2>4. FindingsHold(w)'
      BY <1>3, <1>4, <2>2, <2>3 DEF FindingsHold, Active, Rows
    <2> QED BY <1>1, <1>3, <1>4, <2>1, <2>4, MemoriesAreRead
  <1> QED BY <1>5, <1>6

LEMMA FindStep ==
    ASSUME LearnInv, NEW w \in Tasks, FindSimilar(w) \/ FindContradicted(w), UNCHANGED crashes
    PROVE  MemoriesInv'
  <1>1. MemoriesInv /\ FindingsHold(w) /\ UNCHANGED <<memories, memoryHand>>
        /\ memoryStep[w] \in {"similar", "contradict"}
    BY DEF LearnInv, MemoriesInv, FindSimilar, FindContradicted
  <1>2. \A m \in Active : memories[m].content = memoryHand[w].content => memories[m].by # w[1]
    BY <1>1 DEF FindingsHold
  <1>3. ASSUME NEW m \in Active, NEW step \in {"support", "oppose"},
               memoryRow' = [memoryRow EXCEPT ![w] = m], MemoryGoto(w, step)
        PROVE MemoriesInv'
    <2>1. m \in Rows /\ m \in Nat /\ step \in MemorySteps
      BY <1>1, HandsAndRows, AllMemorySteps
    <2>2. memoryStep'[w] = step /\ memoryRow'[w] = m
      BY <1>1, <1>3, <2>1, WriterMoves
    <2>3. FindingsHold(w)'
      BY <1>1, <1>2, <2>1, <2>2 DEF FindingsHold, Active, Rows
    <2> QED BY <1>1, <1>3, <2>1, <2>3, MemoriesAreRead
  <1>4. ASSUME NEW step \in {"contradict", "insert"}, UNCHANGED memoryRow, MemoryGoto(w, step)
        PROVE MemoriesInv'
    <2>1. step \in MemorySteps
      BY AllMemorySteps
    <2>2. memoryStep'[w] = step
      BY <1>1, <1>4, <2>1, WriterMoves
    <2>3. FindingsHold(w)'
      BY <1>1, <1>2, <2>2 DEF FindingsHold, Active, Rows
    <2> QED BY <1>1, <1>4, <2>1, <2>3, MemoriesAreRead
  <1> QED BY <1>3, <1>4 DEF FindSimilar, FindContradicted, AfterContradiction

LEMMA SupportStep ==
    ASSUME LearnInv, NEW w \in Tasks, AddSupport(w), UNCHANGED crashes
    PROVE  MemoriesInv'
  <1>1. MemoriesInv /\ FindingsHold(w) /\ memoryStep[w] = "support"
    BY DEF LearnInv, MemoriesInv, AddSupport
  <1> DEFINE r == memoryRow[w]
  <1>2. r \in Rows /\ memoryHand[w].evidence # {} /\ memoryHand[w].content \in Contents
        /\ memories[r] \in Memories /\ memoryHand[w] \in Candidates
        /\ memoryHand[w].evidence \subseteq Events
    BY <1>1, HandsAndRows DEF FindingsHold
  <1>3. PICK e \in memoryHand[w].evidence :
          /\ memories' = [memories EXCEPT ![r].supports = @ \cup {e}]
          /\ IF memoryHand[w].evidence = {e}
               THEN DropCandidate(w)
               ELSE /\ memoryHand' = [memoryHand EXCEPT ![w].evidence = @ \ {e}]
                    /\ UNCHANGED <<memoryStep, memoryRow>>
    BY DEF AddSupport
  <1> HIDE DEF r
  <1> DEFINE row == [memories[r] EXCEPT !.supports = memories[r].supports \cup {e}]
  <1>4. row \in Memories /\ row.content = memories[r].content /\ row.by = memories[r].by
        /\ memories[r].supports \subseteq row.supports /\ memories[r].opposes \subseteq row.opposes
        /\ row.status = memories[r].status
    BY <1>2 DEF Memories
  <1>5. memories' = [memories EXCEPT ![r] = row]
    BY <1>3
  <1> HIDE DEF row
  <1>6. MemoriesAge /\ memories' \in Seq(Memories) /\ memories'[r] = row
        /\ \A m \in Rows \ {r} : memories'[m] = memories[m]
    BY <1>1, <1>2, <1>4, <1>5, MemoryGathers
  <1>7. \A m \in Rows : memories'[m].status = memories[m].status
    BY <1>4, <1>6
  <1>8. CASE memoryHand[w].evidence = {e}
    <2>1. MemoryGoto(w, "pick") /\ memoryHand' = [memoryHand EXCEPT ![w] = NoCandidate]
          /\ memoryRow' = [memoryRow EXCEPT ![w] = 0] /\ "pick" \in MemorySteps /\ 0 \in Nat
      BY <1>3, <1>8, AllMemorySteps DEF DropCandidate
    <2>2. MemoriesTyped' /\ memoryStep'[w] = "pick"
          /\ \A x \in Tasks \ {w} : memoryStep'[x] = memoryStep[x] /\ memoryHand'[x] = memoryHand[x]
                                    /\ memoryRow'[x] = memoryRow[x]
      BY <1>1, <1>6, <2>1, WriterMoves, NothingIsACandidate DEF MemoriesTyped
    <2>3. FindingsHold(w)'
      BY <2>2 DEF FindingsHold
    <2> QED BY <1>1, <1>6, <1>7, <2>2, <2>3, MemoriesKeep
  <1>9. CASE memoryHand[w].evidence # {e}
    <2> DEFINE hand == [memoryHand[w] EXCEPT !.evidence = memoryHand[w].evidence \ {e}]
    <2>1. hand \in Candidates /\ hand.evidence # {} /\ hand.content = memoryHand[w].content
      BY <1>2, <1>9 DEF Candidates
    <2>2. memoryHand' = [memoryHand EXCEPT ![w] = hand] /\ UNCHANGED <<memoryStep, memoryRow>>
      BY <1>3, <1>9
    <2> HIDE DEF hand
    <2>3. MemoriesTyped' /\ memoryHand'[w] = hand
          /\ \A x \in Tasks \ {w} : memoryStep'[x] = memoryStep[x] /\ memoryHand'[x] = memoryHand[x]
                                    /\ memoryRow'[x] = memoryRow[x]
      BY <1>1, <1>6, <2>1, <2>2, WriterMoves DEF MemoriesTyped
    <2>4. FindingsHold(w)'
      BY <1>1, <1>2, <1>6, <2>1, <2>2, <2>3 DEF FindingsHold, MemoriesAge, r
    <2> QED BY <1>1, <1>6, <1>7, <2>3, <2>4, MemoriesKeep
  <1> QED BY <1>8, <1>9

LEMMA OpposeStep ==
    ASSUME LearnInv, NEW w \in Tasks, AddContradiction(w), UNCHANGED crashes
    PROVE  MemoriesInv'
  <1>1. MemoriesInv /\ FindingsHold(w) /\ memoryStep[w] = "oppose"
    BY DEF LearnInv, MemoriesInv, AddContradiction
  <1> DEFINE r == memoryRow[w]
  <1>2. r \in Rows /\ memoryHand[w].evidence # {} /\ memoryHand[w].content \in Contents
        /\ memories[r] \in Memories /\ memoryHand[w].evidence \subseteq Events
        /\ \A m \in Active : memories[m].content = memoryHand[w].content => memories[m].by # w[1]
    BY <1>1, HandsAndRows DEF FindingsHold
  <1>3. PICK e \in memoryHand[w].evidence : memories' = [memories EXCEPT ![r].opposes = @ \cup {e}]
    BY DEF AddContradiction
  <1>4. MemoryGoto(w, "mark") /\ UNCHANGED <<memoryHand, memoryRow>> /\ "mark" \in MemorySteps
    BY AllMemorySteps DEF AddContradiction
  <1> HIDE DEF r
  <1> DEFINE row == [memories[r] EXCEPT !.opposes = memories[r].opposes \cup {e}]
  <1>5. row \in Memories /\ row.content = memories[r].content /\ row.by = memories[r].by
        /\ memories[r].supports \subseteq row.supports /\ memories[r].opposes \subseteq row.opposes
        /\ row.status = memories[r].status /\ e \in row.opposes
    BY <1>2 DEF Memories
  <1>6. memories' = [memories EXCEPT ![r] = row]
    BY <1>3
  <1> HIDE DEF row
  <1>7. MemoriesAge /\ memories' \in Seq(Memories) /\ memories'[r] = row
        /\ \A m \in Rows \ {r} : memories'[m] = memories[m]
    BY <1>1, <1>2, <1>5, <1>6, MemoryGathers
  <1>8. \A m \in Rows : memories'[m].status = memories[m].status
    BY <1>5, <1>7
  <1>9. MemoriesTyped' /\ memoryStep'[w] = "mark"
        /\ \A x \in Tasks \ {w} : memoryStep'[x] = memoryStep[x] /\ memoryHand'[x] = memoryHand[x]
                                  /\ memoryRow'[x] = memoryRow[x]
    BY <1>1, <1>4, <1>7, WriterMoves DEF MemoriesTyped
  <1>10. FindingsHold(w)'
    <2>1. memoryHand'[w].evidence \cap memories'[memoryRow'[w]].opposes # {}
      BY <1>3, <1>4, <1>5, <1>7 DEF r
    <2>2. \A m \in Active' : m \in Active /\ memories'[m].content = memories[m].content
                             /\ memories'[m].by = memories[m].by
      BY <1>7 DEF MemoriesAge, Active
    <2>3. \A m \in Active' : memories'[m].content = memoryHand'[w].content => memories'[m].by # w[1]
      BY <1>2, <1>4, <2>2
    <2>4. memoryHand'[w].evidence # {} /\ memoryHand'[w].content \in Contents /\ memoryRow'[w] \in Rows'
      BY <1>2, <1>4, <1>7 DEF MemoriesAge, r
    <2> QED BY <1>9, <2>1, <2>3, <2>4 DEF FindingsHold
  <1> QED BY <1>1, <1>7, <1>8, <1>9, <1>10, MemoriesKeep

LEMMA MarkStep ==
    ASSUME LearnInv, NEW w \in Tasks, MarkConflicted(w), UNCHANGED crashes
    PROVE  MemoriesInv'
  <1>1. MemoriesInv /\ FindingsHold(w) /\ memoryStep[w] = "mark"
    BY DEF LearnInv, MemoriesInv, MarkConflicted
  <1> DEFINE r == memoryRow[w]
  <1>2. r \in Rows /\ memoryHand[w].evidence # {} /\ memoryHand[w].content \in Contents
        /\ memories[r] \in Memories /\ memoryHand[w].evidence \cap memories[r].opposes # {}
        /\ \A m \in Active : memories[m].content = memoryHand[w].content => memories[m].by # w[1]
    BY <1>1, HandsAndRows DEF FindingsHold
  <1>3. memories' = [memories EXCEPT ![r].status = "conflicted"] /\ MemoryGoto(w, "insert")
        /\ UNCHANGED <<memoryHand, memoryRow>> /\ "insert" \in MemorySteps
    BY AllMemorySteps DEF MarkConflicted, AfterConflict
  <1> HIDE DEF r
  <1> DEFINE row == [memories[r] EXCEPT !.status = "conflicted"]
  <1>4. row \in Memories /\ row.content = memories[r].content /\ row.by = memories[r].by
        /\ row.supports = memories[r].supports /\ row.opposes = memories[r].opposes
        /\ row.status = "conflicted"
    BY <1>2 DEF Memories
  <1>5. memories' = [memories EXCEPT ![r] = row]
    BY <1>3
  <1> HIDE DEF row
  <1>6. MemoriesAge /\ memories' \in Seq(Memories) /\ memories'[r] = row
        /\ \A m \in Rows \ {r} : memories'[m] = memories[m]
    BY <1>1, <1>2, <1>4, <1>5, MemoryGathers
  <1>7. MemoriesTyped' /\ memoryStep'[w] = "insert"
        /\ \A x \in Tasks \ {w} : memoryStep'[x] = memoryStep[x] /\ memoryHand'[x] = memoryHand[x]
                                  /\ memoryRow'[x] = memoryRow[x]
    BY <1>1, <1>3, <1>6, WriterMoves DEF MemoriesTyped
  <1>8. FindingsHold(w)'
    <2>1. \A m \in Active' : m \in Active /\ memories'[m].content = memories[m].content
                             /\ memories'[m].by = memories[m].by
      BY <1>6 DEF MemoriesAge, Active
    <2>2. \A m \in Active' : memories'[m].content = memoryHand'[w].content => memories'[m].by # w[1]
      BY <1>2, <1>3, <2>1
    <2> QED BY <1>2, <1>3, <1>7, <2>2 DEF FindingsHold
  <1>9. \A m \in Rows : memories'[m].status = "conflicted" /\ memories[m].status # "conflicted" =>
          /\ memoryStep'[w] = "insert" /\ memoryRow'[w] = m
          /\ memoryHand'[w].evidence \cap memories'[m].opposes # {}
    BY <1>2, <1>3, <1>4, <1>6, <1>7 DEF r
  <1> QED BY <1>1, <1>6, <1>7, <1>8, <1>9, MemoriesKeep

LEMMA InsertStep ==
    ASSUME LearnInv, NEW w \in Tasks, InsertMemory(w), UNCHANGED crashes
    PROVE  MemoriesInv'
  <1>1. TasksInv /\ MemoriesInv /\ FindingsHold(w) /\ memoryStep[w] = "insert" /\ Writing(w)
    BY DEF LearnInv, MemoriesInv, InsertMemory, Writing
  <1> DEFINE evidence == memoryHand[w].evidence
             row == [content |-> memoryHand[w].content, kind |-> SourceKind(evidence),
                     by |-> w[1], status |-> "active", supports |-> evidence, opposes |-> {}]
             new == Len(memories) + 1
  <1>2. evidence # {} /\ memoryHand[w].content \in Contents /\ evidence \subseteq Events
        /\ w[1] \in Processes
        /\ \A m \in Active : memories[m].content = memoryHand[w].content => memories[m].by # w[1]
    BY <1>1, HandsAndRows, TaskIsOwned DEF FindingsHold
  <1>3. row \in Memories /\ row.content = memoryHand[w].content /\ row.by = w[1]
        /\ row.status = "active" /\ row.supports = evidence
    <2>1. SourceKind(evidence) \in Kinds
      BY DEF SourceKind, Kinds
    <2>2. {} \in SUBSET Events
      OBVIOUS
    <2> QED BY <1>2, <2>1, <2>2 DEF Memories
  <1>4. memories' = Append(memories, row) /\ DropCandidate(w)
    BY DEF InsertMemory, Owner
  <1> HIDE DEF row, evidence
  <1>5. memories' \in Seq(Memories) /\ Rows' = Rows \cup {new} /\ new \notin Rows
        /\ memories'[new] = row /\ \A m \in Rows : memories'[m] = memories[m]
    <2>1. memories \in Seq(Memories) /\ Rows = 1 .. Len(memories)
      BY <1>1 DEF MemoriesInv, Rows
    <2> QED BY <1>3, <1>4, <2>1 DEF Rows
  <1> HIDE DEF new
  <1>6. MemoryGoto(w, "pick") /\ memoryHand' = [memoryHand EXCEPT ![w] = NoCandidate]
        /\ memoryRow' = [memoryRow EXCEPT ![w] = 0] /\ "pick" \in MemorySteps /\ 0 \in Nat
    BY <1>4, AllMemorySteps DEF DropCandidate
  <1>7. MemoriesTyped' /\ memoryStep'[w] = "pick"
        /\ \A x \in Tasks \ {w} : memoryStep'[x] = memoryStep[x] /\ memoryHand'[x] = memoryHand[x]
                                  /\ memoryRow'[x] = memoryRow[x]
    BY <1>1, <1>5, <1>6, WriterMoves, NothingIsACandidate DEF MemoriesTyped
  <1>8. Active' = Active \cup {new}
    BY <1>3, <1>5 DEF Active
  <1>9. ASSUME NEW x \in Tasks PROVE FindingsHold(x)'
    <2>1. CASE x = w
      BY <2>1, <1>7 DEF FindingsHold
    <2>2. CASE x # w
      <3>1. FindingsHold(x) /\ memoryStep'[x] = memoryStep[x] /\ memoryHand'[x] = memoryHand[x]
            /\ memoryRow'[x] = memoryRow[x]
        BY <2>2, <1>1, <1>7 DEF MemoriesInv
      <3>2. memoryStep[x] \in {"similar", "contradict", "oppose", "mark", "insert"} => w[1] # x[1]
        BY <2>2, <1>1, OneWriter DEF Writing
      <3>3. memoryStep[x] \in {"similar", "contradict", "oppose", "mark", "insert"} =>
              \A m \in Active' : memories'[m].content = memoryHand[x].content => memories'[m].by # x[1]
        <4>1. ASSUME memoryStep[x] \in {"similar", "contradict", "oppose", "mark", "insert"},
                     NEW m \in Active', memories'[m].content = memoryHand[x].content
              PROVE memories'[m].by # x[1]
          <5>1. CASE m = new
            BY <5>1, <4>1, <3>2, <1>3, <1>5
          <5>2. CASE m # new
            <6>1. m \in Active /\ m \in Rows /\ memories'[m] = memories[m]
              BY <5>2, <1>1, <1>5, <1>8, HandsAndRows
            <6> QED BY <6>1, <4>1, <3>1 DEF FindingsHold
          <5> QED BY <5>1, <5>2
        <4> QED BY <4>1
      <3>4. memoryStep[x] = "mark" => memoryHand[x].evidence \cap memories'[memoryRow[x]].opposes # {}
        BY <3>1, <1>5 DEF FindingsHold
      <3> QED BY <3>1, <3>3, <3>4, <1>5 DEF FindingsHold
    <2> QED BY <2>1, <2>2
  <1>10. MemoryIsGrounded'
    <2>1. ASSUME NEW m \in Rows'
          PROVE /\ memories'[m].supports # {}
                /\ memories'[m].status = "conflicted" => memories'[m].opposes # {}
      <3>1. CASE m = new
        BY <3>1, <1>2, <1>3, <1>5
      <3>2. CASE m \in Rows
        BY <3>2, <1>1, <1>5 DEF MemoriesInv, MemoryIsGrounded
      <3> QED BY <3>1, <3>2, <1>5
    <2> QED BY <2>1 DEF MemoryIsGrounded
  <1>11. ASSUME crashes' = 0, NEW m \in Rows', memories'[m].status = "conflicted" PROVE Succeeded(m)'
    <2>1. m \in Rows /\ memories'[m] = memories[m] /\ m # new
      BY <1>3, <1>5, <1>11
    <2>2. Succeeded(m)
      BY <1>1, <1>11, <2>1 DEF MemoriesInv
    <2>3. CASE \E e \in memories[m].opposes : \E n \in Rows \ {m} : e \in memories[n].supports
      BY <2>1, <2>3, <1>5 DEF Succeeded
    <2>4. CASE \E x \in Tasks : /\ memoryStep[x] = "insert" /\ memoryRow[x] = m
                                /\ memoryHand[x].evidence \cap memories[m].opposes # {}
      <3>1. PICK x \in Tasks : /\ memoryStep[x] = "insert" /\ memoryRow[x] = m
                               /\ memoryHand[x].evidence \cap memories[m].opposes # {}
        BY <2>4
      <3>2. CASE x = w
        <4>1. PICK e : e \in evidence /\ e \in memories[m].opposes
          BY <3>1, <3>2 DEF evidence
        <4>2. new \in Rows' \ {m} /\ e \in memories'[new].supports /\ e \in memories'[m].opposes
          BY <4>1, <2>1, <1>3, <1>5
        <4> QED BY <4>2 DEF Succeeded
      <3>3. CASE x # w
        <4>1. /\ memoryStep'[x] = "insert" /\ memoryRow'[x] = m
              /\ memoryHand'[x].evidence \cap memories'[m].opposes # {}
          BY <3>1, <3>3, <1>7, <2>1
        <4> QED BY <4>1 DEF Succeeded
      <3> QED BY <3>2, <3>3
    <2> QED BY <2>2, <2>3, <2>4 DEF Succeeded
  <1>12. MemoryTwins'
    <2>1. \A m \in Active : memories[m].content = memoryHand[w].content => memories[m].by # w[1]
      BY <1>2
    <2>2. \A m, n \in Active :
            m # n /\ memories[m].content = memories[n].content => memories[m].by # memories[n].by
      BY <1>1 DEF MemoriesInv, MemoryTwins
    <2>3. \A m \in Active : memories'[m] = memories[m]
      BY <1>1, <1>5, HandsAndRows
    <2>4. ASSUME NEW m \in Active', NEW n \in Active', m # n,
                 memories'[m].content = memories'[n].content
          PROVE memories'[m].by # memories'[n].by
      <3>1. CASE m = new
        BY <3>1, <2>1, <2>3, <2>4, <1>3, <1>5, <1>8
      <3>2. CASE n = new
        BY <3>2, <2>1, <2>3, <2>4, <1>3, <1>5, <1>8
      <3>3. CASE m # new /\ n # new
        BY <3>3, <2>2, <2>3, <2>4, <1>8
      <3> QED BY <3>1, <3>2, <3>3
    <2> QED BY <2>4 DEF MemoryTwins
  <1> QED BY <1>7, <1>9, <1>10, <1>11, <1>12 DEF MemoriesInv, MemoriesTyped

\* Begin and end of write_candidates.
LEMMA TurnOverStep ==
    ASSUME LearnInv, NEW w \in Tasks, MemoriesExtracted(w) \/ MemoriesLearned(w)
    PROVE  MemoriesInv'
  <1>1. TasksInv /\ MemoriesInv
    BY DEF LearnInv
  <1>2. PICK step \in {"pick", "idle"} : MemoryGoto(w, step)
    BY DEF MemoriesExtracted, MemoriesLearned, BeginWrite, EndWrite
  <1>3. UNCHANGED <<memories, memoryHand, memoryRow, crashes>>
    BY DEF MemoriesExtracted, MemoriesLearned, BeginWrite, EndWrite
  <1>4. memoryStep[w] # "insert"
    BY <1>1 DEF MemoriesExtracted, MemoriesLearned, EndWrite, TasksInv, Writing
  <1>5. step \in MemorySteps /\ memoryStep'[w] = step
    BY <1>1, <1>2, <1>3, AllMemorySteps, WriterMoves
  <1>6. FindingsHold(w)'
    BY <1>5 DEF FindingsHold
  <1> QED BY <1>1, <1>2, <1>3, <1>4, <1>5, <1>6, MemoriesAreRead

\* What a process that dies leaves behind.
LEMMA WritesAreLost ==
    ASSUME LearnInv, NEW p \in Processes, Crash(p)
    PROVE  MemoriesInv'
  <1>1. MemoriesInv /\ crashes' # 0
    BY DEF LearnInv, TasksInv, Crash
  <1>2. memories' = memories /\ Rows' = Rows /\ Active' = Active
    BY DEF Crash, LoseWrites, Rows, Active
  <1>3. \A w \in Tasks :
          /\ memoryStep'[w] = IF w \in Own(p) THEN "idle" ELSE memoryStep[w]
          /\ memoryHand'[w] = IF w \in Own(p) THEN NoCandidate ELSE memoryHand[w]
          /\ memoryRow'[w] = IF w \in Own(p) THEN 0 ELSE memoryRow[w]
    BY TasksAssumption DEF Crash, LoseWrites
  <1>4. MemoriesTyped'
    <2>1. memoryStep' \in [Tasks -> MemorySteps]
      BY <1>1, AllMemorySteps, TasksAssumption DEF Crash, LoseWrites, MemoriesInv
    <2>2. memoryHand' \in [Tasks -> Candidates]
      BY <1>1, NothingIsACandidate, TasksAssumption DEF Crash, LoseWrites, MemoriesInv
    <2>3. memoryRow' \in [Tasks -> Nat]
      BY <1>1, TasksAssumption DEF Crash, LoseWrites, MemoriesInv
    <2> QED BY <1>1, <1>2, <2>1, <2>2, <2>3 DEF MemoriesTyped, MemoriesInv
  <1>5. ASSUME NEW w \in Tasks PROVE FindingsHold(w)'
    <2>1. CASE w \in Own(p)
      BY <2>1, <1>3 DEF FindingsHold
    <2>2. CASE w \notin Own(p)
      <3>1. FindingsHold(w) /\ memoryStep'[w] = memoryStep[w] /\ memoryHand'[w] = memoryHand[w]
            /\ memoryRow'[w] = memoryRow[w]
        BY <2>2, <1>1, <1>3 DEF MemoriesInv
      <3> QED BY <3>1, <1>2 DEF FindingsHold
    <2> QED BY <2>1, <2>2
  <1>6. MemoryIsGrounded'
    BY <1>1, <1>2 DEF MemoriesInv, MemoryIsGrounded
  <1>7. MemoryTwins'
    BY <1>1, <1>2 DEF MemoriesInv, MemoryTwins
  <1> QED BY <1>1, <1>4, <1>5, <1>6, <1>7 DEF MemoriesInv, MemoriesTyped

LEMMA MemoriesStep == LearnInv /\ [Next]_vars => MemoriesInv'
  <1> SUFFICES ASSUME LearnInv, [Next]_vars PROVE MemoriesInv'
    OBVIOUS
  <1>1. ASSUME NEW w \in Tasks, WriteMemories(w) PROVE MemoriesInv'
    <2>1. WriteStep(w, TurnEvents(w)) /\ UNCHANGED crashes
      BY <1>1 DEF WriteMemories, learningVars
    <2> QED
      BY <2>1, CandidateStep, FindStep, SupportStep, OpposeStep, MarkStep, InsertStep DEF WriteStep
  <1>2. ASSUME UNCHANGED <<memoryVars, crashes>> PROVE MemoriesInv'
    <2>1. MemoriesInv
      BY DEF LearnInv
    <2>2. memories' = memories /\ memoryStep' = memoryStep /\ memoryHand' = memoryHand
          /\ memoryRow' = memoryRow /\ crashes' = crashes
      BY <1>2 DEF memoryVars
    <2>3. MemoriesTyped' /\ MemoryIsGrounded' /\ MemoryTwins'
      BY <2>1, <2>2 DEF MemoriesInv, MemoriesTyped, MemoryIsGrounded, MemoryTwins, Active, Rows
    <2>4. \A w \in Tasks : FindingsHold(w)'
      BY <2>1, <2>2 DEF MemoriesInv, FindingsHold, Active, Rows
    <2>5. \A m \in Rows : Succeeded(m) => Succeeded(m)'
      BY <2>2 DEF Succeeded, Rows
    <2> QED BY <2>1, <2>2, <2>3, <2>4, <2>5 DEF MemoriesInv, MemoriesTyped, Rows
  <1>3. \/ UNCHANGED <<memoryVars, crashes>>
        \/ \E p \in Processes : Crash(p)
        \/ \E w \in Tasks : MemoriesExtracted(w) \/ MemoriesLearned(w) \/ WriteMemories(w)
    BY DEF Next, Initialize, Turn, LearningStep, AskForMemories, SkipReview, AskForClaims,
           ClaimsExtracted, IntegrateClaims, Reviewed, ReviewFails, WeekPasses, vars, learningVars
  <1> QED BY <1>1, <1>2, <1>3, TurnOverStep, WritesAreLost

-----------------------------------------------------------------------------
\* Who reviews, reviews alone of the tasks of its process.
LEMMA OneReviewer ==
    ASSUME TasksInv, NEW w \in Tasks, NEW x \in Tasks, w # x, w[1] = x[1], Reviewing(w)
    PROVE  ~Reviewing(x)
  <1>1. \A y \in Tasks : Reviewing(y) => Busy(y)
    BY DEF TasksInv, Busy, Live, Waits
  <1> QED BY <1>1 DEF TasksInv

BeliefsTyped ==
    /\ beliefs \in Seq(Beliefs)
    /\ beliefStep \in [Tasks -> BeliefSteps]
    /\ beliefRest \in [Tasks -> SUBSET Events]
    /\ beliefCopy \in [Tasks -> Heads]
    /\ beliefClaim \in [Tasks -> Claims \cup {NoClaim}]
    /\ beliefLineage \in [Tasks -> Nat]

SameReading(x) ==
    /\ beliefStep'[x] = beliefStep[x] /\ beliefRest'[x] = beliefRest[x]
    /\ beliefCopy'[x] = beliefCopy[x] /\ beliefClaim'[x] = beliefClaim[x]
    /\ beliefLineage'[x] = beliefLineage[x]

LEMMA AllBeliefSteps == {"idle", "pick", "create", "read", "append"} = BeliefSteps
  BY DEF BeliefSteps

LEMMA NothingIsAHead == NoBelief \in Heads /\ NoClaim \in Claims \cup {NoClaim} /\ {} \in SUBSET Events
  <1>1. 0 \in Confidences /\ {} \in SUBSET Events
    BY BeliefAssumption DEF Confidences
  <1> QED BY <1>1 DEF NoBelief, Heads

LEMMA RowsAndReadings ==
    ASSUME BeliefsInv
    PROVE  /\ \A l \in Lineages : beliefs[l] \in Beliefs /\ beliefs[l].head \in Heads
                                  /\ IsFiniteSet(beliefs[l].head.support)
           /\ Lineages = 1 .. Len(beliefs) /\ Len(beliefs) \in Nat /\ Lineages \subseteq Nat
           /\ \A w \in Tasks : /\ beliefRest[w] \subseteq Events /\ beliefCopy[w] \in Heads
                               /\ beliefStep[w] \in BeliefSteps /\ ReadingHolds(w)
  <1>1. beliefs \in Seq(Beliefs)
    BY DEF BeliefsInv
  <1>2. \A l \in Lineages : beliefs[l] \in Beliefs /\ beliefs[l].head \in Heads
    <2>1. \A l \in Lineages : beliefs[l] \in Beliefs
      BY <1>1 DEF Lineages
    <2>2. \A b \in Beliefs : b.head \in Heads
      BY DEF Beliefs
    <2> QED BY <2>1, <2>2
  <1> QED BY <1>1, <1>2 DEF BeliefsInv, Lineages

\* The locals of the task w, after a statement that assigns them.
LEMMA ReviewerMoves ==
    ASSUME BeliefsInv, NEW w \in Tasks,
           beliefStep' = beliefStep \/ \E step \in BeliefSteps : BeliefGoto(w, step),
           beliefClaim' = beliefClaim
             \/ \E c \in Claims \cup {NoClaim} : beliefClaim' = [beliefClaim EXCEPT ![w] = c],
           beliefRest' = beliefRest
             \/ \E rest1 \in SUBSET Events : beliefRest' = [beliefRest EXCEPT ![w] = rest1],
           beliefLineage' = beliefLineage
             \/ \E l \in Nat : beliefLineage' = [beliefLineage EXCEPT ![w] = l],
           beliefCopy' = beliefCopy \/ \E h \in Heads : beliefCopy' = [beliefCopy EXCEPT ![w] = h]
    PROVE  /\ beliefStep' \in [Tasks -> BeliefSteps] /\ beliefRest' \in [Tasks -> SUBSET Events]
           /\ beliefCopy' \in [Tasks -> Heads] /\ beliefClaim' \in [Tasks -> Claims \cup {NoClaim}]
           /\ beliefLineage' \in [Tasks -> Nat]
           /\ \A x \in Tasks \ {w} : SameReading(x)
           /\ \A step : BeliefGoto(w, step) => beliefStep'[w] = step
           /\ \A c : beliefClaim' = [beliefClaim EXCEPT ![w] = c] => beliefClaim'[w] = c
           /\ \A rest1 : beliefRest' = [beliefRest EXCEPT ![w] = rest1] => beliefRest'[w] = rest1
           /\ \A l : beliefLineage' = [beliefLineage EXCEPT ![w] = l] => beliefLineage'[w] = l
           /\ \A h : beliefCopy' = [beliefCopy EXCEPT ![w] = h] => beliefCopy'[w] = h
  <1>1. /\ beliefStep' \in [Tasks -> BeliefSteps]
        /\ \A x \in Tasks \ {w} : beliefStep'[x] = beliefStep[x]
        /\ \A step : BeliefGoto(w, step) => beliefStep'[w] = step
    BY DEF BeliefsInv, BeliefGoto
  <1>2. /\ beliefRest' \in [Tasks -> SUBSET Events]
        /\ \A x \in Tasks \ {w} : beliefRest'[x] = beliefRest[x]
        /\ \A rest1 : beliefRest' = [beliefRest EXCEPT ![w] = rest1] => beliefRest'[w] = rest1
    BY DEF BeliefsInv
  <1>3. /\ beliefCopy' \in [Tasks -> Heads]
        /\ \A x \in Tasks \ {w} : beliefCopy'[x] = beliefCopy[x]
        /\ \A h : beliefCopy' = [beliefCopy EXCEPT ![w] = h] => beliefCopy'[w] = h
    BY DEF BeliefsInv
  <1>4. /\ beliefClaim' \in [Tasks -> Claims \cup {NoClaim}]
        /\ \A x \in Tasks \ {w} : beliefClaim'[x] = beliefClaim[x]
        /\ \A c : beliefClaim' = [beliefClaim EXCEPT ![w] = c] => beliefClaim'[w] = c
    BY DEF BeliefsInv
  <1>5. /\ beliefLineage' \in [Tasks -> Nat]
        /\ \A x \in Tasks \ {w} : beliefLineage'[x] = beliefLineage[x]
        /\ \A l : beliefLineage' = [beliefLineage EXCEPT ![w] = l] => beliefLineage'[w] = l
    BY DEF BeliefsInv
  <1> QED BY <1>1, <1>2, <1>3, <1>4, <1>5 DEF SameReading

\* A statement that only reads the beliefs.
LEMMA BeliefsAreRead ==
    ASSUME BeliefsInv, UNCHANGED <<beliefs, aged>>, BeliefsTyped',
           \A x \in Tasks : SameReading(x) \/ ReadingHolds(x)'
    PROVE  BeliefsInv'
  <1>1. Lineages' = Lineages
    BY DEF Lineages
  <1>2. ASSUME NEW x \in Tasks PROVE ReadingHolds(x)'
    <2>1. CASE SameReading(x)
      <3>1. ReadingHolds(x)
        BY DEF BeliefsInv
      <3> QED BY <2>1, <3>1, <1>1 DEF ReadingHolds, SameReading
    <2> QED BY <2>1
  <1>3. aged' \subseteq Lineages' /\ (\A l \in Lineages' : IsFiniteSet(beliefs'[l].head.support))
    BY <1>1 DEF BeliefsInv
  <1>4. ConfidenceIsEarned'
    BY <1>1 DEF BeliefsInv, ConfidenceIsEarned
  <1>5. BeliefTwins'
    BY <1>1 DEF BeliefsInv, BeliefTwins
  <1> QED BY <1>2, <1>3, <1>4, <1>5 DEF BeliefsInv, BeliefsTyped

LEMMA AgentEventsAreFinite ==
    ASSUME NEW p \in Processes, NEW n \in 0 .. MaxTurns
    PROVE  AgentEvents(p, n) \subseteq Events /\ IsFiniteSet(AgentEvents(p, n))
  <1> DEFINE f == [i \in 1 .. n |-> <<"agent", p, i>>]
  <1>1. f \in Surjection(1 .. n, AgentEvents(p, n))
    BY DEF AgentEvents, Surjection
  <1>2. IsFiniteSet(1 .. n)
    <2>1. n \in Int /\ 1 \in Int
      BY LearningAssumption
    <2> QED BY <2>1, FS_Interval
  <1> HIDE DEF f
  <1>3. IsFiniteSet(AgentEvents(p, n))
    BY <1>1, <1>2, FS_Surjection
  <1>4. AgentEvents(p, n) \subseteq Events
    BY LearningAssumption DEF AgentEvents, Events
  <1> QED BY <1>3, <1>4

\* The end of a claim, and of a review.
LEMMA ClaimEnds ==
    ASSUME BeliefsInv, NEW w \in Tasks, ClaimDone(w) \/ BeliefLeave(w)
    PROVE  /\ beliefStep' \in [Tasks -> BeliefSteps] /\ beliefRest' \in [Tasks -> SUBSET Events]
           /\ beliefCopy' \in [Tasks -> Heads] /\ beliefClaim' \in [Tasks -> Claims \cup {NoClaim}]
           /\ beliefLineage' \in [Tasks -> Nat]
           /\ \A x \in Tasks \ {w} : SameReading(x)
           /\ ReadingHolds(w)' /\ beliefStep'[w] \in {"idle", "pick"}
  <1>1. PICK step \in {"idle", "pick"} : BeliefGoto(w, step)
    BY DEF ClaimDone, BeliefLeave
  <1>2. /\ beliefClaim' = [beliefClaim EXCEPT ![w] = NoClaim]
        /\ beliefLineage' = [beliefLineage EXCEPT ![w] = 0]
        /\ beliefRest' = [beliefRest EXCEPT ![w] = {}]
        /\ beliefCopy' = [beliefCopy EXCEPT ![w] = NoBelief]
    BY DEF ClaimDone, BeliefLeave
  <1>3. step \in BeliefSteps /\ 0 \in Nat
    BY AllBeliefSteps
  <1>4. /\ beliefStep' \in [Tasks -> BeliefSteps] /\ beliefRest' \in [Tasks -> SUBSET Events]
        /\ beliefCopy' \in [Tasks -> Heads] /\ beliefClaim' \in [Tasks -> Claims \cup {NoClaim}]
        /\ beliefLineage' \in [Tasks -> Nat]
        /\ \A x \in Tasks \ {w} : SameReading(x)
        /\ beliefStep'[w] = step
    BY <1>1, <1>2, <1>3, NothingIsAHead, ReviewerMoves
  <1> QED BY <1>4 DEF ReadingHolds

\* On to the next event of the claim.
LEMMA EventEnds ==
    ASSUME BeliefsInv, NEW w \in Tasks, NEW e \in beliefRest[w], EventDone(w, e),
           beliefStep[w] = "append"
    PROVE  /\ beliefStep' \in [Tasks -> BeliefSteps] /\ beliefRest' \in [Tasks -> SUBSET Events]
           /\ beliefCopy' \in [Tasks -> Heads] /\ beliefClaim' \in [Tasks -> Claims \cup {NoClaim}]
           /\ beliefLineage' \in [Tasks -> Nat]
           /\ \A x \in Tasks \ {w} : SameReading(x)
           /\ Lineages \subseteq Lineages' => ReadingHolds(w)'
  <1>1. CASE beliefRest[w] = {e}
    BY <1>1, ClaimEnds DEF EventDone
  <1>2. CASE beliefRest[w] # {e}
    <2>1. ReadingHolds(w) /\ beliefRest[w] \subseteq Events
      BY RowsAndReadings
    <2>2. IsFiniteSet(beliefRest[w]) /\ beliefLineage[w] \in Lineages
      BY <2>1 DEF ReadingHolds
    <2>3. beliefRest[w] \ {e} \subseteq Events /\ beliefRest[w] \ {e} # {}
          /\ IsFiniteSet(beliefRest[w] \ {e})
      BY <1>2, <2>1, <2>2, FS_Subset
    <2>4. BeliefGoto(w, "read") /\ beliefRest' = [beliefRest EXCEPT ![w] = beliefRest[w] \ {e}]
          /\ UNCHANGED <<beliefClaim, beliefLineage, beliefCopy>> /\ "read" \in BeliefSteps
      BY <1>2, AllBeliefSteps DEF EventDone
    <2>5. /\ beliefStep' \in [Tasks -> BeliefSteps] /\ beliefRest' \in [Tasks -> SUBSET Events]
          /\ beliefCopy' \in [Tasks -> Heads] /\ beliefClaim' \in [Tasks -> Claims \cup {NoClaim}]
          /\ beliefLineage' \in [Tasks -> Nat]
          /\ \A x \in Tasks \ {w} : SameReading(x)
          /\ beliefStep'[w] = "read" /\ beliefRest'[w] = beliefRest[w] \ {e}
      BY <2>3, <2>4, ReviewerMoves
    <2>6. Lineages \subseteq Lineages' => ReadingHolds(w)'
      BY <2>2, <2>3, <2>4, <2>5 DEF ReadingHolds
    <2> QED BY <2>5, <2>6
  <1> QED BY <1>1, <1>2

\* The next claim: what is cited is finite, and a claim nobody has is new.
LEMMA ClaimStep ==
    ASSUME LearnInv, NEW w \in Tasks, NextClaim(w, EligibleEvents(w))
    PROVE  BeliefsInv' /\ beliefs' = beliefs
  <1>1. TasksInv /\ BeliefsInv
    BY DEF LearnInv
  <1>2. PICK c \in Claims \ beliefAsked[w], cited \in SUBSET EligibleEvents(w) :
          /\ Cardinality(cited) >= 2
          /\ IF \E l \in Lineages : beliefs[l].claim = c
               THEN \E l \in Lineages :
                      /\ beliefs[l].claim = c
                      /\ IF Unknown(cited, l) = {}
                           THEN UNCHANGED <<beliefStep, beliefClaim, beliefRest, beliefLineage>>
                           ELSE /\ BeliefGoto(w, "read")
                                /\ beliefClaim' = [beliefClaim EXCEPT ![w] = c]
                                /\ beliefLineage' = [beliefLineage EXCEPT ![w] = l]
                                /\ beliefRest' = [beliefRest EXCEPT ![w] = Unknown(cited, l)]
               ELSE /\ BeliefGoto(w, "create")
                    /\ beliefClaim' = [beliefClaim EXCEPT ![w] = c]
                    /\ beliefRest' = [beliefRest EXCEPT ![w] = cited]
                    /\ UNCHANGED beliefLineage
    BY DEF NextClaim
  <1>3. UNCHANGED <<beliefs, aged, beliefCopy>> /\ Lineages' = Lineages
    BY DEF NextClaim, Lineages
  <1>4. cited \subseteq Events /\ IsFiniteSet(cited) /\ cited # {}
    <2>1. w[1] \in Processes /\ window[w] \in 0 .. MaxTurns
      <3>1. window[w] \in Nat /\ window[w] <= MaxTurns
        BY <1>1 DEF TasksInv, NumbersFit
      <3> QED BY <3>1, TaskIsOwned, LearningAssumption
    <2>2. AgentEvents(w[1], window[w]) \subseteq Events /\ IsFiniteSet(AgentEvents(w[1], window[w]))
      BY <2>1, AgentEventsAreFinite
    <2>3. cited \subseteq AgentEvents(w[1], window[w])
      BY DEF EligibleEvents
    <2>4. IsFiniteSet(cited)
      BY <2>2, <2>3, FS_Subset
    <2>5. cited # {}
      BY <1>2, FS_EmptySet
    <2> QED BY <2>2, <2>3, <2>4, <2>5
  <1>5. CASE \E l \in Lineages : beliefs[l].claim = c
    <2>1. PICK l \in Lineages :
            /\ beliefs[l].claim = c
            /\ IF Unknown(cited, l) = {}
                 THEN UNCHANGED <<beliefStep, beliefClaim, beliefRest, beliefLineage>>
                 ELSE /\ BeliefGoto(w, "read")
                      /\ beliefClaim' = [beliefClaim EXCEPT ![w] = c]
                      /\ beliefLineage' = [beliefLineage EXCEPT ![w] = l]
                      /\ beliefRest' = [beliefRest EXCEPT ![w] = Unknown(cited, l)]
      BY <1>2, <1>5
    <2>2. CASE Unknown(cited, l) = {}
      <3>1. UNCHANGED <<beliefStep, beliefClaim, beliefRest, beliefLineage>>
        BY <2>1, <2>2
      <3>2. BeliefsTyped' /\ \A x \in Tasks : SameReading(x)
        BY <1>1, <1>3, <3>1 DEF BeliefsInv, BeliefsTyped, SameReading
      <3> QED BY <1>1, <1>3, <3>2, BeliefsAreRead
    <2>3. CASE Unknown(cited, l) # {}
      <3> DEFINE rest1 == Unknown(cited, l)
      <3>1. rest1 \subseteq Events /\ IsFiniteSet(rest1) /\ rest1 # {}
        BY <1>4, <2>3, FS_Subset DEF Unknown
      <3>2. /\ BeliefGoto(w, "read")
            /\ beliefClaim' = [beliefClaim EXCEPT ![w] = c]
            /\ beliefLineage' = [beliefLineage EXCEPT ![w] = l]
            /\ beliefRest' = [beliefRest EXCEPT ![w] = rest1]
            /\ "read" \in BeliefSteps /\ l \in Nat /\ c \in Claims \cup {NoClaim}
        BY <1>1, <2>1, <2>3, AllBeliefSteps, RowsAndReadings
      <3> HIDE DEF rest1
      <3>3. /\ beliefStep' \in [Tasks -> BeliefSteps] /\ beliefRest' \in [Tasks -> SUBSET Events]
            /\ beliefCopy' \in [Tasks -> Heads] /\ beliefClaim' \in [Tasks -> Claims \cup {NoClaim}]
            /\ beliefLineage' \in [Tasks -> Nat]
            /\ \A x \in Tasks \ {w} : SameReading(x)
            /\ beliefStep'[w] = "read" /\ beliefRest'[w] = rest1 /\ beliefLineage'[w] = l
        BY <1>1, <1>3, <3>1, <3>2, ReviewerMoves
      <3>4. ReadingHolds(w)'
        BY <1>3, <2>1, <3>1, <3>3 DEF ReadingHolds
      <3>5. BeliefsTyped'
        BY <1>1, <1>3, <3>3 DEF BeliefsTyped, BeliefsInv
      <3> QED BY <1>1, <1>3, <3>3, <3>4, <3>5, BeliefsAreRead
    <2> QED BY <2>2, <2>3
  <1>6. CASE ~\E l \in Lineages : beliefs[l].claim = c
    <2>1. /\ BeliefGoto(w, "create")
          /\ beliefClaim' = [beliefClaim EXCEPT ![w] = c]
          /\ beliefRest' = [beliefRest EXCEPT ![w] = cited]
          /\ UNCHANGED beliefLineage
          /\ "create" \in BeliefSteps /\ c \in Claims \cup {NoClaim}
      BY <1>2, <1>6, AllBeliefSteps
    <2>2. /\ beliefStep' \in [Tasks -> BeliefSteps] /\ beliefRest' \in [Tasks -> SUBSET Events]
          /\ beliefCopy' \in [Tasks -> Heads] /\ beliefClaim' \in [Tasks -> Claims \cup {NoClaim}]
          /\ beliefLineage' \in [Tasks -> Nat]
          /\ \A x \in Tasks \ {w} : SameReading(x)
          /\ beliefStep'[w] = "create" /\ beliefRest'[w] = cited /\ beliefClaim'[w] = c
      BY <1>1, <1>3, <1>4, <2>1, ReviewerMoves
    <2>3. ReadingHolds(w)'
      BY <1>3, <1>4, <1>6, <2>2 DEF ReadingHolds
    <2>4. BeliefsTyped'
      BY <1>1, <1>3, <2>2 DEF BeliefsTyped, BeliefsInv
    <2> QED BY <1>1, <1>3, <2>2, <2>3, <2>4, BeliefsAreRead
  <1> QED BY <1>3, <1>5, <1>6

\* The latest version is read: no version is later.
LEMMA ReadStep ==
    ASSUME LearnInv, NEW w \in Tasks, ReadLatest(w)
    PROVE  BeliefsInv' /\ beliefs' = beliefs
  <1>1. BeliefsInv /\ UNCHANGED <<beliefs, aged, beliefClaim, beliefRest, beliefLineage>>
        /\ Lineages' = Lineages
    BY DEF LearnInv, ReadLatest, Lineages
  <1> DEFINE l == beliefLineage[w]
             h == beliefs[l].head
  <1>2. ReadingHolds(w) /\ beliefStep[w] = "read"
    BY <1>1, RowsAndReadings DEF ReadLatest
  <1>3. l \in Lineages /\ IsFiniteSet(beliefRest[w]) /\ beliefRest[w] # {}
    BY <1>2 DEF ReadingHolds
  <1>4. h \in Heads /\ h.version \in Nat
    <2>1. h \in Heads
      BY <1>1, <1>3, RowsAndReadings
    <2> QED BY <2>1 DEF Heads
  <1>5. beliefCopy' = [beliefCopy EXCEPT ![w] = h] /\ BeliefGoto(w, "append")
        /\ "append" \in BeliefSteps
    BY AllBeliefSteps DEF ReadLatest
  <1> HIDE DEF h
  <1>6. /\ beliefStep' \in [Tasks -> BeliefSteps] /\ beliefRest' \in [Tasks -> SUBSET Events]
        /\ beliefCopy' \in [Tasks -> Heads] /\ beliefClaim' \in [Tasks -> Claims \cup {NoClaim}]
        /\ beliefLineage' \in [Tasks -> Nat]
        /\ \A x \in Tasks \ {w} : SameReading(x)
        /\ beliefStep'[w] = "append" /\ beliefCopy'[w] = h
    BY <1>1, <1>4, <1>5, ReviewerMoves
  <1>7. ReadingHolds(w)'
    <2>1. beliefs'[beliefLineage'[w]].head = h
      BY <1>1 DEF h
    <2> QED BY <1>1, <1>3, <1>4, <1>6, <2>1 DEF ReadingHolds
  <1>8. BeliefsTyped'
    BY <1>1, <1>6 DEF BeliefsTyped, BeliefsInv
  <1> QED BY <1>1, <1>6, <1>7, <1>8, BeliefsAreRead

\* An event that is known by now, and the begin and the end of a review.
LEMMA KnownStep ==
    ASSUME LearnInv, NEW w \in Tasks, KnownByNow(w)
    PROVE  BeliefsInv' /\ beliefs' = beliefs
  <1>1. BeliefsInv /\ UNCHANGED <<beliefs, aged>> /\ Lineages' = Lineages
    BY DEF LearnInv, KnownByNow, Lineages
  <1>2. PICK e \in beliefRest[w] \cap beliefCopy[w].support : EventDone(w, e)
    BY DEF KnownByNow
  <1>3. beliefStep[w] = "append" /\ e \in beliefRest[w]
    BY <1>2 DEF KnownByNow
  <1>4. /\ beliefStep' \in [Tasks -> BeliefSteps] /\ beliefRest' \in [Tasks -> SUBSET Events]
        /\ beliefCopy' \in [Tasks -> Heads] /\ beliefClaim' \in [Tasks -> Claims \cup {NoClaim}]
        /\ beliefLineage' \in [Tasks -> Nat]
        /\ \A x \in Tasks \ {w} : SameReading(x)
        /\ ReadingHolds(w)'
    BY <1>1, <1>2, <1>3, EventEnds
  <1>5. BeliefsTyped'
    BY <1>1, <1>4 DEF BeliefsTyped, BeliefsInv
  <1> QED BY <1>1, <1>4, <1>5, BeliefsAreRead

LEMMA ReviewTurnsOver ==
    ASSUME LearnInv, NEW w \in Tasks, BeginReview(w) \/ EndReview(w) \/ VersionConflict(w)
    PROVE  BeliefsInv' /\ beliefs' = beliefs
  <1>1. BeliefsInv /\ UNCHANGED <<beliefs, aged>>
    BY DEF LearnInv, BeginReview, EndReview, VersionConflict
  <1>2. /\ beliefStep' \in [Tasks -> BeliefSteps] /\ beliefRest' \in [Tasks -> SUBSET Events]
        /\ beliefCopy' \in [Tasks -> Heads] /\ beliefClaim' \in [Tasks -> Claims \cup {NoClaim}]
        /\ beliefLineage' \in [Tasks -> Nat]
        /\ \A x \in Tasks \ {w} : SameReading(x)
        /\ ReadingHolds(w)'
    <2>1. CASE BeginReview(w)
      <3>1. BeliefGoto(w, "pick") /\ "pick" \in BeliefSteps
            /\ UNCHANGED <<beliefClaim, beliefRest, beliefLineage, beliefCopy>>
        BY <2>1, AllBeliefSteps DEF BeginReview
      <3>2. /\ beliefStep' \in [Tasks -> BeliefSteps] /\ beliefRest' \in [Tasks -> SUBSET Events]
            /\ beliefCopy' \in [Tasks -> Heads] /\ beliefClaim' \in [Tasks -> Claims \cup {NoClaim}]
            /\ beliefLineage' \in [Tasks -> Nat]
            /\ \A x \in Tasks \ {w} : SameReading(x)
            /\ beliefStep'[w] = "pick"
        BY <1>1, <3>1, ReviewerMoves
      <3> QED BY <3>2 DEF ReadingHolds
    <2>2. CASE EndReview(w) \/ VersionConflict(w)
      <3>1. BeliefLeave(w)
        BY <2>2 DEF EndReview, VersionConflict
      <3> QED BY <1>1, <3>1, ClaimEnds
    <2> QED BY <2>1, <2>2
  <1>3. BeliefsTyped'
    BY <1>1, <1>2 DEF BeliefsTyped, BeliefsInv
  <1> QED BY <1>1, <1>2, <1>3, BeliefsAreRead

\* What BeliefsOnlyGrow says of a step.
BeliefsGrow ==
    \A l \in Lineages :
        LET h == beliefs[l].head  g == beliefs'[l].head IN
        h # g => /\ g.version = h.version + 1
                 /\ h.support \subseteq g.support
                 /\ Cardinality(g.support \ h.support) = 1
                 /\ h.status = "active" => g.status = "active"

\* A belief of its own, on the evidence it was found with.
LEMMA CreateStep ==
    ASSUME LearnInv, NEW w \in Tasks, CreateCandidate(w)
    PROVE  BeliefsInv' /\ BeliefsGrow
  <1>1. TasksInv /\ BeliefsInv
    BY DEF LearnInv
  <1> DEFINE new == Len(beliefs) + 1
             claim == beliefClaim[w]
             basis == beliefRest[w]
  <1>2. beliefStep[w] = "create" /\ Reviewing(w) /\ w[1] \in Processes
    BY TaskIsOwned DEF CreateCandidate, Reviewing
  <1>3. /\ IsFiniteSet(basis) /\ basis # {} /\ basis \subseteq Events /\ claim \in Claims
        /\ \A l \in Lineages : beliefs[l].claim = claim => beliefs[l].by # w[1]
    <2>1. ReadingHolds(w) /\ beliefRest[w] \subseteq Events
      BY <1>1, RowsAndReadings
    <2> QED BY <1>2, <2>1 DEF ReadingHolds
  <1>4. PICK confidence \in {0, ConfidenceCap}, e \in basis :
          beliefs' = Append(beliefs,
                       [claim |-> claim, by |-> w[1], first |-> confidence, basis |-> basis,
                        head |-> [version |-> 1, support |-> basis, cause |-> e,
                                  confidence |-> confidence, status |-> "candidate"]])
    BY DEF CreateCandidate
  <1> DEFINE head == [version |-> 1, support |-> basis, cause |-> e,
                      confidence |-> confidence, status |-> "candidate"]
             row == [claim |-> claim, by |-> w[1], first |-> confidence, basis |-> basis,
                     head |-> head]
  <1>5. confidence \in 0 .. ConfidenceCap /\ confidence \in Confidences
        /\ Least(FullConfidence, confidence + 0) = confidence
    BY BeliefAssumption DEF Confidences, Least
  <1>6. head \in Heads /\ head.version = 1 /\ head.support = basis /\ head.status = "candidate"
        /\ head.confidence = confidence
    BY <1>3, <1>5 DEF Heads
  <1> HIDE DEF head
  <1>7. row \in Beliefs /\ row.claim = claim /\ row.by = w[1] /\ row.first = confidence
        /\ row.basis = basis /\ row.head = head
    BY <1>2, <1>3, <1>5, <1>6 DEF Beliefs
  <1>8. beliefs' = Append(beliefs, row)
    BY <1>4 DEF head
  <1> HIDE DEF row, claim, basis
  <1>9. /\ beliefs \in Seq(Beliefs) /\ Len(beliefs) \in Nat /\ Lineages = 1 .. Len(beliefs)
    BY <1>1, RowsAndReadings DEF BeliefsInv
  <1>10. /\ beliefs' \in Seq(Beliefs) /\ Lineages' = Lineages \cup {new} /\ new \notin Lineages
         /\ beliefs'[new] = row /\ \A l \in Lineages : beliefs'[l] = beliefs[l]
    BY <1>7, <1>8, <1>9 DEF Lineages
  <1> HIDE DEF new
  <1>11. /\ beliefStep' \in [Tasks -> BeliefSteps] /\ beliefRest' \in [Tasks -> SUBSET Events]
         /\ beliefCopy' \in [Tasks -> Heads] /\ beliefClaim' \in [Tasks -> Claims \cup {NoClaim}]
         /\ beliefLineage' \in [Tasks -> Nat]
         /\ \A x \in Tasks \ {w} : SameReading(x)
         /\ beliefStep'[w] \in {"idle", "pick"} /\ aged' = aged
    <2>1. ClaimDone(w) /\ aged' = aged
      BY DEF CreateCandidate
    <2> QED BY <1>1, <2>1, ClaimEnds
  <1>12. \A x \in Tasks : ReadingHolds(x)'
    <2>1. ASSUME NEW x \in Tasks PROVE ReadingHolds(x)'
      <3>1. CASE x = w
        BY <3>1, <1>11 DEF ReadingHolds
      <3>2. CASE x # w
        <4>1. ReadingHolds(x) /\ SameReading(x)
          BY <3>2, <1>1, <1>11, RowsAndReadings
        <4>2. beliefStep[x] = "create" => x[1] # w[1]
          BY <3>2, <1>1, <1>2, OneReviewer DEF Reviewing
        <4>3. beliefStep[x] = "create" =>
                \A l \in Lineages' : beliefs'[l].claim = beliefClaim[x] => beliefs'[l].by # x[1]
          BY <4>1, <4>2, <1>7, <1>10 DEF ReadingHolds
        <4>4. beliefStep[x] \in {"read", "append"} =>
                beliefLineage[x] \in Lineages' /\ beliefs'[beliefLineage[x]] = beliefs[beliefLineage[x]]
          BY <4>1, <1>10 DEF ReadingHolds
        <4> QED BY <4>1, <4>3, <4>4 DEF ReadingHolds, SameReading
      <3> QED BY <3>1, <3>2
    <2> QED BY <2>1
  <1>13. \A l \in Lineages' : IsFiniteSet(beliefs'[l].head.support)
    BY <1>1, <1>3, <1>6, <1>7, <1>10, RowsAndReadings
  <1>14. ConfidenceIsEarned'
    <2>1. ASSUME NEW l \in Lineages'
          PROVE LET b == beliefs'[l]  h == b.head IN
                /\ b.basis \subseteq h.support
                /\ h.version = 1 + Cardinality(h.support \ b.basis)
                /\ h.confidence
                     = Least(FullConfidence, b.first + Cardinality(h.support \ b.basis))
                /\ h.status = "active" => h.confidence >= ActiveConfidence /\ l \in aged'
      <3>1. CASE l = new
        <4>1. Cardinality(basis \ basis) = 0
          BY FS_EmptySet
        <4>2. beliefs'[l] = row /\ beliefs'[l].head = head
          BY <3>1, <1>7, <1>10
        <4>3. Cardinality(head.support \ row.basis) = 0
          BY <4>1, <1>6, <1>7
        <4>4. row.basis \subseteq head.support /\ head.version = 1 + 0
              /\ head.confidence = Least(FullConfidence, row.first + 0)
              /\ head.status # "active"
          BY <1>5, <1>6, <1>7
        <4> QED BY <4>2, <4>3, <4>4
      <3>2. CASE l # new
        BY <3>2, <1>1, <1>10, <1>11 DEF BeliefsInv, ConfidenceIsEarned
      <3> QED BY <3>1, <3>2
    <2> QED BY <2>1 DEF ConfidenceIsEarned
  <1>15. BeliefTwins'
    <2>1. ASSUME NEW k \in Lineages', NEW l \in Lineages', k # l,
                 beliefs'[k].claim = beliefs'[l].claim
          PROVE beliefs'[k].by # beliefs'[l].by
      <3>1. CASE k = new
        BY <3>1, <2>1, <1>3, <1>7, <1>10
      <3>2. CASE l = new
        BY <3>2, <2>1, <1>3, <1>7, <1>10
      <3>3. CASE k # new /\ l # new
        BY <3>3, <2>1, <1>1, <1>10 DEF BeliefsInv, BeliefTwins
      <3> QED BY <3>1, <3>2, <3>3
    <2> QED BY <2>1 DEF BeliefTwins
  <1>16. aged' \subseteq Lineages'
    BY <1>1, <1>10, <1>11 DEF BeliefsInv
  <1>17. BeliefsGrow
    BY <1>10 DEF BeliefsGrow
  <1> QED BY <1>10, <1>11, <1>12, <1>13, <1>14, <1>15, <1>16, <1>17 DEF BeliefsInv

\* One version more: what was read is the latest version, so the event it lacks
\* is new to the belief.
LEMMA AppendStep ==
    ASSUME LearnInv, NEW w \in Tasks, AppendVersion(w)
    PROVE  BeliefsInv' /\ BeliefsGrow
  <1>1. BeliefsInv /\ beliefs \in Seq(Beliefs)
    BY DEF LearnInv, BeliefsInv
  <1> DEFINE k == beliefLineage[w]
             b == beliefs[k]
             h == b.head
             n == Cardinality(h.support \ b.basis)
  <1>2. beliefStep[w] = "append" /\ aged' = aged
    BY DEF AppendVersion
  <1>3. k \in Lineages /\ b \in Beliefs /\ h \in Heads /\ IsFiniteSet(h.support)
    <2>1. ReadingHolds(w)
      BY <1>1, RowsAndReadings
    <2>2. k \in Lineages
      BY <1>2, <2>1 DEF ReadingHolds
    <2> QED BY <1>1, <2>2, RowsAndReadings
  <1>4. beliefCopy[w] = h
    <2>1. ReadingHolds(w)
      BY <1>1, RowsAndReadings
    <2>2. beliefCopy[w].version = h.version
      BY DEF AppendVersion, IsLatest
    <2> QED BY <1>2, <2>1, <2>2 DEF ReadingHolds
  <1>5. PICK e \in beliefRest[w] \ beliefCopy[w].support :
          /\ beliefs' = [beliefs EXCEPT ![k].head = Supported(k, beliefCopy[w], e)]
          /\ EventDone(w, e)
    BY DEF AppendVersion
  <1>6. e \in Events /\ e \in beliefRest[w] /\ e \notin h.support
    BY <1>1, <1>4, <1>5, RowsAndReadings
  <1> DEFINE g == Supported(k, h, e)
             row == [b EXCEPT !.head = g]
  <1>7. /\ b.basis \subseteq h.support /\ h.version = 1 + n
        /\ h.confidence = Least(FullConfidence, b.first + n)
        /\ h.status = "active" => h.confidence >= ActiveConfidence /\ k \in aged
    BY <1>1, <1>3 DEF BeliefsInv, ConfidenceIsEarned
  <1>8. /\ h.version \in Nat /\ h.support \subseteq Events /\ h.confidence \in Confidences
        /\ h.status \in {"candidate", "active"}
    BY <1>3 DEF Heads
  <1>9. b.first \in 0 .. ConfidenceCap /\ b.basis \subseteq Events
    BY <1>3 DEF Beliefs
  <1>10. n \in Nat /\ Cardinality((h.support \cup {e}) \ b.basis) = n + 1
    <2>1. IsFiniteSet(h.support \ b.basis)
      BY <1>3, FS_Subset
    <2>2. e \notin h.support \ b.basis
      BY <1>6
    <2>3. (h.support \cup {e}) \ b.basis = (h.support \ b.basis) \cup {e}
      BY <1>6, <1>7
    <2>4. n \in Nat
      BY <2>1, FS_CardinalityType
    <2>5. Cardinality((h.support \ b.basis) \cup {e}) = n + 1
      BY <2>1, <2>2, FS_AddElement
    <2> QED BY <2>3, <2>4, <2>5
  <1>11. g.version = h.version + 1 /\ g.support = h.support \cup {e} /\ g.cause = e
         /\ g.confidence = Least(FullConfidence, h.confidence + 1)
         /\ g.status = IF h.status = "active" \/ Eligible(k, g.confidence) THEN "active"
                       ELSE "candidate"
    BY DEF Supported
  <1>12. /\ g.confidence \in Confidences /\ g.confidence >= h.confidence
         /\ g.confidence = Least(FullConfidence, b.first + (n + 1))
    <2> HIDE DEF g, h, n, b
    <2>1. h.confidence \in 0 .. FullConfidence /\ FullConfidence \in Nat /\ b.first \in Nat
      BY <1>8, <1>9, BeliefAssumption DEF Confidences
    <2> QED BY <2>1, <1>7, <1>10, <1>11 DEF Least, Confidences
  <1>13. g \in Heads
    <2>1. g = [version |-> g.version, support |-> g.support, confidence |-> g.confidence,
               status |-> g.status, cause |-> g.cause]
      BY DEF Supported
    <2>2. g.version \in Nat /\ g.support \in SUBSET Events /\ g.status \in {"candidate", "active"}
          /\ g.cause \in Events \cup {NoEvent}
      BY <1>6, <1>8, <1>11
    <2> HIDE DEF g
    <2> QED BY <1>12, <2>1, <2>2 DEF Heads
  <1>14. beliefs' = [beliefs EXCEPT ![k] = row]
    BY <1>4, <1>5
  <1> HIDE DEF g
  <1>15. row \in Beliefs /\ row.head = g /\ row.claim = b.claim /\ row.by = b.by
         /\ row.first = b.first /\ row.basis = b.basis
    BY <1>3, <1>13 DEF Beliefs
  <1> HIDE DEF row
  <1>16. /\ beliefs' \in Seq(Beliefs) /\ Lineages' = Lineages
         /\ beliefs'[k] = row /\ \A l \in Lineages \ {k} : beliefs'[l] = beliefs[l]
    <2>1. beliefs' \in Seq(Beliefs) /\ Len(beliefs') = Len(beliefs)
      BY <1>1, <1>3, <1>14, <1>15, ExceptSeq DEF Lineages
    <2> QED BY <1>1, <1>3, <1>14, <2>1 DEF Lineages
  <1> HIDE DEF h, n, b, k
  <1>17. \A l \in Lineages : /\ beliefs'[l].claim = beliefs[l].claim /\ beliefs'[l].by = beliefs[l].by
                             /\ beliefs[l].head # beliefs'[l].head => l = k
    BY <1>15, <1>16 DEF b
  <1>18. /\ beliefStep' \in [Tasks -> BeliefSteps] /\ beliefRest' \in [Tasks -> SUBSET Events]
         /\ beliefCopy' \in [Tasks -> Heads] /\ beliefClaim' \in [Tasks -> Claims \cup {NoClaim}]
         /\ beliefLineage' \in [Tasks -> Nat]
         /\ \A x \in Tasks \ {w} : SameReading(x)
         /\ ReadingHolds(w)'
    BY <1>1, <1>2, <1>5, <1>6, <1>16, EventEnds
  <1>19. \A x \in Tasks : ReadingHolds(x)'
    <2>1. ASSUME NEW x \in Tasks, x # w PROVE ReadingHolds(x)'
      <3>1. ReadingHolds(x) /\ SameReading(x)
        BY <2>1, <1>1, <1>18, RowsAndReadings
      <3>2. beliefStep[x] = "append" =>
              /\ beliefCopy[x].version <= beliefs'[beliefLineage[x]].head.version
              /\ beliefCopy[x].version = beliefs'[beliefLineage[x]].head.version
                   => beliefCopy[x] = beliefs'[beliefLineage[x]].head
        <4>1. CASE beliefLineage[x] = k
          <5>1. beliefStep[x] = "append" => beliefCopy[x].version <= h.version
            BY <4>1, <3>1 DEF ReadingHolds, h, b
          <5>2. beliefCopy[x].version \in Nat
            <6>1. beliefCopy[x] \in Heads
              BY <1>1, RowsAndReadings
            <6> QED BY <6>1 DEF Heads
          <5>3. beliefs'[beliefLineage[x]].head.version = h.version + 1
            BY <4>1, <1>11, <1>15, <1>16
          <5> QED BY <5>1, <5>2, <5>3, <1>8
        <4>2. CASE beliefLineage[x] # k
          BY <4>2, <3>1, <1>16 DEF ReadingHolds
        <4> QED BY <4>1, <4>2
      <3>3. beliefStep[x] = "create" =>
              \A l \in Lineages' : beliefs'[l].claim = beliefClaim[x] => beliefs'[l].by # x[1]
        BY <3>1, <1>16, <1>17 DEF ReadingHolds
      <3> QED BY <3>1, <3>2, <3>3, <1>16 DEF ReadingHolds, SameReading
    <2> QED BY <2>1, <1>18
  <1>20. \A l \in Lineages' : IsFiniteSet(beliefs'[l].head.support)
    <2>1. IsFiniteSet(g.support)
      BY <1>3, <1>11, FS_AddElement
    <2>2. \A l \in Lineages : IsFiniteSet(beliefs[l].head.support)
      BY <1>1, RowsAndReadings
    <2> QED BY <2>1, <2>2, <1>15, <1>16
  <1>21. ConfidenceIsEarned'
    <2>1. ASSUME NEW l \in Lineages'
          PROVE LET c == beliefs'[l]  f == c.head IN
                /\ c.basis \subseteq f.support
                /\ f.version = 1 + Cardinality(f.support \ c.basis)
                /\ f.confidence
                     = Least(FullConfidence, c.first + Cardinality(f.support \ c.basis))
                /\ f.status = "active" => f.confidence >= ActiveConfidence /\ l \in aged'
      <3>1. CASE l = k
        <4>1. beliefs'[l].head = g /\ beliefs'[l].basis = b.basis /\ beliefs'[l].first = b.first
          BY <3>1, <1>15, <1>16
        <4>2. Cardinality(g.support \ b.basis) = n + 1
          BY <1>10, <1>11
        <4>3. b.basis \subseteq g.support
          BY <1>7, <1>11
        <4>4. g.version = 1 + (n + 1)
          BY <1>7, <1>10, <1>11
        <4>5. g.status = "active" => g.confidence >= ActiveConfidence /\ k \in aged
          <5>1. h.confidence \in Nat /\ g.confidence \in Nat /\ ActiveConfidence \in Nat
            BY <1>8, <1>12, BeliefAssumption DEF Confidences
          <5> QED BY <5>1, <1>7, <1>11, <1>12 DEF Eligible
        <4> QED BY <3>1, <4>1, <4>2, <4>3, <4>4, <4>5, <1>2, <1>12
      <3>2. CASE l # k
        BY <3>2, <1>1, <1>2, <1>16 DEF BeliefsInv, ConfidenceIsEarned
      <3> QED BY <3>1, <3>2
    <2> QED BY <2>1 DEF ConfidenceIsEarned
  <1>22. BeliefTwins'
    BY <1>1, <1>16, <1>17 DEF BeliefsInv, BeliefTwins
  <1>23. aged' \subseteq Lineages'
    BY <1>1, <1>2, <1>16 DEF BeliefsInv
  <1>24. BeliefsGrow
    <2>1. g.support \ h.support = {e}
      BY <1>6, <1>11
    <2>2. Cardinality({e}) = 1
      BY FS_Singleton
    <2>3. beliefs'[k].head = g /\ beliefs[k].head = h
      BY <1>15, <1>16 DEF h, b
    <2> QED BY <2>1, <2>2, <2>3, <1>11, <1>17 DEF BeliefsGrow
  <1> QED BY <1>16, <1>18, <1>19, <1>20, <1>21, <1>22, <1>23, <1>24 DEF BeliefsInv

\* What a process that dies was about to review; a week that passes.
LEMMA ReviewsAreLost ==
    ASSUME LearnInv, NEW p \in Processes, LoseReviews(Own(p))
    PROVE  BeliefsInv' /\ beliefs' = beliefs
  <1>1. BeliefsInv /\ UNCHANGED <<beliefs, aged>> /\ Lineages' = Lineages
    BY DEF LearnInv, LoseReviews, Lineages
  <1>2. \A w \in Tasks : \/ w \notin Own(p) /\ SameReading(w)
                         \/ beliefStep'[w] = "idle"
    BY TasksAssumption DEF LoseReviews, SameReading
  <1>3. BeliefsTyped'
    <2>1. beliefStep' \in [Tasks -> BeliefSteps]
      BY <1>1, AllBeliefSteps, TasksAssumption DEF LoseReviews, BeliefsInv
    <2>2. beliefRest' \in [Tasks -> SUBSET Events]
      BY <1>1, NothingIsAHead, TasksAssumption DEF LoseReviews, BeliefsInv
    <2>3. beliefCopy' \in [Tasks -> Heads]
      BY <1>1, NothingIsAHead, TasksAssumption DEF LoseReviews, BeliefsInv
    <2>4. beliefClaim' \in [Tasks -> Claims \cup {NoClaim}]
      BY <1>1, NothingIsAHead, TasksAssumption DEF LoseReviews, BeliefsInv
    <2>5. beliefLineage' \in [Tasks -> Nat]
      BY <1>1, TasksAssumption DEF LoseReviews, BeliefsInv
    <2> QED BY <1>1, <2>1, <2>2, <2>3, <2>4, <2>5 DEF BeliefsTyped, BeliefsInv
  <1>4. \A w \in Tasks : SameReading(w) \/ ReadingHolds(w)'
    BY <1>2 DEF ReadingHolds
  <1> QED BY <1>1, <1>3, <1>4, BeliefsAreRead

LEMMA BeliefsGetOld ==
    ASSUME BeliefsInv, BeliefsAge
    PROVE  BeliefsInv' /\ beliefs' = beliefs
  <1>1. /\ aged' = Lineages /\ Lineages' = Lineages /\ beliefs' = beliefs
        /\ UNCHANGED <<beliefStep, beliefClaim, beliefRest, beliefLineage, beliefCopy>>
    BY DEF BeliefsAge, beliefLocals, Lineages
  <1>2. \A w \in Tasks : ReadingHolds(w)'
    <2>1. \A w \in Tasks : ReadingHolds(w)
      BY DEF BeliefsInv
    <2> QED BY <1>1, <2>1 DEF ReadingHolds
  <1>3. ConfidenceIsEarned'
    BY <1>1 DEF BeliefsInv, ConfidenceIsEarned
  <1>4. BeliefTwins'
    BY <1>1 DEF BeliefsInv, BeliefTwins
  <1> QED BY <1>1, <1>2, <1>3, <1>4 DEF BeliefsInv

LEMMA BeliefsStep == LearnInv /\ [Next]_vars => BeliefsInv' /\ [BeliefsGrow]_beliefs
  <1> SUFFICES ASSUME LearnInv, [Next]_vars PROVE BeliefsInv' /\ [BeliefsGrow]_beliefs
    OBVIOUS
  <1>1. ASSUME NEW w \in Tasks, IntegrateClaims(w) PROVE BeliefsInv' /\ [BeliefsGrow]_beliefs
    <2>1. ReviewStep(w, EligibleEvents(w))
      BY <1>1 DEF IntegrateClaims
    <2> QED BY <2>1, ClaimStep, CreateStep, ReadStep, KnownStep, AppendStep DEF ReviewStep
  <1>2. ASSUME NEW w \in Tasks, BeginReview(w) \/ EndReview(w) \/ VersionConflict(w)
        PROVE BeliefsInv' /\ [BeliefsGrow]_beliefs
    BY <1>2, ReviewTurnsOver
  <1>3. ASSUME NEW p \in Processes, Crash(p) PROVE BeliefsInv' /\ [BeliefsGrow]_beliefs
    BY <1>3, ReviewsAreLost DEF Crash
  <1>4. ASSUME BeliefsAge PROVE BeliefsInv' /\ [BeliefsGrow]_beliefs
    BY <1>4, BeliefsGetOld DEF LearnInv
  <1>5. ASSUME UNCHANGED beliefVars PROVE BeliefsInv' /\ [BeliefsGrow]_beliefs
    <2>1. BeliefsInv
      BY DEF LearnInv
    <2>2. UNCHANGED <<beliefs, aged>> /\ (\A x \in Tasks : SameReading(x)) /\ BeliefsTyped'
      BY <1>5, <2>1 DEF beliefVars, beliefLocals, SameReading, BeliefsInv, BeliefsTyped
    <2> QED BY <2>1, <2>2, BeliefsAreRead
  <1>6. \/ UNCHANGED beliefVars
        \/ BeliefsAge
        \/ \E p \in Processes : Crash(p)
        \/ \E w \in Tasks : \/ IntegrateClaims(w)
                            \/ BeginReview(w) \/ EndReview(w) \/ VersionConflict(w)
    BY DEF Next, Initialize, Turn, LearningStep, AskForMemories, MemoriesExtracted, WriteMemories,
           MemoriesLearned, SkipReview, AskForClaims, ClaimsExtracted, Reviewed, ReviewFails,
           WeekPasses, vars
  <1> QED BY <1>1, <1>2, <1>3, <1>4, <1>5, <1>6

-----------------------------------------------------------------------------
LEMMA LearnStarts == Init => LearnInv
  <1> SUFFICES ASSUME Init PROVE LearnInv
    OBVIOUS
  <1>1. TasksInv
    <2>1. turns = setting.past /\ setting.past \in [Processes -> 0 .. MaxTurns]
          /\ setting \in Settings /\ crashes = 0
      BY LearningAssumption DEF Init
    <2>2. /\ \A w \in Tasks : task[w] = "none" /\ task \in [Tasks -> TaskPlaces]
          /\ subject \in [Tasks -> Nat] /\ window \in [Tasks -> Nat] /\ stale \in [Processes -> Nat]
      BY DEF Init, TaskPlaces
    <2>3. \A w \in Tasks : ~Live(w) /\ ~Busy(w) /\ ~Writing(w) /\ ~Reviewing(w)
      BY <2>2, TasksAssumption
         DEF Init, MemoryInit, BeliefInit, Live, Busy, Writing, Reviewing
    <2>4. \A p \in Processes \ up : \A w \in Own(p) \ {Boot(p)} : ~Live(w)
      BY <2>3, TaskIsOwned
    <2>5. crashes \in Nat /\ turns \in [Processes -> 0 .. MaxTurns] /\ task \in [Tasks -> TaskPlaces]
      BY <2>1, <2>2 DEF Init
    <2>6. NumbersFit
      <3>1. /\ stale = [p \in Processes |-> 0] /\ marker = [p \in Processes |-> 0]
            /\ \A w \in Tasks : subject[w] = 0 /\ window[w] = 0
            /\ up = {}
        BY DEF Init
      <3>2. MaxTurns \in Nat /\ MaxCrashes \in Nat /\ 0 \in 0 .. MaxTurns
        BY LearningAssumption
      <3> QED BY <2>1, <2>2, <3>1, <3>2 DEF NumbersFit
    <2> QED BY <2>1, <2>2, <2>3, <2>4, <2>5, <2>6 DEF TasksInv
  <1>2. MemoriesInv
    <2>1. memories = <<>> /\ Rows = {} /\ Active = {}
      BY DEF Init, MemoryInit, Rows, Active
    <2>2. /\ memoryStep \in [Tasks -> MemorySteps] /\ memoryHand \in [Tasks -> Candidates]
          /\ memoryRow \in [Tasks -> Nat] /\ \A w \in Tasks : memoryStep[w] = "idle"
      BY AllMemorySteps, NothingIsACandidate, TasksAssumption DEF Init, MemoryInit
    <2>3. \A w \in Tasks : FindingsHold(w)
      BY <2>2 DEF FindingsHold
    <2> QED BY <2>1, <2>2, <2>3 DEF MemoriesInv, MemoryIsGrounded, MemoryTwins
  <1>3. BeliefsInv
    <2>1. beliefs = <<>> /\ Lineages = {} /\ aged = {}
      BY DEF Init, BeliefInit, Lineages
    <2>2. /\ beliefStep \in [Tasks -> BeliefSteps] /\ beliefRest \in [Tasks -> SUBSET Events]
          /\ beliefCopy \in [Tasks -> Heads] /\ beliefClaim \in [Tasks -> Claims \cup {NoClaim}]
          /\ beliefLineage \in [Tasks -> Nat] /\ \A w \in Tasks : beliefStep[w] = "idle"
      BY AllBeliefSteps, NothingIsAHead, TasksAssumption DEF Init, BeliefInit
    <2>3. \A w \in Tasks : ReadingHolds(w)
      BY <2>2 DEF ReadingHolds
    <2> QED BY <2>1, <2>2, <2>3 DEF BeliefsInv, ConfidenceIsEarned, BeliefTwins
  <1> QED BY <1>1, <1>2, <1>3 DEF LearnInv

LEMMA LearnStep == LearnInv /\ [Next]_vars => LearnInv' /\ [BeliefsGrow]_beliefs
  BY TasksStep, MemoriesStep, BeliefsStep DEF LearnInv

LEMMA LearnInvIsEnough ==
    LearnInv => MemoryIsGrounded /\ ConflictHasSuccessor /\ TwinsAreForeign /\ ConfidenceIsEarned
  <1> SUFFICES ASSUME LearnInv
               PROVE MemoryIsGrounded /\ ConflictHasSuccessor /\ TwinsAreForeign /\ ConfidenceIsEarned
    OBVIOUS
  <1>1. MemoryIsGrounded /\ MemoryTwins /\ BeliefTwins /\ ConfidenceIsEarned
    BY DEF LearnInv, MemoriesInv, BeliefsInv
  <1>2. ConflictHasSuccessor
    <2>1. ASSUME crashes = 0, \A w \in Tasks : ~Writing(w), NEW m \in Rows,
                 memories[m].status = "conflicted"
          PROVE \E e \in memories[m].opposes, n \in Rows \ {m} : e \in memories[n].supports
      <3>1. Succeeded(m)
        BY <2>1 DEF LearnInv, MemoriesInv
      <3> QED BY <2>1, <3>1 DEF Succeeded, Writing
    <2> QED BY <2>1 DEF ConflictHasSuccessor
  <1> QED BY <1>1, <1>2 DEF TwinsAreForeign, MemoryTwins, BeliefTwins

\* A memory keeps its evidence, one that was set aside has its successor unless a
\* process died, and no two tasks of one process write the same memory or belief
\* twice, however the tasks and the processes overlap (write_candidates,
\* integrate_candidates).
THEOREM MemoriesStaySound ==
    Spec => [](MemoryIsGrounded /\ ConflictHasSuccessor /\ TwinsAreForeign)
  <1>1. LearnInv => MemoryIsGrounded /\ ConflictHasSuccessor /\ TwinsAreForeign
    BY LearnInvIsEnough
  <1>2. LearnInv /\ [Next]_vars => LearnInv'
    BY LearnStep
  <1> QED BY LearnStarts, <1>1, <1>2, PTL DEF Spec

\* The confidence of a belief counts the events recorded for it, each once, and
\* its versions only grow, whatever reviews overlap, repeat after a crash or run
\* into each other (record_support, append_if_version).
THEOREM BeliefsStayEarned == Spec => BeliefsAreEarned
  <1>1. LearnInv => ConfidenceIsEarned
    BY LearnInvIsEnough
  <1>2. LearnInv /\ [Next]_vars => LearnInv' /\ [BeliefsGrow]_beliefs
    BY LearnStep
  <1>3. Spec => []ConfidenceIsEarned /\ [][BeliefsGrow]_beliefs
    BY LearnStarts, <1>1, <1>2, PTL DEF Spec
  <1> QED BY <1>3 DEF BeliefsAreEarned, BeliefsOnlyGrow, BeliefsGrow

-----------------------------------------------------------------------------
(***************************************************************************)
(* TurnLearning: types and bounds of what is kept.                         *)
(***************************************************************************)
WritersBusy == {w \in Tasks : Writing(w)}
WritersHolding == {w \in Tasks : memoryStep[w] \notin {"idle", "pick"}}

\* There is room for what every writer has in hand.
RowsFit ==
    /\ IsFiniteSet(WritersBusy)
    /\ Len(memories) + Cardinality(WritersHolding) <= MaxMemories
    /\ \A w \in Tasks : memoryRow[w] <= Len(memories)

LineagesFit ==
    /\ Len(beliefs) <= MaxBeliefs
    /\ \A w \in Tasks : beliefLineage[w] <= Len(beliefs)
    /\ beliefAsked \in [Tasks -> SUBSET Claims]

LEMMA HoldersAreBusy ==
    ASSUME RowsFit, memories \in Seq(Memories)
    PROVE  /\ WritersHolding \subseteq WritersBusy /\ IsFiniteSet(WritersHolding)
           /\ Cardinality(WritersHolding) \in Nat /\ Len(memories) \in Nat
           /\ Len(memories) <= MaxMemories /\ MaxMemories \in Nat /\ Rows = 1 .. Len(memories)
  <1>1. WritersHolding \subseteq WritersBusy /\ IsFiniteSet(WritersBusy)
    BY DEF WritersHolding, WritersBusy, Writing, RowsFit
  <1>2. WritersHolding \in SUBSET WritersBusy
    BY <1>1
  <1>3. IsFiniteSet(WritersHolding)
    BY <1>1, <1>2, FS_Subset
  <1>4. Cardinality(WritersHolding) \in Nat
    BY <1>3, FS_CardinalityType
  <1>5. Len(memories) \in Nat /\ MaxMemories \in Nat
    BY MemoryAssumption
  <1> QED BY <1>1, <1>3, <1>4, <1>5 DEF RowsFit, Rows

\* No row is added and nobody takes a candidate in hand.
LEMMA RowsStillFit ==
    ASSUME RowsFit, memories \in Seq(Memories), Len(memories)' = Len(memories),
           WritersHolding' \subseteq WritersHolding,
           NEW w \in Tasks, WritersBusy' \subseteq WritersBusy \cup {w},
           \A x \in Tasks : memoryRow'[x] <= Len(memories)
    PROVE  RowsFit'
  <1>1. IsFiniteSet(WritersHolding) /\ Cardinality(WritersHolding) \in Nat /\ Len(memories) \in Nat
        /\ MaxMemories \in Nat
    BY HoldersAreBusy
  <1>2. WritersHolding' \in SUBSET WritersHolding
    OBVIOUS
  <1>3. IsFiniteSet(WritersHolding') /\ Cardinality(WritersHolding') <= Cardinality(WritersHolding)
    BY <1>1, <1>2, FS_Subset
  <1>4. Cardinality(WritersHolding') \in Nat
    BY <1>3, FS_CardinalityType
  <1>5. IsFiniteSet(WritersBusy \cup {w})
    BY FS_AddElement DEF RowsFit
  <1>6. WritersBusy' \in SUBSET (WritersBusy \cup {w})
    OBVIOUS
  <1>7. IsFiniteSet(WritersBusy')
    BY <1>5, <1>6, FS_Subset
  <1>8. Len(memories) + Cardinality(WritersHolding) <= MaxMemories
    BY DEF RowsFit
  <1>9. Len(memories)' + Cardinality(WritersHolding') <= MaxMemories
    BY <1>1, <1>3, <1>4, <1>8
  <1> QED BY <1>7, <1>9 DEF RowsFit

LEMMA RowsFitCandidate ==
    ASSUME LearnInv, RowsFit, NEW w \in Tasks, NextCandidate(w, TurnEvents(w))
    PROVE  RowsFit'
  <1>1. memories \in Seq(Memories) /\ MemoriesInv /\ memoryRow \in [Tasks -> Nat]
        /\ memoryStep \in [Tasks -> MemorySteps]
    BY DEF LearnInv, MemoriesInv
  <1>2. IsFiniteSet(WritersHolding) /\ Len(memories) \in Nat /\ MaxMemories \in Nat
        /\ Rows = 1 .. Len(memories) /\ IsFiniteSet(WritersBusy)
    BY <1>1, HoldersAreBusy DEF RowsFit
  <1>3. memoryStep[w] = "pick" /\ memories' = memories
        /\ Len(memories) + Cardinality({x \in Writers \ {w} : Writing(x)}) < MaxMemories
    BY DEF NextCandidate
  <1>4. \E step \in MemorySteps : MemoryGoto(w, step)
    BY AllMemorySteps DEF NextCandidate
  <1>5. \A x \in Tasks \ {w} : memoryStep'[x] = memoryStep[x]
    BY <1>1, <1>4 DEF MemoryGoto
  <1> DEFINE others == {x \in Writers \ {w} : Writing(x)}
  <1>6. others \subseteq WritersBusy /\ others \in SUBSET WritersBusy
    BY TasksAssumption DEF WritersBusy
  <1>7. IsFiniteSet(others)
    BY <1>2, <1>6, FS_Subset
  <1>8. Cardinality(others) \in Nat /\ w \notin others
    BY <1>7, FS_CardinalityType
  <1>9. IsFiniteSet(others \cup {w}) /\ Cardinality(others \cup {w}) = Cardinality(others) + 1
    BY <1>7, <1>8, FS_AddElement
  <1>10. WritersHolding' \subseteq others \cup {w} /\ WritersHolding' \in SUBSET (others \cup {w})
    BY <1>5, TasksAssumption DEF WritersHolding, Writing
  <1>11. IsFiniteSet(WritersHolding') /\ Cardinality(WritersHolding') <= Cardinality(others \cup {w})
    BY <1>9, <1>10, FS_Subset
  <1>12. Cardinality(WritersHolding') \in Nat
    BY <1>11, FS_CardinalityType
  <1>13. WritersBusy' \subseteq WritersBusy \cup {w} /\ WritersBusy' \in SUBSET (WritersBusy \cup {w})
    BY <1>5 DEF WritersBusy, Writing
  <1>14. IsFiniteSet(WritersBusy \cup {w})
    BY <1>2, FS_AddElement
  <1>15. IsFiniteSet(WritersBusy')
    BY <1>13, <1>14, FS_Subset
  <1>16. Len(memories)' + Cardinality(WritersHolding') <= MaxMemories
    <2>1. PICK c \in Nat : c = Cardinality(others)
      BY <1>8
    <2>2. PICK d \in Nat : d = Cardinality(WritersHolding')
      BY <1>12
    <2>3. Len(memories) + c < MaxMemories /\ d <= c + 1
      BY <1>3, <1>9, <1>11, <2>1, <2>2
    <2>4. Len(memories) + d <= MaxMemories
      BY <1>2, <2>3
    <2> QED BY <1>3, <2>2, <2>4
  <1>17. \A x \in Tasks : memoryRow'[x] <= Len(memories)
    <2>1. memoryRow' = memoryRow \/ \E m \in Rows : memoryRow' = [memoryRow EXCEPT ![w] = m]
      BY DEF NextCandidate, SameContent, Active
    <2>2. \A x \in Tasks : memoryRow[x] <= Len(memories)
      BY DEF RowsFit
    <2> QED BY <1>1, <1>2, <2>1, <2>2
  <1> QED BY <1>3, <1>15, <1>16, <1>17 DEF RowsFit

LEMMA RowsFitInsert ==
    ASSUME LearnInv, RowsFit, NEW w \in Tasks, InsertMemory(w)
    PROVE  RowsFit'
  <1>1. memories \in Seq(Memories) /\ memoryRow \in [Tasks -> Nat]
        /\ memoryStep \in [Tasks -> MemorySteps]
    BY DEF LearnInv, MemoriesInv
  <1>2. IsFiniteSet(WritersHolding) /\ Len(memories) \in Nat /\ MaxMemories \in Nat
        /\ Cardinality(WritersHolding) \in Nat /\ IsFiniteSet(WritersBusy)
    BY <1>1, HoldersAreBusy DEF RowsFit
  <1>3. memoryStep[w] = "insert" /\ MemoryGoto(w, "pick") /\ memoryRow' = [memoryRow EXCEPT ![w] = 0]
        /\ \E row : memories' = Append(memories, row)
    BY DEF InsertMemory, DropCandidate
  <1>4. Len(memories)' = Len(memories) + 1
    BY <1>1, <1>3
  <1>5. memoryStep'[w] = "pick" /\ \A x \in Tasks \ {w} : memoryStep'[x] = memoryStep[x]
    BY <1>1, <1>3 DEF MemoryGoto
  <1>6. WritersHolding' = WritersHolding \ {w} /\ w \in WritersHolding
    BY <1>3, <1>5 DEF WritersHolding
  <1>7. Cardinality(WritersHolding') = Cardinality(WritersHolding) - 1
    BY <1>2, <1>6, FS_RemoveElement
  <1>8. Len(memories) + Cardinality(WritersHolding) <= MaxMemories
    BY DEF RowsFit
  <1>9. Len(memories)' + Cardinality(WritersHolding') <= MaxMemories
    BY <1>2, <1>4, <1>7, <1>8
  <1>10. WritersBusy' = WritersBusy
    BY <1>3, <1>5 DEF WritersBusy, Writing
  <1>11. ASSUME NEW x \in Tasks PROVE memoryRow'[x] <= Len(memories)'
    <2>1. memoryRow[x] <= Len(memories) /\ memoryRow[x] \in Nat
      BY <1>1 DEF RowsFit
    <2>2. memoryRow'[x] = memoryRow[x] \/ memoryRow'[x] = 0
      BY <1>1, <1>3
    <2> QED BY <1>2, <1>4, <2>1, <2>2
  <1> QED BY <1>2, <1>9, <1>10, <1>11 DEF RowsFit

LEMMA RowsFitStep ==
    ASSUME LearnInv, LearnInv', RowsFit, [Next]_vars
    PROVE  RowsFit'
  <1>1. /\ memories \in Seq(Memories) /\ memories' \in Seq(Memories) /\ memoryRow \in [Tasks -> Nat]
        /\ memoryStep \in [Tasks -> MemorySteps] /\ \A w \in Tasks : FindingsHold(w)
    BY DEF LearnInv, MemoriesInv
  <1>2. Len(memories) \in Nat /\ Rows = 1 .. Len(memories)
        /\ \A x \in Tasks : memoryRow[x] <= Len(memories) /\ memoryRow[x] \in Nat
    BY <1>1, HoldersAreBusy DEF RowsFit
  <1>3. \A w \in Tasks : \A step : MemoryGoto(w, step) =>
          memoryStep'[w] = step /\ \A x \in Tasks \ {w} : memoryStep'[x] = memoryStep[x]
    BY <1>1 DEF MemoryGoto
  \* A statement of w that adds no row and keeps what w has in hand or drops it.
  <1>4. ASSUME NEW w \in Tasks, DOMAIN memories' = DOMAIN memories,
               \A x \in Tasks \ {w} : memoryStep'[x] = memoryStep[x],
               memoryStep'[w] \notin {"idle", "pick"} => memoryStep[w] \notin {"idle", "pick"},
               memoryRow' = memoryRow \/ \E m \in Rows \cup {0} : memoryRow' = [memoryRow EXCEPT ![w] = m]
        PROVE RowsFit'
    <2>1. Len(memories)' = Len(memories)
      BY <1>1, <1>4
    <2>2. WritersHolding' \subseteq WritersHolding
      BY <1>4 DEF WritersHolding
    <2>3. WritersBusy' \subseteq WritersBusy \cup {w}
      BY <1>4 DEF WritersBusy, Writing
    <2>4. \A x \in Tasks : memoryRow'[x] <= Len(memories)
      BY <1>1, <1>2, <1>4
    <2> QED BY <1>1, <2>1, <2>2, <2>3, <2>4, RowsStillFit
  <1>5. ASSUME NEW w \in Tasks, WriteMemories(w) PROVE RowsFit'
    <2>1. CASE NextCandidate(w, TurnEvents(w))
      BY <2>1, RowsFitCandidate
    <2>2. CASE InsertMemory(w)
      BY <2>2, RowsFitInsert
    <2>3. CASE FindSimilar(w) \/ FindContradicted(w)
      <3>1. memories' = memories /\ memoryStep[w] \in {"similar", "contradict"}
        BY <2>3 DEF FindSimilar, FindContradicted
      <3>2. \E step : MemoryGoto(w, step)
        BY <2>3 DEF FindSimilar, FindContradicted
      <3>3. memoryRow' = memoryRow \/ \E m \in Rows : memoryRow' = [memoryRow EXCEPT ![w] = m]
        BY <2>3 DEF FindSimilar, FindContradicted, Active
      <3> QED BY <1>3, <1>4, <3>1, <3>2, <3>3
    <2>4. CASE AddSupport(w)
      <3>1. memoryStep[w] = "support"
            /\ \E e : memories' = [memories EXCEPT ![memoryRow[w]].supports = @ \cup {e}]
        BY <2>4 DEF AddSupport
      <3>2. DOMAIN memories' = DOMAIN memories
        BY <3>1
      <3>3. DropCandidate(w) \/ UNCHANGED <<memoryStep, memoryRow>>
        BY <2>4 DEF AddSupport
      <3>4. CASE DropCandidate(w)
        <4>1. MemoryGoto(w, "pick") /\ memoryRow' = [memoryRow EXCEPT ![w] = 0]
          BY <3>4 DEF DropCandidate
        <4> QED BY <1>3, <1>4, <3>2, <4>1
      <3>5. CASE UNCHANGED <<memoryStep, memoryRow>>
        BY <1>4, <3>2, <3>5
      <3> QED BY <3>3, <3>4, <3>5
    <2>5. CASE AddContradiction(w)
      <3>1. memoryStep[w] = "oppose" /\ MemoryGoto(w, "mark") /\ memoryRow' = memoryRow
            /\ \E e : memories' = [memories EXCEPT ![memoryRow[w]].opposes = @ \cup {e}]
        BY <2>5 DEF AddContradiction
      <3>2. DOMAIN memories' = DOMAIN memories
        BY <3>1
      <3> QED BY <1>3, <1>4, <3>1, <3>2
    <2>6. CASE MarkConflicted(w)
      <3>1. memoryStep[w] = "mark" /\ MemoryGoto(w, AfterConflict) /\ memoryRow' = memoryRow
            /\ memories' = [memories EXCEPT ![memoryRow[w]].status = "conflicted"]
        BY <2>6 DEF MarkConflicted
      <3>2. DOMAIN memories' = DOMAIN memories
        BY <3>1
      <3> QED BY <1>3, <1>4, <3>1, <3>2
    <2> QED BY <1>5, <2>1, <2>2, <2>3, <2>4, <2>5, <2>6 DEF WriteMemories, WriteStep
  <1>6. ASSUME NEW w \in Tasks, MemoriesExtracted(w) \/ MemoriesLearned(w) PROVE RowsFit'
    <2>1. memories' = memories /\ memoryRow' = memoryRow
          /\ (MemoryGoto(w, "pick") \/ MemoryGoto(w, "idle"))
      BY <1>6 DEF MemoriesExtracted, MemoriesLearned, BeginWrite, EndWrite
    <2> QED BY <1>3, <1>4, <2>1
  <1>7. ASSUME NEW p \in Processes, Crash(p) PROVE RowsFit'
    <2>1. /\ \A x \in Tasks : memoryStep'[x] \in {"idle", memoryStep[x]} /\ memoryRow'[x] \in {0, memoryRow[x]}
          /\ memories' = memories
      BY <1>7, TasksAssumption DEF Crash, LoseWrites
    <2>2. WritersHolding' \subseteq WritersHolding /\ WritersBusy' \subseteq WritersBusy \cup {Boot(p)}
      BY <2>1 DEF WritersHolding, WritersBusy, Writing
    <2>3. \A x \in Tasks : memoryRow'[x] <= Len(memories)
      BY <1>2, <2>1
    <2>4. Boot(p) \in Tasks
      BY TaskIsOwned
    <2> QED BY <1>1, <2>1, <2>2, <2>3, <2>4, RowsStillFit
  <1>8. ASSUME UNCHANGED memoryVars PROVE RowsFit'
    <2>1. memories' = memories /\ memoryStep' = memoryStep /\ memoryRow' = memoryRow
      BY <1>8 DEF memoryVars
    <2>2. WritersHolding' = WritersHolding /\ WritersBusy' = WritersBusy
      BY <2>1 DEF WritersHolding, WritersBusy, Writing
    <2> QED BY <2>1, <2>2 DEF RowsFit
  <1>9. \/ UNCHANGED memoryVars
        \/ \E p \in Processes : Crash(p)
        \/ \E w \in Tasks : MemoriesExtracted(w) \/ MemoriesLearned(w) \/ WriteMemories(w)
    BY DEF Next, Initialize, Turn, LearningStep, AskForMemories, SkipReview, AskForClaims,
           ClaimsExtracted, IntegrateClaims, Reviewed, ReviewFails, WeekPasses, vars, learningVars
  <1> QED BY <1>5, <1>6, <1>7, <1>8, <1>9

LEMMA LineagesFitStep ==
    ASSUME LearnInv, LearnInv', LineagesFit, [Next]_vars
    PROVE  LineagesFit'
  <1>1. /\ beliefs \in Seq(Beliefs) /\ beliefs' \in Seq(Beliefs) /\ beliefLineage \in [Tasks -> Nat]
        /\ Len(beliefs) \in Nat /\ Lineages = 1 .. Len(beliefs) /\ MaxBeliefs \in Nat
    BY BeliefAssumption DEF LearnInv, BeliefsInv, Lineages
  <1>2. /\ Len(beliefs) <= MaxBeliefs /\ \A x \in Tasks : beliefLineage[x] <= Len(beliefs)
        /\ beliefAsked \in [Tasks -> SUBSET Claims] /\ \A x \in Tasks : beliefLineage[x] \in Nat
    BY <1>1 DEF LineagesFit
  \* A statement of w that adds no lineage.
  <1>3. ASSUME NEW w \in Tasks, DOMAIN beliefs' = DOMAIN beliefs,
               beliefLineage' = beliefLineage
                 \/ \E l \in Lineages \cup {0} : beliefLineage' = [beliefLineage EXCEPT ![w] = l],
               beliefAsked' = beliefAsked
                 \/ \E cs \in SUBSET Claims : beliefAsked' = [beliefAsked EXCEPT ![w] = cs]
        PROVE LineagesFit'
    <2>1. Len(beliefs)' = Len(beliefs)
      BY <1>1, <1>3
    <2>2. \A x \in Tasks : beliefLineage'[x] <= Len(beliefs)
      BY <1>1, <1>2, <1>3
    <2>3. beliefAsked' \in [Tasks -> SUBSET Claims]
      BY <1>2, <1>3
    <2> QED BY <1>2, <2>1, <2>2, <2>3 DEF LineagesFit
  <1>4. ASSUME NEW w \in Tasks, NextClaim(w, EligibleEvents(w)) PROVE LineagesFit'
    <2>1. beliefs' = beliefs /\ \E c \in Claims : beliefAsked' = [beliefAsked EXCEPT ![w] = @ \cup {c}]
      BY <1>4 DEF NextClaim
    <2>2. \E cs \in SUBSET Claims : beliefAsked' = [beliefAsked EXCEPT ![w] = cs]
      BY <1>2, <2>1
    <2>3. beliefLineage' = beliefLineage
            \/ \E l \in Lineages : beliefLineage' = [beliefLineage EXCEPT ![w] = l]
      BY <1>4 DEF NextClaim
    <2> QED BY <1>3, <2>1, <2>2, <2>3
  <1>5. ASSUME NEW w \in Tasks, CreateCandidate(w) PROVE LineagesFit'
    <2>1. Len(beliefs) < MaxBeliefs /\ \E b : beliefs' = Append(beliefs, b)
      BY <1>5 DEF CreateCandidate
    <2>2. Len(beliefs)' = Len(beliefs) + 1
      BY <1>1, <2>1
    <2>3. beliefAsked' = beliefAsked /\ beliefLineage' = [beliefLineage EXCEPT ![w] = 0]
      BY <1>5 DEF CreateCandidate, ClaimDone
    <2>4. ASSUME NEW x \in Tasks PROVE beliefLineage'[x] <= Len(beliefs)'
      BY <1>1, <1>2, <2>2, <2>3
    <2>5. Len(beliefs)' <= MaxBeliefs
      BY <1>1, <2>1, <2>2
    <2> QED BY <1>2, <2>3, <2>4, <2>5 DEF LineagesFit
  <1>6. ASSUME NEW w \in Tasks, ReadLatest(w) PROVE LineagesFit'
    BY <1>3, <1>6 DEF ReadLatest
  <1>7. ASSUME NEW w \in Tasks, NEW e, EventDone(w, e), DOMAIN beliefs' = DOMAIN beliefs,
               beliefAsked' = beliefAsked
        PROVE LineagesFit'
    <2>1. beliefLineage' = beliefLineage \/ beliefLineage' = [beliefLineage EXCEPT ![w] = 0]
      BY <1>7 DEF EventDone, ClaimDone
    <2> QED BY <1>3, <1>7, <2>1
  <1>8. ASSUME NEW w \in Tasks, KnownByNow(w) PROVE LineagesFit'
    BY <1>7, <1>8 DEF KnownByNow
  <1>9. ASSUME NEW w \in Tasks, AppendVersion(w) PROVE LineagesFit'
    <2>1. beliefAsked' = beliefAsked
          /\ \E e : EventDone(w, e) /\ \E h : beliefs' = [beliefs EXCEPT ![beliefLineage[w]].head = h]
      BY <1>9 DEF AppendVersion
    <2>2. DOMAIN beliefs' = DOMAIN beliefs
      BY <2>1
    <2> QED BY <1>7, <2>1, <2>2
  <1>10. ASSUME NEW w \in Tasks, Reviewed(w) \/ ReviewFails(w) PROVE LineagesFit'
    <2>1. beliefs' = beliefs /\ BeliefLeave(w)
      BY <1>10 DEF Reviewed, ReviewFails, EndReview, VersionConflict
    <2>2. beliefLineage' = [beliefLineage EXCEPT ![w] = 0] /\ beliefAsked' = [beliefAsked EXCEPT ![w] = {}]
      BY <2>1 DEF BeliefLeave
    <2> QED BY <1>3, <2>1, <2>2
  <1>11. ASSUME NEW p \in Processes, Crash(p) PROVE LineagesFit'
    <2>1. /\ beliefs' = beliefs
          /\ \A x \in Tasks : beliefLineage'[x] = IF x \in Own(p) THEN 0 ELSE beliefLineage[x]
          /\ beliefAsked' = [x \in Tasks |-> IF x \in Own(p) THEN {} ELSE beliefAsked[x]]
      BY <1>11, TasksAssumption DEF Crash, LoseReviews
    <2>2. beliefAsked' \in [Tasks -> SUBSET Claims]
      BY <1>2, <2>1
    <2>3. \A x \in Tasks : beliefLineage'[x] <= Len(beliefs)
      BY <1>1, <1>2, <2>1
    <2> QED BY <1>2, <2>1, <2>2, <2>3 DEF LineagesFit
  <1>12. ASSUME UNCHANGED <<beliefs, beliefLineage, beliefAsked>> PROVE LineagesFit'
    BY <1>12 DEF LineagesFit
  <1>13. ASSUME NEW w \in Tasks, IntegrateClaims(w) PROVE LineagesFit'
    BY <1>4, <1>5, <1>6, <1>8, <1>9, <1>13 DEF IntegrateClaims, ReviewStep
  <1>14. \/ UNCHANGED <<beliefs, beliefLineage, beliefAsked>>
         \/ \E p \in Processes : Crash(p)
         \/ \E w \in Tasks : Reviewed(w) \/ ReviewFails(w) \/ IntegrateClaims(w)
    BY DEF Next, Initialize, Turn, LearningStep, AskForMemories, MemoriesExtracted, MemoriesLearned,
           WriteMemories, SkipReview, AskForClaims, ClaimsExtracted, BeginReview, WeekPasses, BeliefsAge,
           vars, beliefVars, beliefLocals
  <1> QED BY <1>10, <1>11, <1>12, <1>13, <1>14

LEMMA LearnFitStarts == Init => RowsFit /\ LineagesFit
  <1> SUFFICES ASSUME Init PROVE RowsFit /\ LineagesFit
    OBVIOUS
  <1>1. memories = <<>> /\ beliefs = <<>> /\ Len(memories) = 0 /\ Len(beliefs) = 0
    BY DEF Init, MemoryInit, BeliefInit
  <1>2. \A w \in Tasks : /\ memoryStep[w] = "idle" /\ memoryRow[w] = 0 /\ beliefLineage[w] = 0
    BY TasksAssumption DEF Init, MemoryInit, BeliefInit
  <1>3. WritersBusy = {} /\ WritersHolding = {}
    BY <1>2 DEF WritersBusy, WritersHolding, Writing
  <1>4. IsFiniteSet({}) /\ Cardinality({}) = 0
    BY FS_EmptySet
  <1>5. MaxMemories \in Nat /\ MaxBeliefs \in Nat
    BY MemoryAssumption, BeliefAssumption
  <1>6. beliefAsked \in [Tasks -> SUBSET Claims]
    BY TasksAssumption DEF Init, BeliefInit
  <1>7. RowsFit
    BY <1>1, <1>2, <1>3, <1>4, <1>5 DEF RowsFit
  <1> QED BY <1>1, <1>2, <1>5, <1>6, <1>7 DEF LineagesFit

LEMMA LearnTypes == LearnInv /\ RowsFit /\ LineagesFit => TypeOK
  <1> SUFFICES ASSUME LearnInv, RowsFit, LineagesFit PROVE TypeOK
    OBVIOUS
  <1>1. TasksInv /\ MemoriesInv /\ BeliefsInv /\ NumbersFit
    BY DEF LearnInv, TasksInv
  <1>2. {Owner(w) : w \in Writers} = Processes /\ {w[1] : w \in Reviewers} = Processes
    <2>1. \A p \in Processes : <<p, 0>> \in Tasks /\ <<p, 0>>[1] = p
      BY LearningAssumption DEF Tasks
    <2>2. \A w \in Tasks : w[1] \in Processes
      BY TaskIsOwned
    <2> QED BY <2>1, <2>2, TasksAssumption DEF Owner
  <1>3. MemoryTypeOK(Events)
    <2>1. memories \in Seq(Memories) /\ memoryHand \in [Tasks -> Candidates]
          /\ memoryStep \in [Tasks -> MemorySteps] /\ memoryRow \in [Tasks -> Nat]
      BY <1>1 DEF MemoriesInv
    <2>2. Len(memories) \in Nat /\ Len(memories) <= MaxMemories /\ MaxMemories \in Nat
      BY <2>1, HoldersAreBusy
    <2>3. \A w \in Tasks : memoryRow[w] \in 0 .. MaxMemories
      BY <2>1, <2>2 DEF RowsFit
    <2>4. memoryRow \in [Tasks -> 0 .. MaxMemories]
      BY <2>1, <2>3
    <2> QED BY <1>2, <2>1, <2>4, TasksAssumption DEF MemoryTypeOK, Memories, Candidates
  <1>4. BeliefTypeOK(Events)
    <2>1. /\ beliefs \in Seq(Beliefs) /\ beliefStep \in [Tasks -> BeliefSteps] /\ aged \subseteq Lineages
          /\ beliefRest \in [Tasks -> SUBSET Events] /\ beliefCopy \in [Tasks -> Heads]
          /\ beliefClaim \in [Tasks -> Claims \cup {NoClaim}] /\ beliefLineage \in [Tasks -> Nat]
      BY <1>1 DEF BeliefsInv
    <2>2. Len(beliefs) \in Nat /\ Len(beliefs) <= MaxBeliefs /\ MaxBeliefs \in Nat
      BY <2>1, BeliefAssumption DEF LineagesFit
    <2>3. \A w \in Tasks : beliefLineage[w] \in 0 .. MaxBeliefs
      BY <2>1, <2>2 DEF LineagesFit
    <2>4. beliefLineage \in [Tasks -> 0 .. MaxBeliefs] /\ beliefAsked \in [Tasks -> SUBSET Claims]
      BY <2>1, <2>3 DEF LineagesFit
    <2>5. Versions(Events) = Heads
      BY DEF Versions, Heads, Confidences
    <2>6. beliefs \in Seq([claim : Claims, by : {w[1] : w \in Reviewers}, first : 0 .. ConfidenceCap,
                           basis : SUBSET Events, head : Versions(Events)])
      BY <1>2, <2>1, <2>5 DEF Beliefs
    <2> QED BY <2>1, <2>4, <2>5, <2>6, TasksAssumption DEF BeliefTypeOK, Lineages
  <1>5. /\ turns \in [Processes -> 0 .. MaxTurns] /\ stale \in [Processes -> 0 .. MaxTurns]
        /\ marker \in [Processes -> 0 .. MaxTurns] /\ crashes \in 0 .. MaxCrashes /\ setting \in Settings
        /\ task \in [Tasks -> TaskPlaces]
    BY <1>1, LearningAssumption DEF TasksInv, NumbersFit
  <1>6. subject \in [Tasks -> 0 .. MaxTurns] /\ window \in [Tasks -> 0 .. MaxTurns]
    <2>1. \A w \in Tasks : subject[w] \in 0 .. MaxTurns /\ window[w] \in 0 .. MaxTurns
      BY <1>1, LearningAssumption DEF TasksInv, NumbersFit
    <2> QED BY <1>1, <2>1 DEF TasksInv
  <1>7. up \subseteq Processes
    BY <1>1 DEF NumbersFit
  <1> QED BY <1>3, <1>4, <1>5, <1>6, <1>7 DEF TypeOK, TaskPlaces

\* Whatever tasks overlap and whoever dies: memories and beliefs cite events of
\* turns there have been, the rows a task holds are there, and a writer with a
\* candidate in hand has room for it (write_candidates, integrate_candidates).
THEOREM LearningTypeCorrect == Spec => []TypeOK
  <1>1. LearnInv /\ RowsFit /\ LineagesFit /\ [Next]_vars => (LearnInv /\ RowsFit /\ LineagesFit)'
    BY LearnStep, RowsFitStep, LineagesFitStep
  <1> QED BY <1>1, LearnStarts, LearnFitStarts, LearnTypes, PTL DEF Spec

-----------------------------------------------------------------------------
(***************************************************************************)
(* InnerLife in one process.                                               *)
(***************************************************************************)
\* Where the job has read the row, the user's events, and the agent's.
HasRow == {"beat_user", "beat_agent", "beat", "append", "write", "put_user", "put_agent",
           "put_hook"}
HasUser == {"beat_agent", "beat", "append", "write", "get_user", "put_user", "get_agent",
            "put_agent", "get_hook", "put_hook"}
HasAgent == HasUser \ {"beat_agent"}

\* The send lock lets turn and worker take turns, so what either has read is
\* still so.
ReadingStands ==
    /\ turn = "idle" \/ job = "idle"
    /\ turn \in {"put", "put_reply"} => prior = inner
    /\ job \in HasRow => kept = inner
    /\ job \in HasUser => user = users
    /\ job \in HasAgent => agent = agents
    /\ job \in HasAgent \ {"get_hook", "put_hook"} => (follows => answered >= user)

\* Who waits or is offline has a deadline, who is engaged has none.
DeadlineIsRight(r) ==
    /\ r.mode \in {"waiting", "offline"} => r.deadline # NoDeadline
    /\ r.mode = "engaged" => r.deadline = NoDeadline

\* What the heartbeat is about to write names the latest events.
UpdateIsInformed ==
    job \in {"append", "write"} =>
        /\ upd.user = users /\ upd.agent = agents
        /\ DeadlineIsRight(upd)
        /\ upd.deadline # NoDeadline => inner.deadline # NoDeadline

\* The first event is one of the user.
UserIsFirst ==
    users = 0 => agents = 0 /\ turn = "idle" /\ ~contact /\ inner.deadline = NoDeadline
                   /\ job \notin {"get_user", "put_user", "get_agent", "put_agent", "get_hook",
                                  "put_hook"}

\* Until a process dies the row misses no event but the one that is being
\* handled, and whoever has a deadline has been answered.
RowIsInformed ==
    innerCrashes = 0 =>
        /\ turn = "idle" /\ job \notin {"get_hook", "put_hook"} =>
             inner.user = users /\ inner.agent = agents
        /\ turn \in {"get", "put"} => inner.agent = agents
        /\ turn \in {"thinking", "get_reply", "put_reply"} =>
             inner.user = users /\ inner.mode = "engaged"
        /\ turn = "thinking" => inner.agent = agents
        /\ turn \in {"get_reply", "put_reply"} => answered = users
        /\ turn = "idle" /\ inner.deadline # NoDeadline => answered = users
        /\ job \in {"get_agent", "put_agent", "get_hook", "put_hook"} => answered = users

InnerFacts ==
    /\ ReadingStands
    /\ DeadlineIsRight(inner)
    /\ UpdateIsInformed
    /\ UserIsFirst
    /\ RowIsInformed

InnerInv == InnerTypeOK /\ (~InnerSeparate => InnerFacts)

\* The rows that are written are rows.
LEMMA RowsAreRows ==
    /\ NoInnerRow \in InnerRows
    /\ \A r \in InnerRows : \A u \in Nat : Engaged(r, u) \in InnerRows
    /\ \A r \in InnerRows : \A u, a, wait \in Nat : Waiting(r, u, a, wait) \in InnerRows
    /\ \A r \in InnerRows : Quiet(r) \in InnerRows /\ Refreshed(r) \in InnerRows
    /\ \A r \in InnerRows : \A mode \in NextModes(r) : Advanced(r, mode) \in InnerRows
    /\ \A r \in InnerRows : Aged(r) \in InnerRows
  <1>1. NoInnerRow \in InnerRows
    BY DEF NoInnerRow, InnerRows, Modes, NoDeadline
  <1>2. \A r \in InnerRows : \A u \in Nat : Engaged(r, u) \in InnerRows
    <2> SUFFICES ASSUME NEW r \in InnerRows, NEW u \in Nat PROVE Engaged(r, u) \in InnerRows
      OBVIOUS
    <2>1. r.version + 1 \in Nat /\ "engaged" \in Modes /\ NoDeadline \in {NoDeadline} \cup Nat
      BY DEF InnerRows, Modes
    <2> QED BY <2>1 DEF InnerRows, Engaged
  <1>3. \A r \in InnerRows : \A u, a, wait \in Nat : Waiting(r, u, a, wait) \in InnerRows
    BY DEF InnerRows, Modes, Waiting
  <1>4. \A r \in InnerRows : Quiet(r) \in InnerRows /\ Refreshed(r) \in InnerRows
    BY DEF NoInnerRow, InnerRows, Modes, NoDeadline, Quiet, Refreshed
  <1>5. \A r \in InnerRows : \A mode \in NextModes(r) : Advanced(r, mode) \in InnerRows
    <2> SUFFICES ASSUME NEW r \in InnerRows, NEW mode \in NextModes(r)
                 PROVE  Advanced(r, mode) \in InnerRows
      OBVIOUS
    <2>1. mode \in Modes
      BY DEF NextModes, Modes
    <2>2. r.version + 1 \in Nat
      BY DEF InnerRows
    <2> QED BY <2>1, <2>2 DEF InnerRows, Advanced
  <1>6. \A r \in InnerRows : Aged(r) \in InnerRows
    BY DEF InnerRows, NoDeadline, Aged
  <1> QED
    BY <1>1, <1>2, <1>3, <1>4, <1>5, <1>6

LEMMA DropsRows ==
    Drop => /\ kept' \in InnerRows /\ upd' \in InnerRows
            /\ user' \in 0 .. MaxUsers /\ agent' \in 0 .. MaxAgents
            /\ follows' \in BOOLEAN
  <1>1. Drop => follows' \in BOOLEAN
    BY DEF Drop
  <1>2. Drop => kept' \in InnerRows /\ upd' \in InnerRows
    BY RowsAreRows DEF Drop
  <1>3. Drop => user' \in 0 .. MaxUsers /\ agent' \in 0 .. MaxAgents
    BY InnerLifeAssumption DEF Drop
  <1> QED BY <1>1, <1>2, <1>3

LEMMA InnerTypeStep == InnerTypeOK /\ [InnerNext]_innerVars => InnerTypeOK'
  <1> SUFFICES ASSUME InnerTypeOK, [InnerNext]_innerVars PROVE InnerTypeOK'
    OBVIOUS
  <1> USE InnerLifeAssumption, RowsAreRows, DropsRows
  <1> USE DEF InnerTypeOK, ledger, chatting, working
  <1>1. CASE Send
    BY <1>1 DEF Send
  <1>2. CASE ChatGet
    BY <1>2 DEF ChatGet
  <1>3. CASE ChatPut
    BY <1>3 DEF ChatPut
  <1>4. CASE Reply
    BY <1>4 DEF Reply
  <1>5. CASE TurnFails
    BY <1>5 DEF TurnFails
  <1>6. CASE ReplyPut
    BY <1>6 DEF ReplyPut
  <1>7. CASE Heartbeat
    BY <1>7 DEF Heartbeat
  <1>8. CASE BeatUser
    BY <1>8 DEF BeatUser
  <1>9. CASE BeatAgent
    BY <1>9 DEF BeatAgent
  <1>10. CASE BeatQuiet
    BY <1>10 DEF BeatQuiet
  <1>11. CASE BeatCatchesUp
    BY <1>11 DEF BeatCatchesUp
  <1>12. CASE BeatRefreshes
    BY <1>12 DEF BeatRefreshes
  <1>13. CASE BeatAdvances
    BY <1>13 DEF BeatAdvances, Announced
  <1>14. CASE AppendTransition
    <2>1. <<upd.version, upd.mode>> \in Nat \X Modes
      BY DEF InnerRows
    <2>2. recorded' \subseteq Nat \X Modes
      BY <1>14, <2>1 DEF AppendTransition
    <2> QED BY <1>14, <2>2 DEF AppendTransition
  <1>15. CASE AppendRaises
    BY <1>15 DEF AppendRaises
  <1>16. CASE Write
    BY <1>16 DEF Write
  <1>17. CASE WorkerGet
    BY <1>17 DEF WorkerGet
  <1>18. CASE WorkerPutUser
    BY <1>18 DEF WorkerPutUser
  <1>19. CASE WorkerPutAgent
    <2>1. inner' \in InnerRows
      BY <1>19 DEF WorkerPutAgent
    <2> QED BY <1>19, <2>1 DEF WorkerPutAgent
  <1>20. CASE PrepareContact
    BY <1>20 DEF PrepareContact
  <1>21. CASE DeliverContact
    <2>1. contact' \in BOOLEAN
      BY <1>21 DEF DeliverContact
    <2> QED BY <1>21, <2>1 DEF DeliverContact
  <1>22. CASE HookPut
    BY <1>22 DEF HookPut
  <1>23. CASE CrashTurn
    BY <1>23 DEF CrashTurn
  <1>24. CASE CrashJob
    BY <1>24 DEF CrashJob
  <1>25. CASE InnerAdvance
    BY <1>25 DEF InnerAdvance
  <1>26. CASE UNCHANGED innerVars
    BY <1>26 DEF innerVars
  <1> QED
    BY <1>1, <1>2, <1>3, <1>4, <1>5, <1>6, <1>7, <1>8, <1>9, <1>10, <1>11, <1>12, <1>13, <1>14, <1>15, <1>16, <1>17, <1>18, <1>19, <1>20, <1>21, <1>22, <1>23, <1>24, <1>25, <1>26 DEF InnerNext

\* In one process the facts are kept by every step.
LEMMA InnerFactsStep ==
    ASSUME ~InnerSeparate, InnerTypeOK, InnerFacts, [InnerNext]_innerVars
    PROVE  InnerFacts'
  <1> USE InnerLifeAssumption
  <1> USE DEF InnerTypeOK, InnerFacts, ReadingStands, DeadlineIsRight, UpdateIsInformed, UserIsFirst,
              RowIsInformed, HasRow, HasUser, HasAgent, NoDeadline, ledger, chatting, working
  <1>1. CASE Send
    BY <1>1 DEF Send, InnerRows
  <1>2. CASE ChatGet
    BY <1>2 DEF ChatGet, InnerRows
  <1>3. CASE ChatPut
    BY <1>3 DEF ChatPut, Engaged, InnerRows
  <1>4. CASE Reply
    BY <1>4 DEF Reply, InnerRows
  <1>5. CASE TurnFails
    BY <1>5 DEF TurnFails, InnerRows
  <1>6. CASE ReplyPut
    BY <1>6 DEF ReplyPut, Waiting, InnerRows
  <1>7. CASE Heartbeat
    BY <1>7 DEF Heartbeat, Free, InnerRows
  <1>8. CASE BeatUser
    BY <1>8 DEF BeatUser, InnerRows
  <1>9. CASE BeatAgent
    BY <1>9 DEF BeatAgent, InnerRows
  <1>10. CASE BeatQuiet
    BY <1>10 DEF BeatQuiet, Quiet, NoInnerRow, InnerRows
  <1>11. CASE BeatCatchesUp
    BY <1>11 DEF BeatCatchesUp, Missed, InnerRows
  <1>12. CASE BeatRefreshes
    BY <1>12 DEF BeatRefreshes, Missed, Refreshed, InnerRows
  <1>13. CASE BeatAdvances
    BY <1>13 DEF BeatAdvances, Missed, Advanced, NextModes, InnerRows
  <1>14. CASE AppendTransition
    BY <1>14 DEF AppendTransition, InnerRows
  <1>15. CASE AppendRaises
    BY <1>15 DEF AppendRaises, Drop, InnerRows
  <1>16. CASE Write
    BY <1>16 DEF Write, Drop, InnerRows
  <1>17. CASE WorkerGet
    BY <1>17 DEF WorkerGet, InnerRows
  <1>18. CASE WorkerPutUser
    BY <1>18 DEF WorkerPutUser, Drop, Engaged, InnerRows
  <1>19. CASE WorkerPutAgent
    BY <1>19 DEF WorkerPutAgent, Drop, Waiting, InnerRows
  <1>20. CASE PrepareContact
    BY <1>20 DEF PrepareContact, Free, Gate, InnerRows
  <1>21. CASE DeliverContact
    BY <1>21 DEF DeliverContact, Free, InnerRows
  <1>22. CASE HookPut
    BY <1>22 DEF HookPut, Drop, Waiting, InnerRows
  <1>23. CASE CrashTurn
    BY <1>23 DEF CrashTurn, InnerRows
  <1>24. CASE CrashJob
    BY <1>24 DEF CrashJob, Drop, InnerRows
  <1>25. CASE InnerAdvance
    BY <1>25 DEF InnerAdvance, Aged, InnerRows
  <1>26. CASE UNCHANGED innerVars
    BY <1>26 DEF innerVars
  <1> QED
    BY <1>1, <1>2, <1>3, <1>4, <1>5, <1>6, <1>7, <1>8, <1>9, <1>10, <1>11, <1>12, <1>13, <1>14, <1>15, <1>16, <1>17, <1>18, <1>19, <1>20, <1>21, <1>22, <1>23, <1>24, <1>25, <1>26 DEF InnerNext

LEMMA InnerStarts == InnerInit => InnerInv
  <1> SUFFICES ASSUME InnerInit PROVE InnerTypeOK /\ InnerFacts
    BY DEF InnerInv
  <1> USE InnerLifeAssumption
  <1>1. InnerTypeOK
    <2>1. follows \in BOOLEAN /\ contact \in BOOLEAN
      BY DEF InnerInit
    <2> QED BY <2>1, RowsAreRows DEF InnerInit, InnerTypeOK
  <1>2. InnerFacts
    BY DEF InnerInit, InnerFacts, ReadingStands, DeadlineIsRight, UpdateIsInformed, UserIsFirst,
           RowIsInformed, HasRow, HasUser, HasAgent, NoDeadline, NoInnerRow
  <1> QED BY <1>1, <1>2

LEMMA InnerInvStep == InnerInv /\ [InnerNext]_innerVars => InnerInv'
  BY InnerTypeStep, InnerFactsStep DEF InnerInv

\* What the properties of InnerLife say of a step.
OfflineStep ==
    inner.mode # "offline" /\ inner'.mode = "offline" => inner'.user = users /\ inner'.agent = agents
ContactStep ==
    innerCrashes = 0 /\ ~contact /\ contact'
        => inner.user = users /\ inner.agent = agents /\ answered = users

LEMMA InnerStepIsInformed ==
    ASSUME ~InnerSeparate, InnerInv, InnerNext
    PROVE  OfflineStep /\ ContactStep
  <1> USE DEF InnerInv, InnerFacts, InnerTypeOK, InnerRows
  <1>2. CASE PrepareContact
    BY <1>2 DEF PrepareContact, Free, Gate, DeadlineIsRight, RowIsInformed, NoDeadline, OfflineStep,
                ContactStep
  <1>3. CASE Write
    BY <1>3 DEF Write, UpdateIsInformed, OfflineStep, ContactStep
  <1>4. CASE ChatPut \/ WorkerPutUser
    <2>1. inner'.mode = "engaged" /\ contact' = contact
      BY <1>4 DEF ChatPut, WorkerPutUser, Engaged
    <2> QED BY <2>1 DEF OfflineStep, ContactStep
  <1>5. CASE ReplyPut \/ WorkerPutAgent \/ HookPut
    BY <1>5 DEF ReplyPut, WorkerPutAgent, HookPut, Waiting, OfflineStep, ContactStep
  <1>6. CASE InnerAdvance
    BY <1>6 DEF InnerAdvance, Aged, OfflineStep, ContactStep
  <1>7. CASE \/ Send \/ ChatGet \/ Reply \/ TurnFails \/ Heartbeat \/ BeatUser \/ BeatAgent
             \/ BeatQuiet \/ BeatCatchesUp \/ BeatRefreshes \/ BeatAdvances \/ AppendTransition
             \/ AppendRaises \/ WorkerGet \/ DeliverContact \/ CrashTurn \/ CrashJob
    <2>1. inner' = inner
      BY <1>7 DEF Send, ChatGet, Reply, TurnFails, Heartbeat, BeatUser, BeatAgent, BeatQuiet,
                  BeatCatchesUp, BeatRefreshes, BeatAdvances, AppendTransition, AppendRaises, WorkerGet,
                  DeliverContact, CrashTurn, CrashJob
    <2>2. contact' = contact \/ contact' = FALSE
      BY <1>7 DEF Send, ChatGet, Reply, TurnFails, Heartbeat, BeatUser, BeatAgent, BeatQuiet,
                  BeatCatchesUp, BeatRefreshes, BeatAdvances, AppendTransition, AppendRaises, WorkerGet,
                  DeliverContact, CrashTurn, CrashJob
    <2> QED BY <2>1, <2>2 DEF OfflineStep, ContactStep
  <1> QED
    BY <1>2, <1>3, <1>4, <1>5, <1>6, <1>7 DEF InnerNext

\* The row of the inner loop, and what turn and worker hold of it, stay rows, in
\* one process or in two.
THEOREM InnerTypeCorrect == InnerSpec => []InnerTypeOK
  <1>1. InnerInv => InnerTypeOK
    BY DEF InnerInv
  <1> QED BY InnerStarts, InnerInvStep, <1>1, PTL DEF InnerSpec

\* In one process the life goes offline knowing the latest events, and contacts
\* the user, until a process dies, only after what the user said was answered
\* (heartbeat, _advance_waiting).
THEOREM InnerIsInformed == ~InnerSeparate => (InnerSpec => OfflineIsInformed /\ ContactIsInformed)
  <1> SUFFICES ASSUME ~InnerSeparate PROVE InnerSpec => OfflineIsInformed /\ ContactIsInformed
    OBVIOUS
  <1>1. InnerInv /\ [InnerNext]_innerVars => [OfflineStep]_innerVars /\ [ContactStep]_innerVars
    BY InnerStepIsInformed
  <1>2. InnerSpec => [][OfflineStep]_innerVars /\ [][ContactStep]_innerVars
    BY InnerStarts, InnerInvStep, <1>1, PTL DEF InnerSpec
  <1> QED
    BY <1>2 DEF OfflineIsInformed, ContactIsInformed, OfflineStep, ContactStep

-----------------------------------------------------------------------------
(***************************************************************************)
(* WorldWatch.                                                             *)
(***************************************************************************)
Given == UNION {Keys[s] : s \in Range(Sources)}

Passes ==
    {Away} \cup [phase : {"looking", "appending", "inserting"}, left : Seq(Given),
                saw : SUBSET AllKeys, stored : SUBSET AllKeys]

\* A pass that looks up, appends or inserts has a signal in hand; what it saw is
\* still to come or observed.
PassesAreRight ==
    \A p \in Watchers :
        /\ watch[p].phase \in {"appending", "inserting"} =>
             watch[p].left # <<>> /\ Signal(p) # NoSignal
        /\ watch[p] # Away =>
             watch[p].saw \subseteq Range(watch[p].left) \cup DOMAIN observed

Inserting == {q \in Watchers : watch[q].phase = "inserting"}

\* No two passes insert one key: the event is appended once.
InsertsAreExclusive ==
    /\ \A p, q \in Inserting : Signal(p) = Signal(q) => p = q
    /\ \A p \in Inserting : Signal(p) \notin cutKeys

WorldInv ==
    /\ world \in [Range(Sources) -> Given]
    /\ \A s \in Range(Sources) : world[s] \in Keys[s]
    /\ observed \in [DOMAIN observed -> Watchers] /\ DOMAIN observed \subseteq AllKeys
    /\ noted \subseteq AllKeys
    /\ followed \cup cutKeys \cup cutPasses \subseteq AllKeys
    /\ watch \in [Watchers -> Passes]
    /\ PassesAreRight
    /\ NotedIsObserved
    /\ InsertsAreExclusive
    /\ MaterialIsFollowed

LEMMA HeadAndTail ==
    ASSUME NEW S, NEW q \in Seq(S), q # <<>>
    PROVE  /\ Head(q) \in S /\ Tail(q) \in Seq(S)
           /\ Range(q) \subseteq {Head(q)} \cup Range(Tail(q))
           /\ Range(Tail(q)) \subseteq Range(q) /\ Head(q) \in Range(q)
  <1>1. Len(q) \in Nat \ {0} /\ DOMAIN q = 1 .. Len(q)
    OBVIOUS
  <1>2. Tail(q) \in Seq(S) /\ Len(Tail(q)) = Len(q) - 1 /\ DOMAIN Tail(q) = 1 .. Len(q) - 1
    BY <1>1
  <1>3. Head(q) = q[1] /\ \A i \in 1 .. Len(q) - 1 : Tail(q)[i] = q[i + 1]
    BY <1>1
  <1>4. ASSUME NEW i \in 1 .. Len(q) PROVE q[i] \in {Head(q)} \cup Range(Tail(q))
    <2>1. CASE i = 1
      BY <2>1, <1>3
    <2>2. CASE i # 1
      <3>1. i - 1 \in 1 .. Len(q) - 1 /\ (i - 1) + 1 = i
        BY <2>2, <1>1
      <3> QED BY <3>1, <1>2, <1>3 DEF Range
    <2> QED BY <2>1, <2>2
  <1>5. ASSUME NEW i \in 1 .. Len(q) - 1 PROVE Tail(q)[i] \in Range(q)
    <2>1. i + 1 \in 1 .. Len(q)
      BY <1>1
    <2> QED BY <2>1, <1>1, <1>3 DEF Range
  <1>6. Head(q) \in S /\ Head(q) \in Range(q)
    BY <1>1, <1>3 DEF Range
  <1> QED
    BY <1>1, <1>2, <1>4, <1>5, <1>6 DEF Range

LEMMA PassOrAway ==
    \A pass \in Passes :
        /\ pass.phase \in {"away", "looking", "appending", "inserting"}
        /\ pass.phase = "away" <=> pass = Away
        /\ pass # Away => pass.left \in Seq(Given) /\ pass.saw \subseteq AllKeys
                            /\ pass.stored \subseteq AllKeys
  <1> SUFFICES ASSUME NEW pass \in Passes
               PROVE  /\ pass.phase \in {"away", "looking", "appending", "inserting"}
                      /\ pass.phase = "away" <=> pass = Away
                      /\ pass # Away => pass.left \in Seq(Given) /\ pass.saw \subseteq AllKeys
                                          /\ pass.stored \subseteq AllKeys
    OBVIOUS
  <1>1. CASE pass = Away
    BY <1>1 DEF Away
  <1>2. CASE pass # Away
    <2>1. pass \in [phase : {"looking", "appending", "inserting"}, left : Seq(Given),
                    saw : SUBSET AllKeys, stored : SUBSET AllKeys]
      BY <1>2 DEF Passes
    <2> QED BY <1>2, <2>1
  <1> QED BY <1>1, <1>2

LEMMA SignalIsKey ==
    ASSUME NEW p \in Watchers, watch \in [Watchers -> Passes], watch[p] # Away,
           watch[p].left # <<>>, Signal(p) # NoSignal
    PROVE  Signal(p) \in AllKeys
  <1>1. watch[p].left \in Seq(Given)
    BY PassOrAway
  <1>2. Head(watch[p].left) \in Given
    BY <1>1, HeadAndTail
  <1> QED BY <1>2 DEF Signal, AllKeys, Given

LEMMA WorldStarts == WorldInit => WorldInv
  <1> SUFFICES ASSUME WorldInit PROVE WorldInv
    OBVIOUS
  <1>1. \A s \in Range(Sources) : world[s] \in Keys[s]
    BY WorldAssumption DEF WorldInit
  <1>2. world \in [Range(Sources) -> Given]
    BY <1>1 DEF WorldInit, Given
  <1>3. observed = <<>> /\ DOMAIN observed = {}
    BY DEF WorldInit
  <1>4. watch \in [Watchers -> Passes] /\ \A p \in Watchers : watch[p] = Away
    BY DEF WorldInit, Passes
  <1>5. \A p \in Watchers : watch[p].phase = "away"
    BY <1>4 DEF Away
  <1>6. Inserting = {} /\ {q \in Watchers : watch[q].phase = "inserting"} = {}
    BY <1>5 DEF Inserting
  <1>7. observed \in [DOMAIN observed -> Watchers]
    BY <1>3
  <1> QED
    BY <1>1, <1>2, <1>3, <1>4, <1>5, <1>6, <1>7
       DEF WorldInv, WorldInit, PassesAreRight, NotedIsObserved, InsertsAreExclusive,
           MaterialIsFollowed

\* What a step of the pass of p does to the passes: the others stay as they are.
LEMMA PassMoves ==
    ASSUME WorldInv, NEW p \in Watchers, NEW pass \in Passes, watch' = [watch EXCEPT ![p] = pass]
    PROVE  /\ watch' \in [Watchers -> Passes] /\ watch'[p] = pass
           /\ \A q \in Watchers \ {p} : watch'[q] = watch[q] /\ Signal(q)' = Signal(q)
           /\ Inserting' \ {p} = Inserting \ {p}
  BY DEF WorldInv, Signal, Inserting

LEMMA WorldStep == WorldInv /\ [WorldNext]_worldVars => WorldInv'
  <1> SUFFICES ASSUME WorldInv, [WorldNext]_worldVars PROVE WorldInv'
    OBVIOUS
  <1> USE DEF Signal
  <1>a. \A p \in Watchers : /\ watch[p] \in Passes
                            /\ watch[p].phase = "away" <=> watch[p] = Away
    BY PassOrAway DEF WorldInv
  <1>1. CASE WorldChanges
    <2>1. \A s \in Range(Sources) : world'[s] \in Keys[s]
      BY <1>1 DEF WorldChanges, WorldInv
    <2>2. world' \in [Range(Sources) -> Given]
      BY <1>1, <2>1 DEF WorldChanges, WorldInv, Given
    <2> QED
      BY <1>1, <2>1, <2>2
         DEF WorldChanges, WorldInv, PassesAreRight, NotedIsObserved, InsertsAreExclusive, Inserting,
             MaterialIsFollowed
  <1>2. ASSUME NEW p \in Watchers, BeginPass(p) PROVE WorldInv'
    <2> DEFINE signals == [i \in DOMAIN Sources |-> world[Sources[i]]]
               pass == [phase |-> "looking", left |-> signals, saw |-> Range(signals) \ {NoSignal},
                        stored |-> {}]
    <2>1. signals \in Seq(Given)
      <3>1. \A i \in 1 .. Len(Sources) : Sources[i] \in Range(Sources)
        BY WorldAssumption DEF Range
      <3>2. \A i \in 1 .. Len(Sources) : world[Sources[i]] \in Given
        BY <3>1 DEF WorldInv
      <3> QED BY <3>2, WorldAssumption
    <2>2. Range(signals) \ {NoSignal} \subseteq AllKeys
      BY <2>1 DEF Range, AllKeys, Given
    <2> HIDE DEF signals
    <2>3. pass \in Passes /\ watch' = [watch EXCEPT ![p] = pass]
      BY <1>2, <2>1, <2>2 DEF Passes, BeginPass, signals
    <2>4. pass.phase = "looking" /\ pass.left = signals /\ pass.saw \subseteq Range(signals)
          /\ pass.stored = {} /\ pass # Away
      BY DEF Away
    <2> HIDE DEF pass
    <2>5. UNCHANGED <<world, noted, observed, followed, cutKeys, cutPasses>> /\ watch[p] = Away
      BY <1>2 DEF BeginPass
    <2>6. p \notin Inserting /\ p \notin Inserting'
      BY <2>3, <2>4, <2>5, PassMoves, <1>a DEF Inserting
    <2> QED
      BY <2>3, <2>4, <2>5, <2>6, PassMoves
         DEF WorldInv, PassesAreRight, NotedIsObserved, InsertsAreExclusive, Inserting, MaterialIsFollowed
  <1>3. ASSUME NEW p \in Watchers, Look(p) PROVE WorldInv'
    <2>1. watch[p].phase = "looking" /\ watch[p] # Away /\ watch[p].left # <<>>
      BY <1>3, <1>a DEF Look, Away
    <2>2. UNCHANGED <<world, noted, observed, followed, cutKeys, cutPasses>>
      BY <1>3 DEF Look
    <2>3. watch[p].left \in Seq(Given) /\ watch[p].saw \subseteq AllKeys
          /\ watch[p].saw \subseteq Range(watch[p].left) \cup DOMAIN observed
      BY <2>1, PassOrAway DEF WorldInv, PassesAreRight
    <2>4. CASE Signal(p) \in DOMAIN observed \cup {NoSignal}
      <3> DEFINE pass == [watch[p] EXCEPT !.left = Tail(@)]
      <3>1. Tail(watch[p].left) \in Seq(Given)
        BY <2>1, <2>3, HeadAndTail
      <3>2. watch[p] \in [phase : {"looking", "appending", "inserting"}, left : Seq(Given),
                          saw : SUBSET AllKeys, stored : SUBSET AllKeys]
        BY <2>1, <1>a DEF Passes
      <3>3. pass \in Passes /\ pass.phase = "looking" /\ pass.saw = watch[p].saw
            /\ pass.stored = watch[p].stored /\ pass.left = Tail(watch[p].left)
        BY <2>1, <3>1, <3>2 DEF Passes
      <3>4. watch' = [watch EXCEPT ![p] = pass]
        BY <1>3, <2>4 DEF Look
      <3> HIDE DEF pass
      <3>5. pass # Away
        BY <3>3 DEF Away
      <3>6. watch[p].saw \subseteq Range(Tail(watch[p].left)) \cup DOMAIN observed
        BY <2>1, <2>3, <2>4, HeadAndTail DEF AllKeys
      <3>7. p \notin Inserting /\ p \notin Inserting'
        BY <2>1, <3>3, <3>4, PassMoves DEF Inserting
      <3> QED
        BY <2>1, <2>2, <3>3, <3>4, <3>5, <3>6, <3>7, PassMoves
           DEF WorldInv, PassesAreRight, NotedIsObserved, InsertsAreExclusive, Inserting,
               MaterialIsFollowed
    <2>5. CASE Signal(p) \notin DOMAIN observed \cup {NoSignal}
      <3> DEFINE pass == [watch[p] EXCEPT !.phase = "appending"]
      <3>2. watch[p] \in [phase : {"looking", "appending", "inserting"}, left : Seq(Given),
                          saw : SUBSET AllKeys, stored : SUBSET AllKeys]
        BY <2>1, <1>a DEF Passes
      <3>3. pass \in Passes /\ pass.phase = "appending" /\ pass.saw = watch[p].saw
            /\ pass.stored = watch[p].stored /\ pass.left = watch[p].left
        BY <2>1, <3>2 DEF Passes
      <3>4. watch' = [watch EXCEPT ![p] = pass]
        BY <1>3, <2>5 DEF Look
      <3> HIDE DEF pass
      <3>5. pass # Away
        BY <3>3 DEF Away
      <3>6. Signal(p)' = Signal(p)
        BY <3>3, <3>4, PassMoves
      <3>7. p \notin Inserting /\ p \notin Inserting'
        BY <2>1, <3>3, <3>4, PassMoves DEF Inserting
      <3> QED
        BY <2>1, <2>2, <2>3, <2>5, <3>3, <3>4, <3>5, <3>6, <3>7, PassMoves
           DEF WorldInv, PassesAreRight, NotedIsObserved, InsertsAreExclusive, Inserting,
               MaterialIsFollowed
    <2> QED BY <2>4, <2>5
  <1>4. ASSUME NEW p \in Watchers, AppendEvent(p) PROVE WorldInv'
    <2> DEFINE pass == [watch[p] EXCEPT !.phase = "inserting"]
    <2>1. watch[p].phase = "appending" /\ watch[p] # Away /\ watch[p].left # <<>>
          /\ Signal(p) # NoSignal /\ Signal(p) \notin noted
      BY <1>4, <1>a DEF AppendEvent, Away, WorldInv, PassesAreRight
    <2>2. UNCHANGED <<world, observed, followed, cutKeys, cutPasses>> /\ noted' = noted \cup {Signal(p)}
      BY <1>4 DEF AppendEvent
    <2>3. watch[p] \in [phase : {"looking", "appending", "inserting"}, left : Seq(Given),
                        saw : SUBSET AllKeys, stored : SUBSET AllKeys]
      BY <2>1, <1>a DEF Passes
    <2>4. pass \in Passes /\ pass.phase = "inserting" /\ pass.saw = watch[p].saw
          /\ pass.stored = watch[p].stored /\ pass.left = watch[p].left
      BY <2>1, <2>3 DEF Passes
    <2>5. watch' = [watch EXCEPT ![p] = pass]
      BY <1>4 DEF AppendEvent
    <2> HIDE DEF pass
    <2>6. pass # Away /\ Signal(p)' = Signal(p)
      BY <2>4, <2>5, PassMoves DEF Away
    <2>7. Inserting' = Inserting \cup {p} /\ p \notin Inserting
      BY <2>1, <2>4, <2>5, PassMoves DEF Inserting
    <2>8. Signal(p) \in AllKeys
      BY <2>1, SignalIsKey DEF WorldInv
    <2>9. \A q \in Inserting : Signal(q) \in noted
      BY DEF WorldInv, NotedIsObserved, Inserting
    <2>10. PassesAreRight'
      BY <2>1, <2>2, <2>4, <2>5, <2>6, PassMoves DEF WorldInv, PassesAreRight
    <2>11. InsertsAreExclusive'
      <3>1. cutKeys \subseteq noted
        BY DEF WorldInv, NotedIsObserved
      <3>2. \A q \in Inserting : Signal(q)' = Signal(q)
        BY <2>5, <2>4, <2>7, PassMoves DEF Inserting
      <3> QED BY <2>1, <2>2, <2>6, <2>7, <2>9, <3>1, <3>2 DEF WorldInv, InsertsAreExclusive
    <2>12. NotedIsObserved'
      <3>1. {Signal(q) : q \in Inserting}' = {Signal(q) : q \in Inserting} \cup {Signal(p)}
        BY <2>4, <2>5, <2>6, <2>7, PassMoves DEF Inserting
      <3> QED BY <2>1, <2>2, <3>1 DEF WorldInv, NotedIsObserved, Inserting
    <2>13. MaterialIsFollowed'
      BY <2>1, <2>2, <2>4, <2>5, <2>6, PassMoves DEF WorldInv, MaterialIsFollowed
    <2> QED
      BY <2>2, <2>4, <2>5, <2>8, <2>10, <2>11, <2>12, <2>13, PassMoves DEF WorldInv
  <1>5. ASSUME NEW p \in Watchers, Insert(p) PROVE WorldInv'
    <2> DEFINE k == Signal(p)
               pass == [watch[p] EXCEPT !.phase = "looking", !.left = Tail(@),
                                        !.stored = @ \cup ({k} \cap Material)]
    <2>1. watch[p].phase = "inserting" /\ watch[p] # Away /\ watch[p].left # <<>> /\ k # NoSignal
          /\ p \in Inserting
      BY <1>5, <1>a DEF Insert, Away, WorldInv, PassesAreRight, Inserting
    <2>2. UNCHANGED <<world, noted, followed, cutKeys, cutPasses>>
          /\ DOMAIN observed' = DOMAIN observed \cup {k}
          /\ \A x \in DOMAIN observed' : observed'[x] = IF x = k THEN p ELSE observed[x]
      BY <1>5 DEF Insert, Observe
    <2>3. watch[p] \in [phase : {"looking", "appending", "inserting"}, left : Seq(Given),
                        saw : SUBSET AllKeys, stored : SUBSET AllKeys]
      BY <2>1, <1>a DEF Passes
    <2>4. k \in AllKeys /\ watch[p].left \in Seq(Given) /\ Tail(watch[p].left) \in Seq(Given)
      BY <2>1, <2>3, SignalIsKey, HeadAndTail DEF WorldInv
    <2>5. {k} \cap Material \subseteq AllKeys
      BY <2>4
    <2>6. pass \in Passes /\ pass.phase = "looking" /\ pass.saw = watch[p].saw
          /\ pass.stored = watch[p].stored \cup ({k} \cap Material) /\ pass.left = Tail(watch[p].left)
      <3> DEFINE stored == watch[p].stored \cup ({k} \cap Material)
                 rest1 == Tail(watch[p].left)
      <3>1. stored \in SUBSET AllKeys /\ rest1 \in Seq(Given)
        BY <2>3, <2>4, <2>5
      <3>2. pass = [watch[p] EXCEPT !.phase = "looking", !.left = rest1, !.stored = stored]
        OBVIOUS
      <3> HIDE DEF stored, rest1
      <3>3. pass \in [phase : {"looking", "appending", "inserting"}, left : Seq(Given),
                      saw : SUBSET AllKeys, stored : SUBSET AllKeys]
        BY <2>3, <3>1, <3>2
      <3>4. pass.phase = "looking" /\ pass.saw = watch[p].saw /\ pass.stored = stored /\ pass.left = rest1
        BY <2>3, <3>2
      <3> HIDE DEF k, pass
      <3> QED BY <3>3, <3>4 DEF Passes, stored, rest1
    <2>7. watch' = [watch EXCEPT ![p] = pass]
      BY <1>5 DEF Insert
    <2>8. observed' \in [DOMAIN observed' -> Watchers]
      <3>1. observed' = [x \in DOMAIN observed \cup {k} |-> IF x = k THEN p ELSE observed[x]]
        BY <1>5 DEF Insert, Observe
      <3>2. \A x \in DOMAIN observed : observed[x] \in Watchers
        BY DEF WorldInv
      <3> HIDE DEF k
      <3> QED BY <3>1, <3>2
    <2>9. k \in noted /\ k \notin DOMAIN observed /\ k \notin cutKeys
          /\ \A q \in Inserting \ {p} : Signal(q) # k
      BY <2>1 DEF WorldInv, NotedIsObserved, InsertsAreExclusive, Inserting
    <2>10. Range(watch[p].left) \subseteq {k} \cup Range(Tail(watch[p].left))
      BY <2>1, <2>4, HeadAndTail
    <2> HIDE DEF pass, k
    <2>11. pass # Away
      BY <2>6 DEF Away
    <2>12. Inserting' = Inserting \ {p}
      BY <2>6, <2>7, PassMoves DEF Inserting
    <2>13. PassesAreRight'
      <3>1. watch[p].saw \subseteq Range(watch[p].left) \cup DOMAIN observed
        BY <2>1 DEF WorldInv, PassesAreRight
      <3> QED
        BY <3>1, <2>2, <2>6, <2>7, <2>10, <2>11, PassMoves DEF WorldInv, PassesAreRight
    <2>14. InsertsAreExclusive'
      <3>1. \A q \in Inserting' : Signal(q)' = Signal(q)
        BY <2>6, <2>7, <2>12, PassMoves DEF Inserting
      <3> QED BY <2>2, <2>12, <3>1 DEF WorldInv, InsertsAreExclusive
    <2>15. NotedIsObserved'
      <3>1. {Signal(q) : q \in Inserting}' = {Signal(q) : q \in Inserting} \ {k}
        <4>1. \A q \in Inserting' : Signal(q)' = Signal(q) /\ Signal(q) # k
          BY <2>6, <2>7, <2>9, <2>12, PassMoves DEF Inserting
        <4> QED BY <4>1, <2>1, <2>12 DEF k
      <3> QED BY <2>2, <2>9, <3>1 DEF WorldInv, NotedIsObserved, Inserting
    <2>16. MaterialIsFollowed'
      <3>1. \A q \in Watchers : watch[q] # Away =>
              watch'[q] # Away /\ watch[q].stored \subseteq watch'[q].stored
        BY <2>1, <2>6, <2>7, <2>11, PassMoves
      <3>2. k \in Material => k \in watch'[p].stored /\ watch'[p] # Away
        BY <2>6, <2>7, <2>11, PassMoves
      <3> QED BY <3>1, <3>2, <2>2 DEF WorldInv, MaterialIsFollowed
    <2> QED
      BY <2>2, <2>4, <2>6, <2>7, <2>8, <2>13, <2>14, <2>15, <2>16, PassMoves DEF WorldInv
  <1>6. ASSUME NEW p \in Watchers, watch[p] # Away, watch' = [watch EXCEPT ![p] = Away],
               UNCHANGED <<world, noted, observed>>,
               followed \subseteq followed' /\ cutPasses \subseteq cutPasses',
               watch[p].stored \subseteq followed' \cup cutPasses',
               followed' \cup cutPasses' \subseteq AllKeys,
               cutKeys' = IF watch[p].phase = "inserting" THEN cutKeys \cup {Signal(p)} ELSE cutKeys
        PROVE  WorldInv'
    <2>1. watch' \in [Watchers -> Passes] /\ watch'[p] = Away
          /\ \A q \in Watchers \ {p} : watch'[q] = watch[q] /\ Signal(q)' = Signal(q)
          /\ Inserting' \ {p} = Inserting \ {p}
      BY <1>6, PassMoves DEF Passes
    <2>2. Inserting' = Inserting \ {p}
      BY <2>1, <1>6 DEF Inserting, Away
    <2>3. watch[p].phase = "inserting" => Signal(p) \in AllKeys
      BY <1>6, SignalIsKey DEF WorldInv, PassesAreRight
    <2>4. PassesAreRight'
      BY <1>6, <2>1 DEF WorldInv, PassesAreRight, Away
    <2>5. \A q \in Inserting' : Signal(q)' = Signal(q) /\ q # p /\ q \in Inserting
      BY <2>1, <2>2 DEF Inserting
    <2>6. InsertsAreExclusive'
      BY <1>6, <2>2, <2>5 DEF WorldInv, InsertsAreExclusive, Inserting
    <2>7. NotedIsObserved'
      <3>1. cutKeys' \cup {Signal(q) : q \in Inserting}' = cutKeys \cup {Signal(q) : q \in Inserting}
        BY <1>6, <2>2, <2>5 DEF Inserting
      <3> QED BY <1>6, <3>1 DEF WorldInv, NotedIsObserved, Inserting
    <2>8. MaterialIsFollowed'
      BY <1>6, <2>1 DEF WorldInv, MaterialIsFollowed
    <2> QED
      BY <1>6, <2>1, <2>3, <2>4, <2>6, <2>7, <2>8 DEF WorldInv
  <1>7. ASSUME NEW p \in Watchers, PassFails(p) \/ EndPass(p) \/ WatcherStops(p) PROVE WorldInv'
    <2>1. watch[p] # Away
      BY <1>7 DEF PassFails, EndPass, WatcherStops, Away
    <2>2. watch[p].stored \subseteq AllKeys
      BY <2>1, PassOrAway DEF WorldInv
    <2>3. /\ watch' = [watch EXCEPT ![p] = Away]
          /\ UNCHANGED <<world, noted, observed>>
          /\ followed \subseteq followed' /\ cutPasses \subseteq cutPasses'
          /\ watch[p].stored \subseteq followed' \cup cutPasses'
          /\ followed' \cup cutPasses' \subseteq followed \cup cutPasses \cup watch[p].stored
          /\ cutKeys' = IF watch[p].phase = "inserting" THEN cutKeys \cup {Signal(p)} ELSE cutKeys
      BY <1>7 DEF PassFails, EndPass, WatcherStops
    <2>4. followed' \cup cutPasses' \subseteq AllKeys
      BY <2>2, <2>3 DEF WorldInv
    <2> QED BY <2>1, <2>3, <2>4, <1>6
  <1>8. CASE UNCHANGED worldVars
    BY <1>8
       DEF worldVars, WorldInv, PassesAreRight, NotedIsObserved, InsertsAreExclusive, Inserting,
           MaterialIsFollowed
  <1> QED
    BY <1>1, <1>2, <1>3, <1>4, <1>5, <1>7, <1>8 DEF WorldNext

\* What WorldIsTold says of a step.
PassesTell ==
    \A p \in Watchers :
        /\ EndPass(p) => watch[p].saw \subseteq DOMAIN observed
        /\ PassFails(p) => \/ Signal(p) \in cutKeys \cup DOMAIN observed
                           \/ \E q \in Watchers \ {p} :
                                watch[q].phase = "inserting" /\ Signal(q) = Signal(p)

LEMMA WorldStepIsTold == WorldInv => PassesTell
  <1> SUFFICES ASSUME WorldInv, NEW p \in Watchers
               PROVE  /\ EndPass(p) => watch[p].saw \subseteq DOMAIN observed
                      /\ PassFails(p) =>
                           \/ Signal(p) \in cutKeys \cup DOMAIN observed
                           \/ \E q \in Watchers \ {p} :
                                watch[q].phase = "inserting" /\ Signal(q) = Signal(p)
    BY DEF PassesTell
  <1>1. EndPass(p) => watch[p].saw \subseteq DOMAIN observed
    <2>1. Range(<<>>) = {}
      BY DEF Range
    <2> QED BY <2>1 DEF EndPass, Away, WorldInv, PassesAreRight
  <1>2. ASSUME PassFails(p)
        PROVE  \/ Signal(p) \in cutKeys \cup DOMAIN observed
               \/ \E q \in Watchers \ {p} : watch[q].phase = "inserting" /\ Signal(q) = Signal(p)
    <2>1. Signal(p) \in noted /\ watch[p].phase = "appending"
      BY <1>2 DEF PassFails
    <2>2. Signal(p) \in DOMAIN observed \cup cutKeys
          \/ \E q \in Watchers : watch[q].phase = "inserting" /\ Signal(p) = Signal(q)
      BY <2>1 DEF WorldInv, NotedIsObserved
    <2> QED BY <2>1, <2>2
  <1> QED BY <1>1, <1>2

\* A key that was appended is observed, is about to be, or was cut off, and a
\* material one is followed up unless its pass was cut; a pass that ends has
\* observed all it saw, and one that fails met another pass (observe).
THEOREM WorldIsWatched ==
    WorldSpec => [](WorldTypeOK /\ NotedIsObserved /\ MaterialIsFollowed) /\ WorldIsTold
  <1>1. WorldInv => WorldTypeOK
    <2>1. ASSUME WorldInv PROVE Range(observed) \subseteq Watchers
      BY <2>1 DEF WorldInv, Range
    <2>2. ASSUME WorldInv, NEW p \in Watchers
          PROVE  watch[p].phase \in {"away", "looking", "appending", "inserting"}
      BY <2>2, PassOrAway DEF WorldInv
    <2> QED BY <2>1, <2>2 DEF WorldInv, WorldTypeOK
  <1>2. WorldInv => NotedIsObserved /\ MaterialIsFollowed
    BY DEF WorldInv
  <1>3. WorldInv /\ [WorldNext]_worldVars => [PassesTell]_worldVars
    BY WorldStepIsTold
  <1>4. WorldSpec => [](WorldTypeOK /\ NotedIsObserved /\ MaterialIsFollowed)
                      /\ [][PassesTell]_worldVars
    BY WorldStarts, WorldStep, <1>1, <1>2, <1>3, PTL DEF WorldSpec
  <1> QED BY <1>4 DEF WorldIsTold, PassesTell

-----------------------------------------------------------------------------
(***************************************************************************)
(* RestingState.                                                           *)
(***************************************************************************)
Feelings == Range(EmotionTypes)

Episodes ==
    [type : Feelings, status : {"active", "expired", "resolved"}, faint : BOOLEAN, step : Nat,
     since : Nat, by : Resters]

Expiring == [phase : {"expiring"}, since : Nat, faint : SUBSET Nat]
Appending == [phase : {"appending"}, since : Nat]
Recording == [phase : {"recording"}, step : Nat, since : Nat]
Deriving == [phase : {"deriving"}, step : Nat, since : Nat, todo : Seq(Feelings),
             existing : SUBSET Feelings]
Places == {Resting} \cup Expiring \cup Appending \cup Recording \cup Deriving

\* A step has its event; when emotions are derived it has all its activations.
StepsAreRight ==
    \A p \in Resters :
        /\ rest[p].phase \in {"recording", "deriving"} => rest[p].step \in DOMAIN activations
        /\ rest[p].phase = "deriving" => activations[rest[p].step] = Radius

EmotionsHaveSteps ==
    \A i \in DOMAIN episodes :
        episodes[i].step \in DOMAIN activations /\ activations[episodes[i].step] = Radius

\* No turn of the user comes into a step of the host.
HostIsUpToDate == rest[Host] # Resting => rest[Host].since = userTurns

\* What a process has derived in an earlier step, or in this one, it does not
\* derive once more.
ExistingIsKnown ==
    \A p \in Resters :
        rest[p].phase = "deriving" =>
            /\ IsInjective(rest[p].todo)
            /\ \A i \in Felt :
                 episodes[i].by = p /\ episodes[i].type \in Range(rest[p].todo)
                     => episodes[i].type \in rest[p].existing

RestInv ==
    /\ episodes \in Seq(Episodes)
    /\ activations \in Seq(0 .. Radius) /\ Len(activations) <= MaxSteps
    /\ rest \in [Resters -> Places]
    /\ userTurns \in 0 .. MaxUserTurns
    /\ StepsAreRight
    /\ EmotionsHaveSteps
    /\ HostIsUpToDate
    /\ ExistingIsKnown
    /\ EmotionsAreOfNow
    /\ EmotionTwinsAreForeign

LEMMA TailIsInjective ==
    ASSUME NEW S, NEW q \in Seq(S), q # <<>>, IsInjective(q)
    PROVE  IsInjective(Tail(q)) /\ Head(q) \notin Range(Tail(q))
  <1>1. Len(q) \in Nat \ {0} /\ DOMAIN q = 1 .. Len(q)
    OBVIOUS
  <1>2. Tail(q) \in Seq(S) /\ DOMAIN Tail(q) = 1 .. Len(q) - 1
    BY <1>1
  <1>3. Head(q) = q[1] /\ \A i \in 1 .. Len(q) - 1 : Tail(q)[i] = q[i + 1]
    BY <1>1
  <1>4. ASSUME NEW i \in 1 .. Len(q) - 1, NEW j \in 1 .. Len(q) - 1, Tail(q)[i] = Tail(q)[j]
        PROVE i = j
    <2>1. i + 1 \in DOMAIN q /\ j + 1 \in DOMAIN q /\ q[i + 1] = q[j + 1]
      BY <1>1, <1>3, <1>4
    <2>2. i + 1 = j + 1
      BY <2>1 DEF IsInjective
    <2> QED BY <2>2
  <1>5. ASSUME NEW i \in 1 .. Len(q) - 1 PROVE Tail(q)[i] # Head(q)
    <2>1. i + 1 \in DOMAIN q /\ 1 \in DOMAIN q /\ i + 1 # 1
      BY <1>1
    <2> QED BY <2>1, <1>3 DEF IsInjective
  <1>6. IsInjective(Tail(q))
    BY <1>2, <1>4 DEF IsInjective
  <1>7. Head(q) \notin Range(Tail(q))
    BY <1>2, <1>5 DEF Range
  <1> QED BY <1>6, <1>7

LEMMA PlacesOfSteps ==
    \A place \in Places :
        /\ place.phase \in {"none", "expiring", "appending", "recording", "deriving"}
        /\ place.phase = "none" <=> place = Resting
        /\ place.phase = "expiring" => place \in Expiring
        /\ place.phase = "appending" => place \in Appending
        /\ place.phase = "recording" => place \in Recording
        /\ place.phase = "deriving" => place \in Deriving
        /\ place # Resting => place.since \in Nat
  <1> SUFFICES ASSUME NEW place \in Places
               PROVE
                 /\ place.phase \in {"none", "expiring", "appending", "recording", "deriving"}
                 /\ place.phase = "none" <=> place = Resting
                 /\ place.phase = "expiring" => place \in Expiring
                 /\ place.phase = "appending" => place \in Appending
                 /\ place.phase = "recording" => place \in Recording
                 /\ place.phase = "deriving" => place \in Deriving
                 /\ place # Resting => place.since \in Nat
    OBVIOUS
  <1>1. CASE place = Resting
    BY <1>1 DEF Resting
  <1>2. CASE place \in Expiring
    BY <1>2 DEF Resting, Expiring
  <1>3. CASE place \in Appending
    BY <1>3 DEF Resting, Appending
  <1>4. CASE place \in Recording
    BY <1>4 DEF Resting, Recording
  <1>5. CASE place \in Deriving
    BY <1>5 DEF Resting, Deriving
  <1> QED BY <1>1, <1>2, <1>3, <1>4, <1>5 DEF Places

\* What a step of p does to the places: the others stay where they are.
LEMMA RestMoves ==
    ASSUME rest \in [Resters -> Places], NEW p \in Resters, NEW place \in Places,
           rest' = [rest EXCEPT ![p] = place]
    PROVE  /\ rest' \in [Resters -> Places] /\ rest'[p] = place
           /\ \A q \in Resters \ {p} : rest'[q] = rest[q]
  OBVIOUS

LEMMA RestStarts == RestInit => RestInv
  <1> SUFFICES ASSUME RestInit PROVE RestInv
    OBVIOUS
  <1>1. episodes = <<>> /\ activations = <<>> /\ DOMAIN episodes = {} /\ userTurns = 0
    BY DEF RestInit
  <1>2. rest \in [Resters -> Places] /\ \A p \in Resters : rest[p] = Resting
    BY DEF RestInit, Places
  <1>3. \A p \in Resters : rest[p].phase = "none"
    BY <1>2 DEF Resting
  <1>4. Felt = {}
    BY <1>1 DEF Felt
  <1>5. episodes \in Seq(Episodes) /\ activations \in Seq(0 .. Radius) /\ Len(activations) <= MaxSteps
        /\ userTurns \in 0 .. MaxUserTurns
    BY <1>1, RestingAssumption
  <1> QED
    BY <1>1, <1>2, <1>3, <1>4, <1>5, RestingAssumption
       DEF RestInv, StepsAreRight, EmotionsHaveSteps, HostIsUpToDate, ExistingIsKnown,
           EmotionsAreOfNow, EmotionTwinsAreForeign

\* What every step but InsertEpisode does to the episodes: at most their status
\* ends, and they become faint.
EpisodesAge ==
    /\ DOMAIN episodes' = DOMAIN episodes
    /\ \A i \in DOMAIN episodes :
         /\ episodes'[i].type = episodes[i].type /\ episodes'[i].step = episodes[i].step
         /\ episodes'[i].since = episodes[i].since /\ episodes'[i].by = episodes[i].by
         /\ episodes[i].status # "active" => episodes'[i].status = episodes[i].status

LEMMA EpisodesOnlyAge ==
    ASSUME RestInv, RestNext, \A p \in Resters : ~InsertEpisode(p)
    PROVE  EpisodesAge /\ episodes' \in Seq(Episodes)
  <1>1. episodes \in Seq(Episodes) /\ DOMAIN episodes = 1 .. Len(episodes) /\ Len(episodes) \in Nat
    BY DEF RestInv
  <1>2. \A i \in DOMAIN episodes : episodes[i] \in Episodes
    BY <1>1
  <1>3. ASSUME NEW status \in {"expired", "resolved"}, NEW those \in SUBSET Felt,
               episodes' = [i \in DOMAIN episodes |->
                              IF i \in those THEN [episodes[i] EXCEPT !.status = status]
                              ELSE episodes[i]]
        PROVE EpisodesAge /\ episodes' \in Seq(Episodes)
    <2>1. DOMAIN episodes' = 1 .. Len(episodes)
      BY <1>1, <1>3
    <2>2. ASSUME NEW i \in DOMAIN episodes
          PROVE  /\ episodes'[i] \in Episodes
                 /\ episodes'[i].type = episodes[i].type /\ episodes'[i].step = episodes[i].step
                 /\ episodes'[i].since = episodes[i].since /\ episodes'[i].by = episodes[i].by
                 /\ episodes[i].status # "active" => episodes'[i].status = episodes[i].status
      <3>1. CASE i \in those
        BY <3>1, <1>2, <1>3 DEF Episodes, Felt
      <3>2. CASE i \notin those
        BY <3>2, <1>2, <1>3
      <3> QED BY <3>1, <3>2
    <2>3. episodes' \in Seq(Episodes)
      BY <1>1, <1>3, <2>1, <2>2
    <2> QED BY <1>1, <2>1, <2>2, <2>3 DEF EpisodesAge
  <1>4. ASSUME NEW p \in Resters, ExpireDecayed(p) PROVE EpisodesAge /\ episodes' \in Seq(Episodes)
    <2>1. rest[p].faint \cap Felt \in SUBSET Felt
      OBVIOUS
    <2> QED BY <1>3, <1>4, <2>1 DEF ExpireDecayed
  <1>5. CASE UserTurn
    BY <1>3, <1>5 DEF UserTurn
  <1>6. ASSUME NEW i \in DOMAIN episodes, Fade(i) PROVE EpisodesAge /\ episodes' \in Seq(Episodes)
    <2>1. episodes[i] \in Episodes
      BY <1>2
    <2>2. [episodes[i] EXCEPT !.faint = TRUE] \in Episodes
      BY <2>1 DEF Episodes
    <2> QED BY <1>1, <1>2, <1>6, <2>1, <2>2 DEF Fade, EpisodesAge, Episodes
  <1>7. ASSUME UNCHANGED episodes PROVE EpisodesAge /\ episodes' \in Seq(Episodes)
    BY <1>1, <1>7 DEF EpisodesAge
  <1> QED
    BY <1>4, <1>5, <1>6, <1>7
       DEF RestNext, BeginStep, AppendRestingEvent, RecordActivation, DeriveEmotions, PassOver,
           EndStep, ResterStops

RestTypes ==
    /\ episodes \in Seq(Episodes)
    /\ activations \in Seq(0 .. Radius) /\ Len(activations) <= MaxSteps
    /\ rest \in [Resters -> Places]
    /\ userTurns \in 0 .. MaxUserTurns

\* Where each action takes the process of the step.
LEMMA RestPlaces ==
    ASSUME RestInv, NEW p \in Resters
    PROVE  /\ BeginStep(p) =>
                \E place \in Expiring : place.since = userTurns /\ rest' = [rest EXCEPT ![p] = place]
           /\ ExpireDecayed(p) =>
                \/ rest' = [rest EXCEPT ![p] = Resting]
                \/ \E place \in Appending :
                     place.since = rest[p].since /\ rest' = [rest EXCEPT ![p] = place]
           /\ AppendRestingEvent(p) =>
                \E place \in Recording :
                     /\ place.since = rest[p].since /\ place.step = Len(activations) + 1
                     /\ rest' = [rest EXCEPT ![p] = place]
           /\ DeriveEmotions(p) =>
                \E place \in Deriving :
                     /\ place.since = rest[p].since /\ place.step = rest[p].step
                     /\ place.todo = EmotionTypes
                     /\ place.existing = {episodes[i].type : i \in Felt}
                     /\ rest' = [rest EXCEPT ![p] = place]
           /\ PassOver(p) \/ InsertEpisode(p) =>
                \E place \in Deriving :
                     /\ place.since = rest[p].since /\ place.step = rest[p].step
                     /\ place.todo = Tail(rest[p].todo) /\ place.existing = rest[p].existing
                     /\ rest' = [rest EXCEPT ![p] = place]
           /\ EndStep(p) \/ ResterStops(p) => rest' = [rest EXCEPT ![p] = Resting]
  <1> rest[p] \in Places /\ rest \in [Resters -> Places]
    BY DEF RestInv
  <1>1. episodes \in Seq(Episodes) /\ Felt \subseteq Nat /\ userTurns \in Nat
        /\ \A i \in Felt : episodes[i].type \in Feelings
    <2>1. episodes \in Seq(Episodes) /\ userTurns \in Nat
      BY DEF RestInv
    <2>2. DOMAIN episodes \subseteq Nat /\ \A i \in DOMAIN episodes : episodes[i] \in Episodes
      BY <2>1
    <2> QED BY <2>1, <2>2 DEF Felt, Episodes
  <1>2. ASSUME BeginStep(p)
        PROVE \E place \in Expiring : place.since = userTurns /\ rest' = [rest EXCEPT ![p] = place]
    <2> DEFINE place == [phase |-> "expiring", since |-> userTurns,
                         faint |-> {i \in Felt : episodes[i].faint}]
    <2>1. place \in Expiring /\ place.since = userTurns
      BY <1>1 DEF Expiring
    <2>2. rest' = [rest EXCEPT ![p] = place]
      BY <1>2 DEF BeginStep
    <2> QED BY <2>1, <2>2
  <1>3. ASSUME ExpireDecayed(p)
        PROVE \/ rest' = [rest EXCEPT ![p] = Resting]
              \/ \E place \in Appending :
                   place.since = rest[p].since /\ rest' = [rest EXCEPT ![p] = place]
    <2> DEFINE place == [phase |-> "appending", since |-> rest[p].since]
    <2>1. rest[p].since \in Nat
      BY <1>3, PlacesOfSteps DEF ExpireDecayed, Resting
    <2>2. place \in Appending /\ place.since = rest[p].since
      BY <2>1 DEF Appending
    <2>3. rest' = [rest EXCEPT ![p] = Resting] \/ rest' = [rest EXCEPT ![p] = place]
      BY <1>3 DEF ExpireDecayed
    <2> QED BY <2>2, <2>3
  <1>4. ASSUME AppendRestingEvent(p)
        PROVE \E place \in Recording :
                 /\ place.since = rest[p].since /\ place.step = Len(activations) + 1
                 /\ rest' = [rest EXCEPT ![p] = place]
    <2> DEFINE place == [phase |-> "recording", step |-> Len(activations) + 1,
                         since |-> rest[p].since]
    <2>1. rest[p].since \in Nat
      BY <1>4, PlacesOfSteps DEF AppendRestingEvent, Resting
    <2>2. Len(activations) + 1 \in Nat
      BY DEF RestInv
    <2>3. place \in Recording /\ place.since = rest[p].since /\ place.step = Len(activations) + 1
      BY <2>1, <2>2 DEF Recording
    <2>4. rest' = [rest EXCEPT ![p] = place]
      BY <1>4 DEF AppendRestingEvent
    <2> QED BY <2>3, <2>4
  <1>5. ASSUME DeriveEmotions(p)
        PROVE \E place \in Deriving :
                 /\ place.since = rest[p].since /\ place.step = rest[p].step
                 /\ place.todo = EmotionTypes
                 /\ place.existing = {episodes[i].type : i \in Felt}
                 /\ rest' = [rest EXCEPT ![p] = place]
    <2> DEFINE place == [phase |-> "deriving", step |-> rest[p].step, since |-> rest[p].since,
                         todo |-> EmotionTypes, existing |-> {episodes[i].type : i \in Felt}]
    <2>1. rest[p] \in Recording
      BY <1>5, PlacesOfSteps DEF DeriveEmotions
    <2>2. rest[p].since \in Nat /\ rest[p].step \in Nat
      BY <2>1 DEF Recording
    <2>3. {episodes[i].type : i \in Felt} \in SUBSET Feelings /\ EmotionTypes \in Seq(Feelings)
      BY <1>1, RestingAssumption DEF Feelings
    <2>4. place \in Deriving
      BY <2>2, <2>3 DEF Deriving
    <2>5. rest' = [rest EXCEPT ![p] = place]
      BY <1>5 DEF DeriveEmotions
    <2>6. /\ place.since = rest[p].since /\ place.step = rest[p].step
          /\ place.todo = EmotionTypes /\ place.existing = {episodes[i].type : i \in Felt}
      OBVIOUS
    <2> HIDE DEF place
    <2> QED BY <2>4, <2>5, <2>6
  <1>6. ASSUME PassOver(p) \/ InsertEpisode(p)
        PROVE \E place \in Deriving :
                 /\ place.since = rest[p].since /\ place.step = rest[p].step
                 /\ place.todo = Tail(rest[p].todo) /\ place.existing = rest[p].existing
                 /\ rest' = [rest EXCEPT ![p] = place]
    <2> DEFINE place == [rest[p] EXCEPT !.todo = Tail(rest[p].todo)]
    <2>1. rest[p] \in Deriving /\ rest[p].todo # <<>>
      BY <1>6, PlacesOfSteps DEF PassOver, InsertEpisode
    <2>2. rest[p].todo \in Seq(Feelings)
      BY <2>1 DEF Deriving
    <2>3. Tail(rest[p].todo) \in Seq(Feelings)
      BY <2>1, <2>2, HeadAndTail
    <2>4. place \in Deriving
      BY <2>1, <2>3 DEF Deriving
    <2>5. /\ place.since = rest[p].since /\ place.step = rest[p].step
          /\ place.todo = Tail(rest[p].todo) /\ place.existing = rest[p].existing
      BY <2>1 DEF Deriving
    <2>6. rest' = [rest EXCEPT ![p] = place]
      BY <1>6 DEF PassOver, InsertEpisode
    <2> HIDE DEF place
    <2> QED BY <2>4, <2>5, <2>6
  <1>7. EndStep(p) \/ ResterStops(p) => rest' = [rest EXCEPT ![p] = Resting]
    BY DEF EndStep, ResterStops
  <1> QED BY <1>2, <1>3, <1>4, <1>5, <1>6, <1>7

\* The row InsertEpisode writes.
LEMMA InsertedIsEpisode ==
    ASSUME RestInv, NEW p \in Resters, InsertEpisode(p)
    PROVE  /\ episodes' \in Seq(Episodes)
           /\ DOMAIN episodes' = DOMAIN episodes \cup {Len(episodes) + 1}
           /\ Len(episodes) + 1 \notin DOMAIN episodes
           /\ \A i \in DOMAIN episodes : episodes'[i] = episodes[i]
           /\ episodes'[Len(episodes) + 1].type = Head(rest[p].todo)
           /\ episodes'[Len(episodes) + 1].step = rest[p].step
           /\ episodes'[Len(episodes) + 1].since = rest[p].since
           /\ episodes'[Len(episodes) + 1].by = p
  <1> DEFINE new == [type |-> Head(rest[p].todo), status |-> "active", faint |-> FALSE,
                     step |-> rest[p].step, since |-> rest[p].since, by |-> p]
  <1>1. rest[p] \in Deriving /\ rest[p].todo # <<>>
    BY PlacesOfSteps DEF InsertEpisode, RestInv
  <1>2. rest[p].todo \in Seq(Feelings) /\ rest[p].step \in Nat /\ rest[p].since \in Nat
    BY <1>1 DEF Deriving
  <1>3. Head(rest[p].todo) \in Feelings
    BY <1>1, <1>2, HeadAndTail
  <1>4. FALSE \in BOOLEAN
    OBVIOUS
  <1>5. new \in Episodes
    BY <1>2, <1>3, <1>4 DEF Episodes
  <1>6. episodes' = Append(episodes, new) /\ episodes \in Seq(Episodes)
    BY DEF InsertEpisode, RestInv
  <1>7. /\ new.type = Head(rest[p].todo) /\ new.step = rest[p].step
        /\ new.since = rest[p].since /\ new.by = p
    OBVIOUS
  <1> HIDE DEF new
  <1>8. /\ episodes' \in Seq(Episodes)
        /\ DOMAIN episodes' = DOMAIN episodes \cup {Len(episodes) + 1}
        /\ Len(episodes) + 1 \notin DOMAIN episodes
        /\ episodes'[Len(episodes) + 1] = new
        /\ \A i \in DOMAIN episodes : episodes'[i] = episodes[i]
    BY <1>5, <1>6
  <1> QED BY <1>7, <1>8

LEMMA RestTypesStep == RestInv /\ [RestNext]_restVars => RestTypes'
  <1> SUFFICES ASSUME RestInv, [RestNext]_restVars PROVE RestTypes'
    OBVIOUS
  <1> USE DEF RestTypes
  <1>a. RestTypes
    BY DEF RestInv
  <1>1. episodes' \in Seq(Episodes)
    <2>1. ASSUME NEW p \in Resters, InsertEpisode(p) PROVE episodes' \in Seq(Episodes)
      BY <2>1, InsertedIsEpisode
    <2>2. CASE UNCHANGED restVars
      BY <2>2, <1>a DEF restVars
    <2> QED BY <2>1, <2>2, EpisodesOnlyAge
  <1>2. rest' \in [Resters -> Places]
    <2>1. ASSUME NEW p \in Resters, NEW place \in Places, rest' = [rest EXCEPT ![p] = place]
          PROVE rest' \in [Resters -> Places]
      BY <2>1, <1>a
    <2>2. Resting \in Places /\ Expiring \subseteq Places /\ Appending \subseteq Places
          /\ Recording \subseteq Places /\ Deriving \subseteq Places
      BY DEF Places
    <2>3. ASSUME NEW p \in Resters,
                 BeginStep(p) \/ ExpireDecayed(p) \/ AppendRestingEvent(p) \/ DeriveEmotions(p)
                   \/ PassOver(p) \/ InsertEpisode(p) \/ EndStep(p) \/ ResterStops(p)
          PROVE rest' \in [Resters -> Places]
      BY <2>1, <2>2, <2>3, RestPlaces
    <2>4. ASSUME UNCHANGED rest PROVE rest' \in [Resters -> Places]
      BY <2>4, <1>a
    <2> QED BY <2>3, <2>4 DEF RestNext, RecordActivation, Fade, UserTurn, restVars
  <1>3. activations' \in Seq(0 .. Radius) /\ Len(activations') <= MaxSteps
    <2>1. ASSUME NEW p \in Resters, AppendRestingEvent(p)
          PROVE activations' \in Seq(0 .. Radius) /\ Len(activations') <= MaxSteps
      <3>1. 0 \in 0 .. Radius
        BY RestingAssumption
      <3> QED BY <2>1, <3>1, <1>a, RestingAssumption DEF AppendRestingEvent
    <2>2. ASSUME NEW p \in Resters, RecordActivation(p)
          PROVE activations' \in Seq(0 .. Radius) /\ Len(activations') <= MaxSteps
      <3>1. rest[p].step \in DOMAIN activations
        BY <2>2 DEF RecordActivation, RestInv, StepsAreRight
      <3>2. activations[rest[p].step] + 1 \in 0 .. Radius
        BY <2>2, <3>1, <1>a, RestingAssumption DEF RecordActivation
      <3>3. activations' = [activations EXCEPT ![rest[p].step] = activations[rest[p].step] + 1]
        BY <2>2 DEF RecordActivation
      <3>4. activations \in Seq(0 .. Radius) /\ DOMAIN activations = 1 .. Len(activations)
        BY <1>a
      <3>5. Len(activations') = Len(activations) /\ activations' \in Seq(0 .. Radius)
        BY <3>1, <3>2, <3>3, <3>4, ExceptSeq
      <3> QED BY <3>5, <1>a
    <2>3. ASSUME UNCHANGED activations
          PROVE activations' \in Seq(0 .. Radius) /\ Len(activations') <= MaxSteps
      BY <2>3, <1>a
    <2> QED
      BY <2>1, <2>2, <2>3
         DEF RestNext, BeginStep, ExpireDecayed, DeriveEmotions, PassOver, InsertEpisode, EndStep,
             ResterStops, Fade, UserTurn, restVars
  <1>4. userTurns' \in 0 .. MaxUserTurns
    <2>1. CASE UserTurn
      BY <2>1, <1>a, RestingAssumption DEF UserTurn
    <2>2. ASSUME UNCHANGED userTurns PROVE userTurns' \in 0 .. MaxUserTurns
      BY <2>2, <1>a
    <2> QED
      BY <2>1, <2>2
         DEF RestNext, BeginStep, ExpireDecayed, AppendRestingEvent, RecordActivation,
             DeriveEmotions, PassOver, InsertEpisode, EndStep, ResterStops, Fade, restVars
  <1> QED BY <1>1, <1>2, <1>3, <1>4

\* A step that has all its activations keeps them.
LEMMA ActivationsStay ==
    RestInv /\ [RestNext]_restVars =>
        /\ DOMAIN activations \subseteq DOMAIN activations'
        /\ \A n \in DOMAIN activations : activations[n] = Radius => activations'[n] = Radius
  <1> SUFFICES ASSUME RestInv, [RestNext]_restVars
               PROVE  /\ DOMAIN activations \subseteq DOMAIN activations'
                      /\ \A n \in DOMAIN activations :
                           activations[n] = Radius => activations'[n] = Radius
    OBVIOUS
  <1> DEFINE Stay == /\ DOMAIN activations \subseteq DOMAIN activations'
                     /\ \A n \in DOMAIN activations :
                          activations[n] = Radius => activations'[n] = Radius
  <1>1. activations \in Seq(0 .. Radius) /\ Radius \in Nat
    BY RestingAssumption DEF RestInv
  <1>2. ASSUME NEW p \in Resters, AppendRestingEvent(p) PROVE Stay
    <2>1. activations' = Append(activations, 0)
      BY <1>2 DEF AppendRestingEvent
    <2>2. DOMAIN activations' = DOMAIN activations \cup {Len(activations) + 1}
          /\ \A n \in DOMAIN activations : activations'[n] = activations[n]
      BY <1>1, <2>1
    <2> QED BY <2>2
  <1>3. ASSUME NEW p \in Resters, RecordActivation(p) PROVE Stay
    <2>1. activations' = [activations EXCEPT ![rest[p].step] = activations[rest[p].step] + 1]
          /\ activations[rest[p].step] # Radius
      BY <1>3, <1>1 DEF RecordActivation
    <2>2. DOMAIN activations' = DOMAIN activations
          /\ \A n \in DOMAIN activations : n # rest[p].step => activations'[n] = activations[n]
      BY <2>1
    <2> QED BY <2>1, <2>2
  <1>4. ASSUME UNCHANGED activations PROVE Stay
    BY <1>4
  <1> QED
    BY <1>2, <1>3, <1>4
       DEF RestNext, BeginStep, ExpireDecayed, DeriveEmotions, PassOver, InsertEpisode, EndStep,
           ResterStops, Fade, UserTurn, restVars

LEMMA StepsStayRight == RestInv /\ [RestNext]_restVars => StepsAreRight' /\ EmotionsHaveSteps'
  <1> SUFFICES ASSUME RestInv, [RestNext]_restVars PROVE StepsAreRight' /\ EmotionsHaveSteps'
    OBVIOUS
  <1>1. /\ DOMAIN activations \subseteq DOMAIN activations'
        /\ \A n \in DOMAIN activations : activations[n] = Radius => activations'[n] = Radius
    BY ActivationsStay
  <1>2. rest \in [Resters -> Places]
        /\ \A p \in Resters :
             /\ rest[p].phase \in {"recording", "deriving"} => rest[p].step \in DOMAIN activations
             /\ rest[p].phase = "deriving" => activations[rest[p].step] = Radius
    BY DEF RestInv, StepsAreRight
  <1> DEFINE Right(place) ==
               /\ place.phase \in {"recording", "deriving"} => place.step \in DOMAIN activations'
               /\ place.phase = "deriving" => activations'[place.step] = Radius
  <1>3. \A p \in Resters : Right(rest[p])
    BY <1>1, <1>2
  <1>4. Resting \in Places /\ Expiring \subseteq Places /\ Appending \subseteq Places
        /\ Recording \subseteq Places /\ Deriving \subseteq Places
    BY DEF Places
  <1>5. ASSUME NEW p \in Resters, NEW place \in Places, rest' = [rest EXCEPT ![p] = place],
               Right(place)
        PROVE StepsAreRight'
    <2>1. rest'[p] = place /\ \A q \in Resters \ {p} : rest'[q] = rest[q]
      BY <1>2, <1>5
    <2>2. \A q \in Resters : Right(rest'[q])
      BY <1>3, <1>5, <2>1
    <2> QED BY <2>2 DEF StepsAreRight
  <1>6. ASSUME NEW place \in {Resting} \cup Expiring \cup Appending PROVE Right(place)
    BY DEF Resting, Expiring, Appending
  <1>7. ASSUME NEW p \in Resters,
               BeginStep(p) \/ ExpireDecayed(p) \/ EndStep(p) \/ ResterStops(p)
        PROVE StepsAreRight'
    <2>1. \E place \in {Resting} \cup Expiring \cup Appending : rest' = [rest EXCEPT ![p] = place]
      BY <1>7, RestPlaces
    <2> QED BY <2>1, <1>4, <1>5, <1>6
  <1>8. ASSUME NEW p \in Resters, AppendRestingEvent(p) PROVE StepsAreRight'
    <2>1. PICK place \in Recording : place.step = Len(activations) + 1
                                     /\ rest' = [rest EXCEPT ![p] = place]
      BY <1>8, RestPlaces
    <2>2. activations \in Seq(0 .. Radius) /\ activations' = Append(activations, 0)
      BY <1>8 DEF AppendRestingEvent, RestInv
    <2>3. Len(activations) + 1 \in DOMAIN activations'
      BY <2>2
    <2>4. place.phase = "recording"
      BY DEF Recording
    <2> QED BY <2>1, <2>3, <2>4, <1>4, <1>5
  <1>9. ASSUME NEW p \in Resters, DeriveEmotions(p) PROVE StepsAreRight'
    <2>1. PICK place \in Deriving : place.step = rest[p].step /\ rest' = [rest EXCEPT ![p] = place]
      BY <1>9, RestPlaces
    <2>2. rest[p].step \in DOMAIN activations /\ activations[rest[p].step] = Radius
      BY <1>9, <1>2 DEF DeriveEmotions
    <2> QED BY <2>1, <2>2, <1>1, <1>4, <1>5
  <1>10. ASSUME NEW p \in Resters, PassOver(p) \/ InsertEpisode(p) PROVE StepsAreRight'
    <2>1. PICK place \in Deriving : place.step = rest[p].step /\ rest' = [rest EXCEPT ![p] = place]
      BY <1>10, RestPlaces
    <2>2. rest[p].step \in DOMAIN activations /\ activations[rest[p].step] = Radius
      BY <1>10, <1>2 DEF PassOver, InsertEpisode
    <2> QED BY <2>1, <2>2, <1>1, <1>4, <1>5
  <1>11. ASSUME UNCHANGED rest PROVE StepsAreRight'
    BY <1>3, <1>11 DEF StepsAreRight
  <1>12. StepsAreRight'
    BY <1>7, <1>8, <1>9, <1>10, <1>11 DEF RestNext, RecordActivation, Fade, UserTurn, restVars
  <1>13. ASSUME NEW p \in Resters, InsertEpisode(p) PROVE EmotionsHaveSteps'
    <2>1. /\ DOMAIN episodes' = DOMAIN episodes \cup {Len(episodes) + 1}
          /\ episodes'[Len(episodes) + 1].step = rest[p].step
          /\ \A i \in DOMAIN episodes : episodes'[i] = episodes[i]
      BY <1>13, InsertedIsEpisode
    <2>2. rest[p].step \in DOMAIN activations /\ activations[rest[p].step] = Radius
      BY <1>13, <1>2 DEF InsertEpisode
    <2> QED BY <2>1, <2>2, <1>1 DEF EmotionsHaveSteps, RestInv
  <1>14. ASSUME EpisodesAge PROVE EmotionsHaveSteps'
    <2>1. ASSUME NEW i \in DOMAIN episodes
          PROVE episodes'[i].step \in DOMAIN activations' /\ activations'[episodes'[i].step] = Radius
      <3>1. episodes[i].step \in DOMAIN activations /\ activations[episodes[i].step] = Radius
        BY DEF RestInv, EmotionsHaveSteps
      <3>2. episodes'[i].step = episodes[i].step
        BY <1>14 DEF EpisodesAge
      <3> QED BY <3>1, <3>2, <1>1
    <2>2. DOMAIN episodes' = DOMAIN episodes
      BY <1>14 DEF EpisodesAge
    <2> QED BY <2>1, <2>2 DEF EmotionsHaveSteps
  <1>15. ASSUME UNCHANGED restVars PROVE EmotionsHaveSteps'
    <2>1. EmotionsHaveSteps
      BY DEF RestInv
    <2>2. episodes' = episodes /\ activations' = activations
      BY <1>15 DEF restVars
    <2> QED BY <2>1, <2>2 DEF EmotionsHaveSteps
  <1>16. EmotionsHaveSteps'
    BY <1>13, <1>14, <1>15, EpisodesOnlyAge
  <1> QED BY <1>12, <1>16

LEMMA HostStaysUpToDate == RestInv /\ [RestNext]_restVars => HostIsUpToDate' /\ EmotionsAreOfNow'
  <1> SUFFICES ASSUME RestInv, [RestNext]_restVars PROVE HostIsUpToDate' /\ EmotionsAreOfNow'
    OBVIOUS
  <1>1. Host \in Resters /\ rest \in [Resters -> Places]
        /\ (rest[Host] # Resting => rest[Host].since = userTurns)
    BY RestingAssumption DEF RestInv, HostIsUpToDate
  <1>2. \A i \in Felt : episodes[i].by = Host => episodes[i].since = userTurns
    BY DEF RestInv, EmotionsAreOfNow
  <1>3. CASE UserTurn
    <2>1. rest'[Host] = Resting
      BY <1>3 DEF UserTurn
    <2>2. Felt' = {}
      <3>1. DOMAIN episodes' = DOMAIN episodes
            /\ \A i \in DOMAIN episodes :
                 episodes'[i] = IF i \in Felt THEN [episodes[i] EXCEPT !.status = "resolved"]
                                ELSE episodes[i]
        BY <1>3 DEF UserTurn
      <3>2. ASSUME NEW i \in DOMAIN episodes PROVE episodes'[i].status # "active"
        <4>1. episodes \in Seq(Episodes)
          BY DEF RestInv
        <4>2. episodes[i] \in Episodes
          BY <4>1
        <4>3. CASE i \in Felt
          BY <4>2, <4>3, <3>1 DEF Episodes
        <4>4. CASE i \notin Felt
          BY <4>4, <3>1 DEF Felt
        <4> QED BY <4>3, <4>4
      <3> QED BY <3>1, <3>2 DEF Felt
    <2> QED BY <2>1, <2>2 DEF HostIsUpToDate, EmotionsAreOfNow
  <1>4. ASSUME UNCHANGED userTurns, RestNext PROVE HostIsUpToDate'
    <2>1. ASSUME NEW p \in Resters, NEW place, rest' = [rest EXCEPT ![p] = place],
                 place = Resting \/ place.since = userTurns
                   \/ (rest[p] # Resting /\ place.since = rest[p].since)
          PROVE HostIsUpToDate'
      <3>1. CASE p = Host
        BY <3>1, <2>1, <1>1, <1>4 DEF HostIsUpToDate
      <3>2. CASE p # Host
        BY <3>2, <2>1, <1>1, <1>4 DEF HostIsUpToDate
      <3> QED BY <3>1, <3>2
    <2>2. ASSUME NEW p \in Resters,
                 BeginStep(p) \/ ExpireDecayed(p) \/ AppendRestingEvent(p) \/ DeriveEmotions(p)
                   \/ PassOver(p) \/ InsertEpisode(p) \/ EndStep(p) \/ ResterStops(p)
          PROVE HostIsUpToDate'
      <3>1. ExpireDecayed(p) \/ AppendRestingEvent(p) \/ DeriveEmotions(p) \/ PassOver(p)
              \/ InsertEpisode(p) => rest[p] # Resting
        BY DEF ExpireDecayed, AppendRestingEvent, DeriveEmotions, PassOver, InsertEpisode, Resting
      <3> QED BY <2>1, <2>2, <3>1, RestPlaces
    <2>3. ASSUME UNCHANGED rest PROVE HostIsUpToDate'
      BY <2>3, <1>1, <1>4 DEF HostIsUpToDate
    <2> QED BY <2>2, <2>3, <1>3, <1>4 DEF RestNext, RecordActivation, Fade
  <1>5. ASSUME NEW p \in Resters, InsertEpisode(p) PROVE EmotionsAreOfNow'
    <2>1. /\ DOMAIN episodes' = DOMAIN episodes \cup {Len(episodes) + 1}
          /\ episodes'[Len(episodes) + 1].since = rest[p].since
          /\ episodes'[Len(episodes) + 1].by = p
          /\ \A i \in DOMAIN episodes : episodes'[i] = episodes[i]
      BY <1>5, InsertedIsEpisode
    <2>2. p = Host => rest[p].since = userTurns
      BY <1>1, <1>5 DEF InsertEpisode, Resting
    <2>3. UNCHANGED userTurns
      BY <1>5 DEF InsertEpisode
    <2> QED BY <2>1, <2>2, <2>3, <1>2 DEF EmotionsAreOfNow, Felt
  <1>6. ASSUME EpisodesAge, UNCHANGED userTurns PROVE EmotionsAreOfNow'
    BY <1>6, <1>2 DEF EmotionsAreOfNow, Felt, EpisodesAge
  <1>7. RestNext => UserTurn \/ UNCHANGED userTurns
    BY DEF RestNext, BeginStep, ExpireDecayed, AppendRestingEvent, RecordActivation,
           DeriveEmotions, PassOver, InsertEpisode, EndStep, ResterStops, Fade
  <1>8. CASE UNCHANGED restVars
    BY <1>8, <1>1, <1>2 DEF restVars, HostIsUpToDate, EmotionsAreOfNow, Felt
  <1> QED BY <1>3, <1>4, <1>5, <1>6, <1>7, <1>8, EpisodesOnlyAge

LEMMA ExistingStaysKnown ==
    RestInv /\ [RestNext]_restVars => ExistingIsKnown' /\ EmotionTwinsAreForeign'
  <1> SUFFICES ASSUME RestInv, [RestNext]_restVars
               PROVE ExistingIsKnown' /\ EmotionTwinsAreForeign'
    OBVIOUS
  <1> DEFINE Known(p, place) ==
               place.phase = "deriving" =>
                 /\ IsInjective(place.todo)
                 /\ \A i \in Felt :
                      episodes[i].by = p /\ episodes[i].type \in Range(place.todo)
                        => episodes[i].type \in place.existing
  <1>1. rest \in [Resters -> Places] /\ \A p \in Resters : Known(p, rest[p])
    BY DEF RestInv, ExistingIsKnown
  <1>2. \A i, j \in Felt :
          i # j /\ episodes[i].type = episodes[j].type => episodes[i].by # episodes[j].by
    BY DEF RestInv, EmotionTwinsAreForeign
  <1>3. Resting \in Places /\ Expiring \subseteq Places /\ Appending \subseteq Places
        /\ Recording \subseteq Places /\ Deriving \subseteq Places
    BY DEF Places
  \* Where no emotion comes in, what was known of the places after the step
  \* before it is enough.
  <1>4. ASSUME EpisodesAge, \A p \in Resters : Known(p, rest'[p])
        PROVE ExistingIsKnown' /\ EmotionTwinsAreForeign'
    <2>1. Felt' \subseteq Felt
          /\ \A i \in Felt' : episodes'[i].type = episodes[i].type /\ episodes'[i].by = episodes[i].by
      BY <1>4 DEF EpisodesAge, Felt
    <2>2. ExistingIsKnown'
      <3>1. ASSUME NEW p \in Resters, rest'[p].phase = "deriving"
            PROVE  /\ IsInjective(rest'[p].todo)
                   /\ \A i \in Felt' :
                        episodes'[i].by = p /\ episodes'[i].type \in Range(rest'[p].todo)
                          => episodes'[i].type \in rest'[p].existing
        BY <1>4, <2>1, <3>1
      <3> QED BY <3>1 DEF ExistingIsKnown
    <2>3. EmotionTwinsAreForeign'
      BY <1>2, <2>1 DEF EmotionTwinsAreForeign
    <2> QED BY <2>2, <2>3
  <1>5. ASSUME NEW p \in Resters, NEW place \in Places, rest' = [rest EXCEPT ![p] = place],
               Known(p, place)
        PROVE \A q \in Resters : Known(q, rest'[q])
    <2>1. rest'[p] = place /\ \A q \in Resters \ {p} : rest'[q] = rest[q]
      BY <1>1, <1>5
    <2> QED BY <1>1, <1>5, <2>1
  <1>6. ASSUME NEW p \in Resters, NEW place \in {Resting} \cup Expiring \cup Appending \cup Recording
        PROVE Known(p, place)
    <2>1. place.phase # "deriving"
      BY DEF Resting, Expiring, Appending, Recording
    <2> QED BY <2>1
  <1>7. ASSUME NEW p \in Resters,
               BeginStep(p) \/ ExpireDecayed(p) \/ AppendRestingEvent(p) \/ EndStep(p)
                 \/ ResterStops(p)
        PROVE \A q \in Resters : Known(q, rest'[q])
    <2>1. PICK place \in {Resting} \cup Expiring \cup Appending \cup Recording :
            rest' = [rest EXCEPT ![p] = place]
      BY <1>7, RestPlaces
    <2>2. Known(p, place) /\ place \in Places
      BY <1>3, <1>6
    <2> QED BY <2>1, <2>2, <1>5
  <1>8. ASSUME NEW p \in Resters, DeriveEmotions(p) PROVE \A q \in Resters : Known(q, rest'[q])
    <2>1. PICK place \in Deriving :
             /\ place.todo = EmotionTypes /\ place.existing = {episodes[i].type : i \in Felt}
             /\ rest' = [rest EXCEPT ![p] = place]
      BY <1>8, RestPlaces
    <2>2. Known(p, place) /\ place \in Places
      BY <2>1, <1>3, RestingAssumption
    <2> QED BY <2>1, <2>2, <1>5
  <1>9. ASSUME NEW p \in Resters, PassOver(p) \/ InsertEpisode(p)
        PROVE  /\ \A q \in Resters : Known(q, rest'[q])
               /\ Head(rest[p].todo) \notin Range(rest'[p].todo)
    <2>1. PICK place \in Deriving :
             /\ place.todo = Tail(rest[p].todo) /\ place.existing = rest[p].existing
             /\ rest' = [rest EXCEPT ![p] = place]
      BY <1>9, RestPlaces
    <2>2. rest[p] \in Deriving /\ rest[p].phase = "deriving" /\ rest[p].todo # <<>>
      BY <1>1, <1>9, PlacesOfSteps DEF PassOver, InsertEpisode
    <2>3. rest[p].todo \in Seq(Feelings)
      BY <2>2 DEF Deriving
    <2>4. Known(p, rest[p])
      BY <1>1
    <2>5. IsInjective(place.todo) /\ Range(place.todo) \subseteq Range(rest[p].todo)
          /\ Head(rest[p].todo) \notin Range(place.todo)
      BY <2>1, <2>2, <2>3, <2>4, HeadAndTail, TailIsInjective
    <2>6. Known(p, place) /\ place \in Places
      BY <1>3, <2>1, <2>2, <2>4, <2>5
    <2>7. rest'[p] = place
      BY <1>1, <2>1
    <2> QED BY <2>1, <2>5, <2>6, <2>7, <1>5
  <1>10. ASSUME UNCHANGED rest PROVE \A q \in Resters : Known(q, rest'[q])
    BY <1>1, <1>10
  <1>11. [RestNext]_restVars => \A q \in Resters : Known(q, rest'[q])
    BY <1>7, <1>8, <1>9, <1>10 DEF RestNext, RecordActivation, Fade, UserTurn, restVars
  <1>12. ASSUME NEW p \in Resters, InsertEpisode(p)
         PROVE ExistingIsKnown' /\ EmotionTwinsAreForeign'
    <2> DEFINE new == Len(episodes) + 1
    <2>1. /\ DOMAIN episodes' = DOMAIN episodes \cup {new} /\ new \notin DOMAIN episodes
          /\ \A i \in DOMAIN episodes : episodes'[i] = episodes[i]
          /\ episodes'[new].type = Head(rest[p].todo) /\ episodes'[new].by = p
      BY <1>12, InsertedIsEpisode
    <2> HIDE DEF new
    <2>2. Felt' \subseteq Felt \cup {new} /\ Felt \subseteq DOMAIN episodes
      BY <2>1 DEF Felt
    <2>3. rest[p] \in Deriving /\ rest[p].phase = "deriving" /\ rest[p].todo # <<>>
          /\ Head(rest[p].todo) \notin rest[p].existing
      BY <1>1, <1>12, PlacesOfSteps DEF InsertEpisode
    <2>4. Head(rest[p].todo) \in Range(rest[p].todo)
      BY <2>3, HeadAndTail DEF Deriving
    <2>5. \A i \in Felt : episodes[i].type = Head(rest[p].todo) => episodes[i].by # p
      BY <1>1, <2>3, <2>4
    <2>6. \A q \in Resters : Known(q, rest'[q])
      BY <1>9, <1>12
    <2>7. Head(rest[p].todo) \notin Range(rest'[p].todo)
      BY <1>9, <1>12
    <2>8. ExistingIsKnown'
      <3>1. ASSUME NEW q \in Resters, rest'[q].phase = "deriving", NEW i \in Felt',
                   episodes'[i].by = q, episodes'[i].type \in Range(rest'[q].todo)
            PROVE episodes'[i].type \in rest'[q].existing
        <4>1. CASE i = new
          BY <4>1, <2>1, <2>7, <3>1
        <4>2. CASE i # new
          <5>1. i \in Felt /\ episodes'[i] = episodes[i]
            BY <4>2, <2>1, <2>2
          <5> QED BY <5>1, <2>6, <3>1
        <4> QED BY <4>1, <4>2
      <3>2. \A q \in Resters : rest'[q].phase = "deriving" => IsInjective(rest'[q].todo)
        BY <2>6
      <3> QED BY <3>1, <3>2 DEF ExistingIsKnown
    <2>9. EmotionTwinsAreForeign'
      <3>1. ASSUME NEW i \in Felt', NEW j \in Felt', i # j, episodes'[i].type = episodes'[j].type
            PROVE episodes'[i].by # episodes'[j].by
        <4>1. CASE i = new
          <5>1. j \in Felt /\ episodes'[j] = episodes[j]
            BY <4>1, <3>1, <2>1, <2>2
          <5> QED BY <4>1, <5>1, <3>1, <2>1, <2>5
        <4>2. CASE j = new
          <5>1. i \in Felt /\ episodes'[i] = episodes[i]
            BY <4>2, <3>1, <2>1, <2>2
          <5> QED BY <4>2, <5>1, <3>1, <2>1, <2>5
        <4>3. CASE i # new /\ j # new
          <5>1. i \in Felt /\ j \in Felt /\ episodes'[i] = episodes[i] /\ episodes'[j] = episodes[j]
            BY <4>3, <2>1, <2>2
          <5> QED BY <5>1, <3>1, <1>2
        <4> QED BY <4>1, <4>2, <4>3
      <3> QED BY <3>1 DEF EmotionTwinsAreForeign
    <2> QED BY <2>8, <2>9
  <1>13. CASE UNCHANGED restVars
    <2>1. EpisodesAge
      BY <1>13 DEF restVars, EpisodesAge
    <2> QED BY <1>4, <1>11, <2>1
  <1> QED BY <1>4, <1>11, <1>12, <1>13, EpisodesOnlyAge

LEMMA RestStep == RestInv /\ [RestNext]_restVars => RestInv'
  BY RestTypesStep, StepsStayRight, HostStaysUpToDate, ExistingStaysKnown DEF RestInv, RestTypes

\* What EndedStays says of a step.
EndsStand ==
    \A i \in DOMAIN episodes :
        episodes[i].status # "active" => episodes'[i].status = episodes[i].status

LEMMA RestStepEndsStand == RestInv /\ [RestNext]_restVars => EndsStand
  <1> SUFFICES ASSUME RestInv, [RestNext]_restVars PROVE EndsStand
    OBVIOUS
  <1>1. ASSUME NEW p \in Resters, InsertEpisode(p) PROVE EndsStand
    BY <1>1, InsertedIsEpisode DEF EndsStand
  <1>2. ASSUME EpisodesAge PROVE EndsStand
    BY <1>2 DEF EpisodesAge, EndsStand
  <1>3. CASE UNCHANGED restVars
    BY <1>3 DEF restVars, EndsStand
  <1> QED BY <1>1, <1>2, <1>3, EpisodesOnlyAge

LEMMA RestInvIsEnough ==
    RestInv => RestTypeOK /\ EmotionsAreTraced /\ EmotionsAreOfNow /\ EmotionTwinsAreForeign
  <1> SUFFICES ASSUME RestInv
               PROVE RestTypeOK /\ EmotionsAreTraced /\ EmotionsAreOfNow /\ EmotionTwinsAreForeign
    OBVIOUS
  <1>1. episodes \in Seq(Episodes) /\ rest \in [Resters -> Places]
    BY DEF RestInv
  <1>2. \A i \in DOMAIN episodes : episodes[i] \in Episodes
    BY <1>1
  <1>3. \A i \in DOMAIN episodes : episodes[i].type \in Range(EmotionTypes)
                                   /\ episodes[i].status \in {"active", "expired", "resolved"}
    BY <1>2 DEF Episodes, Feelings
  <1>4. \A p \in Resters :
          rest[p].phase \in {"none", "expiring", "appending", "recording", "deriving"}
    BY <1>1, PlacesOfSteps
  <1>5. Len(activations) <= MaxSteps /\ userTurns \in 0 .. MaxUserTurns
    BY DEF RestInv
  <1>6. EmotionsAreTraced /\ EmotionsAreOfNow /\ EmotionTwinsAreForeign
    BY DEF RestInv, EmotionsHaveSteps, EmotionsAreTraced
  <1> QED BY <1>3, <1>4, <1>5, <1>6 DEF RestTypeOK

\* An emotion has all the activations of its step, is of the present of the
\* process that derived it, has a twin only from another process, and stays as
\* it ended, however the steps of several processes, the turns of the user and
\* stops follow each other (run_step, _derive_emotions, resolve_all).
THEOREM EmotionsAreHonest ==
    RestSpec => [](RestTypeOK /\ EmotionsAreTraced /\ EmotionsAreOfNow /\ EmotionTwinsAreForeign)
                /\ EndedStays
  <1>1. RestSpec => [](RestTypeOK /\ EmotionsAreTraced /\ EmotionsAreOfNow
                         /\ EmotionTwinsAreForeign)
                    /\ [][EndsStand]_restVars
    BY RestStarts, RestStep, RestStepEndsStand, RestInvIsEnough, PTL DEF RestSpec
  <1> QED BY <1>1 DEF EndedStays, EndsStand

-----------------------------------------------------------------------------
(***************************************************************************)
(* All of it side by side.  A step of MindSpec is a step of at most one    *)
(* component, and leaves the variables of the others as they are.          *)
(***************************************************************************)
LEMMA MindStartsAll ==
    MindInit => Init /\ TraceInit /\ RelationshipInit /\ InnerInit /\ WorldInit /\ RestInit
                /\ SchemaInit
  BY DEF MindInit

LEMMA MindStepsOfParts ==
    [MindNext]_mindVars =>
        /\ [Next]_vars /\ [TraceNext]_traceVars /\ [RelationshipNext]_relationshipVars
        /\ [InnerNext]_innerVars /\ [WorldNext]_worldVars /\ [RestNext]_restVars
        /\ [SchemaNext]_schemaVars
  BY DEF MindNext, mindVars, turnVars, lifeVars, baseVars

LEMMA MindIsItsParts ==
    MindSpec => /\ Spec /\ TraceSpec /\ RelationshipSpec
                /\ InnerSpec /\ WorldSpec /\ RestSpec /\ SchemaSpec
  BY MindStartsAll, MindStepsOfParts, PTL
     DEF MindSpec, Spec, TraceSpec, RelationshipSpec, InnerSpec, WorldSpec, RestSpec, SchemaSpec

\* Every memory has its evidence and, unless a process died, its successor; an
\* observation has its event; an emotion has all the activations of its step
\* (write_candidates, observe, _derive_emotions).
THEOREM MemoryStaysSound == MindSpec => []MemoryIsSound
  <1>1. (MemoryIsGrounded /\ ConflictHasSuccessor) /\ (NotedIsObserved /\ MaterialIsFollowed)
          /\ (EmotionsAreTraced /\ EmotionsAreOfNow)
            => MemoryIsSound
    BY DEF MemoryIsSound
  <1>2. MindSpec => [](MemoryIsGrounded /\ ConflictHasSuccessor)
    BY MindIsItsParts, MemoriesStaySound, PTL
  <1>3. MindSpec => [](NotedIsObserved /\ MaterialIsFollowed)
    BY MindIsItsParts, WorldIsWatched, PTL
  <1>4. MindSpec => [](EmotionsAreTraced /\ EmotionsAreOfNow)
    BY MindIsItsParts, EmotionsAreHonest, PTL
  <1> QED BY <1>1, <1>2, <1>3, <1>4, PTL

\* Whatever is kept twice was kept by two processes: no task, backfill or step of
\* one process repeats what another one of it has written (find_similar,
\* find_current_by_claim, _backfill_trace_space, _derive_emotions).
THEOREM TwinsStayOfTwo == MindSpec => []TwinsAreOfTwo
  <1>1. TwinsAreForeign /\ TwinTracesAreForeign /\ EmotionTwinsAreForeign => TwinsAreOfTwo
    BY DEF TwinsAreOfTwo
  <1>2. MindSpec => []TwinsAreForeign
    BY MindIsItsParts, MemoriesStaySound, PTL
  <1>3. MindSpec => []TwinTracesAreForeign
    BY MindIsItsParts, TracesAreNotRepeated, PTL
  <1>4. MindSpec => []EmotionTwinsAreForeign
    BY MindIsItsParts, EmotionsAreHonest, PTL
  <1> QED BY <1>1, <1>2, <1>3, <1>4, PTL

\* Every migration file, whatever its lines, is read as SQL reads it
\* (_split_sql_statements).
THEOREM ScriptsStayRead == MindSpec => []SplitIsRight
  <1>1. MindInit => script \in Seq(Seq(Characters))
    <2> SUFFICES ASSUME MindInit PROVE script \in Seq(Seq(Characters))
      OBVIOUS
    <2>1. CASE scene = "script"
      BY <2>1, ScriptAssumption DEF MindInit, ScriptInit
    <2>2. CASE scene # "script"
      <3>1. script = <<<<>>>>
        BY <2>2 DEF MindInit
      <3>2. <<>> \in Seq(Characters)
        OBVIOUS
      <3> QED BY <3>1, <3>2
    <2> QED BY <2>1, <2>2
  <1>2. script \in Seq(Seq(Characters)) /\ [MindNext]_mindVars => (script \in Seq(Seq(Characters)))'
    <2>1. [MindNext]_mindVars => UNCHANGED script
      BY DEF MindNext, mindVars, baseVars, ScriptNext
    <2> QED BY <2>1
  <1>3. script \in Seq(Seq(Characters)) => SplitIsRight
    BY FilesAreSplitRight DEF SplitIsRight
  <1> QED BY <1>1, <1>2, <1>3, PTL DEF MindSpec

\* The shadow state is that of the traces, the tables are those of the
\* migrations, and each migration is read as SQL reads it (_rebuild,
\* run_migrations, _split_sql_statements).
THEOREM TablesStaySound == MindSpec => []TablesAreSound
  <1>1. ShadowIsSound /\ SchemaIsWhole /\ SplitIsRight => TablesAreSound
    BY DEF TablesAreSound
  <1>2. MindSpec => []ShadowIsSound
    BY MindIsItsParts, ShadowCorrect, PTL
  <1>3. MindSpec => []SchemaIsWhole
    BY MindIsItsParts, SchemaStaysWhole, PTL
  <1> QED BY <1>1, <1>2, <1>3, ScriptsStayRead, PTL

\* Every variable of every component keeps its type.
THEOREM MindTypeCorrect == MindSpec => []MindTypeOK
  <1>1. TypeOK /\ TraceTypeOK /\ RelationshipTypeOK /\ InnerTypeOK /\ WorldTypeOK /\ RestTypeOK /\ SchemaTypeOK
            => MindTypeOK
    BY DEF MindTypeOK
  <1>2. MindSpec => []TypeOK
    BY MindIsItsParts, LearningTypeCorrect, PTL
  <1>3. MindSpec => []TraceTypeOK
    BY MindIsItsParts, TraceTypeCorrect, PTL
  <1>4. MindSpec => []RelationshipTypeOK
    BY MindIsItsParts, RelationshipTypeCorrect, PTL
  <1>5. MindSpec => []InnerTypeOK
    BY MindIsItsParts, InnerTypeCorrect, PTL
  <1>6. MindSpec => []WorldTypeOK
    BY MindIsItsParts, WorldIsWatched, PTL
  <1>7. MindSpec => []RestTypeOK
    BY MindIsItsParts, EmotionsAreHonest, PTL
  <1>8. MindSpec => []SchemaTypeOK
    BY MindIsItsParts, SchemaStaysWhole, PTL
  <1> QED BY <1>1, <1>2, <1>3, <1>4, <1>5, <1>6, <1>7, <1>8, PTL

\* When the work on a turn has ended, the shadow state has every trace of it,
\* beside whatever else is going on (_record_turn_trace, _rebuild).
THEOREM MindKeepsUp == MindSpec => ShadowIsCurrent
  BY MindIsItsParts, ShadowKeepsUp

\* Confidence is earned by evidence and only grows; a turn moves the relationship
\* no further than its cap (append_if_version, finalize).
THEOREM SelfStaysEarned == MindSpec => SelfIsEarned
  BY MindIsItsParts, BeliefsStayEarned, TurnsAreCapped DEF SelfIsEarned

\* The life goes offline and contacts the user in full knowledge when turns and
\* inner loop are in one process; a pass over the world has told what it saw;
\* an emotion stays as it ended (tick_once, observe, resolve_all).
THEOREM PresenceStaysInformed == ~InnerSeparate => (MindSpec => PresenceIsInformed)
  BY MindIsItsParts, InnerIsInformed, WorldIsWatched, EmotionsAreHonest DEF PresenceIsInformed
=============================================================================
