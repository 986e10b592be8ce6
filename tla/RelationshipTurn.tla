---------------------------- MODULE RelationshipTurn ----------------------------
(***************************************************************************)
(* How a turn moves the relationship (services/relationship_service.py):   *)
(* preview applies the event that was received, finalize the action that   *)
(* was chosen for it, and both together are capped.  A value is a number   *)
(* of units, an effect a percentage of the cap of the turn.                *)
(***************************************************************************)
EXTENDS Integers

CONSTANTS
    Full,       \* the value 1.0
    NormalCap, MajorCap,  \* normal_delta_cap, major_delta_cap
    Evidence,   \* what an appraisal may be worth: percentages, negative if it is bad
    Named,      \* the memories (commitments, unresolved matters, rituals) an event may name
    Origins,    \* the values a relationship may start with
    MaxMoves    \* bound on the turns

ASSUME RelationshipAssumption ==
    /\ Full \in Nat /\ NormalCap \in Nat /\ MajorCap \in NormalCap .. Full
    /\ Evidence \subseteq -100 .. 100
    /\ Origins \subseteq 0 .. Full
    /\ MaxMoves \in Nat

VARIABLES
    bond,     \* the relationship as it is stored
    draft,    \* the preview, with its event and the matters that settles
    last,     \* the cap of the last turn and the matters its action named
    moves

relationshipVars == <<bond, draft, last, moves>>

Dimensions == {"trust", "closeness", "tension", "reciprocity", "debt"}
Lists == {"commitments", "unresolved", "rituals"}
NoDraft == [kind |-> "none"]

EventKinds ==
    {"neutral", "promise", "user_kept", "agent_kept", "ignored", "conflict", "repair", "progress", "ritual"}
\* "answer" stands for every intent that only answers, "rest" for defer, too.
Intents == {"repair", "project_work", "share", "comfort", "answer", "rest"}

RelationshipInit ==
    /\ bond \in [value : [Dimensions -> Origins], lists : [Lists -> SUBSET Named]]
    /\ draft = NoDraft
    /\ last = [cap |-> 0, named |-> {}]
    /\ moves = 0

Effect(trust, closeness, tension, reciprocity, debt) ==
    [trust |-> trust, closeness |-> closeness, tension |-> tension,
     reciprocity |-> reciprocity, debt |-> debt]
Nothing == Effect(0, 0, 0, 0, 0)
Plus(e, f) == [d \in Dimensions |-> e[d] + f[d]]

\* What an event does; a neutral one moves by its appraisal, if that rests on it.
OfEvent(kind, evidence) ==
    CASE kind = "user_kept"  -> Effect(67, 0, 0, 33, -33)
      [] kind = "agent_kept" -> Effect(0, 0, 0, 67, 0)
      [] kind = "ignored"    -> Effect(-50, -33, 67, 0, 67)
      [] kind = "conflict"   -> Effect(-33, -17, 67, 0, 67)
      [] kind = "repair"     -> Effect(17, 17, -67, 0, -67)
      [] kind = "progress"   -> Effect(0, 67, 0, 50, 0)
      [] kind = "ritual"     -> Effect(0, 50, 0, 17, 0)
      [] kind = "neutral" /\ evidence > 0 ->
           Effect((8 * evidence) \div 100, (17 * evidence) \div 100, 0, 0, 0)
      [] kind = "neutral" /\ evidence < 0 ->
           Effect(0, 0, (17 * (-evidence)) \div 100, 0, (8 * (-evidence)) \div 100)
      [] OTHER -> Nothing

\* What the action does; a repair needs something to be repaired.
OfIntent(intent, value, closed) ==
    CASE intent = "repair" /\ (closed # {} \/ value["tension"] > 0 \/ value["debt"] > 0) -> Effect(17, 10, -33, 0, -33)
      [] intent = "project_work" -> Effect(0, 33, 0, 33, 0)
      [] intent = "share"        -> Effect(0, 17, 0, 17, 0)
      [] intent = "comfort"      -> Effect(0, 10, 0, 10, 0)
      [] intent = "answer"       -> Effect(0, 0, 0, 10, 0)
      [] OTHER -> Nothing

Cap(major) == IF major THEN MajorCap ELSE NormalCap
Bounded(x, low, high) == IF x < low THEN low ELSE IF x > high THEN high ELSE x

\* _apply_transition_cap: counted from the value the turn began with.
Capped(current, delta, origin, cap) ==
    Bounded(origin + Bounded(current + delta - origin, -cap, cap), 0, Full)

Moved(value, effect, origin, cap) ==
    [d \in Dimensions |-> Capped(value[d], (effect[d] * cap) \div 100, origin[d], cap)]

\* Which list an event changes, and whether it adds to it.
Listed(lists, kind, names) ==
    CASE kind = "promise" -> [lists EXCEPT !["commitments"] = @ \cup names]
      [] kind \in {"user_kept", "agent_kept"} -> [lists EXCEPT !["commitments"] = @ \ names]
      [] kind \in {"ignored", "conflict"} -> [lists EXCEPT !["unresolved"] = @ \cup names]
      [] kind = "repair" -> [lists EXCEPT !["unresolved"] = @ \ names]
      [] kind = "ritual" -> [lists EXCEPT !["rituals"] = @ \cup names]
      [] OTHER -> lists

Preview(kind, major, evidence, names) ==
    /\ draft = NoDraft /\ moves < MaxMoves
    /\ draft' = [kind |-> kind, major |-> major, origin |-> bond.value,
                 value |-> Moved(bond.value, OfEvent(kind, evidence), bond.value, Cap(major)),
                 lists |-> Listed(bond.lists, kind, names),
                 settles |-> IF kind = "repair" THEN names ELSE {}]
    /\ UNCHANGED <<bond, last, moves>>

\* What the action settles: commitments it fulfils, matters it resolves.
OfDeed(fulfilled, resolved) ==
    Plus(IF fulfilled # {} THEN Effect(0, 0, 0, 67, 0) ELSE Nothing,
         IF resolved # {} THEN Effect(17, 0, -67, 0, -67) ELSE Nothing)

\* finalize.  The turn is major if its event or its action is; a repair is one if
\* the action resolves a matter, too.
Finalize(intent, major, fulfilled, resolved, shared) ==
    /\ draft # NoDraft
    /\ LET done == fulfilled \cap draft.lists["commitments"]
           closed == resolved \cap draft.lists["unresolved"]
           effect == Plus(OfIntent(intent, draft.value, closed), OfDeed(done, closed))
       IN  bond' = [value |-> Moved(draft.value, effect, draft.origin, Cap(major \/ draft.major)),
                    lists |-> [draft.lists EXCEPT !["commitments"] = @ \ done,
                                                  !["unresolved"] = @ \ closed,
                                                  !["rituals"] = @ \cup shared]]
    /\ last' = [cap |-> Cap(major \/ draft.major), named |-> resolved]
    /\ draft' = NoDraft
    /\ moves' = moves + 1

\* The turn ends before its state is stored.
Discard ==
    /\ draft # NoDraft
    /\ draft' = NoDraft /\ moves' = moves + 1
    /\ UNCHANGED <<bond, last>>

RelationshipNext ==
    \/ \E kind \in EventKinds, major \in BOOLEAN, evidence \in Evidence, names \in SUBSET Named :
          /\ kind # "neutral" => evidence = 0
          /\ Preview(kind, major, evidence, names)
    \/ \E intent \in Intents, major \in BOOLEAN, fulfilled, resolved, shared \in SUBSET Named :
          Finalize(intent, major, fulfilled, resolved, shared)
    \/ Discard

RelationshipSpec == RelationshipInit /\ [][RelationshipNext]_relationshipVars
-----------------------------------------------------------------------------
Values == [Dimensions -> 0 .. Full]
ListsOK(lists) == lists \in [Lists -> SUBSET Named]

RelationshipTypeOK ==
    /\ bond.value \in Values /\ ListsOK(bond.lists)
    /\ draft = NoDraft
       \/ (draft.kind \in EventKinds /\ draft.value \in Values /\ ListsOK(draft.lists))
    /\ last.cap \in 0 .. MajorCap /\ last.named \subseteq Named
    /\ moves \in 0 .. MaxMoves

Distance(x, y) == IF x < y THEN y - x ELSE x - y

\* A turn as a whole, its event and its action together, moves no value further
\* than its cap; trust falls only where something was ignored or fought over, and
\* a matter is settled only by a repair or an action that names it.
TurnIsCapped ==
    [][bond' # bond =>
          /\ \A d \in Dimensions : Distance(bond.value[d], bond'.value[d]) <= last'.cap
          /\ bond'.value["trust"] < bond.value["trust"] => draft.kind \in {"ignored", "conflict"}
          /\ bond.lists["unresolved"] \ (draft.settles \cup last'.named) \subseteq bond'.lists["unresolved"]
      ]_relationshipVars
=============================================================================
