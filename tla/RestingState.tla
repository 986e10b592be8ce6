------------------------------ MODULE RestingState ------------------------------
(***************************************************************************)
(* What the life does at rest (services/resting_state_service.py): traces  *)
(* become active of themselves and emotions are derived from them, of each *)
(* type one that is active.  The job trace.resting_step runs in the        *)
(* process that has leased it; another may take it over while the first    *)
(* still runs.  A turn of the user resolves what is active.                *)
(***************************************************************************)
EXTENDS Naturals, Sequences, FiniteSets, Functions

CONSTANTS
    Resters,       \* the processes that may run the job
    Host,          \* the one that takes the user's turns
    EmotionTypes,  \* in the order they are derived
    Radius,        \* the traces a step activates (capacity)
    MaxUserTurns, MaxSteps  \* bounds

ASSUME RestingAssumption ==
    /\ Host \in Resters
    /\ Radius \in Nat \ {0}
    /\ EmotionTypes \in Seq(Range(EmotionTypes)) /\ IsInjective(EmotionTypes)
    /\ MaxUserTurns \in Nat
    /\ MaxSteps \in Nat

VARIABLES
    episodes,     \* the emotion episodes, as they were inserted
    activations,  \* activations[n]: the rows of step n
    rest,         \* the step each process is in
    userTurns

restVars == <<episodes, activations, rest, userTurns>>

Resting == [phase |-> "none"]

RestInit ==
    /\ episodes = <<>> /\ activations = <<>>
    /\ rest = [p \in Resters |-> Resting]
    /\ userTurns = 0

Felt == {i \in DOMAIN episodes : episodes[i].status = "active"}

\* expire_decayed reads what is active and finds some of it faint.
BeginStep(p) ==
    /\ rest[p] = Resting
    /\ rest' = [rest EXCEPT ![p] = [phase |-> "expiring", since |-> userTurns,
                                    faint |-> {i \in Felt : episodes[i].faint}]]
    /\ UNCHANGED <<episodes, activations, userTurns>>

\* The statement asks again whether they are active.  Without traces there is
\* nothing more to do.
ExpireDecayed(p) ==
    /\ rest[p].phase = "expiring"
    /\ episodes' = [i \in DOMAIN episodes |->
                      IF i \in rest[p].faint \cap Felt THEN [episodes[i] EXCEPT !.status = "expired"]
                      ELSE episodes[i]]
    /\ \/ rest' = [rest EXCEPT ![p] = Resting]
       \/ /\ rest' = [rest EXCEPT ![p] = [phase |-> "appending", since |-> @.since]]
    /\ UNCHANGED <<activations, userTurns>>

\* The event; the rows of the activations follow one by one.
AppendRestingEvent(p) ==
    /\ rest[p].phase = "appending" /\ Len(activations) < MaxSteps
    /\ activations' = Append(activations, 0)
    /\ rest' = [rest EXCEPT ![p] = [phase |-> "recording", step |-> Len(activations) + 1, since |-> @.since]]
    /\ UNCHANGED <<episodes, userTurns>>

RecordActivation(p) ==
    /\ rest[p].phase = "recording" /\ activations[rest[p].step] < Radius
    /\ activations' = [activations EXCEPT ![rest[p].step] = @ + 1]
    /\ UNCHANGED <<episodes, rest, userTurns>>

\* _derive_emotions: the types that are active are read once (existing_types).
DeriveEmotions(p) ==
    /\ rest[p].phase = "recording" /\ activations[rest[p].step] = Radius
    /\ rest' = [rest EXCEPT ![p] = [phase |-> "deriving", step |-> @.step, since |-> @.since,
                                    todo |-> EmotionTypes,
                                    existing |-> {episodes[i].type : i \in Felt}]]
    /\ UNCHANGED <<episodes, activations, userTurns>>

\* A type that exists, or that is not strong enough in the present state.
PassOver(p) ==
    /\ rest[p].phase = "deriving" /\ rest[p].todo # <<>>
    /\ rest' = [rest EXCEPT ![p].todo = Tail(@)]
    /\ UNCHANGED <<episodes, activations, userTurns>>

InsertEpisode(p) ==
    /\ rest[p].phase = "deriving" /\ rest[p].todo # <<>>
    /\ Head(rest[p].todo) \notin rest[p].existing
    /\ episodes' = Append(episodes, [type |-> Head(rest[p].todo), status |-> "active", faint |-> FALSE,
                                     step |-> rest[p].step, since |-> rest[p].since, by |-> p])
    /\ rest' = [rest EXCEPT ![p].todo = Tail(@)]
    /\ UNCHANGED <<activations, userTurns>>

EndStep(p) ==
    /\ rest[p].phase = "deriving" /\ rest[p].todo = <<>>
    /\ rest' = [rest EXCEPT ![p] = Resting]
    /\ UNCHANGED <<episodes, activations, userTurns>>

\* The process stops; a step it was in stays as far as it went.
ResterStops(p) ==
    /\ rest[p] # Resting
    /\ rest' = [rest EXCEPT ![p] = Resting]
    /\ UNCHANGED <<episodes, activations, userTurns>>

-----------------------------------------------------------------------------
\* The intensity has halved often enough.
Fade(i) ==
    /\ episodes[i].status = "active" /\ ~episodes[i].faint
    /\ episodes' = [episodes EXCEPT ![i].faint = TRUE]
    /\ UNCHANGED <<activations, rest, userTurns>>

\* A turn of the user (resolve_all): never within a step of its own process.
UserTurn ==
    /\ userTurns < MaxUserTurns /\ rest[Host] = Resting
    /\ userTurns' = userTurns + 1
    /\ episodes' = [i \in DOMAIN episodes |->
                      IF i \in Felt THEN [episodes[i] EXCEPT !.status = "resolved"] ELSE episodes[i]]
    /\ UNCHANGED <<activations, rest>>

RestNext ==
    \/ \E p \in Resters :
          \/ BeginStep(p) \/ ExpireDecayed(p) \/ AppendRestingEvent(p) \/ RecordActivation(p)
          \/ DeriveEmotions(p) \/ PassOver(p) \/ InsertEpisode(p) \/ EndStep(p) \/ ResterStops(p)
    \/ \E i \in DOMAIN episodes : Fade(i)
    \/ UserTurn

RestSpec == RestInit /\ [][RestNext]_restVars

-----------------------------------------------------------------------------
RestTypeOK ==
    /\ \A i \in DOMAIN episodes :
          /\ episodes[i].type \in Range(EmotionTypes)
          /\ episodes[i].status \in {"active", "expired", "resolved"}
    /\ Len(activations) <= MaxSteps
    /\ \A p \in Resters :
          rest[p].phase \in {"none", "expiring", "appending", "recording", "deriving"}
    /\ userTurns \in 0 .. MaxUserTurns

\* An emotion has its event and all the activations it was derived from.
EmotionsAreTraced == \A i \in DOMAIN episodes : activations[episodes[i].step] = Radius

\* Two active emotions of one type were derived by two processes.
EmotionTwinsAreForeign ==
    \A i, j \in Felt : i # j /\ episodes[i].type = episodes[j].type => episodes[i].by # episodes[j].by

\* What is active was derived after the last turn of the user, or by a process
\* that did not take that turn.
EmotionsAreOfNow == \A i \in Felt : episodes[i].by = Host => episodes[i].since = userTurns

\* An emotion that has ended stays as it ended.
EndedStays ==
    [][\A i \in DOMAIN episodes :
          episodes[i].status # "active" => episodes'[i].status = episodes[i].status]_restVars
=============================================================================
