------------------------------- MODULE WorldWatch -------------------------------
(***************************************************************************)
(* What the life notices of its surroundings                               *)
(* (services/world_observation_service.py and the job world.observe): each *)
(* source gives a signal with a key, and a key is observed once: an event, *)
(* then an observation.  Every process watches for a conversation of its   *)
(* own, but the keys are of all of them.                                   *)
(***************************************************************************)
EXTENDS Naturals, Sequences, FiniteSets, Functions

CONSTANTS
    Watchers,
    Sources,       \* the sources, in the order they are asked
    Keys,          \* Keys[s]: the keys source s gives, and NoSignal if it may give none
    NoSignal,
    Material,      \* the keys of signals that matter at once
    MaxTurnsOfWorld  \* bound on the changes of the world

ASSUME WorldAssumption ==
    /\ Sources \in Seq(DOMAIN Keys)
    /\ \A s \in Range(Sources) : Keys[s] \ {NoSignal} # {}
    /\ NoSignal \notin Material
    /\ MaxTurnsOfWorld \in Nat

VARIABLES
    world,      \* world[s]: the key source s gives now
    changes,
    noted,      \* the keys of the events
    observed,   \* the observations: whose each is
    watch,      \* the pass each process is in
    followed,   \* material keys after which the next jobs were brought forward
    cutKeys,    \* keys at which a process was stopped between event and observation
    cutPasses   \* the material signals stored in passes that did not end

worldVars == <<world, changes, noted, observed, watch, followed, cutKeys, cutPasses>>

Away == [phase |-> "away"]

WorldInit ==
    /\ world = [s \in Range(Sources) |-> CHOOSE k \in Keys[s] : k # NoSignal]
    /\ changes = 0
    /\ noted = {} /\ observed = <<>>
    /\ watch = [p \in Watchers |-> Away]
    /\ followed = {} /\ cutKeys = {} /\ cutPasses = {}

\* A phase of the day begins, a file is written, moved or put back.
WorldChanges ==
    /\ changes < MaxTurnsOfWorld
    /\ changes' = changes + 1
    /\ \E s \in Range(Sources) : \E k \in Keys[s] \ {world[s]} : world' = [world EXCEPT ![s] = k]
    /\ UNCHANGED <<noted, observed, watch, followed, cutKeys, cutPasses>>

\* observe: the signals are taken at once.
BeginPass(p) ==
    /\ watch[p] = Away
    /\ LET signals == [i \in DOMAIN Sources |-> world[Sources[i]]]
       IN  watch' = [watch EXCEPT ![p] = [phase |-> "looking", left |-> signals,
                                          saw |-> Range(signals) \ {NoSignal}, stored |-> {}]]
    /\ UNCHANGED <<world, changes, noted, observed, followed, cutKeys, cutPasses>>

Signal(p) == Head(watch[p].left)

\* find_by_dedup; a source that is silent gives nothing to look up.
Look(p) ==
    /\ watch[p].phase = "looking" /\ watch[p].left # <<>>
    /\ watch' = IF Signal(p) \in DOMAIN observed \cup {NoSignal}
                  THEN [watch EXCEPT ![p].left = Tail(@)]
                  ELSE [watch EXCEPT ![p].phase = "appending"]
    /\ UNCHANGED <<world, changes, noted, observed, followed, cutKeys, cutPasses>>

AppendEvent(p) ==
    /\ watch[p].phase = "appending" /\ Signal(p) \notin noted
    /\ noted' = noted \cup {Signal(p)}
    /\ watch' = [watch EXCEPT ![p].phase = "inserting"]
    /\ UNCHANGED <<world, changes, observed, followed, cutKeys, cutPasses>>

Observe(k, p) == observed' = [x \in DOMAIN observed \cup {k} |-> IF x = k THEN p ELSE observed[x]]

Insert(p) ==
    /\ watch[p].phase = "inserting"
    /\ Observe(Signal(p), p)
    /\ LET stored == watch[p].stored \cup ({Signal(p)} \cap Material)
       IN  watch' = [watch EXCEPT ![p].phase = "looking", ![p].left = Tail(@), ![p].stored = stored]
    /\ UNCHANGED <<world, changes, noted, followed, cutKeys, cutPasses>>

\* The event exists (DuplicateEventError): the job fails, the signals that are
\* left are not looked at.
PassFails(p) ==
    /\ watch[p].phase = "appending" /\ Signal(p) \in noted
    /\ watch' = [watch EXCEPT ![p] = Away]
    /\ cutPasses' = cutPasses \cup watch[p].stored
    /\ UNCHANGED <<world, changes, noted, observed, followed, cutKeys>>

\* _world_observe brings the next jobs forward if a signal stored in this pass
\* is material.
EndPass(p) ==
    /\ watch[p].phase = "looking" /\ watch[p].left = <<>>
    /\ followed' = followed \cup watch[p].stored
    /\ watch' = [watch EXCEPT ![p] = Away]
    /\ UNCHANGED <<world, changes, noted, observed, cutKeys, cutPasses>>

WatcherStops(p) ==
    /\ watch[p] # Away
    /\ cutKeys' = IF watch[p].phase = "inserting" THEN cutKeys \cup {Signal(p)} ELSE cutKeys
    /\ cutPasses' = cutPasses \cup watch[p].stored
    /\ watch' = [watch EXCEPT ![p] = Away]
    /\ UNCHANGED <<world, changes, noted, observed, followed>>

WorldNext ==
    \/ WorldChanges
    \/ \E p \in Watchers :
          BeginPass(p) \/ Look(p) \/ AppendEvent(p) \/ Insert(p) \/ PassFails(p) \/ EndPass(p)
            \/ WatcherStops(p)

WorldSpec == WorldInit /\ [][WorldNext]_worldVars

-----------------------------------------------------------------------------
AllKeys == (UNION {Keys[s] : s \in Range(Sources)}) \ {NoSignal}

WorldTypeOK ==
    /\ \A s \in Range(Sources) : world[s] \in Keys[s]
    /\ noted \subseteq AllKeys
    /\ DOMAIN observed \subseteq AllKeys /\ Range(observed) \subseteq Watchers
    /\ followed \cup cutKeys \cup cutPasses \subseteq AllKeys
    /\ \A p \in Watchers : watch[p].phase \in {"away", "looking", "appending", "inserting"}

\* An event without its observation is one a process is about to store, or was
\* stopped before it stored; only at those, or at a key another process has
\* just taken, can a pass fail.
NotedIsObserved ==
    /\ DOMAIN observed \subseteq noted
    /\ noted \ DOMAIN observed
         = cutKeys \cup {Signal(p) : p \in {q \in Watchers : watch[q].phase = "inserting"}}

\* A material observation has had its follow-up, or will when its pass ends,
\* unless that pass was cut: it is not made again.
MaterialIsFollowed ==
    DOMAIN observed \cap Material \subseteq
        followed \cup cutPasses \cup UNION {watch[p].stored : p \in {q \in Watchers : watch[q] # Away}}

\* A pass that ends has observed all that it saw; one that fails meets a key of
\* another pass, or one that stays without its observation.
WorldIsTold ==
    [][\A p \in Watchers :
          /\ EndPass(p) => watch[p].saw \subseteq DOMAIN observed
          /\ PassFails(p) => \/ Signal(p) \in cutKeys \cup DOMAIN observed
                             \/ \E q \in Watchers \ {p} : watch[q].phase = "inserting" /\ Signal(q) = Signal(p)
      ]_worldVars
=============================================================================
