----------------------------- MODULE MessageProofs -----------------------------
(***************************************************************************)
(* Proofs about the two ways in which a message is written: the turn of a  *)
(* chat (ChatTurn), for every set of processes and turns, and the outbox   *)
(* of what the program says of its own accord (OutboxDelivery), for every  *)
(* number of messages, processes, attempts and crashes: what a delivery    *)
(* may rely on, and that the outbox implements the abstract delivery of    *)
(* messages.                                                               *)
(***************************************************************************)
EXTENDS ChatTurn, OutboxDelivery, FiniteSetTheorems, TLAPS

(***************************************************************************)
(* ChatTurn: the turns, their locks and the states they leave.             *)
(***************************************************************************)
\* What is stored when a turn has come to a place.
Reached ==
    /\ \A t \in Turns : at[t] \in (Holding \ {"begin"}) \cup {"done"} => t \in user
    /\ \A t \in Turns :
         at[t] \in {"reply", "reply_relationship", "trace", "done"} => t \in agent
    /\ \A t \in Turns : thread[t] # "none" => t \in agent
    /\ \A p \in Processes : pending[p] \subseteq agent

TypeInv == TypeOK /\ Reached

LEMMA Appended ==
    ASSUME NEW S, NEW log \in Seq(S), NEW v \in S
    PROVE  /\ Append(log, v) \in Seq(S)
           /\ Len(log) \in Nat
           /\ Len(Append(log, v)) = Len(log) + 1
           /\ DOMAIN log = 1 .. Len(log)
           /\ DOMAIN Append(log, v) = 1 .. Len(log) + 1
           /\ \A i \in 1 .. Len(log) : Append(log, v)[i] = log[i]
           /\ Append(log, v)[Len(log) + 1] = v
  OBVIOUS

LEMMA HomeType == \A t \in Turns : Home[t] \in Processes
  BY ChatAssumption

LEMMA VersionType ==
    ASSUME NEW t \in Turns, NEW k \in {"initial", "reply", "defer"}, NEW b \in Nat
    PROVE  Version(t, k, b) \in Versions
  BY HomeType DEF Version, Versions

LEMMA SeenType ==
    ASSUME TypeOK, NEW t \in Turns, NEW n \in Nat
    PROVE  /\ [seen EXCEPT ![t].organism = n]
                \in [Turns -> [organism : Nat, relationship : Nat]]
           /\ [seen EXCEPT ![t].relationship = n]
                \in [Turns -> [organism : Nat, relationship : Nat]]
           /\ seen[t].organism \in Nat
           /\ seen[t].relationship \in Nat
           /\ Len(organism) \in Nat
           /\ Len(relationship) \in Nat
  BY DEF TypeOK

LEMMA SectionType ==
    ASSUME TypeOK, NEW p \in Processes
    PROVE  /\ [section EXCEPT ![p].open = TRUE]
                \in [Processes -> [turn : Turns \cup {NoTurn}, head : Nat, open : BOOLEAN]]
           /\ [section EXCEPT ![p] = NoSection]
                \in [Processes -> [turn : Turns \cup {NoTurn}, head : Nat, open : BOOLEAN]]
  BY DEF TypeOK, NoSection

LEMMA LearnerType ==
    ASSUME TypeOK, NEW t
    PROVE  [learner EXCEPT ![t] = "ended"] \in [Turns -> {"none", "learning", "ended"}]
  BY DEF TypeOK

LEMMA TypeStep == TypeInv /\ [Next]_vars => TypeInv'
  <1> SUFFICES ASSUME TypeInv, [Next]_vars PROVE TypeInv'
    OBVIOUS
  <1> USE DEF TypeInv, TypeOK, Reached, Holding
  <1>1. ASSUME NEW t \in Turns, Send(t) PROVE TypeInv'
    BY <1>1, HomeType, Appended DEF Send, Go, Raise, session, events, states, archive, learning
  <1>2. ASSUME NEW t \in Turns, Observe(t) PROVE TypeInv'
    BY <1>2, HomeType, Appended DEF Observe, Go, Raise, session, events, states, archive, learning
  <1>3. ASSUME NEW t \in Turns, Appraise(t) PROVE TypeInv'
    BY <1>3, HomeType, Appended DEF Appraise, Go, Raise, session, events, states, archive, learning
  <1>4. ASSUME NEW t \in Turns, Cancel(t) PROVE TypeInv'
    BY <1>4, HomeType, Appended DEF Cancel, Go, Raise, session, events, states, archive, learning
  <1>5. ASSUME NEW t \in Turns, EnsureOrganism(t) PROVE TypeInv'
    <2>1. CASE organism = << >>
      <3>1. at' = [at EXCEPT ![t] = "new_organism"]
        BY <1>5, <2>1 DEF EnsureOrganism, Go
      <3>2. QED
        BY <1>5, <3>1, SeenType DEF EnsureOrganism, session, events, states, archive, learning
    <2>2. CASE organism # << >>
      <3>1. at' = [at EXCEPT ![t] = "relationship"]
        BY <1>5, <2>2 DEF EnsureOrganism, Go
      <3>2. QED
        BY <1>5, <3>1, SeenType DEF EnsureOrganism, session, events, states, archive, learning
    <2>3. QED
      BY <2>1, <2>2
  <1>6. ASSUME NEW t \in Turns, CreateOrganism(t) PROVE TypeInv'
    <2>1. Append(organism, Version(t, "initial", 0)) \in Seq(Versions)
      BY VersionType, Appended
    <2>2. CASE Appends(organism, 0)
      <3>1. at' = [at EXCEPT ![t] = "relationship"]
        BY <1>6, <2>2 DEF CreateOrganism, Go
      <3>2. organism' \in Seq(Versions)
        BY <1>6, <2>1, <2>2 DEF CreateOrganism
      <3>3. seen' \in [Turns -> [organism : Nat, relationship : Nat]]
        <4>1. 1 \in Nat
          OBVIOUS
        <4>2. seen' = [seen EXCEPT ![t].organism = 1]
          BY <1>6, <2>2 DEF CreateOrganism
        <4>3. QED
          BY <4>1, <4>2, SeenType
      <3>4. QED
        BY <1>6, <3>1, <3>2, <3>3 DEF CreateOrganism, session, events, states, archive, learning
    <2>3. CASE ~Appends(organism, 0)
      BY <1>6, <2>3 DEF CreateOrganism, Raise, Go, session, events, states, archive, learning
    <2>4. QED
      BY <2>2, <2>3
  <1>7. ASSUME NEW t \in Turns, EnsureRelationship(t) PROVE TypeInv'
    <2>1. CASE relationship = << >>
      <3>1. at' = [at EXCEPT ![t] = "new_relationship"]
        BY <1>7, <2>1 DEF EnsureRelationship, Go
      <3>2. QED
        BY <1>7, <3>1, SeenType DEF EnsureRelationship, session, events, states, archive, learning
    <2>2. CASE relationship # << >>
      <3>1. at' = [at EXCEPT ![t] = "appraise"]
        BY <1>7, <2>2 DEF EnsureRelationship, Go
      <3>2. QED
        BY <1>7, <3>1, SeenType DEF EnsureRelationship, session, events, states, archive, learning
    <2>3. QED
      BY <2>1, <2>2
  <1>8. ASSUME NEW t \in Turns, CreateRelationship(t) PROVE TypeInv'
    <2>1. Append(relationship, Version(t, "initial", 0)) \in Seq(Versions)
      BY VersionType, Appended
    <2>2. CASE Appends(relationship, 0)
      <3>1. at' = [at EXCEPT ![t] = "appraise"]
        BY <1>8, <2>2 DEF CreateRelationship, Go
      <3>2. relationship' \in Seq(Versions)
        BY <1>8, <2>1, <2>2 DEF CreateRelationship
      <3>3. seen' \in [Turns -> [organism : Nat, relationship : Nat]]
        <4>1. 1 \in Nat
          OBVIOUS
        <4>2. seen' = [seen EXCEPT ![t].relationship = 1]
          BY <1>8, <2>2 DEF CreateRelationship
        <4>3. QED
          BY <4>1, <4>2, SeenType
      <3>4. QED
        BY <1>8, <3>1, <3>2, <3>3 DEF CreateRelationship, session, events, states, archive, learning
    <2>3. CASE ~Appends(relationship, 0)
      BY <1>8, <2>3 DEF CreateRelationship, Raise, Go, session, events, states, archive, learning
    <2>4. QED
      BY <2>2, <2>3
  <1>9. ASSUME NEW t \in Turns, Answer(t) PROVE TypeInv'
    BY <1>9, HomeType, Appended DEF Answer, Go, Raise, session, events, states, archive, learning
  <1>10. ASSUME NEW t \in Turns, NoAnswer(t) PROVE TypeInv'
    BY <1>10, HomeType, Appended DEF NoAnswer, Go, Raise, session, events, states, archive, learning
  <1>11. ASSUME NEW t \in Turns, AdvanceOrganism(t) PROVE TypeInv'
    <2>1. at[t] \in {"reply", "defer"}
      BY <1>11 DEF AdvanceOrganism
    <2>2. Append(organism, Version(t, at[t], seen[t].organism)) \in Seq(Versions)
      BY <2>1, SeenType, VersionType, Appended
    <2>3. CASE Appends(organism, seen[t].organism)
      <3>1. organism' \in Seq(Versions)
        BY <1>11, <2>2, <2>3 DEF AdvanceOrganism
      <3>2. CASE at[t] = "reply"
        <4>1. at' = [at EXCEPT ![t] = "reply_relationship"]
          BY <1>11, <2>3, <3>2 DEF AdvanceOrganism, Go
        <4>2. QED
          BY <1>11, <3>1, <3>2, <4>1 DEF AdvanceOrganism, session, events, states, archive, learning
      <3>3. CASE at[t] = "defer"
        <4>1. at' = [at EXCEPT ![t] = "defer_relationship"]
          BY <1>11, <2>3, <3>3 DEF AdvanceOrganism, Go
        <4>2. QED
          BY <1>11, <3>1, <3>3, <4>1 DEF AdvanceOrganism, session, events, states, archive, learning
      <3>4. QED
        BY <2>1, <3>2, <3>3
    <2>4. CASE ~Appends(organism, seen[t].organism)
      BY <1>11, <2>4 DEF AdvanceOrganism, Raise, Go, session, events, states, archive, learning
    <2>5. QED
      BY <2>3, <2>4
  <1>12. ASSUME NEW t \in Turns, AdvanceRelationship(t) PROVE TypeInv'
    <2>1. /\ Append(relationship, Version(t, "reply", seen[t].relationship)) \in Seq(Versions)
          /\ Append(relationship, Version(t, "defer", seen[t].relationship)) \in Seq(Versions)
      BY SeenType, VersionType, Appended
    <2>2. CASE at[t] = "reply_relationship" /\ Appends(relationship, seen[t].relationship)
      <3>1. /\ relationship' \in Seq(Versions)
            /\ thread' = [thread EXCEPT ![t] = "running"]
            /\ at' = [at EXCEPT ![t] = "trace"]
        BY <1>12, <2>1, <2>2 DEF AdvanceRelationship, Go
      <3>2. QED
        BY <1>12, <2>2, <3>1 DEF AdvanceRelationship, session, events, states, archive, learning
    <2>3. CASE at[t] = "defer_relationship" /\ Appends(relationship, seen[t].relationship)
      <3>1. /\ relationship' \in Seq(Versions)
            /\ thread' = thread
            /\ at' = [at EXCEPT ![t] = "failed"]
        BY <1>12, <2>1, <2>3 DEF AdvanceRelationship, Raise, Go
      <3>2. QED
        BY <1>12, <3>1 DEF AdvanceRelationship, session, events, states, archive, learning
    <2>4. CASE ~Appends(relationship, seen[t].relationship)
      BY <1>12, <2>4 DEF AdvanceRelationship, Raise, Go, session, events, states, archive, learning
    <2>5. QED
      BY <1>12, <2>2, <2>3, <2>4 DEF AdvanceRelationship
  <1>13. ASSUME NEW t \in Turns, WriteTrace(t) PROVE TypeInv'
    <2>1. t \in agent
      BY <1>13 DEF WriteTrace
    <2>2. /\ traces' \in SUBSET agent
          /\ unsaved' \in [Processes -> SUBSET Turns]
      <3>1. unsaved[Home[t]] \cup {t} \in SUBSET Turns
        BY HomeType
      <3>2. (IF section[Home[t]].open THEN unsaved[Home[t]] \cup {t} ELSE unsaved[Home[t]])
              \in SUBSET Turns
        BY <3>1
      <3>3. unsaved' \in [Processes -> SUBSET Turns]
        <4>1. CASE unsaved' = unsaved
          BY <4>1
        <4>2. CASE unsaved' = [unsaved EXCEPT ![Home[t]] =
                     IF section[Home[t]].open THEN unsaved[Home[t]] \cup {t}
                                              ELSE unsaved[Home[t]]]
          BY <3>2, <4>2
        <4>3. QED
          BY <1>13, <4>1, <4>2 DEF WriteTrace
      <3>4. QED
        BY <1>13, <2>1, <3>3 DEF WriteTrace
    <2>3. thread' = [thread EXCEPT ![t] = "returned"] \/ thread' = [thread EXCEPT ![t] = "failed"]
      BY <1>13 DEF WriteTrace
    <2>4. QED
      BY <1>13, <2>1, <2>2, <2>3 DEF WriteTrace, session, events, states, archive, learning
  <1>14. ASSUME NEW t \in Turns, Capture(t) PROVE TypeInv'
    <2>1. CASE thread[t] = "returned" /\ learner' = [learner EXCEPT ![t] = "learning"]
                 /\ at' = [at EXCEPT ![t] = "done"]
      BY <1>14, <2>1 DEF Capture, session, events, states, archive, learning
    <2>2. CASE learner' = learner /\ at' = [at EXCEPT ![t] = "failed"]
      BY <1>14, <2>2 DEF Capture, session, events, states, archive, learning
    <2>3. QED
      BY <1>14, <2>1, <2>2 DEF Capture, Raise, Go
  <1>15. ASSUME NEW t \in Turns, LearnNothing(t) PROVE TypeInv'
    <2>1. learner' \in [Turns -> {"none", "learning", "ended"}]
      BY <1>15, LearnerType DEF LearnNothing, EndLearning
    <2>2. QED
      BY <1>15, <2>1 DEF LearnNothing, session, events, states, archive, learning
  <1>16. ASSUME NEW t \in Turns, ReadHead(t) PROVE TypeInv'
    BY <1>16, HomeType, Appended DEF ReadHead, Go, Raise, session, events, states, archive, learning
  <1>17. ASSUME NEW p \in Processes, TickRead(p) PROVE TypeInv'
    BY <1>17, HomeType, Appended DEF TickRead, Go, Raise, session, events, states, archive, learning
  <1>18. ASSUME NEW p \in Processes, TickAppend(p) PROVE TypeInv'
    <2>1. CASE organism' = organism
      BY <1>18, <2>1 DEF TickAppend, session, events, states, archive, learning
    <2>2. CASE organism' = Append(organism,
                 [cause |-> Clock, by |-> p, kind |-> "time", base |-> ticking[p]])
      <3>1. [cause |-> Clock, by |-> p, kind |-> "time", base |-> ticking[p]] \in Versions
        BY <1>18 DEF TickAppend, Versions
      <3>2. organism' \in Seq(Versions)
        BY <2>2, <3>1, Appended
      <3>3. QED
        BY <1>18, <3>2 DEF TickAppend, session, events, states, archive, learning
    <2>3. QED
      BY <1>18, <2>1, <2>2 DEF TickAppend
  <1>19. ASSUME NEW p \in Processes, OpenSavepoint(p) PROVE TypeInv'
    <2>1. section' \in [Processes -> [turn : Turns \cup {NoTurn}, head : Nat, open : BOOLEAN]]
      BY <1>19, SectionType DEF OpenSavepoint
    <2>2. QED
      BY <1>19, <2>1 DEF OpenSavepoint, session, events, states, archive, learning
  <1>20. ASSUME NEW p \in Processes, AppendBelief(p) PROVE TypeInv'
    <2>1. /\ section' \in [Processes -> [turn : Turns \cup {NoTurn}, head : Nat, open : BOOLEAN]]
          /\ learner' \in [Turns -> {"none", "learning", "ended"}]
      BY <1>20, SectionType, LearnerType DEF AppendBelief, EndLearning
    <2>2. beliefs' \in Seq(Processes) /\ traces' \in SUBSET agent
      <3>1. traces' = traces \/ traces' = traces \ unsaved[p]
        BY <1>20 DEF AppendBelief
      <3>2. beliefs' = beliefs \/ beliefs' = Append(beliefs, p)
        BY <1>20 DEF AppendBelief
      <3>3. Append(beliefs, p) \in Seq(Processes)
        BY Appended
      <3>4. QED
        BY <3>1, <3>2, <3>3
    <2>3. unsaved' \in [Processes -> SUBSET Turns]
      BY <1>20 DEF AppendBelief
    <2>4. QED
      BY <1>20, <2>1, <2>2, <2>3 DEF AppendBelief, session, events, states, archive, learning
  <1>21. ASSUME NEW p \in Processes, Start(p) PROVE TypeInv'
    <2>1. Answered(p) \in SUBSET Turns /\ Answered(p) \subseteq agent
      BY DEF Answered, Own
    <2>2. /\ pending' \in [Processes -> SUBSET Turns]
          /\ \A q \in Processes : pending'[q] \subseteq agent
      BY <1>21, <2>1 DEF Start
    <2>3. QED
      BY <1>21, <2>2 DEF Start, session, events, states, archive, learning
  <1>22. ASSUME NEW p \in Processes, Ready(p) PROVE TypeInv'
    BY <1>22, HomeType, Appended DEF Ready, Go, Raise, session, events, states, archive, learning
  <1>23. ASSUME NEW p \in Processes, Stop(p) PROVE TypeInv'
    <2>1. /\ at' \in [Turns -> Holding \cup {"unsent", "done", "failed"}]
          /\ \A t \in Turns : at'[t] = at[t] \/ at'[t] = "failed"
      BY <1>23 DEF Stop
    <2>2. /\ thread' \in [Turns -> {"none", "running", "returned", "failed"}]
          /\ \A t \in Turns : thread'[t] # "none" => thread[t] # "none"
      BY <1>23 DEF Stop
    <2>3. learner' \in [Turns -> {"none", "learning", "ended"}]
      BY <1>23 DEF Stop
    <2>4. section' \in [Processes -> [turn : Turns \cup {NoTurn}, head : Nat, open : BOOLEAN]]
      BY <1>23, SectionType DEF Stop
    <2>5. stops' \in 0 .. MaxStops
      BY <1>23, ChatAssumption DEF Stop
    <2>6. /\ up' \in [Processes -> {"down", "backfill", "ready"}]
          /\ ticking' \in [Processes -> Nat \cup {-1}]
          /\ traces' \in SUBSET agent
          /\ unsaved' \in [Processes -> SUBSET Turns]
          /\ pending' \in [Processes -> SUBSET Turns]
          /\ \A q \in Processes : pending'[q] \subseteq agent
      BY <1>23 DEF Stop
    <2>7. UNCHANGED <<seen, user, agent, organism, relationship, beliefs>>
      BY <1>23 DEF Stop, events, states
    <2>8. QED
      BY <2>1, <2>2, <2>3, <2>4, <2>5, <2>6, <2>7
  <1>24. ASSUME NEW p \in Processes, NEW t \in Turns, Backfill(p, t) PROVE TypeInv'
    BY <1>24, HomeType, Appended DEF Backfill, Go, Raise, session, events, states, archive, learning
  <1>25. CASE UNCHANGED vars
    BY <1>25 DEF vars, session, events, states, archive, learning
  <1>26. QED
    BY <1>1, <1>2, <1>3, <1>4, <1>5, <1>6, <1>7, <1>8, <1>9, <1>10, <1>11, <1>12, <1>13, <1>14, <1>15, <1>16, <1>17, <1>18, <1>19, <1>20, <1>21, <1>22, <1>23, <1>24, <1>25 DEF Next

-----------------------------------------------------------------------------
(***************************************************************************)
(* What a step does to the places of the turns, to the versions they have  *)
(* read and to the logs.                                                   *)
(***************************************************************************)
OrganismRead == {"relationship", "new_relationship", "appraise", "complete",
                 "reply", "defer"}
RelationshipRead == {"appraise", "complete", "reply", "defer",
                     "reply_relationship", "defer_relationship"}

RelationshipMoved == {"trace", "done", "failed"}
OrganismMoved == {"reply_relationship", "defer_relationship"} \cup RelationshipMoved

\* Only the holder of the lock proceeds, and no turn goes back.
PlaceStep ==
    /\ \A t \in Turns :
         /\ at'[t] \in Holding => \/ at[t] \in Holding
                                  \/ /\ LockFree(Home[t])
                                     /\ \A u \in Turns \ {t} : at'[u] = at[u]
         /\ at[t] \in OrganismMoved => at'[t] \in OrganismMoved
         /\ at[t] \in RelationshipMoved => at'[t] \in RelationshipMoved
    /\ \A p \in Processes :
         ticking'[p] \in {-1, ticking[p]} \/ (LockFree(p) /\ UNCHANGED at)

\* A turn keeps what it has read, or has just read the last version.
SeenStep ==
    \A t \in Turns :
        /\ at'[t] \in OrganismRead =>
             /\ at[t] \in Holding
             /\ \/ at[t] \in OrganismRead /\ seen'[t].organism = seen[t].organism
                \/ seen'[t].organism = Len(organism')
        /\ at'[t] \in RelationshipRead =>
             /\ at[t] \in Holding
             /\ \/ /\ at[t] \in RelationshipRead
                   /\ seen'[t].relationship = seen[t].relationship
                \/ seen'[t].relationship = Len(relationship')

\* A version is computed from the last one, moves the state for a turn that has
\* not moved it, and is appended by who has the lock of its process.
OrganismStep ==
    \/ UNCHANGED organism
    \/ \E v \in Versions :
         /\ organism' = Append(organism, v)
         /\ v.base = Len(organism)
         /\ v.kind \in Moves => /\ v.cause \in Turns
                                /\ at[v.cause] \in {"reply", "defer"}
                                /\ at'[v.cause] \in OrganismMoved
         /\ \/ ticking[v.by] >= 0
            \/ \E t \in Turns :
                 /\ Home[t] = v.by
                 /\ at[t] \in Holding
                 /\ \/ at'[t] \notin OrganismRead
                    \/ seen'[t].organism = Len(organism) + 1

RelationshipStep ==
    \/ UNCHANGED relationship
    \/ \E v \in Versions :
         /\ relationship' = Append(relationship, v)
         /\ v.base = Len(relationship)
         /\ v.kind \in Moves =>
              /\ v.cause \in Turns
              /\ at[v.cause] \in {"reply_relationship", "defer_relationship"}
              /\ at'[v.cause] \in RelationshipMoved
         /\ \E t \in Turns :
              /\ Home[t] = v.by
              /\ at[t] \in Holding
              /\ \/ at'[t] \notin RelationshipRead
                 \/ seen'[t].relationship = Len(relationship) + 1

StepFacts == PlaceStep /\ SeenStep /\ OrganismStep /\ RelationshipStep

LEMMA Steps == TypeOK /\ [Next]_vars => StepFacts
  <1> SUFFICES ASSUME TypeOK, [Next]_vars PROVE StepFacts
    OBVIOUS
  <1> USE DEF StepFacts, PlaceStep, SeenStep, OrganismStep, RelationshipStep, TypeOK,
              Holding, OrganismRead, RelationshipRead, OrganismMoved, RelationshipMoved
  <1>1. ASSUME NEW t \in Turns, Send(t) PROVE StepFacts
    BY <1>1 DEF Send, Go, Raise, states
  <1>2. ASSUME NEW t \in Turns, Observe(t) PROVE StepFacts
    BY <1>2 DEF Observe, Go, Raise, states
  <1>3. ASSUME NEW t \in Turns, Appraise(t) PROVE StepFacts
    BY <1>3 DEF Appraise, Go, Raise, states
  <1>4. ASSUME NEW t \in Turns, Cancel(t) PROVE StepFacts
    BY <1>4 DEF Cancel, Go, Raise, states
  <1>5. ASSUME NEW t \in Turns, EnsureOrganism(t) PROVE StepFacts
    <2>1. /\ at[t] = "organism"
          /\ at' = [at EXCEPT ![t] = "new_organism"] \/ at' = [at EXCEPT ![t] = "relationship"]
          /\ seen' = [seen EXCEPT ![t].organism = Len(organism)]
          /\ UNCHANGED <<ticking, organism, relationship>>
      BY <1>5 DEF EnsureOrganism, Go, states
    <2>2. PlaceStep /\ SeenStep
      BY <2>1
    <2>3. QED
      BY <2>1, <2>2
  <1>6. ASSUME NEW t \in Turns, CreateOrganism(t) PROVE StepFacts
    <2>1. at[t] = "new_organism" /\ UNCHANGED <<ticking, relationship>>
      BY <1>6 DEF CreateOrganism
    <2>2. CASE Appends(organism, 0)
      <3> DEFINE v == Version(t, "initial", 0)
      <3>1. /\ organism' = Append(organism, v)
            /\ seen' = [seen EXCEPT ![t].organism = 1]
            /\ at' = [at EXCEPT ![t] = "relationship"]
            /\ Len(organism) = 0
        BY <1>6, <2>2 DEF CreateOrganism, Go, Appends
      <3>2. /\ v \in Versions
            /\ v.base = Len(organism)
            /\ v.kind \notin Moves
            /\ v.by = Home[t]
        <4>1. v.base = 0 /\ v.kind = "initial" /\ v.by = Home[t]
          BY DEF Version
        <4>2. v \in Versions
          BY VersionType
        <4>3. QED
          BY <3>1, <4>1, <4>2 DEF Moves
      <3>3. Len(organism') = 1
        BY <3>1, <3>2, Appended
      <3>4. PlaceStep /\ SeenStep
        BY <2>1, <3>1, <3>3
      <3>5. OrganismStep
        <4>1. seen'[t].organism = Len(organism) + 1 /\ at[t] \in Holding
          BY <2>1, <3>1
        <4>2. QED
          BY <3>1, <3>2, <4>1
      <3>6. QED
        BY <2>1, <3>4, <3>5
    <2>3. CASE ~Appends(organism, 0)
      <3>1. at' = [at EXCEPT ![t] = "failed"] /\ UNCHANGED <<seen, organism>>
        BY <1>6, <2>3 DEF CreateOrganism, Raise, Go
      <3>2. QED
        BY <2>1, <3>1
    <2>4. QED
      BY <2>2, <2>3
  <1>7. ASSUME NEW t \in Turns, EnsureRelationship(t) PROVE StepFacts
    <2>1. /\ at[t] = "relationship"
          /\ at' = [at EXCEPT ![t] = "new_relationship"] \/ at' = [at EXCEPT ![t] = "appraise"]
          /\ seen' = [seen EXCEPT ![t].relationship = Len(relationship)]
          /\ UNCHANGED <<ticking, organism, relationship>>
      BY <1>7 DEF EnsureRelationship, Go, states
    <2>2. PlaceStep /\ SeenStep
      BY <2>1
    <2>3. QED
      BY <2>1, <2>2
  <1>8. ASSUME NEW t \in Turns, CreateRelationship(t) PROVE StepFacts
    <2>1. at[t] = "new_relationship" /\ UNCHANGED <<ticking, organism>>
      BY <1>8 DEF CreateRelationship
    <2>2. CASE Appends(relationship, 0)
      <3> DEFINE v == Version(t, "initial", 0)
      <3>1. /\ relationship' = Append(relationship, v)
            /\ seen' = [seen EXCEPT ![t].relationship = 1]
            /\ at' = [at EXCEPT ![t] = "appraise"]
            /\ Len(relationship) = 0
        BY <1>8, <2>2 DEF CreateRelationship, Go, Appends
      <3>2. /\ v \in Versions
            /\ v.base = Len(relationship)
            /\ v.kind \notin Moves
            /\ v.by = Home[t]
        <4>1. v.base = 0 /\ v.kind = "initial" /\ v.by = Home[t]
          BY DEF Version
        <4>2. v \in Versions
          BY VersionType
        <4>3. QED
          BY <3>1, <4>1, <4>2 DEF Moves
      <3>3. Len(relationship') = 1
        BY <3>1, <3>2, Appended
      <3>4. PlaceStep /\ SeenStep
        BY <2>1, <3>1, <3>3
      <3>5. RelationshipStep
        <4>1. seen'[t].relationship = Len(relationship) + 1 /\ at[t] \in Holding
          BY <2>1, <3>1
        <4>2. QED
          BY <3>1, <3>2, <4>1
      <3>6. QED
        BY <2>1, <3>4, <3>5
    <2>3. CASE ~Appends(relationship, 0)
      <3>1. at' = [at EXCEPT ![t] = "failed"] /\ UNCHANGED <<seen, relationship>>
        BY <1>8, <2>3 DEF CreateRelationship, Raise, Go
      <3>2. QED
        BY <2>1, <3>1
    <2>4. QED
      BY <2>2, <2>3
  <1>9. ASSUME NEW t \in Turns, Answer(t) PROVE StepFacts
    BY <1>9 DEF Answer, Go, Raise, states
  <1>10. ASSUME NEW t \in Turns, NoAnswer(t) PROVE StepFacts
    BY <1>10 DEF NoAnswer, Go, Raise, states
  <1>11. ASSUME NEW t \in Turns, AdvanceOrganism(t) PROVE StepFacts
    <2>1. at[t] \in {"reply", "defer"} /\ UNCHANGED <<ticking, seen, relationship>>
      BY <1>11 DEF AdvanceOrganism
    <2>2. CASE Appends(organism, seen[t].organism)
      <3> DEFINE v == Version(t, at[t], seen[t].organism)
      <3>1. /\ organism' = Append(organism, v)
            /\ \/ at' = [at EXCEPT ![t] = "reply_relationship"]
               \/ at' = [at EXCEPT ![t] = "defer_relationship"]
        BY <1>11, <2>2 DEF AdvanceOrganism, Go
      <3>2. /\ v \in Versions
            /\ v.base = Len(organism)
            /\ v.cause = t
            /\ v.by = Home[t]
        <4>1. /\ v.base = seen[t].organism
              /\ v.cause = t
              /\ v.by = Home[t]
          BY DEF Version
        <4>2. v \in Versions
          BY <2>1, VersionType, SeenType
        <4>3. QED
          BY <2>2, <4>1, <4>2 DEF Appends
      <3>3. PlaceStep /\ SeenStep
        BY <2>1, <3>1
      <3>4. OrganismStep
        <4>1. at[t] \in Holding /\ at'[t] \notin OrganismRead /\ at'[t] \in OrganismMoved
          BY <2>1, <3>1
        <4>2. QED
          BY <2>1, <3>1, <3>2, <4>1
      <3>5. QED
        BY <2>1, <3>3, <3>4
    <2>3. CASE ~Appends(organism, seen[t].organism)
      <3>1. at' = [at EXCEPT ![t] = "failed"] /\ UNCHANGED organism
        BY <1>11, <2>3 DEF AdvanceOrganism, Raise, Go
      <3>2. QED
        BY <2>1, <3>1
    <2>4. QED
      BY <2>2, <2>3
  <1>12. ASSUME NEW t \in Turns, AdvanceRelationship(t) PROVE StepFacts
    <2>1. /\ at[t] \in {"reply_relationship", "defer_relationship"}
          /\ UNCHANGED <<ticking, seen, organism>>
      BY <1>12 DEF AdvanceRelationship
    <2>2. CASE Appends(relationship, seen[t].relationship)
      <3>1. PICK k \in {"reply", "defer"} :
              relationship' = Append(relationship, Version(t, k, seen[t].relationship))
        BY <1>12, <2>2 DEF AdvanceRelationship
      <3> DEFINE v == Version(t, k, seen[t].relationship)
      <3>2. at' = [at EXCEPT ![t] = "trace"] \/ at' = [at EXCEPT ![t] = "failed"]
        BY <1>12, <2>2 DEF AdvanceRelationship, Raise, Go
      <3>3. /\ v \in Versions
            /\ v.base = Len(relationship)
            /\ v.cause = t
            /\ v.by = Home[t]
        <4>1. /\ v.base = seen[t].relationship
              /\ v.cause = t
              /\ v.by = Home[t]
          BY DEF Version
        <4>2. v \in Versions
          BY VersionType, SeenType
        <4>3. QED
          BY <2>2, <4>1, <4>2 DEF Appends
      <3>4. PlaceStep /\ SeenStep
        BY <2>1, <3>2
      <3>5. RelationshipStep
        <4>1. /\ at[t] \in Holding
              /\ at'[t] \notin RelationshipRead
              /\ at'[t] \in RelationshipMoved
          BY <2>1, <3>2
        <4>2. QED
          BY <2>1, <3>1, <3>3, <4>1
      <3>6. QED
        BY <2>1, <3>4, <3>5
    <2>3. CASE ~Appends(relationship, seen[t].relationship)
      <3>1. at' = [at EXCEPT ![t] = "failed"] /\ UNCHANGED relationship
        BY <1>12, <2>3 DEF AdvanceRelationship, Raise, Go
      <3>2. QED
        BY <2>1, <3>1
    <2>4. QED
      BY <2>2, <2>3
  <1>13. ASSUME NEW t \in Turns, WriteTrace(t) PROVE StepFacts
    BY <1>13 DEF WriteTrace, Go, Raise, states
  <1>14. ASSUME NEW t \in Turns, Capture(t) PROVE StepFacts
    BY <1>14 DEF Capture, Go, Raise, states
  <1>15. ASSUME NEW t \in Turns, LearnNothing(t) PROVE StepFacts
    BY <1>15 DEF LearnNothing, Go, Raise, states
  <1>16. ASSUME NEW t \in Turns, ReadHead(t) PROVE StepFacts
    BY <1>16 DEF ReadHead, Go, Raise, states
  <1>17. ASSUME NEW p \in Processes, TickRead(p) PROVE StepFacts
    BY <1>17 DEF TickRead, Go, Raise, states
  <1>18. ASSUME NEW p \in Processes, TickAppend(p) PROVE StepFacts
    <2>1. /\ ticking[p] >= 0
          /\ ticking' = [ticking EXCEPT ![p] = -1]
          /\ UNCHANGED <<at, seen, relationship>>
      BY <1>18 DEF TickAppend
    <2>2. PlaceStep
      BY <2>1
    <2>3. CASE UNCHANGED organism
      BY <2>1, <2>2, <2>3
    <2>4. CASE organism' # organism
      <3> DEFINE v == [cause |-> Clock, by |-> p, kind |-> "time", base |-> ticking[p]]
      <3>1. organism' = Append(organism, v) /\ v.base = Len(organism)
        BY <1>18, <2>4 DEF TickAppend, Appends
      <3>2. v \in Versions /\ v.kind \notin Moves /\ v.by = p
        BY <2>1 DEF Versions, Moves
      <3>3. OrganismStep
        BY <2>1, <3>1, <3>2
      <3>4. SeenStep
        BY <2>1
      <3>5. QED
        BY <2>1, <2>2, <3>3, <3>4
    <2>5. QED
      BY <2>3, <2>4
  <1>19. ASSUME NEW p \in Processes, OpenSavepoint(p) PROVE StepFacts
    BY <1>19 DEF OpenSavepoint, Go, Raise, states
  <1>20. ASSUME NEW p \in Processes, AppendBelief(p) PROVE StepFacts
    BY <1>20 DEF AppendBelief, Go, Raise, states
  <1>21. ASSUME NEW p \in Processes, Start(p) PROVE StepFacts
    BY <1>21 DEF Start, Go, Raise, states
  <1>22. ASSUME NEW p \in Processes, Ready(p) PROVE StepFacts
    BY <1>22 DEF Ready, Go, Raise, states
  <1>23. ASSUME NEW p \in Processes, Stop(p) PROVE StepFacts
    <2>1. /\ \A t \in Turns : at'[t] = IF Home[t] = p /\ at[t] \in Holding THEN "failed" ELSE at[t]
          /\ ticking' = [ticking EXCEPT ![p] = -1]
          /\ UNCHANGED <<seen, organism, relationship>>
      BY <1>23 DEF Stop, states
    <2>2. QED
      BY <2>1
  <1>24. ASSUME NEW p \in Processes, NEW t \in Turns, Backfill(p, t) PROVE StepFacts
    BY <1>24 DEF Backfill, Go, Raise, states
  <1>25. CASE UNCHANGED vars
    BY <1>25 DEF vars, states
  <1>26. QED
    BY <1>1, <1>2, <1>3, <1>4, <1>5, <1>6, <1>7, <1>8, <1>9, <1>10, <1>11, <1>12, <1>13, <1>14, <1>15, <1>16, <1>17, <1>18, <1>19, <1>20, <1>21, <1>22, <1>23, <1>24, <1>25 DEF Next

-----------------------------------------------------------------------------
(***************************************************************************)
(* The lock, the places of the turns that have moved the state, and the    *)
(* invariants.                                                             *)
(***************************************************************************)
\* One turn or one tick of a process has the send lock.
Exclusive ==
    /\ \A t, u \in Turns :
         Home[t] = Home[u] /\ at[t] \in Holding /\ at[u] \in Holding => t = u
    /\ \A t \in Turns : at[t] \in Holding => ticking[Home[t]] = -1

LEMMA ExclusiveStep == TypeOK /\ Exclusive /\ [Next]_vars => Exclusive'
  <1> SUFFICES ASSUME TypeOK, Exclusive, [Next]_vars PROVE Exclusive'
    OBVIOUS
  <1>1. PlaceStep
    BY Steps DEF StepFacts
  <1>2. ASSUME NEW t \in Turns, NEW u \in Turns, Home[t] = Home[u],
               at'[t] \in Holding, at'[u] \in Holding
        PROVE  t = u
    <2>1. CASE at[t] \in Holding /\ at[u] \in Holding
      BY <1>2, <2>1 DEF Exclusive
    <2>2. ASSUME at[t] \notin Holding PROVE t = u
      <3>1. LockFree(Home[t]) /\ \A w \in Turns \ {t} : at'[w] = at[w]
        BY <1>1, <1>2, <2>2 DEF PlaceStep
      <3>2. at[u] \notin Holding
        BY <1>2, <3>1 DEF LockFree, Own
      <3>3. QED
        BY <1>2, <3>1, <3>2
    <2>3. ASSUME at[u] \notin Holding PROVE t = u
      <3>1. LockFree(Home[u]) /\ \A w \in Turns \ {u} : at'[w] = at[w]
        BY <1>1, <1>2, <2>3 DEF PlaceStep
      <3>2. at[t] \notin Holding
        BY <1>2, <3>1 DEF LockFree, Own
      <3>3. QED
        BY <1>2, <3>1, <3>2
    <2>4. QED
      BY <2>1, <2>2, <2>3
  <1>3. ASSUME NEW t \in Turns, at'[t] \in Holding PROVE ticking'[Home[t]] = -1
    <2>1. ticking[Home[t]] = -1
      BY <1>1, <1>3 DEF PlaceStep, Exclusive, LockFree
    <2>2. CASE ticking'[Home[t]] \in {-1, ticking[Home[t]]}
      BY <2>1, <2>2
    <2>3. CASE LockFree(Home[t]) /\ UNCHANGED at
      BY <1>3, <2>3 DEF LockFree, Own
    <2>4. QED
      BY <1>1, <2>2, <2>3, HomeType DEF PlaceStep
  <1>4. QED
    BY <1>2, <1>3 DEF Exclusive

LEMMA StaleStep ==
    TypeOK /\ Exclusive /\ StaleOnlyByOthers /\ [Next]_vars => StaleOnlyByOthers'
  <1> SUFFICES ASSUME TypeOK, Exclusive, StaleOnlyByOthers, [Next]_vars
               PROVE  StaleOnlyByOthers'
    OBVIOUS
  <1>1. SeenStep /\ OrganismStep /\ RelationshipStep
    BY Steps DEF StepFacts
  <1>2. TypeOK /\ Len(organism) \in Nat /\ Len(relationship) \in Nat
    BY DEF TypeOK
  <1>3. ASSUME NEW t \in Turns, at'[t] \in OrganismRead,
               NEW i \in seen'[t].organism + 1 .. Len(organism')
        PROVE  organism'[i].by # Home[t]
    <2>1. CASE seen'[t].organism = Len(organism')
      <3>1. Len(organism') \in Nat
        <4>1. CASE UNCHANGED organism
          BY <1>2, <4>1
        <4>2. ASSUME NEW v \in Versions, organism' = Append(organism, v)
              PROVE  Len(organism') \in Nat
          BY <1>2, <4>2, Appended DEF TypeOK
        <4>3. QED
          BY <1>1, <4>1, <4>2 DEF OrganismStep
      <3>2. QED
        BY <1>3, <2>1, <3>1
    <2>2. CASE at[t] \in OrganismRead /\ seen'[t].organism = seen[t].organism
      <3>1. \A j \in seen[t].organism + 1 .. Len(organism) : organism[j].by # Home[t]
        BY <2>2 DEF StaleOnlyByOthers, OrganismRead
      <3>2. seen[t].organism \in Nat
        BY SeenType, <1>2
      <3>3. CASE UNCHANGED organism
        BY <1>3, <2>2, <3>1, <3>3
      <3>4. ASSUME NEW v \in Versions, organism' = Append(organism, v),
                   \/ ticking[v.by] >= 0
                   \/ \E u \in Turns :
                        /\ Home[u] = v.by
                        /\ at[u] \in Holding
                        /\ \/ at'[u] \notin OrganismRead
                           \/ seen'[u].organism = Len(organism) + 1
            PROVE  organism'[i].by # Home[t]
        <4>1. /\ Len(organism') = Len(organism) + 1
              /\ \A j \in 1 .. Len(organism) : organism'[j] = organism[j]
              /\ organism'[Len(organism) + 1] = v
          BY <1>2, <3>4, Appended DEF TypeOK
        <4>2. CASE i \in 1 .. Len(organism)
          <5>1. i \in seen[t].organism + 1 .. Len(organism)
            BY <1>2, <1>3, <2>2, <3>2, <4>2
          <5>2. QED
            BY <3>1, <4>1, <4>2, <5>1
        <4>3. CASE i = Len(organism) + 1
          <5>1. at[t] \in Holding
            BY <1>1, <1>3 DEF SeenStep
          <5>2. SUFFICES ASSUME v.by = Home[t] PROVE FALSE
            BY <4>1, <4>3
          <5>3. ~(ticking[v.by] >= 0)
            BY <5>1, <5>2 DEF Exclusive
          <5>4. PICK u \in Turns :
                  /\ Home[u] = v.by
                  /\ at[u] \in Holding
                  /\ \/ at'[u] \notin OrganismRead
                     \/ seen'[u].organism = Len(organism) + 1
            BY <3>4, <5>3
          <5>5. u = t
            BY <5>1, <5>2, <5>4 DEF Exclusive
          <5>6. seen'[t].organism = Len(organism) + 1
            BY <1>3, <5>4, <5>5
          <5>7. QED
            BY <1>2, <1>3, <4>1, <4>3, <5>6
        <4>4. QED
          BY <1>2, <1>3, <2>2, <3>2, <4>1, <4>2, <4>3
      <3>5. QED
        BY <1>1, <3>3, <3>4 DEF OrganismStep
    <2>3. QED
      BY <1>1, <1>3, <2>1, <2>2 DEF SeenStep
  <1>4. ASSUME NEW t \in Turns, at'[t] \in RelationshipRead,
               NEW i \in seen'[t].relationship + 1 .. Len(relationship')
        PROVE  relationship'[i].by # Home[t]
    <2>1. CASE seen'[t].relationship = Len(relationship')
      <3>1. Len(relationship') \in Nat
        <4>1. CASE UNCHANGED relationship
          BY <1>2, <4>1
        <4>2. ASSUME NEW v \in Versions, relationship' = Append(relationship, v)
              PROVE  Len(relationship') \in Nat
          BY <1>2, <4>2, Appended DEF TypeOK
        <4>3. QED
          BY <1>1, <4>1, <4>2 DEF RelationshipStep
      <3>2. QED
        BY <1>4, <2>1, <3>1
    <2>2. CASE at[t] \in RelationshipRead /\ seen'[t].relationship = seen[t].relationship
      <3>1. \A j \in seen[t].relationship + 1 .. Len(relationship) : relationship[j].by # Home[t]
        BY <2>2 DEF StaleOnlyByOthers, RelationshipRead
      <3>2. seen[t].relationship \in Nat
        BY SeenType, <1>2
      <3>3. CASE UNCHANGED relationship
        BY <1>4, <2>2, <3>1, <3>3
      <3>4. ASSUME NEW v \in Versions, relationship' = Append(relationship, v),
                   \E u \in Turns :
                     /\ Home[u] = v.by
                     /\ at[u] \in Holding
                     /\ \/ at'[u] \notin RelationshipRead
                        \/ seen'[u].relationship = Len(relationship) + 1
            PROVE  relationship'[i].by # Home[t]
        <4>1. /\ Len(relationship') = Len(relationship) + 1
              /\ \A j \in 1 .. Len(relationship) : relationship'[j] = relationship[j]
              /\ relationship'[Len(relationship) + 1] = v
          BY <1>2, <3>4, Appended DEF TypeOK
        <4>2. CASE i \in 1 .. Len(relationship)
          <5>1. i \in seen[t].relationship + 1 .. Len(relationship)
            BY <1>2, <1>4, <2>2, <3>2, <4>2
          <5>2. QED
            BY <3>1, <4>1, <4>2, <5>1
        <4>3. CASE i = Len(relationship) + 1
          <5>1. at[t] \in Holding
            BY <1>1, <1>4 DEF SeenStep
          <5>2. SUFFICES ASSUME v.by = Home[t] PROVE FALSE
            BY <4>1, <4>3
          <5>3. PICK u \in Turns :
                  /\ Home[u] = v.by
                  /\ at[u] \in Holding
                  /\ \/ at'[u] \notin RelationshipRead
                     \/ seen'[u].relationship = Len(relationship) + 1
            BY <3>4
          <5>4. u = t
            BY <5>1, <5>2, <5>3 DEF Exclusive
          <5>5. seen'[t].relationship = Len(relationship) + 1
            BY <1>4, <5>3, <5>4
          <5>6. QED
            BY <1>2, <1>4, <4>1, <4>3, <5>5
        <4>4. QED
          BY <1>2, <1>4, <2>2, <3>2, <4>1, <4>2, <4>3
      <3>5. QED
        BY <1>1, <3>3, <3>4 DEF RelationshipStep
    <2>3. QED
      BY <1>1, <1>4, <2>1, <2>2 DEF SeenStep
  <1>5. QED
    BY <1>3, <1>4 DEF StaleOnlyByOthers, OrganismRead, RelationshipRead

\* A turn that moved the state is past the place where it does so.
Tracked ==
    \A t \in Turns :
        /\ By(organism, t, Moves) # {} => at[t] \in OrganismMoved
        /\ By(relationship, t, Moves) # {} => at[t] \in RelationshipMoved

Chained == StateIsChained /\ Tracked

LEMMA ChainedStep == TypeOK /\ Chained /\ [Next]_vars => Chained'
  <1> SUFFICES ASSUME TypeOK, Chained, [Next]_vars PROVE Chained'
    OBVIOUS
  <1>1. PlaceStep /\ OrganismStep /\ RelationshipStep
    BY Steps DEF StepFacts
  <1>2. /\ organism \in Seq(Versions) /\ Len(organism) \in Nat
        /\ relationship \in Seq(Versions) /\ Len(relationship) \in Nat
    BY DEF TypeOK
  <1>3. /\ \A i \in DOMAIN organism' : organism'[i].base = i - 1
        /\ \A t \in Turns : \A i, j \in By(organism', t, Moves) : i = j
        /\ \A t \in Turns : By(organism', t, Moves) # {} => at'[t] \in OrganismMoved
    <2>1. CASE UNCHANGED organism
      BY <1>1, <2>1 DEF Chained, StateIsChained, Tracked, PlaceStep
    <2>2. ASSUME NEW v \in Versions, organism' = Append(organism, v),
                 v.base = Len(organism),
                 v.kind \in Moves => /\ v.cause \in Turns
                                     /\ at[v.cause] \in {"reply", "defer"}
                                     /\ at'[v.cause] \in OrganismMoved
          PROVE  /\ \A i \in DOMAIN organism' : organism'[i].base = i - 1
                 /\ \A t \in Turns : \A i, j \in By(organism', t, Moves) : i = j
                 /\ \A t \in Turns :
                      By(organism', t, Moves) # {} => at'[t] \in OrganismMoved
      <3>1. /\ DOMAIN organism = 1 .. Len(organism)
            /\ DOMAIN organism' = 1 .. Len(organism) + 1
            /\ \A j \in 1 .. Len(organism) : organism'[j] = organism[j]
            /\ organism'[Len(organism) + 1] = v
        BY <1>2, <2>2, Appended
      <3>2. \A i \in DOMAIN organism' : organism'[i].base = i - 1
        BY <1>2, <2>2, <3>1 DEF Chained, StateIsChained
      <3>3. ASSUME NEW t \in Turns
            PROVE  IF v.kind \in Moves /\ v.cause = t
                     THEN By(organism', t, Moves)
                            = By(organism, t, Moves) \cup {Len(organism) + 1}
                     ELSE By(organism', t, Moves) = By(organism, t, Moves)
        BY <1>2, <3>1 DEF By
      <3>4. ASSUME NEW t \in Turns, v.kind \in Moves /\ v.cause = t
            PROVE  By(organism, t, Moves) = {}
        BY <2>2, <3>4 DEF Chained, Tracked, OrganismMoved, RelationshipMoved
      <3>5. \A t \in Turns : \A i, j \in By(organism', t, Moves) : i = j
        BY <3>3, <3>4 DEF Chained, StateIsChained
      <3>6. \A t \in Turns : By(organism', t, Moves) # {} => at'[t] \in OrganismMoved
        BY <1>1, <2>2, <3>3 DEF Chained, Tracked, PlaceStep
      <3>7. QED
        BY <3>2, <3>5, <3>6
    <2>3. QED
      BY <1>1, <2>1, <2>2 DEF OrganismStep
  <1>4. /\ \A i \in DOMAIN relationship' : relationship'[i].base = i - 1
        /\ \A t \in Turns : \A i, j \in By(relationship', t, Moves) : i = j
        /\ \A t \in Turns : By(relationship', t, Moves) # {} => at'[t] \in RelationshipMoved
    <2>1. CASE UNCHANGED relationship
      BY <1>1, <2>1 DEF Chained, StateIsChained, Tracked, PlaceStep
    <2>2. ASSUME NEW v \in Versions, relationship' = Append(relationship, v),
                 v.base = Len(relationship),
                 v.kind \in Moves => /\ v.cause \in Turns
                                     /\ at[v.cause] \in {"reply_relationship", "defer_relationship"}
                                     /\ at'[v.cause] \in RelationshipMoved
          PROVE  /\ \A i \in DOMAIN relationship' : relationship'[i].base = i - 1
                 /\ \A t \in Turns : \A i, j \in By(relationship', t, Moves) : i = j
                 /\ \A t \in Turns :
                      By(relationship', t, Moves) # {} => at'[t] \in RelationshipMoved
      <3>1. /\ DOMAIN relationship = 1 .. Len(relationship)
            /\ DOMAIN relationship' = 1 .. Len(relationship) + 1
            /\ \A j \in 1 .. Len(relationship) : relationship'[j] = relationship[j]
            /\ relationship'[Len(relationship) + 1] = v
        BY <1>2, <2>2, Appended
      <3>2. \A i \in DOMAIN relationship' : relationship'[i].base = i - 1
        BY <1>2, <2>2, <3>1 DEF Chained, StateIsChained
      <3>3. ASSUME NEW t \in Turns
            PROVE  IF v.kind \in Moves /\ v.cause = t
                     THEN By(relationship', t, Moves)
                            = By(relationship, t, Moves) \cup {Len(relationship) + 1}
                     ELSE By(relationship', t, Moves) = By(relationship, t, Moves)
        BY <1>2, <3>1 DEF By
      <3>4. ASSUME NEW t \in Turns, v.kind \in Moves /\ v.cause = t
            PROVE  By(relationship, t, Moves) = {}
        BY <2>2, <3>4 DEF Chained, Tracked, RelationshipMoved
      <3>5. \A t \in Turns : \A i, j \in By(relationship', t, Moves) : i = j
        BY <3>3, <3>4 DEF Chained, StateIsChained
      <3>6. \A t \in Turns : By(relationship', t, Moves) # {} => at'[t] \in RelationshipMoved
        BY <1>1, <2>2, <3>3 DEF Chained, Tracked, PlaceStep
      <3>7. QED
        BY <3>2, <3>5, <3>6
    <2>3. QED
      BY <1>1, <2>1, <2>2 DEF RelationshipStep
  <1>5. QED
    BY <1>3, <1>4 DEF Chained, StateIsChained, Tracked, By

-----------------------------------------------------------------------------
(***************************************************************************)
(* What a turn that is done has left behind.                               *)
(***************************************************************************)
\* A section works on the head that it has read, which only other processes
\* move on; what is unsaved was written inside its savepoint.
SectionIsSound(p) ==
    /\ section[p].turn = NoTurn => ~section[p].open
    /\ section[p].turn # NoTurn =>
         /\ section[p].head <= Len(beliefs)
         /\ \A i \in section[p].head + 1 .. Len(beliefs) : beliefs[i] # p
    /\ unsaved[p] \subseteq Own(p)
    /\ unsaved[p] # {} => section[p].open

SectionsAreSound == \A p \in Processes : SectionIsSound(p)

RepliesAreStored ==
    \A t \in Turns :
        /\ at[t] \in {"reply_relationship", "trace", "done"} => By(organism, t, {"reply"}) # {}
        /\ at[t] \in {"trace", "done"} => By(relationship, t, {"reply"}) # {}

\* The belief of another process, which may have overtaken a review.
Overtaken(t) == \E i \in DOMAIN beliefs : beliefs[i] # Home[t]

TracesAreKept ==
    \A t \in Turns :
        /\ at[t] = "done" => thread[t] = "returned" /\ t \notin unsaved[Home[t]]
        /\ at[t] \in {"trace", "done"} /\ thread[t] = "returned" =>
             t \in traces \/ Overtaken(t)

\* A process that starts has traced what was answered, or is about to.
BackfillIsOnItsWay ==
    \A p \in Processes :
        up[p] = "backfill" => Own(p) \cap agent \subseteq traces \cup pending[p]

Whole == SectionsAreSound /\ RepliesAreStored /\ TracesAreKept /\ BackfillIsOnItsWay

\* The steps of a process that have nothing to do with reviews.
LEMMA SectionsStep == TypeInv /\ SectionsAreSound /\ [Next]_vars => SectionsAreSound'
  <1> SUFFICES ASSUME TypeInv, SectionsAreSound, [Next]_vars PROVE SectionsAreSound'
    OBVIOUS
  <1> USE DEF events, states, archive, learning, session
  <1>0. /\ TypeOK /\ beliefs \in Seq(Processes) /\ Len(beliefs) \in Nat
        /\ section \in [Processes -> [turn : Turns \cup {NoTurn}, head : Nat, open : BOOLEAN]]
        /\ unsaved \in [Processes -> SUBSET Turns]
    BY DEF TypeInv, TypeOK
  <1>1. ASSUME UNCHANGED <<beliefs, section, unsaved>> PROVE SectionsAreSound'
    BY <1>1 DEF SectionsAreSound, SectionIsSound
  <1>2. ASSUME NEW t \in Turns, WriteTrace(t) PROVE SectionsAreSound'
    <2>1. UNCHANGED <<beliefs, section>> /\ Home[t] \in Processes
      BY <1>2, HomeType DEF WriteTrace
    <2>2. CASE UNCHANGED unsaved
      BY <1>1, <2>1, <2>2
    <2>3. CASE unsaved' = [unsaved EXCEPT ![Home[t]] =
                 IF section[Home[t]].open THEN unsaved[Home[t]] \cup {t} ELSE unsaved[Home[t]]]
      <3>1. t \in Own(Home[t])
        BY DEF Own
      <3> QED BY <1>0, <2>1, <2>3, <3>1 DEF SectionsAreSound, SectionIsSound
    <2> QED BY <1>2, <2>2, <2>3 DEF WriteTrace
  <1>3. ASSUME NEW t \in Turns, ReadHead(t) PROVE SectionsAreSound'
    <2>1. /\ Home[t] \in Processes /\ section[Home[t]].turn = NoTurn
          /\ section' = [section EXCEPT ![Home[t]] =
               [turn |-> t, head |-> Len(beliefs), open |-> FALSE]]
          /\ UNCHANGED <<beliefs, unsaved>>
      BY <1>3, HomeType DEF ReadHead, LoopFree
    <2>2. unsaved[Home[t]] = {}
      BY <2>1 DEF SectionsAreSound, SectionIsSound
    <2> QED BY <1>0, <2>1, <2>2, ChatAssumption DEF SectionsAreSound, SectionIsSound
  <1>4. ASSUME NEW p \in Processes, OpenSavepoint(p) PROVE SectionsAreSound'
    <2>1. /\ section[p].turn # NoTurn /\ section' = [section EXCEPT ![p].open = TRUE]
          /\ UNCHANGED <<beliefs, unsaved>>
      BY <1>4 DEF OpenSavepoint
    <2>2. ASSUME NEW q \in Processes
          PROVE  /\ section'[q].turn = section[q].turn /\ section'[q].head = section[q].head
                 /\ section'[q].open = (section[q].open \/ q = p)
      BY <1>0, <2>1
    <2> QED BY <2>1, <2>2 DEF SectionsAreSound, SectionIsSound
  <1>5. ASSUME NEW p \in Processes, AppendBelief(p) PROVE SectionsAreSound'
    <2>1. /\ section' = [section EXCEPT ![p] = NoSection]
          /\ unsaved' = [unsaved EXCEPT ![p] = {}]
          /\ beliefs' = beliefs \/ beliefs' = Append(beliefs, p)
      BY <1>5 DEF AppendBelief
    <2>2. ASSUME NEW q \in Processes PROVE SectionIsSound(q)'
      <3>1. CASE q = p
        BY <1>0, <2>1, <3>1 DEF SectionIsSound, NoSection, Own
      <3>2. CASE q # p
        <4>1. SectionIsSound(q) /\ section'[q] = section[q] /\ unsaved'[q] = unsaved[q]
          BY <1>0, <2>1, <3>2 DEF SectionsAreSound
        <4>2. CASE beliefs' = beliefs
          BY <4>1, <4>2 DEF SectionIsSound
        <4>3. CASE beliefs' = Append(beliefs, p)
          <5>1. /\ Len(beliefs') = Len(beliefs) + 1
                /\ \A i \in 1 .. Len(beliefs) : beliefs'[i] = beliefs[i]
                /\ beliefs'[Len(beliefs) + 1] = p
            BY <1>0, <4>3, Appended
          <5>2. section[q].head \in Nat
            BY <1>0
          <5>3. ASSUME section[q].turn # NoTurn
                PROVE  /\ section[q].head <= Len(beliefs')
                       /\ \A i \in section[q].head + 1 .. Len(beliefs') : beliefs'[i] # q
            <6>1. /\ section[q].head <= Len(beliefs)
                  /\ \A i \in section[q].head + 1 .. Len(beliefs) : beliefs[i] # q
              BY <4>1, <5>3 DEF SectionIsSound
            <6>2. ASSUME NEW i \in section[q].head + 1 .. Len(beliefs') PROVE beliefs'[i] # q
              <7>1. i = Len(beliefs) + 1 \/
                    (i \in section[q].head + 1 .. Len(beliefs) /\ i \in 1 .. Len(beliefs))
                BY <1>0, <5>1, <5>2
              <7> QED BY <3>2, <5>1, <6>1, <7>1
            <6> QED BY <1>0, <5>1, <5>2, <6>1, <6>2
          <5> QED BY <4>1, <5>3 DEF SectionIsSound
        <4> QED BY <2>1, <4>2, <4>3
      <3> QED BY <3>1, <3>2
    <2> QED BY <2>2 DEF SectionsAreSound
  <1>6. ASSUME NEW p \in Processes, Stop(p) PROVE SectionsAreSound'
    <2>1. /\ section' = [section EXCEPT ![p] = NoSection]
          /\ unsaved' = [unsaved EXCEPT ![p] = {}] /\ UNCHANGED beliefs
      BY <1>6 DEF Stop
    <2>2. ASSUME NEW q \in Processes PROVE SectionIsSound(q)'
      <3>1. CASE q = p
        BY <1>0, <2>1, <3>1 DEF SectionIsSound, NoSection, Own
      <3>2. CASE q # p
        BY <1>0, <2>1, <3>2 DEF SectionsAreSound, SectionIsSound
      <3> QED BY <3>1, <3>2
    <2> QED BY <2>2 DEF SectionsAreSound
  <1>7. ASSUME NEW t \in Turns,
               \/ Send(t) \/ Observe(t) \/ Appraise(t) \/ Cancel(t) \/ EnsureOrganism(t)
               \/ CreateOrganism(t) \/ EnsureRelationship(t) \/ CreateRelationship(t)
               \/ Answer(t) \/ NoAnswer(t) \/ AdvanceOrganism(t) \/ AdvanceRelationship(t)
               \/ Capture(t) \/ LearnNothing(t)
        PROVE  SectionsAreSound'
    BY <1>1, <1>7 DEF Send, Observe, Appraise, Cancel, EnsureOrganism, CreateOrganism,
       EnsureRelationship, CreateRelationship, Answer, NoAnswer, AdvanceOrganism,
       AdvanceRelationship, Capture, LearnNothing
  <1>8. ASSUME NEW p \in Processes,
               \/ TickRead(p) \/ TickAppend(p) \/ Start(p) \/ Ready(p)
               \/ \E t \in Turns : Backfill(p, t)
        PROVE  SectionsAreSound'
    BY <1>1, <1>8 DEF TickRead, TickAppend, Start, Ready, Backfill
  <1>9. CASE UNCHANGED vars
    BY <1>1, <1>9 DEF vars
  <1> QED BY <1>2, <1>3, <1>4, <1>5, <1>6, <1>7, <1>8, <1>9 DEF Next

\* The logs only grow.
LEMMA ByGrows ==
    ASSUME TypeOK, [Next]_vars, NEW t, NEW kinds
    PROVE  /\ By(organism, t, kinds) \subseteq By(organism', t, kinds)
           /\ By(relationship, t, kinds) \subseteq By(relationship', t, kinds)
  <1>1. OrganismStep /\ RelationshipStep
    BY Steps DEF StepFacts
  <1>2. ASSUME NEW log \in Seq(Versions), NEW v \in Versions
        PROVE  By(log, t, kinds) \subseteq By(Append(log, v), t, kinds)
    <2>1. /\ DOMAIN log = 1 .. Len(log) /\ DOMAIN Append(log, v) = 1 .. Len(log) + 1
          /\ \A i \in 1 .. Len(log) : Append(log, v)[i] = log[i]
          /\ Len(log) \in Nat
      BY Appended
    <2> QED BY <2>1 DEF By
  <1> QED BY <1>1, <1>2 DEF OrganismStep, RelationshipStep, TypeOK

\* The last version of a log that has been appended to.
LEMMA LastBy ==
    ASSUME NEW log \in Seq(Versions), NEW v \in Versions
    PROVE  By(Append(log, v), v.cause, {v.kind}) # {}
  <1>1. /\ Len(log) \in Nat /\ DOMAIN Append(log, v) = 1 .. Len(log) + 1
        /\ Append(log, v)[Len(log) + 1] = v
    BY Appended
  <1>2. Len(log) + 1 \in By(Append(log, v), v.cause, {v.kind})
    BY <1>1 DEF By
  <1> QED BY <1>2

\* How a turn comes to a place where its reply is stored.
Replies(t) ==
    /\ at'[t] = "reply_relationship" =>
         at[t] = "reply_relationship" \/ By(organism', t, {"reply"}) # {}
    /\ at'[t] = "trace" =>
         \/ at[t] = "trace" /\ (thread'[t] = thread[t] \/ WriteTrace(t))
         \/ /\ at[t] = "reply_relationship" /\ By(relationship', t, {"reply"}) # {}
            /\ thread'[t] = "running"
    /\ at'[t] = "done" =>
         \/ at[t] = "done" /\ (thread'[t] = thread[t] \/ thread[t] = "running")
         \/ /\ at[t] = "trace" /\ thread[t] = "returned" /\ thread'[t] = "returned"
            /\ section[Home[t]].turn = NoTurn

LEMMA ReplySteps == ASSUME TypeInv, [Next]_vars, NEW t \in Turns PROVE Replies(t)
  <1> USE DEF events, states, archive, learning, session
  <1>0. /\ TypeOK /\ Home[t] \in Processes
        /\ at \in [Turns -> Holding \cup {"unsent", "done", "failed"}]
        /\ thread \in [Turns -> {"none", "running", "returned", "failed"}]
    BY HomeType DEF TypeInv, TypeOK
  <1>1. ASSUME UNCHANGED thread, \/ at'[t] = at[t]
                                \/ at'[t] \notin {"reply_relationship", "trace", "done"}
        PROVE  Replies(t)
    BY <1>1 DEF Replies
  <1>2. ASSUME NEW u \in Turns, AdvanceOrganism(u) PROVE Replies(t)
    <2>1. UNCHANGED thread
      BY <1>2 DEF AdvanceOrganism
    <2>2. CASE at[u] = "reply" /\ Appends(organism, seen[u].organism)
      <3> DEFINE v == Version(u, "reply", seen[u].organism)
      <3>1. organism' = Append(organism, v) /\ at' = [at EXCEPT ![u] = "reply_relationship"]
        BY <1>2, <2>2 DEF AdvanceOrganism, Go
      <3>2. v \in Versions /\ v.cause = u /\ v.kind = "reply"
        <4>1. v \in Versions
          BY <1>0, VersionType, SeenType
        <4> QED BY <4>1 DEF Version
      <3>3. By(organism', u, {"reply"}) # {}
        <4>1. organism \in Seq(Versions)
          BY <1>0 DEF TypeOK
        <4> HIDE DEF v
        <4> QED BY <3>1, <3>2, <4>1, LastBy
      <3> QED BY <1>0, <2>1, <3>1, <3>3 DEF Replies
    <2>3. CASE ~(at[u] = "reply" /\ Appends(organism, seen[u].organism))
      <3>1. at' = [at EXCEPT ![u] = "defer_relationship"] \/ at' = [at EXCEPT ![u] = "failed"]
        BY <1>2, <2>3 DEF AdvanceOrganism, Go, Raise
      <3> QED BY <1>0, <1>1, <2>1, <3>1
    <2> QED BY <2>2, <2>3
  <1>3. ASSUME NEW u \in Turns, AdvanceRelationship(u) PROVE Replies(t)
    <2>1. CASE at[u] = "reply_relationship" /\ Appends(relationship, seen[u].relationship)
      <3> DEFINE v == Version(u, "reply", seen[u].relationship)
      <3>1. /\ relationship' = Append(relationship, v) /\ at' = [at EXCEPT ![u] = "trace"]
            /\ thread' = [thread EXCEPT ![u] = "running"]
        BY <1>3, <2>1 DEF AdvanceRelationship, Go
      <3>2. v \in Versions /\ v.cause = u /\ v.kind = "reply"
        <4>1. v \in Versions
          BY <1>0, VersionType, SeenType
        <4> QED BY <4>1 DEF Version
      <3>3. By(relationship', u, {"reply"}) # {}
        <4>1. relationship \in Seq(Versions)
          BY <1>0 DEF TypeOK
        <4> HIDE DEF v
        <4> QED BY <3>1, <3>2, <4>1, LastBy
      <3>4. CASE t = u
        BY <1>0, <2>1, <3>1, <3>3, <3>4 DEF Replies
      <3>5. CASE t # u
        BY <1>0, <3>1, <3>5 DEF Replies
      <3> QED BY <3>4, <3>5
    <2>2. CASE ~(at[u] = "reply_relationship" /\ Appends(relationship, seen[u].relationship))
      <3>1. at' = [at EXCEPT ![u] = "failed"] /\ UNCHANGED thread
        BY <1>3, <2>2 DEF AdvanceRelationship, Go, Raise
      <3> QED BY <1>0, <1>1, <3>1
    <2> QED BY <2>1, <2>2
  <1>4. ASSUME NEW u \in Turns, WriteTrace(u) PROVE Replies(t)
    <2>1. UNCHANGED at /\ (thread'[t] = thread[t] \/ t = u) /\ thread[u] = "running"
      BY <1>0, <1>4 DEF WriteTrace
    <2> QED BY <1>4, <2>1 DEF Replies
  <1>5. ASSUME NEW u \in Turns, Capture(u) PROVE Replies(t)
    <2>1. UNCHANGED thread /\ at[u] = "trace" /\ section[Home[u]].turn = NoTurn
      BY <1>5 DEF Capture, LoopFree
    <2>2. CASE at' = [at EXCEPT ![u] = "failed"]
      BY <1>0, <1>1, <2>1, <2>2
    <2>3. CASE at' = [at EXCEPT ![u] = "done"] /\ thread[u] = "returned"
      BY <1>0, <2>1, <2>3 DEF Replies
    <2> QED BY <1>5, <2>2, <2>3 DEF Capture, Raise, Go
  <1>6. ASSUME NEW p \in Processes, Stop(p) PROVE Replies(t)
    <2>1. /\ at'[t] = (IF Home[t] = p /\ at[t] \in Holding THEN "failed" ELSE at[t])
          /\ thread'[t] = (IF Home[t] = p /\ thread[t] = "running" THEN "failed" ELSE thread[t])
      BY <1>6 DEF Stop
    <2> QED BY <2>1 DEF Replies, Holding
  <1>7. ASSUME NEW u \in Turns,
               \/ Send(u) \/ Observe(u) \/ Appraise(u) \/ Cancel(u) \/ EnsureOrganism(u)
               \/ CreateOrganism(u) \/ EnsureRelationship(u) \/ CreateRelationship(u)
               \/ Answer(u) \/ NoAnswer(u)
        PROVE  Replies(t)
    <2>1. /\ UNCHANGED thread
          /\ \E place \in {"begin", "organism", "new_organism", "relationship",
                           "new_relationship", "appraise", "complete", "reply", "defer",
                           "failed"} : at' = [at EXCEPT ![u] = place]
      BY <1>7 DEF Send, Observe, Appraise, Cancel, EnsureOrganism, CreateOrganism,
         EnsureRelationship, CreateRelationship, Answer, NoAnswer, Go, Raise
    <2> QED BY <1>0, <1>1, <2>1
  <1>8. ASSUME NEW u \in Turns, LearnNothing(u) \/ ReadHead(u) PROVE Replies(t)
    BY <1>1, <1>8 DEF LearnNothing, ReadHead
  <1>9. ASSUME NEW p \in Processes,
               \/ TickRead(p) \/ TickAppend(p) \/ OpenSavepoint(p) \/ AppendBelief(p)
               \/ Start(p) \/ Ready(p) \/ \E u \in Turns : Backfill(p, u)
        PROVE  Replies(t)
    BY <1>1, <1>9 DEF TickRead, TickAppend, OpenSavepoint, AppendBelief, Start, Ready, Backfill
  <1>10. CASE UNCHANGED vars
    BY <1>1, <1>10 DEF vars
  <1> QED BY <1>2, <1>3, <1>4, <1>5, <1>6, <1>7, <1>8, <1>9, <1>10 DEF Next

LEMMA RepliesStep == TypeInv /\ RepliesAreStored /\ [Next]_vars => RepliesAreStored'
  <1> SUFFICES ASSUME TypeInv, RepliesAreStored, [Next]_vars, NEW t \in Turns
               PROVE  /\ at'[t] \in {"reply_relationship", "trace", "done"} =>
                           By(organism', t, {"reply"}) # {}
                      /\ at'[t] \in {"trace", "done"} => By(relationship', t, {"reply"}) # {}
    BY DEF RepliesAreStored, By
  <1>1. Replies(t)
    BY ReplySteps
  <1>2. /\ By(organism, t, {"reply"}) \subseteq By(organism', t, {"reply"})
        /\ By(relationship, t, {"reply"}) \subseteq By(relationship', t, {"reply"})
    BY ByGrows DEF TypeInv
  <1> QED BY <1>1, <1>2 DEF Replies, RepliesAreStored

\* A trace is lost only with the savepoint it was written in: when its process
\* stops, or when a belief of another process has overtaken its section.
LEMMA TraceLoss ==
    ASSUME TypeInv, SectionsAreSound, [Next]_vars, NEW t \in Turns, t \in traces, t \notin traces'
    PROVE  /\ t \in unsaved[Home[t]]
           /\ Stop(Home[t]) \/ Overtaken(t)
  <1> USE DEF events, states, archive, learning, session
  <1>0. /\ beliefs \in Seq(Processes) /\ Len(beliefs) \in Nat /\ DOMAIN beliefs = 1 .. Len(beliefs)
        /\ section \in [Processes -> [turn : Turns \cup {NoTurn}, head : Nat, open : BOOLEAN]]
    BY DEF TypeInv, TypeOK
  <1>1. ASSUME NEW p \in Processes, t \in unsaved[p] PROVE p = Home[t]
    BY <1>1 DEF SectionsAreSound, SectionIsSound, Own
  <1>2. ASSUME NEW p \in Processes, AppendBelief(p)
        PROVE  t \in unsaved[Home[t]] /\ Overtaken(t)
    <2>1. /\ t \in unsaved[p] /\ p = Home[t]
          /\ section[p].open /\ Len(beliefs) # section[p].head
      BY <1>1, <1>2 DEF AppendBelief, Appends
    <2>2. /\ section[p].head \in Nat /\ section[p].head <= Len(beliefs)
          /\ \A i \in section[p].head + 1 .. Len(beliefs) : beliefs[i] # p
      BY <1>0, <2>1 DEF SectionsAreSound, SectionIsSound
    <2>3. Len(beliefs) \in section[p].head + 1 .. Len(beliefs) /\ Len(beliefs) \in DOMAIN beliefs
      BY <1>0, <2>1, <2>2
    <2> QED BY <2>1, <2>2, <2>3 DEF Overtaken
  <1>3. ASSUME NEW p \in Processes, Stop(p) PROVE t \in unsaved[Home[t]] /\ Stop(Home[t])
    <2>1. t \in unsaved[p]
      BY <1>3 DEF Stop
    <2> QED BY <1>1, <1>3, <2>1
  <1>4. ASSUME NEW u \in Turns,
               \/ Send(u) \/ Observe(u) \/ Appraise(u) \/ Cancel(u) \/ EnsureOrganism(u)
               \/ CreateOrganism(u) \/ EnsureRelationship(u) \/ CreateRelationship(u)
               \/ Answer(u) \/ NoAnswer(u) \/ AdvanceOrganism(u) \/ AdvanceRelationship(u)
               \/ WriteTrace(u) \/ Capture(u) \/ LearnNothing(u) \/ ReadHead(u)
        PROVE  FALSE
    BY <1>4 DEF Send, Observe, Appraise, Cancel, EnsureOrganism, CreateOrganism,
       EnsureRelationship, CreateRelationship, Answer, NoAnswer, AdvanceOrganism,
       AdvanceRelationship, WriteTrace, Capture, LearnNothing, ReadHead
  <1>5. ASSUME NEW p \in Processes,
               \/ TickRead(p) \/ TickAppend(p) \/ OpenSavepoint(p) \/ Start(p) \/ Ready(p)
               \/ \E u \in Turns : Backfill(p, u)
        PROVE  FALSE
    BY <1>5 DEF TickRead, TickAppend, OpenSavepoint, Start, Ready, Backfill
  <1>6. ~UNCHANGED vars
    BY DEF vars
  <1> QED BY <1>2, <1>3, <1>4, <1>5, <1>6 DEF Next

\* A thread returns when it has written the trace; nothing is written into a
\* savepoint but by a running thread; and the beliefs grow.
LEMMA ThreadSteps ==
    ASSUME TypeInv, [Next]_vars, NEW t \in Turns
    PROVE  /\ thread'[t] = "returned" => thread[t] = "returned" \/ t \in traces'
           /\ t \in unsaved'[Home[t]] => t \in unsaved[Home[t]] \/ thread[t] = "running"
           /\ Overtaken(t) => Overtaken(t)'
  <1> DEFINE Goal == /\ thread'[t] = "returned" => thread[t] = "returned" \/ t \in traces'
                     /\ t \in unsaved'[Home[t]] => t \in unsaved[Home[t]] \/ thread[t] = "running"
                     /\ Overtaken(t) => Overtaken(t)'
  <1> USE DEF events, states, archive, learning, session
  <1>0. /\ Home[t] \in Processes /\ beliefs \in Seq(Processes)
        /\ thread \in [Turns -> {"none", "running", "returned", "failed"}]
        /\ unsaved \in [Processes -> SUBSET Turns]
    BY HomeType DEF TypeInv, TypeOK
  <1>1. ASSUME UNCHANGED <<thread, unsaved, beliefs>> PROVE Goal
    BY <1>1 DEF Overtaken
  <1>2. ASSUME NEW u \in Turns, WriteTrace(u) PROVE Goal
    <2>1. Home[u] \in Processes /\ UNCHANGED beliefs /\ thread[u] = "running"
      BY <1>2, HomeType DEF WriteTrace
    <2>2. thread'[t] = "returned" => thread[t] = "returned" \/ t \in traces'
      BY <1>0, <1>2 DEF WriteTrace
    <2>3. t \in unsaved'[Home[t]] => t \in unsaved[Home[t]] \/ t = u
      <3>1. CASE UNCHANGED unsaved
        BY <3>1
      <3>2. CASE unsaved' = [unsaved EXCEPT ![Home[u]] =
                   IF section[Home[u]].open THEN unsaved[Home[u]] \cup {u} ELSE unsaved[Home[u]]]
        BY <1>0, <2>1, <3>2
      <3> QED BY <1>2, <3>1, <3>2 DEF WriteTrace
    <2> QED BY <2>1, <2>2, <2>3 DEF Overtaken
  <1>3. ASSUME NEW u \in Turns, AdvanceRelationship(u) PROVE Goal
    <2>1. /\ UNCHANGED <<unsaved, beliefs>>
          /\ thread' = thread \/ thread' = [thread EXCEPT ![u] = "running"]
      BY <1>3 DEF AdvanceRelationship
    <2> QED BY <1>0, <2>1 DEF Overtaken
  <1>4. ASSUME NEW p \in Processes, AppendBelief(p) PROVE Goal
    <2>1. /\ UNCHANGED thread /\ unsaved' = [unsaved EXCEPT ![p] = {}]
          /\ beliefs' = beliefs \/ beliefs' = Append(beliefs, p)
      BY <1>4 DEF AppendBelief
    <2>2. Overtaken(t) => Overtaken(t)'
      <3>1. CASE beliefs' = beliefs
        BY <3>1 DEF Overtaken
      <3>2. CASE beliefs' = Append(beliefs, p)
        <4>1. /\ DOMAIN beliefs = 1 .. Len(beliefs) /\ DOMAIN beliefs' = 1 .. Len(beliefs) + 1
              /\ Len(beliefs) \in Nat
              /\ \A i \in 1 .. Len(beliefs) : beliefs'[i] = beliefs[i]
          BY <1>0, <3>2, Appended
        <4> QED BY <4>1 DEF Overtaken
      <3> QED BY <2>1, <3>1, <3>2
    <2> QED BY <1>0, <2>1, <2>2
  <1>5. ASSUME NEW p \in Processes, Stop(p) PROVE Goal
    <2>1. /\ UNCHANGED beliefs /\ unsaved' = [unsaved EXCEPT ![p] = {}]
          /\ thread'[t] = "returned" => thread[t] = "returned"
      BY <1>5 DEF Stop
    <2> QED BY <1>0, <2>1 DEF Overtaken
  <1>6. ASSUME NEW u \in Turns,
               \/ Send(u) \/ Observe(u) \/ Appraise(u) \/ Cancel(u) \/ EnsureOrganism(u)
               \/ CreateOrganism(u) \/ EnsureRelationship(u) \/ CreateRelationship(u)
               \/ Answer(u) \/ NoAnswer(u) \/ AdvanceOrganism(u) \/ Capture(u)
               \/ LearnNothing(u) \/ ReadHead(u)
        PROVE  Goal
    BY <1>1, <1>6 DEF Send, Observe, Appraise, Cancel, EnsureOrganism, CreateOrganism,
       EnsureRelationship, CreateRelationship, Answer, NoAnswer, AdvanceOrganism, Capture,
       LearnNothing, ReadHead
  <1>7. ASSUME NEW p \in Processes,
               \/ TickRead(p) \/ TickAppend(p) \/ OpenSavepoint(p) \/ Start(p) \/ Ready(p)
               \/ \E u \in Turns : Backfill(p, u)
        PROVE  Goal
    BY <1>1, <1>7 DEF TickRead, TickAppend, OpenSavepoint, Start, Ready, Backfill
  <1>8. CASE UNCHANGED vars
    BY <1>1, <1>8 DEF vars
  <1> QED BY <1>2, <1>3, <1>4, <1>5, <1>6, <1>7, <1>8 DEF Next

LEMMA TracesStep ==
    TypeInv /\ SectionsAreSound /\ TracesAreKept /\ [Next]_vars => TracesAreKept'
  <1> SUFFICES ASSUME TypeInv, SectionsAreSound, TracesAreKept, [Next]_vars, NEW t \in Turns
               PROVE  /\ at'[t] = "done" => /\ thread'[t] = "returned"
                                            /\ t \notin unsaved'[Home[t]]
                      /\ at'[t] \in {"trace", "done"} /\ thread'[t] = "returned" =>
                           t \in traces' \/ Overtaken(t)'
    BY DEF TracesAreKept, Overtaken
  <1>1. Replies(t)
    BY ReplySteps
  <1>2. /\ thread'[t] = "returned" => thread[t] = "returned" \/ t \in traces'
        /\ t \in unsaved'[Home[t]] => t \in unsaved[Home[t]] \/ thread[t] = "running"
        /\ Overtaken(t) => Overtaken(t)'
    BY ThreadSteps
  <1>3. section[Home[t]].turn = NoTurn => t \notin unsaved[Home[t]]
    BY HomeType DEF SectionsAreSound, SectionIsSound
  <1>4. ASSUME at'[t] = "done" PROVE thread'[t] = "returned" /\ t \notin unsaved'[Home[t]]
    BY <1>1, <1>2, <1>3, <1>4 DEF Replies, TracesAreKept
  <1>5. ASSUME at'[t] \in {"trace", "done"}, thread'[t] = "returned", t \notin traces'
        PROVE  Overtaken(t)'
    <2>1. thread[t] = "returned" /\ at[t] \in {"trace", "done"}
      BY <1>1, <1>2, <1>5 DEF Replies
    <2>2. CASE t \notin traces
      BY <1>2, <2>1, <2>2 DEF TracesAreKept
    <2>3. CASE t \in traces
      <3>1. t \in unsaved[Home[t]] /\ (Stop(Home[t]) \/ Overtaken(t))
        BY <1>5, <2>3, TraceLoss
      <3>2. at[t] = "trace"
        BY <2>1, <3>1 DEF TracesAreKept
      <3>3. ~Stop(Home[t])
        BY <1>5, <3>2 DEF Stop, Holding
      <3> QED BY <1>2, <3>1, <3>3
    <2> QED BY <2>2, <2>3
  <1> QED BY <1>4, <1>5

\* While a process starts none of its turns is answered, and no other process
\* takes its traces back.
LEMMA BackfillStep ==
    TypeInv /\ SectionsAreSound /\ BackfillIsOnItsWay /\ [Next]_vars => BackfillIsOnItsWay'
  <1> SUFFICES ASSUME TypeInv, SectionsAreSound, BackfillIsOnItsWay, [Next]_vars,
                      NEW p \in Processes, up'[p] = "backfill"
               PROVE  Own(p) \cap agent' \subseteq traces' \cup pending'[p]
    BY DEF BackfillIsOnItsWay, Own
  <1> USE DEF events, states, archive, learning, session
  <1> DEFINE Goal == Own(p) \cap agent' \subseteq traces' \cup pending'[p]
             Before == up[p] = "backfill" => Own(p) \cap agent \subseteq traces \cup pending[p]
  <1>0. /\ Before
        /\ up \in [Processes -> {"down", "backfill", "ready"}]
        /\ pending \in [Processes -> SUBSET Turns]
        /\ \A t \in Own(p) : t \in Turns /\ Home[t] = p
        /\ \A q \in Processes : unsaved[q] \subseteq Own(q)
    BY DEF BackfillIsOnItsWay, TypeInv, TypeOK, Own, SectionsAreSound, SectionIsSound
  <1>1. ASSUME UNCHANGED <<up, agent, pending>>, traces \subseteq traces' PROVE Goal
    BY <1>0, <1>1
  <1>2. ASSUME NEW t \in Turns, Answer(t) PROVE Goal
    <2>1. up[Home[t]] = "ready" /\ agent' = agent \cup {t} /\ UNCHANGED <<up, traces, pending>>
      BY <1>2 DEF Answer, LoopFree, MayWrite
    <2>2. t \notin Own(p)
      BY <1>0, <2>1
    <2> QED BY <1>0, <2>1, <2>2
  <1>3. ASSUME NEW t \in Turns, WriteTrace(t) PROVE Goal
    BY <1>1, <1>3 DEF WriteTrace
  <1>4. ASSUME NEW q \in Processes, AppendBelief(q) PROVE Goal
    <2>1. /\ up[q] = "ready" /\ UNCHANGED <<up, agent, pending>>
          /\ traces' = traces \/ traces' = traces \ unsaved[q]
      BY <1>4 DEF AppendBelief, MayWrite
    <2>2. q # p
      BY <2>1
    <2> QED BY <1>0, <2>1, <2>2 DEF Own
  <1>5. ASSUME NEW q \in Processes, Start(q) PROVE Goal
    <2>1. /\ UNCHANGED <<agent, traces>> /\ pending' = [pending EXCEPT ![q] = Answered(q)]
          /\ up' = [up EXCEPT ![q] = "backfill"]
      BY <1>5 DEF Start
    <2> QED BY <1>0, <2>1 DEF Answered
  <1>6. ASSUME NEW q \in Processes, NEW t \in Turns, Backfill(q, t) PROVE Goal
    <2>1. /\ UNCHANGED <<up, agent>> /\ traces' = traces \cup {t}
          /\ pending' = [pending EXCEPT ![q] = @ \ {t}]
      BY <1>6 DEF Backfill
    <2> QED BY <1>0, <2>1
  <1>7. ASSUME NEW q \in Processes, Ready(q) PROVE Goal
    <2>1. UNCHANGED <<agent, traces, pending>> /\ up' = [up EXCEPT ![q] = "ready"]
      BY <1>7 DEF Ready
    <2> QED BY <1>0, <2>1
  <1>8. ASSUME NEW q \in Processes, Stop(q) PROVE Goal
    <2>1. /\ UNCHANGED agent /\ traces' = traces \ unsaved[q]
          /\ pending' = [pending EXCEPT ![q] = {}] /\ up' = [up EXCEPT ![q] = "down"]
      BY <1>8 DEF Stop
    <2>2. q # p
      BY <1>0, <2>1
    <2> QED BY <1>0, <2>1, <2>2 DEF Own
  <1>9. ASSUME NEW t \in Turns,
               \/ Send(t) \/ Observe(t) \/ Appraise(t) \/ Cancel(t) \/ EnsureOrganism(t)
               \/ CreateOrganism(t) \/ EnsureRelationship(t) \/ CreateRelationship(t)
               \/ NoAnswer(t) \/ AdvanceOrganism(t) \/ AdvanceRelationship(t) \/ Capture(t)
               \/ LearnNothing(t) \/ ReadHead(t)
        PROVE  Goal
    BY <1>1, <1>9 DEF Send, Observe, Appraise, Cancel, EnsureOrganism, CreateOrganism,
       EnsureRelationship, CreateRelationship, NoAnswer, AdvanceOrganism, AdvanceRelationship,
       Capture, LearnNothing, ReadHead
  <1>10. ASSUME NEW q \in Processes, TickRead(q) \/ TickAppend(q) \/ OpenSavepoint(q) PROVE Goal
    BY <1>1, <1>10 DEF TickRead, TickAppend, OpenSavepoint
  <1>11. CASE UNCHANGED vars
    BY <1>1, <1>11 DEF vars
  <1> QED BY <1>2, <1>3, <1>4, <1>5, <1>6, <1>7, <1>8, <1>9, <1>10, <1>11 DEF Next

\* The step to "ready" leaves nothing to be visited.
LEMMA ReadyStep ==
    TypeInv /\ BackfillIsOnItsWay /\ [Next]_vars =>
      \A p \in Processes : up[p] = "backfill" /\ up'[p] = "ready"
                              => Own(p) \cap agent \subseteq traces'
  <1> SUFFICES ASSUME TypeInv, BackfillIsOnItsWay, [Next]_vars,
                      NEW p \in Processes, up[p] = "backfill", up'[p] = "ready"
               PROVE  Own(p) \cap agent \subseteq traces'
    OBVIOUS
  <1> USE DEF events, states, archive, learning, session
  <1>0. up \in [Processes -> {"down", "backfill", "ready"}]
    BY DEF TypeInv, TypeOK
  <1>1. ASSUME NEW q \in Processes, Ready(q) PROVE Own(p) \cap agent \subseteq traces'
    <2>1. pending[q] = {} /\ up' = [up EXCEPT ![q] = "ready"] /\ UNCHANGED traces
      BY <1>1 DEF Ready
    <2>2. q = p
      BY <1>0, <2>1
    <2> QED BY <2>1, <2>2 DEF BackfillIsOnItsWay
  <1>2. ASSUME NEW q \in Processes, Start(q) \/ Stop(q) PROVE FALSE
    BY <1>0, <1>2 DEF Start, Stop
  <1>3. ASSUME NEW q \in Processes,
               \/ TickRead(q) \/ TickAppend(q) \/ OpenSavepoint(q) \/ AppendBelief(q)
               \/ \E t \in Turns : Backfill(q, t)
        PROVE  FALSE
    BY <1>3 DEF TickRead, TickAppend, OpenSavepoint, AppendBelief, Backfill
  <1>4. ASSUME NEW t \in Turns,
               \/ Send(t) \/ Observe(t) \/ Appraise(t) \/ Cancel(t) \/ EnsureOrganism(t)
               \/ CreateOrganism(t) \/ EnsureRelationship(t) \/ CreateRelationship(t)
               \/ Answer(t) \/ NoAnswer(t) \/ AdvanceOrganism(t) \/ AdvanceRelationship(t)
               \/ WriteTrace(t) \/ Capture(t) \/ LearnNothing(t) \/ ReadHead(t)
        PROVE  FALSE
    BY <1>4 DEF Send, Observe, Appraise, Cancel, EnsureOrganism, CreateOrganism,
       EnsureRelationship, CreateRelationship, Answer, NoAnswer, AdvanceOrganism,
       AdvanceRelationship, WriteTrace, Capture, LearnNothing, ReadHead
  <1>5. ~UNCHANGED vars
    BY DEF vars
  <1> QED BY <1>1, <1>2, <1>3, <1>4, <1>5 DEF Next

-----------------------------------------------------------------------------
(***************************************************************************)
(* The theorems.                                                           *)
(***************************************************************************)
IInv == TypeInv /\ Exclusive /\ StaleOnlyByOthers /\ Chained /\ Whole

LEMMA InitIInv == Init => IInv
  <1> SUFFICES ASSUME Init PROVE IInv
    OBVIOUS
  <1>1. organism = << >> /\ relationship = << >> /\ \A t \in Turns : at[t] = "unsent"
    BY DEF Init
  <1>2. TypeInv
    BY ChatAssumption DEF Init, TypeInv, TypeOK, Reached, Holding, NoSection
  <1>3. Exclusive
    BY <1>1 DEF Exclusive, Holding
  <1>4. StaleOnlyByOthers
    BY <1>1 DEF StaleOnlyByOthers
  <1>5. \A t \in Turns : By(organism, t, Moves) = {} /\ By(relationship, t, Moves) = {}
    BY <1>1 DEF By
  <1>6. Chained
    BY <1>1, <1>5 DEF Chained, StateIsChained, Tracked
  <1>7. Whole
    <2>1. /\ SectionsAreSound /\ TracesAreKept
      BY <1>1 DEF Init, SectionsAreSound, SectionIsSound, TracesAreKept, NoSection
    <2>2. RepliesAreStored /\ BackfillIsOnItsWay
      BY <1>1 DEF Init, RepliesAreStored, BackfillIsOnItsWay
    <2> QED BY <2>1, <2>2 DEF Whole
  <1>8. QED
    BY <1>2, <1>3, <1>4, <1>6, <1>7 DEF IInv

LEMMA IInvStep == IInv /\ [Next]_vars => IInv'
  BY TypeStep, ExclusiveStep, StaleStep, ChainedStep, SectionsStep, RepliesStep, TracesStep,
     BackfillStep DEF IInv, TypeInv, Whole

LEMMA Invariance == Spec => []IInv
  BY InitIInv, IInvStep, PTL DEF Spec

\* Every variable keeps its type, whatever the processes do and when they stop;
\* only stored turns are traced.
THEOREM TypeCorrect == Spec => []TypeOK
  <1>1. IInv => TypeOK
    BY DEF IInv, TypeInv
  <1>2. QED
    BY <1>1, Invariance, PTL

\* The versions of the organism and of the relationship form a chain in which
\* no turn moves either twice (append_if_version).
THEOREM VersionsAreChained == Spec => []StateIsChained
  <1>1. IInv => StateIsChained
    BY DEF IInv, Chained
  <1>2. QED
    BY <1>1, Invariance, PTL

\* Within a process the send lock keeps what a turn has read current: only
\* another process makes it stale.
THEOREM LockProtects == Spec => []StaleOnlyByOthers
  <1>1. IInv => StaleOnlyByOthers
    BY DEF IInv
  <1>2. QED
    BY <1>1, Invariance, PTL

\* A turn that send returns has its reply, has moved the organism and the
\* relationship with it, and keeps its trace, unless a review was overtaken by
\* another process (send, write_turn, append_if_version).
THEOREM DoneStaysWhole == Spec => []DoneIsWhole
  <1>1. IInv => DoneIsWhole
    BY DEF IInv, TypeInv, Reached, Whole, RepliesAreStored, TracesAreKept, Overtaken, DoneIsWhole
  <1>2. QED
    BY <1>1, Invariance, PTL

\* When a process is ready, every turn that was answered before has a trace,
\* whatever ended it (the backfill of initialize).
THEOREM HistoryGetsTraced == Spec => HistoryIsTraced
  <1>1. IInv /\ [Next]_vars =>
          [\A p \in Processes : up[p] = "backfill" /\ up'[p] = "ready"
             => Own(p) \cap agent \subseteq traces']_vars
    BY ReadyStep DEF IInv, Whole
  <1>2. QED
    BY <1>1, Invariance, PTL DEF Spec, HistoryIsTraced

-----------------------------------------------------------------------------
(***************************************************************************)
(* OutboxDelivery: initiatives, outbox rows and their deliveries.          *)
(***************************************************************************)
\* A process has a message in hand exactly while it works on one, and a batch
\* only while it delivers.
HandsAreRight ==
    \A p \in Runtimes :
        /\ pc[p] \in Producing \cup Delivering => current[p] \in Messages
        /\ pc[p] \in {"idle", "claim", "loop"} => current[p] = NoMessage
        /\ pc[p] \in Producing \cup {"idle"} => batch[p] = {}
        /\ pc[p] \in Delivering => current[p] \in batch[p]

\* How far a delivery has come tells what the channel and the ledger have seen.
StepsAreTaken ==
    /\ \A p \in Runtimes :
         /\ pc[p] \in {"find_event", "append", "mark", "sent"} => shown[current[p]] > 0
         /\ pc[p] \in {"mark", "sent"} => current[p] \in recorded
    /\ \A m \in recorded : shown[m] > 0

\* The processes that have claimed m and not shown it yet.
Owing(m) == {p \in Runtimes : m \in batch[p] /\ (current[p] = m => pc[p] = "show")}

\* Every claim that has not been used yet has been paid for, too.
ClaimsArePaid == \A m \in Messages : shown[m] + Cardinality(Owing(m)) <= attempts[m]

\* Without overrun a batch is all that keeps a row from being claimed.
LeasesHold ==
    ~setting.rough =>
        \A p \in Runtimes : \A m \in batch[p] :
            /\ wait[m] >= 1
            /\ outbox[m] = IF current[p] = m /\ pc[p] \in {"sent", "hook"}
                             THEN "delivered" ELSE "delivering"

DeliveryInv ==
    /\ HandsAreRight
    /\ StepsAreTaken
    /\ DeliveredWasRecorded
    /\ ClaimsArePaid
    /\ LeasesHold
    /\ ClaimsAreExclusive
-----------------------------------------------------------------------------
LEMMA LesserType ==
    ASSUME NEW a \in Int, NEW b \in Int
    PROVE  Lesser(a, b) \in Int
  BY DEF Lesser

LEMMA RetryDelayType ==
    ASSUME NEW n \in Nat
    PROVE  RetryDelay(n) \in Int
  <1>1. (IF n = 0 THEN 0 ELSE n - 1) \in Nat
    OBVIOUS
  <1>2. 2 ^ (IF n = 0 THEN 0 ELSE n - 1) \in Int
    BY <1>1
  <1>3. RetryBase * 2 ^ (IF n = 0 THEN 0 ELSE n - 1) \in Int
    BY <1>2, DeliveryAssumption
  <1>4. RetryCap \in Int
    BY DeliveryAssumption
  <1> QED BY <1>3, <1>4, LesserType DEF RetryDelay

\* The number that a row gets when it is inserted.
LEMMA BornType == Cardinality({m \in Messages : outbox[m] # "absent"}) \in Nat
  BY FinitenessAssumption, FS_Subset, FS_CardinalityType

\* The processes in play are processes.
LEMMA Actors == OutboxTypeOK => setting.processes \subseteq Runtimes
  BY DeliveryAssumption DEF OutboxTypeOK

\* One message or one process is changed in a table.
LEMMA OutboxTypeStep == OutboxTypeOK /\ HandsAreRight /\ [OutboxNext]_outboxVars => OutboxTypeOK'
  <1> SUFFICES ASSUME OutboxTypeOK, HandsAreRight, [OutboxNext]_outboxVars
               PROVE  OutboxTypeOK'
    OBVIOUS
  <1> USE DEF initiatives, rows, locals, moving
  <1>0. setting' = setting
    BY DEF OutboxNext, outboxVars
  <1>1. ASSUME NEW p \in Runtimes, NEW m \in Messages, Evaluate(p, m) PROVE OutboxTypeOK'
    BY <1>0, <1>1 DEF OutboxTypeOK, Evaluate, Goto, Places, Producing
  <1>2. ASSUME NEW p \in Runtimes, DraftDone(p) PROVE OutboxTypeOK'
    BY <1>0, <1>2 DEF OutboxTypeOK, DraftDone, Goto, Places, Producing
  <1>3. ASSUME NEW p \in Runtimes, InsertInitiative(p) PROVE OutboxTypeOK'
    BY <1>0, <1>3, DeliveryAssumption
       DEF OutboxTypeOK, InsertInitiative, Goto, Places, Producing, InitiativeStatuses
  <1>4. ASSUME NEW p \in Runtimes, InsertConflict(p) PROVE OutboxTypeOK'
    BY <1>0, <1>4 DEF OutboxTypeOK, InsertConflict, Leave, Goto, Places
  <1>5. ASSUME NEW p \in Runtimes, Approve(p) PROVE OutboxTypeOK'
    BY <1>0, <1>5 DEF OutboxTypeOK, Approve, Goto, Places, Producing, InitiativeStatuses
  <1>6. ASSUME NEW p \in Runtimes, FindRow(p) PROVE OutboxTypeOK'
    BY <1>0, <1>6 DEF OutboxTypeOK, FindRow, AfterFind, Goto, Places, Producing
  <1>7. ASSUME NEW p \in Runtimes, Enqueue(p) PROVE OutboxTypeOK'
    <2>1. born' \in [Messages -> Int]
      <3> DEFINE number == Cardinality({m \in Messages : outbox[m] # "absent"})
      <3>1. number \in Int
        BY BornType
      <3>2. born' = [born EXCEPT ![current[p]] = number]
        BY <1>7 DEF Enqueue
      <3> HIDE DEF number
      <3> QED BY <3>1, <3>2 DEF OutboxTypeOK
    <2>2. outbox' \in [Messages -> OutboxStatuses]
      BY <1>7 DEF OutboxTypeOK, Enqueue, OutboxStatuses
    <2> QED BY <1>0, <1>7, <2>1, <2>2 DEF OutboxTypeOK, Enqueue, Goto, Places, Producing
  <1>8. ASSUME NEW p \in Runtimes, Queue(p) PROVE OutboxTypeOK'
    BY <1>0, <1>8 DEF OutboxTypeOK, Queue, Leave, Goto, Places, InitiativeStatuses
  <1>9. ASSUME NEW p \in Runtimes, Expire(p) PROVE OutboxTypeOK'
    BY <1>0, <1>9 DEF OutboxTypeOK, Expire, InitiativeStatuses
  <1>10. ASSUME NEW p \in Runtimes, ClaimSelect(p) PROVE OutboxTypeOK'
    <2>1. selected' \in [Runtimes -> SUBSET Messages]
      BY <1>0, <1>10 DEF OutboxTypeOK, ClaimSelect, Oldest
    <2> QED BY <1>0, <1>10, <2>1 DEF OutboxTypeOK, ClaimSelect, Goto, Places
  <1>11. ASSUME NEW p \in Runtimes, NEW m \in Messages, ClaimUpdate(p, m) PROVE OutboxTypeOK'
    <2>1. CASE Claimable(m)
      <3>1. Charge(m) \in Nat
        BY DEF OutboxTypeOK, Charge
      <3>2. attempts' \in [Messages -> Nat] /\ wait' \in [Messages -> Int]
        BY <1>11, <2>1, <3>1, DeliveryAssumption DEF OutboxTypeOK, ClaimUpdate
      <3>3. tried' \in [Runtimes -> [Messages -> Nat]]
        <4>1. [tried[p] EXCEPT ![m] = Charge(m)] \in [Messages -> Nat]
          BY <3>1 DEF OutboxTypeOK
        <4>2. tried' = [tried EXCEPT ![p] = [tried[p] EXCEPT ![m] = Charge(m)]]
          BY <1>11, <2>1 DEF ClaimUpdate
        <4> QED BY <4>1, <4>2 DEF OutboxTypeOK
      <3>4. selected' \in [Runtimes -> SUBSET Messages] /\ batch' \in [Runtimes -> SUBSET Messages]
        BY <1>11, <2>1 DEF OutboxTypeOK, ClaimUpdate
      <3> QED BY <1>0, <1>11, <2>1, <3>2, <3>3, <3>4 DEF OutboxTypeOK, ClaimUpdate, OutboxStatuses
    <2>2. CASE ~Claimable(m)
      BY <1>0, <1>11, <2>2 DEF OutboxTypeOK, ClaimUpdate
    <2> QED BY <2>1, <2>2
  <1>12. ASSUME NEW p \in Runtimes, ClaimDone(p) PROVE OutboxTypeOK'
    BY <1>0, <1>12 DEF OutboxTypeOK, ClaimDone, Goto, Places
  <1>13. ASSUME NEW p \in Runtimes, NEW m \in Messages, Take(p, m) PROVE OutboxTypeOK'
    BY <1>0, <1>13 DEF OutboxTypeOK, Take, Goto, Places, Delivering
  <1>14. ASSUME NEW p \in Runtimes, Show(p) PROVE OutboxTypeOK'
    <2>1. current[p] \in Messages
      BY <1>14 DEF Show, HandsAreRight, Delivering
    <2>2. shown' \in [Messages -> Nat]
      BY <1>14, <2>1 DEF OutboxTypeOK, Show
    <2> QED BY <1>0, <1>14, <2>2 DEF OutboxTypeOK, Show, Goto, Places, Delivering
  <1>15. ASSUME NEW p \in Runtimes, ShowFails(p) PROVE OutboxTypeOK'
    BY <1>0, <1>15 DEF OutboxTypeOK, ShowFails, Goto, Places, Delivering
  <1>16. ASSUME NEW p \in Runtimes, FindEvent(p) PROVE OutboxTypeOK'
    BY <1>0, <1>16 DEF OutboxTypeOK, FindEvent, AfterShow, Goto, Places, Delivering
  <1>17. ASSUME NEW p \in Runtimes, AppendEvent(p) PROVE OutboxTypeOK'
    BY <1>0, <1>17 DEF OutboxTypeOK, HandsAreRight, AppendEvent, Goto, Places, Delivering
  <1>18. ASSUME NEW p \in Runtimes, MarkDelivered(p) PROVE OutboxTypeOK'
    BY <1>0, <1>18 DEF OutboxTypeOK, MarkDelivered, Goto, Places, Delivering, OutboxStatuses
  <1>19. ASSUME NEW p \in Runtimes, MarkSent(p) PROVE OutboxTypeOK'
    BY <1>0, <1>19 DEF OutboxTypeOK, MarkSent, Goto, Places, Delivering, InitiativeStatuses
  <1>20. ASSUME NEW p \in Runtimes, HookReturns(p) PROVE OutboxTypeOK'
    BY <1>0, <1>20 DEF OutboxTypeOK, HookReturns, NextMessage, Goto, Places
  <1>21. ASSUME NEW p \in Runtimes, HookRaises(p) PROVE OutboxTypeOK'
    BY <1>0, <1>21 DEF OutboxTypeOK, HookRaises, Goto, Places, Delivering
  <1>22. ASSUME NEW p \in Runtimes, FailRead(p) PROVE OutboxTypeOK'
    BY <1>0, <1>22 DEF OutboxTypeOK, FailRead, Goto, Places, Delivering
  <1>23. ASSUME NEW p \in Runtimes, FailWrite(p) PROVE OutboxTypeOK'
    <2>1. current[p] \in Messages
      BY <1>0, <1>23 DEF FailWrite, HandsAreRight, Delivering
    <2>2. RetryDelay(tried[p][current[p]]) \in Int
      BY <2>1, RetryDelayType DEF OutboxTypeOK
    <2>3. wait' \in [Messages -> Int]
      BY <1>0, <1>23, <2>2 DEF OutboxTypeOK, FailWrite
    <2> QED BY <1>0, <1>23, <2>3 DEF OutboxTypeOK, FailWrite, Failed, NextMessage, Goto, Places,
                                OutboxStatuses
  <1>24. ASSUME NEW p \in Runtimes, BatchDone(p) PROVE OutboxTypeOK'
    BY <1>0, <1>24 DEF OutboxTypeOK, BatchDone, Goto, Places
  <1>25. ASSUME NEW p \in Runtimes, Crash(p) PROVE OutboxTypeOK'
    BY <1>0, <1>25 DEF OutboxTypeOK, Crash, Goto, Places
  <1>26. CASE Advance
    BY <1>0, <1>26 DEF OutboxTypeOK, Advance, Less
  <1>27. CASE UNCHANGED outboxVars
    BY <1>27 DEF outboxVars, OutboxTypeOK
  <1>28. ASSUME NEW p \in Runtimes, Proceed(p) PROVE OutboxTypeOK'
    BY <1>2, <1>3, <1>4, <1>5, <1>6, <1>7, <1>8, <1>11, <1>12, <1>13, <1>14, <1>15, <1>16,
       <1>17, <1>18, <1>19, <1>20, <1>21, <1>22, <1>23, <1>24, <1>28 DEF Proceed
  <1> QED
    BY Actors, <1>1, <1>9, <1>10, <1>25, <1>26, <1>27, <1>28 DEF OutboxNext

-----------------------------------------------------------------------------
LEMMA HandsStep == OutboxTypeOK /\ HandsAreRight /\ [OutboxNext]_outboxVars => HandsAreRight'
  <1> SUFFICES ASSUME OutboxTypeOK, HandsAreRight, [OutboxNext]_outboxVars
               PROVE  HandsAreRight'
    OBVIOUS
  <1> USE DEF initiatives, rows, locals, moving
  <1>1. ASSUME NEW p \in Runtimes, NEW m \in Messages, Evaluate(p, m) PROVE HandsAreRight'
    BY <1>1 DEF OutboxTypeOK, HandsAreRight, Evaluate, Goto, Producing, Delivering
  <1>2. ASSUME NEW p \in Runtimes,
               DraftDone(p) \/ InsertInitiative(p) \/ Approve(p) \/ FindRow(p) \/ Enqueue(p)
        PROVE  HandsAreRight'
    BY <1>2 DEF OutboxTypeOK, HandsAreRight, DraftDone, InsertInitiative, Approve, FindRow,
                AfterFind, Enqueue, Goto, Producing, Delivering
  <1>3. ASSUME NEW p \in Runtimes, InsertConflict(p) \/ Queue(p) PROVE HandsAreRight'
    BY <1>3 DEF OutboxTypeOK, HandsAreRight, InsertConflict, Queue, Leave, Goto, Producing,
                Delivering
  <1>4. ASSUME NEW p \in Runtimes, ClaimSelect(p) \/ ClaimDone(p) \/ BatchDone(p)
        PROVE  HandsAreRight'
    BY <1>4 DEF OutboxTypeOK, HandsAreRight, ClaimSelect, ClaimDone, BatchDone, Goto, Producing,
                Delivering
  <1>5. ASSUME NEW p \in Runtimes, NEW m \in Messages, ClaimUpdate(p, m)
        PROVE  HandsAreRight'
    BY <1>5 DEF OutboxTypeOK, HandsAreRight, ClaimUpdate, Producing, Delivering
  <1>6. ASSUME NEW p \in Runtimes, NEW m \in Messages, Take(p, m) PROVE HandsAreRight'
    BY <1>6 DEF OutboxTypeOK, HandsAreRight, Take, First, Goto, Producing, Delivering
  <1>7. ASSUME NEW p \in Runtimes,
               \/ Show(p) \/ ShowFails(p) \/ FindEvent(p) \/ AppendEvent(p)
               \/ MarkDelivered(p) \/ MarkSent(p) \/ HookRaises(p) \/ FailRead(p)
        PROVE  HandsAreRight'
    BY <1>7 DEF OutboxTypeOK, HandsAreRight, Show, ShowFails, FindEvent, AfterShow, AppendEvent,
                MarkDelivered, MarkSent, HookRaises, FailRead, Goto, Producing, Delivering
  <1>8. ASSUME NEW p \in Runtimes, HookReturns(p) \/ FailWrite(p) PROVE HandsAreRight'
    BY <1>8 DEF OutboxTypeOK, HandsAreRight, HookReturns, FailWrite, NextMessage, Goto, Producing,
                Delivering
  <1>9. ASSUME NEW p \in Runtimes, Crash(p) PROVE HandsAreRight'
    BY <1>9 DEF OutboxTypeOK, HandsAreRight, Crash, Goto, Producing, Delivering
  <1>10. CASE Advance \/ (\E p \in Runtimes : Expire(p)) \/ UNCHANGED outboxVars
    BY <1>10 DEF HandsAreRight, Advance, Expire, outboxVars
  <1>11. ASSUME NEW p \in Runtimes, Proceed(p) PROVE HandsAreRight'
    BY <1>2, <1>3, <1>4, <1>5, <1>6, <1>7, <1>8, <1>11 DEF Proceed
  <1> QED
    BY Actors, <1>1, <1>4, <1>9, <1>10, <1>11 DEF OutboxNext

-----------------------------------------------------------------------------
\* The ledger has an event only of what the channel has shown, and a row is
\* acknowledged only after that.
LEMMA LedgerStep ==
    ASSUME OutboxTypeOK, HandsAreRight, StepsAreTaken, DeliveredWasRecorded, [OutboxNext]_outboxVars
    PROVE  StepsAreTaken' /\ DeliveredWasRecorded'
  <1> DEFINE Goal == StepsAreTaken' /\ DeliveredWasRecorded'
  <1> USE DEF initiatives, rows, locals, moving
  <1>1. ASSUME NEW p \in Runtimes, NEW m \in Messages, Evaluate(p, m) PROVE Goal
    BY <1>1 DEF OutboxTypeOK, HandsAreRight, StepsAreTaken, DeliveredWasRecorded, Evaluate, Goto
  <1>2. ASSUME NEW p \in Runtimes, DraftDone(p) \/ FindRow(p) PROVE Goal
    BY <1>2 DEF OutboxTypeOK, StepsAreTaken, DeliveredWasRecorded, DraftDone, FindRow, AfterFind,
                Goto
  <1>3. ASSUME NEW p \in Runtimes, InsertInitiative(p) \/ Approve(p) \/ Enqueue(p)
        PROVE  Goal
    BY <1>3 DEF OutboxTypeOK, StepsAreTaken, DeliveredWasRecorded, InsertInitiative, Approve,
                Enqueue, Goto
  <1>4. ASSUME NEW p \in Runtimes, InsertConflict(p) \/ Queue(p) PROVE Goal
    BY <1>4 DEF OutboxTypeOK, StepsAreTaken, DeliveredWasRecorded, InsertConflict, Queue, Leave,
                Goto
  <1>5. ASSUME NEW p \in Runtimes, ClaimSelect(p) \/ ClaimDone(p) \/ BatchDone(p)
        PROVE  Goal
    BY <1>5 DEF OutboxTypeOK, StepsAreTaken, DeliveredWasRecorded, ClaimSelect, ClaimDone,
                BatchDone, Goto
  <1>6. ASSUME NEW p \in Runtimes, NEW m \in Messages, ClaimUpdate(p, m) PROVE Goal
    BY <1>6 DEF OutboxTypeOK, StepsAreTaken, DeliveredWasRecorded, ClaimUpdate
  <1>7. ASSUME NEW p \in Runtimes, NEW m \in Messages, Take(p, m) PROVE Goal
    BY <1>7 DEF OutboxTypeOK, StepsAreTaken, DeliveredWasRecorded, Take, Goto
  <1>8. ASSUME NEW p \in Runtimes, Show(p) PROVE Goal
    <2>1. current[p] \in Messages
      BY <1>8 DEF Show, HandsAreRight, Delivering
    <2>2. /\ \A m \in Messages : shown[m] > 0 => shown'[m] > 0
          /\ shown'[current[p]] > 0
      BY <1>8, <2>1 DEF OutboxTypeOK, Show
    <2>3. \A q \in Runtimes : pc[q] \in {"find_event", "append", "mark", "sent"} =>
            current[q] \in Messages
      BY DEF HandsAreRight, Delivering
    <2> QED BY <1>8, <2>1, <2>2, <2>3
            DEF OutboxTypeOK, StepsAreTaken, DeliveredWasRecorded, Show, Goto
  <1>9. ASSUME NEW p \in Runtimes, ShowFails(p) \/ HookRaises(p) \/ FailRead(p) PROVE Goal
    BY <1>9 DEF OutboxTypeOK, StepsAreTaken, DeliveredWasRecorded, ShowFails, HookRaises, FailRead,
                Goto
  <1>10. ASSUME NEW p \in Runtimes, FindEvent(p) PROVE Goal
    BY <1>10 DEF OutboxTypeOK, StepsAreTaken, DeliveredWasRecorded, FindEvent, AfterShow, Goto
  <1>11. ASSUME NEW p \in Runtimes, AppendEvent(p) PROVE Goal
    BY <1>11 DEF OutboxTypeOK, StepsAreTaken, DeliveredWasRecorded, AppendEvent, Goto
  <1>12. ASSUME NEW p \in Runtimes, MarkDelivered(p) \/ MarkSent(p) PROVE Goal
    BY <1>12 DEF OutboxTypeOK, StepsAreTaken, DeliveredWasRecorded, MarkDelivered, MarkSent, Goto
  <1>13. ASSUME NEW p \in Runtimes, HookReturns(p) \/ FailWrite(p) PROVE Goal
    BY <1>13 DEF OutboxTypeOK, StepsAreTaken, DeliveredWasRecorded, HookReturns, FailWrite, Failed,
                 NextMessage, Goto
  <1>14. ASSUME NEW p \in Runtimes, Crash(p) PROVE Goal
    BY <1>14 DEF OutboxTypeOK, StepsAreTaken, DeliveredWasRecorded, Crash, Goto
  <1>15. CASE Advance \/ (\E p \in Runtimes : Expire(p)) \/ UNCHANGED outboxVars
    BY <1>15 DEF OutboxTypeOK, StepsAreTaken, DeliveredWasRecorded, Advance, Expire, outboxVars
  <1>16. ASSUME NEW p \in Runtimes, Proceed(p) PROVE Goal
    BY <1>2, <1>3, <1>4, <1>5, <1>6, <1>7, <1>8, <1>9, <1>10, <1>11, <1>12, <1>13, <1>16
       DEF Proceed
  <1> QED
    BY Actors, <1>1, <1>5, <1>14, <1>15, <1>16 DEF OutboxNext

-----------------------------------------------------------------------------
\* Where a process of a batch is, as far as its leases matter.
LEMMA LeasesUntouched ==
    ASSUME LeasesHold, ClaimsAreExclusive, UNCHANGED <<setting, outbox, wait, batch>>,
           \A q \in Runtimes : \A m \in batch[q] :
               /\ current'[q] = m <=> current[q] = m
               /\ pc'[q] \in {"sent", "hook"} <=> pc[q] \in {"sent", "hook"}
    PROVE  LeasesHold' /\ ClaimsAreExclusive'
  BY DEF LeasesHold, ClaimsAreExclusive

\* A row that somebody has claimed cannot be claimed again while its lease holds,
\* and nobody else settles it.
LEMMA LeaseStep ==
    ASSUME OutboxTypeOK, HandsAreRight, LeasesHold, ClaimsAreExclusive, [OutboxNext]_outboxVars
    PROVE  LeasesHold' /\ ClaimsAreExclusive'
  <1> DEFINE Goal == LeasesHold' /\ ClaimsAreExclusive'
  <1>0. setting' = setting
    BY DEF OutboxNext, outboxVars
  <1>a. CASE setting.rough
    BY <1>0, <1>a DEF LeasesHold, ClaimsAreExclusive
  <1> SUFFICES ASSUME ~setting.rough PROVE Goal
    BY <1>a
  <1> USE <1>0 DEF initiatives, rows, locals, moving
  <1>1. ASSUME NEW p \in Runtimes, NEW m \in Messages, Evaluate(p, m) PROVE Goal
    BY <1>1 DEF OutboxTypeOK, HandsAreRight, LeasesHold, ClaimsAreExclusive, Evaluate, Goto
  <1>2. ASSUME NEW p \in Runtimes,
               DraftDone(p) \/ InsertInitiative(p) \/ Approve(p) \/ FindRow(p)
        PROVE  Goal
    <2>1. /\ UNCHANGED <<outbox, wait, batch, current>>
          /\ \E place : pc' = [pc EXCEPT ![p] = place]
      BY <1>2 DEF DraftDone, InsertInitiative, Approve, FindRow, Goto
    <2>2. batch[p] = {}
      BY <1>2 DEF HandsAreRight, DraftDone, InsertInitiative, Approve, FindRow, Producing
    <2> QED BY <2>1, <2>2, LeasesUntouched DEF OutboxTypeOK
  <1>3. ASSUME NEW p \in Runtimes, Enqueue(p) PROVE Goal
    BY <1>3 DEF OutboxTypeOK, HandsAreRight, LeasesHold, ClaimsAreExclusive, Enqueue, Goto,
                Producing
  <1>4. ASSUME NEW p \in Runtimes, InsertConflict(p) \/ Queue(p) PROVE Goal
    BY <1>4 DEF OutboxTypeOK, HandsAreRight, LeasesHold, ClaimsAreExclusive, InsertConflict, Queue,
                Leave, Goto, Producing
  <1>5. ASSUME NEW p \in Runtimes, ClaimSelect(p) \/ ClaimDone(p) \/ BatchDone(p)
        PROVE  Goal
    <2>1. /\ UNCHANGED <<outbox, wait, batch, current>>
          /\ \E place \in {"idle", "claim", "loop"} : pc' = [pc EXCEPT ![p] = place]
          /\ pc[p] \in {"idle", "claim", "loop"}
      BY <1>5 DEF ClaimSelect, ClaimDone, BatchDone, Goto
    <2> QED BY <2>1, LeasesUntouched DEF OutboxTypeOK
  <1>6. ASSUME NEW p \in Runtimes, NEW m \in Messages, ClaimUpdate(p, m) PROVE Goal
    <2>1. CASE Claimable(m)
      <3>1. \A q \in Runtimes : m \notin batch[q]
        BY <2>1 DEF OutboxTypeOK, LeasesHold, Claimable
      <3>2. /\ outbox' = [outbox EXCEPT ![m] = "delivering"]
            /\ wait' = [wait EXCEPT ![m] = LeaseMs]
            /\ batch' = [batch EXCEPT ![p] = @ \cup {m}]
            /\ UNCHANGED <<pc, current>>
            /\ pc[p] = "claim"
        BY <1>6, <2>1 DEF ClaimUpdate
      <3>3. ClaimsAreExclusive'
        BY <3>1, <3>2 DEF OutboxTypeOK, ClaimsAreExclusive
      <3>4. LeaseMs >= 1
        BY DeliveryAssumption
      <3>5. LeasesHold'
        BY <3>1, <3>2, <3>4 DEF OutboxTypeOK, LeasesHold
      <3> QED BY <3>3, <3>5
    <2>2. CASE ~Claimable(m)
      BY <1>6, <2>2 DEF LeasesHold, ClaimsAreExclusive, ClaimUpdate
    <2> QED BY <2>1, <2>2
  <1>7. ASSUME NEW p \in Runtimes, NEW m \in Messages, Take(p, m) PROVE Goal
    BY <1>7, MessagesAssumption
       DEF OutboxTypeOK, HandsAreRight, LeasesHold, ClaimsAreExclusive, Take, Goto
  <1>8. ASSUME NEW p \in Runtimes,
               Show(p) \/ ShowFails(p) \/ FindEvent(p) \/ AppendEvent(p)
        PROVE  Goal
    BY <1>8 DEF OutboxTypeOK, HandsAreRight, LeasesHold, ClaimsAreExclusive, Show, ShowFails,
                FindEvent, AfterShow, AppendEvent, Goto
  <1>9. ASSUME NEW p \in Runtimes, MarkDelivered(p) PROVE Goal
    <2>1. \A q \in Runtimes \ {p} : current[p] \notin batch[q]
      BY <1>9 DEF MarkDelivered, HandsAreRight, ClaimsAreExclusive, Delivering
    <2> QED BY <1>9, <2>1 DEF OutboxTypeOK, LeasesHold, ClaimsAreExclusive, MarkDelivered, Goto
  <1>10. ASSUME NEW p \in Runtimes, MarkSent(p) PROVE Goal
    BY <1>10 DEF OutboxTypeOK, LeasesHold, ClaimsAreExclusive, MarkSent, Goto
  <1>11. ASSUME NEW p \in Runtimes, HookReturns(p) PROVE Goal
    <2>1. current[p] \in Messages
      BY <1>11 DEF HookReturns, HandsAreRight, Delivering
    <2> QED BY <1>11, <2>1, MessagesAssumption
            DEF OutboxTypeOK, HandsAreRight, LeasesHold, ClaimsAreExclusive, HookReturns,
                NextMessage, Goto
  <1>12. ASSUME NEW p \in Runtimes, FailRead(p) PROVE Goal
    BY <1>12 DEF OutboxTypeOK, LeasesHold, ClaimsAreExclusive, FailRead, Goto
  <1>13. ASSUME NEW p \in Runtimes, FailWrite(p) PROVE Goal
    <2>1. /\ current[p] \in Messages
          /\ \A q \in Runtimes \ {p} : current[p] \notin batch[q]
      BY <1>13 DEF FailWrite, HandsAreRight, ClaimsAreExclusive, Delivering
    <2> QED BY <1>13, <2>1, MessagesAssumption
            DEF OutboxTypeOK, HandsAreRight, LeasesHold, ClaimsAreExclusive, FailWrite,
                NextMessage, Goto
  <1>14. ASSUME NEW p \in Runtimes, Crash(p) PROVE Goal
    BY <1>14 DEF OutboxTypeOK, LeasesHold, ClaimsAreExclusive, Crash, Goto
  <1>15. CASE Advance
    BY <1>15 DEF OutboxTypeOK, LeasesHold, ClaimsAreExclusive, Advance, Less
  <1>16. CASE (\E p \in Runtimes : Expire(p)) \/ UNCHANGED outboxVars
    BY <1>16 DEF LeasesHold, ClaimsAreExclusive, Expire, outboxVars
  <1>17. ASSUME NEW p \in Runtimes, Proceed(p) PROVE Goal
    <2>1. ~HookRaises(p)
      BY DEF HookRaises
    <2> QED BY <1>2, <1>3, <1>4, <1>5, <1>6, <1>7, <1>8, <1>9, <1>10, <1>11, <1>12, <1>13,
               <1>17, <2>1 DEF Proceed
  <1> QED
    BY Actors, <1>1, <1>5, <1>14, <1>15, <1>16, <1>17 DEF OutboxNext

-----------------------------------------------------------------------------
\* Counting the processes that have a claim open.
LEMMA Counting ==
    ASSUME NEW S \in SUBSET Runtimes, NEW T \in SUBSET Runtimes
    PROVE  /\ Cardinality(S) \in Nat
           /\ T \subseteq S => Cardinality(T) <= Cardinality(S)
           /\ \A p \in S : T \subseteq S \ {p} => Cardinality(T) + 1 <= Cardinality(S)
           /\ \A p \in Runtimes : T \subseteq S \cup {p} => Cardinality(T) <= Cardinality(S) + 1
  <1>1. IsFiniteSet(S) /\ IsFiniteSet(T)
    BY FinitenessAssumption, FS_Subset
  <1>2. Cardinality(S) \in Nat /\ Cardinality(T) \in Nat
    BY <1>1, FS_CardinalityType
  <1>3. T \subseteq S => Cardinality(T) <= Cardinality(S)
    BY <1>1, FS_Subset
  <1>4. ASSUME NEW p \in S, T \subseteq S \ {p}
        PROVE  Cardinality(T) + 1 <= Cardinality(S)
    <2>1. IsFiniteSet(S \ {p}) /\ Cardinality(S \ {p}) = Cardinality(S) - 1
      BY <1>1, FS_RemoveElement
    <2>2. Cardinality(T) <= Cardinality(S \ {p})
      BY <1>4, <2>1, FS_Subset
    <2> QED BY <1>2, <2>1, <2>2
  <1>5. ASSUME NEW p \in Runtimes, T \subseteq S \cup {p}
        PROVE  Cardinality(T) <= Cardinality(S) + 1
    <2>1. /\ IsFiniteSet(S \cup {p})
          /\ Cardinality(S \cup {p}) = IF p \in S THEN Cardinality(S) ELSE Cardinality(S) + 1
      BY <1>1, FS_AddElement
    <2>2. Cardinality(T) <= Cardinality(S \cup {p})
      BY <1>5, <2>1, FS_Subset
    <2> QED BY <1>2, <2>1, <2>2
  <1> QED BY <1>2, <1>3, <1>4, <1>5

\* Nothing is owed anew where nothing is claimed.
LEMMA PaidUnlessMore ==
    ASSUME OutboxTypeOK, ClaimsArePaid, UNCHANGED <<shown, attempts>>,
           \A m \in Messages : Owing(m)' \subseteq Owing(m)
    PROVE  ClaimsArePaid'
  <1> SUFFICES ASSUME NEW m \in Messages
               PROVE  shown'[m] + Cardinality(Owing(m)') <= attempts'[m]
    BY DEF ClaimsArePaid
  <1> DEFINE S == Owing(m)
             T == Owing(m)'
  <1>1. S \in SUBSET Runtimes /\ T \in SUBSET Runtimes /\ T \subseteq S
    BY DEF Owing
  <1>2. shown[m] \in Nat /\ attempts[m] \in Nat /\ shown[m] + Cardinality(S) <= attempts[m]
    BY DEF OutboxTypeOK, ClaimsArePaid
  <1> HIDE DEF S, T
  <1>3. Cardinality(S) \in Nat /\ Cardinality(T) \in Nat /\ Cardinality(T) <= Cardinality(S)
    BY <1>1, Counting
  <1>4. shown[m] + Cardinality(T) <= attempts[m]
    BY <1>2, <1>3
  <1> QED BY <1>4 DEF T

LEMMA PaidStep ==
    ASSUME OutboxTypeOK, HandsAreRight, ClaimsArePaid, [OutboxNext]_outboxVars
    PROVE  ClaimsArePaid'
  <1> USE DEF initiatives, rows, locals, moving
  <1>1. ASSUME NEW p \in Runtimes, NEW m \in Messages, Evaluate(p, m) PROVE ClaimsArePaid'
    BY <1>1, PaidUnlessMore DEF OutboxTypeOK, HandsAreRight, Owing, Evaluate, Goto
  <1>2. ASSUME NEW p \in Runtimes,
               \/ DraftDone(p) \/ InsertInitiative(p) \/ Approve(p) \/ FindRow(p) \/ Enqueue(p)
               \/ InsertConflict(p) \/ Queue(p)
        PROVE  ClaimsArePaid'
    <2>1. batch[p] = {}
      BY <1>2 DEF HandsAreRight, DraftDone, InsertInitiative, Approve, FindRow, Enqueue,
                  InsertConflict, Queue, Producing
    <2>2. /\ UNCHANGED <<shown, attempts, batch>>
          /\ \E place : pc' = [pc EXCEPT ![p] = place]
          /\ \A q \in Runtimes \ {p} : current'[q] = current[q]
      BY <1>2 DEF OutboxTypeOK, DraftDone, InsertInitiative, Approve, FindRow, Enqueue,
                  InsertConflict, Queue, Leave, Goto
    <2> QED BY <2>1, <2>2, PaidUnlessMore DEF OutboxTypeOK, Owing
  <1>3. ASSUME NEW p \in Runtimes, ClaimSelect(p) \/ ClaimDone(p) \/ BatchDone(p)
        PROVE  ClaimsArePaid'
    <2>1. /\ UNCHANGED <<shown, attempts, batch, current>>
          /\ \E place : pc' = [pc EXCEPT ![p] = place]
          /\ current[p] = NoMessage
      BY <1>3 DEF HandsAreRight, ClaimSelect, ClaimDone, BatchDone, Goto
    <2> QED BY <2>1, MessagesAssumption, PaidUnlessMore DEF OutboxTypeOK, Owing
  <1>4. ASSUME NEW p \in Runtimes, NEW m \in Messages, ClaimUpdate(p, m)
        PROVE  ClaimsArePaid'
    <2>1. CASE Claimable(m)
      <3>1. /\ attempts' = [attempts EXCEPT ![m] = Charge(m)]
            /\ batch' = [batch EXCEPT ![p] = @ \cup {m}]
            /\ UNCHANGED <<shown, pc, current>>
        BY <1>4, <2>1 DEF ClaimUpdate
      <3>2. ASSUME NEW n \in Messages
            PROVE  shown'[n] + Cardinality(Owing(n)') <= attempts'[n]
        <4> DEFINE S == Owing(n)
                   T == Owing(n)'
        <4>1. S \in SUBSET Runtimes /\ T \in SUBSET Runtimes
          BY DEF Owing
        <4>2. /\ T \subseteq S \cup {p}
              /\ n # m => T \subseteq S
          BY <3>1 DEF OutboxTypeOK, Owing
        <4>3. /\ shown'[n] = shown[n]
              /\ attempts'[n] = IF n = m THEN attempts[n] + 1 ELSE attempts[n]
          BY <3>1 DEF OutboxTypeOK, Charge
        <4>4. /\ shown[n] \in Nat /\ attempts[n] \in Nat
              /\ shown[n] + Cardinality(S) <= attempts[n]
          BY DEF OutboxTypeOK, ClaimsArePaid
        <4> HIDE DEF S, T
        <4>5. /\ Cardinality(S) \in Nat /\ Cardinality(T) \in Nat
              /\ Cardinality(T) <= Cardinality(S) + 1
              /\ n # m => Cardinality(T) <= Cardinality(S)
          BY <4>1, <4>2, Counting
        <4>6. shown'[n] + Cardinality(T) <= attempts'[n]
          BY <4>3, <4>4, <4>5
        <4> QED BY <4>6 DEF T
      <3> QED BY <3>2 DEF ClaimsArePaid
    <2>2. CASE ~Claimable(m)
      BY <1>4, <2>2, PaidUnlessMore DEF ClaimUpdate, Owing
    <2> QED BY <2>1, <2>2
  <1>5. ASSUME NEW p \in Runtimes, NEW m \in Messages, Take(p, m) PROVE ClaimsArePaid'
    <2>1. current[p] = NoMessage
      BY <1>5 DEF Take, HandsAreRight
    <2> QED BY <1>5, <2>1, MessagesAssumption, PaidUnlessMore DEF OutboxTypeOK, Owing, Take, Goto
  <1>6. ASSUME NEW p \in Runtimes, Show(p) PROVE ClaimsArePaid'
    <2>1. /\ shown' = [shown EXCEPT ![current[p]] = @ + 1]
          /\ pc' = [pc EXCEPT ![p] = "find_event"]
          /\ pc[p] = "show"
          /\ UNCHANGED <<attempts, batch, current>>
          /\ current[p] \in batch[p]
      BY <1>6 DEF Show, Goto, HandsAreRight, Delivering
    <2>2. ASSUME NEW n \in Messages
          PROVE  shown'[n] + Cardinality(Owing(n)') <= attempts'[n]
      <3> DEFINE S == Owing(n)
                 T == Owing(n)'
      <3>1. S \in SUBSET Runtimes /\ T \in SUBSET Runtimes
        BY DEF Owing
      <3>2. /\ T \subseteq S
            /\ n = current[p] => p \in S /\ T \subseteq S \ {p}
        BY <2>1 DEF OutboxTypeOK, Owing
      <3>3. /\ shown'[n] = IF n = current[p] THEN shown[n] + 1 ELSE shown[n]
            /\ attempts'[n] = attempts[n]
        BY <2>1 DEF OutboxTypeOK
      <3>4. /\ shown[n] \in Nat /\ attempts[n] \in Nat
            /\ shown[n] + Cardinality(S) <= attempts[n]
        BY DEF OutboxTypeOK, ClaimsArePaid
      <3> HIDE DEF S, T
      <3>5. /\ Cardinality(S) \in Nat /\ Cardinality(T) \in Nat
            /\ Cardinality(T) <= Cardinality(S)
            /\ n = current[p] => Cardinality(T) + 1 <= Cardinality(S)
        BY <3>1, <3>2, Counting
      <3>6. shown'[n] + Cardinality(T) <= attempts'[n]
        BY <3>3, <3>4, <3>5
      <3> QED BY <3>6 DEF T
    <2> QED BY <2>2 DEF ClaimsArePaid
  <1>7. ASSUME NEW p \in Runtimes,
               \/ ShowFails(p) \/ FindEvent(p) \/ AppendEvent(p)
               \/ MarkDelivered(p) \/ MarkSent(p) \/ HookRaises(p) \/ FailRead(p)
        PROVE  ClaimsArePaid'
    <2>1. /\ UNCHANGED <<shown, attempts, batch, current>>
          /\ \E place \in Delivering \ {"show"} : pc' = [pc EXCEPT ![p] = place]
      BY <1>7 DEF ShowFails, FindEvent, AfterShow, AppendEvent, MarkDelivered, MarkSent,
                  HookRaises, FailRead, Goto, Delivering
    <2> QED BY <2>1, PaidUnlessMore DEF OutboxTypeOK, Owing
  <1>8. ASSUME NEW p \in Runtimes, HookReturns(p) \/ FailWrite(p) PROVE ClaimsArePaid'
    <2>1. /\ UNCHANGED <<shown, attempts>>
          /\ pc' = [pc EXCEPT ![p] = "loop"]
          /\ batch' = [batch EXCEPT ![p] = @ \ {current[p]}]
          /\ current' = [current EXCEPT ![p] = NoMessage]
      BY <1>8 DEF HookReturns, FailWrite, NextMessage, Goto
    <2> QED BY <2>1, PaidUnlessMore DEF OutboxTypeOK, Owing
  <1>9. ASSUME NEW p \in Runtimes, Crash(p) PROVE ClaimsArePaid'
    BY <1>9, PaidUnlessMore DEF OutboxTypeOK, Owing, Crash, Goto
  <1>10. CASE Advance \/ (\E p \in Runtimes : Expire(p)) \/ UNCHANGED outboxVars
    BY <1>10, PaidUnlessMore DEF Owing, Advance, Expire, outboxVars
  <1>11. ASSUME NEW p \in Runtimes, Proceed(p) PROVE ClaimsArePaid'
    BY <1>2, <1>3, <1>4, <1>5, <1>6, <1>7, <1>8, <1>11 DEF Proceed
  <1> QED
    BY Actors, <1>1, <1>3, <1>9, <1>10, <1>11 DEF OutboxNext

-----------------------------------------------------------------------------
LEMMA InvInit == OutboxInit => OutboxTypeOK /\ DeliveryInv
  <1> SUFFICES ASSUME OutboxInit PROVE OutboxTypeOK /\ DeliveryInv
    OBVIOUS
  <1>1. OutboxTypeOK
    BY DEF OutboxInit, OutboxTypeOK, InitiativeStatuses, OutboxStatuses, Places
  <1>2. HandsAreRight /\ StepsAreTaken /\ DeliveredWasRecorded /\ LeasesHold /\ ClaimsAreExclusive
    BY DEF OutboxInit, HandsAreRight, StepsAreTaken, DeliveredWasRecorded, LeasesHold,
           ClaimsAreExclusive, Producing, Delivering
  <1>3. \A m \in Messages : Owing(m) = {}
    BY DEF OutboxInit, Owing
  <1>4. ClaimsArePaid
    BY <1>3, FS_EmptySet DEF OutboxInit, ClaimsArePaid
  <1> QED BY <1>1, <1>2, <1>4 DEF DeliveryInv

LEMMA InvStep == OutboxTypeOK /\ DeliveryInv /\ [OutboxNext]_outboxVars => OutboxTypeOK' /\ DeliveryInv'
  BY OutboxTypeStep, HandsStep, LedgerStep, LeaseStep, PaidStep DEF DeliveryInv

LEMMA OutboxInvariance == OutboxSpec => [](OutboxTypeOK /\ DeliveryInv)
  BY InvInit, InvStep, PTL DEF OutboxSpec

LEMMA PaidMeansCharged == OutboxTypeOK /\ ClaimsArePaid => ShownWasCharged
  <1> SUFFICES ASSUME OutboxTypeOK, ClaimsArePaid, NEW m \in Messages
               PROVE  shown[m] <= attempts[m]
    BY DEF ShownWasCharged
  <1>1. Cardinality(Owing(m)) \in Nat
    BY Counting DEF Owing
  <1> QED BY <1>1 DEF OutboxTypeOK, ClaimsArePaid

\* The tables and the processes stay what they are.
THEOREM OutboxTypeCorrect == OutboxSpec => []OutboxTypeOK
  BY OutboxInvariance, PTL

\* A delivery has its messages to itself, acknowledges last, and every showing
\* was charged to the attempts of its row, whatever the hook raises, wherever a
\* process dies and however many of them run the job.
THEOREM DeliveryStaysOrderly == OutboxSpec => []DeliveryIsOrderly
  <1>1. OutboxTypeOK /\ DeliveryInv => DeliveryIsOrderly
    BY PaidMeansCharged DEF DeliveryInv, DeliveryIsOrderly
  <1> QED BY <1>1, OutboxInvariance, PTL

-----------------------------------------------------------------------------
\* What the abstract delivery sees of a row.
LEMMA RowStates ==
    /\ RowState("absent") = "new"
    /\ RowState("pending") = "open"
    /\ RowState("delivering") = "open"
    /\ RowState("delivered") = "acknowledged"
    /\ RowState("dead_letter") = "given_up"
  BY DEF RowState

State == [m \in Messages |-> RowState(outbox[m])]

LEMMA StateKept ==
    ASSUME OutboxTypeOK, NEW m \in Messages, NEW s, RowState(s) = State[m],
           outbox' = [outbox EXCEPT ![m] = s]
    PROVE  State' = State
  BY DEF OutboxTypeOK, State

\* Every step of the outbox is a step of the abstract delivery, or none: a row
\* that is claimed, failed or put back stays open, and while leases hold it is
\* open when the message is shown and recorded.
LEMMA DeliveryStep ==
    ASSUME OutboxTypeOK, DeliveryInv, [OutboxNext]_outboxVars
    PROVE  [setting.rough \/ Delivery!DeliveryNext]_(Delivery!deliveryVars)
  <1> SUFFICES ASSUME ~setting.rough
               PROVE  \/ Delivery!DeliveryNext
                      \/ UNCHANGED <<State, shown, recorded>>
    BY DEF Delivery!deliveryVars, State
  <1> DEFINE Goal == Delivery!DeliveryNext \/ UNCHANGED <<State, shown, recorded>>
  <1> USE DEF initiatives, rows, locals, moving
  <1>a. HandsAreRight /\ StepsAreTaken /\ LeasesHold
    BY DEF DeliveryInv
  <1>1. ASSUME UNCHANGED <<outbox, shown, recorded>> PROVE Goal
    BY <1>1 DEF State
  <1>2. ASSUME NEW p \in Runtimes, NEW m \in Messages, Evaluate(p, m) \/ Take(p, m) PROVE Goal
    BY <1>1, <1>2 DEF Evaluate, Take
  <1>3. ASSUME NEW p \in Runtimes,
               \/ DraftDone(p) \/ InsertInitiative(p) \/ InsertConflict(p) \/ Approve(p)
               \/ FindRow(p) \/ Queue(p) \/ Expire(p) \/ ClaimSelect(p) \/ ClaimDone(p)
               \/ ShowFails(p) \/ FindEvent(p) \/ MarkSent(p) \/ HookReturns(p) \/ FailRead(p)
               \/ BatchDone(p) \/ Crash(p)
        PROVE  Goal
    BY <1>1, <1>3 DEF DraftDone, InsertInitiative, InsertConflict, Approve, FindRow, Queue,
                      Expire, ClaimSelect, ClaimDone, ShowFails, FindEvent, MarkSent,
                      HookReturns, FailRead, BatchDone, Crash
  <1>4. ASSUME NEW p \in Runtimes, Enqueue(p) PROVE Goal
    <2>1. current[p] \in Messages /\ outbox[current[p]] = "absent"
      BY <1>a, <1>4 DEF Enqueue, HandsAreRight, Producing
    <2>2. State[current[p]] = "new" /\ State' = [State EXCEPT ![current[p]] = "open"]
      <3>1. outbox' = [outbox EXCEPT ![current[p]] = "pending"]
        BY <1>4 DEF Enqueue
      <3>2. State[current[p]] = "new"
        BY <2>1, RowStates DEF State
      <3> QED BY <2>1, <3>1, <3>2, RowStates DEF State, OutboxTypeOK
    <2>3. Delivery!Accept(current[p])
      BY <1>4, <2>2 DEF Delivery!Accept, State, Enqueue
    <2> QED BY <2>1, <2>3 DEF Delivery!DeliveryNext
  <1>5. ASSUME NEW p \in Runtimes, NEW m \in Messages, ClaimUpdate(p, m) PROVE Goal
    <2>1. CASE Claimable(m)
      <3>1. State[m] = "open"
        BY <2>1, RowStates DEF Claimable, State
      <3>2. State' = State
        BY <1>5, <2>1, <3>1, RowStates, StateKept DEF ClaimUpdate
      <3> QED BY <1>5, <3>2 DEF ClaimUpdate
    <2>2. CASE ~Claimable(m)
      BY <1>1, <1>5, <2>2 DEF ClaimUpdate
    <2> QED BY <2>1, <2>2
  <1>6. ASSUME NEW p \in Runtimes, pc[p] \in Delivering \ {"sent", "hook"}
        PROVE  /\ current[p] \in Messages
               /\ outbox[current[p]] = "delivering"
               /\ State[current[p]] = "open"
    <2>1. current[p] \in Messages /\ outbox[current[p]] = "delivering"
      BY <1>a, <1>6 DEF HandsAreRight, LeasesHold
    <2> QED BY <2>1, RowStates DEF State
  <1>7. ASSUME NEW p \in Runtimes, Show(p) PROVE Goal
    <2>1. Delivery!ShowOnce(current[p])
      BY <1>6, <1>7 DEF Delivery!ShowOnce, Show, State, Delivering
    <2> QED BY <1>6, <1>7, <2>1 DEF Delivery!DeliveryNext, Show, Delivering
  <1>8. ASSUME NEW p \in Runtimes, AppendEvent(p) PROVE Goal
    <2>1. CASE current[p] \in recorded
      BY <1>1, <1>8, <2>1 DEF AppendEvent
    <2>2. CASE current[p] \notin recorded
      <3>1. Delivery!Record(current[p])
        BY <1>a, <1>6, <1>8, <2>2
           DEF Delivery!Record, AppendEvent, StepsAreTaken, State, Delivering
      <3> QED BY <1>6, <1>8, <3>1 DEF Delivery!DeliveryNext, AppendEvent, Delivering
    <2> QED BY <2>1, <2>2
  <1>9. ASSUME NEW p \in Runtimes, MarkDelivered(p) PROVE Goal
    <2>1. /\ current[p] \in Messages
          /\ State[current[p]] = "open"
          /\ State' = [State EXCEPT ![current[p]] = "acknowledged"]
      <3>1. outbox' = [outbox EXCEPT ![current[p]] = "delivered"]
        BY <1>9 DEF MarkDelivered
      <3>2. current[p] \in Messages /\ State[current[p]] = "open"
        BY <1>6, <1>9 DEF MarkDelivered, Delivering
      <3> QED BY <3>1, <3>2, RowStates DEF State, OutboxTypeOK
    <2>2. Delivery!Acknowledge(current[p])
      BY <1>a, <1>9, <2>1 DEF Delivery!Acknowledge, MarkDelivered, StepsAreTaken, State
    <2> QED BY <2>1, <2>2 DEF Delivery!DeliveryNext
  <1>10. ASSUME NEW p \in Runtimes, FailWrite(p) PROVE Goal
    <2>1. current[p] \in Messages /\ State[current[p]] = "open"
      BY <1>6, <1>10 DEF FailWrite, Delivering
    <2>2. CASE pc[p] = "requeue"
      <3>1. State' = State
        <4>1. outbox' = [outbox EXCEPT ![current[p]] = "pending"]
          BY <1>10, <2>2 DEF FailWrite, Failed
        <4> QED BY <2>1, <4>1, RowStates, StateKept
      <3> QED BY <1>10, <3>1 DEF FailWrite
    <2>3. CASE pc[p] = "bury"
      <3>1. State' = [State EXCEPT ![current[p]] = "given_up"]
        <4>1. outbox' = [outbox EXCEPT ![current[p]] = "dead_letter"]
          BY <1>10, <2>3 DEF FailWrite, Failed
        <4> QED BY <2>1, <4>1, RowStates DEF State, OutboxTypeOK
      <3>2. Delivery!GiveUp(current[p])
        BY <1>10, <2>1, <3>1 DEF Delivery!GiveUp, FailWrite, State
      <3> QED BY <2>1, <3>2 DEF Delivery!DeliveryNext
    <2> QED BY <1>10, <2>2, <2>3 DEF FailWrite
  <1>11. CASE Advance \/ UNCHANGED outboxVars
    BY <1>1, <1>11 DEF Advance, outboxVars
  <1>12. ASSUME NEW p \in Runtimes, Proceed(p) PROVE Goal
    <2>1. ~HookRaises(p)
      BY DEF HookRaises
    <2> QED BY <1>2, <1>3, <1>4, <1>5, <1>7, <1>8, <1>9, <1>10, <1>12, <2>1 DEF Proceed
  <1> QED
    BY Actors, <1>2, <1>3, <1>11, <1>12 DEF OutboxNext

\* While batches end before their leases do and hooks return, the outbox
\* implements MessageDelivery: a message is shown before the ledger records it,
\* recorded once, and acknowledged only then.
THEOREM OutboxRefines == OutboxSpec => ImplementsDelivery
  <1>1. OutboxInit => Delivery!DeliveryInit
    BY RowStates DEF OutboxInit, Delivery!DeliveryInit
  <1>2. OutboxTypeOK /\ DeliveryInv /\ [OutboxNext]_outboxVars
          => [setting.rough \/ Delivery!DeliveryNext]_(Delivery!deliveryVars)
    BY DeliveryStep
  <1> QED BY <1>1, <1>2, OutboxInvariance, PTL DEF OutboxSpec, ImplementsDelivery
=============================================================================
