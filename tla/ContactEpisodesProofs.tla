------------------------- MODULE ContactEpisodesProofs -------------------------
(***************************************************************************)
(* Proofs about ContactEpisodes for every number of episodes, messages and *)
(* faults, for all times and limits, with chat and worker in one process   *)
(* or in two.                                                              *)
(***************************************************************************)
EXTENDS ContactEpisodes, FiniteSetTheorems, TLAPS

Told(e, n) == n \in Numbers /\ msg[e][n] \in {"sent", "again"}

\* The row of an episode, and the copies that worker and chat have of it.
Copies(e) == {row[e], copy[e], seen[e]}

\* What the worker has in hand at each of its places.
WorkerIsAtWork ==
    /\ at \in {"insert", "enqueue", "link", "open", "get", "advance", "observe"} =>
         cur \in Episodes /\ num \in Numbers
    /\ at = "insert" => msg[cur][num] = "none"
    /\ at = "enqueue" => msg[cur][num] = "stuck"
    /\ at \in {"open", "get", "advance", "observe"} => msg[cur][num] = "sent"
    /\ at = "open" => num = 1
    /\ at = "get" => num > 1
    /\ at = "advance" /\ num = 1 => copy[cur].count = 0

\* The numbers of the messages that exist or are about to.
Taken(e) == {n \in Numbers : msg[e][n] # "none" \/ (at = "insert" /\ cur = e /\ num = n)}

\* Follow-ups come after the opening message; of three messages, the third
\* comes after the second.
MessagesAreInTurn ==
    \A e \in Episodes :
        /\ \A n \in Taken(e) :
             /\ n > 1 => Told(e, 1)
             /\ n > 2 /\ MaxMessages <= 3 => n = 3 /\ Told(e, 2)
        /\ \A r \in Copies(e) :
             /\ r.count > 0 => Told(e, 1)
             /\ r.count > 1 /\ MaxMessages <= 3 => Told(e, 2)

\* Every count, and the number of every message but for one, is covered by a
\* message that was sent or by a hook that raised; while a message is delivered
\* one more is covered than counted.
Covered(e) == Cardinality(Sent(e)) + Raised

IsCounting(e) == at \in {"open", "get", "advance"} /\ cur = e

CountsAreCovered ==
    \A e \in Episodes :
        /\ \A n \in Taken(e) : n <= Covered(e) + 1
        /\ \A r \in Copies(e) :
             /\ r.count <= Covered(e)
             /\ IsCounting(e) => r.count + 1 <= Covered(e)

EpisodeInv == WorkerIsAtWork /\ MessagesAreInTurn /\ CountsAreCovered

\* In one process, what chat and worker have read is still so: they do not work
\* at the same time, and an opening message is not evaluated in a contact job.
ReadIsCurrent ==
    /\ answering => at = "idle"
    /\ resolving # {} => answering
    /\ \A e \in resolving : seen[e].status = "active" /\ row[e].status = "active"
    /\ todo # {} => at \in {"contact", "insert", "enqueue", "link"}
    /\ \A e \in todo : copy[e].status = "active" /\ row[e].status = "active"
    /\ at \in {"insert", "enqueue"} /\ num = 1 => todo = {}
    /\ at \in {"insert", "enqueue", "link"} /\ num # 1 => cur \in todo
    /\ at = "link" => num # 1
    /\ at = "advance" => copy[cur].status = row[cur].status
    /\ \A e \in Episodes : row[e].status # "absent" => Told(e, 1)
-----------------------------------------------------------------------------
\* What is written to a row.
LEMMA RowTypes ==
    /\ NoRow \in Rows
    /\ NoRows \in [Episodes -> Rows]
    /\ \A r \in Rows :
         /\ NextAction(r) \in Rows
         /\ Counted(r) \in Rows
         /\ Resolved(r) \in Rows
         /\ [r EXCEPT !.status = "cancelled", !.wait = Never] \in Rows
         /\ \A w \in Nat : [r EXCEPT !.wait = w] \in Rows
  <1>1. NoRow \in Rows
    BY DEF Rows, NoRow, Never
  <1>2. NoRows \in [Episodes -> Rows]
    BY <1>1 DEF NoRows
  <1>3. ASSUME NEW r \in Rows
        PROVE  /\ NextAction(r) \in Rows
               /\ Counted(r) \in Rows
               /\ Resolved(r) \in Rows
               /\ [r EXCEPT !.status = "cancelled", !.wait = Never] \in Rows
               /\ \A w \in Nat : [r EXCEPT !.wait = w] \in Rows
    <2>1. WaitTime \in Nat
      BY ContactAssumption
    <2>2. r.count + 1 \in Nat
      BY DEF Rows
    <2> QED BY <2>1, <2>2 DEF Rows, NextAction, Counted, Resolved
  <1> QED BY <1>1, <1>2, <1>3

LEMMA TypeStep == TypeOK /\ WorkerIsAtWork /\ [Next]_vars => TypeOK'
  <1> SUFFICES ASSUME TypeOK, WorkerIsAtWork, [Next]_vars
               PROVE  TypeOK'
    OBVIOUS
  <1> USE DEF worker, chat
  <1>1. ASSUME NEW e \in Episodes, Evaluate(e) PROVE TypeOK'
    <2>1. 1 \in Numbers
      BY ContactAssumption DEF Numbers
    <2> QED BY <1>1, <2>1 DEF TypeOK, Evaluate, Begin, Places
  <1>2. ASSUME InsertInitiative \/ Enqueue PROVE TypeOK'
    <2>1. \E w \in {"stuck", "queued"} : msg' = [msg EXCEPT ![cur][num] = w]
      BY <1>2 DEF InsertInitiative, Enqueue
    <2>2. cur \in Episodes /\ num \in Numbers
      BY <1>2 DEF WorkerIsAtWork, InsertInitiative, Enqueue
    <2>3. PICK w \in {"stuck", "queued"} : msg' = [msg EXCEPT ![cur] = [msg[cur] EXCEPT ![num] = w]]
      BY <2>1, <2>2
    <2>4. [msg[cur] EXCEPT ![num] = w] \in [Numbers -> Messages]
      BY <2>2 DEF TypeOK, Messages
    <2>5. msg' \in [Episodes -> [Numbers -> Messages]]
      BY <2>2, <2>3, <2>4 DEF TypeOK
    <2> QED BY <1>2, <2>5 DEF TypeOK, InsertInitiative, Enqueue, Finish, Places
  <1>3. CASE ContactRead
    <2>1. copy' \in [Episodes -> Rows]
      BY <1>3, RowTypes DEF TypeOK, ContactRead
    <2> QED BY <1>3, <2>1 DEF TypeOK, ContactRead, Begin, Places
  <1>4. ASSUME NEW e \in Episodes, Withdraw(e) PROVE TypeOK'
    <2>1. row' \in [Episodes -> Rows]
      <3>1. [copy[e] EXCEPT !.status = "cancelled", !.wait = Never] \in Rows
        BY RowTypes DEF TypeOK
      <3> QED BY <1>4, <3>1 DEF TypeOK, Withdraw
    <2> QED BY <1>4, <2>1, RowTypes DEF TypeOK, Withdraw, Done
  <1>5. ASSUME NEW e \in Episodes, Postpone(e) PROVE TypeOK'
    <2>1. row' \in [Episodes -> Rows]
      <3>1. GateDelay \in Nat
        BY ContactAssumption DEF TypeOK, GateDelay
      <3>2. [copy[e] EXCEPT !.wait = GateDelay] \in Rows
        BY <3>1, RowTypes DEF TypeOK
      <3> QED BY <1>5, <3>2 DEF TypeOK, Postpone
    <2> QED BY <1>5, <2>1, RowTypes DEF TypeOK, Postpone, Done
  <1>6. ASSUME NEW e \in Episodes, SkipExisting(e) PROVE TypeOK'
    BY <1>6, RowTypes DEF TypeOK, SkipExisting, Done
  <1>7. ASSUME NEW e \in Episodes, FollowUp(e) PROVE TypeOK'
    <2>1. copy[e].count + 1 \in Numbers
      BY <1>7, ContactAssumption DEF TypeOK, Rows, FollowUp, Exhausted, Numbers
    <2> QED BY <1>7, <2>1 DEF TypeOK, FollowUp, Places
  <1>8. CASE Link
    <2>1. cur \in Episodes
      BY <1>8 DEF Link, WorkerIsAtWork
    <2>2. row' \in [Episodes -> Rows]
      BY <1>8, <2>1, RowTypes DEF TypeOK, Link
    <2> QED BY <1>8, <2>2, RowTypes DEF TypeOK, Link, Done, Places
  <1>9. CASE ContactDone \/ Observe
    BY <1>9 DEF TypeOK, ContactDone, Observe, Finish, Places
  <1>10. ASSUME NEW e \in Episodes, NEW n \in Numbers, Deliver(e, n) PROVE TypeOK'
    <2>1. [msg[e] EXCEPT ![n] = "sent"] \in [Numbers -> Messages]
      BY DEF TypeOK, Messages
    <2>2. msg' = [msg EXCEPT ![e] = [msg[e] EXCEPT ![n] = "sent"]]
      BY <1>10 DEF Deliver
    <2>3. msg' \in [Episodes -> [Numbers -> Messages]]
      BY <2>1, <2>2 DEF TypeOK
    <2>4. cool' \in 0 .. Cooldown
      BY <1>10, ContactAssumption DEF Deliver
    <2>5. today' \in SUBSET (Episodes \X Numbers)
      BY <1>10 DEF TypeOK, Deliver
    <2> QED BY <1>10, <2>3, <2>4, <2>5 DEF TypeOK, Deliver, Begin, Places
  <1>11. ASSUME NEW e \in Episodes, NEW n \in Numbers, GiveUp(e, n) PROVE TypeOK'
    <2>1. [msg[e] EXCEPT ![n] = "dead"] \in [Numbers -> Messages]
      BY DEF TypeOK, Messages
    <2>2. msg' = [msg EXCEPT ![e] = [msg[e] EXCEPT ![n] = "dead"]]
      BY <1>11 DEF GiveUp
    <2>3. msg' \in [Episodes -> [Numbers -> Messages]]
      BY <2>1, <2>2 DEF TypeOK
    <2> QED BY <1>11, <2>3 DEF TypeOK, GiveUp, Begin, Places
  <1>12. CASE OpenEpisode
    <2>1. [NoRow EXCEPT !.status = "active"] \in Rows
      BY DEF Rows, NoRow, Never
    <2>2. cur \in Episodes
      BY <1>12 DEF OpenEpisode, WorkerIsAtWork
    <2>3. row' \in [Episodes -> Rows]
      BY <1>12, <2>1 DEF TypeOK, OpenEpisode
    <2>4. copy' \in [Episodes -> Rows]
      BY <1>12, <2>2, <2>3 DEF TypeOK, OpenEpisode
    <2> QED BY <1>12, <2>3, <2>4 DEF TypeOK, OpenEpisode, Places
  <1>13. CASE GetEpisode
    <2>1. cur \in Episodes
      BY <1>13 DEF GetEpisode, WorkerIsAtWork
    <2> QED BY <1>13, <2>1 DEF TypeOK, GetEpisode, Places
  <1>14. CASE AdvanceEpisode
    <2>1. cur \in Episodes
      BY <1>14 DEF AdvanceEpisode, WorkerIsAtWork
    <2>2. row' \in [Episodes -> Rows]
      BY <1>14, <2>1, RowTypes DEF TypeOK, AdvanceEpisode
    <2> QED BY <1>14, <2>2, RowTypes DEF TypeOK, AdvanceEpisode, Places
  <1>15. CASE ObserveRaises
    <2>1. PICK s \in {"again", "sent"} : msg' = [msg EXCEPT ![cur][num] = s]
      BY <1>15 DEF ObserveRaises
    <2>2. cur \in Episodes /\ num \in Numbers
      BY <1>15 DEF ObserveRaises, WorkerIsAtWork
    <2>3. [msg[cur] EXCEPT ![num] = s] \in [Numbers -> Messages]
      BY <2>2 DEF TypeOK, Messages
    <2>4. msg' = [msg EXCEPT ![cur] = [msg[cur] EXCEPT ![num] = s]]
      BY <2>1
    <2>5. msg' \in [Episodes -> [Numbers -> Messages]]
      BY <2>2, <2>3, <2>4 DEF TypeOK
    <2> QED BY <1>15, <2>5 DEF TypeOK, ObserveRaises, Finish, Places
  <1>16. CASE UserEvent
    <2>1. seen' \in [Episodes -> Rows]
      BY <1>16, RowTypes DEF TypeOK, UserEvent
    <2> QED BY <1>16, <2>1 DEF TypeOK, UserEvent
  <1>17. ASSUME NEW e \in Episodes, Resolve(e) PROVE TypeOK'
    <2>1. row' \in [Episodes -> Rows]
      BY <1>17, RowTypes DEF TypeOK, Resolve
    <2> QED BY <1>17, <2>1, RowTypes DEF TypeOK, Resolve
  <1>18. CASE UserDone
    BY <1>18 DEF TypeOK, UserDone
  <1>19. CASE CrashWorker
    <2>1. copy' \in [Episodes -> Rows]
      BY <1>19, RowTypes DEF CrashWorker
    <2> QED BY <1>19, <2>1 DEF TypeOK, CrashWorker, Finish, Places
  <1>20. CASE CrashChat
    <2>1. seen' \in [Episodes -> Rows]
      BY <1>20, RowTypes DEF CrashChat
    <2>2. answering' \in BOOLEAN /\ resolving' \in SUBSET Episodes
      BY <1>20 DEF CrashChat
    <2>3. faults' \in Nat
      BY <1>20 DEF TypeOK, CrashChat
    <2>4. UNCHANGED <<row, msg, cool, today, quiet, away, worker>>
      BY <1>20 DEF CrashChat
    <2> QED BY <2>1, <2>2, <2>3, <2>4 DEF TypeOK
  <1>21. CASE GoOffline
    BY <1>21 DEF TypeOK, GoOffline, Begin, Places
  <1>22. CASE Evening \/ Morning \/ Midnight
    BY <1>22 DEF TypeOK, Evening, Morning, Midnight
  <1>23. CASE Advance
    <2>1. \A e \in Episodes : row'[e] \in Rows
      <3> TAKE e \in Episodes
      <3>1. row[e] \in Rows
        BY DEF TypeOK
      <3>2. (IF row[e].wait > 0 THEN row[e].wait - 1 ELSE row[e].wait) \in {Never} \cup Nat
        BY <3>1 DEF Rows, Never
      <3>3. row'[e] = [row[e] EXCEPT !.wait = IF @ > 0 THEN @ - 1 ELSE @]
        BY <1>23 DEF Advance
      <3> QED BY <3>1, <3>2, <3>3 DEF Rows
    <2>2. row' \in [Episodes -> Rows]
      BY <1>23, <2>1 DEF Advance
    <2>3. cool' \in 0 .. Cooldown
      BY <1>23, ContactAssumption DEF TypeOK, Advance
    <2> QED BY <1>23, <2>2, <2>3 DEF TypeOK, Advance
  <1>24. CASE UNCHANGED vars
    BY <1>24 DEF vars, TypeOK
  <1> QED
    BY <1>1, <1>2, <1>3, <1>4, <1>5, <1>6, <1>7, <1>8, <1>9, <1>10, <1>11, <1>12, <1>13,
       <1>14, <1>15, <1>16, <1>17, <1>18, <1>19, <1>20, <1>21, <1>22, <1>23, <1>24
       DEF Next, WorkerProceeds, ChatProceeds, DeliverAny

-----------------------------------------------------------------------------
\* What one step does to the messages: only the message that the worker has in
\* hand, or takes in hand when it is idle, changes.
MessageStep(e, n) ==
    \/ at = "insert" /\ cur = e /\ num = n /\ msg' = [msg EXCEPT ![e][n] = "stuck"]
    \/ at = "enqueue" /\ cur = e /\ num = n /\ msg' = [msg EXCEPT ![e][n] = "queued"]
    \/ Deliver(e, n)
    \/ GiveUp(e, n)
    \/ /\ at = "observe" /\ cur = e /\ num = n
       /\ HookMayFail /\ faults' = faults + 1
       /\ \E s \in {"again", "sent"} : msg' = [msg EXCEPT ![e][n] = s]

LEMMA MessageSteps ==
    ASSUME TypeOK, WorkerIsAtWork, [Next]_vars
    PROVE  \/ msg' = msg
           \/ \E e \in Episodes, n \in Numbers : MessageStep(e, n)
  <1> DEFINE Goal == \/ msg' = msg
                     \/ \E e \in Episodes, n \in Numbers : MessageStep(e, n)
  <1>1. CASE InsertInitiative
    <2>1. cur \in Episodes /\ num \in Numbers
      BY <1>1 DEF InsertInitiative, WorkerIsAtWork
    <2>2. MessageStep(cur, num)
      BY <1>1 DEF MessageStep, InsertInitiative
    <2> QED BY <2>1, <2>2
  <1>2. CASE Enqueue
    <2>1. cur \in Episodes /\ num \in Numbers
      BY <1>2 DEF Enqueue, WorkerIsAtWork
    <2>2. MessageStep(cur, num)
      BY <1>2 DEF MessageStep, Enqueue
    <2> QED BY <2>1, <2>2
  <1>3. CASE ObserveRaises
    <2>1. cur \in Episodes /\ num \in Numbers
      BY <1>3 DEF ObserveRaises, WorkerIsAtWork
    <2>2. MessageStep(cur, num)
      BY <1>3 DEF MessageStep, ObserveRaises
    <2> QED BY <2>1, <2>2
  <1>4. CASE DeliverAny
    BY <1>4 DEF DeliverAny, MessageStep
  <1>5. ASSUME NEW e \in Episodes,
               Evaluate(e) \/ Withdraw(e) \/ Postpone(e) \/ SkipExisting(e) \/ FollowUp(e)
                 \/ Resolve(e)
        PROVE  msg' = msg
    BY <1>5 DEF Evaluate, Withdraw, Postpone, SkipExisting, FollowUp, Resolve
  <1>6. ASSUME \/ ContactRead \/ Link \/ ContactDone \/ OpenEpisode \/ GetEpisode
               \/ AdvanceEpisode \/ Observe \/ UserEvent \/ UserDone \/ CrashWorker
               \/ CrashChat \/ GoOffline \/ Evening \/ Morning \/ Midnight \/ Advance
               \/ UNCHANGED vars
        PROVE  msg' = msg
    BY <1>6 DEF ContactRead, Link, ContactDone, OpenEpisode, GetEpisode, AdvanceEpisode,
                Observe, UserEvent, UserDone, CrashWorker, CrashChat, GoOffline, Evening,
                Morning, Midnight, Advance, vars
  <1> QED BY <1>1, <1>2, <1>3, <1>4, <1>5, <1>6 DEF Next, WorkerProceeds, ChatProceeds

LEMMA WorkerStep ==
    ASSUME TypeOK, WorkerIsAtWork, [Next]_vars
    PROVE  WorkerIsAtWork'
  <1> DEFINE Goal == WorkerIsAtWork'
  <1> USE DEF worker, chat
  <1>1. ASSUME NEW e \in Episodes, Evaluate(e) PROVE Goal
    <2>1. 1 \in Numbers
      BY ContactAssumption DEF Numbers
    <2> QED BY <1>1, <2>1 DEF WorkerIsAtWork, Evaluate, Begin
  <1>2. CASE InsertInitiative
    <2>1. cur \in Episodes /\ num \in Numbers
      BY <1>2 DEF InsertInitiative, WorkerIsAtWork
    <2>2. msg'[cur][num] = "stuck"
      BY <1>2, <2>1 DEF InsertInitiative, TypeOK
    <2> QED BY <1>2, <2>1, <2>2 DEF WorkerIsAtWork, InsertInitiative
  <1>3. CASE Enqueue
    <2>1. cur \in Episodes /\ num \in Numbers
      BY <1>3 DEF Enqueue, WorkerIsAtWork
    <2> QED BY <1>3, <2>1 DEF WorkerIsAtWork, Enqueue, Finish
  <1>4. CASE ContactRead \/ ContactDone \/ Observe \/ ObserveRaises \/ CrashWorker \/ GoOffline
    BY <1>4 DEF WorkerIsAtWork, ContactRead, ContactDone, Observe, ObserveRaises, CrashWorker,
                GoOffline, Begin, Finish
  <1>5. ASSUME NEW e \in Episodes, Withdraw(e) \/ Postpone(e) \/ SkipExisting(e) PROVE Goal
    BY <1>5 DEF WorkerIsAtWork, Withdraw, Postpone, SkipExisting
  <1>6. ASSUME NEW e \in Episodes, FollowUp(e) PROVE Goal
    <2>1. copy[e].count + 1 \in Numbers
      BY <1>6, ContactAssumption DEF TypeOK, Rows, FollowUp, Exhausted, Numbers
    <2> QED BY <1>6, <2>1 DEF WorkerIsAtWork, FollowUp
  <1>7. CASE Link
    BY <1>7 DEF WorkerIsAtWork, Link
  <1>8. ASSUME NEW e \in Episodes, NEW n \in Numbers, Deliver(e, n) PROVE Goal
    <2>1. msg'[e][n] = "sent"
      BY <1>8 DEF Deliver, TypeOK
    <2>2. n # 1 => n > 1
      BY DEF Numbers
    <2> QED BY <1>8, <2>1, <2>2 DEF WorkerIsAtWork, Deliver, Begin
  <1>9. ASSUME NEW e \in Episodes, NEW n \in Numbers, GiveUp(e, n) PROVE Goal
    BY <1>9 DEF WorkerIsAtWork, GiveUp, Begin
  <1>10. CASE OpenEpisode
    <2>1. cur \in Episodes /\ num = 1
      BY <1>10 DEF OpenEpisode, WorkerIsAtWork
    <2>2. at' = "advance" => copy'[cur].count = 0
      BY <1>10, <2>1 DEF OpenEpisode, TypeOK, NoRow
    <2> QED BY <1>10, <2>1, <2>2 DEF WorkerIsAtWork, OpenEpisode
  <1>11. CASE GetEpisode \/ AdvanceEpisode
    BY <1>11 DEF WorkerIsAtWork, GetEpisode, AdvanceEpisode, TypeOK, Numbers
  <1>12. ASSUME NEW e \in Episodes, Resolve(e) PROVE Goal
    BY <1>12 DEF WorkerIsAtWork, Resolve
  <1>13. CASE \/ UserEvent \/ UserDone \/ CrashChat \/ Evening \/ Morning \/ Midnight \/ Advance
              \/ UNCHANGED vars
    BY <1>13 DEF WorkerIsAtWork, UserEvent, UserDone, CrashChat, Evening, Morning, Midnight,
                 Advance, vars
  <1> QED
    BY <1>1, <1>2, <1>3, <1>4, <1>5, <1>6, <1>7, <1>8, <1>9, <1>10, <1>11, <1>12, <1>13
       DEF Next, WorkerProceeds, ChatProceeds, DeliverAny

-----------------------------------------------------------------------------
LEMMA MessageEffect ==
    ASSUME TypeOK, WorkerIsAtWork, NEW e \in Episodes, NEW n \in Numbers, MessageStep(e, n)
    PROVE  \E s \in Messages :
             /\ msg' = [msg EXCEPT ![e][n] = s]
             /\ Told(e, n) => s \in {"sent", "again"}
             /\ msg[e][n] = "sent" => HookMayFail /\ faults' = faults + 1
  <1>1. CASE at = "insert" /\ cur = e /\ num = n /\ msg' = [msg EXCEPT ![e][n] = "stuck"]
    BY <1>1 DEF WorkerIsAtWork, Told, Messages
  <1>2. CASE at = "enqueue" /\ cur = e /\ num = n /\ msg' = [msg EXCEPT ![e][n] = "queued"]
    BY <1>2 DEF WorkerIsAtWork, Told, Messages
  <1>3. CASE Deliver(e, n)
    BY <1>3 DEF Deliver, Messages
  <1>4. CASE GiveUp(e, n)
    BY <1>4 DEF GiveUp, Told, Messages
  <1>5. CASE /\ HookMayFail /\ faults' = faults + 1
             /\ \E s \in {"again", "sent"} : msg' = [msg EXCEPT ![e][n] = s]
    BY <1>5 DEF Messages
  <1> QED BY <1>1, <1>2, <1>3, <1>4, <1>5 DEF MessageStep

LEMMA DeliverEffect ==
    ASSUME TypeOK, NEW e \in Episodes, NEW n \in Numbers, Deliver(e, n)
    PROVE  msg[e][n] # "sent" /\ msg'[e][n] = "sent"
  BY DEF TypeOK, Deliver

\* What was told stays told.
LEMMA ToldStays ==
    ASSUME TypeOK, WorkerIsAtWork, [Next]_vars, NEW e \in Episodes, NEW n, Told(e, n)
    PROVE  Told(e, n)'
  <1>1. n \in Numbers
    BY DEF Told
  <1>2. CASE msg' = msg
    BY <1>2 DEF Told
  <1>3. ASSUME NEW f \in Episodes, NEW m \in Numbers, MessageStep(f, m)
        PROVE  Told(e, n)'
    <2>1. PICK s \in Messages : /\ msg' = [msg EXCEPT ![f][m] = s]
                                /\ Told(f, m) => s \in {"sent", "again"}
      BY <1>3, MessageEffect
    <2> QED BY <1>1, <2>1 DEF Told, TypeOK
  <1> QED BY <1>2, <1>3, MessageSteps

LEMMA SentIsFinite ==
    ASSUME NEW S \in SUBSET Numbers
    PROVE  /\ IsFiniteSet(S)
           /\ Cardinality(S) \in Nat
           /\ \A n \in Numbers : /\ Cardinality(S \ {n}) >= Cardinality(S) - 1
                                 /\ n \notin S => Cardinality(S \cup {n}) = Cardinality(S) + 1
  <1>1. IsFiniteSet(Numbers)
    BY FS_Interval, ContactAssumption DEF Numbers
  <1>2. IsFiniteSet(S) /\ Cardinality(S) \in Nat
    BY <1>1, FS_Subset, FS_CardinalityType
  <1>3. ASSUME NEW n \in Numbers
        PROVE  /\ Cardinality(S \ {n}) >= Cardinality(S) - 1
               /\ n \notin S => Cardinality(S \cup {n}) = Cardinality(S) + 1
    <2>1. Cardinality(S \cup {n}) = IF n \in S THEN Cardinality(S) ELSE Cardinality(S) + 1
      BY <1>2, FS_AddElement
    <2>2. Cardinality(S \ {n}) = IF n \in S THEN Cardinality(S) - 1 ELSE Cardinality(S)
      BY <1>2, FS_RemoveElement
    <2> QED BY <1>2, <2>1, <2>2
  <1> QED BY <1>2, <1>3

LEMMA CoveredType ==
    ASSUME TypeOK, NEW e \in Episodes
    PROVE  Raised \in Nat /\ Cardinality(Sent(e)) \in Nat /\ Covered(e) \in Nat
  <1>1. Raised \in Nat
    BY ContactAssumption DEF TypeOK, Raised
  <1>2. Cardinality(Sent(e)) \in Nat
    BY SentIsFinite DEF Sent
  <1> QED BY <1>1, <1>2 DEF Covered

LEMMA FaultsGrow == TypeOK /\ [Next]_vars => faults' \in {faults, faults + 1}
  <1> SUFFICES ASSUME TypeOK, [Next]_vars
               PROVE  faults' \in {faults, faults + 1}
    OBVIOUS
  <1>1. CASE ObserveRaises \/ CrashWorker \/ CrashChat
    BY <1>1 DEF ObserveRaises, CrashWorker, CrashChat
  <1>2. ASSUME NEW e \in Episodes,
               \/ Evaluate(e) \/ Withdraw(e) \/ Postpone(e) \/ SkipExisting(e) \/ FollowUp(e)
               \/ Resolve(e) \/ \E n \in Numbers : Deliver(e, n) \/ GiveUp(e, n)
        PROVE  faults' = faults
    BY <1>2 DEF Evaluate, Withdraw, Postpone, SkipExisting, FollowUp, Resolve, Deliver, GiveUp
  <1>3. ASSUME \/ InsertInitiative \/ Enqueue \/ ContactRead \/ Link \/ ContactDone \/ OpenEpisode
               \/ GetEpisode \/ AdvanceEpisode \/ Observe \/ UserEvent \/ UserDone \/ GoOffline
               \/ Evening \/ Morning \/ Midnight \/ Advance \/ UNCHANGED vars
        PROVE  faults' = faults
    BY <1>3 DEF InsertInitiative, Enqueue, ContactRead, Link, ContactDone, OpenEpisode,
                GetEpisode, AdvanceEpisode, Observe, UserEvent, UserDone, GoOffline, Evening,
                Morning, Midnight, Advance, vars
  <1> QED BY <1>1, <1>2, <1>3 DEF Next, WorkerProceeds, ChatProceeds, DeliverAny

\* A message that is sent covers one more; one that is to be sent again has been
\* covered by the hook that raised.
LEMMA CoveredStays ==
    ASSUME TypeOK, WorkerIsAtWork, [Next]_vars, NEW e \in Episodes
    PROVE  /\ Covered(e)' >= Covered(e)
           /\ \A n \in Numbers : Deliver(e, n) => Covered(e)' >= Covered(e) + 1
  <1> DEFINE S == Sent(e)
             T == Sent(e)'
             Few == /\ Covered(e)' >= Covered(e)
                    /\ \A n \in Numbers : Deliver(e, n) => Covered(e)' >= Covered(e) + 1
  <1>1. S \in SUBSET Numbers /\ T \in SUBSET Numbers
    BY DEF Sent
  <1>2. TypeOK'
    BY TypeStep
  <1>3. Raised' >= Raised
    BY FaultsGrow, ContactAssumption DEF TypeOK, Raised
  <1>4. /\ Raised \in Nat /\ Raised' \in Nat
        /\ Cardinality(S) \in Nat /\ Cardinality(T) \in Nat
        /\ Covered(e) = Cardinality(S) + Raised
        /\ Covered(e)' = Cardinality(T) + Raised'
    BY <1>1, <1>2, SentIsFinite, ContactAssumption DEF TypeOK, Raised, Covered
  <1>5. CASE msg' = msg
    <2>1. T = S
      BY <1>5 DEF Sent
    <2>2. \A n \in Numbers : ~Deliver(e, n)
      BY <1>5 DEF Deliver, TypeOK
    <2> QED BY <1>3, <1>4, <2>1, <2>2
  <1>6. ASSUME NEW f \in Episodes, NEW m \in Numbers, MessageStep(f, m)
        PROVE  Few
    <2>1. PICK s \in Messages :
            /\ msg' = [msg EXCEPT ![f][m] = s]
            /\ msg[f][m] = "sent" => HookMayFail /\ faults' = faults + 1
      BY <1>6, MessageEffect
    <2>2. \A n \in Numbers : Deliver(e, n) => e = f /\ s = "sent" /\ msg[f][m] # "sent"
      BY <2>1, DeliverEffect DEF TypeOK
    <2>3. CASE s = "sent" /\ msg[f][m] # "sent"
      <3>1. T = IF e = f THEN S \cup {m} ELSE S
        BY <2>1, <2>3 DEF Sent, TypeOK
      <3>2. e = f => m \notin S
        BY <2>3 DEF Sent
      <3> HIDE DEF S, T
      <3>3. Cardinality(T) = IF e = f THEN Cardinality(S) + 1 ELSE Cardinality(S)
        BY <1>1, <3>1, <3>2, SentIsFinite
      <3> QED BY <1>3, <1>4, <2>2, <3>3
    <2>4. CASE msg[f][m] = "sent"
      <3>1. T = S \/ T = S \ {m}
        BY <2>1, <2>4 DEF Sent, TypeOK
      <3>2. Raised' = Raised + 1
        BY <2>1, <2>4 DEF Raised
      <3> HIDE DEF S, T
      <3>3. Cardinality(T) >= Cardinality(S) - 1
        <4>1. Cardinality(S \ {m}) >= Cardinality(S) - 1
          BY <1>1, SentIsFinite
        <4> QED BY <1>4, <3>1, <4>1
      <3> QED BY <1>4, <2>2, <2>4, <3>2, <3>3
    <2>5. CASE s # "sent" /\ msg[f][m] # "sent"
      <3>1. T = S
        BY <2>1, <2>5 DEF Sent, TypeOK
      <3> QED BY <1>3, <1>4, <2>2, <2>5, <3>1
    <2> QED BY <2>3, <2>4, <2>5
  <1> QED BY <1>5, <1>6, MessageSteps

-----------------------------------------------------------------------------
\* Whatever is written to a row, its count comes from a copy of it: it is the
\* same, or one more when the worker advances the episode.
CountKept(e, r) == r.count = 0 \/ \E q \in Copies(e) : r.count = q.count

LEMMA CountStep ==
    ASSUME TypeOK, WorkerIsAtWork, [Next]_vars, NEW e \in Episodes, NEW r \in Copies(e)'
    PROVE  \/ CountKept(e, r)
           \/ at = "advance" /\ cur = e /\ at' = "observe" /\ r.count = copy[e].count + 1
  <1> DEFINE Kept == CountKept(e, r)
             Fresh == at = "advance" /\ cur = e /\ at' = "observe" /\ r.count = copy[e].count + 1
  <1> USE DEF worker, chat
  <1>1. r = row'[e] \/ r = copy'[e] \/ r = seen'[e]
    BY DEF Copies
  <1>2. row[e] \in Rows /\ copy[e] \in Rows /\ seen[e] \in Rows /\ NoRow.count = 0
    BY DEF TypeOK, NoRow
  <1>3. ASSUME r \in {row[e], copy[e], seen[e], NoRow} PROVE Kept
    BY <1>2, <1>3 DEF CountKept, Copies
  <1>4. ASSUME UNCHANGED <<row, copy, seen>> PROVE Kept
    BY <1>1, <1>3, <1>4
  <1>5. ASSUME NEW f \in Episodes,
               Evaluate(f) \/ FollowUp(f) \/ \E n \in Numbers : Deliver(f, n) \/ GiveUp(f, n)
        PROVE  Kept
    <2>1. UNCHANGED <<row, copy, seen>>
      BY <1>5 DEF Evaluate, FollowUp, Deliver, GiveUp
    <2> QED BY <1>4, <2>1
  <1>6. CASE \/ InsertInitiative \/ Enqueue \/ ContactDone \/ Observe \/ ObserveRaises \/ UserDone
             \/ GoOffline \/ Evening \/ Morning \/ Midnight
    <2>1. UNCHANGED <<row, copy, seen>>
      BY <1>6 DEF InsertInitiative, Enqueue, ContactDone, Observe, ObserveRaises, UserDone,
                  GoOffline, Evening, Morning, Midnight
    <2> QED BY <1>4, <2>1
  <1>7. CASE ContactRead \/ CrashWorker \/ UserEvent \/ CrashChat
    <2>1. row' = row
      BY <1>7 DEF ContactRead, CrashWorker, UserEvent, CrashChat
    <2>2. copy'[e] \in {copy[e], row[e], NoRow}
      BY <1>7 DEF ContactRead, CrashWorker, UserEvent, CrashChat, NoRows
    <2>3. seen'[e] \in {seen[e], row[e], NoRow}
      BY <1>7 DEF ContactRead, CrashWorker, UserEvent, CrashChat, NoRows
    <2> QED BY <1>1, <1>3, <2>1, <2>2, <2>3
  <1>8. ASSUME NEW f \in Episodes, Withdraw(f) \/ Postpone(f) \/ SkipExisting(f) PROVE Kept
    <2>1. copy'[e] \in {copy[e], NoRow} /\ seen' = seen
      BY <1>8 DEF Withdraw, Postpone, SkipExisting, Done, TypeOK
    <2>2. row'[e].count \in {row[e].count, copy[e].count}
      <3>1. /\ [copy[e] EXCEPT !.status = "cancelled", !.wait = Never].count = copy[e].count
            /\ [copy[e] EXCEPT !.wait = GateDelay].count = copy[e].count
        BY <1>2 DEF Rows
      <3> QED BY <1>8, <3>1 DEF Withdraw, Postpone, SkipExisting, TypeOK
    <2> QED BY <1>1, <1>3, <2>1, <2>2 DEF CountKept, Copies
  <1>9. CASE Link
    <2>1. cur \in Episodes
      BY <1>9 DEF Link, WorkerIsAtWork
    <2>2. copy'[e] \in {copy[e], NoRow} /\ seen' = seen
      BY <1>9 DEF Link, Done, TypeOK
    <2>3. row'[e].count \in {row[e].count, copy[e].count}
      <3>1. row' = [row EXCEPT ![cur] = NextAction(copy[cur])]
        BY <1>9 DEF Link
      <3>2. NextAction(copy[e]).count = copy[e].count
        BY <1>2 DEF NextAction, Rows
      <3> QED BY <2>1, <3>1, <3>2 DEF TypeOK
    <2> QED BY <1>1, <1>3, <2>2, <2>3 DEF CountKept, Copies
  <1>10. CASE OpenEpisode
    <2>1. row'[e] = row[e] \/ row'[e].count = 0
      BY <1>10 DEF OpenEpisode, NoRow, TypeOK
    <2>2. copy'[e] \in {copy[e], row'[e]} /\ seen' = seen
      BY <1>10 DEF OpenEpisode, TypeOK
    <2> QED BY <1>1, <1>3, <2>1, <2>2 DEF CountKept
  <1>11. CASE GetEpisode
    BY <1>1, <1>3, <1>11 DEF GetEpisode, TypeOK
  <1>12. CASE AdvanceEpisode
    <2>1. cur \in Episodes
      BY <1>12 DEF AdvanceEpisode, WorkerIsAtWork
    <2>2. copy'[e] \in {copy[e], NoRow} /\ seen' = seen
      BY <1>12 DEF AdvanceEpisode, TypeOK
    <2>3. IF e = cur THEN row'[e].count = copy[e].count + 1 ELSE row'[e] = row[e]
      BY <1>2, <1>12, <2>1 DEF AdvanceEpisode, Counted, Rows, TypeOK
    <2> QED BY <1>1, <1>3, <1>12, <2>2, <2>3 DEF AdvanceEpisode
  <1>13. ASSUME NEW f \in Episodes, Resolve(f) PROVE Kept
    <2>1. seen'[e] \in {seen[e], NoRow} /\ copy' = copy
      BY <1>13 DEF Resolve, TypeOK
    <2>2. row'[e].count \in {row[e].count, seen[e].count}
      BY <1>2, <1>13 DEF Resolve, Resolved, Rows, TypeOK
    <2> QED BY <1>1, <1>3, <2>1, <2>2 DEF CountKept, Copies
  <1>14. CASE Advance
    <2>1. row'[e].count = row[e].count
      BY <1>2, <1>14 DEF Advance, Rows
    <2> QED BY <1>1, <1>3, <1>14, <2>1 DEF Advance, CountKept, Copies
  <1>15. CASE UNCHANGED vars
    BY <1>4, <1>15 DEF vars
  <1> QED
    BY <1>5, <1>6, <1>7, <1>8, <1>9, <1>10, <1>11, <1>12, <1>13, <1>14, <1>15
       DEF Next, WorkerProceeds, ChatProceeds, DeliverAny

\* A message number is taken for an opening message, or it follows the count of
\* a copy that is not exhausted.
LEMMA TakenStep ==
    ASSUME TypeOK, WorkerIsAtWork, [Next]_vars, NEW e \in Episodes, NEW n \in Taken(e)'
    PROVE  \/ n \in Taken(e)
           \/ n = 1
           \/ \E q \in Copies(e) : n = q.count + 1 /\ q.count < MaxMessages
  <1> DEFINE Goal == \/ n \in Taken(e)
                     \/ n = 1
                     \/ \E q \in Copies(e) : n = q.count + 1 /\ q.count < MaxMessages
  <1> USE DEF worker, chat
  <1>1. n \in Numbers
    BY DEF Taken
  <1>2. CASE msg'[e][n] # "none"
    <2>1. CASE msg' = msg
      BY <1>1, <1>2, <2>1 DEF Taken
    <2>2. ASSUME NEW f \in Episodes, NEW m \in Numbers, MessageStep(f, m)
          PROVE  n \in Taken(e)
      <3>1. msg[f][m] # "none" \/ (at = "insert" /\ cur = f /\ num = m)
        BY <2>2 DEF MessageStep, WorkerIsAtWork, Deliver, GiveUp
      <3>2. (e = f /\ n = m) \/ msg'[e][n] = msg[e][n]
        BY <1>1, <2>2 DEF MessageStep, Deliver, GiveUp, TypeOK
      <3> QED BY <1>1, <1>2, <3>1, <3>2 DEF Taken
    <2> QED BY <2>1, <2>2, MessageSteps
  <1>3. CASE at' = "insert" /\ cur' = e /\ num' = n
    <2>1. CASE at = "insert" /\ cur = e /\ num = n
      BY <1>1, <2>1 DEF Taken
    <2>2. CASE ~(at = "insert" /\ cur = e /\ num = n)
      <3>1. ASSUME NEW f \in Episodes, Evaluate(f) PROVE Goal
        BY <1>3, <3>1 DEF Evaluate
      <3>2. ASSUME NEW f \in Episodes, FollowUp(f) PROVE Goal
        <4>1. f = e /\ n = copy[e].count + 1 /\ copy[e].count < MaxMessages
          BY <1>3, <3>2, ContactAssumption DEF FollowUp, Exhausted, TypeOK, Rows
        <4> QED BY <4>1 DEF Copies
      <3>3. ASSUME NEW f \in Episodes,
                   Withdraw(f) \/ Postpone(f) \/ SkipExisting(f) \/ Resolve(f)
                     \/ \E m \in Numbers : Deliver(f, m) \/ GiveUp(f, m)
            PROVE  Goal
        BY <1>3, <2>2, <3>3 DEF Withdraw, Postpone, SkipExisting, Resolve, Deliver, GiveUp, Begin
      <3>4. CASE \/ InsertInitiative \/ Enqueue \/ ContactRead \/ Link \/ ContactDone
                 \/ OpenEpisode \/ GetEpisode \/ AdvanceEpisode \/ Observe \/ ObserveRaises
                 \/ CrashWorker \/ GoOffline
        BY <1>3, <3>4 DEF InsertInitiative, Enqueue, ContactRead, Link, ContactDone, OpenEpisode,
           GetEpisode, AdvanceEpisode, Observe, ObserveRaises, CrashWorker, GoOffline, Begin, Finish
      <3>5. CASE \/ UserEvent \/ UserDone \/ CrashChat \/ Evening \/ Morning \/ Midnight \/ Advance
                 \/ UNCHANGED vars
        BY <1>3, <2>2, <3>5 DEF UserEvent, UserDone, CrashChat, Evening, Morning, Midnight,
                                Advance, vars
      <3> QED BY <3>1, <3>2, <3>3, <3>4, <3>5
              DEF Next, WorkerProceeds, ChatProceeds, DeliverAny
    <2> QED BY <2>1, <2>2
  <1> QED BY <1>2, <1>3 DEF Taken

-----------------------------------------------------------------------------
LEMMA CopyTypes ==
    ASSUME TypeOK, NEW e \in Episodes, NEW r \in Copies(e)
    PROVE  r.count \in Nat
  BY DEF TypeOK, Copies, Rows

LEMMA TurnStep ==
    ASSUME TypeOK, WorkerIsAtWork, MessagesAreInTurn, [Next]_vars
    PROVE  MessagesAreInTurn'
  <1> SUFFICES ASSUME NEW e \in Episodes
               PROVE  /\ \A n \in Taken(e)' :
                           /\ n > 1 => Told(e, 1)'
                           /\ n > 2 /\ MaxMessages <= 3 => n = 3 /\ Told(e, 2)'
                      /\ \A r \in Copies(e)' :
                           /\ r.count > 0 => Told(e, 1)'
                           /\ r.count > 1 /\ MaxMessages <= 3 => Told(e, 2)'
    BY DEF MessagesAreInTurn
  <1>1. /\ Told(e, 1) => Told(e, 1)'
        /\ Told(e, 2) => Told(e, 2)'
    BY ToldStays
  <1>2. ASSUME NEW n \in Taken(e)'
        PROVE  /\ n > 1 => Told(e, 1)'
               /\ n > 2 /\ MaxMessages <= 3 => n = 3 /\ Told(e, 2)'
    <2>1. CASE n \in Taken(e)
      BY <1>1, <2>1 DEF MessagesAreInTurn
    <2>2. CASE n = 1
      BY <2>2
    <2>3. ASSUME NEW q \in Copies(e), n = q.count + 1, q.count < MaxMessages
          PROVE  /\ n > 1 => Told(e, 1)'
                 /\ n > 2 /\ MaxMessages <= 3 => n = 3 /\ Told(e, 2)'
      <3>1. q.count \in Nat /\ MaxMessages \in Int
        BY CopyTypes, ContactAssumption
      <3>2. /\ q.count > 0 => Told(e, 1)
            /\ q.count > 1 /\ MaxMessages <= 3 => Told(e, 2)
        BY DEF MessagesAreInTurn
      <3> QED BY <1>1, <2>3, <3>1, <3>2
    <2> QED BY <2>1, <2>2, <2>3, TakenStep
  <1>3. ASSUME NEW r \in Copies(e)'
        PROVE  /\ r.count > 0 => Told(e, 1)'
               /\ r.count > 1 /\ MaxMessages <= 3 => Told(e, 2)'
    <2>1. CASE CountKept(e, r)
      BY <1>1, <2>1 DEF CountKept, MessagesAreInTurn
    <2>2. CASE at = "advance" /\ cur = e /\ r.count = copy[e].count + 1
      <3>1. num \in Numbers /\ msg[e][num] = "sent" /\ (num = 1 => copy[e].count = 0)
        BY <2>2 DEF WorkerIsAtWork
      <3>2. copy[e].count \in Nat /\ num \in Nat /\ num >= 1
        BY <3>1, CopyTypes DEF Copies, Numbers
      <3>3. Told(e, num) /\ num \in Taken(e)
        BY <3>1 DEF Told, Taken
      <3>4. Told(e, 1)
        BY <3>2, <3>3 DEF MessagesAreInTurn
      <3>5. r.count > 1 /\ MaxMessages <= 3 => Told(e, 2)
        BY <2>2, <3>1, <3>2, <3>3 DEF MessagesAreInTurn
      <3> QED BY <1>1, <3>4, <3>5
    <2> QED BY <2>1, <2>2, CountStep
  <1> QED BY <1>2, <1>3

LEMMA CountingStep ==
    ASSUME TypeOK, [Next]_vars, NEW e \in Episodes, IsCounting(e)'
    PROVE  IsCounting(e) \/ \E n \in Numbers : Deliver(e, n)
  <1> DEFINE Goal == IsCounting(e) \/ \E n \in Numbers : Deliver(e, n)
  <1> USE DEF worker, chat
  <1>1. ASSUME NEW f \in Episodes, NEW n \in Numbers, Deliver(f, n) PROVE Goal
    BY <1>1 DEF Deliver, IsCounting
  <1>2. ASSUME NEW f \in Episodes,
               \/ Evaluate(f) \/ Withdraw(f) \/ Postpone(f) \/ SkipExisting(f) \/ FollowUp(f)
               \/ Resolve(f) \/ \E n \in Numbers : GiveUp(f, n)
        PROVE  Goal
    BY <1>2 DEF Evaluate, Withdraw, Postpone, SkipExisting, FollowUp, Resolve, GiveUp, Begin,
                IsCounting
  <1>3. CASE \/ InsertInitiative \/ Enqueue \/ ContactRead \/ Link \/ ContactDone
             \/ OpenEpisode \/ GetEpisode \/ AdvanceEpisode \/ Observe \/ ObserveRaises
             \/ CrashWorker \/ GoOffline
    BY <1>3 DEF InsertInitiative, Enqueue, ContactRead, Link, ContactDone, OpenEpisode,
       GetEpisode, AdvanceEpisode, Observe, ObserveRaises, CrashWorker, GoOffline, Begin, Finish,
       IsCounting
  <1>4. CASE \/ UserEvent \/ UserDone \/ CrashChat \/ Evening \/ Morning \/ Midnight \/ Advance
             \/ UNCHANGED vars
    BY <1>4 DEF UserEvent, UserDone, CrashChat, Evening, Morning, Midnight, Advance, vars,
                IsCounting
  <1> QED BY <1>1, <1>2, <1>3, <1>4 DEF Next, WorkerProceeds, ChatProceeds, DeliverAny

LEMMA CoveredStep ==
    ASSUME TypeOK, WorkerIsAtWork, CountsAreCovered, [Next]_vars
    PROVE  CountsAreCovered'
  <1>0. TypeOK'
    BY TypeStep
  <1> SUFFICES ASSUME NEW e \in Episodes
               PROVE  /\ \A n \in Taken(e)' : n <= Covered(e)' + 1
                      /\ \A r \in Copies(e)' :
                           /\ r.count <= Covered(e)'
                           /\ IsCounting(e)' => r.count + 1 <= Covered(e)'
    BY DEF CountsAreCovered
  <1>1. Covered(e) \in Nat /\ Covered(e)' \in Nat /\ Covered(e)' >= Covered(e)
    <2>1. Covered(e)' \in Nat
      <3>1. Sent(e)' \in SUBSET Numbers
        BY DEF Sent
      <3>2. Cardinality(Sent(e)') \in Nat
        BY <3>1, SentIsFinite
      <3> QED BY <1>0, <3>2, ContactAssumption DEF TypeOK, Raised, Covered
    <2> QED BY <2>1, CoveredType, CoveredStays
  <1>2. IsCounting(e)' => IsCounting(e) \/ Covered(e)' >= Covered(e) + 1
    BY CountingStep, CoveredStays
  <1>3. ASSUME NEW q \in Copies(e)
        PROVE  /\ q.count \in Nat
               /\ q.count <= Covered(e)
               /\ IsCounting(e) => q.count + 1 <= Covered(e)
    BY CopyTypes DEF CountsAreCovered
  <1>4. ASSUME NEW n \in Taken(e)'
        PROVE  n <= Covered(e)' + 1
    <2>1. CASE n \in Taken(e)
      <3>1. n \in Nat /\ n <= Covered(e) + 1
        BY <2>1 DEF CountsAreCovered, Taken, Numbers
      <3> QED BY <1>1, <3>1
    <2>2. CASE n = 1
      BY <1>1, <2>2
    <2>3. ASSUME NEW q \in Copies(e), n = q.count + 1
          PROVE  n <= Covered(e)' + 1
      BY <1>1, <1>3, <2>3
    <2> QED BY <2>1, <2>2, <2>3, TakenStep
  <1>5. ASSUME NEW r \in Copies(e)'
        PROVE  /\ r.count <= Covered(e)'
               /\ IsCounting(e)' => r.count + 1 <= Covered(e)'
    <2>1. CASE r.count = 0
      <3>1. row[e] \in Copies(e)
        BY DEF Copies
      <3>2. IsCounting(e) => Covered(e) >= 1
        BY <1>1, <1>3, <3>1
      <3> QED BY <1>1, <1>2, <2>1, <3>2
    <2>2. ASSUME NEW q \in Copies(e), r.count = q.count
          PROVE  /\ r.count <= Covered(e)'
                 /\ IsCounting(e)' => r.count + 1 <= Covered(e)'
      BY <1>1, <1>2, <1>3, <2>2
    <2>3. CASE at = "advance" /\ cur = e /\ at' = "observe" /\ r.count = copy[e].count + 1
      <3>1. IsCounting(e) /\ ~IsCounting(e)' /\ copy[e] \in Copies(e)
        BY <2>3 DEF IsCounting, Copies
      <3> QED BY <1>1, <1>3, <2>3, <3>1
    <2> QED BY <2>1, <2>2, <2>3, CountStep DEF CountKept
  <1> QED BY <1>4, <1>5

-----------------------------------------------------------------------------
LEMMA InvInit == Init => TypeOK /\ EpisodeInv
  <1> SUFFICES ASSUME Init PROVE TypeOK /\ EpisodeInv
    OBVIOUS
  <1>1. TypeOK
    <2>1. NoRows \in [Episodes -> Rows]
      BY RowTypes
    <2>2. 0 \in 0 .. Cooldown
      BY ContactAssumption
    <2> QED BY <2>1, <2>2 DEF Init, TypeOK, Messages, Places
  <1>2. WorkerIsAtWork
    BY DEF Init, WorkerIsAtWork
  <1>3. ASSUME NEW e \in Episodes
        PROVE  Taken(e) = {} /\ ~IsCounting(e) /\ \A r \in Copies(e) : r.count = 0
    BY DEF Init, Taken, IsCounting, Copies, NoRows, NoRow
  <1>4. MessagesAreInTurn
    BY <1>3 DEF MessagesAreInTurn
  <1>5. CountsAreCovered
    BY <1>1, <1>3, CoveredType DEF CountsAreCovered
  <1> QED BY <1>1, <1>2, <1>4, <1>5 DEF EpisodeInv

LEMMA InvStep == TypeOK /\ EpisodeInv /\ [Next]_vars => TypeOK' /\ EpisodeInv'
  BY TypeStep, WorkerStep, TurnStep, CoveredStep DEF EpisodeInv

LEMMA Invariance == Spec => [](TypeOK /\ EpisodeInv)
  BY InvInit, InvStep, PTL DEF Spec

\* What is open and what was sent are different messages, and together they are
\* numbered up to one more than is covered.
LEMMA InvMeansFew == TypeOK /\ EpisodeInv => FewOpenMessages /\ CountIsEarned
  <1> SUFFICES ASSUME TypeOK, EpisodeInv, NEW e \in Episodes
               PROVE  /\ Cardinality({n \in Numbers : Open(e, n)}) <= 1 + Raised
                      /\ row[e].count <= Cardinality(Sent(e)) + Raised
    BY DEF FewOpenMessages, CountIsEarned
  <1> DEFINE O == {n \in Numbers : Open(e, n)}
             S == Sent(e)
             c == Covered(e)
  <1>1. row[e].count <= c
    BY DEF EpisodeInv, CountsAreCovered, Copies
  <1>2. Raised \in Nat /\ Cardinality(S) \in Nat /\ c \in Nat /\ c = Cardinality(S) + Raised
    BY CoveredType DEF Covered
  <1>3. O \cap S = {} /\ O \in SUBSET Numbers /\ S \in SUBSET Numbers
    BY DEF Open, Sent
  <1>4. O \cup S \subseteq 1 .. c + 1
    <2> SUFFICES ASSUME NEW n \in O \cup S
                 PROVE  n \in 1 .. c + 1
      OBVIOUS
    <2>1. n \in Numbers /\ msg[e][n] # "none"
      BY DEF Open, Sent
    <2>2. n <= c + 1
      BY <2>1 DEF EpisodeInv, CountsAreCovered, Taken
    <2> QED BY <1>2, <2>1, <2>2 DEF Numbers
  <1> HIDE DEF O, S, c
  <1>5. /\ IsFiniteSet(O) /\ IsFiniteSet(S) /\ Cardinality(O) \in Nat
        /\ Cardinality(O \cap S) = 0
    BY <1>3, SentIsFinite, FS_EmptySet
  <1>6. Cardinality(O \cup S) = Cardinality(O) + Cardinality(S) - Cardinality(O \cap S)
    BY <1>5, FS_Union
  <1>7. Cardinality(O \cup S) <= c + 1
    <2>1. IsFiniteSet(1 .. c + 1) /\ Cardinality(1 .. c + 1) = c + 1
      <3>1. 1 \in Int /\ c + 1 \in Int /\ ~(1 > c + 1) /\ (c + 1) - 1 + 1 = c + 1
        BY <1>2
      <3> QED BY <3>1, FS_Interval
    <2> QED BY <1>4, <2>1, FS_Subset
  <1>8. Cardinality(O) <= 1 + Raised
    BY <1>2, <1>5, <1>6, <1>7
  <1> QED BY <1>1, <1>2, <1>8 DEF O, S

LEMMA InvMeansOne == TypeOK /\ EpisodeInv /\ FewOpenMessages => OneOpenMessage
  <1> SUFFICES ASSUME TypeOK, EpisodeInv, FewOpenMessages, MaxMessages <= 3 \/ ~HookMayFail,
                      NEW e \in Episodes, NEW m \in Numbers, NEW n \in Numbers,
                      Open(e, m), Open(e, n)
               PROVE  m = n
    BY DEF OneOpenMessage
  <1>1. CASE MaxMessages <= 3
    <2>1. m \in Taken(e) /\ n \in Taken(e) /\ ~Told(e, m) /\ ~Told(e, n)
      BY DEF Open, Taken, Told
    <2>2. m \in Nat /\ n \in Nat /\ m >= 1 /\ n >= 1
      BY DEF Numbers
    <2> QED BY <1>1, <2>1, <2>2 DEF EpisodeInv, MessagesAreInTurn
  <1>2. CASE ~HookMayFail
    <2> DEFINE O == {k \in Numbers : Open(e, k)}
    <2>1. O \in SUBSET Numbers /\ m \in O /\ n \in O /\ Cardinality(O) <= 1
      BY <1>2 DEF FewOpenMessages, Raised
    <2> HIDE DEF O
    <2>2. IsFiniteSet(O) /\ Cardinality(O) \in Nat
      BY <2>1, SentIsFinite
    <2>3. SUFFICES ASSUME m # n PROVE FALSE
      OBVIOUS
    <2>4. Cardinality({m, n}) <= Cardinality(O) /\ Cardinality({m, n}) = 2
      <3>1. {m, n} \subseteq O
        BY <2>1
      <3>2. Cardinality({m}) = 1 /\ IsFiniteSet({m})
        BY FS_Singleton
      <3>3. Cardinality({m} \cup {n}) = 2
        BY <2>3, <3>2, FS_AddElement
      <3>4. {m} \cup {n} = {m, n}
        OBVIOUS
      <3> QED BY <2>2, <3>1, <3>3, <3>4, FS_Subset
    <2> QED BY <2>1, <2>2, <2>4
  <1> QED BY <1>1, <1>2

\* Rows, messages and what chat and worker hold stay what they are.
THEOREM EpisodesTypeCorrect == Spec => []TypeOK
  BY Invariance, PTL

\* An episode has one open message, or one more for each time the hook raised,
\* and counts no more than was sent, whatever crashes, raises, fails or overtakes.
THEOREM EpisodesStayOrderly == Spec => []EpisodeIsOrderly
  <1>1. TypeOK /\ EpisodeInv => EpisodeIsOrderly
    BY InvMeansFew, InvMeansOne DEF EpisodeIsOrderly
  <1> QED BY <1>1, Invariance, PTL

-----------------------------------------------------------------------------
LEMMA StatusKept ==
    ASSUME NEW r \in Rows
    PROVE  /\ NextAction(r).status = r.status
           /\ Counted(r).status = r.status
           /\ [r EXCEPT !.wait = GateDelay].status = r.status
           /\ Resolved(r).status = "resolved"
           /\ [r EXCEPT !.status = "cancelled", !.wait = Never].status = "cancelled"
  BY DEF Rows, NextAction, Counted, Resolved

\* The status of an episode changes when it opens and when, active, it ends.
StatusStep(e) ==
    \/ row'[e].status = row[e].status
    \/ row[e].status = "absent" /\ Told(e, 1)
    \/ row[e].status = "active" /\ e \notin resolving' \cup todo'

LEMMA StatusSteps ==
    ASSUME ~Separate, TypeOK, WorkerIsAtWork, ReadIsCurrent, [Next]_vars, NEW e \in Episodes
    PROVE  StatusStep(e)
  <1> USE DEF worker, chat
  <1>1. ASSUME NEW f \in Episodes,
               \/ Evaluate(f) \/ SkipExisting(f) \/ FollowUp(f)
               \/ \E n \in Numbers : Deliver(f, n) \/ GiveUp(f, n)
        PROVE  row' = row
    BY <1>1 DEF Evaluate, SkipExisting, FollowUp, Deliver, GiveUp
  <1>2. ASSUME \/ InsertInitiative \/ Enqueue \/ ContactRead \/ ContactDone \/ GetEpisode
               \/ Observe \/ ObserveRaises \/ UserEvent \/ UserDone \/ CrashWorker \/ CrashChat
               \/ GoOffline \/ Evening \/ Morning \/ Midnight \/ UNCHANGED vars
        PROVE  row' = row
    BY <1>2 DEF InsertInitiative, Enqueue, ContactRead, ContactDone, GetEpisode, Observe,
                ObserveRaises, UserEvent, UserDone, CrashWorker, CrashChat, GoOffline, Evening,
                Morning, Midnight, vars
  <1>3. ASSUME NEW f \in Episodes, Withdraw(f) PROVE StatusStep(e)
    <2>1. row[f].status = "active" /\ f \notin todo' /\ resolving' = {}
      BY <1>3 DEF Withdraw, Done, ReadIsCurrent
    <2>2. e # f => row'[e] = row[e]
      BY <1>3 DEF Withdraw, TypeOK
    <2> QED BY <2>1, <2>2 DEF StatusStep
  <1>4. ASSUME NEW f \in Episodes, Postpone(f) PROVE StatusStep(e)
    <2>1. copy[f].status = row[f].status
      BY <1>4 DEF Postpone, ReadIsCurrent
    <2>2. row'[e] = IF e = f THEN [copy[f] EXCEPT !.wait = GateDelay] ELSE row[e]
      BY <1>4 DEF Postpone, TypeOK
    <2> QED BY <2>1, <2>2, StatusKept DEF StatusStep, TypeOK
  <1>5. CASE Link
    <2>1. cur \in Episodes /\ copy[cur].status = row[cur].status
      BY <1>5 DEF Link, WorkerIsAtWork, ReadIsCurrent
    <2>2. row'[e] = IF e = cur THEN NextAction(copy[e]) ELSE row[e]
      BY <1>5, <2>1 DEF Link, TypeOK
    <2> QED BY <2>1, <2>2, StatusKept DEF StatusStep, TypeOK
  <1>6. CASE OpenEpisode
    <2>1. row'[e] = row[e] \/ (e = cur /\ row[e].status = "absent")
      BY <1>6 DEF OpenEpisode, TypeOK
    <2>2. cur = e => Told(e, 1)
      BY <1>6 DEF OpenEpisode, WorkerIsAtWork, Told
    <2> QED BY <2>1, <2>2 DEF StatusStep
  <1>7. CASE AdvanceEpisode
    <2>1. cur \in Episodes /\ copy[cur].status = row[cur].status
      BY <1>7 DEF AdvanceEpisode, WorkerIsAtWork, ReadIsCurrent
    <2>2. row'[e] = IF e = cur THEN Counted(copy[e]) ELSE row[e]
      BY <1>7, <2>1 DEF AdvanceEpisode, TypeOK
    <2> QED BY <2>1, <2>2, StatusKept DEF StatusStep, TypeOK
  <1>8. ASSUME NEW f \in Episodes, Resolve(f) PROVE StatusStep(e)
    <2>1. row[f].status = "active" /\ f \notin resolving' /\ todo' = {}
      BY <1>8 DEF Resolve, ReadIsCurrent
    <2>2. e # f => row'[e] = row[e]
      BY <1>8 DEF Resolve, TypeOK
    <2> QED BY <2>1, <2>2 DEF StatusStep
  <1>9. CASE Advance
    <2>1. row'[e].status = row[e].status
      BY <1>9 DEF Advance, TypeOK, Rows
    <2> QED BY <2>1 DEF StatusStep
  <1> QED
    BY <1>1, <1>2, <1>3, <1>4, <1>5, <1>6, <1>7, <1>8, <1>9
       DEF StatusStep, Next, WorkerProceeds, ChatProceeds, DeliverAny

\* In one process nothing comes between a read and the write that relies on it.
LEMMA ReadStep ==
    ASSUME ~Separate, TypeOK, WorkerIsAtWork, ReadIsCurrent, [Next]_vars
    PROVE  ReadIsCurrent'
  <1> DEFINE Goal == ReadIsCurrent'
  <1> USE DEF worker, chat
  <1>1. \A e \in Episodes : row'[e].status # "absent" => Told(e, 1)'
    <2> SUFFICES ASSUME NEW e \in Episodes, row'[e].status # "absent"
                 PROVE  Told(e, 1)'
      OBVIOUS
    <2>1. Told(e, 1)
      BY StatusSteps DEF StatusStep, ReadIsCurrent
    <2> QED BY <2>1, ToldStays
  <1>2. ASSUME NEW e \in Episodes, row[e].status = "active", e \in resolving' \cup todo'
        PROVE  row'[e].status = "active"
    BY <1>2, StatusSteps DEF StatusStep
  <1>3. ASSUME NEW e \in Episodes, Evaluate(e) PROVE Goal
    BY <1>1, <1>2, <1>3 DEF ReadIsCurrent, Evaluate, Begin
  <1>4. CASE InsertInitiative \/ Enqueue
    BY <1>1, <1>2, <1>4 DEF ReadIsCurrent, InsertInitiative, Enqueue, Finish
  <1>5. CASE ContactRead
    <2>1. \A e \in todo' : copy'[e].status = "active" /\ row'[e].status = "active"
      BY <1>5 DEF ContactRead, Due
    <2> QED BY <1>1, <1>5, <2>1 DEF ReadIsCurrent, ContactRead, Begin
  <1>6. ASSUME NEW e \in Episodes, Withdraw(e) \/ Postpone(e) \/ SkipExisting(e) PROVE Goal
    <2>1. \A f \in todo' : copy'[f] = copy[f] /\ f \in todo
      BY <1>6 DEF Withdraw, Postpone, SkipExisting, Done, TypeOK
    <2> QED BY <1>1, <1>2, <1>6, <2>1
            DEF ReadIsCurrent, Withdraw, Postpone, SkipExisting, TypeOK
  <1>7. ASSUME NEW e \in Episodes, FollowUp(e) PROVE Goal
    <2>1. num' # 1
      BY <1>7 DEF ReadIsCurrent, FollowUp, Told
    <2> QED BY <1>1, <1>7, <2>1 DEF ReadIsCurrent, FollowUp
  <1>8. CASE Link
    <2>1. \A f \in todo' : copy'[f] = copy[f] /\ f \in todo
      BY <1>8 DEF Link, Done, TypeOK
    <2> QED BY <1>1, <1>2, <1>8, <2>1 DEF ReadIsCurrent, Link, TypeOK
  <1>9. CASE ContactDone \/ Observe \/ ObserveRaises \/ CrashWorker \/ GoOffline
    BY <1>1, <1>2, <1>9
       DEF ReadIsCurrent, ContactDone, Observe, ObserveRaises, CrashWorker, GoOffline, Begin,
           Finish
  <1>10. ASSUME NEW e \in Episodes, NEW n \in Numbers, Deliver(e, n) \/ GiveUp(e, n) PROVE Goal
    BY <1>1, <1>2, <1>10 DEF ReadIsCurrent, Deliver, GiveUp, Begin
  <1>11. CASE OpenEpisode
    <2>1. at' = "advance" => copy'[cur'].status = row'[cur'].status
      BY <1>11 DEF OpenEpisode, WorkerIsAtWork, TypeOK
    <2> QED BY <1>1, <1>11, <2>1 DEF ReadIsCurrent, OpenEpisode
  <1>12. CASE GetEpisode
    <2>1. copy'[cur'].status = row'[cur'].status
      BY <1>12 DEF GetEpisode, WorkerIsAtWork, TypeOK
    <2> QED BY <1>1, <1>12, <2>1 DEF ReadIsCurrent, GetEpisode
  <1>13. CASE AdvanceEpisode
    BY <1>1, <1>13 DEF ReadIsCurrent, AdvanceEpisode
  <1>14. CASE UserEvent
    <2>1. \A e \in resolving' : seen'[e].status = "active" /\ row'[e].status = "active"
      BY <1>14 DEF UserEvent
    <2> QED BY <1>1, <1>14, <2>1 DEF ReadIsCurrent, UserEvent
  <1>15. ASSUME NEW e \in Episodes, Resolve(e) PROVE Goal
    <2>1. \A f \in resolving' : seen'[f] = seen[f] /\ f \in resolving
      BY <1>15 DEF Resolve, TypeOK
    <2> QED BY <1>1, <1>2, <1>15, <2>1 DEF ReadIsCurrent, Resolve, TypeOK
  <1>16. CASE UserDone \/ CrashChat \/ Evening \/ Morning \/ Midnight \/ UNCHANGED vars
    BY <1>1, <1>16
       DEF ReadIsCurrent, UserDone, CrashChat, Evening, Morning, Midnight, vars
  <1>17. CASE Advance
    <2>1. \A e \in Episodes : row'[e].status = row[e].status
      BY <1>17 DEF Advance, TypeOK, Rows
    <2>2. UNCHANGED <<answering, at, cur, num, resolving, seen, todo, copy>>
      BY <1>17 DEF Advance
    <2>3. at = "advance" => cur \in Episodes
      BY DEF WorkerIsAtWork
    <2> QED BY <1>1, <2>1, <2>2, <2>3 DEF ReadIsCurrent, TypeOK
  <1> QED
    BY <1>3, <1>4, <1>5, <1>6, <1>7, <1>8, <1>9, <1>10, <1>11, <1>12, <1>13, <1>14, <1>15,
       <1>16, <1>17 DEF Next, WorkerProceeds, ChatProceeds, DeliverAny

\* In one process an episode that ended stays ended, however replies, contact
\* jobs, late deliveries and crashes follow each other.
THEOREM EndsAreFinal == ~Separate => (Spec => EndIsFinal)
  <1> SUFFICES ASSUME ~Separate PROVE Spec => EndIsFinal
    OBVIOUS
  <1> DEFINE Inv == TypeOK /\ EpisodeInv /\ ReadIsCurrent
             Final == \A e \in Episodes :
                        row[e].status \in {"resolved", "cancelled"}
                            => row'[e].status = row[e].status
  <1>1. Init => Inv
    <2>1. Init => ReadIsCurrent
      BY DEF Init, ReadIsCurrent, NoRows, NoRow
    <2> QED BY <2>1, InvInit
  <1>2. Inv /\ [Next]_vars => Inv'
    BY InvStep, ReadStep DEF EpisodeInv
  <1>3. Inv /\ [Next]_vars => [Final]_vars
    BY StatusSteps DEF EpisodeInv, StatusStep
  <1> QED BY <1>1, <1>2, <1>3, PTL DEF Spec, EndIsFinal
=============================================================================
