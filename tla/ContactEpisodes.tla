---------------------------- MODULE ContactEpisodes ----------------------------
(***************************************************************************)
(* Contact episodes (services/contact_episode_service.py): a delivered     *)
(* initiative opens an episode, silence leads to follow-ups up to a bound, *)
(* then to withdrawal, and a user event resolves the episode.              *)
(*                                                                         *)
(* The worker runs initiative.evaluate, contact.evaluate and               *)
(* outbox.deliver one at a time; the chat handles user events.  In one     *)
(* process the send lock keeps them apart; with Separate, chat and worker  *)
(* are two processes on one database.  update rewrites the whole row of an *)
(* episode from the copy a process has read.  What the outbox does for a   *)
(* message is the subject of OutboxDelivery: here it is sent, sent again   *)
(* when the hook raised, or given up.  Times are what remains until them.  *)
(***************************************************************************)
EXTENDS Integers, FiniteSets

CONSTANTS
    Episodes,      \* episodes, one per opening initiative
    NoEpisode,     \* "no episode is in hand"
    MaxMessages,   \* max_messages of an episode
    WaitTime,      \* wait_ms, from a message to the next action
    Cooldown,      \* cooldown_minutes of the initiative configuration
    DailyLimit,    \* daily_limit of the initiative configuration
    HourDelay,     \* how long quiet hours and the limit postpone an episode
    QuietHours,    \* are there quiet hours?
    Separate,      \* do chat and worker run in two processes?
    HookMayFail,   \* may the inner life raise in the delivery hook?
    ChannelMayFail,\* may a message be given up?
    MaxFaults      \* bound on the crashes and the raising hooks

ASSUME EpisodesAssumption == NoEpisode \notin Episodes

ASSUME ContactAssumption ==
    /\ MaxMessages \in Nat \ {0}
    /\ WaitTime \in Nat \ {0}
    /\ Cooldown \in Nat
    /\ DailyLimit \in Nat \ {0}
    /\ HourDelay \in Nat \ {0}
    /\ QuietHours \in BOOLEAN
    /\ Separate \in BOOLEAN
    /\ HookMayFail \in BOOLEAN
    /\ ChannelMayFail \in BOOLEAN
    /\ MaxFaults \in Nat

VARIABLES
    row,           \* table contact_episodes
    msg,           \* msg[e][n]: the n-th message of episode e
    cool,          \* what remains of the cooldown after the latest sent message
    today,         \* the messages whose initiative was last sent since midnight
    quiet,         \* is it within the quiet hours?
    away,          \* is the inner life in the mode offline?
    at,            \* where the worker is
    cur, num,      \* the episode and the message it is busy with
    todo, copy,    \* the episodes it has read and not dealt with, and their rows
    answering,     \* is the chat handling a user event?
    resolving, seen,  \* its episodes and rows
    faults

worker == <<at, cur, num, todo, copy>>
chat == <<answering, resolving, seen>>
vars == <<row, msg, cool, today, quiet, away, worker, chat, faults>>

Numbers == 1 .. MaxMessages + 1

\* next_action_at_ms is NULL.
Never == -1

Rows == [status : {"absent", "active", "resolved", "cancelled"},
         count : Nat, wait : {Never} \cup Nat, sent : BOOLEAN]

\* "stuck" is an initiative without an outbox row, "again" one that was sent
\* and whose row was failed by the hook.
Messages == {"none", "stuck", "queued", "sent", "again", "dead"}

Places == {"idle", "insert", "enqueue", "contact", "link", "open", "opened",
           "get", "advance", "observe"}

TypeOK ==
    /\ row \in [Episodes -> Rows]
    /\ msg \in [Episodes -> [Numbers -> Messages]]
    /\ cool \in 0 .. Cooldown
    /\ today \in SUBSET (Episodes \X Numbers)
    /\ quiet \in BOOLEAN
    /\ away \in BOOLEAN
    /\ at \in Places
    /\ cur \in Episodes \cup {NoEpisode}
    /\ num \in Numbers \cup {0}
    /\ todo \in SUBSET Episodes
    /\ copy \in [Episodes -> Rows]
    /\ answering \in BOOLEAN
    /\ resolving \in SUBSET Episodes
    /\ seen \in [Episodes -> Rows]
    /\ faults \in Nat

NoRow == [status |-> "absent", count |-> 0, wait |-> Never, sent |-> FALSE]
NoRows == [e \in Episodes |-> NoRow]

Init ==
    /\ row = NoRows
    /\ msg = [e \in Episodes |-> [n \in Numbers |-> "none"]]
    /\ cool = 0
    /\ today = {}
    /\ quiet = FALSE
    /\ away = FALSE
    /\ at = "idle"
    /\ cur = NoEpisode
    /\ num = 0
    /\ todo = {}
    /\ copy = NoRows
    /\ answering = FALSE
    /\ resolving = {}
    /\ seen = NoRows
    /\ faults = 0

\* The worker begins a job: in one process, not while the chat has the lock.
Begin(place) ==
    /\ at = "idle"
    /\ Separate \/ ~answering
    /\ at' = place

Finish == at' = "idle" /\ cur' = NoEpisode /\ num' = 0

\* The gates of evaluate and of _delivery_gate_delay: they count sent
\* initiatives only, not those that wait in the outbox.
LimitReached == Cardinality(today) >= DailyLimit

GateOpen == ~quiet /\ ~LimitReached /\ cool = 0

GateDelay == IF quiet \/ LimitReached THEN HourDelay ELSE cool

-----------------------------------------------------------------------------
(***************************************************************************)
(* initiative.evaluate: the first message of an episode.                   *)
(***************************************************************************)
Evaluate(e) ==
    /\ Begin("insert")
    /\ away
    /\ GateOpen
    /\ msg[e][1] = "none"
    /\ cur' = e
    /\ num' = 1
    /\ UNCHANGED <<row, msg, cool, today, quiet, away, todo, copy, chat, faults>>

\* Also the draft of evaluate is awaited before this step.
InsertInitiative ==
    /\ at = "insert"
    /\ msg' = [msg EXCEPT ![cur][num] = "stuck"]
    /\ at' = "enqueue"
    /\ UNCHANGED <<row, cool, today, quiet, away, cur, num, todo, copy, chat, faults>>

Enqueue ==
    /\ at = "enqueue"
    /\ msg' = [msg EXCEPT ![cur][num] = "queued"]
    /\ IF num = 1
         THEN Finish
         ELSE at' = "link" /\ UNCHANGED <<cur, num>>
    /\ UNCHANGED <<row, cool, today, quiet, away, todo, copy, chat, faults>>

-----------------------------------------------------------------------------
(***************************************************************************)
(* contact.evaluate: the due episodes are read at once and dealt with one  *)
(* by one.                                                                 *)
(***************************************************************************)
\* Mutant of Due: the status is not looked at.
DueAnyStatus(e) == row[e].wait = 0
\* Mutant of Due: an episode is never due again after a follow-up.
DueOnce(e) == row[e].status = "active" /\ row[e].wait = 0 /\ row[e].count < 2

Due(e) == row[e].status = "active" /\ row[e].wait = 0

ContactRead ==
    /\ Begin("contact")
    /\ away
    /\ \E e \in Episodes : Due(e)
    /\ todo' = {e \in Episodes : Due(e)}
    /\ copy' = [e \in Episodes |-> IF Due(e) THEN row[e] ELSE NoRow]
    /\ UNCHANGED <<row, msg, cool, today, quiet, away, cur, num, chat, faults>>

\* The worker drops its copy of e.
Done(e) ==
    /\ todo' = todo \ {e}
    /\ copy' = [copy EXCEPT ![e] = NoRow]

Exhausted(e) == copy[e].count >= MaxMessages

Withdraw(e) ==
    /\ at = "contact"
    /\ e \in todo
    /\ Exhausted(e)
    /\ row' = [row EXCEPT ![e] = [copy[e] EXCEPT !.status = "cancelled", !.wait = Never]]
    /\ Done(e)
    /\ UNCHANGED <<msg, cool, today, quiet, away, at, cur, num, chat, faults>>

Postpone(e) ==
    /\ at = "contact"
    /\ e \in todo
    /\ ~Exhausted(e)
    /\ ~GateOpen
    /\ row' = [row EXCEPT ![e] = [copy[e] EXCEPT !.wait = GateDelay]]
    /\ Done(e)
    /\ UNCHANGED <<msg, cool, today, quiet, away, at, cur, num, chat, faults>>

\* _queue_follow_up finds the dedup key of the next message and returns.
SkipExisting(e) ==
    /\ at = "contact"
    /\ e \in todo
    /\ ~Exhausted(e)
    /\ GateOpen
    /\ msg[e][copy[e].count + 1] # "none"
    /\ Done(e)
    /\ UNCHANGED <<row, msg, cool, today, quiet, away, at, cur, num, chat, faults>>

FollowUp(e) ==
    /\ at = "contact"
    /\ e \in todo
    /\ ~Exhausted(e)
    /\ GateOpen
    /\ msg[e][copy[e].count + 1] = "none"
    /\ at' = "insert"
    /\ cur' = e
    /\ num' = copy[e].count + 1
    /\ UNCHANGED <<row, msg, cool, today, quiet, away, todo, copy, chat, faults>>

\* Mutant of NextAction: the message is counted when it is queued.
NextActionCounted(r) == [r EXCEPT !.count = @ + 1, !.wait = WaitTime]

NextAction(r) == [r EXCEPT !.wait = Never]

\* The last statement of _queue_follow_up: the episode waits for the delivery.
Link ==
    /\ at = "link"
    /\ row' = [row EXCEPT ![cur] = NextAction(copy[cur])]
    /\ Done(cur)
    /\ at' = "contact"
    /\ cur' = NoEpisode
    /\ num' = 0
    /\ UNCHANGED <<msg, cool, today, quiet, away, chat, faults>>

ContactDone ==
    /\ at = "contact"
    /\ todo = {}
    /\ Finish
    /\ UNCHANGED <<row, msg, cool, today, quiet, away, todo, copy, chat, faults>>

-----------------------------------------------------------------------------
(***************************************************************************)
(* outbox.deliver: the message is sent and the hook opens or advances its  *)
(* episode, whatever the status of the episode is by then.                 *)
(***************************************************************************)
Deliver(e, n) ==
    /\ msg[e][n] \in {"queued", "again"}
    /\ Begin(IF n = 1 THEN "open" ELSE "get")
    /\ msg' = [msg EXCEPT ![e][n] = "sent"]
    /\ cool' = Cooldown
    /\ today' = today \cup {<<e, n>>}
    /\ cur' = e
    /\ num' = n
    /\ UNCHANGED <<row, quiet, away, todo, copy, chat, faults>>

GiveUp(e, n) ==
    /\ ChannelMayFail
    /\ msg[e][n] = "queued"
    /\ Begin("idle")
    /\ msg' = [msg EXCEPT ![e][n] = "dead"]
    /\ UNCHANGED <<row, cool, today, quiet, away, cur, num, todo, copy, chat, faults>>

OpenEpisode ==
    /\ at = "open"
    /\ IF row[cur].status = "absent"
         THEN /\ row' = [row EXCEPT ![cur] = [NoRow EXCEPT !.status = "active"]]
              /\ copy' = [copy EXCEPT ![cur] = row'[cur]]
              /\ at' = "advance"
         ELSE at' = "observe" /\ UNCHANGED <<row, copy>>
    /\ UNCHANGED <<msg, cool, today, quiet, away, cur, num, todo, chat, faults>>

GetEpisode ==
    /\ at = "get"
    /\ copy' = [copy EXCEPT ![cur] = row[cur]]
    /\ at' = "advance"
    /\ UNCHANGED <<row, msg, cool, today, quiet, away, cur, num, todo, chat, faults>>

Counted(r) == [r EXCEPT !.count = @ + 1, !.wait = WaitTime, !.sent = TRUE]

AdvanceEpisode ==
    /\ at = "advance"
    /\ row' = [row EXCEPT ![cur] = Counted(copy[cur])]
    /\ copy' = [copy EXCEPT ![cur] = NoRow]
    /\ at' = "observe"
    /\ UNCHANGED <<msg, cool, today, quiet, away, cur, num, todo, chat, faults>>

\* The inner life observes the agent's message and leaves the mode offline.
Observe ==
    /\ at = "observe"
    /\ away' = FALSE
    /\ Finish
    /\ UNCHANGED <<row, msg, cool, today, quiet, todo, copy, chat, faults>>

\* It raises: the outbox delivers the message again, or has no attempt left.
ObserveRaises ==
    /\ HookMayFail
    /\ faults < MaxFaults
    /\ faults' = faults + 1
    /\ at = "observe"
    /\ \E s \in {"again", "sent"} : msg' = [msg EXCEPT ![cur][num] = s]
    /\ Finish
    /\ UNCHANGED <<row, cool, today, quiet, away, todo, copy, chat>>

-----------------------------------------------------------------------------
(***************************************************************************)
(* observe_user_event: the active episodes are read at once and resolved   *)
(* one by one.  One that has never been sent is skipped, and so is one     *)
(* that was sent after the event was created, which takes another process: *)
(* in one process the event is observed as soon as it is created.  Times   *)
(* of sending are not kept, so that with two processes any may be skipped. *)
(***************************************************************************)
UserEvent ==
    /\ ~answering
    /\ Separate \/ at = "idle"
    /\ answering' = TRUE
    /\ away' = FALSE
    /\ \E late \in SUBSET Episodes :
          /\ late = {} \/ Separate
          /\ resolving' = {e \in Episodes \ late : row[e].status = "active" /\ row[e].sent}
    /\ seen' = [e \in Episodes |-> IF e \in resolving' THEN row[e] ELSE NoRow]
    /\ UNCHANGED <<row, msg, cool, today, quiet, worker, faults>>

\* Mutant of Resolved: a word that is not a ContactStatus.
ResolvedMisspelt(r) == [r EXCEPT !.status = "closed", !.wait = Never]

Resolved(r) == [r EXCEPT !.status = "resolved", !.wait = Never]

Resolve(e) ==
    /\ e \in resolving
    /\ row' = [row EXCEPT ![e] = Resolved(seen[e])]
    /\ resolving' = resolving \ {e}
    /\ seen' = [seen EXCEPT ![e] = NoRow]
    /\ UNCHANGED <<msg, cool, today, quiet, away, worker, answering, faults>>

UserDone ==
    /\ answering
    /\ resolving = {}
    /\ answering' = FALSE
    /\ UNCHANGED <<row, msg, cool, today, quiet, away, worker, resolving, seen, faults>>

-----------------------------------------------------------------------------
CrashWorker ==
    /\ at # "idle"
    /\ faults < MaxFaults
    /\ faults' = faults + 1
    /\ Finish
    /\ todo' = {}
    /\ copy' = NoRows
    /\ UNCHANGED <<row, msg, cool, today, quiet, away, chat>>

CrashChat ==
    /\ answering
    /\ faults < MaxFaults
    /\ faults' = faults + 1
    /\ answering' = FALSE
    /\ resolving' = {}
    /\ seen' = NoRows
    /\ UNCHANGED <<row, msg, cool, today, quiet, away, worker>>

\* The heartbeat of the inner life finds the user absent.
GoOffline ==
    /\ ~away
    /\ Begin("idle")
    /\ away' = TRUE
    /\ UNCHANGED <<row, msg, cool, today, quiet, cur, num, todo, copy, chat, faults>>

Evening ==
    /\ QuietHours
    /\ ~quiet
    /\ quiet' = TRUE
    /\ UNCHANGED <<row, msg, cool, today, away, worker, chat, faults>>

Morning ==
    /\ quiet
    /\ quiet' = FALSE
    /\ UNCHANGED <<row, msg, cool, today, away, worker, chat, faults>>

Midnight ==
    /\ today # {}
    /\ today' = {}
    /\ UNCHANGED <<row, msg, cool, quiet, away, worker, chat, faults>>

Advance ==
    /\ cool > 0 \/ \E e \in Episodes : row[e].wait > 0
    /\ cool' = IF cool > 0 THEN cool - 1 ELSE 0
    /\ row' = [e \in Episodes |->
                 [row[e] EXCEPT !.wait = IF @ > 0 THEN @ - 1 ELSE @]]
    /\ UNCHANGED <<msg, today, quiet, away, worker, chat, faults>>

WorkerProceeds ==
    \/ InsertInitiative \/ Enqueue \/ Link \/ ContactDone
    \/ \E e \in Episodes : Withdraw(e) \/ Postpone(e) \/ SkipExisting(e) \/ FollowUp(e)
    \/ OpenEpisode \/ GetEpisode \/ AdvanceEpisode \/ Observe \/ ObserveRaises

ChatProceeds == UserDone \/ \E e \in Episodes : Resolve(e)

DeliverAny == \E e \in Episodes, n \in Numbers : Deliver(e, n) \/ GiveUp(e, n)

Next ==
    \/ \E e \in Episodes : Evaluate(e)
    \/ ContactRead
    \/ DeliverAny
    \/ WorkerProceeds
    \/ UserEvent \/ ChatProceeds
    \/ CrashWorker \/ CrashChat
    \/ GoOffline \/ Evening \/ Morning \/ Midnight \/ Advance

Spec == Init /\ [][Next]_vars

\* Jobs and turns that have begun end, the delivery, contact and heartbeat
\* jobs run again and again, and time passes.  Days are long enough for an
\* hour to pass and for a contact job to begin, to get through the gates and
\* to end in them.
FairSpec ==
    /\ Spec
    /\ WF_vars(WorkerProceeds)
    /\ WF_vars(ChatProceeds)
    /\ SF_vars(DeliverAny)
    /\ SF_vars(~quiet /\ ContactRead)
    /\ SF_vars(~quiet /\ ContactDone)
    /\ SF_vars(\E e \in Episodes : FollowUp(e))
    /\ SF_vars(GoOffline)
    /\ WF_vars(Morning)
    /\ WF_vars(Midnight)
    /\ SF_vars(~quiet /\ at = "idle" /\ Advance)

-----------------------------------------------------------------------------
(***************************************************************************)
(* Properties.                                                             *)
(***************************************************************************)

Open(e, n) == msg[e][n] \in {"stuck", "queued"}

Sent(e) == {n \in Numbers : msg[e][n] = "sent"}

\* A bound on how often the hook has raised.
Raised == IF HookMayFail THEN faults ELSE 0

\* An episode has at most one message that is not delivered yet: evaluate_due
\* does not pile follow-ups up behind a slow outbox.  From the fourth message on
\* (the domain allows eight, the service asks for three) that needs hooks that
\* return: a message that is delivered again counts again, and the next
\* follow-up is queued beside the one that waits.
OneOpenMessage ==
    MaxMessages <= 3 \/ ~HookMayFail =>
        \A e \in Episodes : \A m, n \in Numbers : Open(e, m) /\ Open(e, n) => m = n

\* In any case there is at most one more for each time the hook raised.
FewOpenMessages ==
    \A e \in Episodes : Cardinality({n \in Numbers : Open(e, n)}) <= 1 + Raised

\* message_count never exceeds the messages that were sent, but for one count
\* for each time the hook raised after it had counted.
CountIsEarned ==
    \A e \in Episodes : row[e].count <= Cardinality(Sent(e)) + Raised

\* An episode keeps count: of the message that is open and of those that were
\* sent, with deliveries that repeat, fail and overtake the user's reply.
EpisodeIsOrderly == OneOpenMessage /\ FewOpenMessages /\ CountIsEarned

\* An episode that ended does not become active again.
EndIsFinal ==
    [][\A e \in Episodes :
        row[e].status \in {"resolved", "cancelled"}
            => row'[e].status = row[e].status]_vars

\* Once the user came back, nothing more of the episode is sent.
ResolvedSendsNothing ==
    [][\A e \in Episodes, n \in Numbers :
        row[e].status = "resolved" /\ msg[e][n] # "sent" => msg'[e][n] # "sent"]_vars

\* Proactive messages keep the cooldown between them.
CooldownKept ==
    [][\A e \in Episodes, n \in Numbers :
        msg[e][n] = "queued" /\ msg'[e][n] = "sent" => cool = 0]_vars

\* The daily limit is not exceeded.
DailyLimitKept == Cardinality(today) <= DailyLimit

\* Every contact ends: the user answers or the episode withdraws, unless a
\* process crashed or the channel gave a message up.
EpisodeEnds ==
    \A e \in Episodes :
        row[e].status = "active"
            ~> \/ row[e].status \in {"resolved", "cancelled"}
               \/ faults > 0
               \/ \E n \in Numbers : msg[e][n] = "dead"

\* The same without reservation.
ContactTerminates ==
    \A e \in Episodes :
        row[e].status = "active" ~> row[e].status \in {"resolved", "cancelled"}
=============================================================================
