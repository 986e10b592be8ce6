---------------------------- MODULE OutboxDelivery ----------------------------
(***************************************************************************)
(* Proactive messages from the approval of an initiative to its delivery.  *)
(*                                                                         *)
(* A message is an initiative together with its outbox row: the row's      *)
(* dedup key is derived from the initiative's id.  Processes queue         *)
(* messages (InitiativeService.evaluate, ContactEpisodeService             *)
(* ._queue_follow_up), deliver them (OutboxDeliveryService.deliver_due)    *)
(* and expire initiatives; each runs one job at a time.  Every SQL         *)
(* statement is one step.  Times are kept as what remains until them: wait *)
(* for next_attempt_at_ms, life for expires_at_ms, 0 once they are past.   *)
(***************************************************************************)
EXTENDS Integers, FiniteSets

CONSTANTS
    Messages,      \* initiatives, one per dedup key
    Runtimes,      \* the processes that run the jobs
    NoMessage,     \* "no message is in hand"
    MaxAttempts,   \* max_attempts of the delivery service
    LeaseMs,       \* lease_ms of the delivery service
    RetryBase,     \* the first retry delay
    RetryCap,      \* the largest retry delay
    Lifetime,      \* from the creation of an initiative to its expiry
    Limit,         \* LIMIT of one claim
    Settings       \* what a behaviour may do: may batches outlive their leases and
                   \* on_delivered raise, the messages and processes in play, the
                   \* bound on crashes

ASSUME MessagesAssumption == NoMessage \notin Messages

ASSUME FinitenessAssumption == IsFiniteSet(Messages) /\ IsFiniteSet(Runtimes)

ASSUME DeliveryAssumption ==
    /\ MaxAttempts \in Nat \ {0}
    /\ LeaseMs \in Nat \ {0}
    /\ RetryBase \in Nat \ {0}
    /\ RetryCap \in Nat \ {0}
    /\ Lifetime \in Nat
    /\ Limit \in Nat \ {0}
    /\ Settings \subseteq [rough : BOOLEAN, messages : SUBSET Messages,
                       processes : SUBSET Runtimes, crashes : Nat]

VARIABLES
    initiative, life,                     \* table initiatives
    outbox, wait, attempts, born,         \* table outbox
    recorded,                             \* the messages with an agent.initiative event
    shown,                                \* how often the channel showed a message
    pc, current, selected, batch, tried,  \* the local state of the processes
    crashes,
    setting                               \* the member of Settings of this behaviour

initiatives == <<initiative, life>>
rows == <<outbox, wait, attempts, born>>
locals == <<pc, current, selected, batch, tried>>
moving == <<initiatives, rows, recorded, shown, locals, crashes>>
outboxVars == <<moving, setting>>

InitiativeStatuses == {"absent", "candidate", "approved", "queued", "sent", "expired"}
OutboxStatuses == {"absent", "pending", "delivering", "delivered", "dead_letter"}
Producing == {"draft", "insert", "approve", "find_row", "enqueue", "queue"}
Delivering == {"show", "find_event", "append", "mark", "sent", "hook", "fail",
               "requeue", "bury"}
Places == Producing \cup Delivering \cup {"idle", "claim", "loop"}

OutboxTypeOK ==
    /\ initiative \in [Messages -> InitiativeStatuses]
    /\ life \in [Messages -> Nat]
    /\ outbox \in [Messages -> OutboxStatuses]
    /\ wait \in [Messages -> Int]
    /\ attempts \in [Messages -> Nat]
    /\ born \in [Messages -> Int]
    /\ recorded \in SUBSET Messages
    /\ shown \in [Messages -> Nat]
    /\ pc \in [Runtimes -> Places]
    /\ current \in [Runtimes -> Messages \cup {NoMessage}]
    /\ selected \in [Runtimes -> SUBSET Messages]
    /\ batch \in [Runtimes -> SUBSET Messages]
    /\ tried \in [Runtimes -> [Messages -> Nat]]
    /\ crashes \in Nat
    /\ setting \in Settings

OutboxInit ==
    /\ initiative = [m \in Messages |-> "absent"]
    /\ life = [m \in Messages |-> 0]
    /\ outbox = [m \in Messages |-> "absent"]
    /\ wait = [m \in Messages |-> 0]
    /\ attempts = [m \in Messages |-> 0]
    /\ born = [m \in Messages |-> 0]
    /\ recorded = {}
    /\ shown = [m \in Messages |-> 0]
    /\ pc = [p \in Runtimes |-> "idle"]
    /\ current = [p \in Runtimes |-> NoMessage]
    /\ selected = [p \in Runtimes |-> {}]
    /\ batch = [p \in Runtimes |-> {}]
    /\ tried = [p \in Runtimes |-> [m \in Messages |-> 0]]
    /\ crashes = 0
    /\ setting \in Settings

Goto(p, place) == pc' = [pc EXCEPT ![p] = place]
Lesser(a, b) == IF a <= b THEN a ELSE b

-----------------------------------------------------------------------------
(***************************************************************************)
(* Queueing a message.  The dedup key is looked up, the draft is awaited,  *)
(* and then insert, APPROVED, enqueue and QUEUED follow as statements of   *)
(* their own.  insert and enqueue look their dedup key up again and adopt  *)
(* the row they find; the status updates are unconditional.                *)
(***************************************************************************)

\* The job is leased, so only a batch that outlives its lease lets two
\* processes work on one message (LifecycleJobs, MutualExclusion).
Evaluate(p, m) ==
    /\ pc[p] = "idle"
    /\ m \in setting.messages
    /\ initiative[m] = "absent"
    /\ setting.rough \/ \A q \in Runtimes : pc[q] \in Producing => current[q] # m
    /\ Goto(p, "draft")
    /\ current' = [current EXCEPT ![p] = m]
    /\ UNCHANGED <<initiatives, rows, recorded, shown, selected, batch, tried, crashes>>

DraftDone(p) ==
    /\ pc[p] = "draft"
    /\ Goto(p, IF initiative[current[p]] = "absent" THEN "insert" ELSE "approve")
    /\ UNCHANGED <<initiatives, rows, recorded, shown, current, selected, batch,
                   tried, crashes>>

Leave(p) ==
    /\ Goto(p, "idle")
    /\ current' = [current EXCEPT ![p] = NoMessage]
    /\ UNCHANGED <<selected, batch, tried>>

InsertInitiative(p) ==
    /\ pc[p] = "insert"
    /\ initiative[current[p]] = "absent"
    /\ initiative' = [initiative EXCEPT ![current[p]] = "candidate"]
    /\ life' = [life EXCEPT ![current[p]] = Lifetime]
    /\ Goto(p, "approve")
    /\ UNCHANGED <<rows, recorded, shown, current, selected, batch, tried, crashes>>

\* An INSERT that another process overtook violates the unique index on
\* dedup_key, of initiatives or of outbox, and the job fails.
InsertConflict(p) ==
    /\ \/ pc[p] = "insert" /\ initiative[current[p]] # "absent"
       \/ pc[p] = "enqueue" /\ outbox[current[p]] # "absent"
    /\ Leave(p)
    /\ UNCHANGED <<initiatives, rows, recorded, shown, crashes>>

Approve(p) ==
    /\ pc[p] = "approve"
    /\ initiative' = [initiative EXCEPT ![current[p]] = "approved"]
    /\ Goto(p, "find_row")
    /\ UNCHANGED <<life, rows, recorded, shown, current, selected, batch, tried,
                   crashes>>

AfterFind(m) == IF outbox[m] = "absent" THEN "enqueue" ELSE "queue"

FindRow(p) ==
    /\ pc[p] = "find_row"
    /\ Goto(p, AfterFind(current[p]))
    /\ UNCHANGED <<initiatives, rows, recorded, shown, current, selected, batch,
                   tried, crashes>>

Enqueue(p) ==
    /\ pc[p] = "enqueue"
    /\ outbox[current[p]] = "absent"
    /\ outbox' = [outbox EXCEPT ![current[p]] = "pending"]
    /\ born' = [born EXCEPT ![current[p]] =
                  Cardinality({m \in Messages : outbox[m] # "absent"})]
    /\ Goto(p, "queue")
    /\ UNCHANGED <<initiatives, wait, attempts, recorded, shown, current, selected,
                   batch, tried, crashes>>

Queue(p) ==
    /\ pc[p] = "queue"
    /\ initiative' = [initiative EXCEPT ![current[p]] = "queued"]
    /\ Leave(p)
    /\ UNCHANGED <<life, rows, recorded, shown, crashes>>

\* Mutant of Expirable: only queued initiatives expire.
ExpirableQueued == {"queued"}

\* The statuses in the WHERE clause of expire_due.
Expirable == {"candidate", "approved", "queued"}

Expired(m) == initiative[m] \in Expirable /\ life[m] = 0

Expire(p) ==
    /\ pc[p] = "idle"
    /\ \E m \in Messages : Expired(m)
    /\ initiative' = [m \in Messages |-> IF Expired(m) THEN "expired" ELSE initiative[m]]
    /\ UNCHANGED <<life, rows, recorded, shown, locals, crashes>>

-----------------------------------------------------------------------------
(***************************************************************************)
(* deliver_due: claim a batch, then per message load the initiative, await *)
(* the channel, find or append the event, mark the row delivered, mark the *)
(* initiative sent and call the hook.  Any exception on the way, also one  *)
(* after the row is marked delivered, fails the row.                       *)
(***************************************************************************)
\* Mutants of Claimable: the lease is not looked at, or delivering rows are left out.
ClaimableAnyDelivering(m) ==
    \/ outbox[m] = "pending" /\ wait[m] <= 0
    \/ outbox[m] = "delivering"
ClaimablePendingOnly(m) == outbox[m] = "pending" /\ wait[m] <= 0
\* Mutant of Claimable: WHERE status <> 'dead_letter'.
ClaimableDelivered(m) ==
    outbox[m] \in {"pending", "delivering", "delivered"} /\ wait[m] <= 0

Claimable(m) == outbox[m] \in {"pending", "delivering"} /\ wait[m] <= 0

\* At most Limit of the rows in S, the oldest ones.
Oldest(S) ==
    {T \in SUBSET S :
        /\ Cardinality(T) = Lesser(Limit, Cardinality(S))
        /\ \A m \in T, n \in S \ T : born[m] <= born[n]}

ClaimSelect(p) ==
    /\ pc[p] = "idle"
    /\ \E T \in Oldest({m \in Messages : Claimable(m)}) :
        selected' = [selected EXCEPT ![p] = T]
    /\ Goto(p, "claim")
    /\ UNCHANGED <<initiatives, rows, recorded, shown, current, batch, tried, crashes>>

First(S) == {m \in S : \A n \in S : born[m] <= born[n]}

Charge(m) == attempts[m] + 1

\* The UPDATE of claim_due repeats the condition of its SELECT.
ClaimUpdate(p, m) ==
    /\ pc[p] = "claim"
    /\ m \in First(selected[p])
    /\ selected' = [selected EXCEPT ![p] = @ \ {m}]
    /\ IF Claimable(m)
         THEN /\ outbox' = [outbox EXCEPT ![m] = "delivering"]
              /\ attempts' = [attempts EXCEPT ![m] = Charge(m)]
              /\ wait' = [wait EXCEPT ![m] = LeaseMs]
              /\ batch' = [batch EXCEPT ![p] = @ \cup {m}]
              /\ tried' = [tried EXCEPT ![p][m] = Charge(m)]
         ELSE UNCHANGED <<outbox, attempts, wait, batch, tried>>
    /\ UNCHANGED <<initiatives, born, recorded, shown, pc, current, crashes>>

ClaimDone(p) ==
    /\ pc[p] = "claim"
    /\ selected[p] = {}
    /\ Goto(p, "loop")
    /\ UNCHANGED <<initiatives, rows, recorded, shown, current, selected, batch,
                   tried, crashes>>

Take(p, m) ==
    /\ pc[p] = "loop"
    /\ m \in First(batch[p])
    /\ current' = [current EXCEPT ![p] = m]
    /\ Goto(p, "show")
    /\ UNCHANGED <<initiatives, rows, recorded, shown, selected, batch, tried, crashes>>

\* The channel accepts the message, or the adapter raises.
Show(p) ==
    /\ pc[p] = "show"
    /\ shown' = [shown EXCEPT ![current[p]] = @ + 1]
    /\ Goto(p, "find_event")
    /\ UNCHANGED <<initiatives, rows, recorded, current, selected, batch, tried,
                   crashes>>

ShowFails(p) ==
    /\ pc[p] = "show"
    /\ Goto(p, "fail")
    /\ UNCHANGED <<initiatives, rows, recorded, shown, current, selected, batch,
                   tried, crashes>>

AfterShow(m) == IF m \in recorded THEN "mark" ELSE "append"

FindEvent(p) ==
    /\ pc[p] = "find_event"
    /\ Goto(p, AfterShow(current[p]))
    /\ UNCHANGED <<initiatives, rows, recorded, shown, current, selected, batch,
                   tried, crashes>>

\* The ledger is unique in (channel, channel_message_id): a second event for
\* a message raises DuplicateEventError.
AppendEvent(p) ==
    /\ pc[p] = "append"
    /\ recorded' = recorded \cup {current[p]}
    /\ Goto(p, IF current[p] \in recorded THEN "fail" ELSE "mark")
    /\ UNCHANGED <<initiatives, rows, shown, current, selected, batch, tried, crashes>>

MarkDelivered(p) ==
    /\ pc[p] = "mark"
    /\ outbox' = [outbox EXCEPT ![current[p]] = "delivered"]
    /\ Goto(p, "sent")
    /\ UNCHANGED <<initiatives, wait, attempts, born, recorded, shown, current,
                   selected, batch, tried, crashes>>

MarkSent(p) ==
    /\ pc[p] = "sent"
    /\ initiative' = [initiative EXCEPT ![current[p]] = "sent"]
    /\ Goto(p, "hook")
    /\ UNCHANGED <<life, rows, recorded, shown, current, selected, batch, tried,
                   crashes>>

\* The process goes on with the rest of its batch.
NextMessage(p) ==
    /\ Goto(p, "loop")
    /\ batch' = [batch EXCEPT ![p] = @ \ {current[p]}]
    /\ tried' = [tried EXCEPT ![p][current[p]] = 0]
    /\ current' = [current EXCEPT ![p] = NoMessage]
    /\ UNCHANGED selected

HookReturns(p) ==
    /\ pc[p] = "hook"
    /\ NextMessage(p)
    /\ UNCHANGED <<initiatives, rows, recorded, shown, crashes>>

HookRaises(p) ==
    /\ setting.rough
    /\ pc[p] = "hook"
    /\ Goto(p, "fail")
    /\ UNCHANGED <<initiatives, rows, recorded, shown, current, selected, batch,
                   tried, crashes>>

Terminal(n) == n >= MaxAttempts

RetryDelay(n) == Lesser(RetryCap, RetryBase * 2 ^ (IF n = 0 THEN 0 ELSE n - 1))

\* Mutant of Failed: a word that is not an OutboxStatus.
FailedMisspelt(last) == IF last THEN "dead" ELSE "pending"

Failed(last) == IF last THEN "dead_letter" ELSE "pending"

\* fail reads attempt_count of the row and then updates it by its id alone.
FailRead(p) ==
    /\ pc[p] = "fail"
    /\ Goto(p, IF Terminal(attempts[current[p]]) THEN "bury" ELSE "requeue")
    /\ UNCHANGED <<initiatives, rows, recorded, shown, current, selected, batch,
                   tried, crashes>>

FailWrite(p) ==
    /\ pc[p] \in {"requeue", "bury"}
    /\ outbox' = [outbox EXCEPT ![current[p]] = Failed(pc[p] = "bury")]
    /\ wait' = [wait EXCEPT ![current[p]] = RetryDelay(tried[p][current[p]])]
    /\ NextMessage(p)
    /\ UNCHANGED <<initiatives, attempts, born, recorded, shown, crashes>>

BatchDone(p) ==
    /\ pc[p] = "loop"
    /\ batch[p] = {}
    /\ Goto(p, "idle")
    /\ UNCHANGED <<initiatives, rows, recorded, shown, current, selected, batch,
                   tried, crashes>>

\* The process dies, or its lifecycle task is cancelled, and is started again.
Crash(p) ==
    /\ pc[p] # "idle"
    /\ crashes < setting.crashes
    /\ crashes' = crashes + 1
    /\ Goto(p, "idle")
    /\ current' = [current EXCEPT ![p] = NoMessage]
    /\ selected' = [selected EXCEPT ![p] = {}]
    /\ batch' = [batch EXCEPT ![p] = {}]
    /\ tried' = [tried EXCEPT ![p] = [m \in Messages |-> 0]]
    /\ UNCHANGED <<initiatives, rows, recorded, shown>>

Less(t) == IF t > 0 THEN t - 1 ELSE t

\* Time passes.  Unless rough, every batch ends before its leases do.
Advance ==
    /\ setting.rough \/ \A p \in Runtimes : \A m \in batch[p] : wait[m] > 1
    /\ \E m \in Messages : wait[m] > 0 \/ life[m] > 0
    /\ wait' = [m \in Messages |-> Less(wait[m])]
    /\ life' = [m \in Messages |-> Less(life[m])]
    /\ UNCHANGED <<initiative, outbox, attempts, born, recorded, shown, locals,
                   crashes>>

\* What a process does once it has begun a job.
Proceed(p) ==
    \/ DraftDone(p) \/ InsertInitiative(p) \/ InsertConflict(p) \/ Approve(p)
    \/ FindRow(p) \/ Enqueue(p) \/ Queue(p)
    \/ \E m \in Messages : ClaimUpdate(p, m) \/ Take(p, m)
    \/ ClaimDone(p) \/ Show(p) \/ ShowFails(p) \/ FindEvent(p) \/ AppendEvent(p)
    \/ MarkDelivered(p) \/ MarkSent(p) \/ HookReturns(p) \/ HookRaises(p)
    \/ FailRead(p) \/ FailWrite(p) \/ BatchDone(p)

OutboxNext ==
    /\ UNCHANGED setting
    /\ \/ \E p \in setting.processes :
            \/ \E m \in Messages : Evaluate(p, m)
            \/ Proceed(p) \/ ClaimSelect(p) \/ Expire(p) \/ Crash(p)
       \/ Advance

OutboxSpec == OutboxInit /\ [][OutboxNext]_outboxVars

\* A process finishes the job it has begun and time passes; the job table runs
\* the delivery and the expiry jobs again and again, also between other jobs
\* (LifecycleJobs, DueJobIsLeased).
FairSpec ==
    /\ OutboxSpec
    /\ \A p \in Runtimes :
        /\ WF_moving(Proceed(p))
        /\ SF_moving(ClaimSelect(p))
        /\ SF_moving(Expire(p))
    /\ WF_moving(Advance)
-----------------------------------------------------------------------------
(***************************************************************************)
(* Properties.  Those on claims are stated for batches that end before     *)
(* their leases (~setting.rough); the others hold whatever the hook does   *)
(* and however long a batch takes.                                         *)
(***************************************************************************)

\* No two processes deliver the same message at the same time: each has it in
\* the batch that claim_due handed out and deliver_due has not settled.
ClaimsAreExclusive ==
    \A p, q \in Runtimes : ~setting.rough /\ p # q => batch[p] \cap batch[q] = {}

\* A row is marked delivered, and an initiative sent, only when the channel
\* has shown the message and the ledger has its event, over all retries.
DeliveredWasRecorded ==
    \A m \in Messages :
        outbox[m] = "delivered" \/ initiative[m] = "sent"
            => m \in recorded /\ shown[m] > 0

\* Every showing was charged to attempt_count beforehand, also when the
\* process died in between: a message cannot be shown again for nothing.
ShownWasCharged == \A m \in Messages : shown[m] <= attempts[m]

\* What a delivery may rely on: it has its messages to itself, acknowledges
\* last, and every showing was charged to the attempts of its row.
DeliveryIsOrderly == ClaimsAreExclusive /\ DeliveredWasRecorded /\ ShownWasCharged

\* The outbox implements the abstract delivery of messages, as long as batches
\* end before their leases and hooks return.
RowState(s) ==
    CASE s = "absent" -> "new" [] s = "pending" -> "open"
      [] s = "delivering" -> "open" [] s = "delivered" -> "acknowledged"
      [] s = "dead_letter" -> "given_up"

Delivery == INSTANCE MessageDelivery WITH
    state <- [m \in Messages |-> RowState(outbox[m])]

ImplementsDelivery ==
    /\ Delivery!DeliveryInit
    /\ [][setting.rough \/ Delivery!DeliveryNext]_(Delivery!deliveryVars)

\* Every message in the outbox is delivered or becomes a dead letter, whatever
\* the channel does and wherever a process dies.
MessageIsSettled ==
    \A m \in Messages :
        outbox[m] = "pending" ~> outbox[m] \in {"delivered", "dead_letter"}

\* An initiative whose process died before the enqueue, which its dedup key
\* keeps from being queued again, does not stay open for ever.
OrphanExpires ==
    \A m \in Messages :
        (initiative[m] \in {"candidate", "approved"} /\ outbox[m] = "absent")
            ~> (initiative[m] = "expired" \/ outbox[m] # "absent")
=============================================================================
