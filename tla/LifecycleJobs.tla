---------------------------- MODULE LifecycleJobs ----------------------------
(***************************************************************************)
(* The durable job table scheduled_jobs and the processes that poll it.    *)
(*                                                                         *)
(* Each process is a PersistentLifecycleWorker (runtime/lifecycle.py) over *)
(* a ScheduledJobRepository (storage/lifecycle_repository.py).  The SQLite *)
(* connection is in autocommit mode, so every SQL statement is one step    *)
(* here and processes interleave between statements.  Columns of the table *)
(* are functions on Jobs; the local variables of a running process are     *)
(* functions on Workers.  A lease of 0 stands for NULL.                    *)
(***************************************************************************)
EXTENDS Integers, FiniteSets

CONSTANTS
    Jobs,          \* rows of the table, one per dedup key
    NoJob,         \* "no job is being handled"
    Recurring,     \* the job types that are registered with an interval
    Interval,      \* Interval[j]: the interval of recurring job j
    Workers,       \* the processes that poll the table
    HandlerSets,   \* the sets of job types a process may have registered
    MaxAttempts,   \* column max_attempts
    LeaseMs,       \* lease_ms of the worker
    RetryBase,     \* the first retry delay
    RetryCap,      \* the largest retry delay
    Limit,         \* LIMIT of one tick
    MayOverrun,    \* may a batch outlive the lease of its jobs?
    MaxClock,      \* bound on the clock
    MaxCrashes     \* bound on the number of crashes

ASSUME JobsAssumption ==
    /\ NoJob \notin Jobs \cup Workers
    /\ Recurring \subseteq Jobs
    /\ Interval \in [Recurring -> Nat]
    /\ HandlerSets \subseteq SUBSET Jobs

ASSUME BoundsAssumption ==
    /\ MaxAttempts \in Nat \ {0}
    /\ LeaseMs \in Nat \ {0}
    /\ RetryBase \in Nat
    /\ RetryCap \in Nat
    /\ Limit \in Nat
    /\ MayOverrun \in BOOLEAN
    /\ MaxClock \in Nat
    /\ MaxCrashes \in Nat

VARIABLES
    clock,
    status, due, attempts, lease, error,              \* the table
    pc, handlers, todo, tick, selected, rank, batch, tried, current, retryAt,
    crashes

rows == <<status, due, attempts, lease, error>>
vars == <<clock, rows, pc, handlers, todo, tick, selected, rank, batch, tried,
          current, retryAt, crashes>>

Statuses == {"absent", "pending", "running", "done", "dead_letter"}
Errors == {"none", "missing_handler", "other"}
Places == {"down", "booting", "inserting", "reviving", "idle", "leasing",
           "dispatch", "handling", "requeue", "bury"}

\* The places of run_due: the process has read the clock and not returned.
Busy == {"leasing", "dispatch", "handling", "requeue", "bury"}

TypeOK ==
    /\ clock \in Nat
    /\ status \in [Jobs -> Statuses]
    /\ due \in [Jobs -> Int]
    /\ attempts \in [Jobs -> Nat]
    /\ lease \in [Jobs -> Nat]
    /\ error \in [Jobs -> Errors]
    /\ pc \in [Workers -> Places]
    /\ handlers \in [Workers -> SUBSET Jobs]
    /\ todo \in [Workers -> SUBSET Jobs]
    /\ tick \in [Workers -> Nat]
    /\ selected \in [Workers -> SUBSET Jobs]
    /\ rank \in [Workers -> [Jobs -> Int]]
    /\ batch \in [Workers -> SUBSET Jobs]
    /\ tried \in [Workers -> [Jobs -> Nat]]
    /\ current \in [Workers -> Jobs \cup {NoJob}]
    /\ retryAt \in [Workers -> Int]
    /\ crashes \in Nat

Init ==
    /\ clock = 0
    /\ status = [j \in Jobs |-> "absent"]
    /\ due = [j \in Jobs |-> 0]
    /\ attempts = [j \in Jobs |-> 0]
    /\ lease = [j \in Jobs |-> 0]
    /\ error = [j \in Jobs |-> "none"]
    /\ pc = [w \in Workers |-> "down"]
    /\ handlers = [w \in Workers |-> {}]
    /\ todo = [w \in Workers |-> {}]
    /\ tick = [w \in Workers |-> 0]
    /\ selected = [w \in Workers |-> {}]
    /\ rank = [w \in Workers |-> [j \in Jobs |-> 0]]
    /\ batch = [w \in Workers |-> {}]
    /\ tried = [w \in Workers |-> [j \in Jobs |-> 0]]
    /\ current = [w \in Workers |-> NoJob]
    /\ retryAt = [w \in Workers |-> 0]
    /\ crashes = 0

Lesser(a, b) == IF a <= b THEN a ELSE b

(***************************************************************************)
(* Start-up: bootstrap looks every recurring job up by its dedup key,      *)
(* inserts it when absent and revives it when it died for want of a        *)
(* handler.  The look-up and the write are separate statements.            *)
(***************************************************************************)
Boot(w) ==
    /\ pc[w] = "down"
    /\ \E registered \in HandlerSets :
        /\ handlers' = [handlers EXCEPT ![w] = registered]
        /\ todo' = [todo EXCEPT ![w] = registered \cap Recurring]
    /\ pc' = [pc EXCEPT ![w] = "booting"]
    /\ tick' = [tick EXCEPT ![w] = clock]
    /\ UNCHANGED <<clock, rows, selected, rank, batch, tried, current, retryAt,
                   crashes>>

BootFind(w, j) ==
    /\ pc[w] = "booting"
    /\ j \in todo[w]
    /\ IF status[j] \in {"absent", "dead_letter"}
         THEN /\ pc' = [pc EXCEPT ![w] = IF status[j] = "absent"
                                           THEN "inserting" ELSE "reviving"]
              /\ current' = [current EXCEPT ![w] = j]
              /\ UNCHANGED todo
         ELSE /\ todo' = [todo EXCEPT ![w] = @ \ {j}]
              /\ UNCHANGED <<pc, current>>
    /\ UNCHANGED <<clock, rows, handlers, tick, selected, rank, batch, tried,
                   retryAt, crashes>>

BootNext(w) ==
    /\ pc' = [pc EXCEPT ![w] = "booting"]
    /\ todo' = [todo EXCEPT ![w] = @ \ {current[w]}]
    /\ current' = [current EXCEPT ![w] = NoJob]

\* Mutant of FreshRow: the attempt count survives a success.
FreshRowKeepsAttempts(j, dueAt) ==
    /\ status' = [status EXCEPT ![j] = "pending"]
    /\ due' = [due EXCEPT ![j] = dueAt]
    /\ lease' = [lease EXCEPT ![j] = 0]
    /\ error' = [error EXCEPT ![j] = "none"]
    /\ UNCHANGED attempts

\* The row as INSERT creates it, and as the revival and reschedule reset it.
FreshRow(j, dueAt) ==
    /\ status' = [status EXCEPT ![j] = "pending"]
    /\ due' = [due EXCEPT ![j] = dueAt]
    /\ attempts' = [attempts EXCEPT ![j] = 0]
    /\ lease' = [lease EXCEPT ![j] = 0]
    /\ error' = [error EXCEPT ![j] = "none"]

BootInsert(w) ==
    /\ pc[w] = "inserting"
    /\ status[current[w]] = "absent"
    /\ FreshRow(current[w], tick[w])
    /\ BootNext(w)
    /\ UNCHANGED <<clock, handlers, tick, selected, rank, batch, tried, retryAt,
                   crashes>>

\* A process that another one overtook between look-up and INSERT runs into
\* the unique index on dedup_key; the IntegrityError ends its start-up.
BootInsertConflict(w) ==
    /\ pc[w] = "inserting"
    /\ status[current[w]] # "absent"
    /\ pc' = [pc EXCEPT ![w] = "down"]
    /\ handlers' = [handlers EXCEPT ![w] = {}]
    /\ todo' = [todo EXCEPT ![w] = {}]
    /\ tick' = [tick EXCEPT ![w] = 0]
    /\ current' = [current EXCEPT ![w] = NoJob]
    /\ UNCHANGED <<clock, rows, selected, rank, batch, tried, retryAt, crashes>>

\* Mutant of Revivable: UPDATE ... WHERE id = ?
RevivableAlways(j) == TRUE

\* The WHERE clause of revive_missing_handler_dead_letter.
Revivable(j) == status[j] = "dead_letter" /\ error[j] = "missing_handler"

BootRevive(w) ==
    /\ pc[w] = "reviving"
    /\ IF Revivable(current[w])
         THEN FreshRow(current[w], tick[w])
         ELSE UNCHANGED rows
    /\ BootNext(w)
    /\ UNCHANGED <<clock, handlers, tick, selected, rank, batch, tried, retryAt,
                   crashes>>

BootDone(w) ==
    /\ pc[w] = "booting"
    /\ todo[w] = {}
    /\ pc' = [pc EXCEPT ![w] = "idle"]
    /\ tick' = [tick EXCEPT ![w] = 0]
    /\ UNCHANGED <<clock, rows, handlers, todo, selected, rank, batch, tried,
                   current, retryAt, crashes>>

\* A one-shot job handed to the repository by a live process.
Enqueue(j) ==
    /\ j \notin Recurring
    /\ status[j] = "absent"
    /\ \E w \in Workers : pc[w] # "down"
    /\ FreshRow(j, clock)
    /\ UNCHANGED <<clock, pc, handlers, todo, tick, selected, rank, batch, tried,
                   current, retryAt, crashes>>

\* A user event or a finished stage pulls a pending job forward.
Expedite(j) ==
    /\ status[j] = "pending"
    /\ \E w \in Workers : pc[w] # "down"
    /\ due' = [due EXCEPT ![j] = Lesser(@, clock)]
    /\ UNCHANGED <<clock, status, attempts, lease, error, pc, handlers, todo,
                   tick, selected, rank, batch, tried, current, retryAt, crashes>>

(***************************************************************************)
(* One tick: run_due leases a batch and then runs it job by job.           *)
(***************************************************************************)
LeasablePendingOnly(j, now) == status[j] = "pending" /\ due[j] <= now

Leasable(j, now) ==
    \/ /\ status[j] = "pending"
       /\ due[j] <= now
    \/ /\ status[j] = "running"
       /\ lease[j] <= now

\* Mutant of Eligible: the attempt limit is forgotten.
EligibleForEver(now) == {j \in Jobs : Leasable(j, now)}

Eligible(now) == {j \in Jobs : Leasable(j, now) /\ attempts[j] < MaxAttempts}

\* The SELECT of lease_due: the earliest due rows, at most Limit of them.
FirstDue(S) ==
    {T \in SUBSET S :
        /\ Cardinality(T) = Lesser(Limit, Cardinality(S))
        /\ \A j \in T, k \in S \ T : due[j] <= due[k]}

LeaseSelect(w) ==
    /\ pc[w] = "idle"
    /\ \E T \in FirstDue(Eligible(clock)) :
        /\ selected' = [selected EXCEPT ![w] = T]
        /\ rank' = [rank EXCEPT ![w] = [j \in Jobs |-> IF j \in T THEN due[j] ELSE 0]]
    /\ pc' = [pc EXCEPT ![w] = "leasing"]
    /\ tick' = [tick EXCEPT ![w] = clock]
    /\ UNCHANGED <<clock, rows, handlers, todo, batch, tried, current, retryAt,
                   crashes>>

Earliest(w, S) == {j \in S : \A k \in S : rank[w][j] <= rank[w][k]}

\* The UPDATE of lease_due: it repeats the time conditions of the SELECT, not
\* its condition on attempt_count.
LeaseUpdate(w, j) ==
    /\ pc[w] = "leasing"
    /\ j \in Earliest(w, selected[w])
    /\ selected' = [selected EXCEPT ![w] = @ \ {j}]
    /\ IF Leasable(j, tick[w])
         THEN /\ status' = [status EXCEPT ![j] = "running"]
              /\ lease' = [lease EXCEPT ![j] = tick[w] + LeaseMs]
              /\ attempts' = [attempts EXCEPT ![j] = @ + 1]
              /\ batch' = [batch EXCEPT ![w] = @ \cup {j}]
              /\ tried' = [tried EXCEPT ![w][j] = attempts[j] + 1]
         ELSE UNCHANGED <<status, lease, attempts, batch, tried>>
    /\ UNCHANGED <<clock, due, error, pc, handlers, todo, tick, rank, current,
                   retryAt, crashes>>

LeaseDone(w) ==
    /\ pc[w] = "leasing"
    /\ selected[w] = {}
    /\ pc' = [pc EXCEPT ![w] = "dispatch"]
    /\ UNCHANGED <<clock, rows, handlers, todo, tick, selected, rank, batch,
                   tried, current, retryAt, crashes>>

Dispatch(w, j) ==
    /\ pc[w] = "dispatch"
    /\ j \in Earliest(w, batch[w])
    /\ current' = [current EXCEPT ![w] = j]
    /\ pc' = [pc EXCEPT ![w] = "handling"]
    /\ UNCHANGED <<clock, rows, handlers, todo, tick, selected, rank, batch,
                   tried, retryAt, crashes>>

\* The process forgets the job it has settled and goes on with its batch.
NextInBatch(w) ==
    /\ pc' = [pc EXCEPT ![w] = "dispatch"]
    /\ batch' = [batch EXCEPT ![w] = @ \ {current[w]}]
    /\ current' = [current EXCEPT ![w] = NoJob]
    /\ tried' = [tried EXCEPT ![w][current[w]] = 0]

\* The handler returned: reschedule from the start of the tick.
Reschedule(w) ==
    /\ pc[w] = "handling"
    /\ current[w] \in handlers[w] \cap Recurring
    /\ FreshRow(current[w], tick[w] + Interval[current[w]])
    /\ NextInBatch(w)
    /\ UNCHANGED <<clock, handlers, todo, tick, selected, rank, retryAt, crashes>>

\* Mutant of Done: a word that is not a JobStatus.
DoneMisspelt == "completed"

Done == "done"

Complete(w) ==
    /\ pc[w] = "handling"
    /\ current[w] \in handlers[w] \ Recurring
    /\ status' = [status EXCEPT ![current[w]] = Done]
    /\ lease' = [lease EXCEPT ![current[w]] = 0]
    /\ NextInBatch(w)
    /\ UNCHANGED <<clock, due, attempts, error, handlers, todo, tick, selected,
                   rank, retryAt, crashes>>

Terminal(n) == n >= MaxAttempts

RetryDelay(n) == Lesser(RetryCap, RetryBase * 2 ^ (IF n = 0 THEN 0 ELSE n - 1))

\* The handler raised, or there is none: fail computes the retry time and
\* reads attempt_count of the row to see whether this was the last attempt.
FailRead(w) ==
    /\ pc[w] = "handling"
    /\ retryAt' = [retryAt EXCEPT ![w] = clock + RetryDelay(tried[w][current[w]])]
    /\ pc' = [pc EXCEPT ![w] = IF Terminal(attempts[current[w]])
                                 THEN "bury" ELSE "requeue"]
    /\ UNCHANGED <<clock, rows, handlers, todo, tick, selected, rank, batch,
                   tried, current, crashes>>

FailWrite(w) ==
    /\ pc[w] \in {"requeue", "bury"}
    /\ status' = [status EXCEPT ![current[w]] =
                    IF pc[w] = "bury" THEN "dead_letter" ELSE "pending"]
    /\ due' = [due EXCEPT ![current[w]] = retryAt[w]]
    /\ lease' = [lease EXCEPT ![current[w]] = 0]
    /\ error' = [error EXCEPT ![current[w]] =
                    IF current[w] \in handlers[w] THEN "other" ELSE "missing_handler"]
    /\ retryAt' = [retryAt EXCEPT ![w] = 0]
    /\ NextInBatch(w)
    /\ UNCHANGED <<clock, attempts, handlers, todo, tick, selected, rank, crashes>>

TickDone(w) ==
    /\ pc[w] = "dispatch"
    /\ batch[w] = {}
    /\ pc' = [pc EXCEPT ![w] = "idle"]
    /\ tick' = [tick EXCEPT ![w] = 0]
    /\ rank' = [rank EXCEPT ![w] = [j \in Jobs |-> 0]]
    /\ UNCHANGED <<clock, rows, handlers, todo, selected, batch, tried, current,
                   retryAt, crashes>>

\* The process dies, or its lifecycle task is cancelled: nothing is written,
\* so the rows of its batch stay as they are.
Crash(w) ==
    /\ pc[w] # "down"
    /\ crashes < MaxCrashes
    /\ crashes' = crashes + 1
    /\ pc' = [pc EXCEPT ![w] = "down"]
    /\ handlers' = [handlers EXCEPT ![w] = {}]
    /\ todo' = [todo EXCEPT ![w] = {}]
    /\ tick' = [tick EXCEPT ![w] = 0]
    /\ selected' = [selected EXCEPT ![w] = {}]
    /\ rank' = [rank EXCEPT ![w] = [j \in Jobs |-> 0]]
    /\ batch' = [batch EXCEPT ![w] = {}]
    /\ tried' = [tried EXCEPT ![w] = [j \in Jobs |-> 0]]
    /\ current' = [current EXCEPT ![w] = NoJob]
    /\ retryAt' = [retryAt EXCEPT ![w] = 0]
    /\ UNCHANGED <<clock, rows>>

\* Time passes.  Without MayOverrun every batch ends before its leases do.
Advance ==
    /\ clock < MaxClock
    /\ MayOverrun \/ \A w \in Workers : pc[w] \in Busy => clock + 1 < tick[w] + LeaseMs
    /\ clock' = clock + 1
    /\ UNCHANGED <<rows, pc, handlers, todo, tick, selected, rank, batch, tried,
                   current, retryAt, crashes>>

WorkerStep(w) ==
    \/ Boot(w)
    \/ \E j \in Jobs : BootFind(w, j) \/ LeaseUpdate(w, j) \/ Dispatch(w, j)
    \/ BootInsert(w) \/ BootInsertConflict(w) \/ BootRevive(w) \/ BootDone(w)
    \/ LeaseSelect(w) \/ LeaseDone(w)
    \/ Reschedule(w) \/ Complete(w) \/ FailRead(w) \/ FailWrite(w)
    \/ TickDone(w)

Next ==
    \/ \E w \in Workers : WorkerStep(w) \/ Crash(w)
    \/ \E j \in Jobs : Enqueue(j) \/ Expedite(j)
    \/ Advance

Spec == Init /\ [][Next]_vars

\* Processes keep polling, handlers return or raise, and time passes.  User
\* events do not come for ever: the bounded clock would let them all fall on
\* its last value, where an expedited job never stops being the oldest one.
FairSpec ==
    /\ Spec
    /\ \A w \in Workers : WF_vars(WorkerStep(w))
    /\ WF_vars(Advance)
    /\ <>[][\A j \in Jobs : ~Expedite(j)]_vars

-----------------------------------------------------------------------------
(***************************************************************************)
(* Properties.  Those that need it are stated for batches that end before  *)
(* the leases of their jobs (~MayOverrun): that is what a lease is for.    *)
(***************************************************************************)

\* Some process is executing j, or will when its batch comes to it.
Held(j) == \E w \in Workers : j \in batch[w]

\* No two processes execute the same job at the same time: each has it in the
\* batch that lease_due handed out and run_due has not settled.
MutualExclusion ==
    \A v, w \in Workers : v # w => batch[v] \cap batch[w] = {}

\* Settling is not fenced (reschedule, complete and fail update by id alone),
\* yet a process that is about to settle a job still holds the row's lease.
SettlesOwnLease ==
    \A w \in Workers : \A j \in batch[w] :
        status[j] = "running" /\ lease[j] = tick[w] + LeaseMs

\* The UPDATE of lease_due does not repeat the attempt limit of its SELECT,
\* yet no job is attempted more often than max_attempts.
AttemptsBounded == \A j \in Jobs : attempts[j] <= MaxAttempts

\* Leases do what they are for, although they are neither compared when a job
\* is settled nor limited when one is taken: a job is executed by the process
\* that holds its lease and by no other, and not more often than it may be.
LeasesAreKept == MutualExclusion /\ SettlesOwnLease /\ AttemptsBounded

\* A pending job has an attempt left: it is never filtered out for ever by
\* the attempt limit of lease_due.
PendingIsRunnable ==
    \A j \in Jobs : status[j] = "pending" => attempts[j] < MaxAttempts

\* A job that used up its attempts is dead-lettered or still being executed.
ExhaustedReachesDeadLetter ==
    \A j \in Jobs :
        status[j] = "running" /\ attempts[j] >= MaxAttempts
            => Held(j)

\* A job becomes a dead letter only on its last attempt; a finished job stays
\* finished, and a dead letter comes back only when what it lacked was a handler.
FinalStep(j) ==
    /\ status[j] # "dead_letter" /\ status'[j] = "dead_letter"
         => attempts[j] = MaxAttempts
    /\ status[j] = "done" => status'[j] = "done"
    /\ status[j] = "dead_letter" /\ error[j] # "missing_handler"
         => status'[j] = "dead_letter"

OutcomesAreFinal == [][\A j \in Jobs : FinalStep(j)]_vars

\* The job table implements the abstract queue.
Owner(j) ==
    IF Held(j) THEN CHOOSE w \in Workers : j \in batch[w] ELSE NoJob

QueueState(s) ==
    CASE s = "absent" -> "absent" [] s = "pending" -> "queued"
      [] s = "running" -> "owned" [] s = "done" -> "done"
      [] s = "dead_letter" -> "dead"

Queue == INSTANCE JobQueue WITH
    Nobody <- NoJob,
    state <- [j \in Jobs |-> QueueState(status[j])],
    owner <- [j \in Jobs |-> Owner(j)],
    tries <- attempts

ImplementsQueue == Queue!Spec

\* A job that falls due is taken up, also behind a full batch of other jobs.
DueJobIsLeased ==
    \A j \in Jobs :
        status[j] = "pending" /\ due[j] <= MaxClock ~> Held(j)

\* The job of a process that died is leased again once its lease is over,
\* as long as an attempt is left.
OrphanIsRecovered ==
    \A j \in Jobs :
        (/\ status[j] = "running"
         /\ attempts[j] < MaxAttempts
         /\ lease[j] <= MaxClock
         /\ ~Held(j)) ~> Held(j)

\* No job is forgotten, neither one that falls due nor one whose process died.
JobsAreTakenUp == DueJobIsLeased /\ OrphanIsRecovered
=============================================================================
