---------------------------- MODULE BackgroundProofs ----------------------------
(***************************************************************************)
(* Proofs about the work in the background: the table of jobs with the     *)
(* workers that share it, for every set of jobs and workers; and the       *)
(* offline cycle, one of these jobs, with the goal it advances, for every  *)
(* number of traces, cycles, reviews and calls, in one process or in two.  *)
(***************************************************************************)
EXTENDS LifecycleJobs, OfflineAgency, FiniteSetTheorems, TLAPS

-----------------------------------------------------------------------------
(***************************************************************************)
(* LifecycleJobs: the leases of jobs.                                      *)
(***************************************************************************)
\* The places at which a process works on one job.
AtJob == {"inserting", "reviving", "handling", "requeue", "bury"}

HasCurrent == \A w \in Workers : pc[w] \in AtJob => current[w] \in Jobs

TypeInv == TypeOK /\ HasCurrent

LEMMA Antisymmetry ==
    \A a, b \in Nat : a >= b /\ a <= b => a = b
  OBVIOUS

LEMMA LesserType ==
    ASSUME NEW a \in Int, NEW b \in Int
    PROVE  /\ Lesser(a, b) \in Int
           /\ Lesser(a, b) <= a
           /\ a \in Nat /\ b \in Nat => Lesser(a, b) \in Nat
  BY DEF Lesser

LEMMA RetryDelayType ==
    ASSUME NEW n \in Nat
    PROVE  RetryDelay(n) \in Int
  <1>1. (IF n = 0 THEN 0 ELSE n - 1) \in Nat
    OBVIOUS
  <1>2. 2 ^ (IF n = 0 THEN 0 ELSE n - 1) \in Int
    BY <1>1
  <1>3. RetryBase * 2 ^ (IF n = 0 THEN 0 ELSE n - 1) \in Int
    BY <1>2, BoundsAssumption
  <1>4. RetryCap \in Int
    BY BoundsAssumption
  <1>5. QED
    BY <1>3, <1>4, LesserType DEF RetryDelay

\* What the rows look like after FreshRow, for the type invariant.
LEMMA FreshRowType ==
    ASSUME TypeOK, NEW j, NEW t \in Int, FreshRow(j, t)
    PROVE  /\ status' \in [Jobs -> Statuses]
           /\ due' \in [Jobs -> Int]
           /\ attempts' \in [Jobs -> Nat]
           /\ lease' \in [Jobs -> Nat]
           /\ error' \in [Jobs -> Errors]
  BY DEF TypeOK, FreshRow, Statuses, Errors

LEMMA TypeStep == TypeInv /\ [Next]_vars => TypeInv'
  <1> SUFFICES ASSUME TypeInv, [Next]_vars PROVE TypeInv'
    OBVIOUS
  <1> USE DEF TypeInv, HasCurrent, AtJob, TypeOK, Places
  <1>1. ASSUME NEW w \in Workers, Boot(w) PROVE TypeInv'
    BY <1>1, JobsAssumption DEF Boot, rows
  <1>2. ASSUME NEW w \in Workers, NEW j \in Jobs, BootFind(w, j) PROVE TypeInv'
    <2>1. todo[w] \ {j} \in SUBSET Jobs
      OBVIOUS
    <2>2. CASE status[j] \in {"absent", "dead_letter"}
      <3>1. current' = [current EXCEPT ![w] = j] /\ todo' = todo
        BY <1>2, <2>2 DEF BootFind
      <3>2. pc' \in [Workers -> Places]
        BY <1>2, <2>2 DEF BootFind
      <3>3. QED
        BY <1>2, <3>1, <3>2 DEF BootFind, rows
    <2>3. CASE status[j] \notin {"absent", "dead_letter"}
      BY <1>2, <2>1, <2>3 DEF BootFind, rows
    <2>4. QED
      BY <2>2, <2>3
  <1>3. ASSUME NEW w \in Workers, BootInsert(w) PROVE TypeInv'
    <2>1. tick[w] \in Int
      OBVIOUS
    <2>2. QED
      BY <1>3, <2>1, FreshRowType DEF BootInsert, BootNext
  <1>4. ASSUME NEW w \in Workers, BootInsertConflict(w) PROVE TypeInv'
    BY <1>4 DEF BootInsertConflict, rows
  <1>5. ASSUME NEW w \in Workers, BootRevive(w) PROVE TypeInv'
    <2>1. tick[w] \in Int
      OBVIOUS
    <2>2. CASE Revivable(current[w])
      BY <1>5, <2>1, <2>2, FreshRowType DEF BootRevive, BootNext
    <2>3. CASE ~Revivable(current[w])
      BY <1>5, <2>3 DEF BootRevive, BootNext, rows
    <2>4. QED
      BY <2>2, <2>3
  <1>6. ASSUME NEW w \in Workers, BootDone(w) PROVE TypeInv'
    BY <1>6 DEF BootDone, rows
  <1>7. ASSUME NEW w \in Workers, LeaseSelect(w) PROVE TypeInv'
    <2>1. PICK T \in FirstDue(Eligible(clock)) :
            /\ selected' = [selected EXCEPT ![w] = T]
            /\ rank' = [rank EXCEPT ![w] = [j \in Jobs |-> IF j \in T THEN due[j] ELSE 0]]
      BY <1>7 DEF LeaseSelect
    <2>2. T \subseteq Jobs
      BY DEF FirstDue, Eligible
    <2>3. [j \in Jobs |-> IF j \in T THEN due[j] ELSE 0] \in [Jobs -> Int]
      OBVIOUS
    <2>4. QED
      BY <1>7, <2>1, <2>2, <2>3 DEF LeaseSelect, rows
  <1>8. ASSUME NEW w \in Workers, NEW j \in Jobs, LeaseUpdate(w, j) PROVE TypeInv'
    <2>1. CASE Leasable(j, tick[w])
      <3>1. /\ tick[w] + LeaseMs \in Nat
            /\ attempts[j] + 1 \in Nat
            /\ "running" \in Statuses
        BY BoundsAssumption DEF Statuses
      <3>2. [tried[w] EXCEPT ![j] = attempts[j] + 1] \in [Jobs -> Nat]
        BY <3>1
      <3>3. tried' \in [Workers -> [Jobs -> Nat]]
        BY <1>8, <2>1, <3>2 DEF LeaseUpdate
      <3>4. batch[w] \cup {j} \in SUBSET Jobs
        OBVIOUS
      <3>5. batch' \in [Workers -> SUBSET Jobs]
        BY <1>8, <2>1, <3>4 DEF LeaseUpdate
      <3>6. /\ status' \in [Jobs -> Statuses]
            /\ lease' \in [Jobs -> Nat]
            /\ attempts' \in [Jobs -> Nat]
        <4>1. /\ status' = [status EXCEPT ![j] = "running"]
              /\ lease' = [lease EXCEPT ![j] = tick[w] + LeaseMs]
              /\ attempts' = [attempts EXCEPT ![j] = attempts[j] + 1]
          BY <1>8, <2>1 DEF LeaseUpdate
        <4>2. QED
          BY <3>1, <4>1
      <3>7. selected' \in [Workers -> SUBSET Jobs]
        BY <1>8 DEF LeaseUpdate
      <3>8. UNCHANGED <<clock, due, error, pc, handlers, todo, tick, rank, current,
                        retryAt, crashes>>
        BY <1>8 DEF LeaseUpdate
      <3>9. TypeOK'
        BY <3>3, <3>5, <3>6, <3>7, <3>8
      <3>10. QED
        BY <3>8, <3>9
    <2>2. CASE ~Leasable(j, tick[w])
      BY <1>8, <2>2 DEF LeaseUpdate
    <2>3. QED
      BY <2>1, <2>2
  <1>9. ASSUME NEW w \in Workers, LeaseDone(w) PROVE TypeInv'
    BY <1>9 DEF LeaseDone, rows
  <1>10. ASSUME NEW w \in Workers, NEW j \in Jobs, Dispatch(w, j) PROVE TypeInv'
    BY <1>10 DEF Dispatch, rows
  <1>11. ASSUME NEW w \in Workers, Reschedule(w) PROVE TypeInv'
    <2>1. tick[w] + Interval[current[w]] \in Int
      BY <1>11, JobsAssumption DEF Reschedule
    <2>2. QED
      BY <1>11, <2>1, FreshRowType DEF Reschedule, NextInBatch
  <1>12. ASSUME NEW w \in Workers, Complete(w) PROVE TypeInv'
    BY <1>12 DEF Complete, Done, NextInBatch, Statuses
  <1>13. ASSUME NEW w \in Workers, FailRead(w) PROVE TypeInv'
    <2>1. RetryDelay(tried[w][current[w]]) \in Int
      BY <1>13, RetryDelayType DEF FailRead
    <2>2. QED
      BY <1>13, <2>1 DEF FailRead, rows
  <1>14. ASSUME NEW w \in Workers, FailWrite(w) PROVE TypeInv'
    BY <1>14 DEF FailWrite, NextInBatch, Statuses, Errors
  <1>15. ASSUME NEW w \in Workers, TickDone(w) PROVE TypeInv'
    BY <1>15 DEF TickDone, rows
  <1>16. ASSUME NEW w \in Workers, Crash(w) PROVE TypeInv'
    BY <1>16 DEF Crash, rows
  <1>17. ASSUME NEW j \in Jobs, Enqueue(j) PROVE TypeInv'
    <2>1. clock \in Int
      OBVIOUS
    <2>2. QED
      BY <1>17, <2>1, FreshRowType DEF Enqueue
  <1>18. ASSUME NEW j \in Jobs, Expedite(j) PROVE TypeInv'
    <2>1. Lesser(due[j], clock) \in Int
      BY LesserType
    <2>2. QED
      BY <1>18, <2>1 DEF Expedite
  <1>19. CASE Advance
    BY <1>19 DEF Advance, rows
  <1>20. CASE UNCHANGED vars
    BY <1>20 DEF vars, rows
  <1>21. QED
    BY <1>1, <1>2, <1>3, <1>4, <1>5, <1>6, <1>7, <1>8, <1>9, <1>10, <1>11,
       <1>12, <1>13, <1>14, <1>15, <1>16, <1>17, <1>18, <1>19, <1>20
       DEF Next, WorkerStep

LEMMA TypeInvariance == Spec => []TypeInv
  <1>1. Init => TypeInv
    BY DEF Init, TypeInv, TypeOK, HasCurrent, AtJob, Statuses, Errors, Places
  <1>2. QED
    BY <1>1, TypeStep, PTL DEF Spec

\* Every column of the job table and every local variable of a process keeps
\* its type, whatever the processes do to each other's rows.
THEOREM TypeCorrect == Spec => []TypeOK
  BY TypeInvariance, PTL DEF TypeInv

-----------------------------------------------------------------------------
(***************************************************************************)
(* Leases.  While every batch ends before its leases do, a row that a      *)
(* process has in its batch carries that process's unexpired lease, hence  *)
(* no other process can lease it, and the row a process settles is the one *)
(* it leased.  This is why reschedule, complete and fail may update by id. *)
(***************************************************************************)

\* A process between reading the clock and the end of its tick is in time.
Timely ==
    \A w \in Workers : pc[w] \in Busy =>
        tick[w] <= clock /\ clock < tick[w] + LeaseMs

\* Local variables are empty where run_due does not use them.
Tidy ==
    \A w \in Workers :
        /\ pc[w] \notin Busy => batch[w] = {}
        /\ pc[w] # "leasing" => selected[w] = {}
        /\ pc[w] \in {"handling", "requeue", "bury"} => current[w] \in batch[w]

\* A selected row that the UPDATE would still lease has an attempt left.
SelectionStands ==
    \A w \in Workers : \A j \in selected[w] :
        /\ j \notin batch[w]
        /\ Leasable(j, tick[w]) => attempts[j] < MaxAttempts

\* What fail has read of the attempt count still holds when it writes.
VerdictStands ==
    \A w \in Workers :
        /\ pc[w] = "bury" => attempts[current[w]] >= MaxAttempts
        /\ pc[w] = "requeue" => attempts[current[w]] < MaxAttempts

LeaseInv ==
    /\ Timely
    /\ Tidy
    /\ SelectionStands
    /\ VerdictStands
    /\ MutualExclusion
    /\ SettlesOwnLease
    /\ AttemptsBounded
    /\ PendingIsRunnable

LEMMA LeaseInit == Init => LeaseInv
  BY BoundsAssumption
     DEF Init, LeaseInv, Timely, Tidy, SelectionStands, VerdictStands,
         MutualExclusion, SettlesOwnLease, AttemptsBounded, PendingIsRunnable,
         Busy

\* A row that can be leased is in nobody's batch.
LEMMA LeasableIsFree ==
    ASSUME TypeInv, LeaseInv, NEW w \in Workers, NEW j \in Jobs,
           pc[w] = "leasing", Leasable(j, tick[w])
    PROVE  ~Held(j)
  <1> USE BoundsAssumption DEF TypeInv, TypeOK, LeaseInv
  <1>1. SUFFICES ASSUME NEW v \in Workers, j \in batch[v] PROVE FALSE
    BY DEF Held
  <1>2. /\ status[j] = "running"
        /\ lease[j] = tick[v] + LeaseMs
        /\ pc[v] \in Busy
    BY <1>1 DEF SettlesOwnLease, Tidy
  <1>3. clock < lease[j] /\ tick[w] <= clock
    BY <1>2 DEF Timely, Busy
  <1>4. QED
    BY <1>2, <1>3 DEF Leasable

LEMMA LeaseStep ==
    ASSUME ~MayOverrun, TypeInv, TypeInv', LeaseInv, [Next]_vars
    PROVE  LeaseInv'
  <1> USE BoundsAssumption
  <1> USE DEF LeaseInv, Timely, Tidy, SelectionStands, VerdictStands,
              MutualExclusion, SettlesOwnLease, AttemptsBounded,
              PendingIsRunnable, Leasable, TypeInv, TypeOK, HasCurrent, AtJob,
              Places, Busy
  <1>1. ASSUME NEW w \in Workers, Boot(w) PROVE LeaseInv'
    BY <1>1 DEF Boot, rows
  <1>2. ASSUME NEW w \in Workers, NEW j \in Jobs, BootFind(w, j) PROVE LeaseInv'
    <2>1. UNCHANGED <<clock, rows, tick, selected, batch>>
      BY <1>2 DEF BootFind
    <2>2. /\ pc[w] = "booting"
          /\ pc'[w] \in {"booting", "inserting", "reviving"}
          /\ \A v \in Workers \ {w} : pc'[v] = pc[v] /\ current'[v] = current[v]
      BY <1>2 DEF BootFind
    <2>3. QED
      BY <2>1, <2>2 DEF rows
  <1>3. ASSUME NEW w \in Workers, BootInsert(w) PROVE LeaseInv'
    BY <1>3 DEF BootInsert, BootNext, FreshRow
  <1>4. ASSUME NEW w \in Workers, BootInsertConflict(w) PROVE LeaseInv'
    BY <1>4 DEF BootInsertConflict, rows
  <1>5. ASSUME NEW w \in Workers, BootRevive(w) PROVE LeaseInv'
    <2>2. CASE Revivable(current[w])
      <3>1. current[w] \in Jobs /\ status[current[w]] = "dead_letter"
        BY <1>5, <2>2 DEF BootRevive, Revivable
      <3>2. \A v \in Workers : current[w] \notin batch[v]
        BY <3>1
      <3>3. FreshRow(current[w], tick[w]) /\ BootNext(w) /\ pc[w] = "reviving"
        BY <1>5, <2>2 DEF BootRevive
      <3>4. UNCHANGED <<clock, tick, selected, batch>>
        BY <1>5 DEF BootRevive
      <3>5. QED
        BY <3>1, <3>2, <3>3, <3>4 DEF BootNext, FreshRow
    <2>3. CASE ~Revivable(current[w])
      BY <1>5, <2>3 DEF BootRevive, BootNext, rows
    <2>4. QED
      BY <2>2, <2>3
  <1>6. ASSUME NEW w \in Workers, BootDone(w) PROVE LeaseInv'
    BY <1>6 DEF BootDone, rows
  <1>7. ASSUME NEW w \in Workers, LeaseSelect(w) PROVE LeaseInv'
    <2>1. PICK R \in FirstDue(Eligible(clock)) :
            selected' = [selected EXCEPT ![w] = R]
      BY <1>7 DEF LeaseSelect
    <2>2. \A j \in R : j \in Jobs /\ attempts[j] < MaxAttempts
      BY DEF FirstDue, Eligible
    <2>3. /\ pc[w] = "idle"
          /\ pc' = [pc EXCEPT ![w] = "leasing"]
          /\ tick' = [tick EXCEPT ![w] = clock]
          /\ UNCHANGED <<clock, rows, batch, current>>
      BY <1>7 DEF LeaseSelect
    <2>4. batch[w] = {} /\ clock < clock + LeaseMs
      <3>1. batch[w] = {}
        BY <2>3
      <3>2. clock \in Nat /\ LeaseMs \in Nat \ {0}
        OBVIOUS
      <3>3. clock < clock + LeaseMs
        BY <3>2
      <3>4. QED
        BY <3>1, <3>3
    <2>5. Timely'
      BY <2>3, <2>4
    <2>6. Tidy'
      BY <2>1, <2>3, <2>4
    <2>7. SelectionStands'
      BY <2>1, <2>2, <2>3, <2>4 DEF rows
    <2>8. VerdictStands' /\ MutualExclusion' /\ AttemptsBounded' /\ PendingIsRunnable'
      BY <2>3 DEF rows
    <2>9. SettlesOwnLease'
      BY <2>3, <2>4 DEF rows
    <2>10. QED
      BY <2>5, <2>6, <2>7, <2>8, <2>9
  <1>8. ASSUME NEW w \in Workers, NEW j \in Jobs, LeaseUpdate(w, j) PROVE LeaseInv'
    <2>1. CASE Leasable(j, tick[w])
      <3>1. /\ pc[w] = "leasing"
            /\ j \in selected[w]
        BY <1>8 DEF LeaseUpdate, Earliest
      <3>2. /\ selected' = [selected EXCEPT ![w] = selected[w] \ {j}]
            /\ status' = [status EXCEPT ![j] = "running"]
            /\ lease' = [lease EXCEPT ![j] = tick[w] + LeaseMs]
            /\ attempts' = [attempts EXCEPT ![j] = attempts[j] + 1]
            /\ batch' = [batch EXCEPT ![w] = batch[w] \cup {j}]
            /\ UNCHANGED <<clock, due, pc, tick, current>>
        BY <1>8, <2>1 DEF LeaseUpdate
      <3>3. attempts[j] < MaxAttempts
        BY <2>1, <3>1
      <3>4. \A v \in Workers : j \notin batch[v]
        BY <2>1, <3>1, LeasableIsFree DEF Held
      <3>5. \A v \in Workers : batch[v] \subseteq batch'[v]
        BY <3>2
      <3>6. Timely' /\ Tidy'
        BY <3>1, <3>2, <3>5
      <3>7. MutualExclusion' /\ SettlesOwnLease'
        BY <3>2, <3>4
      <3>8. AttemptsBounded' /\ PendingIsRunnable'
        BY <3>2, <3>3
      <3>9. VerdictStands'
        BY <3>2, <3>4
      <3>10. SelectionStands'
        BY <3>1, <3>2, <3>4
      <3>11. QED
        BY <3>6, <3>7, <3>8, <3>9, <3>10
    <2>2. CASE ~Leasable(j, tick[w])
      BY <1>8, <2>2 DEF LeaseUpdate, Earliest
    <2>3. QED
      BY <2>1, <2>2
  <1>9. ASSUME NEW w \in Workers, LeaseDone(w) PROVE LeaseInv'
    BY <1>9 DEF LeaseDone, rows
  <1>10. ASSUME NEW w \in Workers, NEW j \in Jobs, Dispatch(w, j) PROVE LeaseInv'
    BY <1>10 DEF Dispatch, Earliest, rows
  <1>11. ASSUME NEW w \in Workers, Reschedule(w) PROVE LeaseInv'
    BY <1>11 DEF Reschedule, NextInBatch, FreshRow
  <1>12. ASSUME NEW w \in Workers, Complete(w) PROVE LeaseInv'
    BY <1>12 DEF Complete, Done, NextInBatch
  <1>13. ASSUME NEW w \in Workers, FailRead(w) PROVE LeaseInv'
    BY <1>13 DEF FailRead, Terminal, rows
  <1>14. ASSUME NEW w \in Workers, FailWrite(w) PROVE LeaseInv'
    BY <1>14 DEF FailWrite, NextInBatch
  <1>15. ASSUME NEW w \in Workers, TickDone(w) PROVE LeaseInv'
    BY <1>15 DEF TickDone, rows
  <1>16. ASSUME NEW w \in Workers, Crash(w) PROVE LeaseInv'
    BY <1>16 DEF Crash, rows
  <1>17. ASSUME NEW j \in Jobs, Enqueue(j) PROVE LeaseInv'
    BY <1>17 DEF Enqueue, FreshRow
  <1>18. ASSUME NEW j \in Jobs, Expedite(j) PROVE LeaseInv'
    BY <1>18, LesserType DEF Expedite
  <1>19. CASE Advance
    BY <1>19 DEF Advance, rows
  <1>20. CASE UNCHANGED vars
    BY <1>20 DEF vars, rows
  <1>21. QED
    BY <1>1, <1>2, <1>3, <1>4, <1>5, <1>6, <1>7, <1>8, <1>9, <1>10, <1>11,
       <1>12, <1>13, <1>14, <1>15, <1>16, <1>17, <1>18, <1>19, <1>20
       DEF Next, WorkerStep

\* While batches end before their leases do, no two processes ever have the
\* same job in hand, a process still holds the lease of the row it settles, no
\* job is attempted more often than max_attempts and every pending job can be
\* leased again.
THEOREM LeasesAreExclusive ==
    ASSUME ~MayOverrun
    PROVE  Spec => [](LeasesAreKept /\ PendingIsRunnable)
  <1>1. Init => LeaseInv
    BY LeaseInit
  <1>2. TypeInv /\ TypeInv' /\ LeaseInv /\ [Next]_vars => LeaseInv'
    BY LeaseStep
  <1>3. LeaseInv => LeasesAreKept /\ PendingIsRunnable
    BY DEF LeaseInv, LeasesAreKept
  <1>4. QED
    BY <1>1, <1>2, <1>3, TypeInvariance, PTL DEF Spec

-----------------------------------------------------------------------------
(***************************************************************************)
(* Outcomes and refinement.  Both rest on LeaseInv: the process that       *)
(* settles a row is its only holder.                                       *)
(***************************************************************************)

LEMMA FinalOutcomes ==
    ASSUME TypeInv, LeaseInv, [Next]_vars
    PROVE  [\A j \in Jobs : FinalStep(j)]_vars
  <1> SUFFICES ASSUME NEW k \in Jobs, Next PROVE FinalStep(k)
    BY DEF FinalStep, vars, rows
  <1> USE DEF FinalStep, TypeInv, TypeOK, HasCurrent, AtJob, LeaseInv, Tidy
  <1>1. CASE UNCHANGED rows
    BY <1>1 DEF rows
  <1>2. ASSUME NEW w \in Workers, BootInsert(w) PROVE FinalStep(k)
    BY <1>2 DEF BootInsert, FreshRow
  <1>3. ASSUME NEW w \in Workers, BootRevive(w) PROVE FinalStep(k)
    BY <1>3 DEF BootRevive, Revivable, FreshRow, rows
  <1>4. ASSUME NEW w \in Workers, NEW j \in Jobs, LeaseUpdate(w, j) PROVE FinalStep(k)
    BY <1>4 DEF LeaseUpdate, Leasable
  <1>5. ASSUME NEW w \in Workers, Reschedule(w) PROVE FinalStep(k)
    BY <1>5 DEF Reschedule, FreshRow, SettlesOwnLease
  <1>6. ASSUME NEW w \in Workers, Complete(w) PROVE FinalStep(k)
    BY <1>6 DEF Complete, Done, SettlesOwnLease
  <1>7. ASSUME NEW w \in Workers, FailWrite(w) PROVE FinalStep(k)
    <2>1. /\ current[w] \in Jobs
          /\ status[current[w]] = "running"
          /\ pc[w] = "bury" => attempts[current[w]] >= MaxAttempts
          /\ attempts[current[w]] <= MaxAttempts
      <3>1. pc[w] \in {"requeue", "bury"}
        BY <1>7 DEF FailWrite
      <3>2. current[w] \in batch[w] /\ current[w] \in Jobs
        BY <3>1
      <3>3. QED
        BY <3>1, <3>2 DEF SettlesOwnLease, VerdictStands, AttemptsBounded
    <2>2. status' = [status EXCEPT ![current[w]] =
                       IF pc[w] = "bury" THEN "dead_letter" ELSE "pending"]
      BY <1>7 DEF FailWrite
    <2>3. CASE k = current[w]
      <3>1. status'[k] = IF pc[w] = "bury" THEN "dead_letter" ELSE "pending"
        BY <2>2, <2>3
      <3>2. pc[w] = "bury" => attempts[k] = MaxAttempts
        <4>1. SUFFICES ASSUME pc[w] = "bury" PROVE attempts[k] = MaxAttempts
          OBVIOUS
        <4>2. attempts[k] \in Nat /\ MaxAttempts \in Nat
          BY BoundsAssumption
        <4>3. attempts[k] >= MaxAttempts /\ attempts[k] <= MaxAttempts
          BY <2>1, <2>3, <4>1
        <4>4. QED
          BY <4>2, <4>3, Antisymmetry
      <3>3. QED
        BY <2>1, <2>3, <3>1, <3>2
    <2>4. CASE k # current[w]
      BY <2>2, <2>4
    <2>5. QED
      BY <2>3, <2>4
  <1>8. ASSUME NEW j \in Jobs, Enqueue(j) PROVE FinalStep(k)
    BY <1>8 DEF Enqueue, FreshRow
  <1>9. ASSUME NEW j \in Jobs, Expedite(j) PROVE FinalStep(k)
    BY <1>9 DEF Expedite
  <1>10. QED
    BY <1>1, <1>2, <1>3, <1>4, <1>5, <1>6, <1>7, <1>8, <1>9
       DEF Next, WorkerStep, Boot, BootFind, BootInsertConflict, BootDone,
           LeaseSelect, LeaseDone, Dispatch, FailRead, TickDone, Crash, Advance

\* While batches end before their leases do, a job becomes a dead letter only
\* on its last attempt, a finished job stays finished, and a dead letter comes
\* back only when what it lacked was a handler.
THEOREM OutcomesFinal ==
    ASSUME ~MayOverrun
    PROVE  Spec => OutcomesAreFinal
  <1>1. Init => LeaseInv
    BY LeaseInit
  <1>2. TypeInv /\ TypeInv' /\ LeaseInv /\ [Next]_vars => LeaseInv'
    BY LeaseStep
  <1>3. TypeInv /\ LeaseInv /\ [Next]_vars => [\A j \in Jobs : FinalStep(j)]_vars
    BY FinalOutcomes
  <1>4. QED
    BY <1>1, <1>2, <1>3, TypeInvariance, PTL DEF Spec, OutcomesAreFinal

LEMMA OwnerIsHolder ==
    ASSUME TypeOK, MutualExclusion, NEW j \in Jobs
    PROVE  /\ \A w \in Workers : j \in batch[w] => Owner(j) = w
           /\ ~Held(j) => Owner(j) = NoJob
           /\ \A w \in Workers : Owner(j) = w => j \in batch[w]
  <1>1. ASSUME NEW w \in Workers, j \in batch[w] PROVE Owner(j) = w
    <2>1. Held(j)
      BY <1>1 DEF Held
    <2>2. Owner(j) \in Workers /\ j \in batch[Owner(j)]
      BY <2>1 DEF Owner, Held
    <2>3. QED
      BY <1>1, <2>2 DEF MutualExclusion
  <1>2. ~Held(j) => Owner(j) = NoJob
    BY DEF Owner
  <1>3. ASSUME NEW w \in Workers, Owner(j) = w PROVE j \in batch[w]
    <2>1. Held(j)
      BY <1>2, <1>3, JobsAssumption
    <2>2. QED
      BY <1>3, <2>1 DEF Owner, Held
  <1>4. QED
    BY <1>1, <1>2, <1>3

\* When no batch changes, no owner does.
LEMMA OwnersKept ==
    ASSUME UNCHANGED batch
    PROVE  \A j \in Jobs : Owner(j)' = Owner(j)
  BY DEF Owner, Held

\* A process settles the job it is working on: that job loses its owner.
LEMMA OwnerOfSettled ==
    ASSUME TypeInv, TypeInv', LeaseInv, LeaseInv', NEW w \in Workers,
           pc[w] \in {"handling", "requeue", "bury"}, NextInBatch(w)
    PROVE  /\ current[w] \in Jobs
           /\ Owner(current[w]) = w
           /\ status[current[w]] = "running"
           /\ \A j \in Jobs :
                Owner(j)' = IF j = current[w] THEN NoJob ELSE Owner(j)
  <1> USE DEF TypeInv, TypeOK, LeaseInv
  <1>1. current[w] \in batch[w] /\ current[w] \in Jobs
    BY DEF Tidy
  <1>2. status[current[w]] = "running" /\ Owner(current[w]) = w
    BY <1>1, OwnerIsHolder DEF SettlesOwnLease
  <1>3. batch' = [batch EXCEPT ![w] = batch[w] \ {current[w]}]
    BY DEF NextInBatch
  <1>4. ASSUME NEW j \in Jobs
        PROVE  Owner(j)' = IF j = current[w] THEN NoJob ELSE Owner(j)
    <2>1. CASE j = current[w]
      <3>1. \A v \in Workers : j \notin batch'[v]
        BY <1>1, <1>3, <2>1 DEF MutualExclusion
      <3>2. QED
        BY <2>1, <3>1 DEF Owner, Held
    <2>2. CASE j # current[w]
      <3>1. \A v \in Workers : j \in batch'[v] <=> j \in batch[v]
        BY <1>3, <2>2
      <3>2. QED
        BY <2>2, <3>1 DEF Owner, Held
    <2>3. QED
      BY <2>1, <2>2
  <1>5. QED
    BY <1>1, <1>2, <1>4

LEMMA QueueStates ==
    /\ QueueState("absent") = "absent"
    /\ QueueState("pending") = "queued"
    /\ QueueState("running") = "owned"
    /\ QueueState("done") = "done"
    /\ QueueState("dead_letter") = "dead"
  BY DEF QueueState

LEMMA StateUpdate ==
    ASSUME TypeOK, NEW k \in Jobs, NEW s, status' = [status EXCEPT ![k] = s]
    PROVE  [j \in Jobs |-> QueueState(status[j])]' =
             [[j \in Jobs |-> QueueState(status[j])] EXCEPT ![k] = QueueState(s)]
  BY DEF TypeOK

LEMMA QueueStep ==
    ASSUME TypeInv, TypeInv', LeaseInv, LeaseInv', [Next]_vars
    PROVE  [Queue!Next]_(Queue!queueVars)
  <1> DEFINE state == [j \in Jobs |-> QueueState(status[j])]
             owner == [j \in Jobs |-> Owner(j)]
  <1> USE DEF TypeInv, TypeOK, HasCurrent, AtJob, Queue!queueVars
  <1>1. ASSUME UNCHANGED <<status, attempts, batch>>
        PROVE  UNCHANGED Queue!queueVars
    BY <1>1, OwnersKept
  <1>2. ASSUME NEW j \in Jobs, NEW t, status[j] = "absent", FreshRow(j, t),
               UNCHANGED batch
        PROVE  Queue!Submit(j)
    <2>1. ~Held(j)
      BY <1>2 DEF Held, LeaseInv, SettlesOwnLease
    <2>2. state' = [state EXCEPT ![j] = "queued"]
      BY <1>2, StateUpdate, QueueStates DEF FreshRow
    <2>3. owner' = [owner EXCEPT ![j] = NoJob]
      BY <1>2, <2>1, OwnersKept, OwnerIsHolder DEF LeaseInv
    <2>4. QED
      BY <1>2, <2>2, <2>3 DEF Queue!Submit, Queue!Settle, QueueState, FreshRow
  <1>3. ASSUME NEW w \in Workers, BootInsert(w) PROVE Queue!Next
    BY <1>2, <1>3 DEF BootInsert, Queue!Next
  <1>4. ASSUME NEW w \in Workers, BootRevive(w)
        PROVE  Queue!Next \/ UNCHANGED Queue!queueVars
    <2>1. CASE Revivable(current[w])
      <3> DEFINE k == current[w]
      <3>1. k \in Jobs /\ status[k] = "dead_letter" /\ FreshRow(k, tick[w])
            /\ batch' = batch
        BY <1>4, <2>1 DEF BootRevive, Revivable
      <3> HIDE DEF k
      <3>2. ~Held(k)
        BY <3>1 DEF Held, LeaseInv, SettlesOwnLease
      <3>3. state' = [state EXCEPT ![k] = "queued"]
        BY <3>1, StateUpdate, QueueStates DEF FreshRow
      <3>4. owner' = [owner EXCEPT ![k] = NoJob]
        BY <3>1, <3>2, OwnersKept, OwnerIsHolder DEF LeaseInv
      <3>5. Queue!Revive(k)
        BY <3>1, <3>3, <3>4 DEF Queue!Revive, Queue!Settle, QueueState, FreshRow
      <3>6. QED
        BY <3>1, <3>5 DEF Queue!Next
    <2>2. CASE ~Revivable(current[w])
      BY <1>1, <1>4, <2>2 DEF BootRevive, rows
    <2>3. QED
      BY <2>1, <2>2
  <1>5. ASSUME NEW w \in Workers, NEW j \in Jobs, LeaseUpdate(w, j)
        PROVE  Queue!Next \/ UNCHANGED Queue!queueVars
    <2>1. CASE Leasable(j, tick[w])
      <3>1. /\ status' = [status EXCEPT ![j] = "running"]
            /\ attempts' = [attempts EXCEPT ![j] = attempts[j] + 1]
            /\ batch' = [batch EXCEPT ![w] = batch[w] \cup {j}]
            /\ pc[w] = "leasing" /\ j \in selected[w]
        BY <1>5, <2>1 DEF LeaseUpdate, Earliest
      <3>2. ~Held(j)
        BY <2>1, <3>1, LeasableIsFree
      <3>3. attempts[j] < MaxAttempts
        BY <2>1, <3>1 DEF LeaseInv, SelectionStands
      <3>4. state' = [state EXCEPT ![j] = "owned"]
        BY <3>1, StateUpdate, QueueStates
      <3>5. ASSUME NEW k \in Jobs PROVE Owner(k)' = IF k = j THEN w ELSE Owner(k)
        <4>1. CASE k = j
          <5>1. \A v \in Workers : j \in batch'[v] <=> v = w
            BY <3>1, <3>2 DEF Held
          <5>2. QED
            BY <4>1, <5>1 DEF Owner, Held
        <4>2. CASE k # j
          <5>1. \A v \in Workers : k \in batch'[v] <=> k \in batch[v]
            BY <3>1, <4>2
          <5>2. QED
            BY <4>2, <5>1 DEF Owner, Held
        <4>3. QED
          BY <4>1, <4>2
      <3>6. owner' = [owner EXCEPT ![j] = w]
        BY <3>5
      <3>7. Owner(j) = NoJob
        BY <3>2, OwnerIsHolder DEF LeaseInv
      <3>8. state[j] = "queued" \/ (state[j] = "owned" /\ owner[j] = NoJob)
        BY <2>1, <3>7 DEF Leasable, QueueState
      <3>9. Queue!Claim(w, j)
        BY <3>1, <3>3, <3>4, <3>6, <3>8 DEF Queue!Claim
      <3>10. QED
        BY <3>9 DEF Queue!Next
    <2>2. CASE ~Leasable(j, tick[w])
      BY <1>1, <1>5, <2>2 DEF LeaseUpdate
    <2>3. QED
      BY <2>1, <2>2
  <1>6. ASSUME NEW w \in Workers,
               pc[w] \in {"handling", "requeue", "bury"}, NextInBatch(w)
        PROVE  /\ current[w] \in Jobs
               /\ owner[current[w]] = w
               /\ owner' = [owner EXCEPT ![current[w]] = NoJob]
    <2>1. /\ current[w] \in Jobs
          /\ Owner(current[w]) = w
          /\ \A j \in Jobs : Owner(j)' = IF j = current[w] THEN NoJob ELSE Owner(j)
      BY <1>6, OwnerOfSettled
    <2>2. QED
      BY <2>1
  <1>7. ASSUME NEW w \in Workers, Reschedule(w) PROVE Queue!Next
    <2>1. /\ current[w] \in Jobs
          /\ owner[current[w]] = w
          /\ owner' = [owner EXCEPT ![current[w]] = NoJob]
          /\ state' = [state EXCEPT ![current[w]] = "queued"]
      <3>1. /\ pc[w] \in {"handling", "requeue", "bury"}
            /\ NextInBatch(w)
            /\ status' = [status EXCEPT ![current[w]] = "pending"]
        BY <1>7 DEF Reschedule, FreshRow
      <3>2. current[w] \in Jobs /\ owner[current[w]] = w
            /\ owner' = [owner EXCEPT ![current[w]] = NoJob]
        BY <1>6, <3>1
      <3>3. QED
        BY <3>1, <3>2, StateUpdate, QueueStates
    <2>2. Queue!Repeat(w, current[w])
      BY <1>7, <2>1 DEF Queue!Repeat, Queue!Settle, Reschedule, FreshRow
    <2>3. QED
      BY <2>1, <2>2 DEF Queue!Next
  <1>8. ASSUME NEW w \in Workers, Complete(w) PROVE Queue!Next
    <2>1. /\ current[w] \in Jobs
          /\ owner[current[w]] = w
          /\ owner' = [owner EXCEPT ![current[w]] = NoJob]
          /\ state' = [state EXCEPT ![current[w]] = "done"]
      <3>1. /\ pc[w] \in {"handling", "requeue", "bury"}
            /\ NextInBatch(w)
            /\ status' = [status EXCEPT ![current[w]] = "done"]
        BY <1>8 DEF Complete, Done
      <3>2. current[w] \in Jobs /\ owner[current[w]] = w
            /\ owner' = [owner EXCEPT ![current[w]] = NoJob]
        BY <1>6, <3>1
      <3>3. QED
        BY <3>1, <3>2, StateUpdate, QueueStates
    <2>2. Queue!Finish(w, current[w])
      BY <1>8, <2>1 DEF Queue!Finish, Queue!Settle, Complete
    <2>3. QED
      BY <2>1, <2>2 DEF Queue!Next
  <1>9. ASSUME NEW w \in Workers, FailWrite(w) PROVE Queue!Next
    <2>1. CASE pc[w] = "bury"
      <3>1. /\ current[w] \in Jobs
            /\ owner[current[w]] = w
            /\ owner' = [owner EXCEPT ![current[w]] = NoJob]
            /\ state' = [state EXCEPT ![current[w]] = "dead"]
        <4>1. /\ pc[w] \in {"handling", "requeue", "bury"}
              /\ NextInBatch(w)
              /\ status' = [status EXCEPT ![current[w]] = "dead_letter"]
          BY <1>9, <2>1 DEF FailWrite
        <4>2. current[w] \in Jobs /\ owner[current[w]] = w
              /\ owner' = [owner EXCEPT ![current[w]] = NoJob]
          BY <1>6, <4>1
        <4>3. QED
          BY <4>1, <4>2, StateUpdate, QueueStates
      <3>2. attempts[current[w]] >= MaxAttempts /\ attempts[current[w]] <= MaxAttempts
        BY <2>1, <3>1 DEF LeaseInv, VerdictStands, AttemptsBounded
      <3>3. attempts[current[w]] = MaxAttempts
        BY <3>1, <3>2, BoundsAssumption, Antisymmetry
      <3>4. Queue!Bury(w, current[w])
        BY <1>9, <3>1, <3>3 DEF Queue!Bury, Queue!Settle, FailWrite
      <3>5. QED
        BY <3>1, <3>4 DEF Queue!Next
    <2>2. CASE pc[w] = "requeue"
      <3>1. /\ current[w] \in Jobs
            /\ owner[current[w]] = w
            /\ owner' = [owner EXCEPT ![current[w]] = NoJob]
            /\ state' = [state EXCEPT ![current[w]] = "queued"]
        <4>1. /\ pc[w] \in {"handling", "requeue", "bury"}
              /\ NextInBatch(w)
              /\ status' = [status EXCEPT ![current[w]] = "pending"]
          BY <1>9, <2>2 DEF FailWrite
        <4>2. current[w] \in Jobs /\ owner[current[w]] = w
              /\ owner' = [owner EXCEPT ![current[w]] = NoJob]
          BY <1>6, <4>1
        <4>3. QED
          BY <4>1, <4>2, StateUpdate, QueueStates
      <3>2. attempts[current[w]] < MaxAttempts
        BY <2>2 DEF LeaseInv, VerdictStands
      <3>3. Queue!Retry(w, current[w])
        BY <1>9, <3>1, <3>2 DEF Queue!Retry, Queue!Settle, FailWrite
      <3>4. QED
        BY <3>1, <3>3 DEF Queue!Next
    <2>3. QED
      BY <1>9, <2>1, <2>2 DEF FailWrite
  <1>10. ASSUME NEW w \in Workers, Crash(w) PROVE Queue!Next
    <2>1. batch' = [batch EXCEPT ![w] = {}]
      BY <1>10 DEF Crash
    <2>2. ASSUME NEW j \in Jobs
          PROVE  Owner(j)' = IF Owner(j) = w THEN NoJob ELSE Owner(j)
      <3>1. CASE j \in batch[w]
        <4>1. \A v \in Workers : j \notin batch'[v]
          BY <2>1, <3>1 DEF LeaseInv, MutualExclusion
        <4>2. QED
          BY <3>1, <4>1, OwnerIsHolder DEF Owner, Held, LeaseInv
      <3>2. CASE j \notin batch[w]
        <4>1. \A v \in Workers : j \in batch'[v] <=> j \in batch[v]
          BY <2>1, <3>2
        <4>2. Owner(j) # w
          BY <3>2, OwnerIsHolder DEF LeaseInv
        <4>3. QED
          BY <4>1, <4>2 DEF Owner, Held
      <3>3. QED
        BY <3>1, <3>2
    <2>3. Queue!Abandon(w)
      BY <1>10, <2>2 DEF Queue!Abandon, Crash, rows
    <2>4. QED
      BY <2>3 DEF Queue!Next
  <1>11. ASSUME NEW j \in Jobs, Enqueue(j) PROVE Queue!Next
    BY <1>2, <1>11 DEF Enqueue, Queue!Next
  <1>12. QED
    BY <1>1, <1>3, <1>4, <1>5, <1>7, <1>8, <1>9, <1>10, <1>11
       DEF Next, WorkerStep, vars, rows, Boot, BootFind, BootInsertConflict,
           BootDone, LeaseSelect, LeaseDone, Dispatch, FailRead, TickDone,
           Expedite, Advance

\* While batches end before their leases do, the job table implements JobQueue:
\* a claim is exclusive, only the claimant settles it, and a job is buried
\* only when its attempts are used up.
THEOREM Refinement ==
    ASSUME ~MayOverrun
    PROVE  Spec => ImplementsQueue
  <1>1. Init => LeaseInv
    BY LeaseInit
  <1>2. Init => Queue!Init
    BY DEF Init, Queue!Init, QueueState, Owner, Held
  <1>3. TypeInv /\ TypeInv' /\ LeaseInv /\ [Next]_vars => LeaseInv'
    BY LeaseStep
  <1>4. TypeInv /\ TypeInv' /\ LeaseInv /\ LeaseInv' /\ [Next]_vars
          => [Queue!Next]_(Queue!queueVars)
    BY QueueStep
  <1>5. QED
    BY <1>1, <1>2, <1>3, <1>4, TypeInvariance, PTL
       DEF Spec, ImplementsQueue, Queue!Spec

-----------------------------------------------------------------------------
(***************************************************************************)
(* OfflineAgency: a cycle and its goal.                                    *)
(***************************************************************************)
\* What a cycle has left of its episode when it is at each of its places.
EpisodeIsUnderWay ==
    /\ at # "idle" => subject \in Subjects
    /\ at \in {"planned", "study", "reflect", "event", "artifact", "complete"} =>
         episode[subject] # "completed"
    /\ at \in {"planned", "study", "reflect", "event", "artifact"} => artifacts[subject] = 0
    /\ at \in {"artifact", "complete"} => subject \in events
    /\ at = "complete" => artifacts[subject] = 1
    /\ at = "step" => trace \in Traces

\* What goal.advance has read stays earned while the other job adds its steps.
ReadIsEarned ==
    /\ adv = "step" => candidate \in Traces /\ known + 1 <= Cardinality(reviewed \cup {candidate})
    /\ adv = "update" /\ candidate # Nothing => known + 1 <= Cardinality(reviewed)
    /\ adv = "update" /\ candidate = Nothing => known <= Cardinality(reviewed) /\ known <= Reviews

CycleInv == EpisodeIsUnderWay /\ CompletedHasEvidence
GoalInv == ReadIsEarned /\ ProgressIsEarned
AgencyInv == AgencyTypeOK /\ CycleInv /\ GoalInv



-----------------------------------------------------------------------------
\* A set of traces that is not empty has a newest one: of the sets of those
\* newer than one of them, a smallest by inclusion is empty.
LEMMA NewestExists ==
    ASSUME NEW S \in SUBSET Traces, S # {}
    PROVE  \E t \in S : \A u \in S : u <= t
  <1> DEFINE Newer(t) == {u \in S : u > t}
             Family == {Newer(t) : t \in S}
  <1>1. S \subseteq Int
    BY OfflineAssumption DEF Traces
  <1>2. IsFiniteSet(S)
    <2>1. IsFiniteSet(Traces)
      BY FS_Interval, OfflineAssumption DEF Traces
    <2> QED BY <2>1, FS_Subset
  <1>3. IsWellFoundedOn(StrictSubsetOrdering(S), SUBSET S)
    BY <1>2, FS_StrictSubsetOrderingWellFounded, FS_FiniteSubsetsOfFinite
  <1>4. Family \subseteq SUBSET S /\ Family # {}
    OBVIOUS
  <1>5. PICK F \in Family : \A G \in Family : <<G, F>> \notin StrictSubsetOrdering(S)
    <2> HIDE DEF Family
    <2> QED BY <1>3, <1>4, WFMin
  <1>6. PICK t \in S : F = Newer(t)
    OBVIOUS
  <1>7. ASSUME NEW u \in S, u > t
        PROVE  FALSE
    <2>1. Newer(u) \subseteq F /\ Newer(u) # F
      <3>1. ASSUME NEW v \in Newer(u)
            PROVE  v \in Newer(t)
        BY <1>1, <1>7
      <3>2. u \in Newer(t) /\ u \notin Newer(u)
        BY <1>1, <1>7
      <3> QED BY <1>6, <3>1, <3>2
    <2>2. Newer(u) \in Family
      OBVIOUS
    <2>3. Newer(u) \in SUBSET S /\ F \in SUBSET S
      BY <1>6
    <2>4. <<Newer(u), F>> \in StrictSubsetOrdering(S)
      <3> DEFINE G == Newer(u)
      <3>1. G \in SUBSET S /\ F \in SUBSET S /\ G \subseteq F /\ G # F
        BY <2>1, <2>3
      <3> HIDE DEF G
      <3>2. <<G, F>> \in StrictSubsetOrdering(S)
        BY <3>1 DEF StrictSubsetOrdering
      <3> QED BY <3>2 DEF G
    <2> QED BY <1>5, <2>2, <2>4
  <1> QED BY <1>1, <1>7

LEMMA NewestType ==
    ASSUME NEW S \in SUBSET Traces
    PROVE  /\ S = {} => Newest(S) = Nothing
           /\ S # {} => Newest(S) \in S
  <1>1. S # {} => \E t \in S : \A u \in S : u <= t
    BY NewestExists
  <1> QED BY <1>1 DEF Newest

\* Counting the traces that the steps of a goal name.
LEMMA ReviewedCount ==
    ASSUME NEW R \in SUBSET Traces
    PROVE  /\ IsFiniteSet(R)
           /\ Cardinality(R) \in 0 .. MaxTraces
           /\ \A t : /\ Cardinality(R) <= Cardinality(R \cup {t})
                     /\ Cardinality(R \cup {t}) <= Cardinality(R) + 1
                     /\ t \notin R => Cardinality(R \cup {t}) = Cardinality(R) + 1
                     /\ t \in R => R \cup {t} = R
  <1>1. IsFiniteSet(Traces) /\ Cardinality(Traces) = MaxTraces
    BY FS_Interval, OfflineAssumption DEF Traces
  <1>2. IsFiniteSet(R) /\ Cardinality(R) <= Cardinality(Traces)
    BY <1>1, FS_Subset
  <1>3. Cardinality(R) \in Nat
    BY <1>2, FS_CardinalityType
  <1>4. \A t : Cardinality(R \cup {t}) = IF t \in R THEN Cardinality(R) ELSE Cardinality(R) + 1
    BY <1>2, FS_AddElement
  <1> QED BY <1>1, <1>2, <1>3, <1>4, OfflineAssumption

LEMMA AtMostAllType ==
    ASSUME NEW n \in Nat
    PROVE  AtMostAll(n) \in 0 .. Reviews /\ AtMostAll(n) <= n
  BY OfflineAssumption DEF AtMostAll

Goals == [status : GoalStatuses, progress : 0 .. Reviews, due : BOOLEAN]

LEMMA AdvancedType ==
    ASSUME NEW g \in Goals, NEW n \in Nat
    PROVE  /\ Advanced(g, n) \in Goals
           /\ Advanced(g, n).progress <= n
           /\ Advanced(g, n).status = "done" => n >= Reviews
           /\ [Advanced(g, n) EXCEPT !.due = FALSE] \in Goals
           /\ [Advanced(g, n) EXCEPT !.due = FALSE].progress = Advanced(g, n).progress
           /\ [Advanced(g, n) EXCEPT !.due = FALSE].status = Advanced(g, n).status
  BY AtMostAllType, OfflineAssumption DEF Advanced, Goals, GoalStatuses

LEMMA NewestSet ==
    ASSUME AgencyTypeOK
    PROVE  Unstudied \in SUBSET Traces /\ Unreviewed \in SUBSET Traces
  BY OfflineAssumption DEF AgencyTypeOK, Unstudied, Unreviewed, Traces

-----------------------------------------------------------------------------
LEMMA InvInit == AgencyInit => AgencyInv
  <1> SUFFICES ASSUME AgencyInit PROVE AgencyInv
    OBVIOUS
  <1>1. AgencyTypeOK
    <2>1. goal \in [status : GoalStatuses, progress : 0 .. Reviews, due : BOOLEAN]
      BY OfflineAssumption DEF AgencyInit, NoGoal, GoalStatuses
    <2>2. episode \in [Subjects -> {"absent", "planned", "running", "completed", "failed"}]
      BY DEF AgencyInit
    <2>3. artifacts \in [Subjects -> 0 .. 1]
      BY DEF AgencyInit
    <2>4. /\ archived \in 0 .. MaxTraces
          /\ today \in 0 .. MaxCycles
          /\ calls \in 0 .. Budget
          /\ before \in 0 .. Budget
          /\ known \in 0 .. MaxTraces
          /\ kills \in 0 .. MaxKills
      BY OfflineAssumption DEF AgencyInit
    <2>5. events \in SUBSET Subjects /\ reviewed \in SUBSET Traces
      BY DEF AgencyInit
    <2> QED BY <2>1, <2>2, <2>3, <2>4, <2>5 DEF AgencyInit, AgencyTypeOK
  <1>2. CycleInv
    BY DEF AgencyInit, CycleInv, EpisodeIsUnderWay, CompletedHasEvidence, Nothing
  <1>3. GoalInv
    <2>1. reviewed = {} /\ Cardinality(reviewed) = 0
      BY FS_EmptySet DEF AgencyInit
    <2> QED BY <2>1 DEF AgencyInit, GoalInv, ReadIsEarned, ProgressIsEarned, NoGoal
  <1> QED BY <1>1, <1>2, <1>3 DEF AgencyInv

-----------------------------------------------------------------------------
\* Every action keeps every variable in its type.
LEMMA AgencyTypeStep ==
    ASSUME AgencyInv, [AgencyNext]_agencyVars
    PROVE  AgencyTypeOK'
  <1> USE DEF table, project, cycle, advancing
  <1>0. AgencyTypeOK /\ EpisodeIsUnderWay /\ ReadIsEarned /\ ProgressIsEarned
    BY DEF AgencyInv, CycleInv, GoalInv
  <1>1. CASE Archive
    BY <1>0, <1>1, OfflineAssumption DEF Archive, AgencyTypeOK
  <1>2. CASE Plan
    <2>1. Newest(Unstudied) \in Traces \cup {Nothing}
      BY <1>0, NewestSet, NewestType
    <2>2. Chosen \in Subjects
      BY <1>2, <2>1, OfflineAssumption DEF Plan, Chosen, Subjects, External, Traces
    <2>3. episode' \in [Subjects -> {"absent", "planned", "running", "completed", "failed"}]
      BY <1>0, <1>2, <2>2 DEF Plan, AgencyTypeOK
    <2>4. artifacts' \in [Subjects -> 0 .. 1]
      BY <1>0, <1>2, <2>2 DEF Plan, AgencyTypeOK
    <2>5. today' \in 0 .. MaxCycles
      BY <1>0, <1>2, OfflineAssumption DEF Plan, WithinLimit, AgencyTypeOK
    <2> QED BY <1>0, <1>2, <2>1, <2>2, <2>3, <2>4, <2>5 DEF Plan, AgencyTypeOK
  <1>3. CASE Run
    <2>1. subject \in Subjects
      BY <1>0, <1>3 DEF Run, EpisodeIsUnderWay
    <2>2. episode' \in [Subjects -> {"absent", "planned", "running", "completed", "failed"}]
      BY <1>0, <1>3, <2>1 DEF Run, AgencyTypeOK
    <2> QED BY <1>0, <1>3, <2>2 DEF Run, AgencyTypeOK
  <1>4. CASE Studied
    BY <1>0, <1>4 DEF Studied, AgencyTypeOK
  <1>5. CASE StudyFails
    <2>1. subject \in Subjects
      BY <1>0, <1>5 DEF StudyFails, EpisodeIsUnderWay
    <2>2. episode' \in [Subjects -> {"absent", "planned", "running", "completed", "failed"}]
      BY <1>0, <1>5, <2>1 DEF StudyFails, AgencyTypeOK
    <2> QED BY <1>0, <1>5, <2>2 DEF StudyFails, End, AgencyTypeOK
  <1>6. CASE Reflect
    <2>1. calls' \in 0 .. Budget /\ before' \in 0 .. Budget
      BY <1>0, <1>6, OfflineAssumption DEF Reflect, Affordable, AgencyTypeOK
    <2> QED BY <1>0, <1>6, <2>1 DEF Reflect, AgencyTypeOK
  <1>7. CASE AppendEvent
    <2>1. subject \in Subjects
      BY <1>0, <1>7 DEF AppendEvent, EpisodeIsUnderWay
    <2> QED BY <1>0, <1>7, <2>1 DEF AppendEvent, AfterEvent, AgencyTypeOK
  <1>8. CASE InsertArtifact
    <2>1. subject \in Subjects /\ artifacts[subject] = 0
      BY <1>0, <1>8 DEF InsertArtifact, EpisodeIsUnderWay
    <2>2. artifacts' \in [Subjects -> 0 .. 1]
      BY <1>0, <1>8, <2>1 DEF InsertArtifact, AgencyTypeOK
    <2> QED BY <1>0, <1>8, <2>2 DEF InsertArtifact, AgencyTypeOK
  <1>9. CASE CompleteEpisode
    <2>1. subject \in Subjects
      BY <1>0, <1>9 DEF CompleteEpisode, EpisodeIsUnderWay
    <2>2. episode' \in [Subjects -> {"absent", "planned", "running", "completed", "failed"}]
      BY <1>0, <1>9, <2>1 DEF CompleteEpisode, AgencyTypeOK
    <2> QED BY <1>0, <1>9, <2>2 DEF CompleteEpisode, AgencyTypeOK
  <1>10. CASE AddStep
    BY <1>0, <1>10 DEF AddStep, EpisodeIsUnderWay, AgencyTypeOK
  <1>11. CASE UpdateProgress
    <2>1. Earned \in Nat
      BY <1>0, ReviewedCount DEF Earned, AgencyTypeOK
    <2>2. \A d \in BOOLEAN : [goal EXCEPT !.due = d] \in Goals
      BY <1>0 DEF AgencyTypeOK, Goals
    <2>3. goal.due \in BOOLEAN
      BY <1>0 DEF AgencyTypeOK
    <2>4. goal' \in Goals
      <3>1. CASE \E d \in BOOLEAN : goal' = Advanced([goal EXCEPT !.due = d], Earned)
        BY <2>1, <2>2, <3>1, AdvancedType
      <3>2. CASE goal' = goal
        BY <1>0, <3>2 DEF AgencyTypeOK, Goals
      <3> QED BY <1>11, <2>3, <3>1, <3>2 DEF UpdateProgress
    <2>5. goal' \in [status : GoalStatuses, progress : 0 .. Reviews, due : BOOLEAN]
      BY <2>4 DEF Goals
    <2> QED BY <1>0, <1>11, <2>5 DEF UpdateProgress, AgencyTypeOK
  <1>12. CASE Cost
    BY <1>0, <1>12 DEF Cost, End, AgencyTypeOK
  <1>13. CASE CreateProject
    <2>1. goal' \in [status : GoalStatuses, progress : 0 .. Reviews, due : BOOLEAN]
      BY <1>13, OfflineAssumption DEF CreateProject, GoalStatuses
    <2>2. held' \in {"none", "current", "replaced"} /\ reviewed' = {}
      BY <1>0, <1>13 DEF CreateProject, AgencyTypeOK
    <2> QED BY <1>0, <1>13, <2>1, <2>2 DEF CreateProject, AgencyTypeOK
  <1>14. CASE AdvanceDue
    <2>1. Newest(Unreviewed) \in Traces \cup {Nothing}
      BY <1>0, NewestSet, NewestType
    <2>2. Cardinality(reviewed) \in 0 .. MaxTraces /\ goal.progress \in 0 .. MaxTraces
      BY <1>0, ReviewedCount, OfflineAssumption DEF ProgressIsEarned, AgencyTypeOK
    <2> QED BY <1>0, <1>14, <2>1, <2>2 DEF AdvanceDue, AgencyTypeOK
  <1>15. CASE AdvanceStep
    BY <1>0, <1>15 DEF AdvanceStep, ReadIsEarned, AgencyTypeOK
  <1>16. CASE AdvanceUpdate
    <2>1. goal' \in [status : GoalStatuses, progress : 0 .. Reviews, due : BOOLEAN]
      <3>1. CASE candidate = Nothing
        <4>1. known \in 0 .. Reviews
          BY <1>0, <1>16, <3>1, OfflineAssumption DEF AdvanceUpdate, ReadIsEarned, AgencyTypeOK
        <4> QED BY <1>0, <1>16, <3>1, <4>1 DEF AdvanceUpdate, GoalStatuses, AgencyTypeOK
      <3>2. CASE candidate # Nothing
        <4>1. known + 1 \in Nat /\ goal \in Goals
          BY <1>0, OfflineAssumption DEF AgencyTypeOK, Goals
        <4>2. goal' \in Goals
          BY <1>16, <3>2, <4>1, AdvancedType DEF AdvanceUpdate
        <4> QED BY <4>2 DEF Goals
      <3> QED BY <3>1, <3>2
    <2>2. 0 \in 0 .. MaxTraces
      BY OfflineAssumption
    <2> QED BY <1>0, <1>16, <2>1, <2>2 DEF AdvanceUpdate, AgencyTypeOK
  <1>17. CASE BecomesDue
    <2>1. goal' \in [status : GoalStatuses, progress : 0 .. Reviews, due : BOOLEAN]
      BY <1>0, <1>17 DEF BecomesDue, AgencyTypeOK
    <2> QED BY <1>0, <1>17, <2>1 DEF BecomesDue, AgencyTypeOK
  <1>18. CASE DraftCall
    <2>1. calls' \in 0 .. Budget
      BY <1>0, <1>18, OfflineAssumption DEF DraftCall, Affordable, AgencyTypeOK
    <2> QED BY <1>0, <1>18, <2>1 DEF DraftCall, AgencyTypeOK
  <1>19. CASE Midnight
    <2>1. today' \in 0 .. MaxCycles /\ calls' \in 0 .. Budget
      BY <1>19, OfflineAssumption DEF Midnight
    <2> QED BY <1>0, <1>19, <2>1 DEF Midnight, AgencyTypeOK
  <1>20. CASE CrashCycle
    <2>1. kills' \in 0 .. MaxKills
      BY <1>0, <1>20, OfflineAssumption DEF CrashCycle, AgencyTypeOK
    <2> QED BY <1>0, <1>20, <2>1 DEF CrashCycle, End, AgencyTypeOK
  <1>21. CASE CrashAdvance
    <2>1. kills' \in 0 .. MaxKills /\ 0 \in 0 .. MaxTraces
      BY <1>0, <1>21, OfflineAssumption DEF CrashAdvance, AgencyTypeOK
    <2> QED BY <1>0, <1>21, <2>1 DEF CrashAdvance, AgencyTypeOK
  <1>22. CASE UNCHANGED agencyVars
    BY <1>0, <1>22 DEF agencyVars, AgencyTypeOK
  <1> QED
    BY <1>1, <1>2, <1>3, <1>4, <1>5, <1>6, <1>7, <1>8, <1>9, <1>10, <1>11, <1>12, <1>13, <1>14,
       <1>15, <1>16, <1>17, <1>18, <1>19, <1>20, <1>21, <1>22
       DEF AgencyNext, CycleProceeds, AdvanceProceeds

\* No action leaves a completed episode without its event and its artifact.
LEMMA CycleStep ==
    ASSUME AgencyInv, [AgencyNext]_agencyVars
    PROVE  CycleInv'
  <1> USE DEF table, project, cycle, advancing
  <1>0. AgencyTypeOK /\ EpisodeIsUnderWay /\ CompletedHasEvidence
    BY DEF AgencyInv, CycleInv
  <1>1. CASE Plan
    <2>1. Newest(Unstudied) \in Traces \cup {Nothing}
      BY <1>0, NewestSet, NewestType
    <2>2. Chosen \in Subjects
      BY <1>1, <2>1, OfflineAssumption DEF Plan, Chosen, Subjects, External, Traces
    <2>3. EpisodeIsUnderWay'
      BY <1>0, <1>1, <2>2 DEF Plan, EpisodeIsUnderWay, AgencyTypeOK
    <2>4. CompletedHasEvidence'
      BY <1>0, <1>1, <2>2 DEF Plan, CompletedHasEvidence, AgencyTypeOK
    <2> QED BY <2>3, <2>4 DEF CycleInv
  <1>2. CASE Run
    BY <1>0, <1>2 DEF Run, CycleInv, EpisodeIsUnderWay, CompletedHasEvidence, AgencyTypeOK
  <1>3. CASE Studied
    BY <1>0, <1>3 DEF Studied, CycleInv, EpisodeIsUnderWay, CompletedHasEvidence
  <1>4. CASE StudyFails
    BY <1>0, <1>4
    DEF StudyFails, End, CycleInv, EpisodeIsUnderWay, CompletedHasEvidence, AgencyTypeOK
  <1>5. CASE Reflect
    BY <1>0, <1>5 DEF Reflect, CycleInv, EpisodeIsUnderWay, CompletedHasEvidence
  <1>6. CASE AppendEvent
    BY <1>0, <1>6 DEF AppendEvent, AfterEvent, CycleInv, EpisodeIsUnderWay, CompletedHasEvidence
  <1>7. CASE InsertArtifact
    BY <1>0, <1>7
    DEF InsertArtifact, CycleInv, EpisodeIsUnderWay, CompletedHasEvidence, AgencyTypeOK
  <1>8. CASE CompleteEpisode
    <2>1. at' \in {"step", "cost"} /\ (at' = "step" => trace' \in Traces)
      BY <1>0, <1>8 DEF CompleteEpisode, AgencyTypeOK
    <2>2. subject \in Subjects /\ subject \in events /\ artifacts[subject] = 1
      BY <1>0, <1>8 DEF CompleteEpisode, EpisodeIsUnderWay
    <2>3. CompletedHasEvidence'
      BY <1>0, <1>8, <2>2 DEF CompleteEpisode, CompletedHasEvidence, AgencyTypeOK
    <2> QED BY <1>8, <2>1, <2>2, <2>3 DEF CompleteEpisode, CycleInv, EpisodeIsUnderWay
  <1>9. CASE AddStep \/ UpdateProgress
    BY <1>0, <1>9 DEF AddStep, UpdateProgress, CycleInv, EpisodeIsUnderWay, CompletedHasEvidence
  <1>10. CASE Cost \/ CrashCycle
    BY <1>0, <1>10 DEF Cost, CrashCycle, End, CycleInv, EpisodeIsUnderWay, CompletedHasEvidence
  <1>11. CASE CreateProject
    BY <1>0, <1>11 DEF CreateProject, CycleInv, EpisodeIsUnderWay, CompletedHasEvidence
  <1>12. CASE Midnight
    BY <1>0, <1>12 DEF Midnight, CycleInv, EpisodeIsUnderWay, CompletedHasEvidence
  <1>13. CASE UNCHANGED <<table, cycle>>
    BY <1>0, <1>13 DEF CycleInv, EpisodeIsUnderWay, CompletedHasEvidence
  <1>14. Archive \/ AdvanceDue \/ AdvanceStep \/ AdvanceUpdate \/ BecomesDue \/ DraftCall
           \/ CrashAdvance \/ UNCHANGED agencyVars => UNCHANGED <<table, cycle>>
    BY DEF Archive, AdvanceDue, AdvanceStep, AdvanceUpdate, BecomesDue, DraftCall, CrashAdvance,
           agencyVars
  <1> QED
    BY <1>1, <1>2, <1>3, <1>4, <1>5, <1>6, <1>7, <1>8, <1>9, <1>10, <1>11, <1>12, <1>13, <1>14
       DEF AgencyNext, CycleProceeds, AdvanceProceeds

\* No action lets the goal's progress outrun its steps, and what goal.advance
\* has read stays true while the cycle adds a step of its own.
LEMMA GoalStep ==
    ASSUME AgencyInv, [AgencyNext]_agencyVars
    PROVE  GoalInv'
  <1> USE DEF table, project, cycle, advancing
  <1>0. AgencyTypeOK /\ EpisodeIsUnderWay /\ ReadIsEarned /\ ProgressIsEarned
    BY DEF AgencyInv, CycleInv, GoalInv
  <1>a. Cardinality(reviewed) \in Nat /\ known \in Nat /\ goal \in Goals
    BY <1>0, ReviewedCount, OfflineAssumption DEF AgencyTypeOK, Goals
  <1>1. CASE AddStep
    <2>1. reviewed' = reviewed \/ reviewed' = reviewed \cup {trace}
      BY <1>1 DEF AddStep
    <2>2. trace \in Traces
      BY <1>0, <1>1 DEF AddStep, EpisodeIsUnderWay
    <2>3. Cardinality(reviewed') \in Nat /\ Cardinality(reviewed) <= Cardinality(reviewed')
      BY <1>0, <1>a, <2>1, <2>2, ReviewedCount DEF AgencyTypeOK
    <2>4. ASSUME adv = "step"
          PROVE  known + 1 <= Cardinality(reviewed' \cup {candidate})
      <3>1. CASE reviewed' = reviewed
        BY <1>0, <2>4, <3>1 DEF ReadIsEarned
      <3>2. CASE reviewed' = reviewed \cup {trace}
        <4> DEFINE R == reviewed \cup {candidate}
        <4>1. R \in SUBSET Traces /\ R \cup {trace} \in SUBSET Traces
          BY <1>0, <2>2, <2>4 DEF ReadIsEarned, AgencyTypeOK
        <4>2. reviewed' \cup {candidate} = R \cup {trace}
          BY <3>2
        <4>3. known + 1 <= Cardinality(R)
          BY <1>0, <2>4 DEF ReadIsEarned
        <4> HIDE DEF R
        <4>4. Cardinality(R) \in Nat /\ Cardinality(R \cup {trace}) \in Nat
              /\ Cardinality(R) <= Cardinality(R \cup {trace})
          BY <4>1, ReviewedCount
        <4> QED BY <1>a, <4>2, <4>3, <4>4
      <3> QED BY <2>1, <3>1, <3>2
    <2>5. adv' = adv /\ candidate' = candidate /\ known' = known /\ goal' = goal
      BY <1>1 DEF AddStep
    <2>6. ReadIsEarned'
      BY <1>0, <1>a, <2>3, <2>4, <2>5 DEF ReadIsEarned
    <2>7. goal.progress \in Nat /\ Reviews \in Nat
      BY <1>0, OfflineAssumption DEF AgencyTypeOK
    <2>8. ProgressIsEarned'
      BY <1>0, <1>a, <2>3, <2>5, <2>7 DEF ProgressIsEarned
    <2> QED BY <2>6, <2>8 DEF GoalInv
  <1>2. CASE UpdateProgress
    <2>1. ReadIsEarned'
      BY <1>0, <1>2 DEF UpdateProgress, ReadIsEarned
    <2>2. \A d \in BOOLEAN : [goal EXCEPT !.due = d] \in Goals
      BY <1>a DEF Goals
    <2>3. goal.due \in BOOLEAN
      BY <1>a DEF Goals
    <2>4. CASE \E d \in BOOLEAN : goal' = Advanced([goal EXCEPT !.due = d], Earned)
      <3>0. PICK d \in BOOLEAN : goal' = Advanced([goal EXCEPT !.due = d], Earned)
        BY <2>4
      <3>1. goal'.progress <= Earned /\ (goal'.status = "done" => Earned >= Reviews)
        <4>1. Earned \in Nat /\ [goal EXCEPT !.due = d] \in Goals
          BY <1>a, <2>2 DEF Earned
        <4> QED BY <3>0, <4>1, AdvancedType
      <3> QED BY <1>2, <2>1, <3>1 DEF UpdateProgress, Earned, ProgressIsEarned, GoalInv
    <2>5. CASE goal' = goal
      BY <1>0, <1>2, <2>1, <2>5 DEF UpdateProgress, ProgressIsEarned, GoalInv
    <2> QED BY <1>2, <2>3, <2>4, <2>5 DEF UpdateProgress
  <1>3. CASE CreateProject
    <2>1. adv' = "idle" /\ goal'.progress = 0 /\ goal'.status = "active" /\ reviewed' = {}
      BY <1>3 DEF CreateProject, AdvFree
    <2>2. Cardinality(reviewed') = 0
      BY <2>1, FS_EmptySet
    <2> QED BY <2>1, <2>2 DEF GoalInv, ReadIsEarned, ProgressIsEarned
  <1>4. CASE AdvanceDue
    <2>1. ProgressIsEarned'
      BY <1>0, <1>4 DEF AdvanceDue, ProgressIsEarned
    <2>2. CASE Unreviewed = {}
      <3>1. /\ candidate' = Nothing /\ known' = goal.progress
            /\ adv' = "update" /\ reviewed' = reviewed
        BY <1>4, <2>2 DEF AdvanceDue, Newest
      <3>2. goal.progress <= Cardinality(reviewed) /\ goal.progress <= Reviews
        BY <1>0, OfflineAssumption DEF ProgressIsEarned, AgencyTypeOK
      <3> QED BY <2>1, <3>1, <3>2 DEF GoalInv, ReadIsEarned
    <2>3. CASE Unreviewed # {}
      <3>1. Newest(Unreviewed) \in Unreviewed /\ Unreviewed \in SUBSET Traces
        BY <1>0, <2>3, NewestSet, NewestType
      <3>2. candidate' \in Traces /\ candidate' \notin reviewed
        BY <1>4, <3>1 DEF AdvanceDue, Unreviewed
      <3>3. known' = Cardinality(reviewed) /\ adv' = "step" /\ reviewed' = reviewed
        BY <1>4, <2>3 DEF AdvanceDue
      <3>4. Cardinality(reviewed \cup {candidate'}) = Cardinality(reviewed) + 1
        BY <1>0, <3>2, ReviewedCount DEF AgencyTypeOK
      <3>5. known' + 1 <= Cardinality(reviewed' \cup {candidate'})
        BY <1>a, <3>3, <3>4
      <3> QED BY <2>1, <3>2, <3>3, <3>5 DEF GoalInv, ReadIsEarned
    <2> QED BY <2>2, <2>3
  <1>5. CASE AdvanceStep
    <2>1. /\ adv' = "update" /\ candidate' = candidate /\ candidate \in Traces
          /\ known' = known /\ goal' = goal /\ reviewed' = reviewed \cup {candidate}
      BY <1>0, <1>5 DEF AdvanceStep, ReadIsEarned
    <2>2. known + 1 <= Cardinality(reviewed')
      BY <1>0, <1>5, <2>1 DEF AdvanceStep, ReadIsEarned
    <2>3. Nothing \notin Traces
      BY OfflineAssumption DEF Nothing, Traces
    <2>4. Cardinality(reviewed') \in Nat /\ Cardinality(reviewed) <= Cardinality(reviewed')
      BY <1>0, <2>1, ReviewedCount DEF AgencyTypeOK
    <2>5. goal.progress \in Nat /\ Reviews \in Nat
      BY <1>0, OfflineAssumption DEF AgencyTypeOK
    <2>6. ProgressIsEarned'
      BY <1>0, <1>a, <2>1, <2>4, <2>5 DEF ProgressIsEarned
    <2> QED BY <2>1, <2>2, <2>3, <2>6 DEF GoalInv, ReadIsEarned
  <1>6. CASE AdvanceUpdate
    <2>1. adv = "update" /\ adv' = "idle" /\ reviewed' = reviewed
      BY <1>6 DEF AdvanceUpdate
    <2>2. CASE candidate = Nothing
      <3>1. goal'.progress = known /\ goal'.status = "blocked"
        BY <1>a, <1>6, <2>2 DEF AdvanceUpdate, Goals
      <3>2. known <= Cardinality(reviewed)
        BY <1>0, <2>1, <2>2 DEF ReadIsEarned
      <3> QED BY <2>1, <3>1, <3>2 DEF GoalInv, ReadIsEarned, ProgressIsEarned
    <2>3. CASE candidate # Nothing
      <3>1. known + 1 \in Nat /\ known + 1 <= Cardinality(reviewed)
        BY <1>0, <1>a, <2>1, <2>3 DEF ReadIsEarned
      <3>2. /\ goal'.progress = Advanced(goal, known + 1).progress
            /\ goal'.status = Advanced(goal, known + 1).status
        BY <1>a, <1>6, <2>3, <3>1, AdvancedType DEF AdvanceUpdate
      <3>3. /\ goal'.progress \in Nat
            /\ goal'.progress <= known + 1
            /\ goal'.status = "done" => known + 1 >= Reviews
        <4>1. /\ Advanced(goal, known + 1) \in Goals
              /\ Advanced(goal, known + 1).progress <= known + 1
              /\ Advanced(goal, known + 1).status = "done" => known + 1 >= Reviews
          BY <1>a, <3>1, AdvancedType
        <4>2. \A g \in Goals : g.progress \in Nat
          BY DEF Goals
        <4> QED BY <3>2, <4>1, <4>2
      <3> QED
        BY <1>a, <2>1, <3>1, <3>3, OfflineAssumption DEF GoalInv, ReadIsEarned, ProgressIsEarned
    <2> QED BY <2>2, <2>3
  <1>7. CASE BecomesDue
    <2>1. goal'.progress = goal.progress /\ goal'.status = goal.status
      BY <1>a, <1>7 DEF BecomesDue, Goals
    <2> QED BY <1>0, <1>7, <2>1 DEF BecomesDue, GoalInv, ReadIsEarned, ProgressIsEarned
  <1>8. CASE CrashAdvance
    BY <1>0, <1>8 DEF CrashAdvance, GoalInv, ReadIsEarned, ProgressIsEarned
  <1>9. CASE UNCHANGED <<project, advancing>>
    BY <1>0, <1>9 DEF GoalInv, ReadIsEarned, ProgressIsEarned
  <1>10. Archive \/ Plan \/ Run \/ Studied \/ StudyFails \/ Reflect \/ AppendEvent \/ InsertArtifact
           \/ CompleteEpisode \/ Cost \/ DraftCall \/ Midnight \/ CrashCycle \/ UNCHANGED agencyVars
             => UNCHANGED <<project, advancing>>
    BY DEF Archive, Plan, Run, Studied, StudyFails, Reflect, AppendEvent, InsertArtifact,
           CompleteEpisode, Cost, DraftCall, Midnight, CrashCycle, agencyVars
  <1> QED
    BY <1>1, <1>2, <1>3, <1>4, <1>5, <1>6, <1>7, <1>8, <1>9, <1>10
       DEF AgencyNext, CycleProceeds, AdvanceProceeds

-----------------------------------------------------------------------------
\* The invariant is inductive.
LEMMA AgencyInvariant == AgencySpec => []AgencyInv
  <1>1. AgencyInv /\ [AgencyNext]_agencyVars => AgencyInv'
    BY AgencyTypeStep, CycleStep, GoalStep DEF AgencyInv
  <1> QED BY InvInit, <1>1, PTL DEF AgencySpec

\* Every variable keeps its type: the limits on cycles and calls hold, and no
\* episode gets a second artifact.
THEOREM AgencyTypeCorrect == AgencySpec => []AgencyTypeOK
  <1>1. AgencyInv => AgencyTypeOK
    BY DEF AgencyInv
  <1> QED BY <1>1, AgencyInvariant, PTL

\* What the prompt may claim: whatever cycle was killed wherever, a completed
\* episode has its event and exactly one artifact.
THEOREM EvidenceOfCompleted == AgencySpec => []CompletedHasEvidence
  <1>1. AgencyInv => CompletedHasEvidence
    BY DEF AgencyInv, CycleInv
  <1> QED BY <1>1, AgencyInvariant, PTL

\* For any number of reviews, any budget and one process or two, the goal's
\* progress is covered by distinct traces and the calls of a day by its budget.
THEOREM BooksStayKept == AgencySpec => []BooksAreKept
  <1>1. AgencyInv => BooksAreKept
    BY OfflineAssumption DEF AgencyInv, GoalInv, AgencyTypeOK, BooksAreKept, BudgetKept
  <1> QED BY <1>1, AgencyInvariant, PTL
=============================================================================
