------------------------------ MODULE TurnLearning ------------------------------
(***************************************************************************)
(* Learning from a turn (runtime/interactive.py): when an answer is        *)
(* recorded a learning task extracts memories from the turn and, when it   *)
(* is due, reviews the identity.                                           *)
(*                                                                         *)
(* The sessions of the gateway and of the terminal defer the tasks: those  *)
(* of several turns overlap wherever one of them waits for the model, and  *)
(* run without interruption in between.  A session that does not defer     *)
(* them (defer_learning is false unless asked for) awaits each before the  *)
(* next turn.  Processes work on one database, each with a conversation of *)
(* its own, so their statements interleave.  A process may die at any      *)
(* statement; one that is closed cancels its tasks where they wait.        *)
(***************************************************************************)
EXTENDS MemoryWrite, SelfBelief

CONSTANTS
    Processes,
    Deferred,        \* the processes whose session defers learning
    ReviewInterval,  \* review_interval_agent_events
    BootstrapTurns,  \* _LEARNING_BOOTSTRAP_TURNS
    Settings,        \* the instances: what is enabled, the past turns of each
                     \* conversation and the bound on its turns
    MaxTurns,        \* the largest of these bounds
    MaxCrashes       \* bound on the crashes

ASSUME LearningAssumption ==
    /\ Deferred \subseteq Processes
    /\ ReviewInterval \in Nat \ {0}
    /\ BootstrapTurns \in Nat \ {0}
    /\ MaxTurns \in Nat \ {0}
    /\ Settings \subseteq [enabled : SUBSET {"memory", "identity"},
                           past : [Processes -> 0 .. MaxTurns],
                           limit : [Processes -> 0 .. MaxTurns]]
    /\ MaxCrashes \in Nat

VARIABLES
    setting,   \* with the settings ablation.enable_memory and enable_identity
    up,        \* the processes that are initialized
    turns,     \* turns[p]: the complete turns of the conversation of p
    stale,     \* stale[p]: those that are more than a week old
    marker,    \* marker[p]: _identity_review_marker, 0 for None
    task,      \* where each learning task is
    subject,   \* the turn it learns from
    window,    \* the latest turn it has read for the review
    crashes

learningVars == <<up, turns, stale, marker, task, subject, window, crashes>>
vars == <<setting, learningVars, memoryVars, beliefVars>>

\* Task 0 of a process is the bootstrap of its session.
Tasks == Processes \X (0 .. MaxTurns)

ASSUME TasksAssumption == Writers = Tasks /\ Reviewers = Tasks

Own(p) == {w \in Tasks : w[1] = p}
Boot(p) == <<p, 0>>

Events == {"user", "agent"} \X Processes \X (1 .. MaxTurns)

TurnEvents(w) == {<<"user", w[1], subject[w]>>, <<"agent", w[1], subject[w]>>}

AgentEvents(p, n) == {<<"agent", p, i>> : i \in 1 .. n}

TypeOK ==
    /\ MemoryTypeOK(Events)
    /\ BeliefTypeOK(Events)
    /\ setting \in Settings
    /\ up \subseteq Processes
    /\ turns \in [Processes -> 0 .. MaxTurns]
    /\ stale \in [Processes -> 0 .. MaxTurns]
    /\ marker \in [Processes -> 0 .. MaxTurns]
    /\ task \in [Tasks -> {"none", "memory", "extract", "write", "identity", "review",
                           "integrate", "over"}]
    /\ subject \in [Tasks -> 0 .. MaxTurns]
    /\ window \in [Tasks -> 0 .. MaxTurns]
    /\ crashes \in 0 .. MaxCrashes

Init ==
    /\ MemoryInit
    /\ BeliefInit
    /\ setting \in Settings
    /\ up = {}
    /\ turns = setting.past
    /\ stale = [p \in Processes |-> 0]
    /\ marker = [p \in Processes |-> 0]
    /\ task = [w \in Tasks |-> "none"]
    /\ subject = [w \in Tasks |-> 0]
    /\ window = [w \in Tasks |-> 0]
    /\ crashes = 0

Live(w) == task[w] \notin {"none", "over"}

\* Mutant of MayRun: the tasks of a process run at the same time.
MayRunAlways(w) == TRUE

\* Within a process only a task that waits for the model lets another one run.
Waits(w) == task[w] \in {"extract", "review"}
MayRun(w) == \A x \in Own(w[1]) \ {w} : Live(x) => Waits(x)

Goto(w, place) == task' = [task EXCEPT ![w] = place]

-----------------------------------------------------------------------------
(***************************************************************************)
(* The session.                                                            *)
(***************************************************************************)
LatestFrom(n) == IF n > BootstrapTurns THEN n - BootstrapTurns + 1 ELSE 1

\* initialize, with _bootstrap_learning: if there is no memory at all, learn
\* from the latest turns until there is one.
Initialize(p) ==
    /\ p \notin up
    /\ ~Live(Boot(p))
    /\ subject' = [subject EXCEPT ![Boot(p)] = LatestFrom(turns[p])]
    /\ Goto(Boot(p), IF "memory" \in setting.enabled /\ memories = <<>> /\ turns[p] > 0
                     THEN "memory" ELSE "identity")
    /\ UNCHANGED <<setting, up, turns, stale, marker, window, crashes, memoryVars, beliefVars>>

\* A turn is complete, and its learning begins.
Turn(p) ==
    /\ p \in up
    /\ turns[p] < setting.limit[p]
    /\ p \notin Deferred => \A w \in Own(p) : ~Live(w)
    /\ \A w \in Own(p) : Live(w) => Waits(w)
    /\ turns' = [turns EXCEPT ![p] = @ + 1]
    /\ LET w == <<p, turns[p] + 1>> IN
         /\ subject' = [subject EXCEPT ![w] = w[2]]
         /\ Goto(w, "memory")
    /\ UNCHANGED <<setting, up, stale, marker, window, crashes, memoryVars, beliefVars>>

-----------------------------------------------------------------------------
(***************************************************************************)
(* _learn_memory.                                                          *)
(***************************************************************************)
AskForMemories(w) ==
    /\ task[w] = "memory"
    /\ MayRun(w)
    /\ Goto(w, IF "memory" \in setting.enabled THEN "extract" ELSE "identity")
    /\ UNCHANGED <<setting, up, turns, stale, marker, subject, window, crashes,
                   memoryVars, beliefVars>>

\* The model answers; without candidates, or when it fails, nothing is written.
MemoriesExtracted(w) ==
    /\ task[w] = "extract"
    /\ MayRun(w)
    /\ Goto(w, "write")
    /\ BeginWrite(w)
    /\ UNCHANGED <<setting, up, turns, stale, marker, subject, window, crashes, beliefVars>>

WriteMemories(w) ==
    /\ task[w] = "write"
    /\ WriteStep(w, TurnEvents(w))
    /\ UNCHANGED <<setting, learningVars, beliefVars>>

\* The bootstrap goes on to the next turn while there is no memory.
MemoriesLearned(w) ==
    /\ task[w] = "write"
    /\ EndWrite(w)
    /\ IF w = Boot(w[1]) /\ memories = <<>> /\ subject[w] < turns[w[1]]
         THEN Goto(w, "memory") /\ subject' = [subject EXCEPT ![w] = @ + 1]
         ELSE Goto(w, "identity") /\ UNCHANGED subject
    /\ UNCHANGED <<setting, up, turns, stale, marker, window, crashes, beliefVars>>

-----------------------------------------------------------------------------
(***************************************************************************)
(* _review_identity_if_due.                                                *)
(***************************************************************************)
\* The latest event of p that caused a current belief: what tells the latest
\* review when the marker is lost.
LatestCause(p) ==
    LET causes == {i \in 1 .. turns[p] :
                     \E l \in Lineages : beliefs[l].head.cause = <<"agent", p, i>>} IN
    IF causes = {} THEN 0 ELSE CHOOSE i \in causes : \A j \in causes : j <= i

LastReview(p) == IF marker[p] > 0 THEN marker[p] ELSE LatestCause(p)

Due(w) ==
    IF w = Boot(w[1])
      THEN beliefs = <<>>
      ELSE LastReview(w[1]) = 0 \/ turns[w[1]] - LastReview(w[1]) >= ReviewInterval

Finish(w) ==
    /\ Goto(w, "over")
    /\ up' = IF w = Boot(w[1]) THEN up \cup {w[1]} ELSE up

SkipReview(w) ==
    /\ task[w] = "identity"
    /\ MayRun(w)
    /\ "identity" \notin setting.enabled \/ turns[w[1]] < 2 \/ ~Due(w)
    /\ Finish(w)
    /\ UNCHANGED <<setting, turns, stale, marker, subject, window, crashes, memoryVars, beliefVars>>

\* The events are read; with two recent ones the model is awaited.
AskForClaims(w) ==
    /\ task[w] = "identity"
    /\ MayRun(w)
    /\ "identity" \in setting.enabled /\ turns[w[1]] >= 2 /\ Due(w)
    /\ window' = [window EXCEPT ![w] = turns[w[1]]]
    /\ IF turns[w[1]] - stale[w[1]] < 2
         THEN Goto(w, "integrate") /\ BeginReview(w)
         ELSE Goto(w, "review") /\ UNCHANGED beliefVars
    /\ UNCHANGED <<setting, up, turns, stale, marker, subject, crashes, memoryVars>>

\* A call that fails counts as an answer without claims.
ClaimsExtracted(w) ==
    /\ task[w] = "review"
    /\ MayRun(w)
    /\ Goto(w, "integrate")
    /\ BeginReview(w)
    /\ UNCHANGED <<setting, up, turns, stale, marker, subject, window, crashes, memoryVars>>

EligibleEvents(w) == AgentEvents(w[1], window[w]) \ AgentEvents(w[1], stale[w[1]])

IntegrateClaims(w) ==
    /\ task[w] = "integrate"
    /\ ReviewStep(w, EligibleEvents(w))
    /\ UNCHANGED <<setting, learningVars, memoryVars>>

\* The marker is set after the review, to what was read before it.
Reviewed(w) ==
    /\ task[w] = "integrate"
    /\ EndReview(w)
    /\ marker' = [marker EXCEPT ![w[1]] = window[w]]
    /\ Finish(w)
    /\ UNCHANGED <<setting, turns, stale, subject, window, crashes, memoryVars>>

\* A version conflict is logged; the marker stays.
ReviewFails(w) ==
    /\ task[w] = "integrate"
    /\ VersionConflict(w)
    /\ Finish(w)
    /\ UNCHANGED <<setting, turns, stale, marker, subject, window, crashes, memoryVars>>

-----------------------------------------------------------------------------
WeekPasses ==
    /\ \E p \in Processes : stale[p] < turns[p]
    /\ \A w \in Tasks : ~Live(w)
    /\ aged = {}
    /\ beliefs # <<>>
    /\ stale' = turns
    /\ BeliefsAge
    /\ UNCHANGED <<setting, up, turns, marker, task, subject, window, crashes, memoryVars>>

\* The process dies, or close cancels its tasks; it may be started again.
Crash(p) ==
    /\ \E w \in Own(p) : Live(w)
    /\ crashes < MaxCrashes
    /\ crashes' = crashes + 1
    /\ up' = up \ {p}
    /\ marker' = [marker EXCEPT ![p] = 0]
    /\ task' = [w \in Tasks |-> IF w \in Own(p) /\ Live(w) THEN "over" ELSE task[w]]
    /\ LoseWrites(Own(p))
    /\ LoseReviews(Own(p))
    /\ UNCHANGED <<setting, turns, stale, subject, window>>

LearningStep(w) ==
    \/ AskForMemories(w) \/ MemoriesExtracted(w) \/ WriteMemories(w) \/ MemoriesLearned(w)
    \/ SkipReview(w) \/ AskForClaims(w) \/ ClaimsExtracted(w) \/ IntegrateClaims(w)
    \/ Reviewed(w) \/ ReviewFails(w)

Next ==
    \/ \E p \in Processes : Initialize(p) \/ Turn(p) \/ Crash(p)
    \/ \E w \in Tasks : LearningStep(w)
    \/ WeekPasses

Spec == Init /\ [][Next]_vars

-----------------------------------------------------------------------------
(***************************************************************************)
(* Properties.                                                             *)
(***************************************************************************)

\* Every memory has supporting evidence, and a memory in conflict has the event
\* that contradicts it, after a crash at any statement of the write.
MemoryIsGrounded ==
    \A m \in Rows :
        /\ memories[m].supports # {}
        /\ memories[m].status = "conflicted" => memories[m].opposes # {}

\* Unless a process died, a memory is not set aside for nothing: what
\* contradicts it is remembered as well, once the writers are through.
ConflictHasSuccessor ==
    crashes = 0 /\ (\A w \in Tasks : ~Writing(w)) =>
        \A m \in Rows : memories[m].status = "conflicted" =>
            \E e \in memories[m].opposes, n \in Rows \ {m} : e \in memories[n].supports

\* Two active memories with one content, or two beliefs with one claim, come
\* from two processes: the overlapping tasks of one process never make twins.
TwinsAreForeign ==
    /\ \A m, n \in Active :
        m # n /\ memories[m].content = memories[n].content
            => memories[m].by # memories[n].by
    /\ \A k, l \in Lineages :
        k # l /\ beliefs[k].claim = beliefs[l].claim => beliefs[k].by # beliefs[l].by
=============================================================================
