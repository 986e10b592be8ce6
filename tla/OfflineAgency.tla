----------------------------- MODULE OfflineAgency -----------------------------
(***************************************************************************)
(* Offline agency (services/offline_agency_service.py) and the goal it     *)
(* advances together with goal.advance (services/goal_service.py).         *)
(*                                                                         *)
(* A cycle studies the newest trace no completed episode has studied, or   *)
(* an external source, and leaves an episode, an event, an artifact, a     *)
(* step of the goal and the cost in energy, each in a statement of its     *)
(* own.  goal.advance reviews traces for the same goal; with Separate it   *)
(* runs in another process, in the middle of a cycle.  Both spend from the *)
(* daily budget of LLM calls, as the drafts of initiatives do.             *)
(***************************************************************************)
EXTENDS Integers, FiniteSets

CONSTANTS
    MaxTraces,     \* bound on the traces that are archived
    MaxCycles,     \* max_cycles_per_day
    Every,         \* external_observation_every_cycles
    HasSource,     \* is an external source configured?
    Reviews,       \* reviews that finish the goal
    Budget,        \* background_daily_llm_budget
    Separate,      \* does goal.advance run in another process?
    MaxKills     \* bound on the number of crashes

ASSUME OfflineAssumption ==
    /\ MaxTraces \in Nat
    /\ MaxCycles \in Nat
    /\ Every \in Nat \ {0}
    /\ HasSource \in BOOLEAN
    /\ Reviews \in Nat \ {0}
    /\ Budget \in Nat
    /\ Separate \in BOOLEAN
    /\ MaxKills \in Nat

VARIABLES
    archived,      \* the traces are 1 .. archived, newest last
    episode,       \* table offline_episodes, by what is studied
    events,        \* the episodes with a lifecycle.offline_episode event
    artifacts,     \* how many artifacts an episode has
    today,         \* the episodes started today
    goal,          \* the row of the self project
    reviewed,      \* the traces that its steps name
    calls, before, \* llm_calls of today and of the day before
    at,            \* where the cycle is
    subject,       \* what it studies
    trace,         \* the trace it has found, 0 if none
    held,          \* the goal it has read, if any, or one since replaced
    late,          \* has a day ended since the cycle began?
    adv, candidate, known,  \* goal.advance: where it is, its trace, what it had read
    kills

cycle == <<at, subject, trace, held, late>>
advancing == <<adv, candidate, known>>
table == <<episode, events, artifacts, today>>
project == <<goal, reviewed>>
agencyVars == <<archived, table, project, calls, before, cycle, advancing, kills>>

Traces == 1 .. MaxTraces

\* An external study; a number that no trace has.
External == MaxTraces + 1
Subjects == 1 .. External
Nothing == 0

GoalStatuses == {"absent", "active", "blocked", "done"}

AgencyTypeOK ==
    /\ archived \in 0 .. MaxTraces
    /\ episode \in [Subjects -> {"absent", "planned", "running", "completed", "failed"}]
    /\ events \in SUBSET Subjects
    /\ artifacts \in [Subjects -> 0 .. 1]
    /\ today \in 0 .. MaxCycles
    /\ goal \in [status : GoalStatuses, progress : 0 .. Reviews, due : BOOLEAN]
    /\ reviewed \in SUBSET Traces
    /\ calls \in 0 .. Budget
    /\ before \in 0 .. Budget
    /\ at \in {"idle", "planned", "study", "reflect", "event", "artifact", "complete",
               "step", "progress", "cost"}
    /\ subject \in Subjects \cup {Nothing}
    /\ trace \in Traces \cup {Nothing}
    /\ held \in {"none", "current", "replaced"}
    /\ late \in BOOLEAN
    /\ adv \in {"idle", "choose", "step", "update"}
    /\ candidate \in Traces \cup {Nothing}
    /\ known \in 0 .. MaxTraces
    /\ kills \in 0 .. MaxKills

NoGoal == [status |-> "absent", progress |-> 0, due |-> FALSE]

AgencyInit ==
    /\ archived = 0
    /\ episode = [s \in Subjects |-> "absent"]
    /\ events = {}
    /\ artifacts = [s \in Subjects |-> 0]
    /\ today = 0
    /\ goal = NoGoal
    /\ reviewed = {}
    /\ calls = 0
    /\ before = 0
    /\ at = "idle"
    /\ subject = Nothing
    /\ trace = Nothing
    /\ held = "none"
    /\ late = FALSE
    /\ adv = "idle"
    /\ candidate = Nothing
    /\ known = 0
    /\ kills = 0

\* The newest of a set of traces.
Newest(S) == IF S = {} THEN Nothing ELSE CHOOSE t \in S : \A u \in S : u <= t

Open == goal.status \in {"active", "blocked"}

Archive ==
    /\ archived < MaxTraces
    /\ archived' = archived + 1
    /\ UNCHANGED <<table, project, calls, before, cycle, advancing, kills>>

-----------------------------------------------------------------------------
(***************************************************************************)
(* run_cycle.                                                              *)
(***************************************************************************)
Unstudied == {t \in 1 .. archived : episode[t] # "completed"}

\* Mutant of StudiesExternal: every cycle does.
StudiesExternalAlways == HasSource

StudiesExternal ==
    HasSource /\ (Unstudied = {} \/ (today + 1) % Every = 0)

WithinLimit == today < MaxCycles

Chosen == IF StudiesExternal THEN External ELSE Newest(Unstudied)

\* The gates and the INSERT come before the first await.  An episode left by a
\* crash has the dedup key of its trace: nothing begins.  The key of an
\* external study, the date and the number of the cycle, is always new.
Plan ==
    /\ at = "idle"
    /\ Separate \/ adv = "idle"
    /\ WithinLimit
    /\ Chosen # Nothing
    /\ Chosen = External \/ episode[Chosen] = "absent"
    /\ today' = today + 1
    /\ episode' = [episode EXCEPT ![Chosen] = "planned"]
    /\ events' = events \ {Chosen}
    /\ artifacts' = [artifacts EXCEPT ![Chosen] = 0]
    /\ subject' = Chosen
    /\ trace' = Newest(Unstudied)
    /\ held' = IF Open THEN "current" ELSE "none"
    /\ late' = FALSE
    /\ at' = "planned"
    /\ UNCHANGED <<archived, project, calls, before, advancing, kills>>

Run ==
    /\ at = "planned"
    /\ episode' = [episode EXCEPT ![subject] = "running"]
    /\ at' = IF subject = External THEN "study" ELSE "reflect"
    /\ UNCHANGED <<archived, events, artifacts, today, project, calls, before, subject,
                   trace, held, late, advancing, kills>>

End ==
    /\ at' = "idle"
    /\ subject' = Nothing
    /\ trace' = Nothing
    /\ held' = "none"
    /\ late' = FALSE

\* The external source has been awaited.
Studied ==
    /\ at = "study"
    /\ at' = "reflect"
    /\ UNCHANGED <<archived, table, project, calls, before, subject, trace, held, late,
                   advancing, kills>>

StudyFails ==
    /\ at = "study"
    /\ episode' = [episode EXCEPT ![subject] = "failed"]
    /\ End
    /\ UNCHANGED <<archived, events, artifacts, today, project, calls, before, advancing, kills>>

Affordable(used) == used + 1 <= Budget

\* try_consume counts on the day the cycle began; without budget, or when the
\* LLM fails, the reflection is a fallback text.
Reflect ==
    /\ at = "reflect"
    /\ IF late
         THEN /\ before' = IF Affordable(before) THEN before + 1 ELSE before
              /\ calls' = calls
         ELSE /\ calls' = IF Affordable(calls) THEN calls + 1 ELSE calls
              /\ before' = before
    /\ at' = "event"
    /\ UNCHANGED <<archived, table, project, subject, trace, held, late, advancing, kills>>

\* Mutant of AfterEvent: the episode is completed before its artifact.
AfterEventComplete == "complete"

AfterEvent == "artifact"

AppendEvent ==
    /\ at = "event"
    /\ events' = events \cup {subject}
    /\ at' = AfterEvent
    /\ UNCHANGED <<archived, episode, artifacts, today, project, calls, before, subject,
                   trace, held, late, advancing, kills>>

InsertArtifact ==
    /\ at = "artifact"
    /\ artifacts' = [artifacts EXCEPT ![subject] = @ + 1]
    /\ at' = "complete"
    /\ UNCHANGED <<archived, episode, events, today, project, calls, before, subject,
                   trace, held, late, advancing, kills>>

CompleteEpisode ==
    /\ at = "complete"
    /\ episode' = [episode EXCEPT ![subject] = "completed"]
    /\ at' = IF held # "none" /\ trace # Nothing THEN "step" ELSE "cost"
    /\ UNCHANGED <<archived, events, artifacts, today, project, calls, before, subject,
                   trace, held, late, advancing, kills>>

\* The step names the trace that was found, whether or not it was studied.
AddStep ==
    /\ at = "step"
    /\ reviewed' = IF held = "current" THEN reviewed \cup {trace} ELSE reviewed
    /\ at' = "progress"
    /\ UNCHANGED <<archived, table, goal, calls, before, subject, trace, held, late,
                   advancing, kills>>

\* Mutant of Earned: the new step is counted twice.
EarnedTwice == Cardinality(reviewed) + 1

\* The steps are read again after the new one was added.
Earned == Cardinality(reviewed)

AtMostAll(n) == IF n > Reviews THEN Reviews ELSE n

\* Mutant of Advanced: a status the table does not know.
AdvancedMisspelt(g, n) ==
    [g EXCEPT !.progress = AtMostAll(n),
              !.status = IF n >= Reviews THEN "completed" ELSE "active"]

Advanced(g, n) ==
    [g EXCEPT !.progress = AtMostAll(n),
              !.status = IF n >= Reviews THEN "done" ELSE "active"]

\* The rest of the row is from the copy the cycle read before it waited.
UpdateProgress ==
    /\ at = "progress"
    /\ \/ /\ held = "current"
          /\ \E due \in IF Separate THEN BOOLEAN ELSE {goal.due} :
               goal' = Advanced([goal EXCEPT !.due = due], Earned)
       \/ held = "replaced" /\ UNCHANGED goal
    /\ at' = "cost"
    /\ UNCHANGED <<archived, table, reviewed, calls, before, subject, trace, held, late,
                   advancing, kills>>

\* _apply_offline_cost appends the next version of the organism; a version that
\* another process appended meanwhile makes the job fail.
Cost ==
    /\ at = "cost"
    /\ End
    /\ UNCHANGED <<archived, table, project, calls, before, advancing, kills>>

-----------------------------------------------------------------------------
(***************************************************************************)
(* goal.advance.                                                           *)
(***************************************************************************)
AdvFree == adv = "idle" /\ (Separate \/ at = "idle")

\* ensure_self_project.
CreateProject ==
    /\ AdvFree
    /\ ~Open
    /\ goal' = [status |-> "active", progress |-> 0, due |-> TRUE]
    /\ reviewed' = {}
    /\ held' = IF held = "current" THEN "replaced" ELSE held
    /\ UNCHANGED <<archived, table, calls, before, at, subject, trace, late, advancing, kills>>

Unreviewed == (1 .. archived) \ reviewed

\* advance_due reads the due goal, the traces and its steps, and remembers how
\* many traces they name; without a trace left, the progress it has read.
AdvanceDue ==
    /\ AdvFree
    /\ Open
    /\ goal.due
    /\ candidate' = Newest(Unreviewed)
    /\ known' = IF Unreviewed = {} THEN goal.progress ELSE Cardinality(reviewed)
    /\ adv' = IF Unreviewed = {} THEN "update" ELSE "step"
    /\ UNCHANGED <<archived, table, project, calls, before, cycle, kills>>

AdvanceStep ==
    /\ adv = "step"
    /\ reviewed' = reviewed \cup {candidate}
    /\ adv' = "update"
    /\ UNCHANGED <<archived, table, goal, calls, before, cycle, candidate, known, kills>>

AdvanceUpdate ==
    /\ adv = "update"
    /\ goal' = IF candidate = Nothing
               THEN [goal EXCEPT !.status = "blocked", !.progress = known, !.due = FALSE]
               ELSE [Advanced(goal, known + 1) EXCEPT !.due = FALSE]
    /\ adv' = "idle"
    /\ candidate' = Nothing
    /\ known' = 0
    /\ UNCHANGED <<archived, table, reviewed, calls, before, cycle, kills>>

\* next_action_at_ms is reached: a day or, for a blocked goal, six hours later.
BecomesDue ==
    /\ Open
    /\ ~goal.due
    /\ goal' = [goal EXCEPT !.due = TRUE]
    /\ UNCHANGED <<archived, table, reviewed, calls, before, cycle, advancing, kills>>

-----------------------------------------------------------------------------
\* The draft of an initiative consumes from the same budget.
DraftCall ==
    /\ Separate \/ at = "idle"
    /\ Affordable(calls)
    /\ calls' = calls + 1
    /\ UNCHANGED <<archived, table, project, before, cycle, advancing, kills>>

\* A cycle is shorter than a day.
Midnight ==
    /\ ~late
    /\ today > 0 \/ calls > 0
    /\ today' = 0
    /\ before' = calls
    /\ calls' = 0
    /\ late' = (at # "idle")
    /\ UNCHANGED <<archived, episode, events, artifacts, project, at, subject, trace, held,
                   advancing, kills>>

\* The process of the cycle dies, or the gateway cancels it.
CrashCycle ==
    /\ at # "idle"
    /\ kills < MaxKills
    /\ kills' = kills + 1
    /\ End
    /\ UNCHANGED <<archived, table, project, calls, before, advancing>>

CrashAdvance ==
    /\ adv # "idle"
    /\ kills < MaxKills
    /\ kills' = kills + 1
    /\ adv' = "idle"
    /\ candidate' = Nothing
    /\ known' = 0
    /\ UNCHANGED <<archived, table, project, calls, before, cycle>>

CycleProceeds ==
    \/ Run \/ Studied \/ StudyFails \/ Reflect \/ AppendEvent \/ InsertArtifact
    \/ CompleteEpisode \/ AddStep \/ UpdateProgress \/ Cost

AdvanceProceeds == AdvanceStep \/ AdvanceUpdate

AgencyNext ==
    \/ Archive \/ Plan \/ CycleProceeds
    \/ CreateProject \/ AdvanceDue \/ AdvanceProceeds \/ BecomesDue
    \/ DraftCall \/ Midnight \/ CrashCycle \/ CrashAdvance

AgencySpec == AgencyInit /\ [][AgencyNext]_agencyVars

\* Cycles and advances that have begun end, the job begins one whenever its
\* gates let it, and days end.
AgencyFairSpec ==
    /\ AgencySpec
    /\ WF_agencyVars(CycleProceeds)
    /\ WF_agencyVars(AdvanceProceeds)
    /\ WF_agencyVars(Plan)
    /\ WF_agencyVars(Midnight)

-----------------------------------------------------------------------------
(***************************************************************************)
(* Properties.                                                             *)
(***************************************************************************)

\* What the prompt may claim: a completed episode has its event and one
\* artifact, whatever crashed.
CompletedHasEvidence ==
    \A s \in Subjects :
        episode[s] = "completed" => s \in events /\ artifacts[s] = 1

\* The progress of the goal never exceeds the distinct traces that its steps
\* name, and it is done only with all of them, although two jobs advance it
\* from what they have read.
ProgressIsEarned ==
    /\ goal.progress <= Cardinality(reviewed)
    /\ goal.status = "done" => Cardinality(reviewed) >= Reviews

\* The LLM calls of a day stay within the budget, also those of a cycle that
\* the day's end overtakes.
BudgetKept == calls <= Budget /\ before <= Budget

\* What is counted twice over, by two jobs from what each has read, is counted
\* right: the steps of the goal and the calls of the day.
BooksAreKept == ProgressIsEarned /\ BudgetKept

\* Every trace is studied in the end, unless a cycle was killed.
TraceIsStudied ==
    \A t \in Traces :
        t <= archived ~> episode[t] = "completed" \/ kills > 0
=============================================================================
